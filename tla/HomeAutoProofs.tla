--------------------------- MODULE HomeAutoProofs ---------------------------
(***************************************************************************)
(* Theorems about HomeAutoSession for all values of the constants: any     *)
(* number of nodes, keys and sessions.                                     *)
(***************************************************************************)
EXTENDS HomeAutoSession, TLAPS

-----------------------------------------------------------------------------
(* The memory of the module.                                               *)

Last(m, action) == IF action = "start" THEN m.lastStart ELSE m.lastStop

(* What is pending is not the action that took place last.                 *)
Unrepeated(m) == m.pending # None => m.pending.key # Last(m, m.pending.action)

(* The part of the memory that decides about sessions.                     *)
Same(m, k) ==
  /\ k.active = m.active /\ k.node = m.node /\ k.pending = m.pending
  /\ k.lastStart = m.lastStart /\ k.lastStop = m.lastStop

LEMMA PersistedFacts ==
  ASSUME NEW m \in Memory
  PROVE  /\ Persisted(m) \in Memory /\ Same(m, Persisted(m)) /\ Persisted(m).blocked = m.blocked
BY DEF Memory, Persisted, Same

LEMMA FreshFacts ==
  /\ Fresh0 \in Memory /\ Fresh0.pending = None /\ Fresh0.active = None /\ Fresh0.node = None
  /\ Fresh0.blocked = "none" /\ Persisted(Fresh0) = Fresh0
  /\ Fresh0.lastStart = None /\ Fresh0.lastStop = None
<1>1. Fresh0 \in Memory
  BY DEF Memory, Fresh0, ModuleStates, Blocks
<1>2. /\ Fresh0.pending = None /\ Fresh0.active = None /\ Fresh0.node = None
      /\ Fresh0.blocked = "none" /\ Fresh0.lastStart = None /\ Fresh0.lastStop = None
      /\ Fresh0.startCandidate = None /\ Fresh0.stopCandidate = None
  BY DEF Fresh0
<1>3. Persisted(Fresh0) = Fresh0
  BY <1>1, <1>2 DEF Persisted, Memory
<1> QED
  BY <1>1, <1>2, <1>3

LEMMA CandidateFacts ==
  ASSUME NEW action \in {"start", "stop"}, NEW n \in Nodes, CanName(action)
  PROVE  NewKey(action) \in Keys /\ Candidate(action, n) \in Candidates
<1>1. NewKey(action) \in FreeKeys(action)
  BY DEF CanName, NewKey
<1>2. NewKey(action) \in Keys
  BY <1>1 DEF FreeKeys
<1> QED
  BY <1>2 DEF Candidate, Candidates

LEMMA DegradedFacts ==
  ASSUME NEW m \in Memory, NEW reason \in Blocks
  PROVE  /\ Degraded(m, reason) \in Memory /\ Same(m, Degraded(m, reason))
         /\ Degraded(m, reason).blocked = reason
<1>1. "degraded" \in ModuleStates
  BY DEF ModuleStates
<1>2. Degraded(m, reason) \in Memory
  BY <1>1 DEF Memory, Degraded
<1>3. Same(m, Degraded(m, reason)) /\ Degraded(m, reason).blocked = reason
  BY DEF Memory, Degraded, Same
<1> QED
  BY <1>2, <1>3

LEMMA DroppedFacts ==
  ASSUME NEW m \in Memory
  PROVE  /\ Dropped(m) \in Memory /\ Dropped(m).pending = None
         /\ Dropped(m).active = m.active /\ Dropped(m).node = m.node
         /\ Dropped(m).lastStart = m.lastStart /\ Dropped(m).lastStop = m.lastStop
         /\ Dropped(m).blocked = m.blocked
BY DEF Memory, Dropped

LEMMA PromotedFacts ==
  ASSUME NEW m \in Memory
  PROVE  /\ Promoted(m) \in Memory /\ Same(m, Promoted(m)) /\ Promoted(m).blocked = m.blocked
         /\ m.pending # None =>
              /\ m.pending.action = "start" =>
                   /\ Promoted(m).stopCandidate = None
                   /\ Promoted(m).startCandidate =
                        [node |-> m.pending.node, key |-> m.pending.key, ripe |-> TRUE]
              /\ m.pending.action = "stop" =>
                   /\ Promoted(m).startCandidate = None
                   /\ Promoted(m).stopCandidate =
                        [node |-> m.pending.node, key |-> m.pending.key, ripe |-> TRUE]
<1>1. CASE m.pending = None
  BY <1>1 DEF Promoted, Same
<1>2. CASE m.pending # None
  <2> DEFINE c == [node |-> m.pending.node, key |-> m.pending.key, ripe |-> TRUE]
  <2>1. c \in Candidates /\ m.pending.action \in {"start", "stop"}
    BY <1>2 DEF Memory, Actions, Candidates
  <2>2. Promoted(m) = IF m.pending.action = "start"
                      THEN [m EXCEPT !.startCandidate = c, !.stopCandidate = None]
                      ELSE [m EXCEPT !.stopCandidate = c, !.startCandidate = None]
    BY <1>2 DEF Promoted
  <2> HIDE DEF c
  <2>3. CASE m.pending.action = "start"
    <3>1. Promoted(m) = [m EXCEPT !.startCandidate = c, !.stopCandidate = None]
      BY <2>2, <2>3
    <3>2. /\ Promoted(m) \in Memory /\ Same(m, Promoted(m)) /\ Promoted(m).blocked = m.blocked
          /\ Promoted(m).stopCandidate = None /\ Promoted(m).startCandidate = c
      BY <2>1, <3>1 DEF Memory, Same
    <3> QED
      BY <1>2, <2>3, <3>2 DEF c
  <2>4. CASE m.pending.action = "stop"
    <3>1. Promoted(m) = [m EXCEPT !.stopCandidate = c, !.startCandidate = None]
      BY <2>2, <2>4
    <3>2. /\ Promoted(m) \in Memory /\ Same(m, Promoted(m)) /\ Promoted(m).blocked = m.blocked
          /\ Promoted(m).startCandidate = None /\ Promoted(m).stopCandidate = c
      BY <2>1, <3>1 DEF Memory, Same
    <3> QED
      BY <1>2, <2>4, <3>2 DEF c
  <2> QED
    BY <2>1, <2>3, <2>4
<1> QED
  BY <1>1, <1>2

LEMMA ConsumedFacts ==
  ASSUME NEW m \in Memory, NEW n \in Nodes, NEW place \in Places, NEW key \in Keys,
         CanName("stop")
  PROVE  LET k == Consumed(m, n, place, key)
         IN  k \in Memory /\ Same(m, k) /\ k.blocked = m.blocked
<1> DEFINE c == [node |-> n, key |-> key, ripe |-> FALSE]
           d == Candidate("stop", n)
<1>1. c \in Candidates /\ d \in Candidates
  BY CandidateFacts DEF Candidates
<1>2. \/ Consumed(m, n, place, key) = [m EXCEPT !.stopCandidate = None, !.startCandidate = c]
      \/ Consumed(m, n, place, key) = [m EXCEPT !.startCandidate = None, !.stopCandidate = d]
      \/ Consumed(m, n, place, key) = m
  BY DEF Consumed
<1> HIDE DEF c, d
<1> QED
  BY <1>1, <1>2 DEF Memory, Same

-----------------------------------------------------------------------------
(* A decision: what it leaves of the memory m it is made from.             *)

(* Nothing of a request on its way is lost but one that would repeat what  *)
(* took place; a request leaves only for what is pending.                  *)
Decision(m) ==
  /\ mem' \in Memory /\ disk' = Persisted(mem') /\ call' \in Calls \cup {None}
  /\ mem'.active = m.active /\ mem'.node = m.node /\ mem'.blocked = m.blocked
  /\ mem'.lastStart = m.lastStart /\ mem'.lastStop = m.lastStop
  /\ \/ mem'.pending = m.pending
     \/ m.pending = None /\ mem'.pending # None /\ Unrepeated(mem')
        /\ (mem'.pending.action = "start" <=> m.active = None)
     \/ mem'.pending = None /\ ~Unrepeated(m)
  /\ call' # None =>
       /\ mem'.pending = [action |-> call'.action, node |-> call'.node, key |-> call'.key]
       /\ call'.session \in {None, mem'.active} /\ call'.answer = None

LEMMA SettleDecides ==
  ASSUME NEW m \in Memory, NEW k \in Memory, Same(m, k), k.blocked = m.blocked, Settle(k)
  PROVE  Decision(m)
BY DEF Settle, Decision, Same

LEMMA AttemptStartDecides ==
  ASSUME NEW m \in Memory, m.active = None, m.startCandidate # None,
         m.pending # None => m.pending.action = "start" /\ m.pending.key = m.startCandidate.key
                             /\ m.pending.node = m.startCandidate.node,
         AttemptStart(m)
  PROVE  Decision(m)
<1> DEFINE c == m.startCandidate
           p == [action |-> "start", node |-> c.node, key |-> c.key]
<1>1. c \in Candidates /\ p \in Actions /\ c.key # None
  BY HomeAutoAssumption DEF Memory, Candidates, Actions, Keys
<1>2. m.pending # None => m.pending = p
  BY <1>1 DEF Memory, Actions
<1>3. CASE c.key = m.lastStart
  <2> DEFINE k == [m EXCEPT !.startCandidate = None, !.pending = None, !.state = "control_ready"]
  <2>1. /\ k \in Memory /\ k.active = m.active /\ k.node = m.node /\ k.blocked = m.blocked
        /\ k.lastStart = m.lastStart /\ k.lastStop = m.lastStop /\ k.pending = None
    <3>1. "control_ready" \in ModuleStates
      BY DEF ModuleStates
    <3>2. k \in Memory
      BY <3>1, ZenonT(40) DEF Memory
    <3> QED
      BY <3>2 DEF Memory
  <2>2. Settle(k)
    BY <1>3 DEF AttemptStart
  <2> HIDE DEF k
  <2>3. m.pending = None \/ ~Unrepeated(m)
    BY <1>2, <1>3 DEF Unrepeated, Last
  <2> QED
    BY <2>1, <2>2, <2>3 DEF Settle, Decision
<1>4. CASE c.key # m.lastStart /\ ~paired
  <2> DEFINE k == [m EXCEPT !.state = "control_ready"]
  <2>1. k \in Memory /\ Same(m, k) /\ k.blocked = m.blocked
    BY DEF Memory, ModuleStates, Same
  <2>2. Settle(k)
    BY <1>4 DEF AttemptStart
  <2> HIDE DEF k
  <2> QED
    BY <2>1, <2>2, SettleDecides
<1>5. CASE c.key # m.lastStart /\ paired
  <2> DEFINE k == [m EXCEPT !.state = "start_pending", !.pending = p]
  <2> HIDE DEF p
  <2>1. /\ k \in Memory /\ k.active = m.active /\ k.node = m.node /\ k.blocked = m.blocked
        /\ k.lastStart = m.lastStart /\ k.lastStop = m.lastStop /\ k.pending = p
    <3>1. "start_pending" \in ModuleStates /\ "stop_pending" \in ModuleStates
      BY DEF ModuleStates
    <3>2. k \in Memory
      BY <1>1, <3>1 DEF Memory
    <3> QED
      BY <3>2 DEF Memory
  <2>2. Send("start", k)
    BY <1>5 DEF AttemptStart, p
  <2> HIDE DEF k
  <2>3. p.action = "start" /\ p.node = c.node /\ p.key = c.key
    BY DEF p
  <2>4. p # None
    BY <1>1, NoneAssumption
  <2>5. call' = [action |-> "start", node |-> p.node, key |-> p.key, session |-> None, answer |-> None]
    BY <2>1, <2>2 DEF Send
  <2>6. call' \in Calls
    BY <1>1, <2>3, <2>5 DEF Calls, Actions
  <2>7. Unrepeated(k)
    BY <1>5, <2>1, <2>3 DEF Unrepeated, Last
  <2>8. p = [action |-> call'.action, node |-> call'.node, key |-> call'.key]
    BY <2>3, <2>5 DEF p
  <2>9. mem' = k /\ disk' = Persisted(k)
    BY <2>2 DEF Send
  <2> QED
    BY <1>2, <2>1, <2>3, <2>4, <2>5, <2>6, <2>7, <2>8, <2>9 DEF Decision
<1> QED
  BY <1>3, <1>4, <1>5

LEMMA AttemptStopDecides ==
  ASSUME NEW m \in Memory, m.active # None, m.stopCandidate # None,
         m.pending # None => m.pending.action = "stop" /\ m.pending.key = m.stopCandidate.key
                             /\ m.pending.node = m.stopCandidate.node,
         AttemptStop(m)
  PROVE  Decision(m)
<1> DEFINE c == m.stopCandidate
           p == [action |-> "stop", node |-> c.node, key |-> c.key]
<1>1. c \in Candidates /\ p \in Actions
  BY DEF Memory, Candidates, Actions
<1>2. m.pending # None => m.pending = p
  BY <1>1 DEF Memory, Actions
<1>3. CASE c.key = m.lastStop
  <2> DEFINE k == [m EXCEPT !.stopCandidate = None, !.pending = None, !.state = "control_ready"]
  <2>1. /\ k \in Memory /\ k.active = m.active /\ k.node = m.node /\ k.blocked = m.blocked
        /\ k.lastStart = m.lastStart /\ k.lastStop = m.lastStop /\ k.pending = None
    <3>1. "control_ready" \in ModuleStates
      BY DEF ModuleStates
    <3>2. k \in Memory
      BY <3>1 DEF Memory
    <3> QED
      BY <3>2 DEF Memory
  <2>2. Settle(k)
    BY <1>3 DEF AttemptStop
  <2> HIDE DEF k
  <2>3. m.pending = None \/ ~Unrepeated(m)
    BY <1>2, <1>3 DEF Unrepeated, Last
  <2> QED
    BY <2>1, <2>2, <2>3 DEF Settle, Decision
<1>4. CASE c.key # m.lastStop /\ ~paired
  <2> DEFINE k == [m EXCEPT !.state = "control_ready"]
  <2>1. k \in Memory /\ Same(m, k) /\ k.blocked = m.blocked
    BY DEF Memory, ModuleStates, Same
  <2>2. Settle(k)
    BY <1>4 DEF AttemptStop
  <2> HIDE DEF k
  <2> QED
    BY <2>1, <2>2, SettleDecides
<1>5. CASE c.key # m.lastStop /\ paired
  <2> DEFINE k == [m EXCEPT !.state = "stop_pending", !.pending = p]
  <2> HIDE DEF p
  <2>1. /\ k \in Memory /\ k.active = m.active /\ k.node = m.node /\ k.blocked = m.blocked
        /\ k.lastStart = m.lastStart /\ k.lastStop = m.lastStop /\ k.pending = p
    <3>1. "start_pending" \in ModuleStates /\ "stop_pending" \in ModuleStates
      BY DEF ModuleStates
    <3>2. k \in Memory
      BY <1>1, <3>1 DEF Memory
    <3> QED
      BY <3>2 DEF Memory
  <2>2. Send("stop", k)
    BY <1>5 DEF AttemptStop, p
  <2> HIDE DEF k
  <2>3. p.action = "stop" /\ p.node = c.node /\ p.key = c.key
    BY DEF p
  <2>4. p # None
    BY <1>1, NoneAssumption
  <2>5. call' = [action |-> "stop", node |-> p.node, key |-> p.key, session |-> k.active,
                 answer |-> None]
    BY <2>1, <2>2 DEF Send
  <2>6. k.active \in Sessions \cup {None}
    BY <2>1 DEF Memory
  <2>7. call' \in Calls
    BY <1>1, <2>3, <2>5, <2>6 DEF Calls, Actions
  <2>8. Unrepeated(k)
    BY <1>5, <2>1, <2>3 DEF Unrepeated, Last
  <2>9. p = [action |-> call'.action, node |-> call'.node, key |-> call'.key]
    BY <2>3, <2>5 DEF p
  <2>10. mem' = k /\ disk' = Persisted(k)
    BY <2>2 DEF Send
  <2> QED
    BY <1>2, <2>1, <2>3, <2>4, <2>5, <2>7, <2>8, <2>9, <2>10 DEF Decision
<1> QED
  BY <1>3, <1>4, <1>5

(* A candidate and what is pending, as Promoted leaves them.               *)
Led(m) ==
  m.pending # None =>
    /\ m.pending.action = "start" =>
         /\ m.stopCandidate = None
         /\ m.startCandidate = [node |-> m.pending.node, key |-> m.pending.key, ripe |-> TRUE]
    /\ m.pending.action = "stop" =>
         /\ m.startCandidate = None
         /\ m.stopCandidate = [node |-> m.pending.node, key |-> m.pending.key, ripe |-> TRUE]

LEMMA StateFacts ==
  ASSUME NEW m \in Memory, NEW s \in ModuleStates
  PROVE  LET k == [m EXCEPT !.state = s]
         IN  k \in Memory /\ Same(m, k) /\ k.blocked = m.blocked
BY DEF Memory, Same

LEMMA DecideStartDecides ==
  ASSUME NEW m \in Memory, m.active = None, Led(m), DecideStart(m)
  PROVE  Decision(m)
<1>1. ASSUME NEW s \in ModuleStates, Settle([m EXCEPT !.state = s])
      PROVE  Decision(m)
  BY <1>1, StateFacts, SettleDecides
<1>2. {"control_ready", "observe_ready", "start_pending"} \subseteq ModuleStates
  BY DEF ModuleStates
<1>3. CASE m.startCandidate # None /\ AttemptStart(m)
  <2>1. m.pending # None => m.pending.action = "start" /\ m.pending.key = m.startCandidate.key
                             /\ m.pending.node = m.startCandidate.node
    BY <1>3 DEF Led, Memory, Actions
  <2> QED
    BY <1>3, <2>1, AttemptStartDecides
<1> QED
  BY <1>1, <1>2, <1>3 DEF DecideStart

LEMMA DecideStopDecides ==
  ASSUME NEW m \in Memory, m.active # None, Led(m), NEW idle \in BOOLEAN,
         idle => CanName("stop") /\ m.node \in Nodes, DecideStop(m, idle)
  PROVE  Decision(m)
<1> DEFINE c == IF m.stopCandidate = None /\ idle THEN Candidate("stop", m.node)
                ELSE m.stopCandidate
           next == [m EXCEPT !.stopCandidate = c]
<1>1. c \in Candidates \cup {None}
  BY CandidateFacts DEF Memory
<1>2. c # None /\ ~(m.stopCandidate = None /\ idle) => m.stopCandidate = c
  OBVIOUS
<1>3. (m.stopCandidate = None /\ idle) => ~c.ripe
  BY DEF Candidate
<1>4. \/ Settle([m EXCEPT !.state = "active"])
      \/ Settle([next EXCEPT !.state = "stop_pending"])
      \/ c # None /\ c.ripe /\ Settle([next EXCEPT !.state = "active"])
      \/ c # None /\ c.ripe /\ AttemptStop(next)
  BY DEF DecideStop
<1> HIDE DEF c
<1>5. next \in Memory /\ Same(m, next) /\ next.blocked = m.blocked /\ next.stopCandidate = c
      /\ next.startCandidate = m.startCandidate
  BY <1>1 DEF Memory, Same
<1> HIDE DEF next
<1>6. ASSUME NEW k \in Memory, NEW s \in ModuleStates, Same(m, k), k.blocked = m.blocked,
             Settle([k EXCEPT !.state = s])
      PROVE  Decision(m)
  <2> DEFINE q == [k EXCEPT !.state = s]
  <2>1. q \in Memory /\ Same(k, q) /\ q.blocked = k.blocked
    BY StateFacts
  <2> HIDE DEF q
  <2>2. Same(m, q)
    BY <1>6, <2>1 DEF Same
  <2>3. Settle(q)
    BY <1>6 DEF q
  <2> QED
    BY <1>6, <2>1, <2>2, <2>3, SettleDecides
<1>7. {"active", "stop_pending"} \subseteq ModuleStates /\ Same(m, m)
  BY DEF ModuleStates, Same
<1>8. CASE c # None /\ c.ripe /\ AttemptStop(next)
  <2>1. c = m.stopCandidate
    BY <1>2, <1>3, <1>8
  <2>2. next.pending # None =>
          next.pending.action = "stop" /\ next.pending.key = next.stopCandidate.key
          /\ next.pending.node = next.stopCandidate.node
    BY <1>5, <1>8, <2>1 DEF Led, Memory, Actions, Same
  <2>3. next.active # None /\ next.stopCandidate # None
    BY <1>5, <1>8 DEF Same
  <2>4. Decision(next)
    BY <1>5, <1>8, <2>2, <2>3, AttemptStopDecides
  <2> QED
    BY <1>5, <2>4 DEF Decision, Same, Unrepeated, Last
<1> QED
  BY <1>4, <1>5, <1>6, <1>7, <1>8

LEMMA EvaluateDecides ==
  ASSUME NEW m \in Memory, NEW bypass \in BOOLEAN, NEW idle \in BOOLEAN,
         idle => CanName("stop") /\ m.node \in Nodes, Evaluate(m, bypass, idle)
  PROVE  Decision(m)
<1> DEFINE warm == [m EXCEPT !.cooling = FALSE]
           next == Promoted(warm)
<1>1. warm \in Memory /\ Same(m, warm) /\ warm.blocked = m.blocked
  BY DEF Memory, Same
<1>2. {"disabled", "cooldown"} \subseteq ModuleStates /\ Same(m, m)
  BY DEF ModuleStates, Same
<1>3. ASSUME NEW s \in ModuleStates, Settle([m EXCEPT !.state = s])
      PROVE  Decision(m)
  BY <1>3, StateFacts, SettleDecides
<1>4. CASE Settle(m)
  BY <1>2, <1>4, SettleDecides
<1>5. \/ \E s \in {"disabled", "cooldown"} : Settle([m EXCEPT !.state = s])
      \/ Settle(m)
      \/ Settle([warm EXCEPT !.state = "cooldown"])
      \/ next.active # None /\ DecideStop(next, idle)
      \/ next.active = None /\ DecideStart(next)
  BY DEF Evaluate
<1> HIDE DEF warm
<1>6. CASE Settle([warm EXCEPT !.state = "cooldown"])
  <2> DEFINE q == [warm EXCEPT !.state = "cooldown"]
  <2>1. q \in Memory /\ Same(warm, q) /\ q.blocked = warm.blocked
    BY <1>1, <1>2, StateFacts
  <2> HIDE DEF q
  <2>2. Same(m, q) /\ q.blocked = m.blocked
    BY <1>1, <2>1 DEF Same
  <2>3. Settle(q)
    BY <1>6 DEF q
  <2> QED
    BY <2>1, <2>2, <2>3, SettleDecides
<1>7. next \in Memory /\ Same(m, next) /\ next.blocked = m.blocked /\ Led(next)
  <2>1. next \in Memory /\ Same(warm, next) /\ next.blocked = warm.blocked
    BY <1>1, PromotedFacts
  <2>2. Led(next)
    BY <1>1, <2>1, PromotedFacts DEF Led, Same
  <2> QED
    BY <1>1, <2>1, <2>2 DEF Same
<1> HIDE DEF next
<1>8. ASSUME Decision(next) PROVE Decision(m)
  BY <1>7, <1>8 DEF Decision, Same, Unrepeated, Last
<1>9. CASE next.active # None /\ DecideStop(next, idle)
  BY <1>7, <1>8, <1>9, DecideStopDecides DEF Same
<1>10. CASE next.active = None /\ DecideStart(next)
  BY <1>7, <1>8, <1>10, DecideStartDecides
<1> QED
  BY <1>2, <1>3, <1>4, <1>5, <1>6, <1>9, <1>10

-----------------------------------------------------------------------------
(* The end of a call: what each class of answer leaves.                    *)

Ended(class, s) ==
  /\ call' = None /\ mem' \in Memory /\ disk' = Persisted(mem')
  /\ \/ /\ class = "ok" /\ call.action = "start"
        /\ mem'.active = s /\ mem'.node = call.node /\ mem'.pending = None /\ mem'.blocked = "none"
        /\ mem'.lastStart = call.key /\ mem'.lastStop = mem.lastStop
     \/ /\ class = "resolved" \/ (class = "ok" /\ call.action # "start")
        /\ mem'.active = None /\ mem'.node = None /\ mem'.pending = None /\ mem'.blocked = "none"
        /\ mem'.lastStart = mem.lastStart /\ mem'.lastStop = call.key
     \/ /\ class = "lifecycle"
        /\ mem'.active = None /\ mem'.node = None /\ mem'.pending = None
        /\ mem'.blocked = "lifecycle"
        /\ mem'.lastStart = mem.lastStart /\ mem'.lastStop = mem.lastStop
     \/ /\ class = "already_active" /\ s # None
        /\ mem'.active = s /\ mem'.node = call.node /\ mem'.pending = None /\ mem'.blocked = "none"
        /\ mem'.lastStart = mem.lastStart /\ mem'.lastStop = mem.lastStop
     \/ /\ class \in {"already_active", "mismatch", "missing_id"}
        /\ mem'.active = mem.active /\ mem'.node = mem.node /\ mem'.pending = None
        /\ mem'.blocked \in {"conflict", "none"}
        /\ mem'.lastStart = mem.lastStart /\ mem'.lastStop = mem.lastStop
     \/ /\ class \in {"retryable", "timeout", "stale", "fatal"}
        /\ Same(mem, mem') /\ mem'.blocked \in {"none", "failed"}

LEMMA HastyFacts ==
  ASSUME NEW m \in Memory, NEW b \in BOOLEAN
  PROVE  LET k == [m EXCEPT !.hasty = b]
         IN  k \in Memory /\ Same(m, k) /\ k.blocked = m.blocked
<1>1. LET k == [m EXCEPT !.hasty = TRUE]
      IN  k \in Memory /\ Same(m, k) /\ k.blocked = m.blocked
  BY DEF Memory, Same
<1>2. LET k == [m EXCEPT !.hasty = FALSE]
      IN  k \in Memory /\ Same(m, k) /\ k.blocked = m.blocked
  BY DEF Memory, Same
<1>3. b = TRUE \/ b = FALSE
  OBVIOUS
<1> QED
  BY <1>1, <1>2, <1>3

LEMMA EndFacts ==
  ASSUME mem \in Memory, call \in Calls, NEW s \in Sessions \cup {None}
  PROVE  /\ Started(mem, s) \in Memory /\ Started(mem, s).active = s
         /\ Started(mem, s).node = call.node /\ Started(mem, s).pending = None
         /\ Started(mem, s).blocked = "none" /\ Started(mem, s).lastStart = call.key
         /\ Started(mem, s).lastStop = mem.lastStop
         /\ Stopped(mem) \in Memory /\ Stopped(mem).active = None /\ Stopped(mem).node = None
         /\ Stopped(mem).pending = None /\ Stopped(mem).blocked = "none"
         /\ Stopped(mem).lastStart = mem.lastStart /\ Stopped(mem).lastStop = call.key
         /\ Synced(mem, s) \in Memory /\ Synced(mem, s).active = s
         /\ Synced(mem, s).node = call.node /\ Synced(mem, s).pending = None
         /\ Synced(mem, s).blocked = "none" /\ Synced(mem, s).lastStart = mem.lastStart
         /\ Synced(mem, s).lastStop = mem.lastStop
<1> DEFINE d == Dropped(mem)
<1>1. /\ d \in Memory /\ d.pending = None /\ d.lastStart = mem.lastStart /\ d.lastStop = mem.lastStop
  BY DroppedFacts
<1>2. call.node \in Nodes /\ call.key \in Keys
  BY DEF Calls
<1>a. "active" \in ModuleStates /\ "control_ready" \in ModuleStates /\ "none" \in Blocks
  BY DEF ModuleStates, Blocks
<1> HIDE DEF d
<1>3. /\ Started(mem, s) = [d EXCEPT !.state = "active", !.active = s, !.node = call.node,
                              !.blocked = "none", !.cooling = FALSE, !.settling = TRUE,
                              !.hasty = FALSE, !.lastStart = call.key]
      /\ Stopped(mem) = [d EXCEPT !.state = "control_ready", !.active = None, !.node = None,
                           !.blocked = "none", !.cooling = FALSE, !.settling = TRUE,
                           !.hasty = FALSE, !.lastStop = call.key]
      /\ Synced(mem, s) = [d EXCEPT !.state = "active", !.active = s, !.node = call.node,
                             !.blocked = "none", !.cooling = FALSE, !.hasty = FALSE]
  BY DEF Started, Stopped, Synced, d
<1>4. /\ Started(mem, s) \in Memory /\ Started(mem, s).active = s
      /\ Started(mem, s).node = call.node /\ Started(mem, s).pending = None
      /\ Started(mem, s).blocked = "none" /\ Started(mem, s).lastStart = call.key
      /\ Started(mem, s).lastStop = mem.lastStop
  <2> DEFINE f == [d EXCEPT !.state = "active", !.active = s, !.node = call.node]
             e == [f EXCEPT !.lastStart = call.key]
  <2>1. /\ f \in Memory /\ f.active = s /\ f.node = call.node /\ f.pending = None
        /\ f.lastStop = mem.lastStop
    <3>1. f \in Memory
      BY <1>1, <1>2, <1>a, ZenonT(40) DEF Memory
    <3> QED
      BY <1>1, <3>1 DEF Memory
  <2>2. e = [d EXCEPT !.state = "active", !.active = s, !.node = call.node, !.lastStart = call.key]
    BY <1>1 DEF Memory
  <2> HIDE DEF f
  <2>3. /\ e \in Memory /\ e.active = s /\ e.node = call.node /\ e.pending = None
        /\ e.lastStart = call.key /\ e.lastStop = mem.lastStop
    BY <1>2, <2>1 DEF Memory
  <2> HIDE DEF e
  <2>4. Started(mem, s) = [e EXCEPT !.blocked = "none", !.cooling = FALSE, !.settling = TRUE,
                             !.hasty = FALSE]
    BY <1>1, <1>3, <2>2 DEF Memory
  <2> QED
    BY <2>3, <2>4 DEF Memory, Blocks
<1>5. /\ Stopped(mem) \in Memory /\ Stopped(mem).active = None /\ Stopped(mem).node = None
      /\ Stopped(mem).pending = None /\ Stopped(mem).blocked = "none"
      /\ Stopped(mem).lastStart = mem.lastStart /\ Stopped(mem).lastStop = call.key
  <2> DEFINE f == [d EXCEPT !.state = "control_ready", !.active = None, !.node = None]
             e == [d EXCEPT !.state = "control_ready", !.active = None, !.node = None,
                     !.lastStop = call.key]
  <2>1. e \in Memory
    <3>1. f \in Memory
      <4> DEFINE g == [d EXCEPT !.state = "control_ready"]
      <4>1. g \in Memory
        BY <1>1, <1>a, StateFacts
      <4>2. f = [g EXCEPT !.active = None, !.node = None]
        BY <1>1 DEF Memory
      <4> HIDE DEF g
      <4> QED
        BY <4>1, <4>2 DEF Memory
    <3>2. e = [f EXCEPT !.lastStop = call.key]
      BY <1>1 DEF Memory
    <3> HIDE DEF f
    <3> QED
      BY <1>2, <3>1, <3>2, ZenonT(40) DEF Memory
  <2>2. /\ e.active = None /\ e.node = None /\ e.pending = None
        /\ e.lastStart = mem.lastStart /\ e.lastStop = call.key
    BY <1>1, <2>1 DEF Memory
  <2>3. Stopped(mem) = [e EXCEPT !.blocked = "none", !.cooling = FALSE, !.settling = TRUE,
                          !.hasty = FALSE]
    BY <1>1, <1>3 DEF Memory
  <2> HIDE DEF e
  <2>4. Stopped(mem) \in Memory
    BY <1>a, <2>1, <2>3 DEF Memory
  <2> QED
    BY <2>1, <2>2, <2>3, <2>4 DEF Memory
<1>6. /\ Synced(mem, s) \in Memory /\ Synced(mem, s).active = s
      /\ Synced(mem, s).node = call.node /\ Synced(mem, s).pending = None
      /\ Synced(mem, s).blocked = "none" /\ Synced(mem, s).lastStart = mem.lastStart
      /\ Synced(mem, s).lastStop = mem.lastStop
  <2> DEFINE e == [d EXCEPT !.state = "active", !.active = s, !.node = call.node]
  <2>1. /\ e \in Memory /\ e.active = s /\ e.node = call.node /\ e.pending = None
        /\ e.lastStart = mem.lastStart /\ e.lastStop = mem.lastStop
    <3>1. e \in Memory
      BY <1>1, <1>2, <1>a, ZenonT(40) DEF Memory
    <3> QED
      BY <1>1, <3>1 DEF Memory
  <2>2. Synced(mem, s) = [e EXCEPT !.blocked = "none", !.cooling = FALSE, !.hasty = FALSE]
    BY <1>1, <1>3 DEF Memory
  <2> HIDE DEF e
  <2> QED
    BY <2>1, <2>2 DEF Memory, Blocks
<1> QED
  BY <1>4, <1>5, <1>6

LEMMA CoolingFacts ==
  ASSUME NEW m \in Memory
  PROVE  /\ CoolingDown(m) \in Memory /\ Same(m, CoolingDown(m)) /\ CoolingDown(m).blocked = "none"
<1>1. CoolingDown(m) \in Memory
  BY DEF Memory, CoolingDown, ModuleStates, Blocks
<1>2. Same(m, CoolingDown(m)) /\ CoolingDown(m).blocked = "none"
  BY DEF Memory, CoolingDown, Same
<1> QED
  BY <1>1, <1>2

LEMMA HandleFacts ==
  ASSUME mem \in Memory, call \in Calls, NEW class \in Classes \ {"ok", "resolved"},
         NEW s \in Sessions \cup {None},
         class = "missing_id" => CanName("start"), HandleCloudError(mem, class, s)
  PROVE  Ended(class, s)
<1>1. "conflict" \in Blocks /\ "lifecycle" \in Blocks /\ "failed" \in Blocks
  BY DEF Blocks
<1>2. /\ Dropped(mem) \in Memory /\ Dropped(mem).pending = None
      /\ Dropped(mem).active = mem.active /\ Dropped(mem).node = mem.node
      /\ Dropped(mem).lastStart = mem.lastStart /\ Dropped(mem).lastStop = mem.lastStop
  BY DroppedFacts
<1>3. CASE class = "lifecycle"
  <2> DEFINE d == Degraded(Dropped(mem), "lifecycle")
  <2>1. d \in Memory /\ Same(Dropped(mem), d) /\ d.blocked = "lifecycle"
    BY <1>1, <1>2, DegradedFacts
  <2> HIDE DEF d
  <2> DEFINE k == [d EXCEPT !.active = None, !.node = None]
  <2>2. /\ k \in Memory /\ k.active = None /\ k.node = None /\ k.pending = d.pending
        /\ k.blocked = d.blocked /\ k.lastStart = d.lastStart /\ k.lastStop = d.lastStop
    BY <2>1 DEF Memory
  <2>3. Settle(k)
    BY <1>3 DEF HandleCloudError, Rejected, d
  <2> HIDE DEF k
  <2> QED
    BY <1>2, <1>3, <2>1, <2>2, <2>3 DEF Settle, Ended, Same
<1>4. CASE class = "already_active" /\ s # None
  <2>1. Settle(Synced(mem, s))
    BY <1>4 DEF HandleCloudError
  <2> QED
    BY <1>4, <2>1, EndFacts DEF Settle, Ended
<1>5. CASE class = "mismatch" \/ (class = "already_active" /\ s = None)
  <2>1. Settle(Conflicting(mem))
    BY <1>5 DEF HandleCloudError
  <2>2. /\ Conflicting(mem) \in Memory /\ Same(Dropped(mem), Conflicting(mem))
        /\ Conflicting(mem).blocked = "conflict"
    BY <1>1, <1>2, DegradedFacts DEF Conflicting
  <2> QED
    BY <1>2, <1>5, <2>1, <2>2 DEF Settle, Ended, Same
<1>6. CASE class = "missing_id"
  <2> DEFINE d == CoolingDown(Dropped(mem))
             c == Candidate("start", call.node)
             e == [d EXCEPT !.hasty = FALSE]
             k == [e EXCEPT !.startCandidate = c]
  <2>1. d \in Memory /\ Same(Dropped(mem), d) /\ d.blocked = "none"
    BY <1>2, CoolingFacts
  <2>2. c \in Candidates
    BY <1>6, CandidateFacts DEF Calls
  <2>3. Renewed(mem) = [d EXCEPT !.hasty = FALSE, !.startCandidate = c]
    BY DEF Renewed
  <2> HIDE DEF d, c
  <2>4. e \in Memory /\ Same(d, e) /\ e.blocked = d.blocked
    BY <2>1, HastyFacts
  <2>5. Renewed(mem) = k
    BY <2>1, <2>3 DEF Memory
  <2> HIDE DEF e
  <2>6. k \in Memory /\ Same(e, k) /\ k.blocked = e.blocked
    BY <2>2, <2>4 DEF Memory, Same
  <2> HIDE DEF k
  <2>7. Settle(k)
    BY <1>6, <2>5 DEF HandleCloudError
  <2> QED
    BY <1>2, <1>6, <2>1, <2>4, <2>6, <2>7 DEF Settle, Ended, Same
<1>7. CASE class \in {"retryable", "timeout"}
  <2> DEFINE d == CoolingDown(mem)
             b == class = "timeout" /\ call.action = "stop"
             k == [d EXCEPT !.hasty = b]
  <2>1. d \in Memory /\ Same(mem, d) /\ d.blocked = "none"
    BY CoolingFacts
  <2>2. b \in BOOLEAN
    OBVIOUS
  <2>3. Settle(k)
    BY <1>7 DEF HandleCloudError
  <2> HIDE DEF d, b
  <2>4. k \in Memory /\ Same(d, k) /\ k.blocked = d.blocked
    BY <2>1, <2>2, HastyFacts
  <2> HIDE DEF k
  <2> QED
    BY <1>7, <2>1, <2>3, <2>4 DEF Settle, Ended, Same
<1>8. CASE class \in {"stale", "fatal"}
  <2>1. Settle(Degraded(mem, "failed"))
    BY <1>8 DEF HandleCloudError
  <2> QED
    BY <1>1, <1>8, <2>1, DegradedFacts DEF Settle, Ended
<1> QED
  BY <1>3, <1>4, <1>5, <1>6, <1>7, <1>8 DEF Classes

LEMMA ResumeFacts ==
  ASSUME mem \in Memory, call \in Calls, NEW class \in Classes, NEW s \in Sessions \cup {None},
         class = "missing_id" => CanName("start"), Resume(class, s)
  PROVE  \/ Ended(class, s)
         \/ /\ class \in {"retryable", "timeout", "stale"}
            /\ UNCHANGED <<mem, disk>> /\ call' = [call EXCEPT !.session = None, !.answer = None]
<1>1. CASE class = "ok" /\ call.action = "start"
  BY <1>1, EndFacts DEF Resume, Settle, Ended
<1>2. CASE class = "resolved" \/ (class = "ok" /\ call.action # "start")
  BY <1>2, EndFacts DEF Resume, Settle, Ended
<1>3. CASE class \notin {"ok", "resolved"}
  BY <1>3, HandleFacts DEF Resume, FallsBack
<1> QED
  BY <1>1, <1>2, <1>3

-----------------------------------------------------------------------------
(* What a step does with memory, disk and call.                            *)

(* The disk has what memory has of the sessions and of what is pending; a  *)
(* process that is down remembers nothing.                                 *)
Standing == IF up THEN Same(mem, disk) ELSE mem = Fresh0 /\ call = None

Decides == Running /\ up' /\ Decision(mem) /\ open' = open

Resets ==
  /\ Running /\ up' /\ call' = None /\ open' = open /\ ResetDegraded
  /\ mem'.active = mem.active /\ mem'.node = mem.node /\ mem'.pending = None
  /\ mem'.lastStart = mem.lastStart /\ mem'.lastStop = mem.lastStop
  /\ disk' = Persisted(mem') /\ mem'.blocked = "none"

Stays ==
  /\ up' = up /\ call' = call /\ open' = open
  /\ \/ UNCHANGED <<mem, disk>>
     \/ /\ up /\ call = None /\ Same(mem, mem') /\ Same(mem, disk')
        /\ mem'.blocked \in {mem.blocked, "overflow"}
        /\ disk'.blocked \in {mem.blocked, disk.blocked, "overflow"}

Alters == UNCHANGED <<mem, disk, call, up>> /\ (CloudCloses \/ CloudOpens)

Serves ==
  /\ UNCHANGED <<mem, disk, up>> /\ Serve
  /\ ServeStart \/ RefuseStart \/ ServeStop \/ RefuseStop \/ Refuse

Ends ==
  /\ up /\ up' /\ call # None /\ open' = open
  /\ \E class \in Classes, s \in Sessions \cup {None} :
       /\ \/ call.answer # None /\ class = call.answer.class /\ s = call.answer.session
          \/ class = "timeout" /\ s = None
       /\ \/ Ended(class, s)
          \/ /\ class \in {"retryable", "timeout", "stale"} /\ UNCHANGED <<mem, disk>>
             /\ call' = [call EXCEPT !.session = None, !.answer = None]

Dies ==
  /\ up /\ ~up' /\ mem' = Fresh0 /\ call' = None /\ open' = open
  /\ Same(mem, disk') /\ disk'.blocked \in {disk.blocked, "failed"}

Boots ==
  /\ ~up /\ up' /\ call' = None /\ open' = open
  /\ mem' = Reconciled(Found) /\ disk' = Persisted(mem')

Moves ==
  /\ mem' \in Memory /\ disk' \in Memory /\ call' \in Calls \cup {None}
  /\ Decides \/ Resets \/ Stays \/ Alters \/ Serves \/ Ends \/ Dies \/ Boots

LEMMA ReconciledFacts ==
  ASSUME NEW d \in Memory
  PROVE  LET r == Reconciled(d)
         IN  /\ r \in Memory /\ r.active = d.active /\ r.node = d.node
             /\ r.lastStart = d.lastStart /\ r.lastStop = d.lastStop
             /\ \/ r.pending = d.pending
                \/ r.pending = None /\ (d.pending.action = "start" => ~Unrepeated(d))
             /\ (d.active = None <=> d.node = None) => r.blocked = d.blocked
<1> DEFINE done == /\ d.pending # None
                   /\ \/ d.pending.action = "start" /\ d.pending.key = d.lastStart
                      \/ d.pending.action = "stop" /\ (d.active = None \/ d.pending.key = d.lastStop)
           m == IF done THEN [d EXCEPT !.pending = None] ELSE Promoted(d)
<1>1. /\ m \in Memory /\ m.active = d.active /\ m.node = d.node /\ m.blocked = d.blocked
      /\ m.lastStart = d.lastStart /\ m.lastStop = d.lastStop
      /\ \/ m.pending = d.pending
         \/ m.pending = None /\ (d.pending.action = "start" => ~Unrepeated(d))
  <2>1. CASE done
    <3>1. m = [d EXCEPT !.pending = None]
      BY <2>1
    <3>2. d.pending.action = "start" => ~Unrepeated(d)
      BY <2>1 DEF Unrepeated, Last
    <3> HIDE DEF m
    <3> QED
      BY <3>1, <3>2 DEF Memory
  <2>2. CASE ~done
    <3>1. m = Promoted(d)
      BY <2>2
    <3> HIDE DEF m
    <3> QED
      BY <3>1, PromotedFacts DEF Same
  <2> QED
    BY <2>1, <2>2
<1>2. \/ Reconciled(d) = Degraded(m, "inconsistent") /\ ~(d.active = None <=> d.node = None)
      \/ Reconciled(d) = [m EXCEPT !.state = "active"]
      \/ Reconciled(d) = m
  BY DEF Reconciled
<1> HIDE DEF m
<1>3. CASE Reconciled(d) = m
  BY <1>1, <1>3
<1>4. CASE Reconciled(d) = [m EXCEPT !.state = "active"]
  <2>1. "active" \in ModuleStates
    BY DEF ModuleStates
  <2> QED
    BY <1>1, <1>4, <2>1, StateFacts DEF Same
<1>5. CASE Reconciled(d) = Degraded(m, "inconsistent") /\ ~(d.active = None <=> d.node = None)
  <2>1. "inconsistent" \in Blocks
    BY DEF Blocks
  <2> QED
    BY <1>1, <1>5, <2>1, DegradedFacts DEF Same
<1> QED
  BY <1>2, <1>3, <1>4, <1>5

LEMMA AnswerFacts ==
  ASSUME TypeOK, call # None, call.answer = None, NEW class \in Classes,
         NEW s \in Sessions \cup {None}, Answered(class, s)
  PROVE  /\ call' \in Calls /\ call'.action = call.action /\ call'.node = call.node
         /\ call'.key = call.key /\ call'.session = call.session
         /\ call'.answer # None /\ call'.answer.class = class /\ call'.answer.session = s
<1> DEFINE a == [class |-> class, session |-> s]
<1>1. a \in Answers /\ a.class = class /\ a.session = s /\ a # None
  BY NoneAssumption DEF Answers
<1>2. call' = [call EXCEPT !.answer = a] /\ call \in Calls
  BY DEF Answered, TypeOK
<1> HIDE DEF a
<1> QED
  BY <1>1, <1>2 DEF Calls

LEMMA FreeSessionFacts ==
  ASSUME FreeSessions # {}
  PROVE  LET s == CHOOSE s \in FreeSessions : TRUE
         IN  /\ s \in Sessions /\ s # mem.active /\ s # disk.active
             /\ \A o \in open : o.id # s
<1>1. (CHOOSE s \in FreeSessions : TRUE) \in FreeSessions
  OBVIOUS
<1> QED
  BY <1>1 DEF FreeSessions

LEMMA ObserveMoves ==
  ASSUME TypeOK, Standing, Observe \/ Tick
  PROVE  Moves
<1>1. mem \in Memory /\ Same(mem, mem)
  BY DEF TypeOK, Same
<1>2. ASSUME NEW m \in Memory, Same(mem, m), m.blocked = mem.blocked, Decision(m), Running,
             UNCHANGED <<up, open>>
      PROVE  Moves
  <2>1. Decision(mem)
    BY <1>2 DEF Decision, Same, Unrepeated, Last
  <2>2. disk' \in Memory
    BY <2>1, PersistedFacts DEF Decision
  <2> QED
    BY <1>2, <2>1, <2>2 DEF Moves, Decides, Decision, Running
<1>3. CASE Observe
  <2>1. PICK n \in Nodes, place \in Places, key \in Keys :
          /\ Running /\ CanName("stop")
          /\ LET ignored == mode = "off"
                 m == IF ignored THEN mem ELSE Consumed(mem, n, place, key)
             IN  \E bypass \in BOOLEAN : Evaluate(m, bypass, FALSE)
          /\ UNCHANGED <<up, open>>
    BY <1>3 DEF Observe
  <2> DEFINE m == IF mode = "off" THEN mem ELSE Consumed(mem, n, place, key)
  <2>2. m \in Memory /\ Same(mem, m) /\ m.blocked = mem.blocked
    BY <1>1, <2>1, ConsumedFacts
  <2>3. PICK bypass \in BOOLEAN : Evaluate(m, bypass, FALSE)
    BY <2>1
  <2> HIDE DEF m
  <2>4. Decision(m)
    BY <2>2, <2>3, EvaluateDecides
  <2> QED
    BY <1>2, <2>1, <2>2, <2>4
<1>4. CASE Tick
  <2>1. PICK idle \in BOOLEAN : TickWith(idle)
    BY <1>4 DEF Tick
  <2>2. idle => CanName("stop") /\ mem.node \in Nodes
    BY <1>1, <2>1 DEF TickWith, Memory
  <2>3. Evaluate(mem, FALSE, idle) /\ Running /\ UNCHANGED <<up, open>>
    BY <2>1 DEF TickWith
  <2>4. Decision(mem)
    BY <1>1, <2>2, <2>3, EvaluateDecides
  <2> QED
    BY <1>1, <1>2, <2>3, <2>4
<1> QED
  BY <1>3, <1>4

LEMMA QuietMoves ==
  ASSUME TypeOK, Standing,
         Ripen \/ CooldownPasses \/ SettlingPasses \/ HeartbeatConfig \/ UpdateConfig \/ ResetDegraded
           \/ Drop \/ Overflow \/ CredentialChanges
  PROVE  Moves
<1>1. /\ mem \in Memory /\ disk \in Memory /\ call \in Calls \cup {None}
      /\ Same(mem, mem) /\ Same(disk, disk)
  BY DEF TypeOK, Same
<1>2. ASSUME up, call = None, Same(mem, mem'), Same(mem, disk'), mem' \in Memory, disk' \in Memory,
             mem'.blocked \in {mem.blocked, "overflow"},
             disk'.blocked \in {mem.blocked, disk.blocked, "overflow"}, UNCHANGED <<up, call, open>>
      PROVE  Moves
  BY <1>1, <1>2 DEF Moves, Stays
<1>3. up => Same(mem, disk)
  BY DEF Standing
<1>4. CASE Ripen
  <2>1. ASSUME NEW c \in Candidates PROVE [c EXCEPT !.ripe = TRUE] \in Candidates
    BY <2>1 DEF Candidates
  <2>2. CASE /\ mem.startCandidate # None
             /\ mem' = [mem EXCEPT !.startCandidate.ripe = TRUE]
    <3> DEFINE c == [mem.startCandidate EXCEPT !.ripe = TRUE]
    <3>1. c \in Candidates
      BY <1>1, <2>1, <2>2 DEF Memory
    <3>2. mem' = [mem EXCEPT !.startCandidate = c]
      BY <2>2
    <3> HIDE DEF c
    <3>3. mem' \in Memory /\ Same(mem, mem') /\ mem'.blocked = mem.blocked
      BY <1>1, <3>1, <3>2 DEF Memory, Same
    <3> QED
      BY <1>1, <1>2, <1>3, <1>4, <3>3 DEF Ripen, Running
  <2>3. CASE /\ mem.stopCandidate # None
             /\ mem' = [mem EXCEPT !.stopCandidate.ripe = TRUE]
    <3> DEFINE c == [mem.stopCandidate EXCEPT !.ripe = TRUE]
    <3>1. c \in Candidates
      BY <1>1, <2>1, <2>3 DEF Memory
    <3>2. mem' = [mem EXCEPT !.stopCandidate = c]
      BY <2>3
    <3> HIDE DEF c
    <3>3. mem' \in Memory /\ Same(mem, mem') /\ mem'.blocked = mem.blocked
      BY <1>1, <3>1, <3>2 DEF Memory, Same
    <3> QED
      BY <1>1, <1>2, <1>3, <1>4, <3>3 DEF Ripen, Running
  <2> QED
    BY <1>4, <2>2, <2>3 DEF Ripen
<1>5. CASE CooldownPasses
  <2>1. /\ mem' \in Memory /\ Same(mem, mem') /\ mem'.blocked = mem.blocked
        /\ disk' \in Memory /\ Same(disk, disk') /\ disk'.blocked = disk.blocked
    BY <1>1, <1>5 DEF CooldownPasses, Memory, Same
  <2> QED
    BY <1>2, <1>3, <1>5, <2>1 DEF CooldownPasses, Running, Same
<1>6. CASE SettlingPasses
  <2>1. /\ mem' \in Memory /\ Same(mem, mem') /\ mem'.blocked = mem.blocked
        /\ disk' \in Memory /\ Same(disk, disk') /\ disk'.blocked = disk.blocked
    BY <1>1, <1>6 DEF SettlingPasses, Memory, Same
  <2> QED
    BY <1>2, <1>3, <1>6, <2>1 DEF SettlingPasses, Running, Same
<1>7. CASE HeartbeatConfig \/ UpdateConfig
  <2>1. Running /\ disk' = Persisted(mem) /\ UNCHANGED <<mem, call, up, open>>
    BY <1>7 DEF HeartbeatConfig, UpdateConfig, ApplyConfig
  <2> QED
    BY <1>1, <1>2, <2>1, PersistedFacts DEF Running
<1>8. CASE ResetDegraded
  <2> DEFINE d == Dropped(mem)
             t == IF mem.state = "degraded" THEN "control_ready" ELSE d.state
             e == [d EXCEPT !.blocked = "none", !.cooling = FALSE, !.settling = FALSE,
                     !.hasty = FALSE]
             m == [e EXCEPT !.state = t]
  <2>1. /\ d \in Memory /\ d.pending = None /\ d.active = mem.active /\ d.node = mem.node
        /\ d.lastStart = mem.lastStart /\ d.lastStop = mem.lastStop
    BY <1>1, DroppedFacts
  <2>2. Settle([d EXCEPT !.blocked = "none", !.cooling = FALSE, !.settling = FALSE,
                  !.hasty = FALSE, !.state = t])
    BY <1>8 DEF ResetDegraded
  <2>3. t \in ModuleStates
    BY <2>1 DEF Memory, ModuleStates
  <2> HIDE DEF d, t
  <2>4. m = [d EXCEPT !.blocked = "none", !.cooling = FALSE, !.settling = FALSE,
               !.hasty = FALSE, !.state = t]
    BY <2>1 DEF Memory
  <2>5. /\ e \in Memory /\ e.pending = None /\ e.active = mem.active /\ e.node = mem.node
        /\ e.lastStart = mem.lastStart /\ e.lastStop = mem.lastStop /\ e.blocked = "none"
    BY <2>1, ZenonT(40) DEF Memory, Blocks
  <2> HIDE DEF e
  <2>6. m \in Memory /\ Same(e, m) /\ m.blocked = e.blocked
    BY <2>3, <2>5, StateFacts
  <2>7. Settle(m)
    BY <2>2, <2>4
  <2> HIDE DEF m
  <2>8. Persisted(m) \in Memory
    BY <2>6, PersistedFacts
  <2>9. Running /\ UNCHANGED <<up, open>>
    BY <1>8 DEF ResetDegraded
  <2> QED
    BY <1>8, <2>5, <2>6, <2>7, <2>8, <2>9 DEF Settle, Same, Moves, Resets, Running
<1>9. CASE Drop \/ CredentialChanges
  BY <1>1, <1>9 DEF Drop, CredentialChanges, Moves, Stays
<1>10. CASE Overflow
  <2>1. /\ Degraded(mem, "overflow") \in Memory /\ Same(mem, Degraded(mem, "overflow"))
        /\ Degraded(mem, "overflow").blocked = "overflow"
    BY <1>1, DegradedFacts DEF Blocks
  <2>2. /\ mem' = Degraded(mem, "overflow") /\ disk' = Persisted(mem') /\ call' = None /\ Running
        /\ UNCHANGED <<up, open>>
    BY <1>10 DEF Overflow, Settle
  <2>3. disk' \in Memory /\ Same(mem', disk') /\ disk'.blocked = "overflow"
    BY <2>1, <2>2, PersistedFacts
  <2> QED
    BY <1>2, <2>1, <2>2, <2>3 DEF Running, Same
<1> QED
  BY <1>4, <1>5, <1>6, <1>7, <1>8, <1>9, <1>10

LEMMA CloudMoves ==
  ASSUME TypeOK, Cloud
  PROVE  Moves
<1>1. mem \in Memory /\ disk \in Memory /\ call \in Calls \cup {None}
  BY DEF TypeOK
<1>2. CASE CloudCloses \/ CloudOpens
  BY <1>1, <1>2 DEF CloudCloses, CloudOpens, Moves, Alters
<1>3. CASE ServeStart \/ RefuseStart \/ ServeStop \/ RefuseStop \/ Refuse
  <2>1. Serve
    BY <1>3 DEF ServeStart, RefuseStart, ServeStop, RefuseStop, Refuse
  <2>2. \E class \in Classes, s \in Sessions \cup {None} : Answered(class, s)
    <3>1. \A o \in open : o.id \in Sessions \cup {None}
      BY DEF TypeOK
    <3>2. {"ok", "resolved", "lifecycle", "already_active", "missing_id", "mismatch", "stale",
           "retryable", "fatal"} \subseteq Classes
      BY DEF Classes
    <3>3. CASE ServeStart
      BY <3>1, <3>2, <3>3, FreeSessionFacts DEF ServeStart
    <3>4. CASE RefuseStart
      BY <3>1, <3>2, <3>4 DEF RefuseStart
    <3>5. CASE ServeStop
      BY <3>2, <3>5 DEF ServeStop
    <3>6. CASE RefuseStop \/ Refuse
      BY <3>2, <3>6 DEF RefuseStop, Refuse
    <3> QED
      BY <1>3, <3>3, <3>4, <3>5, <3>6
  <2>3. call' \in Calls
    BY <2>1, <2>2, AnswerFacts DEF Serve
  <2> QED
    BY <1>1, <1>3, <2>1, <2>3 DEF Serve, Moves, Serves
<1> QED
  BY <1>2, <1>3 DEF Cloud

LEMMA EndMoves ==
  ASSUME TypeOK, Receive \/ Lose
  PROVE  Moves
<1>1. mem \in Memory /\ disk \in Memory /\ call # None /\ call \in Calls /\ up /\ up' /\ open' = open
  BY DEF TypeOK, Receive, Lose
<1>2. ASSUME NEW class \in Classes, NEW s \in Sessions \cup {None},
             class = "missing_id" => CanName("start"), Resume(class, s),
             \/ call.answer # None /\ class = call.answer.class /\ s = call.answer.session
             \/ class = "timeout" /\ s = None
      PROVE  Moves
  <2>1. \/ Ended(class, s)
        \/ /\ class \in {"retryable", "timeout", "stale"}
           /\ UNCHANGED <<mem, disk>> /\ call' = [call EXCEPT !.session = None, !.answer = None]
    BY <1>1, <1>2, ResumeFacts
  <2>2. Ends
    BY <1>1, <1>2, <2>1 DEF Ends
  <2>3. CASE Ended(class, s)
    BY <2>2, <2>3, PersistedFacts DEF Ended, Moves
  <2>4. CASE UNCHANGED <<mem, disk>> /\ call' = [call EXCEPT !.session = None, !.answer = None]
    BY <1>1, <2>2, <2>4 DEF Moves, Calls
  <2> QED
    BY <2>1, <2>3, <2>4
<1>3. CASE Receive
  <2>1. call.answer.class \in Classes /\ call.answer.session \in Sessions \cup {None}
    BY <1>1, <1>3 DEF Receive, Calls, Answers
  <2> QED
    BY <1>2, <1>3, <2>1 DEF Receive
<1>4. CASE Lose
  <2>1. "timeout" \in Classes
    BY DEF Classes
  <2> QED
    BY <1>2, <1>4, <2>1 DEF Lose
<1> QED
  BY <1>3, <1>4

LEMMA AllMove ==
  ASSUME TypeOK, Standing, [Next]_vars
  PROVE  Moves
<1>1. mem \in Memory /\ disk \in Memory /\ call \in Calls \cup {None}
  BY DEF TypeOK
<1>2. CASE Receiver
  BY <1>2, ObserveMoves, QuietMoves, EndMoves DEF Receiver
<1>3. CASE Cloud
  BY <1>3, CloudMoves
<1>4. CASE Crash \/ Shutdown
  <2>1. /\ up /\ ~up' /\ mem' = Fresh0 /\ call' = None /\ open' = open /\ Same(mem, disk)
    BY <1>4 DEF Crash, Shutdown, Down, Standing
  <2>2. disk' = disk \/ disk' = Persisted(Degraded(mem, "failed"))
    BY <1>4 DEF Crash, Shutdown
  <2>3. /\ Degraded(mem, "failed") \in Memory /\ Same(mem, Degraded(mem, "failed"))
        /\ Degraded(mem, "failed").blocked = "failed"
    BY <1>1, DegradedFacts DEF Blocks
  <2>4. disk' \in Memory /\ Same(mem, disk') /\ disk'.blocked \in {disk.blocked, "failed"}
    BY <1>1, <2>1, <2>2, <2>3, PersistedFacts DEF Same
  <2> QED
    BY <2>1, <2>4, FreshFacts DEF Moves, Dies
<1>5. CASE Boot
  <2>1. Found \in Memory
    BY <1>1, FreshFacts DEF Found
  <2>2. Reconciled(Found) \in Memory
    BY <2>1, ReconciledFacts
  <2> QED
    BY <1>5, <2>2, PersistedFacts DEF Boot, Settle, Moves, Boots
<1>6. CASE UNCHANGED vars
  BY <1>1, <1>6 DEF vars, Moves, Stays
<1> QED
  BY <1>2, <1>3, <1>4, <1>5, <1>6 DEF Next

-----------------------------------------------------------------------------
(* Type correctness.                                                       *)

(* While a call is out, its request is on the disk.                        *)
Calling ==
  call # None =>
    /\ mem.pending = [action |-> call.action, node |-> call.node, key |-> call.key]
    /\ disk = Persisted(mem) /\ call.session \in {None, mem.active}

Steady == TypeOK /\ Standing /\ Calling /\ Unrepeated(mem) /\ Unrepeated(disk)

Surrounded ==
  /\ fact \in [Nodes -> Places]
  /\ again \subseteq Keys
  /\ mode \in Modes
  /\ config \in [local : Modes, source : {"local_fallback", "cloud_managed"}]
  /\ paired \in BOOLEAN /\ waiting \in BOOLEAN /\ up \in BOOLEAN
  /\ open \subseteq [id : Sessions, key : Keys \cup {None}]

LEMMA SurroundedKept ==
  ASSUME TypeOK, [Next]_vars
  PROVE  Surrounded'
<1>1. Surrounded
  BY DEF TypeOK, Surrounded
<1>2. fact' \in [Nodes -> Places] /\ again' \subseteq Keys
  <2>1. CASE Observe
    BY <1>1, <2>1 DEF Observe, Surrounded
  <2>2. CASE Crash \/ Shutdown
    <3>1. KeysOf("start", mem) \subseteq Keys \cup {None}
      BY DEF KeysOf, TypeOK, Memory, Candidates, Actions
    <3> QED
      BY <1>1, <2>2, <3>1 DEF Crash, Shutdown, Down, Places, Surrounded
  <2>3. CASE ~Observe /\ ~Crash /\ ~Shutdown
    <3>1. UNCHANGED <<fact, again>>
      BY <2>3 DEF Next, Receiver, Cloud, Tick, TickWith, Ripen, CooldownPasses, SettlingPasses,
         HeartbeatConfig, UpdateConfig, ApplyConfig, ResetDegraded, Drop, Overflow,
         CredentialChanges, Receive, Lose, ServeStart, RefuseStart, ServeStop, RefuseStop, Refuse,
         Serve, CloudCloses, CloudOpens, Boot, vars
    <3> QED
      BY <1>1, <3>1 DEF Surrounded
  <2> QED
    BY <2>1, <2>2, <2>3
<1>3. /\ mode' \in Modes
      /\ config' \in [local : Modes, source : {"local_fallback", "cloud_managed"}]
  <2>1. Offers \subseteq Modes /\ mode \in Modes /\ config.local \in Modes
    BY <1>1, HomeAutoAssumption DEF Surrounded, Modes
  <2>2. ASSUME NEW to \in Modes, NEW source \in {"local_fallback", "cloud_managed"},
               config' = [config EXCEPT !.source = source]
        PROVE  config' \in [local : Modes, source : {"local_fallback", "cloud_managed"}]
    BY <1>1, <2>2 DEF Surrounded
  <2>3. CASE HeartbeatConfig
    BY <2>1, <2>2, <2>3 DEF HeartbeatConfig, ApplyConfig
  <2>4. CASE UpdateConfig
    <3>1. PICK to \in Offers : config' = [config EXCEPT !.local = to]
                               /\ mode' \in {mode, to}
      BY <2>4 DEF UpdateConfig
    <3> QED
      BY <1>1, <2>1, <3>1 DEF Surrounded
  <2>5. CASE Boot
    BY <2>1, <2>2, <2>5 DEF Boot
  <2>6. CASE ~HeartbeatConfig /\ ~UpdateConfig /\ ~Boot
    <3>1. UNCHANGED <<mode, config>>
      BY <2>6 DEF Next, Receiver, Cloud, Observe, Tick, TickWith, Ripen, CooldownPasses,
         SettlingPasses, ResetDegraded, Drop, Overflow, CredentialChanges, Receive, Lose,
         ServeStart, RefuseStart, ServeStop, RefuseStop, Refuse, Serve, CloudCloses, CloudOpens,
         Crash, Shutdown, Down, vars
    <3> QED
      BY <1>1, <3>1 DEF Surrounded
  <2> QED
    BY <2>3, <2>4, <2>5, <2>6
<1>4. paired' \in BOOLEAN /\ waiting' \in BOOLEAN /\ up' \in BOOLEAN
  <2>1. paired' \in {paired, ~paired} /\ waiting' \in {waiting, TRUE, FALSE}
        /\ up' \in {up, TRUE, FALSE}
    BY DEF Next, Receiver, Cloud, Observe, Tick, TickWith, Ripen, CooldownPasses, SettlingPasses,
       HeartbeatConfig, UpdateConfig, ApplyConfig, ResetDegraded, Drop, Overflow,
       CredentialChanges, Receive, Lose, ServeStart, RefuseStart, ServeStop, RefuseStop, Refuse,
       Serve, CloudCloses, CloudOpens, Crash, Shutdown, Down, Boot, vars
  <2> QED
    BY <1>1, <2>1 DEF Surrounded
<1>5. open' \subseteq [id : Sessions, key : Keys \cup {None}]
  <2>1. CASE ServeStart
    <3>1. call.key \in Keys
      BY <2>1 DEF ServeStart, Serve, TypeOK, Calls
    <3>2. CASE open' = open
      BY <1>1, <3>2 DEF Surrounded
    <3>3. CASE open' # open
      <4> DEFINE s == CHOOSE s \in FreeSessions : TRUE
      <4>1. open' = open \cup {[id |-> s, key |-> call.key]} /\ FreeSessions # {}
        BY <2>1, <3>3 DEF ServeStart
      <4>2. s \in Sessions
        BY <4>1, FreeSessionFacts
      <4> HIDE DEF s
      <4> QED
        BY <1>1, <3>1, <4>1, <4>2 DEF Surrounded
    <3> QED
      BY <3>2, <3>3
  <2>2. CASE CloudOpens
    BY <2>2 DEF CloudOpens, FreeSessions
  <2>3. CASE ~ServeStart /\ ~CloudOpens
    <3>1. open' \subseteq open
      BY <2>3 DEF Next, Receiver, Cloud, Observe, Tick, TickWith, Ripen, CooldownPasses,
         SettlingPasses, HeartbeatConfig, UpdateConfig, ApplyConfig, ResetDegraded, Drop, Overflow,
         CredentialChanges, Receive, Lose, RefuseStart, ServeStop, RefuseStop, Refuse, Serve,
         CloudCloses, Crash, Shutdown, Down, Boot, vars
    <3> QED
      BY <1>1, <3>1 DEF Surrounded
  <2> QED
    BY <2>1, <2>2, <2>3
<1> QED
  BY <1>2, <1>3, <1>4, <1>5 DEF Surrounded

LEMMA SteadyInitially == Init => Steady
<1> SUFFICES ASSUME Init PROVE Steady
  OBVIOUS
<1>1. TypeOK
  BY FreshFacts, HomeAutoAssumption DEF Init, TypeOK, Places, Modes
<1> QED
  BY <1>1, FreshFacts DEF Init, Steady, Standing, Same, Calling, Unrepeated

(* What a fallback leaves of the call.                                     *)
LEMMA FallbackFacts ==
  ASSUME call \in Calls, call' = [call EXCEPT !.session = None, !.answer = None]
  PROVE  /\ call'.action = call.action /\ call'.node = call.node /\ call'.key = call.key
         /\ call'.session = None /\ call'.answer = None
BY DEF Calls

LEMMA ServedFacts ==
  ASSUME TypeOK, Serves
  PROVE  /\ call # None /\ call.answer = None /\ call' # None /\ call' \in Calls
         /\ call'.action = call.action /\ call'.node = call.node
         /\ call'.key = call.key /\ call'.session = call.session
<1>1. \E class \in Classes, s \in Sessions \cup {None} : Answered(class, s)
  <2>1. \A o \in open : o.id \in Sessions \cup {None}
    BY DEF TypeOK
  <2>2. {"ok", "resolved", "lifecycle", "already_active", "missing_id", "mismatch", "stale",
         "retryable", "fatal"} \subseteq Classes
    BY DEF Classes
  <2>3. CASE ServeStart
    BY <2>1, <2>2, <2>3, FreeSessionFacts DEF ServeStart
  <2>4. CASE RefuseStart
    BY <2>1, <2>2, <2>4 DEF RefuseStart
  <2>5. CASE ServeStop
    BY <2>2, <2>5 DEF ServeStop
  <2>6. CASE RefuseStop \/ Refuse
    BY <2>2, <2>6 DEF RefuseStop, Refuse
  <2> QED
    BY <2>3, <2>4, <2>5, <2>6 DEF Serves
<1>2. call # None /\ call.answer = None
  BY DEF Serves, Serve
<1> QED
  BY <1>1, <1>2, AnswerFacts, NoneAssumption

LEMMA SteadyKept == Steady /\ [Next]_vars => Steady'
<1> SUFFICES ASSUME Steady, [Next]_vars PROVE Steady'
  OBVIOUS
<1>1. Moves
  BY AllMove DEF Steady
<1>2. TypeOK'
  BY <1>1, SurroundedKept DEF Steady, Moves, Surrounded, TypeOK
<1>3. TypeOK /\ Standing /\ Calling /\ Unrepeated(mem) /\ Unrepeated(disk)
  BY DEF Steady
<1>4. mem' \in Memory /\ disk' \in Memory
  BY <1>1 DEF Moves
<1>a. ASSUME NEW m, NEW k, Same(m, k), Unrepeated(m) PROVE Unrepeated(k)
  BY <1>a DEF Same, Unrepeated, Last
<1>5. CASE Decides
  <2>1. Decision(mem) /\ up'
    BY <1>5 DEF Decides
  <2>2. Same(mem', disk') /\ disk' = Persisted(mem')
    BY <1>4, <2>1, PersistedFacts DEF Decision
  <2>3. Unrepeated(mem')
    BY <1>3, <2>1 DEF Decision, Unrepeated, Last
  <2>4. Unrepeated(disk')
    BY <1>a, <2>2, <2>3
  <2>5. Calling'
    BY <2>1, <2>2 DEF Calling, Decision
  <2> QED
    BY <1>2, <2>1, <2>2, <2>3, <2>4, <2>5 DEF Steady, Standing
<1>6. CASE Resets
  <2>1. Same(mem', disk')
    BY <1>4, <1>6, PersistedFacts DEF Resets
  <2>2. Unrepeated(mem') /\ Unrepeated(disk')
    BY <1>6, <2>1 DEF Resets, Unrepeated, Same
  <2> QED
    BY <1>2, <1>6, <2>1, <2>2 DEF Steady, Standing, Calling, Resets
<1>7. CASE Stays
  <2>1. CASE UNCHANGED <<mem, disk>>
    BY <1>2, <1>3, <1>7, <2>1 DEF Stays, Steady, Standing, Calling
  <2>2. CASE up /\ call = None /\ Same(mem, mem') /\ Same(mem, disk')
    BY <1>2, <1>3, <1>7, <1>a, <2>2 DEF Stays, Steady, Standing, Calling, Same
  <2> QED
    BY <1>7, <2>1, <2>2 DEF Stays
<1>8. CASE Alters
  BY <1>2, <1>3, <1>8 DEF Alters, Steady, Standing, Calling
<1>9. CASE Serves
  <2>1. /\ call # None /\ call'.action = call.action /\ call'.node = call.node
        /\ call'.key = call.key /\ call'.session = call.session
    BY <1>3, <1>9, ServedFacts
  <2>2. UNCHANGED <<mem, disk, up>>
    BY <1>9 DEF Serves
  <2>3. up
    BY <1>3, <2>1 DEF Standing
  <2> QED
    BY <1>2, <1>3, <2>1, <2>2, <2>3 DEF Steady, Standing, Calling
<1>10. CASE Ends
  <2>1. call \in Calls /\ call # None
    BY <1>3, <1>10 DEF Ends, TypeOK
  <2>2. up /\ up'
    BY <1>10 DEF Ends
  <2>3. CASE /\ UNCHANGED <<mem, disk>>
             /\ call' = [call EXCEPT !.session = None, !.answer = None]
    BY <1>2, <1>3, <2>1, <2>2, <2>3, FallbackFacts DEF Steady, Standing, Calling
  <2>4. ASSUME NEW class, NEW s, Ended(class, s) PROVE Steady'
    <3>1. call' = None /\ Same(mem', disk')
      BY <1>4, <2>4, PersistedFacts DEF Ended
    <3>2. mem'.pending = None \/ Same(mem, mem')
      BY <2>4 DEF Ended
    <3>3. Unrepeated(mem')
      BY <1>3, <1>a, <3>2 DEF Unrepeated
    <3>4. Unrepeated(disk')
      BY <1>a, <3>1, <3>3
    <3> QED
      BY <1>2, <2>2, <3>1, <3>3, <3>4 DEF Steady, Standing, Calling
  <2> QED
    BY <1>10, <2>3, <2>4 DEF Ends
<1>11. CASE Dies
  <2>1. Unrepeated(disk')
    BY <1>3, <1>11, <1>a DEF Dies
  <2>2. Unrepeated(mem')
    BY <1>11, FreshFacts DEF Dies, Unrepeated
  <2> QED
    BY <1>2, <1>11, <2>1, <2>2 DEF Dies, Steady, Standing, Calling
<1>12. CASE Boots
  <2>1. Found \in Memory /\ Unrepeated(Found)
    BY <1>3, FreshFacts DEF Found, TypeOK, Unrepeated
  <2>2. /\ mem'.lastStart = Found.lastStart /\ mem'.lastStop = Found.lastStop
        /\ mem'.pending = Found.pending \/ mem'.pending = None
    BY <1>12, <2>1, ReconciledFacts DEF Boots
  <2>3. Unrepeated(mem')
    BY <2>1, <2>2 DEF Unrepeated, Last
  <2>4. Same(mem', disk')
    BY <1>4, <1>12, PersistedFacts DEF Boots
  <2>5. Unrepeated(disk')
    BY <1>a, <2>3, <2>4
  <2> QED
    BY <1>2, <1>12, <2>3, <2>4, <2>5 DEF Boots, Steady, Standing, Calling
<1> QED
  BY <1>1, <1>5, <1>6, <1>7, <1>8, <1>9, <1>10, <1>11, <1>12 DEF Moves

(* The module's memory, its file, the call in flight and the cloud's       *)
(* sessions keep to their types.                                           *)
THEOREM HomeAutoTypeCorrect == Spec => []TypeOK
<1>1. Steady => TypeOK
  BY DEF Steady
<1> QED
  BY <1>1, SteadyInitially, SteadyKept, PTL DEF Spec

(* A start or stop is on disk, under its key, before the request leaves    *)
(* and until it has ended (attemptStart, attemptStop).                     *)
THEOREM RequestsAlwaysOnDisk == Spec => []CallOnDisk
<1>1. Steady => CallOnDisk
  <2> SUFFICES ASSUME Steady, call # None PROVE CallOnDisk
    BY DEF CallOnDisk
  <2>1. Same(mem, disk) /\ mem \in Memory
    BY PersistedFacts DEF Steady, Calling, TypeOK
  <2> QED
    BY <2>1 DEF Steady, Calling, CallOnDisk, Same
<1> QED
  BY <1>1, SteadyInitially, SteadyKept, PTL DEF Spec

-----------------------------------------------------------------------------
(* What is pending fits the session, when the cloud names the sessions it  *)
(* opens.                                                                  *)

Fits(m) ==
  /\ m.pending # None => (m.pending.action = "start" <=> m.active = None)
  /\ m.active = None <=> m.node = None
  /\ m.blocked # "inconsistent"

(* The answer to a start that took place names the session.                *)
Named ==
  call # None /\ call.answer # None /\ call.answer.class = "ok" /\ call.action = "start"
    => call.answer.session # None

Fitting == Fits(mem) /\ Fits(disk) /\ Named

LEMMA NamedKept ==
  ASSUME "blank" \notin Events, Steady, Named, [Next]_vars
  PROVE  Named'
<1>1. Moves /\ TypeOK
  BY AllMove DEF Steady
<1>2. CASE Serves
  <2>1. call # None /\ call.answer = None
    BY <1>1, <1>2, ServedFacts
  <2>2. \A o \in open : o.id \in Sessions /\ o.id # None
    BY <1>1, HomeAutoAssumption DEF TypeOK, Sessions
  <2>3. CASE ServeStart
    <3>1. \E id \in Sessions : Answered("ok", id)
      BY <2>2, <2>3, FreeSessionFacts DEF ServeStart
    <3>2. PICK id \in Sessions : Answered("ok", id)
      BY <3>1
    <3>3. id # None /\ "ok" \in Classes
      BY HomeAutoAssumption DEF Sessions, Classes
    <3>4. call'.answer.session = id
      BY <1>1, <2>1, <3>2, <3>3, AnswerFacts
    <3> QED
      BY <3>3, <3>4 DEF Named
  <2>4. CASE ServeStop
    <3>1. call'.action = call.action /\ call.action = "stop"
      BY <1>1, <1>2, <2>4, ServedFacts DEF ServeStop
    <3> QED
      BY <3>1 DEF Named
  <2>5. CASE RefuseStart \/ RefuseStop \/ Refuse
    <3>1. \A o \in open : o.id \in Sessions \cup {None}
      BY <2>2
    <3>2. \E class \in Classes \ {"ok"}, s \in Sessions \cup {None} : Answered(class, s)
      BY <2>5, <3>1 DEF RefuseStart, RefuseStop, Refuse, Classes
    <3>3. call'.answer.class # "ok"
      BY <1>1, <2>1, <3>2, AnswerFacts
    <3> QED
      BY <3>3 DEF Named
  <2> QED
    BY <1>2, <2>3, <2>4, <2>5 DEF Serves
<1>3. CASE Ends
  <2>1. call \in Calls
    BY <1>1, <1>3 DEF Ends, TypeOK
  <2>2. call' = None \/ call' = [call EXCEPT !.session = None, !.answer = None]
    BY <1>3 DEF Ends, Ended
  <2> QED
    BY <2>1, <2>2, FallbackFacts DEF Named
<1>4. CASE Decides
  BY <1>4 DEF Decides, Decision, Named
<1>5. CASE Resets \/ Stays \/ Alters \/ Dies \/ Boots
  BY <1>5 DEF Resets, Stays, Alters, Dies, Boots, Named
<1> QED
  BY <1>1, <1>2, <1>3, <1>4, <1>5 DEF Moves

LEMMA FittingKept == "blank" \notin Events /\ Steady /\ Fitting /\ [Next]_vars => Fitting'
<1> SUFFICES ASSUME "blank" \notin Events, Steady, Fitting, [Next]_vars PROVE Fitting'
  OBVIOUS
<1>1. Moves /\ Named' /\ Standing /\ TypeOK /\ Fits(mem) /\ Fits(disk)
  BY AllMove, NamedKept DEF Steady, Fitting
<1>2. mem' \in Memory /\ disk' \in Memory
  BY <1>1 DEF Moves
<1>3. ASSUME Fits(mem'), disk' = Persisted(mem') PROVE Fitting'
  <2>1. Same(mem', disk') /\ disk'.blocked = mem'.blocked
    BY <1>2, <1>3, PersistedFacts
  <2>2. Fits(disk')
    BY <1>3, <2>1 DEF Fits, Same
  <2> QED
    BY <1>1, <1>3, <2>2 DEF Fitting
<1>4. CASE Decides
  <2>1. Decision(mem)
    BY <1>4 DEF Decides
  <2>2. Fits(mem')
    BY <1>1, <2>1 DEF Fits, Decision
  <2> QED
    BY <1>3, <2>1, <2>2 DEF Decision
<1>5. CASE Resets
  BY <1>1, <1>3, <1>5 DEF Resets, Fits
<1>6. CASE Stays
  <2>1. CASE UNCHANGED <<mem, disk>>
    BY <1>1, <2>1 DEF Fitting
  <2>2. CASE /\ Same(mem, mem') /\ Same(mem, disk')
             /\ mem'.blocked \in {mem.blocked, "overflow"}
             /\ disk'.blocked \in {mem.blocked, disk.blocked, "overflow"}
    <3>1. Fits(mem')
      BY <1>1, <2>2 DEF Fits, Same
    <3>2. Fits(disk')
      BY <1>1, <2>2 DEF Fits, Same
    <3> QED
      BY <1>1, <3>1, <3>2 DEF Fitting
  <2> QED
    BY <1>6, <2>1, <2>2 DEF Stays
<1>7. CASE Alters \/ Serves
  BY <1>1, <1>7 DEF Alters, Serves, Fitting
<1>8. CASE Ends
  <2>1. call \in Calls /\ call.node \in Nodes
    BY <1>1, <1>8 DEF Ends, TypeOK, Calls
  <2>2. call.node # None
    BY <2>1, HomeAutoAssumption
  <2>3. CASE UNCHANGED <<mem, disk>>
    BY <1>1, <2>3 DEF Fitting
  <2>4. ASSUME NEW class \in Classes, NEW s \in Sessions \cup {None},
               \/ call.answer # None /\ class = call.answer.class /\ s = call.answer.session
               \/ class = "timeout" /\ s = None,
               Ended(class, s)
        PROVE  Fitting'
    <3>1. class = "ok" /\ call.action = "start" => s # None
      BY <1>8, <2>4 DEF Fitting, Named, Ends
    <3>2. CASE Same(mem, mem') /\ mem'.blocked \in {"none", "failed"}
      <4>1. Fits(mem')
        BY <1>1, <3>2 DEF Fits, Same
      <4> QED
        BY <1>3, <2>4, <4>1 DEF Ended
    <3>3. CASE mem'.pending = None /\ mem'.blocked \in {"none", "conflict", "lifecycle"}
               /\ (mem'.active = None <=> mem'.node = None)
      <4>1. Fits(mem')
        BY <3>3 DEF Fits
      <4> QED
        BY <1>3, <2>4, <4>1 DEF Ended
    <3>4. mem.active = None <=> mem.node = None
      BY <1>1 DEF Fits
    <3> QED
      BY <2>2, <2>4, <3>1, <3>2, <3>3, <3>4 DEF Ended
  <2> QED
    BY <1>8, <2>3, <2>4 DEF Ends
<1>9. CASE Dies
  <2>1. Fits(mem')
    BY <1>9, FreshFacts DEF Dies, Fits
  <2>2. Fits(disk')
    BY <1>1, <1>9 DEF Dies, Fits, Same
  <2> QED
    BY <1>1, <2>1, <2>2 DEF Fitting
<1>10. CASE Boots
  <2>1. Found \in Memory /\ Fits(Found)
    BY <1>1, FreshFacts DEF Found, TypeOK, Fits
  <2>2. /\ mem'.active = Found.active /\ mem'.node = Found.node
        /\ mem'.pending = Found.pending \/ mem'.pending = None
        /\ mem'.blocked = Found.blocked
    BY <1>10, <2>1, ReconciledFacts DEF Boots, Fits
  <2>3. Fits(mem')
    BY <2>1, <2>2 DEF Fits
  <2> QED
    BY <1>3, <1>10, <2>3 DEF Boots
<1> QED
  BY <1>1, <1>4, <1>5, <1>6, <1>7, <1>8, <1>9, <1>10 DEF Moves

LEMMA FittingInitially == Init => Fitting
BY FreshFacts DEF Init, Fitting, Fits, Named

(* A start is pending only without a session, a stop only with one, and a  *)
(* node belongs to every session, in memory and on disk, as long as the    *)
(* cloud names the sessions it opens (reconcileStartupLocked could go on   *)
(* with it).                                                               *)
THEOREM PendingAlwaysFits ==
  ASSUME "blank" \notin Events
  PROVE  Spec => []PendingFitsSession
<1>1. Fitting => PendingFitsSession
  BY DEF Fitting, Fits, PendingFitsSession
<1>2. Steady /\ Fitting /\ [Next]_vars => Fitting'
  BY FittingKept
<1> QED
  BY <1>1, <1>2, FittingInitially, SteadyInitially, SteadyKept, PTL DEF Spec

-----------------------------------------------------------------------------
(* The sessions of the receiver.                                           *)

(* A key opens one session.                                                *)
Opened == \A o, q \in open : o.key = q.key /\ o.key # None => o = q

(* What an answer on its way says of the open sessions.                    *)
Truthful ==
  call # None /\ call.answer # None =>
    /\ call.action = "start" =>
         /\ call.answer.class = "ok" =>
              \A o \in open : o.key = call.key => o.id = call.answer.session
         /\ call.answer.class \in {"already_active", "missing_id"} =>
              \A o \in open : o.key # call.key
         /\ call.answer.class \notin {"resolved", "mismatch"}
    /\ call.action = "stop" =>
         /\ call.answer.class \in {"ok", "resolved"} => \A o \in open : o.id # mem.active
         /\ call.answer.class \notin {"already_active", "missing_id"}

Watched == Opened /\ Truthful

LEMMA WatchedServe ==
  ASSUME "blank" \notin Events, Steady, Watched, Serves
  PROVE  Watched'
<1>1. /\ TypeOK /\ call # None /\ call.answer = None /\ call' # None
      /\ call'.action = call.action /\ call'.key = call.key /\ mem' = mem
      /\ call.session \in {None, mem.active} /\ call.key # None /\ call \in Calls
      /\ call.action \in {"start", "stop"}
  BY ServedFacts, HomeAutoAssumption DEF Steady, Calling, Serves, TypeOK, Calls, Keys
<1>2. \A o \in open : o.id \in Sessions \cup {None}
  BY <1>1 DEF TypeOK
<1>3. ASSUME NEW class \in Classes, NEW s \in Sessions \cup {None}, Answered(class, s)
      PROVE  call'.answer.class = class /\ call'.answer.session = s
  BY <1>1, <1>3, AnswerFacts
<1>4. CASE ServeStart
  <2>1. CASE \E o \in open : o.key = call.key /\ Answered("ok", o.id) /\ UNCHANGED open
    <3>1. PICK o \in open : o.key = call.key /\ Answered("ok", o.id) /\ UNCHANGED open
      BY <2>1
    <3>2. call'.answer.class = "ok" /\ call'.answer.session = o.id
      BY <1>2, <1>3, <3>1 DEF Classes
    <3> QED
      BY <1>1, <1>4, <3>1, <3>2 DEF Watched, Opened, Truthful, ServeStart
  <2>2. CASE ~(\E o \in open : o.key = call.key /\ Answered("ok", o.id) /\ UNCHANGED open)
    <3> DEFINE s == CHOOSE s \in FreeSessions : TRUE
               opening == [id |-> s, key |-> call.key]
    <3>1. /\ FreeSessions # {} /\ \A o \in open : o.key # call.key
          /\ open' = open \cup {opening} /\ Answered("ok", s)
      BY <1>4, <2>2 DEF ServeStart
    <3>2. s \in Sessions
      BY <3>1, FreeSessionFacts
    <3>3. opening.id = s /\ opening.key = call.key
      OBVIOUS
    <3> HIDE DEF s, opening
    <3>4. call'.answer.class = "ok" /\ call'.answer.session = s
      BY <1>3, <3>1, <3>2 DEF Classes
    <3>5. Opened'
      BY <3>1, <3>3 DEF Watched, Opened
    <3>6. call.action = "start"
      BY <1>4 DEF ServeStart
    <3> QED
      BY <1>1, <3>1, <3>3, <3>4, <3>5, <3>6 DEF Watched, Truthful
  <2> QED
    BY <2>1, <2>2
<1>5. CASE RefuseStart
  <2>1. /\ \A o \in open : o.key # call.key /\ open' = open /\ call.action = "start"
        /\ \E class \in {"already_active", "missing_id"}, s \in Sessions \cup {None} :
             Answered(class, s)
    BY <1>2, <1>5 DEF RefuseStart
  <2>2. call'.answer.class \in {"already_active", "missing_id"}
    BY <1>3, <2>1 DEF Classes
  <2>3. open' = open /\ call.action = "start"
    BY <1>5 DEF RefuseStart
  <2> QED
    BY <1>1, <2>1, <2>2, <2>3 DEF Watched, Opened, Truthful
<1>6. CASE ServeStop
  <2> DEFINE closed == {o \in open : call.session \in {None, o.id}}
  <2>1. /\ call.action = "stop" /\ open' = open \ closed
        /\ Answered(IF closed # {} THEN "ok" ELSE "resolved", None)
    BY <1>6 DEF ServeStop
  <2>2. call'.answer.class \in {"ok", "resolved"}
    BY <1>3, <2>1 DEF Classes
  <2>3. \A o \in open' : o \in open /\ o.id # mem.active
    BY <1>1, <2>1
  <2> QED
    BY <1>1, <2>1, <2>2, <2>3 DEF Watched, Opened, Truthful
<1>7. CASE RefuseStop
  <2>1. /\ call.action = "stop" /\ open' = open
        /\ \E class \in {"stale", "mismatch"} : Answered(class, None)
    BY <1>7 DEF RefuseStop
  <2>2. call'.answer.class \in {"stale", "mismatch"}
    BY <1>3, <2>1 DEF Classes
  <2> QED
    BY <1>1, <2>1, <2>2 DEF Watched, Opened, Truthful
<1>8. CASE Refuse
  <2>1. open' = open /\ \E class \in {"retryable", "fatal", "lifecycle"} : Answered(class, None)
    BY <1>8 DEF Refuse
  <2>2. call'.answer.class \in {"retryable", "fatal", "lifecycle"}
    BY <1>3, <2>1 DEF Classes
  <2> QED
    BY <1>1, <2>1, <2>2 DEF Watched, Opened, Truthful
<1> QED
  BY <1>4, <1>5, <1>6, <1>7, <1>8 DEF Serves

LEMMA WatchedKept == "blank" \notin Events /\ Steady /\ Watched /\ [Next]_vars => Watched'
<1> SUFFICES ASSUME "blank" \notin Events, Steady, Watched, [Next]_vars PROVE Watched'
  OBVIOUS
<1>1. Moves /\ TypeOK
  BY AllMove DEF Steady
<1>2. CASE Serves
  BY <1>2, WatchedServe
<1>3. CASE Alters
  <2>1. CASE CloudCloses
    BY <1>3, <2>1 DEF Alters, CloudCloses, Watched, Opened, Truthful
  <2>2. CASE CloudOpens
    <3>1. PICK s \in FreeSessions : open' = {[id |-> s, key |-> None]}
      BY <2>2 DEF CloudOpens
    <3>2. \A o \in open' : o.id # mem.active /\ o.key = None
      BY <3>1 DEF FreeSessions
    <3>3. call # None => call.key # None
      BY <1>1, HomeAutoAssumption DEF TypeOK, Calls, Keys
    <3> QED
      BY <1>3, <3>1, <3>2, <3>3 DEF Alters, Watched, Opened, Truthful
  <2> QED
    BY <1>3, <2>1, <2>2 DEF Alters
<1>4. CASE Ends
  <2>1. call \in Calls
    BY <1>1, <1>4 DEF Ends, TypeOK
  <2>2. call' = None \/ call' = [call EXCEPT !.session = None, !.answer = None]
    BY <1>4 DEF Ends, Ended
  <2>3. open' = open
    BY <1>4 DEF Ends
  <2> QED
    BY <2>1, <2>2, <2>3, FallbackFacts DEF Watched, Opened, Truthful
<1>5. CASE Decides
  BY <1>5 DEF Decides, Decision, Watched, Opened, Truthful
<1>6. CASE Resets \/ Stays \/ Dies \/ Boots
  BY <1>6 DEF Resets, Stays, Dies, Boots, Watched, Opened, Truthful
<1> QED
  BY <1>1, <1>2, <1>3, <1>4, <1>5, <1>6 DEF Moves

LEMMA AccountedSame ==
  ASSUME NEW o, Same(mem, mem'), Accounted(o)
  PROVE  Accounted(o)'
BY DEF Accounted, Same

(* A session that the receiver has in sight stays in sight.                *)
LEMMA NeverLost ==
  ASSUME Steady, Fitting, Watched, [Next]_vars,
         NEW o \in open', o.key # None, ~ResetDegraded, o \in open => up',
         o \in open => Accounted(o) /\ mem'.blocked # "lifecycle"
  PROVE  Accounted(o)'
<1>1. /\ Moves /\ TypeOK /\ Standing /\ Calling /\ Fits(mem) /\ Opened /\ Truthful
      /\ Unrepeated(mem) /\ Unrepeated(disk)
  BY AllMove DEF Steady, Fitting, Watched
<1>2. CASE Decides
  <2>1. Decision(mem) /\ o \in open
    BY <1>2 DEF Decides
  <2> QED
    BY <1>1, <2>1 DEF Decision, Accounted
<1>3. CASE Resets
  BY <1>3 DEF Resets
<1>4. CASE Stays
  <2>1. Same(mem, mem') /\ o \in open
    BY <1>1, <1>4 DEF Stays, Same
  <2> QED
    BY <2>1, AccountedSame
<1>5. CASE Alters
  <2>1. mem' = mem /\ o \in open
    BY <1>5 DEF Alters, CloudCloses, CloudOpens
  <2> QED
    BY <2>1 DEF Accounted
<1>6. CASE Serves
  <2>1. mem' = mem
    BY <1>6 DEF Serves
  <2>2. CASE o \in open
    BY <2>1, <2>2 DEF Accounted
  <2>3. CASE o \notin open
    <3>1. call # None /\ call.action = "start" /\ o.key = call.key
      BY <1>6, <2>3 DEF Serves, ServeStart, RefuseStart, ServeStop, RefuseStop, Refuse, Serve
    <3>2. /\ call \in Calls
          /\ mem.pending = [action |-> call.action, node |-> call.node, key |-> call.key]
      BY <1>1, <3>1 DEF Calling, TypeOK
    <3>3. mem.pending \in Actions
      BY <3>2 DEF Calls, Actions
    <3>4. mem.pending # None
      BY <3>3, NoneAssumption
    <3>5. mem.pending.action = "start" /\ mem.pending.key = o.key
      BY <3>1, <3>2
    <3> QED
      BY <2>1, <3>2, <3>4, <3>5 DEF Accounted
  <2> QED
    BY <2>2, <2>3
<1>7. CASE Ends
  <2>1. /\ o \in open /\ call # None /\ call \in Calls
        /\ mem.pending = [action |-> call.action, node |-> call.node, key |-> call.key]
    BY <1>1, <1>7 DEF Ends, Calling, TypeOK
  <2>2. /\ mem.pending.action = call.action /\ mem.pending.key = call.key
        /\ call.action \in {"start", "stop"}
    BY <2>1 DEF Calls
  <2>3. mem.pending # None
    <3>1. mem.pending \in Actions
      BY <2>1 DEF Calls, Actions
    <3> QED
      BY <3>1, NoneAssumption
  <2>4. o.id # None
    BY <1>1, <2>1, HomeAutoAssumption DEF TypeOK, Sessions
  <2>5. CASE call.action = "start"
    <3>1. mem.active = None /\ o.key = call.key
      BY <1>1, <2>1, <2>2, <2>3, <2>4, <2>5 DEF Fits, Accounted
    <3>2. CASE UNCHANGED mem
      BY <2>1, <3>2 DEF Accounted
    <3>3. ASSUME NEW class \in Classes, NEW s \in Sessions \cup {None},
                 \/ call.answer # None /\ class = call.answer.class /\ s = call.answer.session
                 \/ class = "timeout" /\ s = None,
                 Ended(class, s)
          PROVE  Accounted(o)'
      <4>1. class \notin {"already_active", "missing_id", "mismatch", "resolved"}
        BY <1>1, <2>1, <2>5, <3>1, <3>3 DEF Truthful
      <4>2. CASE class = "ok"
        <5>1. o.id = s
          BY <1>1, <2>1, <2>5, <3>1, <3>3, <4>2 DEF Truthful
        <5>2. mem'.active = s
          BY <2>5, <3>3, <4>2 DEF Ended
        <5> QED
          BY <2>1, <5>1, <5>2 DEF Accounted
      <4>3. CASE class # "ok"
        <5>1. Same(mem, mem')
          BY <2>1, <3>3, <4>1, <4>3 DEF Ended
        <5> QED
          BY <2>1, <5>1, AccountedSame
      <4> QED
        BY <4>2, <4>3
    <3> QED
      BY <1>7, <3>2, <3>3 DEF Ends
  <2>6. CASE call.action = "stop"
    <3>1. o.id = mem.active
      BY <2>1, <2>2, <2>6 DEF Accounted
    <3>2. CASE UNCHANGED mem
      BY <2>1, <3>2 DEF Accounted
    <3>3. ASSUME NEW class \in Classes, NEW s \in Sessions \cup {None},
                 \/ call.answer # None /\ class = call.answer.class /\ s = call.answer.session
                 \/ class = "timeout" /\ s = None,
                 Ended(class, s)
          PROVE  Accounted(o)'
      <4>1. class \notin {"already_active", "missing_id", "ok", "resolved"}
        BY <1>1, <2>1, <2>6, <3>1, <3>3 DEF Truthful
      <4>2. mem'.active = mem.active
        BY <2>1, <3>3, <4>1 DEF Ended, Same
      <4> QED
        BY <2>1, <3>1, <4>2 DEF Accounted
    <3> QED
      BY <1>7, <3>2, <3>3 DEF Ends
  <2> QED
    BY <2>2, <2>5, <2>6
<1>8. CASE Dies
  BY <1>8 DEF Dies
<1>9. CASE Boots
  <2>1. o \in open /\ mem = Fresh0
    BY <1>1, <1>9 DEF Boots, Standing
  <2>2. o.id # None
    BY <1>1, <2>1, HomeAutoAssumption DEF TypeOK, Sessions
  <2> QED
    BY <2>1, <2>2, FreshFacts DEF Accounted
<1> QED
  BY <1>1, <1>2, <1>3, <1>4, <1>5, <1>6, <1>7, <1>8, <1>9 DEF Moves

LEMMA WatchedInitially == Init => Watched
BY DEF Init, Watched, Opened, Truthful

(* The receiver loses sight of no session it has opened: whatever is lost, *)
(* repeated or refused, an open session is its active one or the one its   *)
(* pending start will be told of, until the process ends, an operator      *)
(* resets the module or the cloud rejects the receiver.  The hypothesis:   *)
(* the cloud names the sessions it opens.                                  *)
THEOREM SessionNeverForgotten ==
  ASSUME "blank" \notin Events
  PROVE  Spec => NoneForgotten
<1> DEFINE Inv == Steady /\ Fitting /\ Watched
<1>1. Init => Inv
  BY SteadyInitially, FittingInitially, WatchedInitially
<1>2. Inv /\ [Next]_vars => Inv'
  BY SteadyKept, FittingKept, WatchedKept
<1>3. Inv /\ [Next]_vars =>
        [\A o \in open' : o.key # None =>
           \/ Accounted(o)'
           \/ /\ o \in open
              /\ ~Accounted(o) \/ ~up' \/ ResetDegraded \/ mem'.blocked = "lifecycle"]_vars
  <2> SUFFICES ASSUME Inv, [Next]_vars, NEW o \in open', o.key # None
               PROVE  \/ Accounted(o)'
                      \/ /\ o \in open
                         /\ ~Accounted(o) \/ ~up' \/ ResetDegraded \/ mem'.blocked = "lifecycle"
    OBVIOUS
  <2>1. CASE o \in open => Accounted(o)
    <3>1. CASE ~ResetDegraded /\ (o \in open => up' /\ mem'.blocked # "lifecycle")
      BY <2>1, <3>1, NeverLost
    <3>2. CASE ResetDegraded
      <4>1. open' = open
        BY <3>2 DEF ResetDegraded
      <4> QED
        BY <3>2, <4>1
    <3>3. CASE (~up' \/ mem'.blocked = "lifecycle") /\ o \in open
      BY <3>3
    <3> QED
      BY <3>1, <3>2, <3>3
  <2> QED
    BY <2>1
<1> HIDE DEF Inv
<1> QED
  BY <1>1, <1>2, <1>3, PTL DEF Spec, NoneForgotten
=============================================================================
