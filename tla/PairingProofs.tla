---------------------------- MODULE PairingProofs ----------------------------
(***************************************************************************)
(* Theorems about Pairing for all values of its constants, with requests   *)
(* that overlap each other and the Run loop, crashes in every step and a   *)
(* state file that may be lost.                                            *)
(***************************************************************************)
EXTENDS Pairing, TLAPS

-----------------------------------------------------------------------------
(* The updates of the state file.                                          *)

(* No update changes what normalizeGenerations does not look after.        *)
LEMMA NormalizedFields ==
  ASSUME NEW next \in Data
  PROVE  /\ Normalized(next).inst = next.inst
         /\ Normalized(next).bound = next.bound
         /\ Normalized(next).phase = next.phase
         /\ Normalized(next).code = next.code
         /\ Normalized(next).token = next.token
         /\ Normalized(next).wait = next.wait
         /\ Normalized(next).key = next.key
         /\ Normalized(next).keyFor = next.keyFor
         /\ Normalized(next).ident = next.ident
         /\ Normalized(next).samples =
              IF Binding(next) # Binding(data) THEN None ELSE next.samples
         /\ Normalized(next).bindGen =
              IF Binding(next) # Binding(data) /\ next.ident # None
              THEN data.bindGen + 1 ELSE next.bindGen
BY DEF Normalized, Data

(* Generations stay within the bound where the bound allows an advance.    *)
LEMMA NormalizedType ==
  ASSUME data \in Data, NEW next \in Data,
         next.key \notin {None, data.key} => data.credGen < MaxGeneration,
         Binding(next) # Binding(data) /\ next.ident # None => data.bindGen < MaxGeneration
  PROVE  Normalized(next) \in Data
<1> DEFINE c == IF next.key \notin {None, data.key} THEN data.credGen + 1 ELSE next.credGen
           b == IF Binding(next) # Binding(data) /\ next.ident # None
                THEN data.bindGen + 1 ELSE next.bindGen
           s == IF Binding(next) # Binding(data) THEN None ELSE next.samples
<1>1. c \in Generations /\ b \in Generations
  BY PairingAssumption DEF Data, Generations
<1>2. s \in (Keys \X Installations) \cup {None}
  BY DEF Data
<1>3. Normalized(next) = [next EXCEPT !.credGen = c, !.bindGen = b, !.samples = s]
  BY DEF Normalized, Data
<1> HIDE DEF c, b, s
<1> QED
  BY <1>1, <1>2, <1>3 DEF Data

(* What each update writes is state data.                                  *)
LEMMA UpdatesType ==
  ASSUME NEW d \in Data
  PROVE  /\ Unpaired(d) \in Data
         /\ Cleared(d) \in Data
         /\ \A i \in Installations : Rotated(d, i) \in Data
         /\ \A c \in Codes : CodeEntered(d, c) \in Data
<1>1. Unpaired(d) \in Data
  BY DEF Unpaired, Data, Phases
<1>2. Cleared(d) \in Data
  BY <1>1 DEF Cleared, Data
<1>3. \A i \in Installations : Rotated(d, i) \in Data
  BY <1>2 DEF Rotated, Data
<1>4. \A c \in Codes : CodeEntered(d, c) \in Data
  BY DEF CodeEntered, Data, Phases
<1> QED
  BY <1>1, <1>2, <1>3, <1>4

(* What they keep and what they clear.                                     *)
LEMMA UpdatesFields ==
  ASSUME NEW d \in Data
  PROVE  /\ /\ Unpaired(d).inst = d.inst
            /\ Unpaired(d).bound = d.bound
            /\ Unpaired(d).key = d.key
            /\ Unpaired(d).keyFor = d.keyFor
            /\ Unpaired(d).ident = d.ident
            /\ Unpaired(d).samples = d.samples
            /\ Unpaired(d).bindGen = d.bindGen
            /\ Unpaired(d).phase = "unpaired"
         /\ /\ Cleared(d).inst = d.inst
            /\ Cleared(d).bound = d.bound
            /\ Cleared(d).key = None
            /\ Cleared(d).ident = None
            /\ Cleared(d).samples = None
            /\ Cleared(d).bindGen = d.bindGen
            /\ Cleared(d).phase = "unpaired"
         /\ \A i \in Installations :
              /\ Rotated(d, i).inst = i
              /\ Rotated(d, i).bound = FALSE
              /\ Rotated(d, i).key = None
              /\ Rotated(d, i).ident = None
              /\ Rotated(d, i).samples = None
              /\ Rotated(d, i).bindGen = d.bindGen
              /\ Rotated(d, i).phase = "unpaired"
         /\ \A c \in Codes :
              /\ CodeEntered(d, c).inst = d.inst
              /\ CodeEntered(d, c).bound = d.bound
              /\ CodeEntered(d, c).key = d.key
              /\ CodeEntered(d, c).keyFor = d.keyFor
              /\ CodeEntered(d, c).ident = d.ident
              /\ CodeEntered(d, c).samples = d.samples
              /\ CodeEntered(d, c).bindGen = d.bindGen
              /\ CodeEntered(d, c).phase = "code_entered"
              /\ CodeEntered(d, c).code = c
<1>1. Unpaired(d) \in Data /\ Cleared(d) \in Data
  BY UpdatesType
<1> QED
  BY <1>1 DEF Unpaired, Cleared, Rotated, CodeEntered, Data

-----------------------------------------------------------------------------
(* Type correctness.  The locals of a rotation are there when its next     *)
(* step reads them, which TypeOK by itself does not say.                   *)

LocalsKnown ==
  \A a \in Actors :
    /\ actor[a].pc = "begin" => actor[a].old # None /\ actor[a].new # None
    /\ actor[a].pc \in {"recover", "write", "record"} => actor[a].j # None /\ journal # None
    /\ actor[a].goal = "re_pair" => actor[a].code # None

TypeInv == TypeOK /\ LocalsKnown

(* An actor that sets down has no locals.                                  *)
LEMMA RestingType == Resting \in Locals /\ Resting.goal # "re_pair" /\ Resting.pc = "idle"
BY NoneAssumption DEF Resting, Locals, Goals

(* One actor's step leaves the others their locals.                        *)
LEMMA StepType ==
  ASSUME TypeInv, NEW a \in Actors, NEW fields \in Locals, Step(a, fields),
         journal' = journal \/ journal' # None,
         fields.pc = "begin" => fields.old # None /\ fields.new # None,
         fields.pc \in {"recover", "write", "record"} => fields.j # None /\ journal' # None,
         fields.goal = "re_pair" => fields.code # None
  PROVE  actor' \in [Actors -> Locals] /\ LocalsKnown'
<1>1. actor' = [actor EXCEPT ![a] = fields] /\ actor \in [Actors -> Locals]
  BY DEF Step, TypeInv, TypeOK
<1>2. actor' \in [Actors -> Locals]
  BY <1>1
<1>3. ASSUME NEW b \in Actors
      PROVE  /\ actor'[b].pc = "begin" => actor'[b].old # None /\ actor'[b].new # None
             /\ actor'[b].pc \in {"recover", "write", "record"} => actor'[b].j # None /\ journal' # None
             /\ actor'[b].goal = "re_pair" => actor'[b].code # None
  <2>1. CASE b = a
    BY <1>1, <2>1
  <2>2. CASE b # a
    BY <1>1, <2>2 DEF TypeInv, LocalsKnown
  <2> QED
    BY <2>1, <2>2
<1> QED
  BY <1>2, <1>3 DEF LocalsKnown

(* Going on with the journal that a store call returned.                   *)
LEMMA ProceedType ==
  ASSUME TypeInv, NEW a \in Actors, NEW j \in Journals, Proceed(a, j), journal' \in Journals
  PROVE  actor' \in [Actors -> Locals] /\ LocalsKnown'
<1> DEFINE fields == [actor[a] EXCEPT !.j = j, !.old = None, !.new = None,
                        !.pc = IF j.phase = "completed" THEN "finish" ELSE "recover"]
<1>1. actor[a] \in Locals
  BY DEF TypeInv, TypeOK
<1>2. fields \in Locals
  BY <1>1 DEF Locals
<1>3. /\ fields.pc \in {"finish", "recover"}
      /\ fields.j = j
      /\ fields.goal = actor[a].goal
      /\ fields.code = actor[a].code
  BY <1>1 DEF Locals
<1>4. j # None /\ journal' # None
  BY NoneAssumption
<1>5. actor[a].goal = "re_pair" => actor[a].code # None
  BY DEF TypeInv, LocalsKnown
<1>6. Step(a, fields)
  BY DEF Proceed
<1> HIDE DEF fields
<1> QED
  BY <1>2, <1>3, <1>4, <1>5, <1>6, StepType

(* An error that ends a request, the handler or the start.                 *)
LEMMA FailType ==
  ASSUME TypeInv, NEW a \in Actors, Fail(a), UNCHANGED journal
  PROVE  /\ actor' \in [Actors -> Locals]
         /\ LocalsKnown'
         /\ call' \in Calls
         /\ up' \in {"down", "starting", "running", "refused"}
<1>1. actor' \in [Actors -> Locals] /\ LocalsKnown'
  BY RestingType, StepType DEF Fail
<1>2. call' \in Calls
  BY DEF Fail, TypeInv, TypeOK, NoCall, Calls
<1> QED
  BY <1>1, <1>2 DEF Fail, TypeInv, TypeOK

(* Every read and durable write of a rotation.                             *)
LEMMA RotatorType ==
  ASSUME TypeInv, NEW a \in Actors, RotatorStep(a)
  PROVE  TypeInv'
<1> USE DEF Keeps
<1>0. /\ actor[a] \in Locals
      /\ data \in Data
      /\ journal \in Journals \cup {None}
      /\ pause \in Pauses \cup {None}
      /\ call \in Calls
      /\ up \in {"down", "starting", "running", "refused"}
      /\ cli \in {"none", "refused", "done"}
      /\ actor[a].pc \in {"recover", "write", "record"} =>
           actor[a].j \in Journals /\ journal \in Journals
      /\ actor[a].goal = "re_pair" => actor[a].code # None
  BY DEF TypeInv, TypeOK, LocalsKnown, Locals
<1>1. CASE ReadJournal(a)
  <2>1. CASE journal = None \/ journal.phase = "completed"
    <3> DEFINE fields == [actor[a] EXCEPT !.pc = "mint"]
    <3>1. fields \in Locals /\ fields.pc = "mint"
          /\ fields.goal = actor[a].goal /\ fields.code = actor[a].code
      BY <1>0 DEF Locals
    <3>2. Step(a, fields) /\ journal' = journal
      BY <1>1, <2>1 DEF ReadJournal
    <3> HIDE DEF fields
    <3>3. actor' \in [Actors -> Locals] /\ LocalsKnown'
      BY <1>0, <3>1, <3>2, StepType
    <3> QED
      BY <1>0, <1>1, <3>3 DEF TypeInv, TypeOK, ReadJournal
  <2>2. CASE ~(journal = None \/ journal.phase = "completed")
    <3>1. actor' \in [Actors -> Locals] /\ LocalsKnown'
      BY <1>0, <1>1, <2>2, ProceedType DEF ReadJournal
    <3> QED
      BY <1>0, <1>1, <3>1 DEF TypeInv, TypeOK, ReadJournal
  <2> QED
    BY <2>1, <2>2
<1>2. CASE MintInstallation(a)
  <2>1. PICK i \in Installations :
          Step(a, [actor[a] EXCEPT !.pc = "begin", !.old = data.inst, !.new = i])
    BY <1>2 DEF MintInstallation
  <2> DEFINE fields == [actor[a] EXCEPT !.pc = "begin", !.old = data.inst, !.new = i]
  <2>2. fields \in Locals /\ fields.pc = "begin" /\ fields.old = data.inst /\ fields.new = i
        /\ fields.goal = actor[a].goal /\ fields.code = actor[a].code
    BY <1>0 DEF Locals, Data
  <2>3. data.inst # None /\ i # None
    BY <1>0, PairingAssumption DEF Data
  <2>4. Step(a, fields) /\ journal' = journal
    BY <1>2, <2>1 DEF MintInstallation
  <2> HIDE DEF fields
  <2>5. actor' \in [Actors -> Locals] /\ LocalsKnown'
    BY <1>0, <2>2, <2>3, <2>4, StepType
  <2> QED
    BY <1>0, <1>2, <2>5 DEF TypeInv, TypeOK, MintInstallation
<1>3. CASE BeginInstallationRotation(a)
  <2>1. actor[a].old \in Installations /\ actor[a].new \in Installations
    BY <1>0, <1>3 DEF BeginInstallationRotation, At, TypeInv, LocalsKnown, Locals
  <2>2. journal' \in Journals
    BY <1>0, <1>3, <2>1 DEF BeginInstallationRotation, Journals, JournalPhases
  <2>3. actor' \in [Actors -> Locals] /\ LocalsKnown'
    BY <1>3, <2>2, ProceedType DEF BeginInstallationRotation
  <2> QED
    BY <1>0, <1>3, <2>2, <2>3 DEF TypeInv, TypeOK, BeginInstallationRotation
<1>4. CASE QuarantineOld(a)
  <2>1. journal' \in Journals /\ pause' \in Pauses \cup {None}
    BY <1>0, <1>4 DEF QuarantineOld, At, Journals, JournalPhases
  <2>2. actor' \in [Actors -> Locals] /\ LocalsKnown'
    BY <1>4, <2>1, ProceedType DEF QuarantineOld
  <2> QED
    BY <1>0, <1>4, <2>1, <2>2 DEF TypeInv, TypeOK, QuarantineOld
<1>5. CASE CheckBoundary(a)
  <2>1. ASSUME NEW pc \in {"write", "record"}, Step(a, [actor[a] EXCEPT !.pc = pc])
        PROVE  actor' \in [Actors -> Locals] /\ LocalsKnown'
    <3> DEFINE fields == [actor[a] EXCEPT !.pc = pc]
    <3>1. fields \in Locals /\ fields.pc = pc /\ fields.j = actor[a].j
          /\ fields.goal = actor[a].goal /\ fields.code = actor[a].code
      BY <1>0 DEF Locals
    <3>2. actor[a].j # None /\ journal # None /\ journal' = journal
      BY <1>5 DEF CheckBoundary, At, TypeInv, LocalsKnown
    <3>3. Step(a, fields)
      BY <2>1
    <3> HIDE DEF fields
    <3> QED
      BY <1>0, <3>1, <3>2, <3>3, StepType
  <2>2. CASE Step(a, [actor[a] EXCEPT !.pc = "write"]) /\ Keeps(a)
    BY <1>0, <1>5, <2>1, <2>2 DEF TypeInv, TypeOK, CheckBoundary
  <2>3. CASE Step(a, [actor[a] EXCEPT !.pc = "record"]) /\ Keeps(a)
    BY <1>0, <1>5, <2>1, <2>3 DEF TypeInv, TypeOK, CheckBoundary
  <2>4. CASE Fail(a)
    BY <1>0, <1>5, <2>4, FailType DEF TypeInv, TypeOK, CheckBoundary
  <2> QED
    BY <1>5, <2>2, <2>3, <2>4 DEF CheckBoundary
<1>6. CASE WriteRotated(a)
  <2> DEFINE fields == [actor[a] EXCEPT !.pc = "record"]
  <2>1. fields \in Locals /\ fields.pc = "record" /\ fields.j = actor[a].j
        /\ fields.goal = actor[a].goal /\ fields.code = actor[a].code
    BY <1>0 DEF Locals
  <2>2. actor[a].j \in Journals /\ journal \in Journals /\ journal' = journal
    BY <1>0, <1>6 DEF WriteRotated, At
  <2>3. Step(a, fields)
    BY <1>6 DEF WriteRotated
  <2> HIDE DEF fields
  <2>4. actor' \in [Actors -> Locals] /\ LocalsKnown'
    BY <1>0, <2>1, <2>2, <2>3, NoneAssumption, StepType
  <2>5. actor[a].j.new \in Installations
    BY <2>2 DEF Journals
  <2>6. data' \in Data
    BY <1>0, <1>6, <2>5, UpdatesType, UpdatesFields, NormalizedType DEF WriteRotated, Update
  <2> QED
    BY <1>0, <1>6, <2>4, <2>6 DEF TypeInv, TypeOK, WriteRotated
<1>7. ASSUME NEW expected, NEW next \in JournalPhases, At(a, "record") \/ At(a, "recover"),
             Advance(a, expected, next), UNCHANGED <<data, pause, cli, marred>>
      PROVE  TypeInv'
  <2>1. journal \in Journals
    BY <1>0, <1>7 DEF At
  <2>2. CASE /\ journal' = [journal EXCEPT !.phase = next]
             /\ Proceed(a, journal')
             /\ Keeps(a)
    <3>1. journal' \in Journals
      BY <1>7, <2>1, <2>2 DEF Journals
    <3>2. actor' \in [Actors -> Locals] /\ LocalsKnown'
      BY <2>2, <3>1, ProceedType
    <3> QED
      BY <1>0, <1>7, <2>2, <3>1, <3>2 DEF TypeInv, TypeOK
  <2>3. CASE UNCHANGED journal /\ Fail(a)
    BY <1>0, <1>7, <2>3, FailType DEF TypeInv, TypeOK
  <2> QED
    BY <1>7, <2>2, <2>3 DEF Advance
<1>8. CASE RecordRotated(a)
  BY <1>7, <1>8 DEF RecordRotated, JournalPhases
<1>9. CASE CompleteRotation(a)
  BY <1>7, <1>9 DEF CompleteRotation, JournalPhases
<1>10. CASE Finish(a)
  <2>1. actor' \in [Actors -> Locals] /\ LocalsKnown'
    BY <1>10, RestingType, StepType DEF Finish
  <2>2. call' \in Calls
    BY <1>0, <1>10 DEF Finish, NoCall, Calls
  <2>3. data' \in Data
    <3>1. CASE actor[a].goal = "re_pair" /\ Update(CodeEntered(data, actor[a].code))
      <4>1. actor[a].code \in Codes
        BY <1>0, <3>1 DEF Locals
      <4> QED
        BY <1>0, <3>1, <4>1, UpdatesType, UpdatesFields, NormalizedType DEF Update, Binding
    <3>2. CASE Update(Cleared(data))
      BY <1>0, <3>2, UpdatesType, UpdatesFields, NormalizedType DEF Update
    <3>3. CASE UNCHANGED data
      BY <1>0, <3>3
    <3> QED
      BY <1>10, <3>1, <3>2, <3>3 DEF Finish
  <2> QED
    BY <1>0, <1>10, <2>1, <2>2, <2>3 DEF TypeInv, TypeOK, Finish
<1> QED
  BY <1>1, <1>2, <1>3, <1>4, <1>5, <1>6, <1>8, <1>9, <1>10 DEF RotatorStep

(* What the Run loop remembers of its snapshot has the type of the call.   *)
LEMMA CallFields ==
  ASSUME call \in Calls
  PROVE  /\ call.pc = "exchange" => call.code \in Codes
         /\ call.pc = "activate" => call.token \in Codes /\ call.inst \in Installations
         /\ call.pc \in {"heartbeat", "attest"} => call.key \in Keys /\ call.inst \in Installations
         /\ call.pc = "dispatch" => /\ call.key \in Keys /\ call.inst \in Installations
                                    /\ call.credGen \in Generations /\ call.bindGen \in Generations
BY DEF Calls

(* An answer that is written into the state file.                          *)
LEMMA AnsweredOnceType ==
  ASSUME TypeInv, data' \in Data, AnsweredOnce, marred' \in {"no", "crossed", "lost"}
  PROVE  TypeInv'
BY DEF TypeInv, TypeOK, LocalsKnown, AnsweredOnce, NoCall, Calls

LEMMA AnsweredType ==
  ASSUME TypeInv, data' \in Data, Answered
  PROVE  TypeInv'
BY AnsweredOnceType DEF TypeInv, TypeOK, Answered

(* A call that begins with a snapshot.                                     *)
LEMMA BeginType ==
  ASSUME TypeInv, NEW c \in Calls, Begin(c)
  PROVE  TypeInv'
BY DEF TypeInv, TypeOK, LocalsKnown, Begin

(* The steps of Manager.Process.                                           *)
LEMMA ProcessType ==
  ASSUME TypeInv, ProcessStep
  PROVE  TypeInv'
<1>0. data \in Data /\ call \in Calls
  BY DEF TypeInv, TypeOK
<1>1. CASE BeginExchange
  <2>1. [pc |-> "exchange", code |-> data.code] \in Calls
    BY <1>0, <1>1 DEF BeginExchange, Data, Calls
  <2> QED
    BY <1>1, <2>1, BeginType DEF BeginExchange
<1>2. CASE Exchanged
  <2> DEFINE next == [data EXCEPT !.phase = "bootstrap_exchanged", !.token = call.code, !.wait = FALSE]
  <2>1. call.code \in Codes
    BY <1>0, <1>2, CallFields DEF Exchanged, Calling
  <2>2. next \in Data /\ next.key = data.key /\ Binding(next) = Binding(data)
    BY <1>0, <2>1 DEF Data, Phases, Binding
  <2>3. Update(next)
    BY <1>2 DEF Exchanged
  <2> HIDE DEF next
  <2>4. data' \in Data
    BY <1>0, <2>2, <2>3, NormalizedType DEF Update
  <2> QED
    BY <1>2, <2>4, AnsweredType DEF Exchanged
<1>3. CASE BeginActivation
  <2>1. [pc |-> "activate", token |-> data.token, inst |-> data.inst] \in Calls
    BY <1>0, <1>3 DEF BeginActivation, Data, Calls
  <2> QED
    BY <1>3, <2>1, BeginType DEF BeginActivation
<1>4. CASE Activated
  <2>1. PICK k \in Keys :
          Update([Unpaired(data) EXCEPT !.phase = "activated", !.key = k, !.bound = TRUE,
                                        !.keyFor = call.inst, !.ident = k])
    BY <1>4 DEF Activated
  <2> DEFINE next == [Unpaired(data) EXCEPT !.phase = "activated", !.key = k, !.bound = TRUE,
                                            !.keyFor = call.inst, !.ident = k]
  <2>2. call.inst \in Installations /\ Unpaired(data) \in Data
    BY <1>0, <1>4, CallFields, UpdatesType DEF Activated, Calling
  <2>3. next \in Data
    BY <2>2 DEF Data, Phases
  <2>4. Update(next)
    BY <2>1
  <2> HIDE DEF next
  <2>5. data' \in Data
    BY <1>0, <1>4, <2>3, <2>4, NormalizedType DEF Activated, Update
  <2> QED
    BY <1>4, <2>5, AnsweredOnceType DEF Activated, Crossed, TypeInv, TypeOK
<1>5. CASE AttemptRetried
  <2> DEFINE next == [data EXCEPT !.phase = RetryPhase, !.wait = TRUE]
  <2>1. next \in Data /\ next.key = data.key /\ Binding(next) = Binding(data)
    BY <1>0, ZenonT(60) DEF Data, Phases, Binding, RetryPhase
  <2>2. Update(next)
    BY <1>5 DEF AttemptRetried
  <2> HIDE DEF next
  <2>3. data' \in Data
    BY <1>0, <2>1, <2>2, NormalizedType DEF Update
  <2> QED
    BY <1>5, <2>3, AnsweredType DEF AttemptRetried
<1>6. CASE AttemptFailed \/ Reverted
  <2>1. Update(Unpaired(data)) /\ Answered
    BY <1>6 DEF AttemptFailed, Reverted
  <2>2. data' \in Data
    BY <1>0, <2>1, UpdatesType, UpdatesFields, NormalizedType DEF Update, Binding
  <2> QED
    BY <2>1, <2>2, AnsweredType
<1>7. CASE BeginRevert \/ BeginPromotion
  <2>1. [pc |-> "revert"] \in Calls /\ [pc |-> "promote"] \in Calls
    BY DEF Calls
  <2> QED
    BY <1>7, <2>1, BeginType DEF BeginRevert, BeginPromotion
<1>8. CASE Promoted
  <2> DEFINE next == [data EXCEPT !.phase = "steady_state"]
  <2>1. next \in Data /\ next.key = data.key /\ Binding(next) = Binding(data)
    BY <1>0 DEF Data, Phases, Binding
  <2>2. Update(next)
    BY <1>8 DEF Promoted
  <2> HIDE DEF next
  <2>3. data' \in Data
    BY <1>0, <2>1, <2>2, NormalizedType DEF Update
  <2> QED
    BY <1>8, <2>3, AnsweredType DEF Promoted
<1> QED
  BY <1>1, <1>2, <1>3, <1>4, <1>5, <1>6, <1>7, <1>8 DEF ProcessStep

(* The steps of a heartbeat and of a lifecycle error.                      *)
LEMMA HeartbeatType ==
  ASSUME TypeInv, HeartbeatStep
  PROVE  TypeInv'
<1>0. data \in Data /\ call \in Calls /\ pause \in Pauses \cup {None} /\ actor \in [Actors -> Locals]
  BY DEF TypeInv, TypeOK
<1>1. CASE BeginHeartbeat
  <2>1. [pc |-> "heartbeat", key |-> data.key, inst |-> data.inst] \in Calls
    BY <1>0, <1>1 DEF BeginHeartbeat, CredentialsReady, Data, Calls
  <2> QED
    BY <1>1, <2>1, BeginType DEF BeginHeartbeat
<1>2. CASE HeartbeatAcknowledged
  <2> DEFINE next == [data EXCEPT !.ident = call.key]
  <2>1. call.key \in Keys /\ call.inst \in Installations
    BY <1>0, <1>2, CallFields DEF HeartbeatAcknowledged, Calling
  <2>2. next \in Data /\ next.key = data.key
        /\ (Binding(next) # Binding(data) => data.ident # call.key)
    BY <1>0, <2>1 DEF Data, Binding
  <2>3. Update(next) /\ (data.bindGen < MaxGeneration \/ data.ident = call.key)
    BY <1>2 DEF HeartbeatAcknowledged
  <2> HIDE DEF next
  <2>4. data' \in Data
    BY <1>0, <2>2, <2>3, NormalizedType DEF Update
  <2>5. call' \in Calls
    BY <1>0, <1>2, <2>1 DEF HeartbeatAcknowledged, Calling, Calls
  <2> QED
    BY <1>2, <2>4, <2>5 DEF HeartbeatAcknowledged, Crossed, TypeInv, TypeOK, LocalsKnown
<1>3. CASE HeartbeatUnanswered
  BY <1>0, <1>3, AnsweredType DEF HeartbeatUnanswered
<1>4. CASE ClockAttested
  <2> DEFINE next == IF Binding(data) = <<call.key, call.inst>>
                     THEN [data EXCEPT !.samples = <<call.key, call.inst>>] ELSE data
  <2>1. call.key \in Keys /\ call.inst \in Installations
    BY <1>0, <1>4, CallFields DEF ClockAttested, Calling
  <2>2. next \in Data /\ next.key = data.key /\ Binding(next) = Binding(data)
    BY <1>0, <2>1 DEF Data, Binding
  <2>3. Update(next)
    BY <1>4 DEF ClockAttested
  <2> HIDE DEF next
  <2>4. data' \in Data
    BY <1>0, <2>2, <2>3, NormalizedType DEF Update
  <2> QED
    BY <1>4, <2>4, AnsweredType DEF ClockAttested
<1>5. ASSUME NEW change \in {"revoked", "replaced"}, HeartbeatRejected(change)
      PROVE  TypeInv'
  <2>1. call' \in Calls
    BY <1>5 DEF HeartbeatRejected, Calls
  <2> QED
    BY <1>5, <2>1 DEF HeartbeatRejected, TypeInv, TypeOK, LocalsKnown
<1>6. CASE QuarantineReceiver
  <2>1. pause' \in Pauses \cup {None}
    BY <1>0, <1>6 DEF QuarantineReceiver, Pauses
  <2>2. call' \in Calls
    BY <1>0, <1>6 DEF QuarantineReceiver, Calling, Calls
  <2> QED
    BY <1>6, <2>1, <2>2 DEF QuarantineReceiver, TypeInv, TypeOK, LocalsKnown
<1>7. CASE ApplyLifecycleChange
  <2> DEFINE fields == [Resting EXCEPT !.goal = "lifecycle",
                 !.pc = IF call.change = "replaced" /\ data.bound THEN "read" ELSE "finish"]
  <2>1. fields \in Locals /\ fields.goal = "lifecycle" /\ fields.pc \in {"read", "finish"}
    BY RestingType DEF Locals, Goals
  <2>2. Step("loop", fields) /\ journal' = journal /\ "loop" \in Actors
    BY <1>7 DEF ApplyLifecycleChange, Actors
  <2> HIDE DEF fields
  <2>3. actor' \in [Actors -> Locals] /\ LocalsKnown'
    BY <2>1, <2>2, StepType
  <2>4. call' \in Calls
    BY <1>7 DEF ApplyLifecycleChange, Calls
  <2> QED
    BY <1>7, <2>3, <2>4 DEF ApplyLifecycleChange, Crossed, TypeInv, TypeOK
<1> QED
  BY <1>1, <1>2, <1>3, <1>4, <1>5, <1>6, <1>7 DEF HeartbeatStep

(* The steps of a dispatch batch.                                          *)
LEMMA DispatchType ==
  ASSUME TypeInv, DispatchStep
  PROVE  TypeInv'
<1>0. data \in Data /\ call \in Calls
  BY DEF TypeInv, TypeOK
<1>1. CASE BeginDispatch
  <2>1. [pc |-> "dispatch", key |-> data.ident, inst |-> data.inst,
         credGen |-> data.credGen, bindGen |-> data.bindGen] \in Calls
    BY <1>0, <1>1 DEF BeginDispatch, Data, Calls
  <2> QED
    BY <1>1, <2>1, BeginType DEF BeginDispatch
<1>2. CASE ClearResolvedPause
  BY <1>2 DEF ClearResolvedPause, TypeInv, TypeOK, LocalsKnown
<1>3. CASE DispatchEnds
  BY <1>0, <1>3, AnsweredType DEF DispatchEnds
<1>4. ASSUME NEW kind \in {"credential", "binding"}, DeliveryRejected(kind)
      PROVE  TypeInv'
  <2>1. pause' \in Pauses
    BY <1>0, <1>4, CallFields DEF DeliveryRejected, Calling, Pauses
  <2> QED
    BY <1>4, <2>1 DEF DeliveryRejected, TypeInv, TypeOK, LocalsKnown, NoCall, Calls
<1> QED
  BY <1>1, <1>2, <1>3, <1>4 DEF DispatchStep

(* Portal requests and the reset-pairing command.                          *)
LEMMA RequestType ==
  ASSUME TypeInv, RequestStep
  PROVE  TypeInv'
<1>0. data \in Data
  BY DEF TypeInv, TypeOK
<1>1. ASSUME NEW r \in Requests, NEW goal \in {"re_pair", "deauthorize"},
             NEW c \in Codes \cup {None}, goal = "re_pair" => c # None, Request(r, goal, c)
      PROVE  TypeInv'
  <2> DEFINE fields == [Resting EXCEPT !.pc = IF data.bound THEN "read" ELSE "finish",
                                       !.goal = goal, !.code = c]
  <2>1. fields \in Locals /\ fields.goal = goal /\ fields.code = c /\ fields.pc \in {"read", "finish"}
    BY RestingType DEF Locals, Goals
  <2>2. Step(r, fields) /\ journal' = journal /\ r \in Actors
    BY <1>1 DEF Request, Actors
  <2> HIDE DEF fields
  <2>3. actor' \in [Actors -> Locals] /\ LocalsKnown'
    BY <1>1, <2>1, <2>2, StepType
  <2> QED
    BY <1>1, <2>3 DEF Request, Crossed, TypeInv, TypeOK
<1>2. ASSUME NEW r \in Requests, Deauthorize(r)
      PROVE  TypeInv'
  BY <1>1, <1>2 DEF Deauthorize
<1>3. ASSUME NEW r \in Requests, NEW c \in Codes, SubmitPairingCode(r, c)
      PROVE  TypeInv'
  BY <1>1, <1>3, PairingAssumption DEF SubmitPairingCode
<1>4. CASE LocalReset
  <2>1. data' \in Data
    BY <1>0, <1>4, UpdatesType, UpdatesFields, NormalizedType DEF LocalReset, Update, Binding
  <2> QED
    BY <1>4, <2>1 DEF LocalReset, TypeInv, TypeOK, LocalsKnown
<1>5. CASE ResetPairingCommand
  <2>1. cli' \in {"none", "refused", "done"} /\ (data' = data \/ Update(Cleared(data)))
    BY <1>5 DEF ResetPairingCommand
  <2>2. data' \in Data
    <3>1. Cleared(data) \in Data /\ Cleared(data).key = None /\ Cleared(data).ident = None
      BY <1>0, UpdatesType, UpdatesFields
    <3>2. Normalized(Cleared(data)) \in Data
      BY <1>0, <3>1, NormalizedType
    <3> QED
      BY <1>0, <2>1, <3>2 DEF Update
  <2> QED
    BY <1>5, <2>1, <2>2 DEF ResetPairingCommand, TypeInv, TypeOK, LocalsKnown
<1> QED
  BY <1>2, <1>3, <1>4, <1>5 DEF RequestStep

(* The retry time, crashes, corruption and startup.                        *)
LEMMA ProcessLifeType ==
  ASSUME TypeInv, RetryDue \/ Crash \/ RecoverCorruptState \/ Start
  PROVE  TypeInv'
<1>1. CASE RetryDue
  BY <1>1 DEF RetryDue, TypeInv, TypeOK, LocalsKnown, Data
<1>2. CASE Crash
  <2>1. actor' \in [Actors -> Locals] /\ LocalsKnown'
    BY <1>2, RestingType DEF Crash, LocalsKnown
  <2> QED
    BY <1>2, <2>1 DEF Crash, TypeInv, TypeOK, NoCall, Calls
<1>3. CASE RecoverCorruptState
  <2>1. data' \in Data
    BY <1>3, PairingAssumption
       DEF RecoverCorruptState, FreshInstallation, FreshData, Data, Phases, Generations
  <2> QED
    BY <1>3, <2>1 DEF RecoverCorruptState, TypeInv, TypeOK, LocalsKnown
<1>4. CASE Start
  <2>1. up' \in {"down", "starting", "running", "refused"}
    BY <1>4 DEF Start
  <2>2. CASE UNCHANGED actor
    BY <1>4, <2>1, <2>2 DEF Start, TypeInv, TypeOK, LocalsKnown
  <2>3. CASE /\ journal # None
             /\ Step("startup", [Resting EXCEPT !.pc = "recover", !.goal = "startup", !.j = journal])
    <3> DEFINE fields == [Resting EXCEPT !.pc = "recover", !.goal = "startup", !.j = journal]
    <3>1. journal \in Journals /\ journal' = journal /\ "startup" \in Actors
      BY <1>4, <2>3 DEF Start, TypeInv, TypeOK, Actors
    <3>2. fields \in Locals /\ fields.goal = "startup" /\ fields.pc = "recover" /\ fields.j = journal
      BY <3>1, RestingType DEF Locals, Goals
    <3>3. Step("startup", fields)
      BY <2>3
    <3> HIDE DEF fields
    <3>4. actor' \in [Actors -> Locals] /\ LocalsKnown'
      BY <2>3, <3>1, <3>2, <3>3, StepType
    <3> QED
      BY <1>4, <2>1, <3>4 DEF Start, TypeInv, TypeOK
  <2> QED
    BY <1>4, <2>2, <2>3 DEF Start
<1> QED
  BY <1>1, <1>2, <1>3, <1>4

LEMMA TypeInit == Init => TypeInv
<1> SUFFICES ASSUME Init PROVE TypeInv
  OBVIOUS
<1>1. data \in Data
  BY PairingAssumption DEF Init, FreshData, Data, Phases, Generations
<1>2. actor \in [Actors -> Locals] /\ LocalsKnown
  BY RestingType DEF Init, LocalsKnown
<1> QED
  BY <1>1, <1>2 DEF Init, TypeInv, TypeOK, NoCall, Calls

LEMMA TypeStep == TypeInv /\ [Next]_vars => TypeInv'
<1> SUFFICES ASSUME TypeInv, [Next]_vars PROVE TypeInv'
  OBVIOUS
<1>1. CASE Next
  BY <1>1, RotatorType, ProcessType, HeartbeatType, DispatchType, RequestType, ProcessLifeType
     DEF Next
<1>2. CASE UNCHANGED vars
  BY <1>2 DEF vars, TypeInv, TypeOK, LocalsKnown
<1> QED
  BY <1>1, <1>2

(* State file, journal, pause and every goroutine's locals have their types*)
(* in every state, whatever requests, calls and rotators overlap.          *)
THEOREM PairingTypeCorrect == Spec => []TypeOK
<1>1. TypeInv => TypeOK
  BY DEF TypeInv
<1> QED
  BY <1>1, TypeInit, TypeStep, PTL DEF Spec

-----------------------------------------------------------------------------
(* What a step may do to the state file, the snapshot and the pause.       *)

(* An update that is about the pairing only.                               *)
KeepsCredentials(next) ==
  /\ next.inst = data.inst
  /\ next.bound = data.bound
  /\ next.key = data.key
  /\ next.keyFor = data.keyFor
  /\ next.ident = data.ident
  /\ next.samples = data.samples
  /\ next.bindGen = data.bindGen

(* An update that clears the credentials.                                  *)
DropsCredentials(next) ==
  /\ next.key = None
  /\ next.ident = None
  /\ next.samples = None
  /\ next.bindGen = data.bindGen

Effect ==
  \/ UNCHANGED data
  \/ RetryDue
  \/ RecoverCorruptState
  \/ \E next \in Data : Update(next) /\ (KeepsCredentials(next) \/ DropsCredentials(next))
  \/ Activated
  \/ HeartbeatAcknowledged
  \/ ClockAttested

LEMMA KeepsEffect ==
  ASSUME NEW next \in Data, Update(next), KeepsCredentials(next)
  PROVE  Effect
BY DEF Effect

LEMMA DropsEffect ==
  ASSUME NEW next \in Data, Update(next), DropsCredentials(next)
  PROVE  Effect
BY DEF Effect

LEMMA Effects == ASSUME TypeInv, Next PROVE Effect
<1>0. data \in Data /\ call \in Calls /\ actor \in [Actors -> Locals]
  BY DEF TypeInv, TypeOK
<1>1. Unpaired(data) \in Data /\ KeepsCredentials(Unpaired(data))
  BY <1>0, UpdatesType, UpdatesFields DEF KeepsCredentials
<1>2. Cleared(data) \in Data /\ DropsCredentials(Cleared(data))
  BY <1>0, UpdatesType, UpdatesFields DEF DropsCredentials
<1>3. ASSUME NEW a \in Actors, RotatorStep(a)
      PROVE  Effect
  <2>1. CASE WriteRotated(a)
    <3>1. actor[a].j \in Journals
      BY <1>0, <2>1 DEF WriteRotated, At, TypeInv, LocalsKnown, Locals
    <3>2. actor[a].j.new \in Installations
      BY <3>1 DEF Journals
    <3>3. /\ Rotated(data, actor[a].j.new) \in Data
          /\ DropsCredentials(Rotated(data, actor[a].j.new))
      BY <1>0, <3>2, UpdatesType, UpdatesFields DEF DropsCredentials
    <3> QED
      BY <2>1, <3>3, DropsEffect DEF WriteRotated
  <2>2. CASE Finish(a)
    <3>1. CASE actor[a].goal = "re_pair" /\ Update(CodeEntered(data, actor[a].code))
      <4>1. actor[a].code \in Codes
        BY <1>0, <3>1 DEF TypeInv, LocalsKnown, Locals
      <4>2. /\ CodeEntered(data, actor[a].code) \in Data
            /\ KeepsCredentials(CodeEntered(data, actor[a].code))
        BY <1>0, <4>1, UpdatesType, UpdatesFields DEF KeepsCredentials
      <4> QED
        BY <3>1, <4>2, KeepsEffect
    <3>2. CASE Update(Cleared(data))
      BY <1>2, <3>2, DropsEffect
    <3>3. CASE UNCHANGED data
      BY <3>3 DEF Effect
    <3> QED
      BY <2>2, <3>1, <3>2, <3>3 DEF Finish
  <2>3. CASE ~WriteRotated(a) /\ ~Finish(a)
    <3>1. UNCHANGED data
      BY <1>3, <2>3 DEF RotatorStep, ReadJournal, MintInstallation, BeginInstallationRotation,
           QuarantineOld, CheckBoundary, RecordRotated, CompleteRotation
    <3> QED
      BY <3>1 DEF Effect
  <2> QED
    BY <2>1, <2>2, <2>3
<1>4. CASE ProcessStep
  <2>1. CASE Exchanged
    <3> DEFINE next == [data EXCEPT !.phase = "bootstrap_exchanged", !.token = call.code, !.wait = FALSE]
    <3>1. call.code \in Codes
      BY <1>0, <2>1, CallFields DEF Exchanged, Calling
    <3>2. next \in Data /\ KeepsCredentials(next)
      BY <1>0, <3>1 DEF Data, Phases, KeepsCredentials
    <3>3. Update(next)
      BY <2>1 DEF Exchanged
    <3> HIDE DEF next
    <3> QED
      BY <3>2, <3>3, KeepsEffect
  <2>2. CASE Activated
    BY <2>2 DEF Effect
  <2>3. CASE AttemptRetried
    <3> DEFINE next == [data EXCEPT !.phase = RetryPhase, !.wait = TRUE]
    <3>1. next \in Data /\ KeepsCredentials(next)
      BY <1>0, ZenonT(60) DEF Data, Phases, RetryPhase, KeepsCredentials
    <3>2. Update(next)
      BY <2>3 DEF AttemptRetried
    <3> HIDE DEF next
    <3> QED
      BY <3>1, <3>2, KeepsEffect
  <2>4. CASE AttemptFailed \/ Reverted
    <3>1. Update(Unpaired(data))
      BY <2>4 DEF AttemptFailed, Reverted
    <3> QED
      BY <1>1, <3>1, KeepsEffect
  <2>5. CASE Promoted
    <3> DEFINE next == [data EXCEPT !.phase = "steady_state"]
    <3>1. next \in Data /\ KeepsCredentials(next)
      BY <1>0 DEF Data, Phases, KeepsCredentials
    <3>2. Update(next)
      BY <2>5 DEF Promoted
    <3> HIDE DEF next
    <3> QED
      BY <3>1, <3>2, KeepsEffect
  <2>6. CASE BeginExchange \/ BeginActivation \/ BeginRevert \/ BeginPromotion
    BY <2>6 DEF BeginExchange, BeginActivation, BeginRevert, BeginPromotion, Begin, Effect
  <2> QED
    BY <1>4, <2>1, <2>2, <2>3, <2>4, <2>5, <2>6 DEF ProcessStep
<1>5. CASE HeartbeatStep
  BY <1>5 DEF HeartbeatStep, BeginHeartbeat, Begin, HeartbeatUnanswered, HeartbeatRejected,
       QuarantineReceiver, ApplyLifecycleChange, Effect
<1>6. CASE DispatchStep
  BY <1>6 DEF DispatchStep, BeginDispatch, Begin, ClearResolvedPause, DispatchEnds,
       DeliveryRejected, Effect
<1>7. CASE RequestStep
  <2>1. CASE LocalReset
    BY <1>1, <2>1, KeepsEffect DEF LocalReset
  <2>2. CASE ResetPairingCommand
    <3>1. UNCHANGED data \/ Update(Cleared(data))
      BY <2>2 DEF ResetPairingCommand
    <3> QED
      BY <1>2, <3>1, DropsEffect DEF Effect
  <2>3. CASE \E r \in Requests : Deauthorize(r) \/ \E c \in Codes : SubmitPairingCode(r, c)
    BY <2>3 DEF Deauthorize, SubmitPairingCode, Request, Effect
  <2> QED
    BY <1>7, <2>1, <2>2, <2>3 DEF RequestStep
<1>8. CASE RetryDue \/ Crash \/ RecoverCorruptState \/ Start
  BY <1>8 DEF Crash, Start, Effect
<1> QED
  BY <1>3, <1>4, <1>5, <1>6, <1>7, <1>8 DEF Next

(* What an activation writes.                                              *)
LEMMA ActivationEffect ==
  ASSUME TypeInv, Activated
  PROVE  \E k \in Keys, next \in Data :
           /\ FreshKey(k)
           /\ Update(next)
           /\ next.inst = data.inst
           /\ next.bound = TRUE
           /\ next.phase = "activated"
           /\ next.key = k
           /\ next.keyFor = call.inst
           /\ next.ident = k
           /\ next.samples = data.samples
           /\ next.bindGen = data.bindGen
<1>0. data \in Data /\ call \in Calls
  BY DEF TypeInv, TypeOK
<1>1. PICK k \in Keys :
        /\ FreshKey(k)
        /\ Update([Unpaired(data) EXCEPT !.phase = "activated", !.key = k, !.bound = TRUE,
                                         !.keyFor = call.inst, !.ident = k])
  BY DEF Activated
<1> DEFINE d == Unpaired(data)
           next == [d EXCEPT !.phase = "activated", !.key = k, !.bound = TRUE,
                             !.keyFor = call.inst, !.ident = k]
<1>2. call.inst \in Installations
  BY <1>0, CallFields DEF Activated, Calling
<1>3. d \in Data /\ d.inst = data.inst /\ d.samples = data.samples /\ d.bindGen = data.bindGen
  BY <1>0, UpdatesType, UpdatesFields
<1>4. Update(next)
  BY <1>1
<1> HIDE DEF d
<1>5. /\ next \in Data
      /\ next.inst = d.inst
      /\ next.bound = TRUE
      /\ next.phase = "activated"
      /\ next.key = k
      /\ next.keyFor = call.inst
      /\ next.ident = k
      /\ next.samples = d.samples
      /\ next.bindGen = d.bindGen
  BY <1>2, <1>3 DEF Data, Phases
<1> HIDE DEF next
<1> QED
  BY <1>1, <1>3, <1>4, <1>5

-----------------------------------------------------------------------------
(* Clock samples.                                                          *)

LEMMA SamplesUpdated ==
  ASSUME data \in Data, NEW next \in Data, Update(next), SamplesOfBinding,
         \/ next.samples \in {None, data.samples}
         \/ next.samples = Binding(data)
  PROVE  SamplesOfBinding'
<1>1. /\ data'.samples = IF Binding(next) # Binding(data) THEN None ELSE next.samples
      /\ Binding(data)' = Binding(next)
  BY NormalizedFields DEF Update, Binding
<1> QED
  BY <1>1 DEF SamplesOfBinding

LEMMA SamplesStep == ASSUME TypeInv, SamplesOfBinding, [Next]_vars PROVE SamplesOfBinding'
<1>0. data \in Data /\ call \in Calls
  BY DEF TypeInv, TypeOK
<1>1. CASE UNCHANGED data
  BY <1>1 DEF SamplesOfBinding, Binding
<1>2. CASE RetryDue
  BY <1>0, <1>2 DEF RetryDue, SamplesOfBinding, Binding, Data
<1>3. CASE RecoverCorruptState
  BY <1>3 DEF RecoverCorruptState, FreshData, SamplesOfBinding
<1>4. ASSUME NEW next \in Data, Update(next), KeepsCredentials(next) \/ DropsCredentials(next)
      PROVE  SamplesOfBinding'
  BY <1>0, <1>4, SamplesUpdated DEF KeepsCredentials, DropsCredentials
<1>5. CASE Activated
  BY <1>0, <1>5, ActivationEffect, SamplesUpdated
<1>6. CASE HeartbeatAcknowledged
  <2> DEFINE next == [data EXCEPT !.ident = call.key]
  <2>1. call.key \in Keys
    BY <1>0, <1>6, CallFields DEF HeartbeatAcknowledged, Calling
  <2>2. next \in Data /\ next.samples = data.samples
    BY <1>0, <2>1 DEF Data
  <2>3. Update(next)
    BY <1>6 DEF HeartbeatAcknowledged
  <2> HIDE DEF next
  <2> QED
    BY <1>0, <2>2, <2>3, SamplesUpdated
<1>7. CASE ClockAttested
  <2> DEFINE next == IF Binding(data) = <<call.key, call.inst>>
                     THEN [data EXCEPT !.samples = <<call.key, call.inst>>] ELSE data
  <2>1. call.key \in Keys /\ call.inst \in Installations
    BY <1>0, <1>7, CallFields DEF ClockAttested, Calling
  <2>2. next \in Data /\ next.samples \in {data.samples, Binding(data)}
    BY <1>0, <2>1 DEF Data, Binding
  <2>3. Update(next)
    BY <1>7 DEF ClockAttested
  <2> HIDE DEF next
  <2> QED
    BY <1>0, <2>2, <2>3, SamplesUpdated
<1> QED
  BY <1>1, <1>2, <1>3, <1>4, <1>5, <1>6, <1>7, Effects DEF Effect, vars

(* The samples kept are of the binding they are kept with, although they   *)
(* come with answers to requests that may be older than that binding: the  *)
(* checks of recordClockAttestation and normalizeGenerations suffice for   *)
(* every overlap of requests, rotations, heartbeats and recoveries.        *)
THEOREM SamplesAlwaysOfBinding == Spec => []SamplesOfBinding
<1>1. Init => SamplesOfBinding
  BY DEF Init, FreshData, SamplesOfBinding
<1>2. TypeInv /\ SamplesOfBinding /\ [Next]_vars => SamplesOfBinding'
  BY SamplesStep
<1> QED
  BY <1>1, <1>2, TypeInit, TypeStep, PTL DEF Spec

-----------------------------------------------------------------------------
(* The pause and the credentials that supersede it.                        *)

(* The receiver the state names is the one the key was issued for, and the *)
(* Run loop, which alone stores keys, has not stored another since it sent *)
(* the heartbeat it waits for.                                             *)
IdentityFollows ==
  /\ data.key # None => data.ident = data.key
  /\ call.pc = "heartbeat" => data.key \in {None, call.key}

(* c is a pause or the snapshot of a batch: the binding generation has not *)
(* gone back since, and it is higher if the key is another.                *)
Behind(c) ==
  /\ c.bindGen <= data.bindGen
  /\ data.key \notin {None, c.key} => c.bindGen < data.bindGen

PauseInv ==
  /\ IdentityFollows
  /\ up = "down" => call.pc # "dispatch"
  /\ pause # None /\ marred # "lost" => Behind(pause)
  /\ call.pc = "dispatch" => Behind(call)

(* What the fields that matter are after an update.                        *)
LEMMA UpdatedFields ==
  ASSUME NEW next \in Data, Update(next), next.bindGen = data.bindGen
  PROVE  /\ data'.key = next.key
         /\ data'.ident = next.ident
         /\ data'.bindGen = IF Binding(next) # Binding(data) /\ next.ident # None
                            THEN data.bindGen + 1 ELSE data.bindGen
BY NormalizedFields DEF Update

(* No update but an activation stores a key, and it is in a new generation.*)
LEMMA KeyEffect ==
  ASSUME TypeInv, IdentityFollows, [Next]_vars, ~RecoverCorruptState
  PROVE  /\ data.bindGen \in Int /\ data'.bindGen \in Int
         /\ data.bindGen <= data'.bindGen
         /\ data'.key \in {None, data.key} \/ (Activated /\ data.bindGen < data'.bindGen)
         /\ data'.key # None => data'.ident = data'.key
<1>0. data \in Data /\ call \in Calls /\ data.bindGen \in Int /\ data'.bindGen \in Int
  <2>1. data \in Data /\ call \in Calls /\ data' \in Data
    BY TypeStep DEF TypeInv, TypeOK
  <2> QED
    BY <2>1, PairingAssumption DEF Data, Generations
<1>1. CASE UNCHANGED data
  BY <1>0, <1>1 DEF IdentityFollows
<1>2. CASE RetryDue
  <2>1. data'.key = data.key /\ data'.ident = data.ident /\ data'.bindGen = data.bindGen
    BY <1>0, <1>2 DEF RetryDue, Data
  <2> QED
    BY <1>0, <2>1 DEF IdentityFollows
<1>3. ASSUME NEW next \in Data, Update(next), KeepsCredentials(next) \/ DropsCredentials(next)
      PROVE  /\ data'.key \in {None, data.key}
             /\ data'.key # None => data'.ident = data'.key
             /\ data.bindGen <= data'.bindGen
  <2>1. /\ next.bindGen = data.bindGen
        /\ next.key \in {None, data.key}
        /\ next.key # None => next.ident = next.key
    BY <1>3 DEF KeepsCredentials, DropsCredentials, IdentityFollows
  <2> QED
    BY <1>0, <1>3, <2>1, UpdatedFields
<1>4. CASE Activated
  <2>1. PICK k \in Keys, next \in Data :
           /\ FreshKey(k)
           /\ Update(next)
           /\ next.inst = data.inst
           /\ next.key = k
           /\ next.ident = k
           /\ next.bindGen = data.bindGen
    BY <1>4, ActivationEffect
  <2>2. Binding(next) # Binding(data) /\ k # None
    BY <2>1, PairingAssumption DEF FreshKey, Binding
  <2>3. data'.key = k /\ data'.ident = k /\ data'.bindGen = data.bindGen + 1
    BY <2>1, <2>2, UpdatedFields
  <2> QED
    BY <1>0, <1>4, <2>3
<1>5. CASE HeartbeatAcknowledged
  <2> DEFINE next == [data EXCEPT !.ident = call.key]
  <2>1. call.key \in Keys /\ call.pc = "heartbeat"
    BY <1>0, <1>5, CallFields DEF HeartbeatAcknowledged, Calling
  <2>2. next \in Data /\ next.key = data.key /\ next.ident = call.key /\ next.bindGen = data.bindGen
    BY <1>0, <2>1 DEF Data
  <2>3. Update(next)
    BY <1>5 DEF HeartbeatAcknowledged
  <2> HIDE DEF next
  <2>4. data'.key = data.key /\ data'.ident = call.key /\ data.bindGen <= data'.bindGen
    BY <1>0, <2>2, <2>3, UpdatedFields
  <2> QED
    BY <1>0, <2>1, <2>4 DEF IdentityFollows
<1>6. CASE ClockAttested
  <2> DEFINE next == IF Binding(data) = <<call.key, call.inst>>
                     THEN [data EXCEPT !.samples = <<call.key, call.inst>>] ELSE data
  <2>1. call.key \in Keys /\ call.inst \in Installations
    BY <1>0, <1>6, CallFields DEF ClockAttested, Calling
  <2>2. next \in Data /\ next.key = data.key /\ next.ident = data.ident /\ next.bindGen = data.bindGen
    BY <1>0, <2>1 DEF Data, Binding
  <2>3. Update(next)
    BY <1>6 DEF ClockAttested
  <2> HIDE DEF next
  <2>4. data'.key = data.key /\ data'.ident = data.ident /\ data.bindGen <= data'.bindGen
    BY <1>0, <2>2, <2>3, UpdatedFields
  <2> QED
    BY <1>0, <2>4 DEF IdentityFollows
<1> QED
  BY <1>0, <1>1, <1>2, <1>3, <1>4, <1>5, <1>6, Effects DEF Effect, vars

(* The calls that keep a snapshot of the credentials begin with it, and    *)
(* only the answer to a batch pauses delivery.                             *)
OwnSnapshot ==
  call' = call \/ call'.pc \notin {"heartbeat", "dispatch"} \/ BeginHeartbeat \/ BeginDispatch

OwnPause ==
  \/ pause' \in {None, pause}
  \/ QuarantineReceiver
  \/ \E kind \in {"credential", "binding"} : DeliveryRejected(kind)

LEMMA AnsweredSnapshot == (call' = NoCall) \/ UNCHANGED call => OwnSnapshot
BY DEF OwnSnapshot, NoCall

LEMMA SnapshotEffect == ASSUME TypeInv, [Next]_vars PROVE OwnSnapshot
<1>0. call \in Calls
  BY DEF TypeInv, TypeOK
<1>1. CASE UNCHANGED vars
  BY <1>1, AnsweredSnapshot DEF vars
<1>2. ASSUME NEW a \in Actors, RotatorStep(a)
      PROVE  call' = NoCall \/ UNCHANGED call
  BY <1>2 DEF RotatorStep, ReadJournal, MintInstallation, BeginInstallationRotation, QuarantineOld,
       CheckBoundary, WriteRotated, RecordRotated, CompleteRotation, Advance, Finish, Fail, Keeps
<1>3. CASE ProcessStep
  <2>1. CASE BeginExchange \/ BeginActivation \/ BeginRevert \/ BeginPromotion
    BY <2>1 DEF BeginExchange, BeginActivation, BeginRevert, BeginPromotion, Begin, OwnSnapshot
  <2>2. CASE ~(BeginExchange \/ BeginActivation \/ BeginRevert \/ BeginPromotion)
    <3>1. AnsweredOnce
      BY <1>3, <2>2 DEF ProcessStep, Exchanged, Activated, AttemptRetried, AttemptFailed,
           Reverted, Promoted, Answered
    <3> QED
      BY <3>1, AnsweredSnapshot DEF AnsweredOnce
  <2> QED
    BY <2>1, <2>2
<1>4. CASE HeartbeatStep
  <2>1. CASE HeartbeatAcknowledged
    <3>1. call' = [call EXCEPT !.pc = "attest"]
      BY <2>1 DEF HeartbeatAcknowledged
    <3>2. call \in [pc : {"heartbeat", "attest"}, key : Keys, inst : Installations]
      BY <1>0, <2>1 DEF HeartbeatAcknowledged, Calling, Calls
    <3> QED
      BY <3>1, <3>2 DEF OwnSnapshot
  <2>2. CASE QuarantineReceiver
    <3>1. call' = [call EXCEPT !.pc = "apply"]
      BY <2>2 DEF QuarantineReceiver
    <3>2. call \in [pc : {"lifecycle", "apply"}, change : {"revoked", "replaced"}]
      BY <1>0, <2>2 DEF QuarantineReceiver, Calling, Calls
    <3> QED
      BY <3>1, <3>2 DEF OwnSnapshot
  <2>3. CASE HeartbeatUnanswered \/ ClockAttested
    BY <2>3, AnsweredSnapshot DEF HeartbeatUnanswered, ClockAttested, Answered, AnsweredOnce
  <2>4. ASSUME NEW change \in {"revoked", "replaced"}, HeartbeatRejected(change)
        PROVE  OwnSnapshot
    BY <2>4 DEF HeartbeatRejected, OwnSnapshot
  <2>5. CASE ApplyLifecycleChange
    BY <2>5 DEF ApplyLifecycleChange, OwnSnapshot
  <2>6. CASE BeginHeartbeat
    BY <2>6 DEF OwnSnapshot
  <2> QED
    BY <1>4, <2>1, <2>2, <2>3, <2>4, <2>5, <2>6 DEF HeartbeatStep
<1>5. CASE DispatchStep
  <2>1. BeginDispatch \/ call' = NoCall \/ UNCHANGED call
    BY <1>5 DEF DispatchStep, ClearResolvedPause, DispatchEnds, DeliveryRejected, Answered,
         AnsweredOnce
  <2> QED
    BY <2>1, AnsweredSnapshot DEF OwnSnapshot
<1>6. CASE RequestStep \/ RetryDue \/ Crash \/ RecoverCorruptState \/ Start
  <2>1. call' = NoCall \/ UNCHANGED call
    BY <1>6 DEF RequestStep, Deauthorize, SubmitPairingCode, Request, LocalReset,
         ResetPairingCommand, RetryDue, Crash, RecoverCorruptState, Start
  <2> QED
    BY <2>1, AnsweredSnapshot
<1> QED
  BY <1>1, <1>2, <1>3, <1>4, <1>5, <1>6, AnsweredSnapshot DEF Next

LEMMA PauseEffect == ASSUME [Next]_vars PROVE OwnPause
<1>1. CASE UNCHANGED vars
  BY <1>1 DEF vars, OwnPause
<1>2. ASSUME NEW a \in Actors, RotatorStep(a)
      PROVE  pause' \in {None, pause}
  BY <1>2 DEF RotatorStep, ReadJournal, MintInstallation, BeginInstallationRotation, QuarantineOld,
       CheckBoundary, WriteRotated, RecordRotated, CompleteRotation, Finish
<1>3. CASE ProcessStep
  BY <1>3 DEF ProcessStep, BeginExchange, Exchanged, BeginActivation, Activated, AttemptRetried,
       AttemptFailed, BeginRevert, Reverted, BeginPromotion, Promoted, Begin, Answered, AnsweredOnce,
       OwnPause
<1>4. CASE HeartbeatStep
  BY <1>4 DEF HeartbeatStep, HeartbeatAcknowledged, HeartbeatUnanswered, ClockAttested,
       HeartbeatRejected, ApplyLifecycleChange, BeginHeartbeat, Begin, Answered, AnsweredOnce,
       OwnPause
<1>5. CASE DispatchStep
  BY <1>5 DEF DispatchStep, BeginDispatch, ClearResolvedPause, DispatchEnds, Begin, Answered,
       AnsweredOnce, OwnPause
<1>6. CASE RequestStep \/ RetryDue \/ Crash \/ RecoverCorruptState \/ Start
  BY <1>6 DEF RequestStep, Deauthorize, SubmitPairingCode, Request, LocalReset,
       ResetPairingCommand, RetryDue, Crash, RecoverCorruptState, Start, OwnPause
<1> QED
  BY <1>1, <1>2, <1>3, <1>4, <1>5, <1>6 DEF Next, OwnPause

(* What a pause or a snapshot is behind, it stays behind.                  *)
LEMMA StaysBehind ==
  ASSUME TypeInv, IdentityFollows, [Next]_vars, ~RecoverCorruptState,
         NEW c, c.bindGen \in Int, Behind(c)
  PROVE  /\ c.bindGen <= data'.bindGen
         /\ data'.key \notin {None, c.key} => c.bindGen < data'.bindGen
<1>1. CASE data'.key \in {None, data.key}
  BY <1>1, KeyEffect DEF Behind
<1>2. CASE data.bindGen < data'.bindGen
  BY <1>2, KeyEffect DEF Behind
<1> QED
  BY <1>1, <1>2, KeyEffect

(* A lost state file is not forgotten, and what came between the two files *)
(* stays.                                                                  *)
LEMMA MarredStays ==
  ASSUME [Next]_vars
  PROVE  /\ marred' = "no" => marred = "no"
         /\ marred = "lost" => marred' = "lost"
<1>1. CASE \E a \in Actors : RotatorStep(a)
  BY <1>1 DEF RotatorStep, ReadJournal, MintInstallation, BeginInstallationRotation, QuarantineOld,
     CheckBoundary, WriteRotated, RecordRotated, CompleteRotation, Finish
<1>2. CASE ProcessStep
  BY <1>2 DEF ProcessStep, BeginExchange, Exchanged, BeginActivation, Activated, AttemptRetried,
     AttemptFailed, BeginRevert, Reverted, BeginPromotion, Promoted, Begin, Answered,
     AnsweredOnce, Crossed
<1>3. CASE HeartbeatStep
  BY <1>3 DEF HeartbeatStep, BeginHeartbeat, HeartbeatAcknowledged, HeartbeatUnanswered,
     ClockAttested, HeartbeatRejected, QuarantineReceiver, ApplyLifecycleChange, Begin, Answered,
     Crossed
<1>4. CASE DispatchStep
  BY <1>4 DEF DispatchStep, BeginDispatch, ClearResolvedPause, DispatchEnds, DeliveryRejected,
     Begin, Answered
<1>5. CASE RequestStep
  BY <1>5 DEF RequestStep, Deauthorize, SubmitPairingCode, Request, LocalReset,
     ResetPairingCommand, Crossed
<1>6. CASE RetryDue \/ Crash \/ RecoverCorruptState \/ Start
  BY <1>6 DEF RetryDue, Crash, RecoverCorruptState, Start
<1> QED
  BY <1>1, <1>2, <1>3, <1>4, <1>5, <1>6 DEF Next, vars

(* Of a process that is down no batch is under way.                        *)
LEMMA DownQuiet ==
  ASSUME [Next]_vars, up = "down" => call.pc # "dispatch"
  PROVE  up' = "down" => call'.pc # "dispatch"
<1> SUFFICES ASSUME up' = "down" PROVE call'.pc # "dispatch"
  OBVIOUS
<1>1. CASE UNCHANGED vars
  BY <1>1 DEF vars
<1>2. ASSUME NEW a \in Actors, RotatorStep(a)
      PROVE  FALSE
  BY <1>2 DEF RotatorStep, ReadJournal, MintInstallation, BeginInstallationRotation, QuarantineOld,
     CheckBoundary, WriteRotated, RecordRotated, CompleteRotation, Finish, Advance, Fail, Keeps, At
<1>3. CASE ProcessStep
  BY <1>3 DEF ProcessStep, BeginExchange, Exchanged, BeginActivation, Activated, AttemptRetried,
     AttemptFailed, BeginRevert, Reverted, BeginPromotion, Promoted, Begin, MayLoop, Calling,
     Running, Answered, AnsweredOnce
<1>4. CASE HeartbeatStep
  BY <1>4 DEF HeartbeatStep, BeginHeartbeat, HeartbeatAcknowledged, HeartbeatUnanswered,
     ClockAttested, HeartbeatRejected, QuarantineReceiver, ApplyLifecycleChange, Begin, MayLoop,
     Calling, Running, Answered, AnsweredOnce
<1>5. CASE DispatchStep
  BY <1>5 DEF DispatchStep, BeginDispatch, ClearResolvedPause, DispatchEnds, DeliveryRejected,
     Begin, MayLoop, Calling, Running, Answered, AnsweredOnce
<1>6. CASE RequestStep
  BY <1>6 DEF RequestStep, Deauthorize, SubmitPairingCode, Request, LocalReset,
     ResetPairingCommand
<1>7. CASE RetryDue \/ Crash \/ RecoverCorruptState \/ Start
  BY <1>7 DEF RetryDue, Crash, RecoverCorruptState, Start, NoCall
<1> QED
  BY <1>1, <1>2, <1>3, <1>4, <1>5, <1>6, <1>7 DEF Next

(* A lost state file starts the generations over.                          *)
LEMMA LostKeeps ==
  ASSUME PauseInv, RecoverCorruptState
  PROVE  PauseInv'
<1>1. /\ up = "down" /\ UNCHANGED <<call, pause, up>>
      /\ pause # None => marred' = "lost"
      /\ data'.key = None
  BY DEF RecoverCorruptState, FreshData
<1> QED
  BY <1>1 DEF PauseInv, IdentityFollows

LEMMA PauseStep ==
  ASSUME TypeInv, PauseInv, [Next]_vars, ~RecoverCorruptState
  PROVE  PauseInv'
<1>0. /\ data \in Data /\ pause \in Pauses \cup {None} /\ call \in Calls
      /\ IdentityFollows
      /\ OwnSnapshot
      /\ OwnPause
      /\ None \notin Pauses
  BY SnapshotEffect, PauseEffect, NoneAssumption DEF TypeInv, TypeOK, PauseInv
<1>1. data'.key # None => data'.ident = data'.key
  BY <1>0, KeyEffect
<1>2. call'.pc = "heartbeat" => data'.key \in {None, call'.key}
  <2>1. CASE BeginHeartbeat
    BY <2>1 DEF BeginHeartbeat, Begin
  <2>2. CASE UNCHANGED call /\ call.pc = "heartbeat"
    <3>1. ~Activated
      BY <2>2 DEF Activated, Calling
    <3> QED
      BY <1>0, <2>2, <3>1, KeyEffect DEF IdentityFollows
  <2>3. CASE BeginDispatch
    BY <2>3 DEF BeginDispatch, Begin
  <2> QED
    BY <1>0, <2>1, <2>2, <2>3 DEF OwnSnapshot
<1>3. ASSUME pause \in Pauses, marred # "lost"
      PROVE  /\ pause.bindGen <= data'.bindGen
             /\ data'.key \notin {None, pause.key} => pause.bindGen < data'.bindGen
  <2>1. pause.bindGen \in Int /\ Behind(pause)
    BY <1>0, <1>3, PairingAssumption DEF Pauses, Generations, PauseInv
  <2> QED
    BY <1>0, <2>1, StaysBehind
<1>4. ASSUME call.pc = "dispatch"
      PROVE  /\ call.bindGen \in Generations /\ call.key \in Keys
             /\ call.bindGen <= data'.bindGen
             /\ data'.key \notin {None, call.key} => call.bindGen < data'.bindGen
  <2>1. call.bindGen \in Generations /\ call.bindGen \in Int /\ call.key \in Keys
    BY <1>0, <1>4, CallFields, PairingAssumption DEF Generations
  <2> QED
    BY <1>0, <1>4, <2>1, StaysBehind DEF PauseInv
<1>5. ASSUME pause' # None, marred' # "lost" PROVE Behind(pause)'
  <2>0. marred # "lost"
    BY <1>5, MarredStays
  <2>1. CASE pause' = pause
    BY <1>0, <1>3, <1>5, <2>0, <2>1 DEF Behind
  <2>2. CASE QuarantineReceiver
    <3>1. /\ pause \in Pauses
          /\ pause' = pause \/ pause' = [pause EXCEPT !.held = FALSE]
      BY <1>0, <1>5, <2>2 DEF QuarantineReceiver
    <3>2. pause'.bindGen = pause.bindGen /\ pause'.key = pause.key
      BY <3>1 DEF Pauses
    <3> QED
      BY <1>3, <2>0, <3>1, <3>2 DEF Behind
  <2>3. ASSUME NEW kind \in {"credential", "binding"}, DeliveryRejected(kind)
        PROVE  Behind(pause)'
    <3>1. pause'.bindGen = call.bindGen /\ pause'.key = call.key /\ call.pc = "dispatch"
      BY <2>3 DEF DeliveryRejected, Calling
    <3> QED
      BY <1>4, <3>1 DEF Behind
  <2> QED
    BY <1>0, <1>5, <2>1, <2>2, <2>3 DEF OwnPause
<1>6. ASSUME call'.pc = "dispatch" PROVE Behind(call)'
  <2>1. CASE UNCHANGED call
    BY <1>4, <1>6, <2>1 DEF Behind
  <2>2. CASE BeginDispatch
    <3>1. /\ UNCHANGED data
          /\ call'.key = data.ident /\ call'.bindGen = data.bindGen
          /\ data.key # None
      BY <2>2 DEF BeginDispatch, Begin, CredentialsReady
    <3>2. data.ident = data.key /\ data.bindGen \in Int
      BY <1>0, <3>1, PairingAssumption DEF IdentityFollows, Data, Generations
    <3> QED
      BY <3>1, <3>2 DEF Behind
  <2>3. CASE BeginHeartbeat
    BY <1>6, <2>3 DEF BeginHeartbeat, Begin
  <2> QED
    BY <1>0, <1>6, <2>1, <2>2, <2>3 DEF OwnSnapshot
<1> QED
  BY <1>1, <1>2, <1>5, <1>6, DownQuiet DEF PauseInv, IdentityFollows

(* Unless the state file is lost, credentials other than the ones that     *)
(* the cloud rejected are of a higher binding generation than the pause,   *)
(* so that the next batch lifts it, whatever rotations, resets and answers *)
(* to older requests came in between.                                      *)
THEOREM PauseAlwaysSupersedable == Spec => []PauseSupersedable
<1>1. Init => PauseInv
  BY DEF Init, FreshData, NoCall, PauseInv, IdentityFollows
<1>2. TypeInv /\ PauseInv /\ [Next]_vars => PauseInv'
  BY PauseStep, LostKeeps
<1>3. PauseInv => PauseSupersedable
  BY DEF PauseInv, Behind, PauseSupersedable, Superseded
<1> QED
  BY <1>1, <1>2, <1>3, TypeInit, TypeStep, PTL DEF Spec

-----------------------------------------------------------------------------
(* The two files.  As long as nothing has come between them, at most one   *)
(* actor is within a rotation, whatever else overlaps it.                  *)

Rotates(a) == actor[a].pc \notin {"idle", "finish"}

(* Where the actors of a rotation are: the startup's before Run, the Run   *)
(* loop's within a lifecycle error.                                        *)
Alone ==
  /\ \A a, b \in Actors : Rotates(a) /\ Rotates(b) => a = b
  /\ \A a \in Actors \ {"startup"} : actor[a] # Resting => Running
  /\ actor["startup"] # Resting => up = "starting"
  /\ Rotates("loop") => call.pc = "rotating"

(* The journal asks for nothing more.                                      *)
Settled == journal = None \/ journal.phase = "completed"

(* What the state file holds at each phase of the journal, also where a    *)
(* crash interrupts the rotation.                                          *)
FilesAgree ==
  journal # None =>
    /\ journal.phase = "intent" => data.inst = journal.old
    /\ journal.phase = "old_binding_quarantined" /\ data.inst # journal.old =>
         data.inst = journal.new /\ ValidRotated(data)
    /\ journal.phase \in {"state_rotated", "completed"} => data.inst = journal.new

(* What a rotator knows when it takes its next step: its copy of the       *)
(* journal is the stored one.                                              *)
InStep(a) ==
  LET l == actor[a] IN
  /\ l.pc \in {"read", "mint", "begin"} => Settled
  /\ l.pc = "begin" => l.old = data.inst
  /\ l.pc \in {"recover", "write", "record"} => l.j = journal
  /\ l.pc = "recover" => ~Settled
  /\ l.pc \in {"write", "record"} => journal.phase = "old_binding_quarantined"
  /\ l.pc = "write" => data.inst = journal.old
  /\ l.pc = "record" => data.inst = journal.new

Files ==
  /\ up # "refused"
  /\ FilesAgree
  /\ \A a \in Actors : InStep(a)
  /\ up # "down" /\ (\A a \in Actors : ~Rotates(a)) => Settled

Orderly == marred = "no" => Alone /\ Files

(* What an update leaves in the fields the two files agree on.             *)
LEMMA UpdatedState ==
  ASSUME NEW next \in Data, Update(next)
  PROVE  /\ data'.inst = next.inst
         /\ ValidRotated(next) => ValidRotated(data)'
<1>1. /\ data'.inst = next.inst
      /\ data'.bound = next.bound
      /\ data'.key = next.key
      /\ data'.ident = next.ident
      /\ data'.samples \in {None, next.samples}
  BY NormalizedFields DEF Update
<1> QED
  BY <1>1 DEF ValidRotated

(* Every step of a rotator is the step of one that is not at rest.         *)
LEMMA RotatorAt ==
  ASSUME NEW a \in Actors, RotatorStep(a)
  PROVE  /\ up \in {"starting", "running"} /\ actor[a] # Resting
         /\ ~Finish(a) => Rotates(a)
<1>1. /\ up \in {"starting", "running"} /\ actor[a].pc # "idle"
      /\ ~Finish(a) => Rotates(a)
  BY DEF RotatorStep, ReadJournal, MintInstallation, BeginInstallationRotation, QuarantineOld,
     CheckBoundary, WriteRotated, RecordRotated, CompleteRotation, Finish, At, Rotates
<1> QED
  BY <1>1 DEF Resting

(* It moves no other, and leaves the process and the call alone unless it  *)
(* ends.                                                                   *)
LEMMA RotatorMoves ==
  ASSUME TypeInv, NEW a \in Actors, RotatorStep(a)
  PROVE  /\ \A b \in Actors : b # a => actor'[b] = actor[b]
         /\ \/ up' = up /\ call' = call
            \/ /\ actor'[a] = Resting
               /\ up' \in {"running", up} \/ (a = "startup" /\ up' = "refused")
               /\ call' = IF a = "loop" THEN NoCall ELSE call
<1>1. actor \in [Actors -> Locals]
  BY DEF TypeInv, TypeOK
<1>2. ASSUME NEW f, Step(a, f)
      PROVE  actor'[a] = f /\ \A b \in Actors : b # a => actor'[b] = actor[b]
  BY <1>1, <1>2 DEF Step
<1>3. CASE ReadJournal(a)
  BY <1>2, <1>3 DEF ReadJournal, Proceed
<1>4. CASE MintInstallation(a)
  BY <1>2, <1>4 DEF MintInstallation
<1>5. CASE BeginInstallationRotation(a)
  BY <1>2, <1>5 DEF BeginInstallationRotation, Proceed
<1>6. CASE QuarantineOld(a)
  BY <1>2, <1>6 DEF QuarantineOld, Proceed
<1>7. CASE CheckBoundary(a)
  BY <1>2, <1>7 DEF CheckBoundary, Fail, Keeps
<1>8. CASE WriteRotated(a)
  BY <1>2, <1>8 DEF WriteRotated
<1>9. CASE RecordRotated(a)
  BY <1>2, <1>9 DEF RecordRotated, Advance, Proceed, Fail, Keeps
<1>10. CASE CompleteRotation(a)
  BY <1>2, <1>10 DEF CompleteRotation, Advance, Proceed, Fail, Keeps
<1>11. CASE Finish(a)
  BY <1>2, <1>11 DEF Finish
<1> QED
  BY <1>3, <1>4, <1>5, <1>6, <1>7, <1>8, <1>9, <1>10, <1>11 DEF RotatorStep

(* A rotator stays where it may be.                                        *)
LEMMA RotatorAlone ==
  ASSUME TypeInv, Alone, NEW a \in Actors, RotatorStep(a)
  PROVE  Alone'
<1>1. \A b \in Actors : b # a => actor'[b] = actor[b]
  BY RotatorMoves
<1>2. actor[a] # Resting /\ up \in {"starting", "running"}
  BY RotatorAt
<1>3. "loop" \in Actors /\ "startup" \in Actors /\ "loop" # "startup"
  BY DEF Actors
<1>4. Rotates(a)' => Rotates(a)
  <2>1. CASE Finish(a)
    BY <2>1, RestingType DEF Finish, Step, Rotates, TypeInv, TypeOK
  <2> QED
    BY <2>1, RotatorAt
<1>5. \A b \in Actors : Rotates(b)' => Rotates(b)
  BY <1>1, <1>4 DEF Rotates
<1>6. \A b, c \in Actors : Rotates(b)' /\ Rotates(c)' => b = c
  BY <1>5 DEF Alone
<1>7. CASE up' = up /\ call' = call
  <2>1. \A b \in Actors \ {"startup"} : actor'[b] # Resting => Running'
    BY <1>1, <1>2, <1>7 DEF Alone, Running
  <2>2. actor'["startup"] # Resting => up' = "starting"
    BY <1>1, <1>2, <1>3, <1>7 DEF Alone
  <2> QED
    BY <1>3, <1>5, <1>6, <1>7, <2>1, <2>2 DEF Alone
<1>8. CASE /\ actor'[a] = Resting
           /\ up' \in {"running", up} \/ (a = "startup" /\ up' = "refused")
           /\ call' = IF a = "loop" THEN NoCall ELSE call
  <2>1. \A b \in Actors : actor'[b] # Resting => b # a /\ actor[b] # Resting
    BY <1>1, <1>8
  <2>2. CASE a = "startup"
    <3>1. \A b \in Actors : actor'[b] = Resting
      BY <1>2, <2>1, <2>2 DEF Alone, Running
    <3> QED
      BY <1>3, <1>6, <3>1, RestingType DEF Alone, Rotates
  <2>3. CASE a # "startup"
    <3>1. Running /\ actor["startup"] = Resting /\ actor'["startup"] = Resting
      BY <1>1, <1>2, <1>3, <2>3 DEF Alone, Running
    <3>3. up' = "running"
      BY <1>8, <2>3, <3>1 DEF Running
    <3>4. Rotates("loop")' => call'.pc = "rotating"
      BY <1>3, <1>5, <1>8, RestingType DEF Alone, Rotates
    <3> QED
      BY <1>3, <1>6, <3>1, <3>3, <3>4 DEF Alone, Running
  <2> QED
    BY <2>2, <2>3
<1> QED
  BY <1>7, <1>8, RotatorMoves

(* What the rotator keeps with the journal it goes on with.                *)
LEMMA ProceedFields ==
  ASSUME TypeInv, NEW a \in Actors, NEW j \in Journals, Proceed(a, j)
  PROVE  /\ actor'[a].j = j
         /\ actor'[a].goal = actor[a].goal
         /\ actor'[a].pc = IF j.phase = "completed" THEN "finish" ELSE "recover"
<1> DEFINE fields == [actor[a] EXCEPT !.j = j, !.old = None, !.new = None,
                                      !.pc = IF j.phase = "completed" THEN "finish" ELSE "recover"]
<1>1. actor \in [Actors -> Locals] /\ actor[a] \in Locals
  BY DEF TypeInv, TypeOK
<1>2. actor' = [actor EXCEPT ![a] = fields]
  BY DEF Proceed, Step
<1>3. fields.j = j /\ fields.goal = actor[a].goal
      /\ fields.pc = IF j.phase = "completed" THEN "finish" ELSE "recover"
  BY <1>1 DEF Locals
<1> QED
  BY <1>1, <1>2, <1>3

(* The last update of a request leaves the two files a pair, also within   *)
(* the rotation of another actor.                                          *)
LEMMA FinishFiles ==
  ASSUME TypeInv, Files, NEW a \in Actors, Finish(a)
  PROVE  Files'
<1>0. actor \in [Actors -> Locals] /\ actor[a] \in Locals /\ data \in Data
  BY DEF TypeInv, TypeOK
<1>1. /\ actor' = [actor EXCEPT ![a] = Resting]
      /\ journal' = journal /\ up' = "running" /\ up # "down"
  BY DEF Finish, Step, At
<1>2. actor'[a] = Resting /\ \A b \in Actors : b # a => actor'[b] = actor[b]
  BY <1>0, <1>1
<1>3. data'.inst = data.inst /\ (ValidRotated(data) => ValidRotated(data)')
  <2>1. Cleared(data) \in Data /\ Cleared(data).inst = data.inst
        /\ (ValidRotated(data) => ValidRotated(Cleared(data)))
    BY <1>0, UpdatesType, UpdatesFields DEF ValidRotated
  <2>2. ASSUME actor[a].goal = "re_pair"
        PROVE  /\ CodeEntered(data, actor[a].code) \in Data
               /\ CodeEntered(data, actor[a].code).inst = data.inst
               /\ ValidRotated(data) => ValidRotated(CodeEntered(data, actor[a].code))
    <3>1. actor[a].code \in Codes
      BY <1>0, <2>2 DEF TypeInv, LocalsKnown, Locals
    <3> DEFINE next == CodeEntered(data, actor[a].code)
    <3>2. /\ next \in Data /\ next.inst = data.inst /\ next.bound = data.bound
          /\ next.key = data.key /\ next.ident = data.ident /\ next.samples = data.samples
      BY <1>0, <3>1, UpdatesType, UpdatesFields
    <3> HIDE DEF next
    <3>3. ValidRotated(data) => ValidRotated(next)
      BY <3>2 DEF ValidRotated
    <3> QED
      BY <3>2, <3>3 DEF next
  <2>3. CASE UNCHANGED data
    BY <2>3 DEF ValidRotated
  <2> QED
    BY <2>1, <2>2, <2>3, UpdatedState DEF Finish
<1>4. FilesAgree'
  BY <1>1, <1>3 DEF Files, FilesAgree
<1>5. \A b \in Actors : InStep(b)'
  <2>1. InStep(a)'
    BY <1>2 DEF Resting, InStep
  <2>2. ASSUME NEW b \in Actors, b # a PROVE InStep(b)'
    <3>1. InStep(b) /\ actor'[b] = actor[b]
      BY <1>2, <2>2 DEF Files
    <3> QED
      BY <1>1, <1>3, <3>1 DEF InStep, Settled
  <2> QED
    BY <2>1, <2>2
<1>6. (\A b \in Actors : ~Rotates(b)') => Settled'
  <2>1. actor[a].pc = "finish"
    BY DEF Finish, At
  <2>2. (\A b \in Actors : ~Rotates(b)') => \A b \in Actors : ~Rotates(b)
    BY <1>2, <2>1 DEF Rotates
  <2> QED
    BY <1>1, <2>2 DEF Files, Settled
<1> QED
  BY <1>1, <1>4, <1>5, <1>6 DEF Files

(* A rotator that is in step gets on: it is never at a boundary it does    *)
(* not know.                                                               *)
LEMMA RotatorFiles ==
  ASSUME TypeInv, Alone, Files, NEW a \in Actors, RotatorStep(a), ~Finish(a)
  PROVE  Files'
<1>0. /\ actor \in [Actors -> Locals] /\ actor[a] \in Locals /\ data \in Data
      /\ journal \in Journals \cup {None}
      /\ actor[a].pc \in {"recover", "write", "record"} => journal \in Journals
      /\ up # "refused" /\ FilesAgree /\ InStep(a)
      /\ up # "down"
  BY RotatorAt DEF TypeInv, TypeOK, LocalsKnown, Locals, Files
<1>1. \A b \in Actors : b # a => actor'[b] = actor[b]
  BY RotatorMoves
<1>2. None \notin Journals
  BY NoneAssumption
<1> SUFFICES /\ up' # "refused"
             /\ FilesAgree'
             /\ InStep(a)'
             /\ ~Rotates(a)' => Settled'
  <2>1. \A b \in Actors : b # a => ~Rotates(b)
    BY RotatorAt DEF Alone
  <2>2. \A b \in Actors : b # a => InStep(b)'
    BY <1>1, <2>1 DEF Rotates, InStep
  <2> QED
    BY <2>2 DEF Files
<1>3. ASSUME NEW f \in Locals, Step(a, f)
      PROVE  actor'[a] = f
  BY <1>0, <1>3 DEF Step
<1>4. CASE ReadJournal(a)
  <2>1. Settled
    BY <1>0, <1>4 DEF ReadJournal, At, InStep
  <2>2. Step(a, [actor[a] EXCEPT !.pc = "mint"])
    BY <1>4, <2>1 DEF ReadJournal, Settled
  <2>3. actor'[a].pc = "mint"
    BY <1>0, <2>2 DEF Step, Locals
  <2> QED
    BY <1>0, <1>4, <2>1, <2>3 DEF ReadJournal, FilesAgree, InStep, Settled, Rotates
<1>5. CASE MintInstallation(a)
  <2>1. PICK i \in Installations :
          Step(a, [actor[a] EXCEPT !.pc = "begin", !.old = data.inst, !.new = i])
    BY <1>5 DEF MintInstallation
  <2>2. actor'[a].pc = "begin" /\ actor'[a].old = data.inst
    BY <1>0, <2>1 DEF Step, Locals, Data
  <2> QED
    BY <1>0, <1>5, <2>2 DEF MintInstallation, At, FilesAgree, InStep, Settled, Rotates
<1>6. CASE BeginInstallationRotation(a)
  <2>1. journal' = [phase |-> "intent", old |-> data.inst, new |-> actor[a].new]
    BY <1>0, <1>6 DEF BeginInstallationRotation, At, InStep, Settled
  <2>2. actor[a].new \in Installations
    BY <1>0, <1>6 DEF BeginInstallationRotation, At, TypeInv, LocalsKnown, Locals
  <2>3. journal' \in Journals /\ journal'.phase = "intent" /\ journal'.old = data.inst
    BY <1>0, <2>1, <2>2 DEF Journals, JournalPhases, Data
  <2>4. actor'[a].j = journal' /\ actor'[a].pc = "recover"
    BY <1>6, <2>3, ProceedFields DEF BeginInstallationRotation
  <2> QED
    BY <1>0, <1>2, <1>6, <2>3, <2>4
       DEF BeginInstallationRotation, FilesAgree, InStep, Settled, Rotates
<1>7. CASE QuarantineOld(a)
  <2>1. journal \in Journals /\ journal.phase = "intent"
        /\ journal' = [journal EXCEPT !.phase = "old_binding_quarantined"]
    BY <1>0, <1>7 DEF QuarantineOld, At, InStep
  <2>2. /\ journal' \in Journals /\ journal'.phase = "old_binding_quarantined"
        /\ journal'.old = journal.old /\ journal'.new = journal.new
    BY <2>1 DEF Journals, JournalPhases
  <2>3. actor'[a].j = journal' /\ actor'[a].pc = "recover"
    BY <1>7, <2>2, ProceedFields DEF QuarantineOld
  <2>4. data.inst = journal.old
    BY <1>0, <1>2, <2>1 DEF FilesAgree
  <2> QED
    BY <1>0, <1>2, <1>7, <2>2, <2>3, <2>4
       DEF QuarantineOld, FilesAgree, InStep, Settled, Rotates
<1>8. CASE CheckBoundary(a)
  <2>1. actor[a].j = journal /\ journal \in Journals
        /\ journal.phase = "old_binding_quarantined"
    BY <1>0, <1>8 DEF CheckBoundary, At, InStep
  <2>2. data.inst = journal.old \/ (data.inst = journal.new /\ ValidRotated(data))
    BY <1>0, <1>2, <2>1 DEF FilesAgree
  <2>3. ASSUME NEW pc \in {"write", "record"}, Step(a, [actor[a] EXCEPT !.pc = pc])
        PROVE  actor'[a].pc = pc /\ actor'[a].j = actor[a].j
    BY <1>0, <2>3 DEF Step, Locals
  <2>4. CASE data.inst = journal.old /\ Step(a, [actor[a] EXCEPT !.pc = "write"]) /\ Keeps(a)
    BY <1>0, <1>8, <2>1, <2>3, <2>4
       DEF CheckBoundary, Keeps, FilesAgree, InStep, Settled, Rotates, ValidRotated
  <2>5. CASE /\ data.inst = journal.new /\ ValidRotated(data)
             /\ Step(a, [actor[a] EXCEPT !.pc = "record"]) /\ Keeps(a)
    BY <1>0, <1>8, <2>1, <2>3, <2>5
       DEF CheckBoundary, Keeps, FilesAgree, InStep, Settled, Rotates, ValidRotated
  <2> QED
    BY <1>8, <2>1, <2>2, <2>4, <2>5 DEF CheckBoundary
<1>9. CASE WriteRotated(a)
  <2>1. actor[a].j = journal /\ journal \in Journals
        /\ journal.phase = "old_binding_quarantined" /\ journal.new \in Installations
    BY <1>0, <1>9 DEF WriteRotated, At, InStep, Journals
  <2>2. Rotated(data, journal.new) \in Data
    BY <1>0, <2>1, UpdatesType
  <2>3. /\ Rotated(data, journal.new).inst = journal.new
        /\ Rotated(data, journal.new).bound = FALSE
        /\ Rotated(data, journal.new).key = None
        /\ Rotated(data, journal.new).ident = None
        /\ Rotated(data, journal.new).samples = None
    BY <1>0, <2>1, UpdatesFields
  <2>4. data'.inst = journal.new /\ ValidRotated(data)'
    BY <1>9, <2>1, <2>2, <2>3, UpdatedState DEF WriteRotated, ValidRotated
  <2>5. actor'[a].pc = "record" /\ actor'[a].j = actor[a].j
    BY <1>0, <1>9 DEF WriteRotated, Step, Locals
  <2> QED
    BY <1>0, <1>9, <2>1, <2>4, <2>5
       DEF WriteRotated, FilesAgree, InStep, Settled, Rotates
<1>10. ASSUME NEW from \in {"old_binding_quarantined", "state_rotated"},
              NEW to \in {"state_rotated", "completed"},
              journal \in Journals, journal.phase = from,
              data.inst = journal.new,
              Advance(a, from, to), UNCHANGED <<data, pause, cli>>
       PROVE  /\ up' # "refused"
              /\ FilesAgree'
              /\ InStep(a)'
              /\ ~Rotates(a)' => Settled'
  <2>1. journal' = [journal EXCEPT !.phase = to] /\ Proceed(a, journal') /\ Keeps(a)
    BY <1>10 DEF Advance
  <2>2. /\ journal' \in Journals /\ journal'.phase = to
        /\ journal'.old = journal.old /\ journal'.new = journal.new
    BY <1>10, <2>1 DEF Journals, JournalPhases
  <2>3. /\ actor'[a].j = journal'
        /\ actor'[a].pc = IF to = "completed" THEN "finish" ELSE "recover"
    BY <2>1, <2>2, ProceedFields
  <2> QED
    BY <1>0, <1>2, <1>10, <2>1, <2>2, <2>3
       DEF Keeps, FilesAgree, InStep, Settled, Rotates, ValidRotated
<1>11. CASE RecordRotated(a)
  <2>1. /\ journal \in Journals /\ journal.phase = "old_binding_quarantined"
        /\ data.inst = journal.new
    BY <1>0, <1>11 DEF RecordRotated, At, InStep
  <2> QED
    BY <1>10, <1>11, <2>1 DEF RecordRotated
<1>12. CASE CompleteRotation(a)
  <2>1. journal \in Journals /\ journal.phase = "state_rotated"
    BY <1>0, <1>12 DEF CompleteRotation, At, InStep
  <2>2. data.inst = journal.new
    BY <1>0, <1>2, <2>1 DEF FilesAgree
  <2> QED
    BY <1>10, <1>12, <2>1, <2>2 DEF CompleteRotation
<1> QED
  BY <1>4, <1>5, <1>6, <1>7, <1>8, <1>9, <1>11, <1>12 DEF RotatorStep

(* What a step of the Run loop does to what the files agree on: it leaves  *)
(* the installation id alone and, unless it comes between the two files, a *)
(* rotated state as it is.  Only a lifecycle error has the loop rotate,    *)
(* and not within another rotation.                                        *)
LoopEffect ==
  /\ Running /\ UNCHANGED <<journal, up>>
  /\ data'.inst = data.inst
  /\ marred' = "no" /\ HalfRotated /\ ValidRotated(data) => ValidRotated(data)'
  /\ call.pc = "rotating" => actor["loop"] = Resting
  /\ \/ UNCHANGED actor
     \/ /\ actor' = [actor EXCEPT !["loop"] = [Resting EXCEPT !.goal = "lifecycle", !.pc = "read"]]
        /\ call'.pc = "rotating"
        /\ call.pc = "apply"
        /\ marred' = "no" => ~OtherRotates("loop")
     \/ /\ actor' = [actor EXCEPT !["loop"] = [Resting EXCEPT !.goal = "lifecycle", !.pc = "finish"]]
        /\ call'.pc = "rotating"
        /\ call.pc = "apply"

LEMMA BeginEffect ==
  ASSUME NEW c, Begin(c)
  PROVE  LoopEffect
BY DEF Begin, MayLoop, LoopRests, LoopEffect, ValidRotated

LEMMA AnsweredEffect ==
  ASSUME NEW pc \in {"exchange", "activate", "revert", "promote", "heartbeat", "attest", "dispatch"},
         Calling(pc), NEW next \in Data, Update(next), UNCHANGED <<journal, up, actor>>,
         next.inst = data.inst,
         marred' = "no" /\ HalfRotated /\ ValidRotated(data) => ValidRotated(next)
  PROVE  LoopEffect
<1>1. /\ data'.inst = data.inst
      /\ ValidRotated(next) => ValidRotated(data)'
  BY UpdatedState
<1> QED
  BY <1>1 DEF Calling, LoopEffect

LEMMA LoopEffects ==
  ASSUME TypeInv, ProcessStep \/ HeartbeatStep \/ DispatchStep
  PROVE  LoopEffect
<1>0. data \in Data /\ call \in Calls
  BY DEF TypeInv, TypeOK
<1>1. /\ Unpaired(data) \in Data /\ Unpaired(data).inst = data.inst
      /\ ValidRotated(data) => ValidRotated(Unpaired(data))
  BY <1>0, UpdatesType, UpdatesFields DEF ValidRotated
<1>2. CASE BeginExchange \/ BeginActivation \/ BeginRevert \/ BeginPromotion
  BY <1>2, BeginEffect DEF BeginExchange, BeginActivation, BeginRevert, BeginPromotion
<1>3. CASE BeginHeartbeat \/ BeginDispatch
  BY <1>3, BeginEffect DEF BeginHeartbeat, BeginDispatch
<1>4. CASE Exchanged
  <2> DEFINE next == [data EXCEPT !.phase = "bootstrap_exchanged", !.token = call.code, !.wait = FALSE]
  <2>1. call.code \in Codes
    BY <1>0, <1>4, CallFields DEF Exchanged, Calling
  <2>2. next \in Data /\ next.inst = data.inst /\ (ValidRotated(data) => ValidRotated(next))
    BY <1>0, <2>1 DEF Data, Phases, ValidRotated
  <2>3. Calling("exchange") /\ Update(next) /\ UNCHANGED <<journal, up, actor>>
    BY <1>4 DEF Exchanged, Answered, AnsweredOnce
  <2> HIDE DEF next
  <2> QED
    BY <2>2, <2>3, AnsweredEffect
<1>5. CASE Activated
  <2>1. PICK next \in Data : Update(next) /\ next.inst = data.inst
    BY <1>5, ActivationEffect
  <2>2. /\ Calling("activate") /\ UNCHANGED <<journal, up, actor>>
        /\ HalfRotated => marred' # "no"
    BY <1>5 DEF Activated, AnsweredOnce, Crossed
  <2> QED
    BY <2>1, <2>2, AnsweredEffect
<1>6. CASE AttemptRetried
  <2> DEFINE next == [data EXCEPT !.phase = RetryPhase, !.wait = TRUE]
  <2>1. RetryPhase \in {"code_entered", "bootstrap_exchanged"}
    BY DEF RetryPhase
  <2>2. next \in Data /\ next.inst = data.inst /\ (ValidRotated(data) => ValidRotated(next))
    BY <1>0, <2>1 DEF Data, Phases, ValidRotated
  <2>3. PICK pc \in {"exchange", "activate"} : Calling(pc)
    BY <1>6 DEF AttemptRetried
  <2>4. Update(next) /\ UNCHANGED <<journal, up, actor>>
    BY <1>6 DEF AttemptRetried, Answered, AnsweredOnce
  <2> HIDE DEF next
  <2> QED
    BY <2>2, <2>3, <2>4, AnsweredEffect
<1>7. CASE AttemptFailed \/ Reverted
  <2>1. PICK pc \in {"exchange", "activate", "revert"} : Calling(pc)
    BY <1>7 DEF AttemptFailed, Reverted
  <2>2. Update(Unpaired(data)) /\ UNCHANGED <<journal, up, actor>>
    BY <1>7 DEF AttemptFailed, Reverted, Answered, AnsweredOnce
  <2> QED
    BY <1>1, <2>1, <2>2, AnsweredEffect
<1>8. CASE Promoted
  <2> DEFINE next == [data EXCEPT !.phase = "steady_state"]
  <2>1. next \in Data /\ next.inst = data.inst /\ (ValidRotated(data) => ValidRotated(next))
    BY <1>0 DEF Data, Phases, ValidRotated
  <2>2. Calling("promote") /\ Update(next) /\ UNCHANGED <<journal, up, actor>>
    BY <1>8 DEF Promoted, Answered, AnsweredOnce
  <2> HIDE DEF next
  <2> QED
    BY <2>1, <2>2, AnsweredEffect
<1>9. CASE HeartbeatAcknowledged
  <2> DEFINE next == [data EXCEPT !.ident = call.key]
  <2>1. call.key \in Keys
    BY <1>0, <1>9, CallFields DEF HeartbeatAcknowledged, Calling
  <2>2. next \in Data /\ next.inst = data.inst
    BY <1>0, <2>1 DEF Data
  <2>3. /\ Calling("heartbeat") /\ Update(next) /\ UNCHANGED <<journal, up, actor>>
        /\ HalfRotated => marred' # "no"
    BY <1>9 DEF HeartbeatAcknowledged, Crossed
  <2> HIDE DEF next
  <2> QED
    BY <2>2, <2>3, AnsweredEffect
<1>10. CASE ClockAttested
  <2> DEFINE next == IF Binding(data) = <<call.key, call.inst>>
                     THEN [data EXCEPT !.samples = <<call.key, call.inst>>] ELSE data
  <2>1. call.key \in Keys /\ call.inst \in Installations /\ None \notin Keys
    BY <1>0, <1>10, CallFields, PairingAssumption DEF ClockAttested, Calling
  <2>2. next \in Data /\ next.inst = data.inst
    BY <1>0, <2>1 DEF Data
  <2>3. ValidRotated(data) => ValidRotated(next)
    BY <2>1 DEF ValidRotated, Binding
  <2>4. Calling("attest") /\ Update(next) /\ UNCHANGED <<journal, up, actor>>
    BY <1>10 DEF ClockAttested, Answered, AnsweredOnce
  <2> HIDE DEF next
  <2> QED
    BY <2>2, <2>3, <2>4, AnsweredEffect
<1>11. CASE HeartbeatUnanswered \/ DispatchEnds
  BY <1>11 DEF HeartbeatUnanswered, DispatchEnds, Calling, Answered, AnsweredOnce, LoopEffect,
     ValidRotated
<1>12. CASE \E change \in {"revoked", "replaced"} : HeartbeatRejected(change)
  BY <1>12 DEF HeartbeatRejected, Calling, LoopEffect, ValidRotated
<1>13. CASE QuarantineReceiver
  BY <1>13 DEF QuarantineReceiver, Calling, LoopEffect, ValidRotated
<1>14. CASE ApplyLifecycleChange
  <2>1. /\ Running /\ UNCHANGED <<data, journal, up>>
        /\ call.pc = "apply" /\ call'.pc = "rotating"
    BY <1>14 DEF ApplyLifecycleChange, Calling
  <2>2. CASE call.change = "replaced" /\ data.bound
    <3>1. /\ actor' = [actor EXCEPT !["loop"] = [Resting EXCEPT !.goal = "lifecycle", !.pc = "read"]]
          /\ marred' = "no" => ~OtherRotates("loop")
      BY <1>14, <2>2 DEF ApplyLifecycleChange, Step, Crossed
    <3> QED
      BY <2>1, <3>1 DEF LoopEffect, ValidRotated
  <2>3. CASE ~(call.change = "replaced" /\ data.bound)
    <3>1. actor' = [actor EXCEPT !["loop"] = [Resting EXCEPT !.goal = "lifecycle", !.pc = "finish"]]
      BY <1>14, <2>3, Zenon DEF ApplyLifecycleChange, Step
    <3> QED
      BY <2>1, <3>1 DEF LoopEffect, ValidRotated
  <2> QED
    BY <2>2, <2>3
<1>15. CASE ClearResolvedPause
  BY <1>15 DEF ClearResolvedPause, Calling, LoopEffect, ValidRotated
<1>16. CASE \E kind \in {"credential", "binding"} : DeliveryRejected(kind)
  BY <1>16 DEF DeliveryRejected, Calling, LoopEffect, ValidRotated
<1> QED
  BY <1>2, <1>3, <1>4, <1>5, <1>6, <1>7, <1>8, <1>9, <1>10, <1>11, <1>12, <1>13, <1>14, <1>15,
     <1>16 DEF ProcessStep, HeartbeatStep, DispatchStep

(* A step that leaves the journal and the installation id alone, and moves *)
(* no actor but one that does not rotate, leaves the files a pair.         *)
LEMMA OthersStay ==
  ASSUME TypeInv, Files, UNCHANGED journal, up' # "refused", up' # "down" => up # "down",
         data'.inst = data.inst,
         HalfRotated /\ ValidRotated(data) => ValidRotated(data)',
         NEW b \in Actors, \A a \in Actors : a # b => actor'[a] = actor[a],
         \/ UNCHANGED actor
         \/ /\ ~Rotates(b)
            /\ actor'[b].pc \in {"idle", "finish", "read"}
            /\ actor'[b].pc = "read" => up' # "down" /\ \A a \in Actors : ~Rotates(a)
  PROVE  Files'
<1>0. journal \in Journals \cup {None} /\ None \notin Journals
  BY NoneAssumption DEF TypeInv, TypeOK
<1>1. FilesAgree'
  BY <1>0 DEF Files, FilesAgree, HalfRotated
<1>2. up' # "down" /\ (\A a \in Actors : ~Rotates(a)) => Settled'
  BY DEF Files, Settled
<1>3. (\A a \in Actors : ~Rotates(a)') => \A a \in Actors : ~Rotates(a)
  BY DEF Rotates
<1>4. ASSUME NEW a \in Actors, a # b \/ UNCHANGED actor PROVE InStep(a)'
  <2>1. InStep(a) /\ actor'[a] = actor[a]
    BY <1>4 DEF Files
  <2> QED
    BY <2>1 DEF InStep, Settled
<1>5. CASE ~UNCHANGED actor
  <2>1. InStep(b)'
    BY <1>2, <1>5 DEF InStep
  <2> QED
    BY <1>1, <1>2, <1>3, <1>4, <2>1 DEF Files
<1> QED
  BY <1>1, <1>2, <1>3, <1>4, <1>5 DEF Files

LEMMA LoopKeeps ==
  ASSUME TypeInv, marred' = "no", Alone, Files, LoopEffect
  PROVE  Alone' /\ Files'
<1>0. actor \in [Actors -> Locals] /\ "loop" \in Actors /\ "startup" \in Actors /\ "loop" # "startup"
  BY DEF TypeInv, TypeOK, Actors
<1>1. up' = up /\ up = "running" /\ \A a \in Actors : a # "loop" => actor'[a] = actor[a]
  BY <1>0 DEF LoopEffect, Running
<1>2. ~Rotates("loop")
  BY <1>0, RestingType DEF Alone, Rotates, LoopEffect
<1>3. /\ actor'["loop"].pc \in {"idle", "finish", "read"}
      /\ actor'["loop"].pc = "read" => call'.pc = "rotating" /\ \A a \in Actors : ~Rotates(a)
  BY <1>0, <1>2 DEF LoopEffect, Rotates, OtherRotates, Resting
<1>4. Alone'
  <2>1. \A a, b \in Actors : Rotates(a)' /\ Rotates(b)' => a = b
    BY <1>1, <1>3 DEF Alone, Rotates
  <2>2. actor'["startup"] = Resting
    BY <1>0, <1>1 DEF Alone
  <2>3. Rotates("loop")' => call'.pc = "rotating"
    BY <1>3 DEF Rotates
  <2> QED
    BY <1>1, <2>1, <2>2, <2>3 DEF Alone, Running
<1>5. Files'
  BY <1>0, <1>1, <1>2, <1>3, OthersStay DEF LoopEffect
<1> QED
  BY <1>4, <1>5

(* A request begins beside whatever goes on, and rotates where no other    *)
(* actor does.                                                             *)
LEMMA RequestKeeps ==
  ASSUME TypeInv, marred' = "no", Alone, Files, RequestStep
  PROVE  Alone' /\ Files'
<1>0. /\ actor \in [Actors -> Locals] /\ data \in Data
      /\ \A r \in Requests : r \in Actors /\ r # "loop" /\ r # "startup"
      /\ up # "refused"
  BY PairingAssumption DEF TypeInv, TypeOK, Actors, Files
<1>1. ASSUME NEW r \in Requests, NEW goal, NEW c, Request(r, goal, c)
      PROVE  Alone' /\ Files'
  <2>1. UNCHANGED <<data, journal, call, up>> /\ up = "running" /\ ~Rotates(r)
    BY <1>1, RestingType DEF Request, Running, Rotates
  <2>2. \A a \in Actors : a # r => actor'[a] = actor[a]
    BY <1>0, <1>1 DEF Request, Step
  <2>3. /\ actor'[r].pc \in {"finish", "read"}
        /\ actor'[r].pc = "read" => data.bound
    BY <1>0, <1>1 DEF Request, Step, Resting
  <2>4. data.bound => ~OtherRotates(r)
    BY <1>1 DEF Request, Crossed
  <2>5. actor'[r].pc = "read" => \A a \in Actors : ~Rotates(a)
    BY <2>1, <2>3, <2>4 DEF OtherRotates, Rotates
  <2>6. Files'
    BY <1>0, <2>1, <2>2, <2>3, <2>5, OthersStay DEF ValidRotated
  <2>7. Alone'
    <3>1. \A a, b \in Actors : Rotates(a)' /\ Rotates(b)' => a = b
      BY <2>2, <2>3, <2>5 DEF Alone, Rotates
    <3>2. actor'["startup"] = actor["startup"] /\ actor'["loop"] = actor["loop"]
      BY <1>0, <2>2 DEF Actors
    <3> QED
      BY <2>1, <3>1, <3>2 DEF Alone, Running, Rotates
  <2> QED
    BY <2>6, <2>7
<1>2. CASE \E r \in Requests : Deauthorize(r) \/ \E c \in Codes : SubmitPairingCode(r, c)
  BY <1>1, <1>2 DEF Deauthorize, SubmitPairingCode
<1>3. ASSUME NEW next \in {data, Unpaired(data), Cleared(data)}, Update(next) \/ UNCHANGED data,
             UNCHANGED <<journal, actor, call, up>>
      PROVE  Alone' /\ Files'
  <2>1. "loop" \in Actors
    BY DEF Actors
  <2>2. /\ Unpaired(data) \in Data /\ Unpaired(data).inst = data.inst
        /\ ValidRotated(data) => ValidRotated(Unpaired(data))
    BY <1>0, UpdatesType, UpdatesFields DEF ValidRotated
  <2>3. /\ Cleared(data) \in Data /\ Cleared(data).inst = data.inst
        /\ ValidRotated(data) => ValidRotated(Cleared(data))
    BY <1>0, UpdatesType, UpdatesFields DEF ValidRotated
  <2>4. next \in Data /\ next.inst = data.inst /\ (ValidRotated(data) => ValidRotated(next))
    BY <1>0, <1>3, <2>2, <2>3
  <2>5. data'.inst = data.inst /\ (ValidRotated(data) => ValidRotated(data)')
    BY <1>3, <2>4, UpdatedState DEF ValidRotated
  <2>6. Alone'
    BY <1>3 DEF Alone, Running, Rotates
  <2> QED
    BY <1>0, <1>3, <2>5, <2>6, <2>1, OthersStay
<1>4. CASE LocalReset
  BY <1>3, <1>4 DEF LocalReset
<1>5. CASE ResetPairingCommand
  BY <1>3, <1>5 DEF ResetPairingCommand
<1> QED
  BY <1>2, <1>4, <1>5 DEF RequestStep

(* A crash, or a state file lost beside no journal and no pause, meets     *)
(* files a start can go on from.                                           *)
LEMMA LifeKeeps ==
  ASSUME TypeInv, marred' = "no", Alone, Files,
         RetryDue \/ Crash \/ RecoverCorruptState \/ Start
  PROVE  Alone' /\ Files'
<1>0. /\ actor \in [Actors -> Locals] /\ data \in Data
      /\ journal \in Journals \cup {None} /\ None \notin Journals
      /\ "loop" \in Actors /\ "startup" \in Actors /\ "loop" # "startup"
  BY NoneAssumption DEF TypeInv, TypeOK, Actors
<1>1. CASE RetryDue
  <2>1. /\ data'.inst = data.inst
        /\ ValidRotated(data)' = ValidRotated(data)
        /\ UNCHANGED <<journal, actor, call, up>>
    BY <1>0, <1>1 DEF RetryDue, Data, ValidRotated
  <2>2. Alone'
    BY <2>1 DEF Alone, Running, Rotates
  <2>3. \A a \in Actors : InStep(a)'
    BY <2>1 DEF Files, InStep, Settled
  <2> QED
    BY <2>1, <2>2, <2>3 DEF Files, FilesAgree, Rotates, Settled
<1>2. CASE Crash
  <2>1. /\ \A a \in Actors : actor'[a] = Resting
        /\ up' = "down" /\ UNCHANGED <<data, journal>>
    BY <1>2 DEF Crash
  <2>2. \A a \in Actors : ~Rotates(a)'
    BY <2>1, RestingType DEF Rotates
  <2>3. Alone'
    BY <1>0, <2>1, <2>2 DEF Alone
  <2> QED
    BY <2>1, <2>3 DEF Files, FilesAgree, InStep, Resting, ValidRotated
<1>3. CASE RecoverCorruptState
  <2>1. journal = None /\ UNCHANGED <<journal, actor, call, up>> /\ up = "down"
    BY <1>3 DEF RecoverCorruptState
  <2>2. \A a \in Actors : actor[a] = Resting
    BY <1>0, <2>1 DEF Alone, Running
  <2> QED
    BY <2>1, <2>2 DEF Alone, Files, FilesAgree, InStep, Resting, Running, Rotates
<1>4. CASE Start
  <2>1. up = "down" /\ UNCHANGED <<data, journal, call>>
    BY <1>4 DEF Start, Files
  <2>2. \A a \in Actors : actor[a] = Resting
    BY <1>0, <2>1 DEF Alone, Running
  <2>3. FilesAgree'
    BY <2>1 DEF Files, FilesAgree, ValidRotated
  <2>4. CASE Settled
    <3>1. up' = "running" /\ UNCHANGED actor
      BY <1>0, <1>4, <2>4 DEF Start, Settled, Files, FilesAgree
    <3>2. Alone' /\ \A a \in Actors : InStep(a)'
      BY <1>0, <2>1, <2>2, <3>1, RestingType DEF Alone, InStep, Resting, Rotates
    <3> QED
      BY <2>1, <2>3, <2>4, <3>1, <3>2 DEF Files, Settled
  <2>5. CASE ~Settled
    <3>1. /\ up' = "starting"
          /\ Step("startup", [Resting EXCEPT !.pc = "recover", !.goal = "startup", !.j = journal])
      BY <1>4, <2>5 DEF Start, Settled
    <3>2. /\ \A a \in Actors : a # "startup" => actor'[a] = Resting
          /\ actor'["startup"].pc = "recover" /\ actor'["startup"].j = journal
      BY <1>0, <2>2, <3>1 DEF Step, Resting
    <3>3. Alone'
      BY <1>0, <3>1, <3>2, RestingType DEF Alone, Rotates
    <3>4. \A a \in Actors : InStep(a)'
      <4>1. InStep("startup")'
        BY <2>1, <2>5, <3>2 DEF InStep, Settled
      <4>2. \A a \in Actors : a # "startup" => InStep(a)'
        BY <3>2 DEF InStep, Resting
      <4> QED
        BY <4>1, <4>2
    <3>5. Rotates("startup")'
      BY <3>2 DEF Rotates
    <3> QED
      BY <1>0, <2>3, <3>1, <3>3, <3>4, <3>5 DEF Files
  <2> QED
    BY <2>4, <2>5
<1> QED
  BY <1>1, <1>2, <1>3, <1>4

LEMMA OrderlyInit == Init => Orderly
<1> SUFFICES ASSUME Init PROVE Alone /\ Files
  BY DEF Orderly
<1>1. /\ \A a \in Actors : actor[a] = Resting
      /\ "loop" \in Actors /\ "startup" \in Actors
      /\ journal = None /\ up = "running"
  BY DEF Init, Actors
<1> QED
  BY <1>1, RestingType DEF Alone, Files, FilesAgree, InStep, Settled, Rotates, Resting, Running

LEMMA OrderlyStep == TypeInv /\ Orderly /\ [Next]_vars => Orderly'
<1> SUFFICES ASSUME TypeInv, Orderly, [Next]_vars, marred' = "no" PROVE Alone' /\ Files'
  BY DEF Orderly
<1>1. Alone /\ Files
  BY MarredStays DEF Orderly
<1>2. ASSUME NEW a \in Actors, RotatorStep(a)
      PROVE  Alone' /\ Files'
  BY <1>1, <1>2, RotatorAlone, RotatorFiles, FinishFiles
<1>3. CASE ProcessStep \/ HeartbeatStep \/ DispatchStep
  BY <1>1, <1>3, LoopEffects, LoopKeeps
<1>4. CASE RequestStep
  BY <1>1, <1>4, RequestKeeps
<1>5. CASE RetryDue \/ Crash \/ RecoverCorruptState \/ Start
  BY <1>1, <1>5, LifeKeeps
<1>6. CASE UNCHANGED vars
  BY <1>1, <1>6 DEF vars, Alone, Files, FilesAgree, InStep, Settled, Rotates, Running, ValidRotated
<1> QED
  BY <1>2, <1>3, <1>4, <1>5, <1>6 DEF Next

(* A start is refused only after something came between the two files: a   *)
(* crash in any step of a rotation, of a request beside it or of a call    *)
(* that is answered meanwhile leaves files that installationRotator.Recover*)
(* goes on from.                                                           *)
THEOREM StartRefusedOnlyIfMarred == Spec => []RefusedOnlyIfMarred
<1>1. Orderly => RefusedOnlyIfMarred
  BY DEF Orderly, Files, RefusedOnlyIfMarred
<1> QED
  BY <1>1, TypeInit, TypeStep, OrderlyInit, OrderlyStep, PTL DEF Spec
=============================================================================
