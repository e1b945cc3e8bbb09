SPECIFICATION Spec
CONSTANTS
  Peers = {p1}
  Selected <- OneOrNone
  Nodes = {n1}
  Company <- EitherOne
  None = None
CHECK_DEADLOCK FALSE
INVARIANTS OldAttemptCancelled PeerPersisted NoPollsWhileReleased
PROPERTIES ForgetGivesBack
