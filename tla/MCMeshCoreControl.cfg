SPECIFICATION FairSpec
CONSTANTS
  Peers = {p1}
  Selected <- OneOrNone
  Nodes = {n1}
  Company <- EitherOne
  None = None
CHECK_DEADLOCK FALSE
INVARIANTS ConfigurationAgrees RadioHandedBack PollsStopped OnlySelectedPeer
PROPERTIES Reconnects ReleaseHolds
