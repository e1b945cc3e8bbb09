SPECIFICATION Spec
CONSTANTS
  Targets = {t1, t2}
  Tags = {g1, g2}
  Callers = {portal, tracking}
  Resetters = {tracking}
  Cancellable = {portal}
  Firmware = {"binary", "legacy"}
  WithContacts = TRUE
  MaxFetches = 1
  MaxInbox = 1
  MaxSyncs = 0
  MaxRequests = 2
  MaxSessions = 1
  None = None
SYMMETRY Symmetry
CHECK_DEADLOCK FALSE
INVARIANTS NothingLeftBehind ResultOfTarget EvidenceConfirmed NoForeignTimeout
