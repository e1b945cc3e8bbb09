SPECIFICATION Spec
CONSTANTS
  Targets = {t1, t2}
  Tags = {g1, g2}
  Callers = {portal, tracking}
  Resetters = {tracking}
  Cancellable = {portal}
  Firmware = {"binary", "legacy"}
  WithContacts = FALSE
  MaxFetches = 2
  MaxInbox = 0
  MaxSyncs = 0
  MaxRequests = 2
  MaxSessions = 1
  None = None
SYMMETRY Symmetry
INVARIANTS TagStandsForTarget
CHECK_DEADLOCK FALSE
