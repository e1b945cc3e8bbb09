SPECIFICATION Spec
CONSTANTS
  Nodes = {n1}
  Attested = {n1}
  Offers = {"off", "control"}
  MaxKey = 3
  MaxSession = 2
  Events = {"config", "crash", "shutdown", "closed", "foreign", "conflict", "fatal", "reset", "lifecycle"}
  None = None
INVARIANTS PendingFitsSession
PROPERTIES NoneForgotten
