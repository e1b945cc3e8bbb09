SPECIFICATION FairSpec
CONSTANTS
  Nodes = {n1}
  Attested = {}
  Offers = {"off", "control"}
  MaxKey = 3
  MaxSession = 2
  Events = {"credential", "crash", "shutdown", "overflow", "closed", "conflict", "fatal", "lifecycle"}
  None = None
PROPERTIES PendingResolves
