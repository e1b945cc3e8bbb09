SPECIFICATION FairSpec
CONSTANTS
  Nodes = {n1}
  Attested = {}
  Offers = {"off", "control"}
  MaxKey = 3
  MaxSession = 2
  Events = {}
  None = None
PROPERTIES ReturnEndsSession
