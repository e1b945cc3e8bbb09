SPECIFICATION FairSpec
CONSTANTS
  None = None
  t1 = t1
  t2 = t2
  companionRadio = companionRadio
  meshtasticRadio = meshtasticRadio
  Ttys <- MCTtys
  Radios <- MCRadios
  Configs <- MCConfigs
  Depth = 2
  Batch = 2
  Flaky = {1}
  MaxLosses = 1
  LocalBuffer = 1
  EventBuffer = 1
  Start1 = 148
  Start2 = 195
  MaxPayload = 2
  MaxDiscarded = 4
  Noises <- MCNoises
  Messages <- MCMessages
  Tails <- MCTails
CHECK_DEADLOCK FALSE
INVARIANTS LeaseExcludes NoSendAfterClose ScannerInStep
PROPERTIES PacketsGoOn RadioReadAgain
