SPECIFICATION SpecDispatch
CONSTANTS
  DeliveryIds = {d1, d2}
  Principals <- TwoInstallations
  NoRecord = NoRecord
  MaxEvents = 2
  MaxBytes = 100
  RecordBytes = 10
  FailureBytes = 2
  QuarantineBytes = 3
  Retention = 2
  MaxTime = 1
  MaxSequence = 2
  MaxGeneration = 2
  StageMaxEvents = 2
  MaxBatch = 2
  MaxRetryDelay = 1
  Outcomes = {"ack", "retry", "quarantine", "collision", "credential", "binding"}
  Events = {"re_pair", "deauthorize", "local_reset", "resolve", "revoked", "heartbeat", "crash"}
SYMMETRY Symmetry
INVARIANTS NoSendWhilePaused UnackedEvidenceKept InflightOnlyWhileSending RotationAgrees
