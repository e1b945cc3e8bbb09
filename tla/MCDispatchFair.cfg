SPECIFICATION FairSpec
CONSTANTS
  DeliveryIds = {d1, d2}
  Principals <- TwoInstallations
  NoRecord = NoRecord
  MaxEvents = 2
  MaxBytes = 100
  RecordBytes = 10
  FailureBytes = 2
  QuarantineBytes = 3
  Retention = 2
  MaxTime = 1
  MaxSequence = 2
  MaxGeneration = 1
  StageMaxEvents = 2
  MaxBatch = 2
  MaxRetryDelay = 1
  Outcomes = {"ack", "retry", "credential"}
  Events = {"re_pair", "crash"}
PROPERTIES Delivered PauseEventuallyLifted
