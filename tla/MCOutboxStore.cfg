SPECIFICATION Spec
CONSTANTS
  DeliveryIds = {d1, d2, d3}
  Principals <- MCPrincipals
  NoRecord = NoRecord
  MaxEvents = 2
  MaxBytes = 31
  RecordBytes = 10
  FailureBytes = 4
  QuarantineBytes = 6
  Retention = 1
  MaxTime = 1
  MaxSequence = 2
  MaxGeneration = 0
SYMMETRY Symmetry
INVARIANTS DueIndexExact MemoSound CountersExact WithinBounds
PROPERTIES ImplementsLedger
