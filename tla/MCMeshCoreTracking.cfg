SPECIFICATION FairSpec
CONSTANTS
  Targets = {t1}
  Routes = {r1, r2}
  Fixes = {"none", "fast"}
  Answers <- AllAnswers
  Sources = {"manual", "session"}
  Threshold = 2
  UnknownInterval = 2
  StationaryInterval = 3
  SlowInterval = 2
  FastInterval = 1
  MinimumInterval = 1
  MaximumBackoff = 2
  MaxGeneration = 3
  None = None
CHECK_DEADLOCK FALSE
PROPERTIES StaleRunsHarmless ResetEarned TrackingGoesOn
