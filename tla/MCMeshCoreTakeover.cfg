SPECIFICATION Spec
CONSTANTS
  Targets = {t1}
  Routes = {r1}
  Fixes = {"none"}
  Answers <- FewAnswers
  Sources = {"manual", "session"}
  Threshold = 2
  UnknownInterval = 2
  StationaryInterval = 3
  SlowInterval = 2
  FastInterval = 1
  MinimumInterval = 1
  MaximumBackoff = 3
  MaxGeneration = 3
  None = None
INVARIANTS TakeoverWakes
CHECK_DEADLOCK FALSE

