SPECIFICATION FairSpec
CONSTANTS
  Modules = {a, b, c}
  Awaiting = {a, b}
  Custom = {c}
  MaxExports = 3
  MaxEdits = 1
  MaxTasks = 1
CHECK_DEADLOCK FALSE
INVARIANTS EvaluatedOnce ReturnsFinished RemovedStaysGone
PROPERTIES EvaluationEnds
