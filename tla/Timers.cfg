CONSTANTS
    Delays = {0, 1}
    MaxId = 2
    MaxTime = 1
    MaxTimers = 2
    Kinds = {"once", "interval"}
SPECIFICATION FairSpec
CHECK_DEADLOCK FALSE
INVARIANTS CountExact EndsAfterTimers StartsInOrder
PROPERTIES ArmedTimerRuns TickerLeavesAfterClear
