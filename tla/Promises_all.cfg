CONSTANTS
    MaxPromises = 4
    MaxOps = 5
SPECIFICATION FairSpec
CHECK_DEADLOCK FALSE
INVARIANTS EachReactionOnce CheckpointComplete
PROPERTIES ReactionRuns SettledForGood
