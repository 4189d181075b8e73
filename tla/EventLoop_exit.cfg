CONSTANTS
    Goroutines = {g1, g2}
    SelfPosts = {}
    Handles = {h1}
    Stoppers = {}
    JS = JS
    Job = Job
    Cap = 1
    MaxJobs = 1
    AwaitIn <- NotInLoopJobs
SPECIFICATION FairSpec
CHECK_DEADLOCK FALSE
INVARIANTS TypeOK ActiveExact NothingLeftBehind WakeupPending
PROPERTIES ExitsWhenIdle AcceptedTaskRuns
