CONSTANTS
    Goroutines = {g1, g2}
    SelfPosts = {m1}
    Handles = {}
    Stoppers = {s1}
    JS = JS
    Job = Job
    Cap = 1
    MaxJobs = 1
    AwaitIn <- Nowhere
SPECIFICATION FairSpec
CHECK_DEADLOCK FALSE
PROPERTIES ImplementsKeepAlive StopEndsLoop BlockedPosterFreed
