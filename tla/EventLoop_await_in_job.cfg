CONSTANTS
    Goroutines = {g1}
    SelfPosts = {}
    Handles = {}
    Stoppers = {}
    JS = JS
    Job = Job
    Cap = 1
    MaxJobs = 2
    AwaitIn <- Anywhere
SPECIFICATION FairSpec
CHECK_DEADLOCK FALSE
PROPERTIES ExitsWhenIdle
