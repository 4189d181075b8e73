SPECIFICATION FairSpec
CONSTANTS
  ToWorkerCap = 1
  TaskCap = 1
  MaxPosts = 3
  MaxSends = 2
  MaxListeners = 2
INVARIANTS MessagesInOrder MainOutlivesWorker
PROPERTIES TerminateEnds PosterFreed MessageHandled
