\* Readers and writers of one descriptor, next to one handle.
CONSTANTS
    d1 = d1
    t1 = t1
    g1 = g1
    None = None
    MaxHandles = 1
    MaxTime = 1
    Fds <- OneFd
    Threads <- NoThreads
    Futures <- NoFutures
SPECIFICATION LoopSpec
CHECK_DEADLOCK FALSE
INVARIANTS
    EpollMatchesWatches
PROPERTIES
    ImplementsCallbackQueue
