\* Callbacks, timers, another thread, and run_until_complete on one future.
CONSTANTS
    d1 = d1
    t1 = t1
    g1 = g1
    None = None
    MaxHandles = 2
    MaxTime = 1
    Fds <- NoFds
    Threads <- OneThread
    Futures <- OneFuture
SPECIFICATION LoopSpec
CHECK_DEADLOCK FALSE
INVARIANTS
    LoopTypeOK
    NoLostWakeup
PROPERTIES
    ImplementsCallbackQueue
    TimersInOrder
    EveryCallbackRuns
    StopEndsLoop
