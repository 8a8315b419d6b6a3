\* Pipes, datagram endpoints, child processes and servers.
CONSTANTS
    Capacity = 2
    HighWater = 1
    LowWater = 1
    Marks = {0, 1}
    MaxWrites = 3
    MaxArrivals = 3
    Outs <- OneOut
    MaxOutput = 2
    MaxInput = 2
    InCapacity = 1
    Servers = {s1, s2}
    Clients = {c1, c2}
    ListenFds = {f1}
    MaxErrors = 1
    Nobody = Nobody
    Scenarios = {"pipe", "datagram", "subprocess", "server"}
SPECIFICATION MCSpec
CHECK_DEADLOCK FALSE
INVARIANTS
    PipeKeepsData
    PipeEndedOnce
    PipeWatchesLive
    PausedHasBacklog
    OutputBeforeExit
    
    StdinClosesWhenFlushed
    AcceptPending
    LeakOnlyAfterClose
PROPERTIES
    DataOnlyWhileReading
    CloseFlushes
    DatagramQuietAfterClose
    DatagramLostCalled
    ExitIsFinal
    ExitNoticed
    ClosedServesNobody
    BacklogServed
