\* A server that is closed while an accept of it is in the kernel.
CONSTANTS
    Capacity = 1
    HighWater = 1
    LowWater = 1
    Marks = {}
    MaxWrites = 1
    MaxArrivals = 1
    Outs <- OneOut
    MaxOutput = 1
    MaxInput = 1
    InCapacity = 1
    Servers = {s1, s2}
    Clients = {c1}
    ListenFds = {f1, f2}
    MaxErrors = 0
    Nobody = Nobody
    Scenarios = {"server"}
SPECIFICATION MCSpec
CHECK_DEADLOCK FALSE
PROPERTY
    ClosedStopsServing
