\* A writer whose reader goes away.
CONSTANTS
    Capacity = 1
    HighWater = 1
    LowWater = 1
    Marks = {}
    MaxWrites = 2
    MaxArrivals = 1
    Outs <- OneOut
    MaxOutput = 1
    MaxInput = 1
    InCapacity = 1
    Servers = {s1}
    Clients = {c1}
    ListenFds = {f1}
    MaxErrors = 0
    Nobody = Nobody
    Scenarios = {"pipe"}
SPECIFICATION MCSpec
CHECK_DEADLOCK FALSE
PROPERTY
    WriterSeesError
