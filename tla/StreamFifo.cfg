\* One connection whose application only receives.
CONSTANTS
    f1 = f1
    b1 = b1
    b2 = b2
    None = None
    Fds <- OneFd
    Buffers <- TwoBuffers
    MaxCalls = 4
    CreditBudget = 9
    SqEntries = 1
    Kinds <- StreamKinds
    SingleOp = FALSE
    Conns <- OneConn
    HighWater = 2
    LowWater = 1
    AppMoves <- NoMoves
SPECIFICATION TransportSpec
SYMMETRY Symmetry
VIEW View
CHECK_DEADLOCK FALSE
INVARIANTS
    DeliveredFifo
