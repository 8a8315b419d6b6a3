\* One connection and an application that uses every method of the transport.
CONSTANTS
    f1 = f1
    b1 = b1
    b2 = b2
    None = None
    Fds <- OneFd
    Buffers <- TwoBuffers
    MaxCalls = 4
    CreditBudget = 9
    SqEntries = 1
    Kinds <- StreamKinds
    SingleOp = FALSE
    Conns <- OneConn
    HighWater = 2
    LowWater = 1
    AppMoves <- AllMoves
SPECIFICATION TransportSpec
SYMMETRY Symmetry
VIEW View
CHECK_DEADLOCK FALSE
INVARIANTS
    TransportTypeOK
    ConnectionLostOnce
    PauseInSync
    ReaderAlive
PROPERTIES
    NoDataAfterClose
