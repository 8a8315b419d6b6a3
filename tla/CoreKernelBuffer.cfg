\* A second receive on a descriptor, or unregister_fd, while one is outstanding.
CONSTANTS
    f1 = f1
    f2 = f2
    b1 = b1
    b2 = b2
    None = None
    Fds <- OneFd
    Buffers <- TwoBuffers
    MaxCalls = 2
    CreditBudget = 2
    SqEntries = 2
    Kinds <- ReceiveOnly
    SingleOp = FALSE
SPECIFICATION Spec
SYMMETRY Symmetry
CHECK_DEADLOCK FALSE
INVARIANTS
    KernelBufferReserved
