\* Callers that keep one operation outstanding per descriptor.
CONSTANTS
    f1 = f1
    f2 = f2
    b1 = b1
    b2 = b2
    None = None
    Fds <- TwoFds
    Buffers <- TwoBuffers
    MaxCalls = 3
    CreditBudget = 1
    SqEntries = 1
    Kinds <- MessageKinds
    SingleOp = TRUE
SPECIFICATION Spec
SYMMETRY Symmetry
VIEW CoreView
CHECK_DEADLOCK FALSE
INVARIANTS
    KernelBufferReserved
    MessageStateAlive
    OwnCompletion
