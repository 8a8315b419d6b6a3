\* Callers that issue any operation on any descriptor at any time.
CONSTANTS
    f1 = f1
    f2 = f2
    b1 = b1
    b2 = b2
    None = None
    Fds <- TwoFds
    Buffers <- TwoBuffers
    MaxCalls = 3
    CreditBudget = 2
    SqEntries = 1
    Kinds <- MixedKinds
    SingleOp = FALSE
SPECIFICATION Spec
SYMMETRY Symmetry
VIEW BookkeepingView
CHECK_DEADLOCK FALSE
INVARIANTS
    TypeOK
    BufferAccounting
    StoredFutureHasOperation
