\* Well-behaved callers, no full queue: what a completed receive leaves behind.
CONSTANTS
    f1 = f1
    f2 = f2
    b1 = b1
    b2 = b2
    None = None
    Fds <- OneFd
    Buffers <- TwoBuffers
    MaxCalls = 2
    CreditBudget = 2
    SqEntries = 2
    Kinds <- ReceiveOnly
    SingleOp = TRUE
SPECIFICATION Spec
SYMMETRY Symmetry
CHECK_DEADLOCK FALSE
INVARIANTS
    CreditsMatchRing
