\* Two slots for three descriptors, which refer to two files, and a submission
\* queue of two entries.
CONSTANTS
    f1 = f1
    f2 = f2
    f3 = f3
    a = a
    b = b
    None = None
    Fds <- ThreeFds
    Files <- TwoFiles
    Capacity = 2
    QueueSize = 2
SPECIFICATION FilesSpec
SYMMETRY Symmetries
INVARIANTS
    FilesTypeOK
    SlotOwnedOnce
    KernelAgrees
    QueuedReachesItsFile
