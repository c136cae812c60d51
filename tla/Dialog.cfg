CONSTANTS
    u1 = u1
    h1 = h1
    h2 = h2
    Jobs = {1, 2, 3, 4}
    Users = {u1}
    OwnerOf <- MCOwner
    GlobalCap = 2
    UserCap = 1
    MaxQueueSize = 2
    Handlers <- MCHandlers
    Files = {1, 3, 4}
    FileOf <- MCFile
    MaxBatchFiles = 2
    NoJob = NoJob
SPECIFICATION Spec
SYMMETRY MCSymmetry
CHECK_DEADLOCK FALSE
INVARIANTS
    TypeOK
    BatchesSound
    RefusalOverwritesNothing
PROPERTIES
    AskedBatchFrozen
    CancelCoversLateFiles
