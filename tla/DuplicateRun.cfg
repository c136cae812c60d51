CONSTANTS
    c1 = c1
    c2 = c2
    u1 = u1
    Jobs = {1, 2}
    Users = {u1}
    OwnerOf <- OneUser
    GlobalCap = 2
    UserCap = 1
    MaxQueueSize = 1
    Consumers <- MCConsumers
    Handlers = {h1}
    NoJob = NoJob
    Budget <- DuplicateBudget
SPECIFICATION Spec
CHECK_DEADLOCK FALSE
PROPERTY NoDuplicateProcessing
