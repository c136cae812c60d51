CONSTANTS
    c1 = c1
    c2 = c2
    u1 = u1
    Jobs = {1}
    Users = {u1}
    OwnerOf <- OneUser
    GlobalCap = 2
    UserCap = 1
    MaxQueueSize = 1
    Consumers <- MCConsumers
    Handlers = {h1}
    NoJob = NoJob
    Budget <- LiveBudget
SPECIFICATION FairSpec
CHECK_DEADLOCK FALSE
INVARIANTS
    SlotsConserved
PROPERTIES
    RunsFinish
    DirsReclaimed
    PoolSpec
