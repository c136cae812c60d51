CONSTANTS
    c1 = c1
    c2 = c2
    u1 = u1
    Jobs = {1, 2}
    Users = {u1}
    OwnerOf <- OneUser
    GlobalCap = 1
    UserCap = 1
    MaxQueueSize = 1
    Consumers = {c1}
    Handlers = {h1}
    NoJob = NoJob
    Budget <- QueueBudget
SPECIFICATION FairSpec
CHECK_DEADLOCK FALSE
PROPERTIES
    QueuedServed
