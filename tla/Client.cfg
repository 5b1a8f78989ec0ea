SPECIFICATION ClientSpec
CONSTANTS
    World = {1, 2}
    Media = {"memory", "socket"}
    MaxPending = 2
    MaxRequests = 2
    MaxLocals = 1
    MaxConnects = 2
    MaxAttach = 2
    QueueCap = 2
INVARIANTS
    CallsResolveOnce

    
