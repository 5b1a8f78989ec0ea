CONSTANTS
    WorkerCount = 2
    WorldCount = 3
    Policy = "Continue"
    Persist = TRUE
    MaxQueuedInputs = 2
    MaxQueuedMessages = 2
    MaxQueuedCalls = 2
    MaxCallsPerTick = 1
    MaxCommands = 1
    MaxMessagesPerTick = 1
    FrameSizes = {1}
    OversizedCalls = {2}
    OneAddressPerWorld = TRUE
    MaxTick = 2
    MaxCalls = 2
    MaxOps = 9
    Boots = {2, 3}
    None = None
SPECIFICATION RSpec
CHECK_DEADLOCK FALSE
INVARIANTS
    CallsAreConserved
    OwnershipAgrees
    RoutingIsCurrent
PROPERTY AppliedInWorldOrder
