CONSTANTS
    Table <- MCTables
    RowOf <- MCRows
    Reducers <- MCReducers
    Systems <- MCSystems
    Workers = {0, 1, 2}
    Batches <- MCBatches
    CallLists <- MCCalls
    MaxEvents = 2
    MaxMessages = 2
    MaxScheduled = 1
    MaxSystems = 3
    MaxTick = 2
    MaxOps = 1
    None = None
SPECIFICATION TSpec
CHECK_DEADLOCK FALSE
INVARIANTS
    CommittedTickIsSerial
    FailedTickIsJustified
