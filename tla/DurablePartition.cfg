CONSTANTS
    Payload <- RowChange
    None = None
    Policies = {"Flush", "Sync"}
    MaxChanges = 1
    MaxRecords = 4
    MaxCrashes = 2
    MaxRows = 2
    SnapshotInterval = 2
    MaxSnapshots = 1
SPECIFICATION PartitionSpec
VIEW PartitionView
CHECK_DEADLOCK FALSE
INVARIANTS
    AckedAreRecovered
    RecoveryNeverFails
    TxIdsGrow
PROPERTIES
    RecoversCommittedState
