CONSTANTS
    k1 = k1
    k2 = k2
    k3 = k3
    z1 = z1
    z2 = z2
    Key = {k1, k2, k3}
    Zone = {z1, z2}
    None = None
    Unread = Unread
    ProvisionalFlag = 4
    Tx = {t1}
    InitialTables <- TwoRowTables
    MaxInserts = 2
    MaxEpoch = 3
    MaxPending = 3
    MaxReads = 2
SPECIFICATION HSpec
CONSTRAINT SmallTransactions
VIEW Visible
INVARIANTS
    TypeOK
    IndexesAgree
    ApplyNeverPanics
    RemainingWritesFit
    CommitIsAtomic
    ChangesDescribeCommit
