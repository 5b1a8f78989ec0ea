CONSTANTS
    k1 = k1
    k2 = k2
    k3 = k3
    z1 = z1
    z2 = z2
    Key = {k1, k2}
    Zone = {z1}
    None = None
    Unread = Unread
    ProvisionalFlag = 2
    Tx = {t1, t2}
    InitialTables <- OneRowTables
    MaxInserts = 1
    MaxEpoch = 3
    MaxPending = 1
    MaxReads = 2
SPECIFICATION HSpec
CONSTRAINT SmallTransactions
VIEW Visible
SYMMETRY Symmetry
INVARIANTS
    LastReadsAreCurrent
    LookupIsSound
PROPERTIES
    IdentityIsStable
