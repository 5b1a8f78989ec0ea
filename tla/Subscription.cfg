CONSTANTS
    Row = {1, 2}
    Queries <- Both
    None = None
    StaleView = StaleView
    MaxBuffered = 3
    InitialRows = 2
    MaxRows = 3
    MaxSubs = 2
    MaxChanges = 2
    MaxSeq = 3
    MaxResyncs = 1
SPECIFICATION CSpec
VIEW Visible
CHECK_DEADLOCK FALSE
INVARIANTS
    ViewIsCurrent
    StreamRebuildsView
    ClientIsExactOrStale
