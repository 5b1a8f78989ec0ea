CONSTANTS
    World = {1}
    Client = {1, 2}
    Scenes <- MCScenes
    Limited = {"input", "call"}
    MaxSubs = 2
    MaxConnections = 2
    SessionSubs = 2
    PendingCap = 1
    OutCap = 2
    Direct = TRUE
    SkipEmpty = FALSE
    MayFail = TRUE
    None = None
SPECIFICATION GSpec
INVARIANTS
    IndexesAgree
    AnswersAreOwn
    LossIsAnnounced
PROPERTIES
    CallsAreSettled
    EndedCallsAreAnswered
    NoticesGoOut
