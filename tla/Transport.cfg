SPECIFICATION TransportSpec
CONSTANTS
    Cap = 2
    RingCap = 2
    Wrap = 4
    MaxItems = 5
    Messages <- MCMessages
    Later <- MCLater
    OutCap = 2
    SendMax = 24
    RecvMax = 20
    SockCap = 6
    MaxSends = 3
INVARIANTS
    SlotsDoNotCollide
    ReceivedAsSent
    PayloadsAreExact
PROPERTIES
    ImplementsChannel
    
