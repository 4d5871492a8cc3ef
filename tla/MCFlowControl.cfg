CONSTANTS
    s1 = s1
    s2 = s2
    Conn = Conn
    Streams <- const_Streams
    Contributing <- const_Streams
    InitialWindow <- const_InitialWindow
    MaxIncrement <- const_MaxIncrement
    MaxOffset = 3
SPECIFICATION MCSpec
INVARIANTS  CreditWasGranted
PROPERTIES BlockedStreamGetsCredit
CHECK_DEADLOCK FALSE
