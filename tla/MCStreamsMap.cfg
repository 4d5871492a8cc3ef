SPECIFICATION MCSpec
CONSTANTS
    MaxID = 6
    MaxOutgoing = 2
    MaxIncoming = 2
    Acceptors = {a1}
    Openers = {o1, o2}
    UnreliableStreams = {4, 5}
INVARIANTS LimitsAreExact StreamsKeepIdentity RoomIsSignalled
PROPERTIES WaitersReturn
CHECK_DEADLOCK FALSE
