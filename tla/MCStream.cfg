CONSTANTS
    Zero = Zero
    MaxFrames = 2
    BufferLen = 1
    WriteLen = 2
    MaxOffset = 4
    MaxTime = 2
    ReadDeadlines = {0, 2}
    WriteDeadlines = {2}
SPECIFICATION MCSpec
INVARIANTS ReceivedIsReadable FinalOffsetIsFinal NothingOwed ReturnsAreTrue
PROPERTIES ImplementsByteStream BlockedReadReturns WritingEnds
CHECK_DEADLOCK FALSE
