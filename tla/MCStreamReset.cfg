CONSTANTS
    Zero = Zero
    MaxFrames = 1
    BufferLen = 1
    WriteLen = 2
    MaxOffset = 0
    MaxTime = 1
    ReadDeadlines = {}
    WriteDeadlines = {}
SPECIFICATION MCSpec
PROPERTY EndReturnsReads
CHECK_DEADLOCK FALSE
