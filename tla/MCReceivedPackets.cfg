SPECIFICATION MCSpec
CONSTANTS
    MaxPacketNumber = 5
    MaxTrackedReceivedAckRanges = 3
    MaxPacketsReceivedBeforeAckSend = 3
    RetransmittablePacketsBeforeAck = 2
    BeforeVersion39 = TRUE
    MaxSinceLastAck = 5
INVARIANTS AckFrameIsWritable AckIsComing  UndeliveredIsTracked
    NumbersAreInferred FramesSurvive PacketIsWritten
PROPERTIES ImplementsPacketNumberSet
CHECK_DEADLOCK FALSE
