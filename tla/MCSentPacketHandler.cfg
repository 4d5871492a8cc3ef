SPECIFICATION FairSpec
CONSTANTS
    MaxPacketNumber = 3
    MaxPeerPacketNumber = 2
    MaxTrackedSentPackets = 3
    MaxTrackedSkippedPackets = 1
    maxTailLossProbes = 2
    MaxRTOs = 1
    Payloads <- const_Payloads
INVARIANTS BytesInFlightMatchesHistory NothingForgotten AlarmCoversOutstanding
 
CHECK_DEADLOCK FALSE
