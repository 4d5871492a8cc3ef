----------------------- MODULE ReceivedPacketHandler -----------------------
(***************************************************************************)
(* The receiver's bookkeeping of one path:                                 *)
(* ackhandler/received_packet_handler.go, driven by path.handlePacketImpl, *)
(* which registers a packet and then lets handleFrames apply the           *)
(* STOP_WAITING frame in it, and by path.GetAckFrame.  The interval list   *)
(* of receivedPacketHistory is the set of numbers in its intervals; module *)
(* ReceivedPacketHistory shows that the list implements that set.          *)
(***************************************************************************)
EXTENDS Integers, FiniteSets, FiniteSetsExt

CONSTANTS
    MaxPacketNumber,                 \* bound on the numbers received
    MaxTrackedReceivedAckRanges,     \* protocol.MaxTrackedReceivedAckRanges
    MaxPacketsReceivedBeforeAckSend, \* used before version 39 only
    RetransmittablePacketsBeforeAck,
    BeforeVersion39,                 \* version < protocol.Version39
    MaxSinceLastAck                  \* bound on the packets between two ACKs

ASSUME ReceiverAssumption ==
    /\ MaxPacketNumber \in Nat
    /\ MaxTrackedReceivedAckRanges \in Nat
    /\ MaxPacketsReceivedBeforeAckSend \in Nat \ {0}
    /\ RetransmittablePacketsBeforeAck \in Nat \ {0}
    /\ BeforeVersion39 \in BOOLEAN
    /\ MaxSinceLastAck \in Nat

VARIABLES
    largestObserved,
    lowerLimit,
    packetHistory,
    packetsReceivedSinceLastAck,
    retransmittablePacketsReceivedSinceLastAck,
    ackQueued,
    ackAlarm,        \* !ackAlarm.IsZero()
    lastAck,         \* LargestAcked of the last ACK frame, 0 before the first
    err,             \* "nil", or the error that closes the session
    unreported       \* history: packets that ask for an ACK and were accepted
                     \* since the last ACK frame was made

ackVars == <<packetsReceivedSinceLastAck,
             retransmittablePacketsReceivedSinceLastAck, ackQueued, ackAlarm>>
vars == <<largestObserved, lowerLimit, packetHistory, ackVars, lastAck, err,
          unreported>>

PacketNumber == 1 .. MaxPacketNumber

Init ==
    /\ largestObserved = 0
    /\ lowerLimit = 0
    /\ packetHistory = {}
    /\ packetsReceivedSinceLastAck = 0
    /\ retransmittablePacketsReceivedSinceLastAck = 0
    /\ ackQueued = FALSE
    /\ ackAlarm = FALSE
    /\ lastAck = 0
    /\ err = "nil"
    /\ unreported = {}

(***************************************************************************)
(* The first numbers of the intervals of S, and of the highest of them     *)
(* (GetHighestAckRange).                                                   *)
(***************************************************************************)
RangeStarts(S) == {n \in S : n - 1 \notin S}
HighestRangeAbove(S, n) == \E f \in RangeStarts(S) :
                               /\ \A g \in RangeStarts(S) : g <= f
                               /\ f > n

(***************************************************************************)
(* Mutant: only the first packet after an ACK can set the ACK alarm.       *)
(***************************************************************************)
MutAlarmOnlyOnce(pn, shouldInstigateAck, H) ==
    LET received == packetsReceivedSinceLastAck + 1
        retransmittable == retransmittablePacketsReceivedSinceLastAck
                               + IF shouldInstigateAck THEN 1 ELSE 0
        queued ==
            \/ ackQueued
            \/ lastAck = 0
            \/ BeforeVersion39 /\ received >= MaxPacketsReceivedBeforeAckSend
            \/ lastAck # 0 /\ pn < lastAck
            \/ lastAck # 0 /\ HighestRangeAbove(H, lastAck)
            \/ /\ shouldInstigateAck
               /\ retransmittable >= RetransmittablePacketsBeforeAck
    IN  /\ packetsReceivedSinceLastAck' = received
        /\ retransmittablePacketsReceivedSinceLastAck' = retransmittable
        /\ ackQueued' = queued
        /\ ackAlarm' = (~queued /\ (ackAlarm \/ (shouldInstigateAck /\ received = 1)))

(***************************************************************************)
(* maybeQueueAck for packet pn, after it was added: H is the new history.  *)
(***************************************************************************)
maybeQueueAck(pn, shouldInstigateAck, H) ==
    LET received == packetsReceivedSinceLastAck + 1
        retransmittable == retransmittablePacketsReceivedSinceLastAck
                               + IF shouldInstigateAck THEN 1 ELSE 0
        queued ==
            \/ ackQueued
            \/ lastAck = 0
            \/ BeforeVersion39 /\ received >= MaxPacketsReceivedBeforeAckSend
            \/ lastAck # 0 /\ pn < lastAck
            \/ lastAck # 0 /\ HighestRangeAbove(H, lastAck)
            \/ /\ shouldInstigateAck
               /\ retransmittable >= RetransmittablePacketsBeforeAck
    IN  /\ packetsReceivedSinceLastAck' = received
        /\ retransmittablePacketsReceivedSinceLastAck' = retransmittable
        /\ ackQueued' = queued
        /\ ackAlarm' = (~queued /\ (ackAlarm \/ shouldInstigateAck))

MutLeastUnackedDeleted(leastUnacked, H) ==
    IF leastUnacked = 0
    THEN /\ packetHistory' = H
         /\ UNCHANGED lowerLimit
    ELSE /\ lowerLimit' = leastUnacked - 1
         /\ packetHistory' = {n \in H : n > leastUnacked}

(***************************************************************************)
(* SetLowerLimit(leastUnacked - 1) on history H; leastUnacked = 0 stands   *)
(* for a packet without a STOP_WAITING frame.                              *)
(***************************************************************************)
SetLowerLimit(leastUnacked, H) ==
    IF leastUnacked = 0
    THEN /\ packetHistory' = H
         /\ UNCHANGED lowerLimit
    ELSE /\ lowerLimit' = leastUnacked - 1
         /\ packetHistory' = {n \in H : n > leastUnacked - 1}

UpdateLargestObserved(pn) ==
    largestObserved' = IF pn > largestObserved THEN pn ELSE largestObserved

(***************************************************************************)
(* ReceivedPacket, with the STOP_WAITING frame of the packet applied after *)
(* it.  ParseStopWaitingFrame rejects a LeastUnacked above the number of   *)
(* its packet.                                                             *)
(***************************************************************************)
ReceivedBelowLimit(pn, leastUnacked) ==
    /\ pn <= lowerLimit
    /\ UpdateLargestObserved(pn)
    /\ SetLowerLimit(leastUnacked, packetHistory)
    /\ UNCHANGED <<ackVars, lastAck, err, unreported>>

ReceivedTooManyRanges(pn) ==
    /\ pn > lowerLimit
    /\ Cardinality(RangeStarts(packetHistory)) >= MaxTrackedReceivedAckRanges
    /\ UpdateLargestObserved(pn)
    /\ err' = "tooManyRanges"
    /\ UNCHANGED <<lowerLimit, packetHistory, ackVars, lastAck, unreported>>

ReceivedNew(pn, shouldInstigateAck, leastUnacked) ==
    /\ pn > lowerLimit
    /\ Cardinality(RangeStarts(packetHistory)) < MaxTrackedReceivedAckRanges
    /\ UpdateLargestObserved(pn)
    /\ maybeQueueAck(pn, shouldInstigateAck, packetHistory \cup {pn})
    /\ SetLowerLimit(leastUnacked, packetHistory \cup {pn})
    /\ unreported' = IF shouldInstigateAck THEN unreported \cup {pn} ELSE unreported
    /\ UNCHANGED <<lastAck, err>>

ReceivedPacket(pn, shouldInstigateAck, leastUnacked) ==
    /\ err = "nil"
    /\ packetsReceivedSinceLastAck < MaxSinceLastAck
    /\ leastUnacked <= pn
    /\ \/ ReceivedBelowLimit(pn, leastUnacked)
       \/ ReceivedTooManyRanges(pn)
       \/ ReceivedNew(pn, shouldInstigateAck, leastUnacked)

(***************************************************************************)
(* GetAckFrame when it returns a frame: an ACK is queued, or the ACK alarm *)
(* is set and has expired.  The frame covers packetHistory; it indexes the *)
(* last range of the list, and panics when there is none.                  *)
(***************************************************************************)
GetAckFrame ==
    /\ err = "nil"
    /\ ackQueued \/ ackAlarm
    /\ IF packetHistory = {}
       THEN /\ err' = "panic"
            /\ UNCHANGED <<lastAck, ackVars, unreported>>
       ELSE /\ lastAck' = largestObserved
            /\ ackAlarm' = FALSE
            /\ ackQueued' = FALSE
            /\ packetsReceivedSinceLastAck' = 0
            /\ retransmittablePacketsReceivedSinceLastAck' = 0
            /\ unreported' = {}
            /\ UNCHANGED err
    /\ UNCHANGED <<largestObserved, lowerLimit, packetHistory>>

Receive ==
    \E pn \in PacketNumber, shouldInstigateAck \in BOOLEAN,
       leastUnacked \in 0 .. MaxPacketNumber :
        ReceivedPacket(pn, shouldInstigateAck, leastUnacked)

Next == Receive \/ GetAckFrame

Spec == Init /\ [][Next]_vars

-----------------------------------------------------------------------------
TypeOK ==
    /\ largestObserved \in 0 .. MaxPacketNumber
    /\ lowerLimit \in 0 .. MaxPacketNumber
    /\ packetHistory \subseteq PacketNumber
    /\ packetsReceivedSinceLastAck \in 0 .. MaxSinceLastAck
    /\ retransmittablePacketsReceivedSinceLastAck \in 0 .. packetsReceivedSinceLastAck
    /\ ackQueued \in BOOLEAN
    /\ ackAlarm \in BOOLEAN
    /\ lastAck \in 0 .. MaxPacketNumber
    /\ err \in {"nil", "tooManyRanges", "panic"}
    /\ unreported \subseteq PacketNumber

(***************************************************************************)
(* Every ACK frame can be built and written: the history is never emptied  *)
(* under a pending ACK (GetAckFrame would index out of range) and its top  *)
(* range ends in LargestAcked (AckFrame.Write refuses any other frame).    *)
(***************************************************************************)
AckFrameIsWritable ==
    /\ err # "panic"
    /\ err = "nil" /\ largestObserved > 0 =>
          /\ largestObserved \in packetHistory
          /\ \A n \in packetHistory : n <= largestObserved

(***************************************************************************)
(* A packet that asks for an ACK always has one coming: it is queued, or   *)
(* the alarm is set, until GetAckFrame reports it.  Once there are         *)
(* RetransmittablePacketsBeforeAck of them the ACK no longer waits for the *)
(* alarm.                                                                  *)
(***************************************************************************)
AckIsComing ==
    /\ unreported # {} => ackQueued \/ ackAlarm
    /\ Cardinality(unreported) >= RetransmittablePacketsBeforeAck => ackQueued

=============================================================================
