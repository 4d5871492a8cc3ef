---------------------------- MODULE AckExchange ----------------------------
(***************************************************************************)
(* One direction of one path: the sender's sentPacketHandler, the          *)
(* receiver's receivedPacketHandler, and a network that may lose,          *)
(* duplicate, delay and reorder datagrams in both directions.  A datagram  *)
(* stays in the network after it was delivered (it may come again) and     *)
(* need never be delivered.  Both ends are this program, so packet numbers *)
(* are consecutive: the generator's nextToSkip is never set.               *)
(***************************************************************************)
EXTENDS Integers, Sequences, FiniteSets

CONSTANTS
    MaxPacketNumber, MaxAckPackets, MaxTrackedSentPackets, maxTailLossProbes,
    MaxRTOs, MaxTrackedReceivedAckRanges, RetransmittablePacketsBeforeAck,
    MaxSinceLastAck, Payloads

VARIABLES
    \* the sender's sentPacketHandler
    lastSentPacketNumber, skippedPackets, LargestAcked,
    largestReceivedPacketWithAck, sentHistory, retransmissionQueue,
    bytesInFlight, rttKnown, tlpCount, rtoCount, lossTime, alarm,
    largestLeastUnackedSent, nextLeastUnacked, lastStopWaitingFrame, sendErr,
    owed,
    \* the receiver's receivedPacketHandler
    largestObserved, lowerLimit, receivedHistory, packetsReceivedSinceLastAck,
    retransmittablePacketsReceivedSinceLastAck, ackQueued, ackAlarm, lastAck,
    recvErr, unreported,
    \* the sender's packer: the STOP_WAITING frame queued for the path, or 0
    stopWaiting,
    \* the datagrams sent in each direction
    dataNet, ackNet,
    \* history: the packets the receiver got, the packets sent again
    delivered, resent

S == INSTANCE SentPacketHandler WITH
        MaxPeerPacketNumber <- MaxAckPackets, MaxTrackedSkippedPackets <- 1,
        packetHistory <- sentHistory, err <- sendErr

R == INSTANCE ReceivedPacketHandler WITH
        MaxPacketsReceivedBeforeAckSend <- 1, BeforeVersion39 <- FALSE,
        packetHistory <- receivedHistory, err <- recvErr

ExchangeAssumption ==
    /\ {MaxPacketNumber, MaxAckPackets, MaxTrackedSentPackets, maxTailLossProbes, MaxRTOs,
        MaxTrackedReceivedAckRanges, MaxSinceLastAck} \subseteq Nat
    /\ RetransmittablePacketsBeforeAck \in Nat \ {0}
    /\ Payloads \subseteq [frames : SUBSET S!FrameTypes, length : Nat]

senderVars ==
    <<lastSentPacketNumber, skippedPackets, LargestAcked,
      largestReceivedPacketWithAck, sentHistory, retransmissionQueue,
      bytesInFlight, rttKnown, tlpCount, rtoCount, lossTime, alarm,
      largestLeastUnackedSent, nextLeastUnacked, lastStopWaitingFrame, sendErr,
      owed>>
receiverVars ==
    <<largestObserved, lowerLimit, receivedHistory,
      packetsReceivedSinceLastAck, retransmittablePacketsReceivedSinceLastAck,
      ackQueued, ackAlarm, lastAck, recvErr, unreported>>
netVars == <<dataNet, ackNet>>
historyVars == <<delivered, resent>>
vars == <<senderVars, receiverVars, stopWaiting, netVars, historyVars>>

DataPacket ==
    [pn : 1 .. MaxPacketNumber, shouldInstigateAck : BOOLEAN,
     leastUnacked : 0 .. MaxPacketNumber]
AckPacket == [pn : 1 .. MaxAckPackets, frame : S!AckFrames]

Init ==
    /\ S!Init
    /\ R!Init
    /\ stopWaiting = 0
    /\ dataNet = {}
    /\ ackNet = {}
    /\ delivered = {}
    /\ resent = {}

(***************************************************************************)
(* sendPacket asks for a STOP_WAITING frame and queues the one it gets.    *)
(***************************************************************************)
QueueStopWaiting(force) ==
    /\ S!GetStopWaitingFrame(force)
    /\ stopWaiting' = IF nextLeastUnacked > largestLeastUnackedSent \/ force
                      THEN lastStopWaitingFrame' ELSE stopWaiting
    /\ UNCHANGED <<receiverVars, netVars, historyVars>>

(***************************************************************************)
(* sendPackedPacket: the next packet number, with the queued STOP_WAITING  *)
(* frame in the packet.                                                    *)
(***************************************************************************)
Send(payload) ==
    /\ lastSentPacketNumber < MaxPacketNumber
    /\ S!SentPacket(lastSentPacketNumber + 1, payload)
    /\ dataNet' = dataNet \cup
          {[pn |-> lastSentPacketNumber + 1,
            shouldInstigateAck |->
                S!stripNonRetransmittableFrames(payload.frames) # {},
            leastUnacked |-> stopWaiting]}
    /\ stopWaiting' = 0
    /\ UNCHANGED <<receiverVars, ackNet, historyVars>>

(***************************************************************************)
(* path.handlePacketImpl at the receiver.                                  *)
(***************************************************************************)
DeliverData(m) ==
    /\ R!ReceivedPacket(m.pn, m.shouldInstigateAck, m.leastUnacked)
    /\ delivered' = delivered \cup {m.pn}
    /\ UNCHANGED <<senderVars, stopWaiting, netVars, resent>>

(***************************************************************************)
(* The receiver puts its ACK frame into a packet of its own numbering.     *)
(***************************************************************************)
SendAck ==
    /\ Cardinality(ackNet) < MaxAckPackets
    /\ R!GetAckFrame
    /\ ackNet' = ackNet \cup {[pn |-> Cardinality(ackNet) + 1,
                               frame |-> [LargestAcked |-> largestObserved,
                                          acked |-> receivedHistory]]}
    /\ UNCHANGED <<senderVars, stopWaiting, dataNet, historyVars>>

(***************************************************************************)
(* handleAckFrame passes the number of the packet just received.           *)
(***************************************************************************)
DeliverAck(m) ==
    /\ S!ReceivedAck(m.frame, m.pn)
    /\ UNCHANGED <<receiverVars, stopWaiting, netVars, historyVars>>

Alarm ==
    /\ S!OnAlarm
    /\ UNCHANGED <<receiverVars, stopWaiting, netVars, historyVars>>

(***************************************************************************)
(* getRetransmission takes a packet from the queue; its frames go into a   *)
(* new packet.                                                             *)
(***************************************************************************)
Retransmit ==
    /\ S!DequeuePacketForRetransmission
    /\ resent' = resent \cup {Head(retransmissionQueue).pn}
    /\ UNCHANGED <<receiverVars, stopWaiting, netVars, delivered>>

Next ==
    \/ \E force \in BOOLEAN : QueueStopWaiting(force)
    \/ \E payload \in Payloads : Send(payload)
    \/ \E m \in dataNet : DeliverData(m)
    \/ SendAck
    \/ \E m \in ackNet : DeliverAck(m)
    \/ Alarm
    \/ Retransmit

Spec == Init /\ [][Next]_vars

-----------------------------------------------------------------------------
(***************************************************************************)
(* Two correct ends never make each other close the session: no ACK is     *)
(* taken for one of an unsent or skipped packet, and no ACK frame panics.  *)
(***************************************************************************)
NoFalseError ==
    /\ sendErr \notin {"ackForUnsent", "ackForSkipped"}
    /\ recvErr # "panic"

(***************************************************************************)
(* Reliability across both ends: a retransmittable packet the receiver has *)
(* not got is still tracked by the sender or was sent again, and what the  *)
(* sender takes as acknowledged was received                               *)
(* (sentPacketHandler.ReceivedAck, receivedPacketHandler.GetAckFrame).     *)
(***************************************************************************)
UndeliveredIsTracked ==
    /\ \A m \in dataNet :
          m.shouldInstigateAck /\ m.pn \notin delivered \cup resent =>
              m.pn \in S!Numbers(sentHistory) \cup S!Numbers(S!QueueSet(retransmissionQueue))
    /\ LargestAcked \in delivered \cup {0}
    /\ \A m \in ackNet : m.frame.acked \subseteq delivered

=============================================================================
