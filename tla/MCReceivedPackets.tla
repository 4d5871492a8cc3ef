------------------------- MODULE MCReceivedPackets -------------------------
(***************************************************************************)
(* The way of packets to the peer and of ACKs back: ReceivedPacketHandler  *)
(* and, beside it, ReceivedPacketHistory, AckExchange and PacketCodec.     *)
(* A scenario is one of                                                    *)
(*   - handler: the handler of one path gets any packets.  MaxSinceLastAck *)
(*     is two above the thresholds that the counters are compared with;    *)
(*   - history: its list of intervals alone.  With seven numbers there are *)
(*     up to four intervals, and the limit of three makes the error happen;*)
(*   - exchange: the handler with the one of the sender and a network.     *)
(*     A packet has reliable data, or frames that are not retransmitted;   *)
(*     the alarm goes straight to the RTO, since tail loss probes are in   *)
(*     MCSentPacketHandler;                                                *)
(*   - numbers, frames, handshake: those of MCPacketCodec.                 *)
(***************************************************************************)
EXTENDS ReceivedPacketHandler

VARIABLES
    scenario,
    ranges,
    lastSentPacketNumber, skippedPackets, LargestAcked, largestReceivedPacketWithAck, sentHistory,
    retransmissionQueue, bytesInFlight, rttKnown, tlpCount, rtoCount, lossTime, alarm,
    largestLeastUnackedSent, nextLeastUnacked, lastStopWaitingFrame, sendErr, owed,
    stopWaiting, dataNet, ackNet, delivered, resent,
    codecScenario, pers, truncate, known, next, leastUnacked, handshakePacket, inFlight,
    largestRcvd

senderVars ==
    <<lastSentPacketNumber, skippedPackets, LargestAcked, largestReceivedPacketWithAck,
      sentHistory, retransmissionQueue, bytesInFlight, rttKnown, tlpCount, rtoCount, lossTime,
      alarm, largestLeastUnackedSent, nextLeastUnacked, lastStopWaitingFrame, sendErr, owed,
      stopWaiting, dataNet, ackNet, delivered, resent>>
codecVars == <<codecScenario, pers, truncate, known, next, leastUnacked, handshakePacket,
               inFlight, largestRcvd>>

History == INSTANCE ReceivedPacketHistory WITH
    MaxPacketNumber <- 7, MaxTrackedReceivedAckRanges <- 3

Exchange == INSTANCE AckExchange WITH
    receivedHistory <- packetHistory, recvErr <- err,
    MaxPacketNumber <- 3, MaxAckPackets <- 2, MaxTrackedSentPackets <- 3, maxTailLossProbes <- 0,
    MaxRTOs <- 1, MaxTrackedReceivedAckRanges <- 2, RetransmittablePacketsBeforeAck <- 2,
    MaxSinceLastAck <- 2,
    Payloads <- {[frames |-> {"stream"}, length |-> 1],
                 [frames |-> {"ack", "unreliable"}, length |-> 1]}

Codec == INSTANCE MCPacketCodec

ASSUME History!HistoryAssumption /\ Exchange!ExchangeAssumption /\ Codec!CodecAssumption

MCInit ==
    /\ scenario \in {"handler", "history", "exchange", "numbers", "frames", "handshake"}
    /\ History!Init
    /\ Exchange!Init
    /\ Codec!CodecInit(scenario)

MCNext ==
    /\ UNCHANGED scenario
    /\ \/ scenario = "handler" /\ Next /\ UNCHANGED <<ranges, senderVars, codecVars>>
       \/ scenario = "history" /\ History!Next /\ UNCHANGED <<vars, senderVars, codecVars>>
       \/ scenario = "exchange" /\ Exchange!Next /\ UNCHANGED <<ranges, codecVars>>
       \/ /\ scenario \in {"numbers", "frames", "handshake"} /\ Codec!CodecNext
          /\ UNCHANGED <<vars, ranges, senderVars>>

mcVars == <<vars, scenario, ranges, senderVars, codecVars>>

MCSpec == MCInit /\ [][MCNext]_mcVars

-----------------------------------------------------------------------------
(***************************************************************************)
(* The list of intervals implements a set of packet numbers: whatever was  *)
(* received, deleted or received again, it stands for exactly the numbers  *)
(* registered and not deleted, and DeleteUpTo cuts it exactly at its       *)
(* argument (receivedPacketHistory).                                       *)
(***************************************************************************)
ImplementsPacketNumberSet ==
    /\ History!Abstract!Init
    /\ [][scenario = "history" =>
             /\ [History!Abstract!Next]_(History!numbers)
             /\ \A p \in 0 .. 7 : History!DeleteUpTo(p) => History!Abstract!Delete(p)]_ranges

(***************************************************************************)
(* Two correct ends never make each other close the session                *)
(* (sentPacketHandler.ReceivedAck, receivedPacketHandler.GetAckFrame).     *)
(***************************************************************************)
NoFalseError == scenario = "exchange" => Exchange!NoFalseError

(***************************************************************************)
(* A retransmittable packet that the receiver has not got is still tracked *)
(* by the sender or was sent again (sentPacketHandler.ReceivedAck).        *)
(***************************************************************************)
UndeliveredIsTracked == scenario = "exchange" => Exchange!UndeliveredIsTracked

(***************************************************************************)
(* The receiver infers the number and finds the path of every packet that  *)
(* is not half an epoch late (InferPacketNumber, getPublicHeader).         *)
(***************************************************************************)
NumbersAreInferred == Codec!NumbersAreInferred

(***************************************************************************)
(* The frames that packetUnpacker.Unpack parses are those that were packed.*)
(***************************************************************************)
FramesSurvive == Codec!FramesSurvive

(***************************************************************************)
(* Frames are written without an error, have the length that was planned,  *)
(* and packets are not too large (writeAndSealPacket).                     *)
(***************************************************************************)
PacketIsWritten == Codec!PacketIsWritten
=============================================================================
