------------------------- MODULE AckExchangeProofs -------------------------
(***************************************************************************)
(* The exchange of packets and ACKs between two ends, for every number of  *)
(* packets and ACKs and every behaviour of the network.                    *)
(***************************************************************************)
EXTENDS AckExchange, FiniteSetTheorems, TLAPS

(***************************************************************************)
(* Every number in the receiver's hands was sent, every                    *)
(* number in an ACK was received, and a packet that was neither received   *)
(* nor sent again is one that the sender still owes.  As numbers are       *)
(* consecutive, none is noted as skipped.                                  *)
(***************************************************************************)
SenderIsSound ==
    /\ lastSentPacketNumber \in 0 .. MaxPacketNumber
    /\ skippedPackets = {}
    /\ stopWaiting \in 0 .. lastSentPacketNumber + 1
    /\ LargestAcked \in delivered \cup {0}
    /\ sendErr \notin {"ackForUnsent", "ackForSkipped"}

DataIsSound ==
    \A m \in dataNet :
        /\ m.pn \in 1 .. lastSentPacketNumber
        /\ m.shouldInstigateAck \in BOOLEAN
        /\ m.leastUnacked \in 0 .. MaxPacketNumber
        /\ m.shouldInstigateAck => m.pn \in delivered \cup resent \cup owed

ReceiverIsSound ==
    /\ delivered \subseteq 1 .. lastSentPacketNumber
    /\ receivedHistory \subseteq delivered
    /\ largestObserved \in delivered \cup {0}

AcksAreSound ==
    /\ IsFiniteSet(ackNet)
    /\ \A m \in ackNet :
          /\ m.pn \in 1 .. MaxAckPackets
          /\ m.frame \in S!AckFrames
          /\ m.frame.acked \subseteq delivered

ExchangeIsSound == SenderIsSound /\ DataIsSound /\ ReceiverIsSound /\ AcksAreSound

(***************************************************************************)
(* What the argument needs of the handlers, and their own proofs give.     *)
(***************************************************************************)
StopWaitingFits == lastStopWaitingFrame \in 0 .. lastSentPacketNumber + 1

AckIsBacked ==
    recvErr = "nil" /\ (ackQueued \/ ackAlarm) =>
        /\ largestObserved \in receivedHistory
        /\ receivedHistory \subseteq 1 .. MaxPacketNumber
        /\ \A n \in receivedHistory : n <= largestObserved

(***************************************************************************)
(* The exchange begins with two new handlers and an empty network.         *)
(***************************************************************************)
LEMMA InitSound == ASSUME ExchangeAssumption, Init PROVE ExchangeIsSound
<1>1. IsFiniteSet({})
  BY FS_EmptySet
<1>2. SenderIsSound /\ DataIsSound /\ ReceiverIsSound
  BY DEF Init, S!Init, R!Init, SenderIsSound, DataIsSound, ReceiverIsSound, ExchangeAssumption
<1> QED
  BY <1>1, <1>2 DEF Init, ExchangeIsSound, AcksAreSound

(***************************************************************************)
(* A step of the sender that gives out no number, acknowledges what was    *)
(* received at most, and forgets nothing but what is received or resent.   *)
(***************************************************************************)
LEMMA SenderKeeps ==
    ASSUME ExchangeAssumption, ExchangeIsSound,
           UNCHANGED <<receiverVars, netVars, delivered, lastSentPacketNumber>>,
           skippedPackets' \subseteq skippedPackets,
           LargestAcked' \in delivered \cup {0},
           sendErr' \notin {"ackForUnsent", "ackForSkipped"},
           stopWaiting' \in 0 .. lastSentPacketNumber + 1,
           resent \subseteq resent',
           owed \subseteq owed' \cup delivered \cup resent'
    PROVE  ExchangeIsSound'
<1>1. SenderIsSound'
  BY DEF ExchangeIsSound, SenderIsSound
<1>2. DataIsSound'
  BY DEF ExchangeIsSound, DataIsSound, netVars
<1>3. ReceiverIsSound'
  BY DEF ExchangeIsSound, ReceiverIsSound, receiverVars
<1>4. AcksAreSound'
  <2>1. UNCHANGED <<ackNet, delivered>>
    BY DEF netVars
  <2> QED
    BY <2>1 DEF ExchangeIsSound, AcksAreSound, S!AckFrames, S!AckFrame, S!PacketNumber, S!Largest
<1> QED
  BY <1>1, <1>2, <1>3, <1>4 DEF ExchangeIsSound

(***************************************************************************)
(* STOP_WAITING frames, alarms and retransmissions.                        *)
(***************************************************************************)
LEMMA QueueStopWaitingKeeps ==
    ASSUME ExchangeAssumption, ExchangeIsSound, StopWaitingFits',
           NEW force \in BOOLEAN, QueueStopWaiting(force)
    PROVE  ExchangeIsSound'
<1>1. /\ UNCHANGED <<lastSentPacketNumber, skippedPackets, LargestAcked, sendErr, owed>>
      /\ UNCHANGED <<receiverVars, netVars, delivered, resent>>
      /\ stopWaiting' \in {stopWaiting, lastStopWaitingFrame'}
  BY DEF QueueStopWaiting, S!GetStopWaitingFrame, S!numberVars, historyVars
<1>2. lastStopWaitingFrame' \in 0 .. lastSentPacketNumber + 1
  BY <1>1 DEF StopWaitingFits
<1> QED
  BY <1>1, <1>2, SenderKeeps DEF ExchangeIsSound, SenderIsSound

LEMMA AlarmKeeps == ASSUME ExchangeAssumption, ExchangeIsSound, Alarm PROVE ExchangeIsSound'
<1>1. UNCHANGED <<lastSentPacketNumber, skippedPackets, LargestAcked, sendErr, owed>>
  BY DEF Alarm, S!OnAlarm, S!OnAlarmNothingToRetransmit, S!OnAlarmLossTime, S!OnAlarmTLP,
         S!OnAlarmRTO, S!AlarmFires, S!numberVars
<1>2. UNCHANGED <<receiverVars, netVars, delivered, resent, stopWaiting>>
  BY DEF Alarm, historyVars
<1> QED
  BY <1>1, <1>2, SenderKeeps DEF ExchangeIsSound, SenderIsSound

LEMMA RetransmitKeeps ==
    ASSUME ExchangeAssumption, ExchangeIsSound, Retransmit PROVE ExchangeIsSound'
<1>1. /\ UNCHANGED <<lastSentPacketNumber, skippedPackets, LargestAcked, sendErr>>
      /\ UNCHANGED <<receiverVars, netVars, delivered, stopWaiting>>
      /\ owed' = owed \ {Head(retransmissionQueue).pn}
      /\ resent' = resent \cup {Head(retransmissionQueue).pn}
  BY DEF Retransmit, S!DequeuePacketForRetransmission, S!numberVars
<1> QED
  BY <1>1, SenderKeeps DEF ExchangeIsSound, SenderIsSound

(***************************************************************************)
(* An ACK: its largest number was received, so it was sent.                *)
(***************************************************************************)
LEMMA DeliverAckKeeps ==
    ASSUME ExchangeAssumption, ExchangeIsSound, NEW m \in ackNet, DeliverAck(m)
    PROVE  ExchangeIsSound'
<1> DEFINE ack == m.frame
<1>1. /\ ack.acked \subseteq delivered
      /\ ack.LargestAcked \in delivered
  BY DEF ExchangeIsSound, AcksAreSound, S!AckFrames, S!Largest
<1>2. S!ReceivedAck(ack, m.pn)
  BY DEF DeliverAck
<1>3. UNCHANGED <<receiverVars, netVars, delivered, resent, stopWaiting>>
  BY DEF DeliverAck, historyVars
<1> HIDE DEF ack
<1>4. ~(ack.LargestAcked > lastSentPacketNumber)
  <2>1. lastSentPacketNumber \in Int
    BY DEF ExchangeAssumption, ExchangeIsSound, SenderIsSound
  <2>2. ack.LargestAcked \in 1 .. lastSentPacketNumber
    BY <1>1, Zenon DEF ExchangeIsSound, ReceiverIsSound
  <2> QED
    BY <2>1, <2>2
<1>5. /\ UNCHANGED lastSentPacketNumber
      /\ skippedPackets' \subseteq skippedPackets
      /\ LargestAcked' \in {LargestAcked, ack.LargestAcked}
      /\ sendErr' \in {"nil", "duplicateAck"}
      /\ owed \subseteq owed' \cup ack.acked
  <2>1. CASE S!DuplicateOrOutOfOrderAck(ack, m.pn)
    BY <2>1 DEF S!DuplicateOrOutOfOrderAck, S!numberVars
  <2>2. CASE S!RepeatedAck(ack, m.pn)
    BY <2>2 DEF S!RepeatedAck
  <2>3. CASE S!NewAck(ack, m.pn)
    BY <2>3 DEF S!NewAck, S!garbageCollectSkippedPackets
  <2> QED
    BY <1>2, <1>4, <2>1, <2>2, <2>3, Zenon
    DEF S!ReceivedAck, S!AckForUnsentPacket, S!AckForSkippedPacket, ExchangeIsSound, SenderIsSound
<1> QED
  BY <1>1, <1>3, <1>5, SenderKeeps DEF ExchangeIsSound, SenderIsSound

(***************************************************************************)
(* A new packet: the next number, so that none is skipped.                 *)
(***************************************************************************)
LEMMA SendKeeps ==
    ASSUME ExchangeAssumption, ExchangeIsSound, NEW payload \in Payloads, Send(payload)
    PROVE  ExchangeIsSound'
<1> DEFINE pn == lastSentPacketNumber + 1
           retransmittable == S!stripNonRetransmittableFrames(payload.frames) # {}
           packet == [pn |-> pn, shouldInstigateAck |-> retransmittable,
                      leastUnacked |-> stopWaiting]
<1>1. /\ lastSentPacketNumber \in Nat /\ MaxPacketNumber \in Nat
      /\ lastSentPacketNumber < MaxPacketNumber
      /\ stopWaiting \in 0 .. pn
  BY DEF Send, ExchangeIsSound, SenderIsSound, ExchangeAssumption
<1>2. S!RecordSentPacket(pn, payload)
  BY DEF Send, S!SentPacket
<1>3. /\ lastSentPacketNumber' = pn
      /\ skippedPackets' = S!TrackSkipped(pn)
      /\ owed' = IF retransmittable THEN owed \cup {pn} ELSE owed
      /\ sendErr' = "nil"
      /\ LargestAcked' = LargestAcked
  BY <1>2 DEF S!RecordSentPacket
<1>4. skippedPackets' = {}
  <2>1. lastSentPacketNumber + 1 .. pn - 1 = {}
    BY <1>1
  <2> QED
    BY <1>3, <2>1 DEF S!TrackSkipped, ExchangeIsSound, SenderIsSound
<1>5. /\ dataNet' = dataNet \cup {packet}
      /\ stopWaiting' = 0
      /\ UNCHANGED <<receiverVars, ackNet, delivered, resent>>
  BY ZenonT(60) DEF Send, historyVars
<1>6. packet.pn = pn /\ packet.shouldInstigateAck = retransmittable /\ packet.leastUnacked = stopWaiting
  OBVIOUS
<1>7. retransmittable \in BOOLEAN
  OBVIOUS
<1> HIDE DEF packet, retransmittable
<1>8. SenderIsSound'
  BY <1>1, <1>3, <1>4, <1>5 DEF ExchangeIsSound, SenderIsSound
<1>9. DataIsSound'
  <2> SUFFICES ASSUME NEW m \in dataNet'
               PROVE  /\ m.pn \in 1 .. pn
                      /\ m.shouldInstigateAck \in BOOLEAN
                      /\ m.leastUnacked \in 0 .. MaxPacketNumber
                      /\ m.shouldInstigateAck => m.pn \in delivered \cup resent \cup owed'
    BY <1>3, <1>5 DEF DataIsSound
  <2>1. CASE m \in dataNet
    BY <1>1, <1>3, <2>1 DEF ExchangeIsSound, DataIsSound
  <2>2. CASE m = packet
    BY <1>1, <1>3, <1>6, <1>7, <2>2
  <2> QED
    BY <1>5, <2>1, <2>2
<1>10. ReceiverIsSound'
  BY <1>1, <1>3, <1>5 DEF ExchangeIsSound, ReceiverIsSound, receiverVars
<1>11. AcksAreSound'
  BY <1>5 DEF ExchangeIsSound, AcksAreSound, S!AckFrames, S!AckFrame, S!PacketNumber, S!Largest
<1> QED
  BY <1>8, <1>9, <1>10, <1>11 DEF ExchangeIsSound

(***************************************************************************)
(* A packet arrives, for the first time or again.                          *)
(***************************************************************************)
LEMMA DeliverDataKeeps ==
    ASSUME ExchangeAssumption, ExchangeIsSound, NEW m \in dataNet, DeliverData(m)
    PROVE  ExchangeIsSound'
<1>1. m.pn \in 1 .. lastSentPacketNumber
  BY DEF ExchangeIsSound, DataIsSound
<1>2. /\ receivedHistory' \subseteq receivedHistory \cup {m.pn}
      /\ largestObserved' \in {largestObserved, m.pn}
  BY DEF DeliverData, R!ReceivedPacket, R!ReceivedBelowLimit, R!ReceivedTooManyRanges,
         R!ReceivedNew, R!SetLowerLimit, R!UpdateLargestObserved
<1>3. /\ delivered' = delivered \cup {m.pn}
      /\ UNCHANGED <<senderVars, stopWaiting, netVars, resent>>
  BY DEF DeliverData
<1>4. SenderIsSound' /\ DataIsSound'
  BY <1>3 DEF ExchangeIsSound, SenderIsSound, DataIsSound, senderVars, netVars
<1>5. ReceiverIsSound'
  BY <1>1, <1>2, <1>3, ZenonT(60) DEF ExchangeIsSound, ReceiverIsSound, senderVars
<1>6. AcksAreSound'
  BY <1>3, ZenonT(60) DEF ExchangeIsSound, AcksAreSound, S!AckFrames, S!AckFrame, S!PacketNumber,
              S!Largest, netVars
<1> QED
  BY <1>4, <1>5, <1>6 DEF ExchangeIsSound

(***************************************************************************)
(* An ACK is made: it is of what was received, and its largest number is   *)
(* the largest of them.                                                    *)
(***************************************************************************)
LEMMA SendAckKeeps == 
    ASSUME ExchangeAssumption, ExchangeIsSound, AckIsBacked, SendAck
    PROVE  ExchangeIsSound'
<1> DEFINE frame == [LargestAcked |-> largestObserved, acked |-> receivedHistory]
           packet == [pn |-> Cardinality(ackNet) + 1, frame |-> frame]
<1>1. /\ ackNet' = ackNet \cup {packet}
      /\ UNCHANGED <<senderVars, stopWaiting, dataNet, delivered, resent>>
      /\ UNCHANGED <<largestObserved, receivedHistory>>
      /\ recvErr = "nil"
      /\ ackQueued \/ ackAlarm
  BY DEF SendAck, R!GetAckFrame, historyVars
<1>2. /\ largestObserved \in receivedHistory
      /\ receivedHistory \subseteq 1 .. MaxPacketNumber
      /\ \A n \in receivedHistory : n <= largestObserved
  BY <1>1 DEF AckIsBacked
<1>3. frame \in S!AckFrames /\ frame.acked \subseteq delivered
  BY <1>2 DEF S!AckFrames, S!AckFrame, S!PacketNumber, S!Largest, ExchangeIsSound, ReceiverIsSound
<1> HIDE DEF frame
<1>4. packet.pn \in 1 .. MaxAckPackets /\ packet.frame = frame
  <2>1. Cardinality(ackNet) \in Nat
    BY FS_CardinalityType DEF ExchangeIsSound, AcksAreSound
  <2> QED
    BY <2>1 DEF SendAck, ExchangeAssumption
<1> HIDE DEF packet
<1>5. IsFiniteSet(ackNet')
  BY <1>1, FS_AddElement DEF ExchangeIsSound, AcksAreSound
<1>6. AcksAreSound'
  BY <1>1, <1>3, <1>4, <1>5 DEF ExchangeIsSound, AcksAreSound, S!AckFrames, S!AckFrame,
                                S!PacketNumber, S!Largest
<1>7. SenderIsSound' /\ DataIsSound' /\ ReceiverIsSound'
  BY <1>1 DEF ExchangeIsSound, SenderIsSound, DataIsSound, ReceiverIsSound, senderVars
<1> QED
  BY <1>6, <1>7 DEF ExchangeIsSound

(***************************************************************************)
(* Every step keeps the exchange sound.                                    *)
(***************************************************************************)
LEMMA NextSound ==
    ASSUME ExchangeAssumption, ExchangeIsSound, AckIsBacked, StopWaitingFits', [Next]_vars
    PROVE  ExchangeIsSound'
<1>1. CASE UNCHANGED vars
  <2>1. SenderIsSound' /\ DataIsSound' /\ ReceiverIsSound'
    BY <1>1 DEF ExchangeIsSound, SenderIsSound, DataIsSound, ReceiverIsSound, vars, senderVars,
                receiverVars, netVars, historyVars
  <2>2. AcksAreSound'
    BY <1>1 DEF ExchangeIsSound, AcksAreSound, S!AckFrames, S!AckFrame, S!PacketNumber, S!Largest,
                vars, netVars, historyVars
  <2> QED
    BY <2>1, <2>2 DEF ExchangeIsSound
<1> QED
  BY <1>1, QueueStopWaitingKeeps, SendKeeps, DeliverDataKeeps, SendAckKeeps, DeliverAckKeeps,
     AlarmKeeps, RetransmitKeeps DEF Next

-----------------------------------------------------------------------------
(***************************************************************************)
(* The invariants of the two handlers are those of their own proofs: every *)
(* step of the exchange is a step of the sender, of the receiver or of     *)
(* neither.                                                                *)
(***************************************************************************)
SP == INSTANCE SentPacketHandlerProofs WITH
        MaxPeerPacketNumber <- MaxAckPackets, MaxTrackedSkippedPackets <- 1,
        packetHistory <- sentHistory, err <- sendErr

(***************************************************************************)
(* The prover does not know that the operators of SP, with which the       *)
(* sender's lemmas are stated, are those of S.                             *)
(***************************************************************************)
LEMMA SameSenderOperators ==
    /\ \A T : S!Cardinality(T) = SP!Cardinality(T)
    /\ \A T : S!Min(T) = SP!Min(T)
    /\ \A T : S!Numbers(T) = SP!Numbers(T)
    /\ \A T : S!QueueSet(T) = SP!QueueSet(T)
    /\ \A T : S!Largest(T) = SP!Largest(T)
    /\ \A T : S!InOrder(T) = SP!InOrder(T)
    /\ \A T : S!TotalLength(T) = SP!TotalLength(T)
    /\ \A T : S!stripNonRetransmittableFrames(T) = SP!stripNonRetransmittableFrames(T)
    /\ \A pn : S!TrackSkipped(pn) = SP!TrackSkipped(pn)
    /\ \A H, loss, rtt, tlp : S!updateLossDetectionAlarm(H, loss, rtt, tlp) =
                                  SP!updateLossDetectionAlarm(H, loss, rtt, tlp)
    /\ \A H, la : S!largestInOrderAcked(H, la) = SP!largestInOrderAcked(H, la)
    /\ \A H, la : S!LossCandidates(H, la) = SP!LossCandidates(H, la)
    /\ \A H, la : S!PossiblyLost(H, la) = SP!PossiblyLost(H, la)
    /\ \A T, n : S!garbageCollectSkippedPackets(T, n) = SP!garbageCollectSkippedPackets(T, n)
    /\ \A ack : S!NewlyAcked(ack) = SP!NewlyAcked(ack)
    /\ \A p : S!IsRetransmittable(p) = SP!IsRetransmittable(p)
    /\ \A H : S!OldestTwo(H) = SP!OldestTwo(H)
    /\ S!numberVars = SP!numberVars
    /\ S!historyVars = SP!historyVars
    /\ S!alarmVars = SP!alarmVars
    /\ S!stopWaitingVars = SP!stopWaitingVars
    /\ S!vars = SP!vars
    /\ S!Running = SP!Running
    /\ S!Tracked = SP!Tracked
<1>1. \A T : S!Cardinality(T) = SP!Cardinality(T)
  BY DEF S!Cardinality, SP!Cardinality
<1>2. \A T : S!Min(T) = SP!Min(T)
  BY DEF S!Min, SP!Min
<1>3. \A T : S!Numbers(T) = SP!Numbers(T)
  BY DEF S!Numbers, SP!Numbers
<1>4. \A T : S!QueueSet(T) = SP!QueueSet(T)
  BY DEF S!QueueSet, SP!QueueSet
<1>5. \A T : S!Largest(T) = SP!Largest(T)
  BY DEF S!Largest, SP!Largest
<1>6. \A T : S!InOrder(T) = SP!InOrder(T)
  BY <1>1 DEF S!InOrder, SP!InOrder
<1>7. \A T : S!TotalLength(T) = SP!TotalLength(T)
  BY <1>1 DEF S!TotalLength, SP!TotalLength, S!Bytes, SP!Bytes
<1>8. \A T : S!stripNonRetransmittableFrames(T) = SP!stripNonRetransmittableFrames(T)
  BY DEF S!stripNonRetransmittableFrames, SP!stripNonRetransmittableFrames,
         S!IsFrameRetransmittable, SP!IsFrameRetransmittable
<1>9. \A pn : S!TrackSkipped(pn) = SP!TrackSkipped(pn)
  BY <1>1 DEF S!TrackSkipped, SP!TrackSkipped
<1>10. \A H, loss, rtt, tlp : S!updateLossDetectionAlarm(H, loss, rtt, tlp) =
                               SP!updateLossDetectionAlarm(H, loss, rtt, tlp)
  BY DEF S!updateLossDetectionAlarm, SP!updateLossDetectionAlarm
<1>11. \A H, la : S!largestInOrderAcked(H, la) = SP!largestInOrderAcked(H, la)
  BY <1>2, <1>3 DEF S!largestInOrderAcked, SP!largestInOrderAcked
<1>12. \A H, la : S!LossCandidates(H, la) = SP!LossCandidates(H, la)
  BY DEF S!LossCandidates, SP!LossCandidates
<1>13. \A H, la : S!PossiblyLost(H, la) = SP!PossiblyLost(H, la)
  BY <1>12 DEF S!PossiblyLost, SP!PossiblyLost
<1>14. \A T, n : S!garbageCollectSkippedPackets(T, n) = SP!garbageCollectSkippedPackets(T, n)
  BY DEF S!garbageCollectSkippedPackets, SP!garbageCollectSkippedPackets
<1>15. \A ack : S!NewlyAcked(ack) = SP!NewlyAcked(ack)
  BY DEF S!NewlyAcked, SP!NewlyAcked
<1>16. \A p : S!IsRetransmittable(p) = SP!IsRetransmittable(p)
  BY DEF S!IsRetransmittable, SP!IsRetransmittable
<1>17. \A H : S!OldestTwo(H) = SP!OldestTwo(H)
  BY <1>1 DEF S!OldestTwo, SP!OldestTwo
<1>18. /\ S!numberVars = SP!numberVars
      /\ S!historyVars = SP!historyVars
      /\ S!alarmVars = SP!alarmVars
      /\ S!stopWaitingVars = SP!stopWaitingVars
      /\ S!vars = SP!vars
      /\ S!Running = SP!Running
      /\ S!Tracked = SP!Tracked
  BY <1>1
  DEF S!numberVars, SP!numberVars, S!historyVars, SP!historyVars, S!alarmVars, SP!alarmVars,
      S!stopWaitingVars, SP!stopWaitingVars, S!vars, SP!vars, S!Running, SP!Running, S!Tracked,
      SP!Tracked
<1> QED
  BY <1>1, <1>2, <1>3, <1>4, <1>5, <1>6, <1>7, <1>8, <1>9, <1>10, <1>11,
     <1>12, <1>13, <1>14, <1>15, <1>16, <1>17, <1>18

(***************************************************************************)
(* Nor that the calls are the same.                                        *)
(***************************************************************************)
LEMMA SameSenderCalls ==
    /\ \A pn, payload : S!SentPacket(pn, payload) => SP!SentPacket(pn, payload)
    /\ \A ack, with : S!ReceivedAck(ack, with) => SP!ReceivedAck(ack, with)
    /\ S!OnAlarm => SP!OnAlarm
    /\ S!DequeuePacketForRetransmission => SP!DequeuePacketForRetransmission
    /\ \A force : S!GetStopWaitingFrame(force) => SP!GetStopWaitingFrame(force)
<1> USE SameSenderOperators
<1> USE DEF S!numberVars, S!historyVars, S!alarmVars, S!stopWaitingVars,
            SP!numberVars, SP!historyVars, SP!alarmVars, SP!stopWaitingVars
<1>1. ASSUME NEW pn, NEW payload, S!SentPacket(pn, payload) PROVE SP!SentPacket(pn, payload)
  BY <1>1, ZenonT(30) DEF S!SentPacket, SP!SentPacket, S!RecordSentPacket, SP!RecordSentPacket
<1>2. ASSUME NEW A, NEW L, S!RemoveAckedAndQueueLost(A, L) PROVE SP!RemoveAckedAndQueueLost(A, L)
  BY <1>2 DEF S!RemoveAckedAndQueueLost, SP!RemoveAckedAndQueueLost
<1>3. ASSUME NEW N, S!RaiseNextLeastUnacked(N) PROVE SP!RaiseNextLeastUnacked(N)
  BY <1>3 DEF S!RaiseNextLeastUnacked, SP!RaiseNextLeastUnacked
<1>4. ASSUME NEW ack, NEW with, S!ReceivedAck(ack, with) PROVE SP!ReceivedAck(ack, with)
  <2>1. S!AckForUnsentPacket(ack) => SP!AckForUnsentPacket(ack)
    BY DEF S!AckForUnsentPacket, SP!AckForUnsentPacket
  <2>2. S!DuplicateOrOutOfOrderAck(ack, with) => SP!DuplicateOrOutOfOrderAck(ack, with)
    BY DEF S!DuplicateOrOutOfOrderAck, SP!DuplicateOrOutOfOrderAck
  <2>3. S!AckInOrder(ack, with) => SP!AckInOrder(ack, with)
    BY DEF S!AckInOrder, SP!AckInOrder
  <2>4. S!RepeatedAck(ack, with) => SP!RepeatedAck(ack, with)
    BY <2>3, ZenonT(30) DEF S!RepeatedAck, SP!RepeatedAck
  <2>5. S!AckForSkippedPacket(ack, with) => SP!AckForSkippedPacket(ack, with)
    BY <2>3, ZenonT(30) DEF S!AckForSkippedPacket, SP!AckForSkippedPacket
  <2>6. S!NewAck(ack, with) => SP!NewAck(ack, with)
    BY <1>2, <1>3, <2>3, ZenonT(60) DEF S!NewAck, SP!NewAck
  <2> QED
    BY <1>4, <2>1, <2>2, <2>4, <2>5, <2>6 DEF S!ReceivedAck, SP!ReceivedAck
<1>5. ASSUME S!OnAlarm PROVE SP!OnAlarm
  <2>1. S!OnAlarmNothingToRetransmit => SP!OnAlarmNothingToRetransmit
    BY Zenon DEF S!OnAlarmNothingToRetransmit, SP!OnAlarmNothingToRetransmit
  <2>2. S!AlarmFires => SP!AlarmFires
    BY DEF S!AlarmFires, SP!AlarmFires
  <2>3. \A L : S!queuePacketsForRetransmission(L) => SP!queuePacketsForRetransmission(L)
    BY <1>2 DEF S!queuePacketsForRetransmission, SP!queuePacketsForRetransmission
  <2>4. S!OnAlarmLossTime => SP!OnAlarmLossTime
    BY <1>3, <2>2, <2>3 DEF S!OnAlarmLossTime, SP!OnAlarmLossTime
  <2>5. S!OnAlarmTLP => SP!OnAlarmTLP
    BY <1>3, <2>2, <2>3, ZenonT(60) DEF S!OnAlarmTLP, SP!OnAlarmTLP, S!IsNewest, SP!IsNewest
  <2>6. \A failed : S!OnAlarmRTO(failed) => SP!OnAlarmRTO(failed)
    BY <1>3, <2>2, <2>3 DEF S!OnAlarmRTO, SP!OnAlarmRTO
  <2> QED
    BY <1>5, <2>1, <2>4, <2>5, <2>6 DEF S!OnAlarm, SP!OnAlarm
<1>6. S!DequeuePacketForRetransmission => SP!DequeuePacketForRetransmission
  BY Zenon DEF S!DequeuePacketForRetransmission, SP!DequeuePacketForRetransmission
<1>7. \A force : S!GetStopWaitingFrame(force) => SP!GetStopWaitingFrame(force)
  BY ZenonT(30) DEF S!GetStopWaitingFrame, SP!GetStopWaitingFrame
<1> QED
  BY <1>1, <1>4, <1>5, <1>6, <1>7

(***************************************************************************)
(* The sender begins as a new handler, and every step of the exchange      *)
(* preserves its invariant.                                                *)
(***************************************************************************)
LEMMA SenderInit == ASSUME ExchangeAssumption, Init PROVE SP!IndInv
<1>1. SP!Init
  BY DEF Init, S!Init, SP!Init
<1> QED
  BY <1>1, SP!InitIndInv DEF ExchangeAssumption, S!FrameTypes, SP!FrameTypes

LEMMA SenderStep ==
    ASSUME ExchangeAssumption, ExchangeIsSound, SP!IndInv, [Next]_vars
    PROVE  SP!IndInv'
<1>1. SP!Next \/ UNCHANGED senderVars
  <2>1. ASSUME NEW payload \in Payloads, Send(payload) PROVE SP!Next
    <3> DEFINE pn == lastSentPacketNumber + 1
    <3>1. pn \in SP!PacketNumber /\ pn <= lastSentPacketNumber + 2
      BY <2>1 DEF SP!PacketNumber, Send, ExchangeIsSound, SenderIsSound, ExchangeAssumption
    <3>2. SP!SentPacket(pn, payload)
      BY <2>1, SameSenderCalls DEF Send
    <3> HIDE DEF pn
    <3> QED
      BY <3>1, <3>2 DEF SP!Next, SP!Send
  <2>2. ASSUME NEW m \in ackNet, DeliverAck(m) PROVE SP!Next
    <3>1. m.frame \in S!AckFrames /\ m.pn \in 1 .. MaxAckPackets
      BY DEF ExchangeIsSound, AcksAreSound
    <3>2. m.frame \in SP!AckFrames /\ m.pn \in SP!PeerPacketNumber
      BY <3>1 DEF S!AckFrames, SP!AckFrames, S!AckFrame, SP!AckFrame, S!PacketNumber,
                  SP!PacketNumber, S!Largest, SP!Largest, SP!PeerPacketNumber
    <3> QED
      BY <2>2, <3>2, SameSenderCalls DEF DeliverAck, SP!Next, SP!HandleAck
  <2>3. ASSUME NEW force \in BOOLEAN, QueueStopWaiting(force) PROVE SP!Next
    BY <2>3, SameSenderCalls DEF QueueStopWaiting, SP!Next
  <2>4. CASE Alarm
    BY <2>4, SameSenderCalls DEF Alarm, SP!Next
  <2>5. CASE Retransmit
    BY <2>5, SameSenderCalls DEF Retransmit, SP!Next
  <2> QED
    BY <2>1, <2>2, <2>3, <2>4, <2>5 DEF Next, DeliverData, SendAck, vars
<1>2. UNCHANGED senderVars => UNCHANGED SP!vars
  BY DEF senderVars, SP!vars, SP!numberVars, SP!historyVars, SP!alarmVars, SP!stopWaitingVars
<1> QED
  BY <1>1, <1>2, SP!NextIndInv DEF ExchangeAssumption, S!FrameTypes, SP!FrameTypes

(***************************************************************************)
(* A STOP_WAITING frame can be written, and what the sender owes it tracks.*)
(***************************************************************************)
LEMMA SenderGives ==
    ASSUME SP!IndInv
    PROVE  /\ StopWaitingFits
           /\ owed \subseteq S!Numbers(sentHistory) \cup S!Numbers(S!QueueSet(retransmissionQueue))
<1>1. StopWaitingFits
  BY DEF SP!IndInv, SP!TrackingTypes, SP!StopWaitingIsWritable, StopWaitingFits
<1>2. owed \subseteq SP!Numbers(sentHistory) \cup SP!Numbers(SP!QueueSet(retransmissionQueue))
  BY DEF SP!IndInv, SP!NothingForgotten
<1> QED
  BY <1>1, <1>2, SameSenderOperators

(***************************************************************************)
(* The same for the receiver.                                              *)
(***************************************************************************)
RP == INSTANCE ReceivedPacketHandlerProofs WITH
        MaxPacketsReceivedBeforeAckSend <- 1, BeforeVersion39 <- FALSE,
        packetHistory <- receivedHistory, err <- recvErr

(***************************************************************************)
(* The prover does not know that the operators of RP, with which the       *)
(* lemmas of the receiver are stated, are those of R.                      *)
(***************************************************************************)
LEMMA SameReceiverCalls ==
    /\ R!vars = RP!vars
    /\ \A pn, instigate, least :
          R!ReceivedPacket(pn, instigate, least) => RP!ReceivedPacket(pn, instigate, least)
    /\ R!GetAckFrame => RP!GetAckFrame
<1> USE DEF R!ackVars, RP!ackVars
<1>1. R!vars = RP!vars
  BY DEF R!vars, RP!vars
<1>2. \A T : R!Cardinality(T) = RP!Cardinality(T)
  BY DEF R!Cardinality, RP!Cardinality
<1>3. \A T : R!RangeStarts(T) = RP!RangeStarts(T)
  BY DEF R!RangeStarts, RP!RangeStarts
<1>4. \A T, n : R!HighestRangeAbove(T, n) <=> RP!HighestRangeAbove(T, n)
  BY <1>3 DEF R!HighestRangeAbove, RP!HighestRangeAbove
<1>5. \A pn, instigate, H : R!maybeQueueAck(pn, instigate, H) => RP!maybeQueueAck(pn, instigate, H)
  BY <1>4 DEF R!maybeQueueAck, RP!maybeQueueAck
<1>6. \A pn : R!UpdateLargestObserved(pn) => RP!UpdateLargestObserved(pn)
  BY DEF R!UpdateLargestObserved, RP!UpdateLargestObserved
<1>7. \A least, H : R!SetLowerLimit(least, H) => RP!SetLowerLimit(least, H)
  BY DEF R!SetLowerLimit, RP!SetLowerLimit
<1>8. ASSUME NEW pn, NEW instigate, NEW least, R!ReceivedPacket(pn, instigate, least)
      PROVE  RP!ReceivedPacket(pn, instigate, least)
  <2>1. R!ReceivedBelowLimit(pn, least) => RP!ReceivedBelowLimit(pn, least)
    BY <1>6, <1>7 DEF R!ReceivedBelowLimit, RP!ReceivedBelowLimit
  <2>2. R!ReceivedTooManyRanges(pn) => RP!ReceivedTooManyRanges(pn)
    BY <1>2, <1>3, <1>6 DEF R!ReceivedTooManyRanges, RP!ReceivedTooManyRanges
  <2>3. R!ReceivedNew(pn, instigate, least) => RP!ReceivedNew(pn, instigate, least)
    BY <1>2, <1>3, <1>5, <1>6, <1>7, ZenonT(30) DEF R!ReceivedNew, RP!ReceivedNew
  <2> QED
    BY <1>8, <2>1, <2>2, <2>3 DEF R!ReceivedPacket, RP!ReceivedPacket
<1>9. R!GetAckFrame => RP!GetAckFrame
  BY DEF R!GetAckFrame, RP!GetAckFrame
<1> QED
  BY <1>1, <1>8, <1>9

(***************************************************************************)
(* The receiver begins as a new handler, and every step of the exchange    *)
(* preserves its invariant.                                                *)
(***************************************************************************)
LEMMA ReceiverInit == ASSUME ExchangeAssumption, Init PROVE RP!IndInv
<1>1. RP!Init
  BY DEF Init, R!Init, RP!Init
<1> QED
  BY <1>1, RP!InitIndInv DEF ExchangeAssumption

LEMMA ReceiverStep ==
    ASSUME ExchangeAssumption, ExchangeIsSound, RP!IndInv, [Next]_vars
    PROVE  RP!IndInv'
<1>1. RP!Next \/ UNCHANGED receiverVars
  <2>1. ASSUME NEW m \in dataNet, DeliverData(m) PROVE RP!Next
    <3>1. RP!ReceivedPacket(m.pn, m.shouldInstigateAck, m.leastUnacked)
      BY <2>1, SameReceiverCalls DEF DeliverData
    <3>2. /\ m.pn \in RP!PacketNumber
          /\ m.shouldInstigateAck \in BOOLEAN
          /\ m.leastUnacked \in 0 .. MaxPacketNumber
      BY DEF ExchangeIsSound, DataIsSound, SenderIsSound, ExchangeAssumption, RP!PacketNumber
    <3> QED
      BY <3>1, <3>2 DEF RP!Next, RP!Receive
  <2>2. CASE SendAck
    BY <2>2, SameReceiverCalls DEF SendAck, RP!Next
  <2> QED
    BY <2>1, <2>2 DEF Next, QueueStopWaiting, Send, DeliverAck, Alarm, Retransmit, vars
<1>2. UNCHANGED receiverVars => UNCHANGED RP!vars
  BY DEF receiverVars, RP!vars, RP!ackVars
<1> QED
  BY <1>1, <1>2, RP!NextIndInv DEF ExchangeAssumption

(***************************************************************************)
(* A receiver that has an ACK to send has the packets for it.              *)
(***************************************************************************)
LEMMA ReceiverGives == ASSUME RP!IndInv PROVE AckIsBacked /\ recvErr # "panic"
  BY DEF RP!IndInv, RP!TypeOK, RP!NothingToAckAtFirst, RP!AckFrameIsWritable, RP!PacketNumber,
         AckIsBacked

-----------------------------------------------------------------------------
(***************************************************************************)
(* What holds of every exchange, for every behaviour of the network: the   *)
(* invariants of both handlers, and what ties them together.               *)
(***************************************************************************)
ExchangeInv == ExchangeIsSound /\ SP!IndInv /\ RP!IndInv

(***************************************************************************)
(* Every step of an exchange is a call of the sender's handler, a call of  *)
(* the receiver's or neither, so that the invariants of both survive it.   *)
(***************************************************************************)
THEOREM ExchangeTheorem == ASSUME ExchangeAssumption PROVE Spec => []ExchangeInv
<1>1. Init => ExchangeInv
  BY InitSound, SenderInit, ReceiverInit DEF ExchangeInv
<1>2. ExchangeInv /\ [Next]_vars => ExchangeInv'
  <2> SUFFICES ASSUME ExchangeInv, [Next]_vars PROVE ExchangeInv'
    OBVIOUS
  <2>1. SP!IndInv' /\ RP!IndInv'
    BY SenderStep, ReceiverStep DEF ExchangeInv
  <2>2. AckIsBacked
    BY ReceiverGives DEF ExchangeInv
  <2>3. StopWaitingFits'
    <3>1. SP!TrackingTypes' /\ SP!StopWaitingIsWritable'
      BY <2>1 DEF SP!IndInv
    <3>2. lastSentPacketNumber' \in Nat /\ lastStopWaitingFrame' \in Nat
      BY <3>1 DEF SP!TrackingTypes
    <3>3. lastStopWaitingFrame' <= lastSentPacketNumber' + 1
      BY <3>1 DEF SP!StopWaitingIsWritable
    <3>4. lastStopWaitingFrame' \in 0 .. lastSentPacketNumber' + 1
      <4>1. \A a, b \in Nat : a <= b + 1 => a \in 0 .. b + 1
        OBVIOUS
      <4> QED
        BY <3>2, <3>3, <4>1, Zenon
    <3> QED
      BY <3>4, Zenon DEF StopWaitingFits
  <2> QED
    BY <2>1, <2>2, <2>3, NextSound DEF ExchangeInv
<1> QED
  BY <1>1, <1>2, PTL DEF Spec

(***************************************************************************)
(* Whatever the network loses, repeats or reorders, and however many       *)
(* packets and ACKs there are, ReceivedAck takes no ACK of an honest peer  *)
(* for one of an unsent or skipped packet, and GetAckFrame does not panic. *)
(***************************************************************************)
THEOREM NoFalseErrorTheorem == ASSUME ExchangeAssumption PROVE Spec => []NoFalseError
<1>1. ExchangeInv => NoFalseError
  BY ReceiverGives DEF ExchangeInv, ExchangeIsSound, SenderIsSound, NoFalseError
<1> QED
  BY <1>1, ExchangeTheorem, PTL

(***************************************************************************)
(* Reliability across both ends: SentPacket and ReceivedAck of the sender  *)
(* and GetAckFrame of the receiver lose no retransmittable packet between  *)
(* them, and only received packets are ever acknowledged.                  *)
(***************************************************************************)
THEOREM UndeliveredIsTrackedTheorem ==
    ASSUME ExchangeAssumption PROVE Spec => []UndeliveredIsTracked
<1>1. ExchangeInv => UndeliveredIsTracked
  BY SenderGives, Zenon
  DEF ExchangeInv, ExchangeIsSound, DataIsSound, SenderIsSound, AcksAreSound, UndeliveredIsTracked
<1> QED
  BY <1>1, ExchangeTheorem, PTL
=============================================================================
