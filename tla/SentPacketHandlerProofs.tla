---------------------- MODULE SentPacketHandlerProofs ----------------------
(***************************************************************************)
(* The safety of SentPacketHandler for every bound, every set of payloads  *)
(* and every number of probes.                                             *)
(***************************************************************************)
EXTENDS SentPacketHandler, FiniteSetTheorems, TLAPS

(***************************************************************************)
(* The part of TypeOK the argument needs, with a finite history.           *)
(***************************************************************************)
TrackingTypes ==
    /\ lastSentPacketNumber \in Nat
    /\ skippedPackets \subseteq Nat
    /\ LargestAcked \in Nat
    /\ packetHistory \subseteq Packet
    /\ IsFiniteSet(packetHistory)
    /\ retransmissionQueue \in Seq(Packet)
    /\ nextLeastUnacked \in Nat
    /\ lastStopWaitingFrame \in Nat
    /\ owed \subseteq Nat

(***************************************************************************)
(* Every number the handler knows of was given out by the generator.       *)
(***************************************************************************)
KnownWasSent ==
    /\ \A p \in packetHistory \cup QueueSet(retransmissionQueue) :
          p.pn <= lastSentPacketNumber
    /\ \A n \in skippedPackets : n <= lastSentPacketNumber

IndInv ==
    /\ TrackingTypes
    /\ KnownWasSent
    /\ NothingForgotten
    /\ AlarmCoversOutstanding
    /\ StopWaitingIsWritable
    /\ SkippedNeverTracked

(***************************************************************************)
(* The packets of a queue after DuplicatePacket appended one.              *)
(***************************************************************************)
LEMMA QueueAppend ==
    ASSUME NEW q \in Seq(Packet), NEW p \in Packet
    PROVE  /\ Append(q, p) \in Seq(Packet)
           /\ QueueSet(Append(q, p)) = QueueSet(q) \cup {p}
<1>1. /\ Append(q, p) \in Seq(Packet)
      /\ Len(q) \in Nat
      /\ DOMAIN q = 1 .. Len(q)
      /\ DOMAIN Append(q, p) = 1 .. Len(q) + 1
      /\ Append(q, p)[Len(q) + 1] = p
      /\ \A i \in 1 .. Len(q) : Append(q, p)[i] = q[i]
  OBVIOUS
<1>2. QueueSet(Append(q, p)) \subseteq QueueSet(q) \cup {p}
  BY <1>1 DEF QueueSet
<1>3. p \in QueueSet(Append(q, p))
  BY <1>1 DEF QueueSet
<1>4. QueueSet(q) \subseteq QueueSet(Append(q, p))
  BY <1>1 DEF QueueSet
<1> QED
  BY <1>1, <1>2, <1>3, <1>4

(***************************************************************************)
(* The same for the concatenation by which lost packets are queued.        *)
(***************************************************************************)
LEMMA QueueConcat ==
    ASSUME NEW q \in Seq(Packet), NEW s \in Seq(Packet)
    PROVE  /\ q \o s \in Seq(Packet)
           /\ QueueSet(q \o s) = QueueSet(q) \cup QueueSet(s)
<1>1. /\ q \o s \in Seq(Packet) /\ Len(q \o s) = Len(q) + Len(s)
      /\ DOMAIN q = 1 .. Len(q) /\ DOMAIN s = 1 .. Len(s)
  OBVIOUS
<1>2. \A i \in 1 .. Len(q) : i \in DOMAIN (q \o s) /\ (q \o s)[i] = q[i]
  OBVIOUS
<1>3. \A i \in 1 .. Len(s) :
        Len(q) + i \in DOMAIN (q \o s) /\ (q \o s)[Len(q) + i] = s[i]
  OBVIOUS
<1>4. \A i \in DOMAIN (q \o s) : (q \o s)[i] \in QueueSet(q) \cup QueueSet(s)
  <2> SUFFICES ASSUME NEW i \in DOMAIN (q \o s)
               PROVE  (q \o s)[i] \in QueueSet(q) \cup QueueSet(s)
    OBVIOUS
  <2>1. CASE i <= Len(q)
    BY <1>2, <2>1 DEF QueueSet
  <2>2. CASE i > Len(q)
    <3>1. i - Len(q) \in 1 .. Len(s) /\ (q \o s)[i] = s[i - Len(q)]
      BY <1>1, <2>2
    <3> QED
      BY <3>1 DEF QueueSet
  <2> QED
    BY <2>1, <2>2, <1>1
<1>5. QueueSet(q) \subseteq QueueSet(q \o s)
  BY <1>1, <1>2 DEF QueueSet
<1>6. QueueSet(s) \subseteq QueueSet(q \o s)
  BY <1>1, <1>3, Zenon DEF QueueSet
<1>7. QueueSet(q \o s) \subseteq QueueSet(q) \cup QueueSet(s)
  BY <1>4 DEF QueueSet
<1> QED
  BY <1>1, <1>5, <1>6, <1>7

(***************************************************************************)
(* DequeuePacketForRetransmission loses no packet but the one it returns.  *)
(***************************************************************************)
LEMMA QueueTail ==
    ASSUME NEW q \in Seq(Packet), q # << >>
    PROVE  /\ Tail(q) \in Seq(Packet)
           /\ Head(q) \in QueueSet(q)
           /\ QueueSet(q) \subseteq QueueSet(Tail(q)) \cup {Head(q)}
           /\ QueueSet(Tail(q)) \subseteq QueueSet(q)
<1>1. /\ Len(q) \in Nat \ {0}
      /\ Head(q) = q[1]
      /\ Tail(q) \in Seq(Packet)
      /\ DOMAIN Tail(q) = 1 .. Len(q) - 1
      /\ \A i \in 1 .. Len(q) - 1 : Tail(q)[i] = q[i + 1]
  OBVIOUS
<1>2. Head(q) \in QueueSet(q)
  BY <1>1 DEF QueueSet
<1>3. ASSUME NEW i \in 1 .. Len(q) PROVE q[i] \in QueueSet(Tail(q)) \cup {Head(q)}
  <2>1. CASE i = 1
    BY <1>1, <2>1
  <2>2. CASE i # 1
    <3>1. i - 1 \in DOMAIN Tail(q) /\ Tail(q)[i - 1] = q[i]
      BY <1>1, <2>2
    <3> QED
      BY <3>1, Zenon DEF QueueSet
  <2> QED
    BY <2>1, <2>2
<1>4. QueueSet(Tail(q)) \subseteq QueueSet(q)
  BY <1>1 DEF QueueSet
<1> QED
  BY <1>1, <1>2, <1>3, <1>4 DEF QueueSet

(***************************************************************************)
(* The ascending enumeration of a finite set of packets has its elements.  *)
(***************************************************************************)
LEMMA InOrderFact ==
    ASSUME NEW L \in SUBSET Packet, IsFiniteSet(L), NEW s \in InOrder(L)
    PROVE  s \in Seq(Packet) /\ QueueSet(s) = L
<1>1. Cardinality(L) \in Nat
  BY FS_CardinalityType
<1>2. s \in [1 .. Cardinality(L) -> L] /\ L = {s[i] : i \in DOMAIN s}
  BY DEF InOrder
<1> QED
  BY <1>1, <1>2 DEF QueueSet

(***************************************************************************)
(* The packets that leave the history as lost are in the queue afterwards, *)
(* and nothing else changed in either.                                     *)
(***************************************************************************)
LEMMA RemoveAckedAndQueueLostFact ==
    ASSUME TrackingTypes, NEW A \in SUBSET packetHistory, NEW L \in SUBSET packetHistory,
           RemoveAckedAndQueueLost(A, L)
    PROVE  /\ packetHistory' = packetHistory \ (A \cup L)
           /\ IsFiniteSet(packetHistory')
           /\ packetHistory' \subseteq Packet
           /\ retransmissionQueue' \in Seq(Packet)
           /\ QueueSet(retransmissionQueue') = QueueSet(retransmissionQueue) \cup L
<1>1. /\ packetHistory' = packetHistory \ (A \cup L)
      /\ packetHistory' \subseteq packetHistory
      /\ L \in SUBSET Packet
  BY DEF RemoveAckedAndQueueLost, TrackingTypes
<1>2. IsFiniteSet(L) /\ IsFiniteSet(packetHistory')
  BY <1>1, FS_Subset DEF TrackingTypes
<1>3. PICK s \in InOrder(L) : retransmissionQueue' = retransmissionQueue \o s
  BY DEF RemoveAckedAndQueueLost
<1>4. s \in Seq(Packet) /\ QueueSet(s) = L
  BY <1>1, <1>2, <1>3, InOrderFact
<1>5. /\ retransmissionQueue' \in Seq(Packet)
      /\ QueueSet(retransmissionQueue') = QueueSet(retransmissionQueue) \cup L
  BY <1>3, <1>4, QueueConcat DEF TrackingTypes
<1> QED
  BY <1>1, <1>2, <1>5 DEF TrackingTypes

(***************************************************************************)
(* The next least unacked number stays within reach of the next packet.    *)
(***************************************************************************)
LEMMA RaiseFact ==
    ASSUME IndInv, NEW N \in SUBSET Nat, \A n \in N : n <= lastSentPacketNumber,
           RaiseNextLeastUnacked(N)
    PROVE  /\ nextLeastUnacked' \in Nat
           /\ nextLeastUnacked' <= lastSentPacketNumber + 1
           /\ lastStopWaitingFrame' = lastStopWaitingFrame
BY DEF IndInv, TrackingTypes, StopWaitingIsWritable, RaiseNextLeastUnacked, Largest

(***************************************************************************)
(* A new handler satisfies the invariant.                                  *)
(***************************************************************************)
LEMMA InitIndInv == Init => IndInv
<1> SUFFICES ASSUME Init PROVE IndInv
  OBVIOUS
<1>1. IsFiniteSet({})
  BY FS_EmptySet
<1>2. QueueSet(<< >>) = {}
  BY DEF QueueSet
<1> QED
  BY <1>1, <1>2
  DEF Init, IndInv, TrackingTypes, KnownWasSent, NothingForgotten,
      AlarmCoversOutstanding, StopWaitingIsWritable, SkippedNeverTracked, Numbers

(***************************************************************************)
(* SentPacket, with or without the copy that DuplicatePacket queues.       *)
(***************************************************************************)
LEMMA RecordIndInv ==
    ASSUME IndInv, NEW pn \in PacketNumber, NEW payload \in Payloads,
           RecordSentPacket(pn, payload),
           retransmissionQueue' \in Seq(Packet),
           QueueSet(retransmissionQueue) \subseteq QueueSet(retransmissionQueue'),
           \A p \in QueueSet(retransmissionQueue') :
              p \in QueueSet(retransmissionQueue) \/ p.pn = pn
    PROVE  IndInv'
<1> DEFINE frames == stripNonRetransmittableFrames(payload.frames)
           packet == [pn |-> pn, frames |-> frames, length |-> payload.length]
           H == IF frames # {} THEN packetHistory \cup {packet} ELSE packetHistory
<1>1. /\ pn > lastSentPacketNumber
      /\ skippedPackets' = TrackSkipped(pn)
      /\ lastSentPacketNumber' = pn
      /\ packetHistory' = H
      /\ owed' = IF frames # {} THEN owed \cup {pn} ELSE owed
      /\ alarm' = updateLossDetectionAlarm(H, lossTime, rttKnown, tlpCount)
      /\ UNCHANGED <<LargestAcked, lossTime, nextLeastUnacked, lastStopWaitingFrame>>
  BY DEF RecordSentPacket, stopWaitingVars
<1>2. /\ pn \in Nat
      /\ packet \in Packet
      /\ packet.pn = pn
  BY PayloadsAssumption, BoundsAssumption
  DEF Packet, PacketNumber, stripNonRetransmittableFrames
<1>3. IsFiniteSet(H)
  BY FS_AddElement, Zenon DEF IndInv, TrackingTypes
<1>4. skippedPackets' \subseteq skippedPackets \cup (lastSentPacketNumber + 1 .. pn - 1)
  BY <1>1 DEF TrackSkipped
<1>5. /\ lastSentPacketNumber \in Nat
      /\ skippedPackets \subseteq Nat
      /\ packetHistory \subseteq Packet
      /\ \A p \in packetHistory \cup QueueSet(retransmissionQueue) :
            p.pn \in Nat /\ p.pn <= lastSentPacketNumber
  <2>1. \A p \in Packet : p.pn \in Nat
    BY BoundsAssumption DEF Packet, PacketNumber
  <2>2. QueueSet(retransmissionQueue) \subseteq Packet
    BY DEF IndInv, TrackingTypes, QueueSet
  <2> QED
    BY <2>1, <2>2 DEF IndInv, TrackingTypes, KnownWasSent
<1> HIDE DEF packet
<1>6. packetHistory' \subseteq packetHistory \cup {packet}
      /\ packetHistory \subseteq packetHistory'
      /\ (frames # {} => packet \in packetHistory')
  BY <1>1
<1> HIDE DEF frames
<1>7. TrackingTypes'
  <2>1. skippedPackets' \subseteq Nat
    BY <1>2, <1>4, <1>5
  <2>2. owed' \subseteq Nat
    BY <1>1, <1>2 DEF IndInv, TrackingTypes
  <2> QED
    BY <1>1, <1>2, <1>3, <1>5, <1>6, <2>1, <2>2 DEF IndInv, TrackingTypes
<1>8. KnownWasSent'
  <2>1. \A p \in packetHistory' \cup QueueSet(retransmissionQueue') : p.pn <= pn
    BY <1>1, <1>2, <1>5, <1>6
  <2>2. \A n \in skippedPackets' : n <= pn
    BY <1>1, <1>2, <1>4, <1>5 DEF IndInv, KnownWasSent
  <2> QED
    BY <1>1, <2>1, <2>2 DEF KnownWasSent, QueueSet
<1>9. NothingForgotten'
  BY <1>1, <1>2, <1>6 DEF IndInv, NothingForgotten, Numbers
<1>10. AlarmCoversOutstanding'
  BY <1>1, <1>6 DEF AlarmCoversOutstanding, updateLossDetectionAlarm, IsRetransmittable
<1>11. StopWaitingIsWritable'
  BY <1>1, <1>2, <1>5 DEF IndInv, TrackingTypes, StopWaitingIsWritable
<1>12. SkippedNeverTracked'
  <2>1. \A n \in skippedPackets' : n # pn /\ (n \in skippedPackets \/ n > lastSentPacketNumber)
    BY <1>1, <1>2, <1>4, <1>5 DEF IndInv, KnownWasSent
  <2>2. \A n \in skippedPackets, p \in packetHistory \cup QueueSet(retransmissionQueue) : n # p.pn
    BY DEF IndInv, SkippedNeverTracked, Numbers
  <2>3. \A n \in skippedPackets', p \in packetHistory' \cup QueueSet(retransmissionQueue') : n # p.pn
    BY <1>2, <1>5, <1>6, <2>1, <2>2
  <2> QED
    BY <2>3 DEF SkippedNeverTracked, Numbers
<1> QED
  BY <1>7, <1>8, <1>9, <1>10, <1>11, <1>12 DEF IndInv

(***************************************************************************)
(* What acknowledging the packets of A and queueing those of L preserves.  *)
(***************************************************************************)
LEMMA RemovePreserves ==
    ASSUME IndInv, NEW A \in SUBSET packetHistory, NEW L \in SUBSET packetHistory,
           RemoveAckedAndQueueLost(A, L),
           UNCHANGED lastSentPacketNumber,
           skippedPackets' \subseteq skippedPackets,
           owed' \subseteq owed \ Numbers(A),
           LargestAcked' \in Nat
    PROVE  /\ nextLeastUnacked' \in Nat /\ lastStopWaitingFrame' \in Nat => TrackingTypes'
           /\ KnownWasSent'
           /\ NothingForgotten'
           /\ SkippedNeverTracked'
<1>1. /\ packetHistory' = packetHistory \ (A \cup L)
      /\ IsFiniteSet(packetHistory')
      /\ packetHistory' \subseteq Packet
      /\ retransmissionQueue' \in Seq(Packet)
      /\ QueueSet(retransmissionQueue') = QueueSet(retransmissionQueue) \cup L
  BY RemoveAckedAndQueueLostFact, Zenon DEF IndInv
<1>2. QueueSet(retransmissionQueue)' = QueueSet(retransmissionQueue')
  BY DEF QueueSet
<1>3. packetHistory' \cup QueueSet(retransmissionQueue') \subseteq
         packetHistory \cup QueueSet(retransmissionQueue)
  BY <1>1
<1>4. nextLeastUnacked' \in Nat /\ lastStopWaitingFrame' \in Nat => TrackingTypes'
  BY <1>1 DEF IndInv, TrackingTypes
<1>5. KnownWasSent'
  BY <1>2, <1>3 DEF IndInv, KnownWasSent
<1>6. NothingForgotten'
  <2> SUFFICES ASSUME NEW n \in owed'
               PROVE  \E p \in packetHistory' \cup QueueSet(retransmissionQueue') : p.pn = n
    BY <1>2 DEF NothingForgotten, Numbers
  <2>1. PICK p \in packetHistory \cup QueueSet(retransmissionQueue) : p.pn = n
    BY DEF IndInv, NothingForgotten, Numbers
  <2>2. p \notin A
    BY <2>1 DEF Numbers
  <2> QED
    BY <1>1, <2>1, <2>2
<1>7. SkippedNeverTracked'
  BY <1>2, <1>3 DEF IndInv, SkippedNeverTracked, Numbers
<1> QED
  BY <1>4, <1>5, <1>6, <1>7

(***************************************************************************)
(* Steps that leave history, queue, numbers and obligations alone keep the *)
(* invariant if they keep its conjuncts about the alarm and STOP_WAITING.  *)
(***************************************************************************)
LEMMA FrameIndInv ==
    ASSUME IndInv,
           UNCHANGED <<lastSentPacketNumber, skippedPackets, packetHistory,
                       retransmissionQueue>>,
           owed' \subseteq owed,
           LargestAcked' \in Nat, nextLeastUnacked' \in Nat, lastStopWaitingFrame' \in Nat,
           AlarmCoversOutstanding', StopWaitingIsWritable'
    PROVE  IndInv'
BY SMTT(30) DEF IndInv, TrackingTypes, KnownWasSent, NothingForgotten, SkippedNeverTracked, QueueSet

(***************************************************************************)
(* ReceivedAck, outcome by outcome.                                        *)
(***************************************************************************)
LEMMA ReceivedAckIndInv ==
    ASSUME IndInv, NEW ack \in AckFrames, NEW with \in PeerPacketNumber,
           ReceivedAck(ack, with)
    PROVE  IndInv'
<1>0. /\ ack.LargestAcked \in Nat
      /\ ack.LargestAcked \in PacketNumber
      /\ lastSentPacketNumber \in Nat
  BY BoundsAssumption DEF AckFrames, AckFrame, PacketNumber, IndInv, TrackingTypes
<1>1. CASE AckForUnsentPacket(ack) \/ DuplicateOrOutOfOrderAck(ack, with)
  <2>1. UNCHANGED <<numberVars, historyVars, alarmVars, stopWaitingVars, owed>>
    BY <1>1 DEF AckForUnsentPacket, DuplicateOrOutOfOrderAck
  <2> QED
    BY <2>1, FrameIndInv
    DEF IndInv, TrackingTypes, AlarmCoversOutstanding, StopWaitingIsWritable,
        numberVars, historyVars, alarmVars, stopWaitingVars
<1>2. CASE RepeatedAck(ack, with) \/ AckForSkippedPacket(ack, with)
  <2>1. /\ UNCHANGED <<lastSentPacketNumber, skippedPackets, historyVars, alarmVars,
                       stopWaitingVars>>
        /\ LargestAcked' \in Nat
        /\ owed' \subseteq owed
    BY <1>0, <1>2 DEF RepeatedAck, AckForSkippedPacket, IndInv, TrackingTypes
  <2> QED
    BY <2>1, FrameIndInv
    DEF IndInv, TrackingTypes, AlarmCoversOutstanding, StopWaitingIsWritable,
        historyVars, alarmVars, stopWaitingVars
<1>3. CASE NewAck(ack, with)
  <2> DEFINE A == NewlyAcked(ack)
             H == packetHistory \ A
  <2>1. PICK L \in PossiblyLost(H, ack.LargestAcked) :
           /\ RemoveAckedAndQueueLost(A, L)
           /\ RaiseNextLeastUnacked(Numbers(L) \cup {ack.LargestAcked})
    BY <1>3, Zenon DEF NewAck
  <2>2. /\ ack.LargestAcked <= lastSentPacketNumber
        /\ LargestAcked' = ack.LargestAcked
        /\ UNCHANGED lastSentPacketNumber
        /\ alarm' = updateLossDetectionAlarm(packetHistory', lossTime', rttKnown', tlpCount')
        /\ skippedPackets' \subseteq skippedPackets
        /\ owed' = owed \ ack.acked
    BY <1>3 DEF NewAck, AckInOrder, garbageCollectSkippedPackets
  <2>3. /\ A \in SUBSET packetHistory
        /\ L \in SUBSET packetHistory
        /\ owed' \subseteq owed \ Numbers(A)
    BY <2>2 DEF NewlyAcked, PossiblyLost, LossCandidates, Numbers
  <2>4. /\ nextLeastUnacked' \in Nat
        /\ nextLeastUnacked' <= lastSentPacketNumber + 1
        /\ lastStopWaitingFrame' = lastStopWaitingFrame
    <3>1. /\ Numbers(L) \cup {ack.LargestAcked} \in SUBSET Nat
          /\ \A n \in Numbers(L) \cup {ack.LargestAcked} : n <= lastSentPacketNumber
      BY <1>0, <2>2, <2>3, BoundsAssumption, SMTT(30)
      DEF Numbers, IndInv, TrackingTypes, KnownWasSent, Packet, PacketNumber
    <3> QED
      BY <2>1, <3>1, RaiseFact
  <2> HIDE DEF A
  <2>5. TrackingTypes' /\ KnownWasSent' /\ NothingForgotten' /\ SkippedNeverTracked'
    BY <1>0, <2>1, <2>2, <2>3, <2>4, RemovePreserves, Zenon DEF IndInv, TrackingTypes
  <2>6. AlarmCoversOutstanding'
    BY <2>2 DEF AlarmCoversOutstanding, updateLossDetectionAlarm
  <2>7. StopWaitingIsWritable'
    BY <2>2, <2>4 DEF IndInv, StopWaitingIsWritable
  <2> QED
    BY <2>5, <2>6, <2>7, SMTT(30) DEF IndInv
<1> QED
  BY <1>1, <1>2, <1>3 DEF ReceivedAck

(***************************************************************************)
(* ReceivedClosePath and its error return.                                 *)
(***************************************************************************)
LEMMA ClosePathIndInv ==
    ASSUME IndInv, NEW ack \in AckFrames, NEW with \in PeerPacketNumber,
           ReceivedClosePath(ack, with) \/ ClosePathForSkippedPacket(ack, with)
    PROVE  IndInv'
<1>1. CASE ReceivedClosePath(ack, with)
  <2> DEFINE A == NewlyAcked(ack)
             L == SetInflightAsLost(packetHistory \ A)
  <2>1. /\ RemoveAckedAndQueueLost(A, L)
        /\ RaiseNextLeastUnacked(Numbers(L))
        /\ UNCHANGED <<lastSentPacketNumber, LargestAcked, lossTime, alarm>>
        /\ skippedPackets' \subseteq skippedPackets
        /\ owed' = owed \ ack.acked
    BY <1>1 DEF ReceivedClosePath, garbageCollectSkippedPackets
  <2>2. /\ A \in SUBSET packetHistory
        /\ L \in SUBSET packetHistory
        /\ owed' \subseteq owed \ Numbers(A)
    BY <2>1 DEF NewlyAcked, SetInflightAsLost, Numbers
  <2> HIDE DEF A, L
  <2>3. /\ nextLeastUnacked' \in Nat
        /\ nextLeastUnacked' <= lastSentPacketNumber + 1
        /\ lastStopWaitingFrame' = lastStopWaitingFrame
    <3>1. /\ Numbers(L) \in SUBSET Nat
          /\ \A n \in Numbers(L) : n <= lastSentPacketNumber
      BY <2>2, BoundsAssumption
      DEF Numbers, IndInv, TrackingTypes, KnownWasSent, Packet, PacketNumber
    <3> QED
      BY <2>1, <3>1, RaiseFact
  <2>4. TrackingTypes' /\ KnownWasSent' /\ NothingForgotten' /\ SkippedNeverTracked'
    BY <2>1, <2>2, <2>3, RemovePreserves, Zenon DEF IndInv, TrackingTypes
  <2>5. AlarmCoversOutstanding'
    <3>1. packetHistory' \subseteq packetHistory
      BY <2>1 DEF RemoveAckedAndQueueLost
    <3> QED
      BY <2>1, <3>1 DEF IndInv, AlarmCoversOutstanding
  <2>6. StopWaitingIsWritable'
    BY <2>1, <2>3 DEF IndInv, StopWaitingIsWritable
  <2> QED
    BY <2>4, <2>5, <2>6, SMTT(30) DEF IndInv
<1>2. CASE ClosePathForSkippedPacket(ack, with)
  BY <1>2, FrameIndInv
  DEF ClosePathForSkippedPacket, IndInv, TrackingTypes, AlarmCoversOutstanding,
      StopWaitingIsWritable, historyVars, alarmVars, stopWaitingVars
<1> QED
  BY <1>1, <1>2

(***************************************************************************)
(* An alarm that queues the packets of L and is armed anew.                *)
(***************************************************************************)
LEMMA AlarmFiresIndInv ==
    ASSUME IndInv, NEW L \in SUBSET packetHistory, queuePacketsForRetransmission(L),
           RaiseNextLeastUnacked(Numbers(L)), AlarmFires
    PROVE  IndInv'
<1>1. /\ RemoveAckedAndQueueLost({}, L)
      /\ UNCHANGED <<lastSentPacketNumber, skippedPackets, LargestAcked, owed>>
      /\ alarm' = updateLossDetectionAlarm(packetHistory', lossTime', rttKnown, tlpCount')
  BY DEF queuePacketsForRetransmission, AlarmFires, numberVars
<1>2. owed' \subseteq owed \ Numbers({})
  BY <1>1 DEF Numbers
<1>3. /\ nextLeastUnacked' \in Nat
      /\ nextLeastUnacked' <= lastSentPacketNumber + 1
      /\ lastStopWaitingFrame' = lastStopWaitingFrame
  <2>1. /\ Numbers(L) \in SUBSET Nat
        /\ \A n \in Numbers(L) : n <= lastSentPacketNumber
    BY BoundsAssumption DEF Numbers, IndInv, TrackingTypes, KnownWasSent, Packet, PacketNumber
  <2> QED
    BY <2>1, RaiseFact
<1>4. TrackingTypes' /\ KnownWasSent' /\ NothingForgotten' /\ SkippedNeverTracked'
  BY <1>1, <1>2, <1>3, RemovePreserves, Zenon DEF IndInv, TrackingTypes
<1>5. AlarmCoversOutstanding'
  BY <1>1 DEF AlarmCoversOutstanding, updateLossDetectionAlarm
<1>6. StopWaitingIsWritable'
  BY <1>1, <1>3 DEF IndInv, StopWaitingIsWritable
<1> QED
  BY <1>4, <1>5, <1>6 DEF IndInv

(***************************************************************************)
(* OnAlarm: nothing to do, loss timer, tail loss probe, RTO.               *)
(***************************************************************************)
LEMMA OnAlarmIndInv == ASSUME IndInv, OnAlarm PROVE IndInv'
<1>1. CASE OnAlarmNothingToRetransmit
  BY <1>1, FrameIndInv
  DEF OnAlarmNothingToRetransmit, IndInv, TrackingTypes, AlarmCoversOutstanding,
      StopWaitingIsWritable, numberVars, historyVars, stopWaitingVars
<1>2. CASE OnAlarmLossTime
  <2>1. PICK L \in PossiblyLost(packetHistory, LargestAcked) :
           queuePacketsForRetransmission(L) /\ RaiseNextLeastUnacked(Numbers(L))
    BY <1>2 DEF OnAlarmLossTime
  <2>2. L \in SUBSET packetHistory /\ AlarmFires
    BY <1>2 DEF PossiblyLost, LossCandidates, OnAlarmLossTime
  <2> QED
    BY <2>1, <2>2, AlarmFiresIndInv
<1>3. CASE OnAlarmTLP
  <2>1. PICK p \in packetHistory :
           queuePacketsForRetransmission({p}) /\ RaiseNextLeastUnacked({p.pn})
    BY <1>3, Zenon DEF OnAlarmTLP
  <2>2. {p} \in SUBSET packetHistory /\ Numbers({p}) = {p.pn} /\ AlarmFires
    BY <1>3 DEF Numbers, OnAlarmTLP
  <2> QED
    BY <2>1, <2>2, AlarmFiresIndInv
<1>4. ASSUME NEW potentiallyFailed \in BOOLEAN, OnAlarmRTO(potentiallyFailed)
      PROVE  IndInv'
  <2>1. PICK L \in SUBSET packetHistory :
           /\ queuePacketsForRetransmission(L)
           /\ RaiseNextLeastUnacked(Numbers(L))
           /\ AlarmFires
    BY <1>4, Zenon DEF OnAlarmRTO, OldestTwo
  <2> QED
    BY <2>1, AlarmFiresIndInv
<1> QED
  BY <1>1, <1>2, <1>3, <1>4 DEF OnAlarm

(***************************************************************************)
(* Sending, also with DuplicatePacket.                                     *)
(***************************************************************************)
LEMMA SendIndInv == ASSUME IndInv, Send PROVE IndInv'
<1>1. PICK pn \in PacketNumber, payload \in Payloads :
         SentPacket(pn, payload) \/ DuplicatePacket(pn, payload)
  BY DEF Send
<1>2. RecordSentPacket(pn, payload)
  BY <1>1 DEF SentPacket, DuplicatePacket
<1>3. CASE SentPacket(pn, payload)
  BY <1>2, <1>3, RecordIndInv DEF SentPacket, IndInv, TrackingTypes
<1>4. CASE DuplicatePacket(pn, payload)
  <2> DEFINE copy == [pn |-> pn, frames |-> payload.frames, length |-> payload.length]
  <2>1. copy \in Packet /\ copy.pn = pn
    BY PayloadsAssumption DEF Packet
  <2>2. retransmissionQueue' = Append(retransmissionQueue, copy)
    BY <1>4 DEF DuplicatePacket
  <2> HIDE DEF copy
  <2>3. /\ retransmissionQueue' \in Seq(Packet)
        /\ QueueSet(retransmissionQueue') = QueueSet(retransmissionQueue) \cup {copy}
    BY <2>1, <2>2, QueueAppend DEF IndInv, TrackingTypes
  <2> QED
    BY <1>2, <2>1, <2>3, RecordIndInv
<1> QED
  BY <1>1, <1>3, <1>4

(***************************************************************************)
(* Every step preserves the invariant.                                     *)
(***************************************************************************)
LEMMA NextIndInv == ASSUME IndInv, [Next]_vars PROVE IndInv'
<1>1. CASE Send
  BY <1>1, SendIndInv
<1>2. CASE SentPacketTooManyTracked
  BY <1>2, FrameIndInv
  DEF SentPacketTooManyTracked, IndInv, TrackingTypes, AlarmCoversOutstanding,
      StopWaitingIsWritable, numberVars, historyVars, alarmVars, stopWaitingVars
<1>3. CASE HandleAck
  BY <1>3, ReceivedAckIndInv DEF HandleAck
<1>4. CASE HandleClosePath
  BY <1>4, ClosePathIndInv DEF HandleClosePath
<1>5. CASE OnAlarm
  BY <1>5, OnAlarmIndInv
<1>6. CASE DequeuePacketForRetransmission
  <2>1. /\ retransmissionQueue # << >>
        /\ owed' = owed \ {Head(retransmissionQueue).pn}
        /\ retransmissionQueue' = Tail(retransmissionQueue)
        /\ UNCHANGED <<numberVars, packetHistory, alarmVars, stopWaitingVars>>
    BY <1>6 DEF DequeuePacketForRetransmission
  <2>2. /\ Tail(retransmissionQueue) \in Seq(Packet)
        /\ QueueSet(retransmissionQueue) \subseteq
              QueueSet(Tail(retransmissionQueue)) \cup {Head(retransmissionQueue)}
        /\ QueueSet(Tail(retransmissionQueue)) \subseteq QueueSet(retransmissionQueue)
    BY <2>1, QueueTail DEF IndInv, TrackingTypes
  <2>3. QueueSet(retransmissionQueue)' = QueueSet(Tail(retransmissionQueue))
    BY <2>1 DEF QueueSet
  <2>4. TrackingTypes' /\ AlarmCoversOutstanding' /\ StopWaitingIsWritable'
    BY <2>1, <2>2, ZenonT(60) DEF IndInv, TrackingTypes, AlarmCoversOutstanding, StopWaitingIsWritable,
                      numberVars, alarmVars, stopWaitingVars
  <2>5. KnownWasSent' /\ SkippedNeverTracked'
    BY <2>1, <2>2, <2>3 DEF IndInv, KnownWasSent, SkippedNeverTracked, Numbers, numberVars
  <2>6. NothingForgotten'
    BY <2>1, <2>2, <2>3 DEF IndInv, NothingForgotten, Numbers
  <2> QED
    BY <2>4, <2>5, <2>6 DEF IndInv
<1>7. ASSUME NEW force \in BOOLEAN, GetStopWaitingFrame(force) PROVE IndInv'
  <2>1. UNCHANGED <<numberVars, historyVars, alarmVars, nextLeastUnacked, owed>>
    BY <1>7 DEF GetStopWaitingFrame
  <2>2. lastStopWaitingFrame' \in {nextLeastUnacked, lastStopWaitingFrame}
    BY <1>7 DEF GetStopWaitingFrame
  <2> QED
    BY <2>1, <2>2, FrameIndInv
    DEF IndInv, TrackingTypes, AlarmCoversOutstanding, StopWaitingIsWritable,
        numberVars, historyVars, alarmVars
<1>8. CASE UNCHANGED vars
  BY <1>8, FrameIndInv
  DEF IndInv, TrackingTypes, AlarmCoversOutstanding, StopWaitingIsWritable, vars,
      numberVars, historyVars, alarmVars, stopWaitingVars
<1> QED
  BY <1>1, <1>2, <1>3, <1>4, <1>5, <1>6, <1>7, <1>8 DEF Next

(***************************************************************************)
(* The strengthened invariant holds of every behaviour.                    *)
(***************************************************************************)
THEOREM Invariance == Spec => []IndInv
<1>1. IndInv /\ [Next]_vars => IndInv'
  BY NextIndInv
<1> QED
  BY <1>1, InitIndInv, PTL DEF Spec

(***************************************************************************)
(* No retransmittable packet is forgotten between SentPacket and its       *)
(* acknowledgement or DequeuePacketForRetransmission.                      *)
(***************************************************************************)
THEOREM NothingForgottenTheorem == Spec => []NothingForgotten
<1>1. IndInv => NothingForgotten
  BY DEF IndInv
<1> QED
  BY <1>1, Invariance, PTL

(***************************************************************************)
(* While a retransmittable packet is outstanding updateLossDetectionAlarm  *)
(* left the alarm armed.                                                   *)
(***************************************************************************)
THEOREM AlarmTheorem == Spec => []AlarmCoversOutstanding
<1>1. IndInv => AlarmCoversOutstanding
  BY DEF IndInv
<1> QED
  BY <1>1, Invariance, PTL

(***************************************************************************)
(* stopWaitingManager never hands out a frame that Write would refuse.     *)
(***************************************************************************)
THEOREM StopWaitingTheorem == Spec => []StopWaitingIsWritable
<1>1. IndInv => StopWaitingIsWritable
  BY DEF IndInv
<1> QED
  BY <1>1, Invariance, PTL

(***************************************************************************)
(* A skipped number is never one that SentPacket tracks.                   *)
(***************************************************************************)
THEOREM SkippedTheorem == Spec => []SkippedNeverTracked
<1>1. IndInv => SkippedNeverTracked
  BY DEF IndInv
<1> QED
  BY <1>1, Invariance, PTL

(***************************************************************************)
(* SentPacket records a number above the last one sent, and the only       *)
(* packet it can add to the history is the one of that number.             *)
(***************************************************************************)
LEMMA OneNewPacket ==
  ASSUME NEW pn, NEW payload, RecordSentPacket(pn, payload)
  PROVE  /\ pn > lastSentPacketNumber
         /\ \A p \in packetHistory' \ packetHistory : p.pn = pn
<1> DEFINE frames == stripNonRetransmittableFrames(payload.frames)
           packet == [pn |-> pn, frames |-> frames, length |-> payload.length]
<1>1. /\ pn > lastSentPacketNumber
      /\ packetHistory' = IF frames # {} THEN packetHistory \cup {packet}
                                         ELSE packetHistory
  BY ZenonT(60) DEF RecordSentPacket
<1>2. packet.pn = pn
  OBVIOUS
<1> HIDE DEF packet, frames
<1>3. packetHistory' \ packetHistory \subseteq {packet}
  BY <1>1
<1> QED
  BY <1>1, <1>2, <1>3

(***************************************************************************)
(* SentPacket pushes to the back of the sorted list, and no other method   *)
(* adds to it.                                                             *)
(***************************************************************************)
THEOREM HistoryTheorem == Spec => HistoryOnlyGrowsAtTheEnd
<1> DEFINE AtTheEnd == \A p \in packetHistory' \ packetHistory :
              \A q \in packetHistory \cup QueueSet(retransmissionQueue) : q.pn < p.pn
<1>1. IndInv /\ [Next]_vars => [AtTheEnd]_vars
  <2> SUFFICES ASSUME IndInv, Next PROVE AtTheEnd
    OBVIOUS
  <2>1. CASE packetHistory' \subseteq packetHistory
    BY <2>1
  <2>2. ASSUME NEW pn \in PacketNumber, NEW payload \in Payloads,
               RecordSentPacket(pn, payload)
        PROVE  AtTheEnd
    <3>1. /\ pn > lastSentPacketNumber
          /\ \A p \in packetHistory' \ packetHistory : p.pn = pn
      BY <2>2, OneNewPacket
    <3>2. \A q \in packetHistory \cup QueueSet(retransmissionQueue) :
              q.pn \in Nat /\ q.pn <= lastSentPacketNumber
      <4>1. QueueSet(retransmissionQueue) \subseteq Packet
        BY DEF IndInv, TrackingTypes, QueueSet
      <4> QED
        BY <4>1, BoundsAssumption DEF IndInv, TrackingTypes, KnownWasSent, Packet, PacketNumber
    <3>3. pn \in Nat /\ lastSentPacketNumber \in Nat
      BY BoundsAssumption DEF PacketNumber, IndInv, TrackingTypes
    <3> QED
      BY <3>1, <3>2, <3>3
  <2>3. CASE Send
    BY <2>2, <2>3, SMTT(30) DEF Send, SentPacket, DuplicatePacket
  <2>4. CASE HandleAck
    BY <2>1, <2>4, ZenonT(60)
    DEF HandleAck, ReceivedAck, AckForUnsentPacket, DuplicateOrOutOfOrderAck,
        RepeatedAck, AckForSkippedPacket, NewAck, RemoveAckedAndQueueLost, historyVars
  <2>5. CASE HandleClosePath
    BY <2>1, <2>5, ZenonT(60)
    DEF HandleClosePath, ReceivedClosePath, ClosePathForSkippedPacket,
        RemoveAckedAndQueueLost, historyVars
  <2>6. CASE OnAlarm
    BY <2>1, <2>6, Zenon
    DEF OnAlarm, OnAlarmNothingToRetransmit, OnAlarmLossTime, OnAlarmTLP, OnAlarmRTO,
        queuePacketsForRetransmission, RemoveAckedAndQueueLost, historyVars
  <2> QED
    BY <2>1, <2>3, <2>4, <2>5, <2>6
    DEF Next, SentPacketTooManyTracked, DequeuePacketForRetransmission,
        GetStopWaitingFrame, historyVars
<1> QED
  BY <1>1, Invariance, PTL DEF Spec, HistoryOnlyGrowsAtTheEnd

-----------------------------------------------------------------------------
(***************************************************************************)
(* Facts of counting: a packet of n bytes, and two disjoint sets.          *)
(***************************************************************************)
LEMMA OneCount ==
    ASSUME NEW p, NEW n \in Nat
    PROVE  IsFiniteSet({p} \X (1 .. n)) /\ Cardinality({p} \X (1 .. n)) = n
<1>1. IsFiniteSet({p}) /\ Cardinality({p}) = 1
  BY FS_Singleton
<1>2. IsFiniteSet(1 .. n) /\ Cardinality(1 .. n) = n
  BY FS_Interval
<1>3. /\ IsFiniteSet({p} \X (1 .. n))
      /\ Cardinality({p} \X (1 .. n)) = Cardinality({p}) * Cardinality(1 .. n)
  BY <1>1, <1>2, FS_Product, Zenon
<1> QED
  BY <1>1, <1>2, <1>3

LEMMA DisjointCount ==
    ASSUME NEW S, IsFiniteSet(S), NEW T, IsFiniteSet(T), S \cap T = {}
    PROVE  Cardinality(S \cup T) = Cardinality(S) + Cardinality(T)
<1>1. /\ Cardinality(S \cup T) = Cardinality(S) + Cardinality(T) - Cardinality(S \cap T)
      /\ Cardinality(S) \in Nat /\ Cardinality(T) \in Nat
  BY FS_Union, FS_CardinalityType, Zenon
<1>2. Cardinality(S \cap T) = 0
  BY FS_EmptySet
<1> QED
  BY <1>1, <1>2

(***************************************************************************)
(* The bytes of finitely many packets are finitely many.                   *)
(***************************************************************************)
LEMMA BytesAreFinite ==
    ASSUME NEW S \in SUBSET Packet, IsFiniteSet(S)
    PROVE  IsFiniteSet(Bytes(S)) /\ TotalLength(S) \in Nat
<1> DEFINE bytes(p) == {p} \X (1 .. p.length)
           parts == {bytes(p) : p \in S}
<1>1. IsFiniteSet(parts)
  <2> HIDE DEF bytes
  <2> DEFINE f == [p \in S |-> bytes(p)]
  <2>1. f \in Surjection(S, parts)
    BY DEF Surjection
  <2> QED
    BY <2>1, FS_Surjection
<1>2. ASSUME NEW p \in S PROVE IsFiniteSet(bytes(p))
  <2>1. p.length \in Nat
    BY DEF Packet
  <2> QED
    BY <2>1, OneCount, Zenon
<1>3. IsFiniteSet(UNION parts)
  BY <1>1, <1>2, FS_UNION, Zenon
<1> QED
  BY <1>3, FS_CardinalityType DEF Bytes, TotalLength

(***************************************************************************)
(* Packets of two disjoint sets have no byte in common.                    *)
(***************************************************************************)
LEMMA TotalLengthOfUnion ==
    ASSUME NEW S \in SUBSET Packet, IsFiniteSet(S),
           NEW T \in SUBSET Packet, IsFiniteSet(T), S \cap T = {}
    PROVE  TotalLength(S \cup T) = TotalLength(S) + TotalLength(T)
<1>1. Bytes(S \cup T) = Bytes(S) \cup Bytes(T) /\ Bytes(S) \cap Bytes(T) = {}
  BY DEF Bytes
<1>2. IsFiniteSet(Bytes(S)) /\ IsFiniteSet(Bytes(T))
  BY BytesAreFinite
<1> QED
  BY <1>1, <1>2, DisjointCount, Zenon DEF TotalLength

(***************************************************************************)
(* A single packet counts with its length.                                 *)
(***************************************************************************)
LEMMA TotalLengthOfOne ==
    ASSUME NEW p \in Packet PROVE TotalLength({p}) = p.length
<1>1. Bytes({p}) = {p} \X (1 .. p.length)
  BY DEF Bytes
<1>2. p.length \in Nat
  BY DEF Packet
<1> QED
  BY <1>1, <1>2, OneCount, Zenon DEF TotalLength

(***************************************************************************)
(* bytesInFlight follows the packets that ACKs and losses remove, as none  *)
(* of them is both acknowledged and lost.                                  *)
(***************************************************************************)
LEMMA RemovalIsCounted ==
    ASSUME IndInv, BytesInFlightMatchesHistory,
           NEW A \in SUBSET packetHistory, NEW L \in SUBSET packetHistory, A \cap L = {},
           RemoveAckedAndQueueLost(A, L)
    PROVE  BytesInFlightMatchesHistory'
<1> DEFINE H == packetHistory \ (A \cup L)
<1>1. /\ A \in SUBSET Packet /\ L \in SUBSET Packet /\ H \in SUBSET Packet
      /\ IsFiniteSet(A) /\ IsFiniteSet(L) /\ IsFiniteSet(H)
      /\ A \cup L \in SUBSET Packet /\ IsFiniteSet(A \cup L)
  BY FS_Subset DEF IndInv, TrackingTypes
<1>2. packetHistory = H \cup (A \cup L) /\ H \cap (A \cup L) = {}
  OBVIOUS
<1> HIDE DEF H
<1>3. TotalLength(packetHistory) = TotalLength(H) + TotalLength(A \cup L)
  BY <1>1, <1>2, TotalLengthOfUnion
<1>4. TotalLength(A \cup L) = TotalLength(A) + TotalLength(L)
  BY <1>1, TotalLengthOfUnion
<1>5. TotalLength(H) \in Nat /\ TotalLength(A) \in Nat /\ TotalLength(L) \in Nat
  BY <1>1, BytesAreFinite
<1>6. /\ bytesInFlight' = bytesInFlight - TotalLength(A) - TotalLength(L)
      /\ packetHistory' = H
  BY DEF RemoveAckedAndQueueLost, H
<1>7. TotalLength(packetHistory)' = TotalLength(H)
  BY <1>6 DEF TotalLength, Bytes
<1> HIDE DEF TotalLength
<1> QED
  BY <1>3, <1>4, <1>5, <1>6, <1>7 DEF BytesInFlightMatchesHistory

(***************************************************************************)
(* It follows the packet that SentPacket adds, whose number is new.        *)
(***************************************************************************)
LEMMA SendingIsCounted ==
    ASSUME IndInv, BytesInFlightMatchesHistory,
           NEW pn \in PacketNumber, NEW payload \in Payloads, RecordSentPacket(pn, payload)
    PROVE  BytesInFlightMatchesHistory'
<1> DEFINE frames == stripNonRetransmittableFrames(payload.frames)
           packet == [pn |-> pn, frames |-> frames, length |-> payload.length]
<1>1. /\ pn > lastSentPacketNumber
      /\ packetHistory' = IF frames # {} THEN packetHistory \cup {packet} ELSE packetHistory
      /\ bytesInFlight' = IF frames # {} THEN bytesInFlight + payload.length ELSE bytesInFlight
  BY ZenonT(60) DEF RecordSentPacket
<1>2. packet \in Packet /\ packet.pn = pn /\ packet.length = payload.length
  BY PayloadsAssumption DEF Packet, stripNonRetransmittableFrames
<1> HIDE DEF packet, frames
<1>3. packet \notin packetHistory
  <2>1. \A p \in packetHistory : p.pn \in Nat /\ p.pn <= lastSentPacketNumber
    BY BoundsAssumption DEF IndInv, TrackingTypes, KnownWasSent, Packet, PacketNumber
  <2>2. lastSentPacketNumber \in Nat /\ pn \in Nat
    BY BoundsAssumption DEF IndInv, TrackingTypes, PacketNumber
  <2> QED
    BY <1>1, <1>2, <2>1, <2>2
<1>4. CASE frames # {}
  <2>1. IsFiniteSet({packet}) /\ {packet} \in SUBSET Packet /\ packetHistory \cap {packet} = {}
    BY <1>2, <1>3, FS_Singleton, Zenon
  <2>2. TotalLength(packetHistory \cup {packet}) = TotalLength(packetHistory) + TotalLength({packet})
    BY <2>1, TotalLengthOfUnion, Zenon DEF IndInv, TrackingTypes
  <2>3. TotalLength({packet}) = payload.length
    BY <1>2, TotalLengthOfOne
  <2>4. TotalLength(packetHistory)' = TotalLength(packetHistory \cup {packet})
    BY <1>1, <1>4 DEF TotalLength, Bytes
  <2> HIDE DEF TotalLength
  <2> QED
    BY <1>1, <1>4, <2>2, <2>3, <2>4 DEF BytesInFlightMatchesHistory
<1>5. CASE frames = {}
  BY <1>1, <1>5 DEF BytesInFlightMatchesHistory, TotalLength, Bytes
<1> QED
  BY <1>4, <1>5

(***************************************************************************)
(* Every step keeps the counter equal to the lengths in the history.       *)
(***************************************************************************)
LEMMA NextIsCounted ==
    ASSUME IndInv, BytesInFlightMatchesHistory, [Next]_vars
    PROVE  BytesInFlightMatchesHistory'
<1>1. CASE UNCHANGED <<packetHistory, bytesInFlight>>
  BY <1>1 DEF BytesInFlightMatchesHistory, TotalLength, Bytes
<1>2. CASE Send
  <2>1. PICK pn \in PacketNumber, payload \in Payloads :
           SentPacket(pn, payload) \/ DuplicatePacket(pn, payload)
    BY <1>2 DEF Send
  <2>2. RecordSentPacket(pn, payload)
    BY <2>1 DEF SentPacket, DuplicatePacket
  <2> QED
    BY <2>2, SendingIsCounted
<1>3. CASE HandleAck
  <2>1. PICK ack \in AckFrames, with \in PeerPacketNumber : ReceivedAck(ack, with)
    BY <1>3 DEF HandleAck
  <2>2. CASE NewAck(ack, with)
    <3>1. PICK L \in PossiblyLost(packetHistory \ NewlyAcked(ack), ack.LargestAcked) :
             RemoveAckedAndQueueLost(NewlyAcked(ack), L)
      BY <2>2, Zenon DEF NewAck
    <3>2. /\ NewlyAcked(ack) \in SUBSET packetHistory
          /\ L \in SUBSET packetHistory
          /\ NewlyAcked(ack) \cap L = {}
      BY DEF NewlyAcked, PossiblyLost, LossCandidates
    <3> QED
      BY <3>1, <3>2, RemovalIsCounted
  <2>3. CASE ~NewAck(ack, with)
    <3>1. UNCHANGED historyVars
      BY <2>1, <2>3, Zenon DEF ReceivedAck, AckForUnsentPacket, DuplicateOrOutOfOrderAck,
                        RepeatedAck, AckForSkippedPacket
    <3> QED
      BY <3>1, <1>1 DEF historyVars
  <2> QED
    BY <2>2, <2>3
<1>4. CASE HandleClosePath
  <2>1. PICK ack \in AckFrames, with \in PeerPacketNumber :
           ReceivedClosePath(ack, with) \/ ClosePathForSkippedPacket(ack, with)
    BY <1>4 DEF HandleClosePath
  <2>2. CASE ReceivedClosePath(ack, with)
    <3> DEFINE A == NewlyAcked(ack)
               L == SetInflightAsLost(packetHistory \ A)
    <3>1. RemoveAckedAndQueueLost(A, L)
      BY <2>2 DEF ReceivedClosePath
    <3>2. A \in SUBSET packetHistory /\ L \in SUBSET packetHistory /\ A \cap L = {}
      BY DEF NewlyAcked, SetInflightAsLost
    <3> QED
      BY <3>1, <3>2, RemovalIsCounted, SMTT(30)
  <2>3. CASE ClosePathForSkippedPacket(ack, with)
    BY <2>3, <1>1 DEF ClosePathForSkippedPacket, historyVars
  <2> QED
    BY <2>1, <2>2, <2>3
<1>5. CASE OnAlarm
  <2>1. ASSUME NEW L \in SUBSET packetHistory, queuePacketsForRetransmission(L)
        PROVE  BytesInFlightMatchesHistory'
    BY <2>1, RemovalIsCounted DEF queuePacketsForRetransmission
  <2>2. CASE OnAlarmNothingToRetransmit
    BY <2>2, <1>1 DEF OnAlarmNothingToRetransmit, historyVars
  <2>3. CASE OnAlarmLossTime
    BY <2>3, <2>1 DEF OnAlarmLossTime, PossiblyLost, LossCandidates
  <2>4. CASE OnAlarmTLP
    BY <2>4, <2>1 DEF OnAlarmTLP
  <2>5. ASSUME NEW potentiallyFailed \in BOOLEAN, OnAlarmRTO(potentiallyFailed)
        PROVE  BytesInFlightMatchesHistory'
    BY <2>5, <2>1, Zenon DEF OnAlarmRTO, OldestTwo
  <2> QED
    BY <1>5, <2>2, <2>3, <2>4, <2>5 DEF OnAlarm
<1> QED
  BY <1>1, <1>2, <1>3, <1>4, <1>5, Zenon
  DEF Next, vars, historyVars, SentPacketTooManyTracked, DequeuePacketForRetransmission,
      GetStopWaitingFrame

(***************************************************************************)
(* The bytes in flight that SendingAllowed compares with the congestion    *)
(* window are the lengths of the packets in the history, for every bound   *)
(* and all payloads: no packet is subtracted twice or never.               *)
(***************************************************************************)
THEOREM BytesInFlightTheorem == Spec => []BytesInFlightMatchesHistory
<1>1. Init => BytesInFlightMatchesHistory
  <2>1. Bytes({}) = {}
    BY DEF Bytes
  <2> QED
    BY <2>1, FS_EmptySet DEF Init, BytesInFlightMatchesHistory, TotalLength
<1>2. IndInv /\ BytesInFlightMatchesHistory /\ [Next]_vars => BytesInFlightMatchesHistory'
  BY NextIsCounted
<1> QED
  BY <1>1, <1>2, Invariance, PTL DEF Spec
=============================================================================
