-------------------- MODULE ReceivedPacketHandlerProofs --------------------
(***************************************************************************)
(* The safety of ReceivedPacketHandler for all bounds, thresholds and      *)
(* versions.                                                               *)
(***************************************************************************)
EXTENDS ReceivedPacketHandler, FiniteSetTheorems, TLAPS

(***************************************************************************)
(* A packet can only lower-bound the history below its own number, so the  *)
(* limit never reaches the largest number observed.                        *)
(***************************************************************************)
LimitBelowLargest ==
    /\ lowerLimit <= largestObserved
    /\ largestObserved > 0 => lowerLimit < largestObserved
    /\ \A n \in packetHistory : n <= largestObserved

NothingToAckAtFirst == largestObserved = 0 => ~ackQueued /\ ~ackAlarm

(***************************************************************************)
(* The counter is at least the number of unreported packets: it counts     *)
(* duplicates too.                                                         *)
(***************************************************************************)
UnreportedAreCounted ==
    /\ IsFiniteSet(unreported)
    /\ Cardinality(unreported) <= retransmittablePacketsReceivedSinceLastAck
    /\ retransmittablePacketsReceivedSinceLastAck >= RetransmittablePacketsBeforeAck
          => ackQueued

IndInv ==
    /\ TypeOK
    /\ LimitBelowLargest
    /\ NothingToAckAtFirst
    /\ UnreportedAreCounted
    /\ unreported # {} => ackQueued \/ ackAlarm
    /\ AckFrameIsWritable

(***************************************************************************)
(* A new handler satisfies the invariant.                                  *)
(***************************************************************************)
LEMMA InitIndInv == Init => IndInv
<1>1. IsFiniteSet({}) /\ Cardinality({}) = 0
  BY FS_EmptySet
<1>2. Init => TypeOK
  <2>1. 0 \in 0 .. MaxPacketNumber /\ 0 \in 0 .. MaxSinceLastAck /\ 0 \in 0 .. 0
    BY ReceiverAssumption
  <2> QED
    BY <2>1, Zenon DEF Init, TypeOK
<1>3. Init => UnreportedAreCounted
  BY <1>1, ReceiverAssumption DEF Init, UnreportedAreCounted
<1> QED
  BY <1>2, <1>3 DEF Init, IndInv, LimitBelowLargest, NothingToAckAtFirst, AckFrameIsWritable

(***************************************************************************)
(* SetLowerLimit keeps the largest number observed in the history.         *)
(***************************************************************************)
LEMMA SetLowerLimitFact ==
    ASSUME TypeOK, NEW H \in SUBSET PacketNumber, NEW top \in H, \A n \in H : n <= top,
           NEW leastUnacked \in 0 .. MaxPacketNumber, leastUnacked <= top,
           lowerLimit < top, SetLowerLimit(leastUnacked, H)
    PROVE  /\ lowerLimit' \in 0 .. MaxPacketNumber
           /\ lowerLimit' < top
           /\ packetHistory' \subseteq PacketNumber
           /\ top \in packetHistory'
           /\ \A n \in packetHistory' : n <= top
<1>1. /\ top \in Nat /\ top <= MaxPacketNumber /\ MaxPacketNumber \in Nat
      /\ H \subseteq Nat
      /\ leastUnacked \in Nat
      /\ lowerLimit \in 0 .. MaxPacketNumber
  BY ReceiverAssumption DEF PacketNumber, TypeOK
<1>2. CASE leastUnacked = 0
  BY <1>1, <1>2, Zenon DEF SetLowerLimit, TypeOK
<1>3. CASE leastUnacked # 0
  <2>1. /\ lowerLimit' = leastUnacked - 1
        /\ packetHistory' = {n \in H : n > leastUnacked - 1}
    BY <1>3 DEF SetLowerLimit
  <2>2. leastUnacked - 1 \in 0 .. MaxPacketNumber /\ leastUnacked - 1 < top
    BY <1>1, <1>3
  <2>3. /\ packetHistory' \subseteq H
        /\ top \in packetHistory'
    BY <2>1, <2>2
  <2>4. /\ lowerLimit' \in 0 .. MaxPacketNumber
        /\ lowerLimit' < top
    BY <1>1, <2>1, <2>2
  <2> QED
    BY <2>3, <2>4
<1> QED
  BY <1>2, <1>3

(***************************************************************************)
(* ReceivedPacket, return by return.                                       *)
(***************************************************************************)
LEMMA ReceiveIndInv ==
    ASSUME IndInv, NEW pn \in PacketNumber, NEW instigate \in BOOLEAN,
           NEW leastUnacked \in 0 .. MaxPacketNumber,
           ReceivedPacket(pn, instigate, leastUnacked)
    PROVE  IndInv'
<1> USE DEF IndInv
<1>0. /\ pn \in Nat /\ pn >= 1 /\ pn <= MaxPacketNumber
      /\ MaxPacketNumber \in Nat
      /\ largestObserved \in 0 .. MaxPacketNumber
      /\ lowerLimit \in 0 .. MaxPacketNumber
      /\ leastUnacked <= pn
      /\ err = "nil"
      /\ packetHistory \subseteq PacketNumber
      /\ largestObserved > 0 => /\ largestObserved \in packetHistory
                                /\ lowerLimit < largestObserved
      /\ \A n \in packetHistory : n <= largestObserved
  BY ReceiverAssumption
  DEF PacketNumber, TypeOK, ReceivedPacket, AckFrameIsWritable, LimitBelowLargest
<1>1. CASE ReceivedBelowLimit(pn, leastUnacked)
  <2>1. /\ pn <= lowerLimit
        /\ UpdateLargestObserved(pn)
        /\ SetLowerLimit(leastUnacked, packetHistory)
        /\ UNCHANGED <<ackVars, lastAck, err, unreported>>
    BY <1>1 DEF ReceivedBelowLimit
  <2>2. largestObserved > 0 /\ pn < largestObserved /\ largestObserved' = largestObserved
    BY <1>0, <2>1 DEF UpdateLargestObserved, LimitBelowLargest
  <2>3. /\ lowerLimit' \in 0 .. MaxPacketNumber
        /\ lowerLimit' < largestObserved
        /\ packetHistory' \subseteq PacketNumber
        /\ largestObserved \in packetHistory'
        /\ \A n \in packetHistory' : n <= largestObserved
    BY <1>0, <2>1, <2>2, SetLowerLimitFact
  <2>4. TypeOK'
    BY <2>1, <2>2, <2>3 DEF TypeOK, ackVars
  <2> QED
    BY <1>0, <2>1, <2>2, <2>3, <2>4
    DEF LimitBelowLargest, NothingToAckAtFirst, UnreportedAreCounted,
        AckFrameIsWritable, ackVars
<1>2. CASE ReceivedTooManyRanges(pn)
  <2>1. /\ UpdateLargestObserved(pn)
        /\ err' = "tooManyRanges"
        /\ UNCHANGED <<lowerLimit, packetHistory, ackVars, lastAck, unreported>>
    BY <1>2 DEF ReceivedTooManyRanges
  <2>2. /\ largestObserved' \in 0 .. MaxPacketNumber
        /\ largestObserved' >= largestObserved /\ largestObserved' > 0
    BY <1>0, <2>1 DEF UpdateLargestObserved
  <2>3. TypeOK'
    BY <2>1, <2>2 DEF TypeOK, ackVars
  <2>4. LimitBelowLargest'
    BY <1>0, <1>2, <2>1, <2>2 DEF LimitBelowLargest, ReceivedTooManyRanges, UpdateLargestObserved
  <2> QED
    BY <2>1, <2>2, <2>3, <2>4
    DEF NothingToAckAtFirst, UnreportedAreCounted, AckFrameIsWritable, ackVars
<1>3. CASE ReceivedNew(pn, instigate, leastUnacked)
  <2> DEFINE H == packetHistory \cup {pn}
  <2>1. /\ pn > lowerLimit
        /\ UpdateLargestObserved(pn)
        /\ maybeQueueAck(pn, instigate, H)
        /\ SetLowerLimit(leastUnacked, H)
        /\ unreported' = IF instigate THEN unreported \cup {pn} ELSE unreported
        /\ UNCHANGED <<lastAck, err>>
    BY <1>3 DEF ReceivedNew
  <2>2. /\ largestObserved' \in H
        /\ \A n \in H : n <= largestObserved'
        /\ lowerLimit < largestObserved'
        /\ leastUnacked <= largestObserved'
        /\ H \in SUBSET PacketNumber
    <3>1. CASE largestObserved = 0
      BY <1>0, <2>1, <3>1 DEF UpdateLargestObserved, PacketNumber
    <3>2. CASE largestObserved > 0
      BY <1>0, <2>1, <3>2 DEF UpdateLargestObserved
    <3> QED
      BY <1>0, <3>1, <3>2
  <2>3. /\ lowerLimit' \in 0 .. MaxPacketNumber
        /\ lowerLimit' < largestObserved'
        /\ packetHistory' \subseteq PacketNumber
        /\ largestObserved' \in packetHistory'
        /\ \A n \in packetHistory' : n <= largestObserved'
    BY <2>1, <2>2, SetLowerLimitFact
  <2>4. largestObserved' \in 1 .. MaxPacketNumber
    BY <2>2 DEF PacketNumber
  <2> HIDE DEF H
  <2>5. /\ packetsReceivedSinceLastAck' = packetsReceivedSinceLastAck + 1
        /\ retransmittablePacketsReceivedSinceLastAck' =
              retransmittablePacketsReceivedSinceLastAck + IF instigate THEN 1 ELSE 0
        /\ ackQueued' \in BOOLEAN /\ ackAlarm' \in BOOLEAN
        /\ ackQueued => ackQueued'
        /\ ackAlarm => ackQueued' \/ ackAlarm'
        /\ instigate => ackQueued' \/ ackAlarm'
        /\ instigate /\ retransmittablePacketsReceivedSinceLastAck' >=
                           RetransmittablePacketsBeforeAck => ackQueued'
    BY <2>1, Zenon DEF maybeQueueAck
  <2>6. TypeOK'
    <3>1. /\ packetsReceivedSinceLastAck' \in 0 .. MaxSinceLastAck
          /\ retransmittablePacketsReceivedSinceLastAck' \in 0 .. packetsReceivedSinceLastAck'
      BY <2>5, ReceiverAssumption DEF TypeOK, ReceivedPacket
    <3> QED
      BY <1>0, <2>1, <2>3, <2>4, <2>5, <3>1 DEF TypeOK
  <2>7. UnreportedAreCounted'
    <3>1. /\ IsFiniteSet(unreported \cup {pn})
          /\ Cardinality(unreported) \in Nat
          /\ Cardinality(unreported \cup {pn}) <= Cardinality(unreported) + 1
          /\ Cardinality(unreported \cup {pn}) \in Nat
      <4>1. /\ Cardinality(unreported) \in Nat
            /\ IsFiniteSet(unreported \cup {pn})
            /\ Cardinality(unreported \cup {pn}) =
                  IF pn \in unreported THEN Cardinality(unreported)
                                      ELSE Cardinality(unreported) + 1
        BY FS_AddElement, FS_CardinalityType DEF UnreportedAreCounted
      <4> QED
        BY <4>1
    <3>2. retransmittablePacketsReceivedSinceLastAck \in Nat
      BY DEF TypeOK
    <3>3. CASE instigate
      BY <2>1, <2>5, <3>1, <3>2, <3>3 DEF UnreportedAreCounted
    <3>4. CASE ~instigate
      BY <2>1, <2>5, <3>2, <3>4 DEF UnreportedAreCounted
    <3> QED
      BY <3>3, <3>4
  <2>8. unreported' # {} => ackQueued' \/ ackAlarm'
    BY <2>1, <2>5
  <2> QED
    BY <1>0, <2>1, <2>3, <2>4, <2>6, <2>7, <2>8
    DEF LimitBelowLargest, NothingToAckAtFirst, AckFrameIsWritable
<1> QED
  BY <1>1, <1>2, <1>3 DEF ReceivedPacket

(***************************************************************************)
(* GetAckFrame.  By the invariant the history it reads is not empty.       *)
(***************************************************************************)
LEMMA GetAckFrameIndInv == ASSUME IndInv, GetAckFrame PROVE IndInv'
<1>1. largestObserved \in Nat /\ largestObserved > 0
  BY DEF IndInv, TypeOK, NothingToAckAtFirst, GetAckFrame
<1>2. packetHistory # {}
  BY <1>1 DEF IndInv, AckFrameIsWritable, GetAckFrame
<1>3. /\ lastAck' = largestObserved
      /\ ackAlarm' = FALSE
      /\ ackQueued' = FALSE
      /\ packetsReceivedSinceLastAck' = 0
      /\ retransmittablePacketsReceivedSinceLastAck' = 0
      /\ unreported' = {}
      /\ UNCHANGED <<err, largestObserved, lowerLimit, packetHistory>>
  BY <1>2 DEF GetAckFrame
<1>4. IsFiniteSet({}) /\ Cardinality({}) = 0
  BY FS_EmptySet
<1>5. TypeOK'
  <2>1. /\ packetsReceivedSinceLastAck' \in 0 .. MaxSinceLastAck
        /\ retransmittablePacketsReceivedSinceLastAck' \in 0 .. packetsReceivedSinceLastAck'
    BY <1>3, ReceiverAssumption
  <2> QED
    BY <1>3, <2>1, Zenon DEF IndInv, TypeOK
<1> QED
  BY <1>3, <1>4, <1>5, ReceiverAssumption
  DEF IndInv, LimitBelowLargest, NothingToAckAtFirst, UnreportedAreCounted,
      AckFrameIsWritable

(***************************************************************************)
(* Every step preserves the invariant.                                     *)
(***************************************************************************)
LEMMA NextIndInv == IndInv /\ [Next]_vars => IndInv'
<1> SUFFICES ASSUME IndInv, [Next]_vars PROVE IndInv'
  OBVIOUS
<1>1. CASE Receive
  BY <1>1, ReceiveIndInv DEF Receive
<1>2. CASE GetAckFrame
  BY <1>2, GetAckFrameIndInv
<1>3. CASE UNCHANGED vars
  BY <1>3 DEF vars, ackVars, IndInv, TypeOK, LimitBelowLargest, NothingToAckAtFirst,
              UnreportedAreCounted, AckFrameIsWritable
<1> QED
  BY <1>1, <1>2, <1>3 DEF Next

(***************************************************************************)
(* The types of the handler's fields.                                      *)
(***************************************************************************)
THEOREM TypeTheorem == Spec => []TypeOK
<1>1. IndInv => TypeOK
  BY DEF IndInv
<1> QED
  BY <1>1, InitIndInv, NextIndInv, PTL DEF Spec

(***************************************************************************)
(* GetAckFrame never indexes an empty range list, and the frame it builds  *)
(* ends in its LargestAcked.                                               *)
(***************************************************************************)
THEOREM AckFrameTheorem == Spec => []AckFrameIsWritable
<1>1. IndInv => AckFrameIsWritable
  BY DEF IndInv
<1> QED
  BY <1>1, InitIndInv, NextIndInv, PTL DEF Spec

(***************************************************************************)
(* maybeQueueAck leaves no packet that asks for an ACK without one.        *)
(***************************************************************************)
THEOREM AckIsComingTheorem == Spec => []AckIsComing
<1>1. IndInv => AckIsComing
  <2> SUFFICES ASSUME IndInv PROVE AckIsComing
    OBVIOUS
  <2>1. Cardinality(unreported) \in Nat
    BY FS_CardinalityType DEF IndInv, UnreportedAreCounted
  <2> QED
    BY <2>1, ReceiverAssumption DEF IndInv, TypeOK, UnreportedAreCounted, AckIsComing
<1> QED
  BY <1>1, InitIndInv, NextIndInv, PTL DEF Spec
=============================================================================
