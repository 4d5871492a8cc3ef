------------------------- MODULE SentPacketHandler -------------------------
(***************************************************************************)
(* The sender's bookkeeping of one path: ackhandler/sent_packet_handler.go *)
(* with its stopWaitingManager.  All calls come from the session's run     *)
(* loop, so each method is one atomic action.                              *)
(*                                                                         *)
(* Packets are records of number, payload frames and length.  The linked   *)
(* list packetHistory is the set of the packets in it: the list is sorted  *)
(* by number because SentPacket only accepts increasing numbers, so Front  *)
(* is the lowest and Back the highest.  Clock readings are abstracted to   *)
(* what the code decides by them: whether lossTime is set, which kind of   *)
(* alarm is armed, and how long a prefix of the packets up to LargestAcked *)
(* is past the reordering window.  An ACK range list is the set of numbers *)
(* it covers (module ReceivedPacketHistory relates the two).               *)
(***************************************************************************)
EXTENDS Integers, Sequences, FiniteSets, FiniteSetsExt

CONSTANTS
    MaxPacketNumber,          \* bound on the numbers sent in a behaviour
    MaxPeerPacketNumber,      \* bound on the numbers of received packets
    MaxTrackedSentPackets,    \* protocol.MaxTrackedSentPackets
    MaxTrackedSkippedPackets, \* protocol.MaxTrackedSkippedPackets
    maxTailLossProbes,
    MaxRTOs,                  \* bound on rtoCount
    Payloads                  \* the contents offered to SentPacket

(***************************************************************************)
(* One frame type per case of IsFrameRetransmittable and IsRetransmittable.*)
(***************************************************************************)
FrameTypes == {"stream", "unreliable", "ack", "closePath"}

ASSUME BoundsAssumption ==
    /\ MaxPacketNumber \in Nat
    /\ MaxPeerPacketNumber \in Nat
    /\ MaxTrackedSentPackets \in Nat
    /\ MaxTrackedSkippedPackets \in Nat
    /\ maxTailLossProbes \in Nat
    /\ MaxRTOs \in Nat

ASSUME PayloadsAssumption ==
    Payloads \subseteq [frames : SUBSET FrameTypes, length : Nat]

VARIABLES
    lastSentPacketNumber,
    skippedPackets,
    LargestAcked,
    largestReceivedPacketWithAck,
    packetHistory,
    retransmissionQueue,
    bytesInFlight,
    rttKnown,                 \* rttStats.SmoothedRTT() != 0
    tlpCount,
    rtoCount,
    lossTime,                 \* !lossTime.IsZero()
    alarm,                    \* what the alarm was set for, or "none"
    largestLeastUnackedSent,
    nextLeastUnacked,
    lastStopWaitingFrame,     \* its LeastUnacked, 0 for nil
    err,                      \* what the last call returned
    owed                      \* history: tracked packets that were neither
                              \* acknowledged nor handed out to be resent

stopWaitingVars ==
    <<largestLeastUnackedSent, nextLeastUnacked, lastStopWaitingFrame>>
numberVars == <<lastSentPacketNumber, skippedPackets, LargestAcked,
                largestReceivedPacketWithAck>>
historyVars == <<packetHistory, retransmissionQueue, bytesInFlight>>
alarmVars == <<rttKnown, tlpCount, rtoCount, lossTime, alarm>>
vars == <<numberVars, historyVars, alarmVars, stopWaitingVars, err, owed>>

PacketNumber == 1 .. MaxPacketNumber
Packet == [pn : PacketNumber, frames : SUBSET FrameTypes, length : Nat]
AlarmKind == {"none", "lossTime", "tlp", "rto"}
Result == {"nil", "tooManyTracked", "ackForUnsent", "duplicateAck",
           "ackForSkipped"}

IsFrameRetransmittable(f) == f \notin {"ack", "unreliable"}
stripNonRetransmittableFrames(fs) == {f \in fs : IsFrameRetransmittable(f)}

(***************************************************************************)
(* Packet.IsRetransmittable: a stricter test than the one above, it knows  *)
(* no CLOSE_PATH frame.                                                    *)
(***************************************************************************)
IsRetransmittable(p) == \E f \in p.frames : f \in {"stream", "unreliable"}

Numbers(S) == {p.pn : p \in S}
QueueSet(q) == {q[i] : i \in DOMAIN q}
Largest(S) == {n \in S : \A m \in S : m <= n}
IsNewest(p, H) == p \in H /\ \A q \in H : q.pn <= p.pn

(***************************************************************************)
(* Mutant: the last packet found lost is left out of the queue.            *)
(***************************************************************************)
MutInOrderDropsLast(S) ==
    {s \in [1 .. Cardinality(S) - 1 -> S] :
        \A i, j \in DOMAIN s : i < j => s[i].pn < s[j].pn}

(***************************************************************************)
(* The ascending enumeration of a set of packets, as a singleton set.      *)
(***************************************************************************)
InOrder(S) ==
    {s \in [1 .. Cardinality(S) -> S] :
        /\ \A i, j \in DOMAIN s : i < j => s[i].pn < s[j].pn
        /\ S = {s[i] : i \in DOMAIN s}}

(***************************************************************************)
(* The bytes of a set of packets, told apart by packet and position, and   *)
(* how many they are: the sum of the lengths.                              *)
(***************************************************************************)
Bytes(S) == UNION {{p} \X (1 .. p.length) : p \in S}
TotalLength(S) == Cardinality(Bytes(S))

largestInOrderAcked(H, la) == IF H = {} THEN la ELSE Min(Numbers(H)) - 1

(***************************************************************************)
(* Mutant: no alarm before the first RTT sample.                           *)
(***************************************************************************)
MutNoAlarmWithoutRTT(H, loss, rtt, tlp) ==
    IF H = {} \/ ~rtt THEN "none"
    ELSE IF loss THEN "lossTime"
    ELSE IF tlp < maxTailLossProbes THEN "tlp"
    ELSE "rto"

(***************************************************************************)
(* updateLossDetectionAlarm, given the state it is called in.              *)
(***************************************************************************)
updateLossDetectionAlarm(H, loss, rtt, tlp) ==
    IF H = {} THEN "none"
    ELSE IF loss THEN "lossTime"
    ELSE IF rtt /\ tlp < maxTailLossProbes THEN "tlp"
    ELSE "rto"

(***************************************************************************)
(* The sets of packets detectLostPackets may find lost: those of the       *)
(* packets up to LargestAcked that are past the reordering window.  Send   *)
(* times grow with the packet number, so they are a prefix.                *)
(***************************************************************************)
LossCandidates(H, la) == {p \in H : p.pn <= la}
PossiblyLost(H, la) ==
    {L \in SUBSET LossCandidates(H, la) :
        \A p \in L : \A q \in LossCandidates(H, la) : q.pn < p.pn => q \in L}

(***************************************************************************)
(* stopWaitingManager.ReceivedAck and QueuedRetransmissionForPacketNumber  *)
(* both raise nextLeastUnacked above the numbers they are given.           *)
(***************************************************************************)
RaiseNextLeastUnacked(pns) ==
    /\ nextLeastUnacked' \in Largest({nextLeastUnacked} \cup {n + 1 : n \in pns})
    /\ UNCHANGED <<largestLeastUnackedSent, lastStopWaitingFrame>>

(***************************************************************************)
(* Mutants: a lost packet stays in bytesInFlight, or is subtracted twice.  *)
(***************************************************************************)
MutLostStaysInFlight(A, L) ==
    /\ packetHistory' = packetHistory \ (A \cup L)
    /\ bytesInFlight' = bytesInFlight - TotalLength(A)
    /\ \E s \in InOrder(L) : retransmissionQueue' = retransmissionQueue \o s

(***************************************************************************)
(* queuePacketForRetransmission for the packets of L in ascending order,   *)
(* after the packets of A were removed by onPacketAcked.                   *)
(***************************************************************************)
RemoveAckedAndQueueLost(A, L) ==
    /\ packetHistory' = packetHistory \ (A \cup L)
    /\ bytesInFlight' = bytesInFlight - TotalLength(A) - TotalLength(L)
    /\ \E s \in InOrder(L) : retransmissionQueue' = retransmissionQueue \o s

queuePacketsForRetransmission(L) == RemoveAckedAndQueueLost({}, L)

garbageCollectSkippedPackets(s, lioa) == {n \in s : n > lioa}

(***************************************************************************)
(* An error other than ErrDuplicateOrOutOfOrderAck makes handleFrames or   *)
(* sendPacket return it and the session close: no further call is made.    *)
(***************************************************************************)
Running == err \in {"nil", "duplicateAck"}

Init ==
    /\ lastSentPacketNumber = 0
    /\ skippedPackets = {}
    /\ LargestAcked = 0
    /\ largestReceivedPacketWithAck = 0
    /\ packetHistory = {}
    /\ retransmissionQueue = << >>
    /\ bytesInFlight = 0
    /\ rttKnown = FALSE
    /\ tlpCount = 0
    /\ rtoCount = 0
    /\ lossTime = FALSE
    /\ alarm = "none"
    /\ largestLeastUnackedSent = 0
    /\ nextLeastUnacked = 0
    /\ lastStopWaitingFrame = 0
    /\ err = "nil"
    /\ owed = {}

-----------------------------------------------------------------------------
(***************************************************************************)
(* SentPacket.  The generator promises never to skip two numbers in a row. *)
(***************************************************************************)
Tracked == Len(retransmissionQueue) + Cardinality(packetHistory)

(***************************************************************************)
(* Mutant: the number sent is itself noted as skipped.                     *)
(***************************************************************************)
MutSkipsSentNumber(pn) ==
    LET s == skippedPackets \cup (lastSentPacketNumber + 1 .. pn)
    IN  {n \in s : Cardinality({m \in s : m > n}) < MaxTrackedSkippedPackets}

TrackSkipped(pn) ==
    LET s == skippedPackets \cup (lastSentPacketNumber + 1 .. pn - 1)
    IN  {n \in s : Cardinality({m \in s : m > n}) < MaxTrackedSkippedPackets}

RecordSentPacket(pn, payload) ==
    LET frames == stripNonRetransmittableFrames(payload.frames)
        packet == [pn |-> pn, frames |-> frames, length |-> payload.length]
        H      == IF frames # {} THEN packetHistory \cup {packet}
                                 ELSE packetHistory
    IN  /\ pn > lastSentPacketNumber
        /\ Tracked + 1 <= MaxTrackedSentPackets
        /\ skippedPackets' = TrackSkipped(pn)
        /\ lastSentPacketNumber' = pn
        /\ packetHistory' = H
        /\ bytesInFlight' = IF frames # {} THEN bytesInFlight + payload.length
                                           ELSE bytesInFlight
        /\ owed' = IF frames # {} THEN owed \cup {pn} ELSE owed
        /\ alarm' = updateLossDetectionAlarm(H, lossTime, rttKnown, tlpCount)
        /\ err' = "nil"
        /\ UNCHANGED <<LargestAcked, largestReceivedPacketWithAck, rttKnown,
                       tlpCount, rtoCount, lossTime, stopWaitingVars>>

SentPacket(pn, payload) ==
    /\ Running
    /\ RecordSentPacket(pn, payload)
    /\ UNCHANGED retransmissionQueue

(***************************************************************************)
(* The scheduler calls DuplicatePacket right after sending on a path whose *)
(* RTT is unknown, with all the frames of the packet just sent.            *)
(***************************************************************************)
DuplicatePacket(pn, payload) ==
    /\ Running
    /\ ~rttKnown
    /\ RecordSentPacket(pn, payload)
    /\ retransmissionQueue' = Append(retransmissionQueue,
           [pn |-> pn, frames |-> payload.frames, length |-> payload.length])

SentPacketTooManyTracked ==
    /\ Running
    /\ lastSentPacketNumber < MaxPacketNumber
    /\ Tracked + 1 > MaxTrackedSentPackets
    /\ err' = "tooManyTracked"
    /\ UNCHANGED <<numberVars, historyVars, alarmVars, stopWaitingVars, owed>>

-----------------------------------------------------------------------------
(***************************************************************************)
(* ReceivedAck(ack, withPacketNumber): an ACK frame has its LargestAcked   *)
(* and the set of the numbers its ranges cover.  The five outcomes are the *)
(* method's returns, in its order.                                         *)
(***************************************************************************)
AckForUnsentPacket(ack) ==
    /\ ack.LargestAcked > lastSentPacketNumber
    /\ err' = "ackForUnsent"
    /\ UNCHANGED <<numberVars, historyVars, alarmVars, stopWaitingVars, owed>>

DuplicateOrOutOfOrderAck(ack, withPacketNumber) ==
    /\ ack.LargestAcked <= lastSentPacketNumber
    /\ withPacketNumber <= largestReceivedPacketWithAck
    /\ err' = "duplicateAck"
    /\ UNCHANGED <<numberVars, historyVars, alarmVars, stopWaitingVars, owed>>

AckInOrder(ack, withPacketNumber) ==
    /\ ack.LargestAcked <= lastSentPacketNumber
    /\ withPacketNumber > largestReceivedPacketWithAck
    /\ largestReceivedPacketWithAck' = withPacketNumber

RepeatedAck(ack, withPacketNumber) ==
    /\ AckInOrder(ack, withPacketNumber)
    /\ ack.LargestAcked <= largestInOrderAcked(packetHistory, LargestAcked)
    /\ err' = "nil"
    /\ owed' = owed \ ack.acked
    /\ UNCHANGED <<lastSentPacketNumber, skippedPackets, LargestAcked,
                   historyVars, alarmVars, stopWaitingVars>>

AckForSkippedPacket(ack, withPacketNumber) ==
    /\ AckInOrder(ack, withPacketNumber)
    /\ ack.LargestAcked > largestInOrderAcked(packetHistory, LargestAcked)
    /\ LargestAcked' = ack.LargestAcked
    /\ skippedPackets \cap ack.acked # {}
    /\ err' = "ackForSkipped"
    /\ UNCHANGED <<lastSentPacketNumber, skippedPackets, historyVars, alarmVars,
                   stopWaitingVars, owed>>

(***************************************************************************)
(* Mutant: gaps between the ranges are taken as acknowledged.              *)
(***************************************************************************)
MutGapsAcked(ack) == {p \in packetHistory : p.pn <= ack.LargestAcked}

NewlyAcked(ack) == {p \in packetHistory : p.pn \in ack.acked}

NewAck(ack, withPacketNumber) ==
    LET A == NewlyAcked(ack)
        H == packetHistory \ A
    IN  /\ AckInOrder(ack, withPacketNumber)
        /\ ack.LargestAcked > largestInOrderAcked(packetHistory, LargestAcked)
        /\ skippedPackets \cap ack.acked = {}
        /\ LargestAcked' = ack.LargestAcked
        /\ rttKnown' = (rttKnown \/ ack.LargestAcked \in Numbers(packetHistory))
        /\ tlpCount' = IF A # {} THEN 0 ELSE tlpCount
        /\ rtoCount' = IF A # {} THEN 0 ELSE rtoCount
        /\ \E L \in PossiblyLost(H, ack.LargestAcked) :
              /\ RemoveAckedAndQueueLost(A, L)
              /\ lossTime' = (LossCandidates(H, ack.LargestAcked) # L)
              /\ RaiseNextLeastUnacked(Numbers(L) \cup {ack.LargestAcked})
        /\ alarm' = updateLossDetectionAlarm(packetHistory', lossTime',
                                             rttKnown', tlpCount')
        /\ skippedPackets' = garbageCollectSkippedPackets(skippedPackets,
                               largestInOrderAcked(packetHistory', ack.LargestAcked))
        /\ owed' = owed \ ack.acked
        /\ err' = "nil"
        /\ UNCHANGED lastSentPacketNumber

ReceivedAck(ack, withPacketNumber) ==
    /\ Running
    /\ \/ AckForUnsentPacket(ack)
       \/ DuplicateOrOutOfOrderAck(ack, withPacketNumber)
       \/ RepeatedAck(ack, withPacketNumber)
       \/ AckForSkippedPacket(ack, withPacketNumber)
       \/ NewAck(ack, withPacketNumber)

(***************************************************************************)
(* ReceivedClosePath.  handleFrames drops what handleClosePathFrame        *)
(* returns, so an error leaves the session running.  LargestAcked, the     *)
(* alarm and the stop-waiting bound of the ACK path are not updated;       *)
(* SetInflightAsLost queues the packets up to LargestAcked.                *)
(***************************************************************************)
SetInflightAsLost(H) == {p \in H : p.pn <= LargestAcked}

ReceivedClosePath(ack, withPacketNumber) ==
    LET A == NewlyAcked(ack)
        L == SetInflightAsLost(packetHistory \ A)
    IN  /\ Running
        /\ AckInOrder(ack, withPacketNumber)
        /\ skippedPackets \cap ack.acked = {}
        /\ tlpCount' = IF A # {} THEN 0 ELSE tlpCount
        /\ rtoCount' = IF A # {} THEN 0 ELSE rtoCount
        /\ RemoveAckedAndQueueLost(A, L)
        /\ RaiseNextLeastUnacked(Numbers(L))
        /\ skippedPackets' = garbageCollectSkippedPackets(skippedPackets,
                               largestInOrderAcked(packetHistory', LargestAcked))
        /\ owed' = owed \ ack.acked
        /\ err' = "nil"
        /\ UNCHANGED <<lastSentPacketNumber, LargestAcked, rttKnown, lossTime,
                       alarm>>

ClosePathForSkippedPacket(ack, withPacketNumber) ==
    /\ Running
    /\ AckInOrder(ack, withPacketNumber)
    /\ skippedPackets \cap ack.acked # {}
    /\ UNCHANGED <<lastSentPacketNumber, skippedPackets, LargestAcked,
                   historyVars, alarmVars, stopWaitingVars, err, owed>>

-----------------------------------------------------------------------------
(***************************************************************************)
(* OnAlarm: the session calls it once the armed alarm's time has passed.   *)
(* An expired lossTime is the moment at which the oldest candidate leaves  *)
(* the reordering window, so detectLostPackets then finds at least that    *)
(* one.  onRTO decides whether the path has potentially failed.            *)
(***************************************************************************)
OnAlarmNothingToRetransmit ==
    /\ Running
    /\ alarm # "none"
    /\ \A p \in packetHistory : ~IsRetransmittable(p)
    /\ alarm' = "none"
    /\ UNCHANGED <<numberVars, historyVars, rttKnown, tlpCount, rtoCount,
                   lossTime, stopWaitingVars, err, owed>>

AlarmFires ==
    /\ Running
    /\ alarm # "none"
    /\ \E p \in packetHistory : IsRetransmittable(p)
    /\ alarm' = updateLossDetectionAlarm(packetHistory', lossTime', rttKnown,
                                         tlpCount')
    /\ UNCHANGED <<numberVars, rttKnown, err, owed>>

OnAlarmLossTime ==
    /\ lossTime
    /\ \E L \in PossiblyLost(packetHistory, LargestAcked) :
          /\ LossCandidates(packetHistory, LargestAcked) # {} => L # {}
          /\ queuePacketsForRetransmission(L)
          /\ RaiseNextLeastUnacked(Numbers(L))
          /\ lossTime' = (LossCandidates(packetHistory, LargestAcked) # L)
    /\ UNCHANGED <<tlpCount, rtoCount>>
    /\ AlarmFires

OnAlarmTLP ==
    /\ ~lossTime
    /\ tlpCount < maxTailLossProbes
    /\ \E p \in packetHistory :
          /\ IsNewest(p, packetHistory)
          /\ queuePacketsForRetransmission({p})
          /\ RaiseNextLeastUnacked({p.pn})
    /\ tlpCount' = tlpCount + 1
    /\ UNCHANGED <<rtoCount, lossTime>>
    /\ AlarmFires

OldestTwo(H) == {p \in H : Cardinality({q \in H : q.pn < p.pn}) < 2}

OnAlarmRTO(potentiallyFailed) ==
    LET L == IF potentiallyFailed THEN packetHistory ELSE OldestTwo(packetHistory)
    IN  /\ ~lossTime
        /\ tlpCount >= maxTailLossProbes
        /\ rtoCount < MaxRTOs
        /\ queuePacketsForRetransmission(L)
        /\ RaiseNextLeastUnacked(Numbers(L))
        /\ rtoCount' = rtoCount + 1
        /\ UNCHANGED <<tlpCount, lossTime>>
        /\ AlarmFires

OnAlarm ==
    \/ OnAlarmNothingToRetransmit
    \/ OnAlarmLossTime
    \/ OnAlarmTLP
    \/ \E potentiallyFailed \in BOOLEAN : OnAlarmRTO(potentiallyFailed)

-----------------------------------------------------------------------------
(***************************************************************************)
(* Mutant: the last packet of the queue is left in it.                     *)
(***************************************************************************)
MutLeavesLast ==
    /\ Running
    /\ Len(retransmissionQueue) > 1
    /\ owed' = owed \ {Head(retransmissionQueue).pn}
    /\ retransmissionQueue' = Tail(retransmissionQueue)
    /\ UNCHANGED <<numberVars, packetHistory, bytesInFlight, alarmVars,
                   stopWaitingVars, err>>

DequeuePacketForRetransmission ==
    /\ Running
    /\ retransmissionQueue # << >>
    /\ owed' = owed \ {Head(retransmissionQueue).pn}
    /\ retransmissionQueue' = Tail(retransmissionQueue)
    /\ UNCHANGED <<numberVars, packetHistory, bytesInFlight, alarmVars,
                   stopWaitingVars, err>>

(***************************************************************************)
(* stopWaitingManager.GetStopWaitingFrame(force).  largestLeastUnackedSent *)
(* and lastStopWaitingFrame are set together, so the case in which a frame *)
(* is made up for a forced call is the second one here.                    *)
(***************************************************************************)
GetStopWaitingFrame(force) ==
    /\ Running
    /\ \/ /\ nextLeastUnacked > largestLeastUnackedSent
          /\ largestLeastUnackedSent' = nextLeastUnacked
          /\ lastStopWaitingFrame' = nextLeastUnacked
       \/ /\ nextLeastUnacked <= largestLeastUnackedSent
          /\ lastStopWaitingFrame' =
                IF force /\ lastStopWaitingFrame = 0 /\ largestLeastUnackedSent > 0
                THEN nextLeastUnacked ELSE lastStopWaitingFrame
          /\ UNCHANGED largestLeastUnackedSent
    /\ UNCHANGED <<numberVars, historyVars, alarmVars, nextLeastUnacked, err,
                   owed>>

(***************************************************************************)
(* The calls of the session's run loop.                                    *)
(***************************************************************************)
Send ==
    \E pn \in PacketNumber, payload \in Payloads :
        /\ pn <= lastSentPacketNumber + 2
        /\ SentPacket(pn, payload) \/ DuplicatePacket(pn, payload)

PeerPacketNumber == 1 .. MaxPeerPacketNumber
AckFrame == [LargestAcked : PacketNumber, acked : SUBSET PacketNumber]
AckFrames == {f \in AckFrame : f.LargestAcked \in Largest(f.acked)}

HandleAck ==
    \E ack \in AckFrames, with \in PeerPacketNumber : ReceivedAck(ack, with)

HandleClosePath ==
    \E ack \in AckFrames, with \in PeerPacketNumber :
        ReceivedClosePath(ack, with) \/ ClosePathForSkippedPacket(ack, with)

Next ==
    \/ Send
    \/ SentPacketTooManyTracked
    \/ HandleAck
    \/ HandleClosePath
    \/ OnAlarm
    \/ DequeuePacketForRetransmission
    \/ \E force \in BOOLEAN : GetStopWaitingFrame(force)

Spec == Init /\ [][Next]_vars

(***************************************************************************)
(* The path's timer wakes the session's run loop for an armed alarm, and   *)
(* each of its iterations asks getRetransmission for all queued packets.   *)
(***************************************************************************)
FairSpec ==
    /\ Spec
    /\ WF_vars(OnAlarm)
    /\ WF_vars(DequeuePacketForRetransmission)

-----------------------------------------------------------------------------
TypeOK ==
    /\ lastSentPacketNumber \in 0 .. MaxPacketNumber
    /\ skippedPackets \subseteq PacketNumber
    /\ LargestAcked \in 0 .. MaxPacketNumber
    /\ largestReceivedPacketWithAck \in 0 .. MaxPeerPacketNumber
    /\ packetHistory \subseteq Packet
    /\ retransmissionQueue \in Seq(Packet)
    /\ bytesInFlight \in Nat
    /\ rttKnown \in BOOLEAN
    /\ tlpCount \in 0 .. maxTailLossProbes
    /\ rtoCount \in 0 .. MaxRTOs
    /\ lossTime \in BOOLEAN
    /\ alarm \in AlarmKind
    /\ largestLeastUnackedSent \in 0 .. MaxPacketNumber + 1
    /\ nextLeastUnacked \in 0 .. MaxPacketNumber + 1
    /\ lastStopWaitingFrame \in 0 .. MaxPacketNumber + 1
    /\ err \in Result
    /\ owed \subseteq PacketNumber

(***************************************************************************)
(* The counter the congestion control is fed with agrees with the packets  *)
(* it stands for, through sends, ACKs, losses, probes and RTOs.  The code  *)
(* keeps it unsigned: one packet subtracted twice would wrap it around and *)
(* the path would never be allowed to send again.                          *)
(***************************************************************************)
BytesInFlightMatchesHistory == bytesInFlight = TotalLength(packetHistory)

(***************************************************************************)
(* No retransmittable packet is forgotten: until it is acknowledged or     *)
(* handed to getRetransmission it is in the history or in the queue.       *)
(***************************************************************************)
NothingForgotten ==
    owed \subseteq Numbers(packetHistory) \cup Numbers(QueueSet(retransmissionQueue))

(***************************************************************************)
(* While a packet that OnAlarm would retransmit is outstanding the alarm   *)
(* is armed, and for lossTime when that is set: otherwise the path's timer *)
(* has nothing to wake up for and a tail loss is never repaired.           *)
(***************************************************************************)
AlarmCoversOutstanding ==
    (\E p \in packetHistory : IsRetransmittable(p)) =>
        /\ alarm # "none"
        /\ lossTime => alarm = "lossTime"

(***************************************************************************)
(* A STOP_WAITING frame handed out can be written: StopWaitingFrame.Write  *)
(* refuses a LeastUnacked above the number of the packet that carries it,  *)
(* which is at least lastSentPacketNumber + 1.                             *)
(***************************************************************************)
StopWaitingIsWritable ==
    /\ lastStopWaitingFrame <= lastSentPacketNumber + 1
    /\ nextLeastUnacked <= lastSentPacketNumber + 1

(***************************************************************************)
(* A number that SentPacket noted as skipped is never tracked as sent:     *)
(* otherwise the ACK of an honest peer would be taken for an optimistic    *)
(* ACK and close the session.                                              *)
(***************************************************************************)
SkippedNeverTracked ==
    skippedPackets \cap (Numbers(packetHistory) \cup Numbers(QueueSet(retransmissionQueue))) = {}

(***************************************************************************)
(* A packet handed out once is tracked again only as a packet of a higher  *)
(* number: history numbers never come back.                                *)
(***************************************************************************)
HistoryOnlyGrowsAtTheEnd ==
    [][\A p \in packetHistory' \ packetHistory :
          \A q \in packetHistory \cup QueueSet(retransmissionQueue) : q.pn < p.pn]_vars

(***************************************************************************)
(* A retransmittable packet does not stay outstanding for ever: it is      *)
(* acknowledged, or loss detection, a tail loss probe or an RTO hands it   *)
(* to getRetransmission, unless the session is closed by an error.         *)
(***************************************************************************)
OutstandingIsResolved ==
    \A pn \in PacketNumber : (pn \in owed) ~> (pn \notin owed \/ ~Running)
=============================================================================
