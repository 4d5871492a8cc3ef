----------------------- MODULE ReceivedPacketHistory -----------------------
(***************************************************************************)
(* ackhandler/received_packet_history.go: the ascending linked list of     *)
(* packet number intervals of a path.                                      *)
(***************************************************************************)
EXTENDS Integers, Sequences, FiniteSets, SequencesExt, AckRanges

CONSTANTS
    MaxPacketNumber,             \* bound on the numbers received
    MaxTrackedReceivedAckRanges  \* protocol.MaxTrackedReceivedAckRanges

HistoryAssumption ==
    MaxPacketNumber \in Nat /\ MaxTrackedReceivedAckRanges \in Nat \ {0}

VARIABLE ranges

PacketNumber == 1 .. MaxPacketNumber
PacketInterval == [Start : PacketNumber, End : PacketNumber]

newReceivedPacketHistory == ranges = << >>

(***************************************************************************)
(* Mutant: a number below a gap of one touches the interval.               *)
(***************************************************************************)
MutFillsGap(rs, i, p) ==
    LET r == rs[i]
    IN  IF p >= r.Start /\ p <= r.End THEN rs
        ELSE IF r.End \in {p - 1, p - 2} THEN [rs EXCEPT ![i].End = p]
        ELSE InsertAt(rs, i + 1, [Start |-> p, End |-> p])

(***************************************************************************)
(* The loop of ReceivedPacket runs from the back of the list and ends at   *)
(* the first interval that contains p, touches it or lies below it.        *)
(***************************************************************************)
EndsLoop(r, p) == p >= r.Start - 1

MergeWithPrevious(rs, i) ==
    IF i > 1 /\ rs[i - 1].End + 1 = rs[i].Start
    THEN RemoveAt([rs EXCEPT ![i - 1].End = rs[i].End], i) ELSE rs

ExtendOrInsertAt(rs, i, p) ==
    LET r == rs[i]
    IN  IF p >= r.Start /\ p <= r.End THEN rs
        ELSE IF r.End = p - 1
             THEN MergeWithPrevious([rs EXCEPT ![i].End = p], i)
        ELSE IF r.Start = p + 1
             THEN MergeWithPrevious([rs EXCEPT ![i].Start = p], i)
        ELSE InsertAt(rs, i + 1, [Start |-> p, End |-> p])

AddNumber(rs, p) ==
    LET i == SelectLastInSeq(rs, LAMBDA r : EndsLoop(r, p))
    IN  IF i = 0 THEN <<[Start |-> p, End |-> p]>> \o rs
        ELSE ExtendOrInsertAt(rs, i, p)

ReceivedPacket(p) ==
    /\ Len(ranges) < MaxTrackedReceivedAckRanges
    /\ ranges' = AddNumber(ranges, p)

(***************************************************************************)
(* ReceivedPacket returns errTooManyOutstandingReceivedAckRanges.          *)
(***************************************************************************)
ReceivedPacketTooMany(p) ==
    /\ Len(ranges) >= MaxTrackedReceivedAckRanges
    /\ UNCHANGED ranges

(***************************************************************************)
(* DeleteUpTo removes leading intervals that end by p, cuts the one that p *)
(* falls into, and returns at the first it leaves alone.                   *)
(***************************************************************************)
RemainingAfter(rs, p) ==
    LET keep == {i \in DOMAIN rs : rs[i].End > p}
        first == IF keep = {} THEN Len(rs) + 1
                 ELSE CHOOSE i \in keep : \A j \in keep : i <= j
        rest == SubSeq(rs, first, Len(rs))
    IN  IF rest # << >> /\ p >= rest[1].Start
        THEN [rest EXCEPT ![1].Start = p + 1] ELSE rest

DeleteUpTo(p) == ranges' = RemainingAfter(ranges, p)

GetAckRanges ==
    Reverse([i \in DOMAIN ranges |->
                [First |-> ranges[i].Start, Last |-> ranges[i].End]])

Init == newReceivedPacketHistory

Next ==
    \/ \E p \in PacketNumber : ReceivedPacket(p) \/ ReceivedPacketTooMany(p)
    \/ \E p \in 0 .. MaxPacketNumber : DeleteUpTo(p)

Spec == Init /\ [][Next]_ranges

-----------------------------------------------------------------------------
(***************************************************************************)
(* The list implements a set of packet numbers.                            *)
(***************************************************************************)
numbers == UNION {ranges[i].Start .. ranges[i].End : i \in DOMAIN ranges}

Abstract == INSTANCE PacketNumberSet

=============================================================================
