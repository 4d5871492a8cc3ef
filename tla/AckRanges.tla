----------------------------- MODULE AckRanges -----------------------------
(***************************************************************************)
(* ACK ranges as the code handles them: a sequence of records First, Last  *)
(* in descending order (wire.AckFrame.AckRanges), and the walk of          *)
(* determineNewlyAckedPackets over the packet history and the ranges in    *)
(* step, ascending.                                                        *)
(***************************************************************************)
EXTENDS Integers, Sequences, SequencesExt

(***************************************************************************)
(* The numbers a range list stands for.                                    *)
(***************************************************************************)
Covered(ackRanges) ==
    UNION {ackRanges[i].First .. ackRanges[i].Last : i \in DOMAIN ackRanges}

(***************************************************************************)
(* An ACK frame carries its ranges only when there is more than one.       *)
(***************************************************************************)
AckFrameOf(ackRanges) ==
    [LargestAcked |-> ackRanges[1].Last,
     LowestAcked |-> ackRanges[Len(ackRanges)].First,
     AckRanges |-> IF Len(ackRanges) > 1 THEN ackRanges ELSE << >>]

HasMissingRanges(frame) == Len(frame.AckRanges) > 0

(***************************************************************************)
(* The index the inner loop stops at for packet number pn, counted from    *)
(* the end of the list.                                                    *)
(***************************************************************************)
AdvanceTo(frame, index, pn) ==
    LET n == Len(frame.AckRanges)
        stop == {i \in index .. n - 1 :
                    i = n - 1 \/ pn <= frame.AckRanges[n - i].Last}
    IN  CHOOSE i \in stop : \A j \in stop : i <= j

WalkStep(frame, walk, pn) ==
    IF walk.stopped \/ pn < frame.LowestAcked THEN walk
    ELSE IF pn > frame.LargestAcked THEN [walk EXCEPT !.stopped = TRUE]
    ELSE IF ~HasMissingRanges(frame) THEN [walk EXCEPT !.acked = @ \cup {pn}]
    ELSE LET i == AdvanceTo(frame, walk.index, pn)
             r == frame.AckRanges[Len(frame.AckRanges) - i]
         IN  IF pn < r.First THEN [walk EXCEPT !.index = i]
             ELSE [walk EXCEPT !.index = i, !.acked = @ \cup {pn},
                               !.bug = @ \/ pn > r.Last]

(***************************************************************************)
(* determineNewlyAckedPackets over an ascending history; bug is the error  *)
(* return.                                                                 *)
(***************************************************************************)
determineNewlyAckedPackets(history, frame) ==
    FoldLeft(LAMBDA walk, pn : WalkStep(frame, walk, pn),
             [index |-> 0, acked |-> {}, bug |-> FALSE, stopped |-> FALSE],
             history)

(***************************************************************************)
(* wire.AckFrame.AcksPacket.                                               *)
(***************************************************************************)
AcksPacket(frame, p) ==
    /\ p >= frame.LowestAcked
    /\ p <= frame.LargestAcked
    /\ HasMissingRanges(frame) =>
          \E i \in DOMAIN frame.AckRanges :
             frame.AckRanges[i].First <= p /\ p <= frame.AckRanges[i].Last
=============================================================================
