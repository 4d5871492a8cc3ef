------------------------ MODULE MCStreamFrameSorter ------------------------
(***************************************************************************)
(* StreamFrameSorter for streams of five bytes.  A behaviour belongs to    *)
(* one scenario: which frames the peer sends on which kind of stream.      *)
(***************************************************************************)
EXTENDS Integers

CONSTANT Zero

VARIABLES
    scenario,
    queuedFrames, gaps, readPosition, sortedOffset, maxOffset,
    reading, delivered, finishedReading, err

F(o, n, fin) == [offset |-> o, data |-> [i \in 1 .. n |-> o + i - 1], fin |-> fin]

(***************************************************************************)
(* A reliable stream: a frame of four bytes that is retransmitted in       *)
(* pieces, pieces of pieces, another frame, and the FIN in a frame of its  *)
(* own.                                                                    *)
(***************************************************************************)
Reliable == INSTANCE StreamFrameSorter WITH
    StreamLength <- 5, Unreliable <- FALSE, MaxGaps <- 8, MaxByteCount <- 12,
    Frames <- {F(0, 4, FALSE), F(0, 2, FALSE), F(2, 2, FALSE), F(0, 1, FALSE), F(1, 3, FALSE),
               F(4, 1, FALSE), F(5, 0, TRUE)}

(***************************************************************************)
(* An unreliable stream, where every frame is sent once.                   *)
(***************************************************************************)
Lossy == INSTANCE StreamFrameSorter WITH
    StreamLength <- 5, Unreliable <- TRUE, MaxGaps <- 8, MaxByteCount <- 12,
    Frames <- {F(0, 1, FALSE), F(1, 1, FALSE), F(2, 2, FALSE), F(4, 1, FALSE), F(5, 0, TRUE)}

(***************************************************************************)
(* A reliable stream with the FIN on a frame that is retransmitted in two  *)
(* pieces.                                                                 *)
(***************************************************************************)
FinSplit == INSTANCE StreamFrameSorter WITH
    StreamLength <- 5, Unreliable <- FALSE, MaxGaps <- 8, MaxByteCount <- 12,
    Frames <- {F(0, 2, FALSE), F(2, 3, TRUE), F(2, 1, FALSE), F(3, 2, TRUE)}

SorterAssumption ==
    Reliable!SorterAssumption /\ Lossy!SorterAssumption /\ FinSplit!SorterAssumption

vars == <<scenario, queuedFrames, gaps, readPosition, sortedOffset, maxOffset, reading, delivered,
          finishedReading, err>>

Init == scenario \in {"reliable", "lossy"} /\ Reliable!Init

Next ==
    /\ \/ scenario = "reliable" /\ Reliable!Next
       \/ scenario = "lossy" /\ Lossy!Next
    /\ UNCHANGED scenario

Spec == Init /\ [][Next]_vars

FinSplitSpec == Reliable!Init /\ scenario = "fin split" /\ [][FinSplit!Next /\ UNCHANGED scenario]_vars

-----------------------------------------------------------------------------
(***************************************************************************)
(* Read finds every byte that has arrived, or a filled gap, on both kinds  *)
(* of stream.                                                              *)
(***************************************************************************)
ReceivedIsReadable ==
    IF scenario = "lossy" THEN Lossy!ReceivedIsReadable ELSE Reliable!ReceivedIsReadable

ByteStream == INSTANCE ByteStream WITH
    StreamLength <- 5,
    unreliable <- scenario = "lossy",
    received <- Reliable!Bytes \ Reliable!Missing,
    read <- delivered,
    finished <- finishedReading

(***************************************************************************)
(* The sorter implements a byte stream: bytes arrive in any order and Read *)
(* returns them in theirs, with zeros only on an unreliable stream.        *)
(***************************************************************************)
ImplementsByteStream == ByteStream!Spec

(***************************************************************************)
(* Read returns io.EOF after all bytes of the stream, also when the frame  *)
(* with the FIN was retransmitted in pieces.                               *)
(***************************************************************************)
EOFOnlyAtTheEnd == FinSplit!EOFOnlyAtTheEnd

=============================================================================
