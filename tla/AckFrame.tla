------------------------------ MODULE AckFrame -----------------------------
(***************************************************************************)
(* internal/wire/ack_frame.go and close_path_frame.go: how ACK and         *)
(* CLOSE_PATH frames are written and parsed.  The ranges of both are       *)
(* written by the same code: a first block, and for each further range     *)
(* blocks of a gap, which is a byte, and a length.  A gap that does not    *)
(* fit into a byte takes blocks of length 0 before the last one.           *)
(***************************************************************************)
EXTENDS Wire, AckRanges

-----------------------------------------------------------------------------
(* Lengths *)

Gap(ackRanges, i) == ackRanges[i - 1].First - ackRanges[i].Last - 1

BlocksForGap(gap) ==
    IF gap % MaxByte = 0 THEN gap \div MaxByte ELSE gap \div MaxByte + 1

(***************************************************************************)
(* The blocks of the first k ranges.                                       *)
(***************************************************************************)
BlocksUpTo(ackRanges, k) ==
    1 + MapThenSumSet(LAMBDA i : BlocksForGap(Gap(ackRanges, i)), 2 .. k)

(***************************************************************************)
(* The lowest ranges are left out when the number of blocks does not fit   *)
(* into a byte.                                                            *)
(***************************************************************************)
WritableRanges(ackRanges) ==
    Max({k \in 1 .. Len(ackRanges) : BlocksUpTo(ackRanges, k) <= MaxByte})

numWritableNackRanges(f) ==
    IF f.AckRanges = << >> THEN 0
    ELSE BlocksUpTo(f.AckRanges, WritableRanges(f.AckRanges))

RangeLength(r) == r.Last - r.First + 1

maxRangeLength(f) ==
    IF HasMissingRanges(f)
    THEN Max({RangeLength(f.AckRanges[i]) : i \in DOMAIN f.AckRanges})
    ELSE f.LargestAcked - f.LowestAcked + 1

DeltaLenFor(n) ==
    IF n <= MaxByte THEN 1
    ELSE IF n <= Byte ^ 2 - 1 THEN 2
    ELSE IF n <= Byte ^ 4 - 1 THEN 4 ELSE 6

getMissingSequenceNumberDeltaLen(f) == DeltaLenFor(maxRangeLength(f))

(***************************************************************************)
(* The two bits of the type byte (the flags of CLOSE_PATH) for a width.    *)
(***************************************************************************)
LenBits(len) == IF len = 1 THEN 0 ELSE len \div 2
LenOfBits(bits) == IF bits = 0 THEN 1 ELSE 2 * bits

RangesLength(f) ==
    LET len == getMissingSequenceNumberDeltaLen(f)
    IN  GetPacketNumberLength(f.LargestAcked)
        + (IF HasMissingRanges(f) THEN (1 + len) * numWritableNackRanges(f)
           ELSE len)

AckMinLength(f) == 1 + 2 + 1 + RangesLength(f) + (IF f.PathID # 0 THEN 1 ELSE 0)

ClosePathMinLength(f) == 1 + 1 + 1 + RangesLength(f)

-----------------------------------------------------------------------------
(* Writing *)

(***************************************************************************)
(* The loop over the ranges ends after the first one with which the number *)
(* of blocks that was announced is reached.                                *)
(***************************************************************************)
LastRangeWritten(f) ==
    Min({k \in 2 .. Len(f.AckRanges) :
            \/ BlocksUpTo(f.AckRanges, k) >= numWritableNackRanges(f)
            \/ k = Len(f.AckRanges)})

BlocksOfRange(f, i, len) ==
    LET gap == Gap(f.AckRanges, i)
        num == BlocksForGap(gap)
    IN  [j \in 1 .. num |->
            IF j < num THEN [gap |-> MaxByte, length |-> WriteUint(0, len)]
            ELSE [gap |-> 1 + ((gap - 1) % MaxByte),
                  length |-> WriteUint(RangeLength(f.AckRanges[i]), len)]]

BlocksWritten(f, len) ==
    IF HasMissingRanges(f)
    THEN FlattenSeq([i \in 1 .. LastRangeWritten(f) - 1 |->
                        BlocksOfRange(f, i + 1, len)])
    ELSE << >>

(***************************************************************************)
(* Write fails when the ends do not match the ranges, or when the blocks   *)
(* written are not as many as announced.                                   *)
(***************************************************************************)
RangesAreWritable(f) ==
    HasMissingRanges(f) =>
       /\ f.LargestAcked = f.AckRanges[1].Last
       /\ f.LowestAcked = f.AckRanges[Len(f.AckRanges)].First
       /\ BlocksUpTo(f.AckRanges, LastRangeWritten(f)) = numWritableNackRanges(f)

WriteRanges(f) ==
    LET largestLen == GetPacketNumberLength(f.LargestAcked)
        deltaLen == getMissingSequenceNumberDeltaLen(f)
    IN  [largestBits |-> LenBits(largestLen),
         deltaBits |-> LenBits(deltaLen),
         hasMissingRanges |-> HasMissingRanges(f),
         largestAcked |-> WriteUint(f.LargestAcked, largestLen),
         numAckBlocks |-> IF HasMissingRanges(f)
                          THEN numWritableNackRanges(f) - 1 ELSE 0,
         firstBlock |->
            WriteUint(IF HasMissingRanges(f) THEN RangeLength(f.AckRanges[1])
                      ELSE f.LargestAcked - f.LowestAcked + 1, deltaLen),
         blocks |-> BlocksWritten(f, deltaLen)]

(***************************************************************************)
(* The number of bytes of the above.  The count of blocks is only there    *)
(* with ranges.                                                            *)
(***************************************************************************)
LengthOfRanges(w) ==
    w.largestAcked.len + (IF w.hasMissingRanges THEN 1 ELSE 0)
    + w.firstBlock.len + Len(w.blocks) * (1 + w.firstBlock.len)

AckOnWire(pathID, ranges) ==
    [kind |-> "ACK", PathID |-> pathID, hasPathID |-> pathID # 0, ranges |-> ranges,
     length |-> 1 + (IF pathID # 0 THEN 1 ELSE 0) + 2 + LengthOfRanges(ranges) + 1]

ClosePathOnWire(pathID, ranges) ==
    [kind |-> "CLOSE_PATH", PathID |-> pathID, ranges |-> ranges,
     length |-> 1 + 1 + 1 + LengthOfRanges(ranges)]

WriteAckFrame(f) == AckOnWire(f.PathID, WriteRanges(f))

WriteClosePathFrame(f) == ClosePathOnWire(f.PathID, WriteRanges(f))

-----------------------------------------------------------------------------
(* Parsing *)

(***************************************************************************)
(* One block.  After a block of length 0 the range just begun is moved on. *)
(***************************************************************************)
ParseBlock(state, block, len) ==
    LET length == ReadUintN(block.length, len)
        last == Len(state.ranges)
        r == state.ranges[last]
        begun == [Last |-> r.First - block.gap - 1,
                  First |-> r.First - block.gap - length]
    IN  [ranges |->
            IF state.inLongBlock
            THEN [state.ranges EXCEPT
                     ![last] = [First |-> r.First - (block.gap + length),
                                Last |-> r.Last - block.gap]]
            ELSE Append(state.ranges, begun),
         complete |-> length > 0 \/ (state.inLongBlock /\ state.complete),
         inLongBlock |-> length = 0]

CompleteRanges(state) == IF state.complete THEN state.ranges ELSE Front(state.ranges)

ParsedRanges(w, largestAcked, first, len) ==
    CompleteRanges(FoldLeft(LAMBDA s, block : ParseBlock(s, block, len),
                            [ranges |-> <<[First |-> largestAcked - first + 1,
                                           Last |-> largestAcked]>>,
                             complete |-> FALSE, inLongBlock |-> FALSE],
                            w.blocks))

validateAckRanges(f) ==
    \/ f.AckRanges = << >>
    \/ /\ Len(f.AckRanges) > 1
       /\ f.AckRanges[1].Last = f.LargestAcked
       /\ \A i \in DOMAIN f.AckRanges :
             f.AckRanges[i].First <= f.AckRanges[i].Last
       /\ \A i \in 2 .. Len(f.AckRanges) :
             /\ f.AckRanges[i - 1].First > f.AckRanges[i].First
             /\ f.AckRanges[i - 1].First > f.AckRanges[i].Last + 1

WithMissingRanges(largestAcked, ranges) ==
    [LargestAcked |-> largestAcked, LowestAcked |-> ranges[Len(ranges)].First,
     AckRanges |-> ranges]

WithoutMissingRanges(largestAcked, first) ==
    [LargestAcked |-> largestAcked,
     LowestAcked |-> IF largestAcked = 0 THEN 0 ELSE largestAcked + 1 - first,
     AckRanges |-> << >>]

Validated(f) == IF validateAckRanges(f) THEN f ELSE ParseError

ParseRanges(w) ==
    LET largestAcked == ReadUintN(w.largestAcked, LenOfBits(w.largestBits))
        len == LenOfBits(w.deltaBits)
        first == ReadUintN(w.firstBlock, len)
    IN  IF \/ w.hasMissingRanges /\ w.numAckBlocks = 0
           \/ w.numAckBlocks # Len(w.blocks)
           \/ largestAcked > 0 /\ first < 1
           \/ first > largestAcked
        THEN ParseError
        ELSE Validated(IF w.hasMissingRanges
                       THEN WithMissingRanges(largestAcked,
                               ParsedRanges(w, largestAcked, first, len))
                       ELSE WithoutMissingRanges(largestAcked, first))

WithPath(f, pathID) ==
    IF f = ParseError THEN ParseError
    ELSE [PathID |-> pathID, LargestAcked |-> f.LargestAcked,
          LowestAcked |-> f.LowestAcked, AckRanges |-> f.AckRanges]

ParseAckFrame(w) ==
    WithPath(ParseRanges(w.ranges), IF w.hasPathID THEN w.PathID ELSE 0)

ParseClosePathFrame(w) == WithPath(ParseRanges(w.ranges), w.PathID)
=============================================================================
