------------------------- MODULE StreamFrameSorter -------------------------
(***************************************************************************)
(* The receiving side of one stream: streamFrameSorter                     *)
(* (stream_frame_sorter.go) as AddStreamFrame and Read of stream.go use    *)
(* it.  The session goroutine pushes STREAM frames as they arrive; Read,   *)
(* in the application's goroutine, takes the head of the queue, copies it  *)
(* and pops it later, under another acquisition of the mutex.              *)
(*                                                                         *)
(* A frame carries its data as a sequence of bytes, and the byte at        *)
(* offset n of the stream has the value n, so that a cut at the wrong      *)
(* place shows.  The network delivers any frame of Frames, any number of   *)
(* times and in any order.                                                 *)
(***************************************************************************)
EXTENDS Integers, Sequences

CONSTANTS
    StreamLength,     \* the number of bytes the peer sends
    Frames,           \* the frames the peer sends, retransmissions included
    Unreliable,       \* unreliableMarker
    MaxGaps,          \* protocol.MaxStreamFrameSorterGaps
    MaxByteCount,     \* protocol.MaxByteCount
    Zero              \* the value of a byte that Head fills in

Bytes == 0 .. StreamLength - 1

(***************************************************************************)
(* The part of the peer's stream from offset o on that is n bytes long.    *)
(***************************************************************************)
Frame(o, n, fin) == [offset |-> o, data |-> [i \in 1 .. n |-> o + i - 1], fin |-> fin]

SorterAssumption ==
    /\ StreamLength \in Nat
    /\ MaxByteCount \in Nat
    /\ StreamLength < MaxByteCount
    /\ MaxGaps \in Nat \ {0}
    /\ Unreliable \in BOOLEAN
    /\ Zero \notin Bytes
    /\ \A f \in Frames :
          /\ f = Frame(f.offset, Len(f.data), f.fin)
          /\ f.offset + Len(f.data) <= StreamLength
          /\ f.fin => f.offset + Len(f.data) = StreamLength
          /\ Len(f.data) = 0 => f.fin

VARIABLES
    queuedFrames,     \* the frames, by offset
    gaps,             \* the missing intervals, in order
    readPosition,
    sortedOffset,     \* the offsets that have an entry in queuedTime
    maxOffset,
    reading,          \* the frame Read copies, before Pop
    delivered,        \* the bytes returned by Read
    finishedReading,
    err               \* the error of AddStreamFrame, or a panic

sorterVars == <<queuedFrames, gaps, readPosition, sortedOffset, maxOffset>>
readVars == <<reading, delivered, finishedReading>>
vars == <<sorterVars, readVars, err>>

With(f, x, v) == [y \in DOMAIN f \cup {x} |-> IF y = x THEN v ELSE f[y]]
Without(f, S) == [y \in DOMAIN f \ S |-> f[y]]

(***************************************************************************)
(* What Head and Pop change, as one record.                                *)
(***************************************************************************)
Sorter == [queued |-> queuedFrames, gaps |-> gaps, sorted |-> sortedOffset, max |-> maxOffset]

Init ==
    /\ queuedFrames = [o \in {} |-> 0]
    /\ gaps = << [start |-> 0, end |-> MaxByteCount] >>
    /\ readPosition = 0
    /\ sortedOffset = << >>
    /\ maxOffset = 0
    /\ reading = << >>
    /\ delivered = << >>
    /\ finishedReading = FALSE
    /\ err = "nil"

-----------------------------------------------------------------------------
(***************************************************************************)
(* Push, step by step.  A frame that starts where a queued one does loses  *)
(* what the queued one holds.                                              *)
(***************************************************************************)
CutQueued(q, f) ==
    IF f.offset \in DOMAIN q
    THEN LET n == Len(q[f.offset].data) IN
         [f EXCEPT !.offset = @ + n, !.data = SubSeq(@, n + 1, Len(@))]
    ELSE f

FrameEnd(f) == f.offset + Len(f.data)

(***************************************************************************)
(* The first gap the frame meets, or touches from the right; 0 when the    *)
(* frame ends before a gap that it did not meet, i.e. is a duplicate.      *)
(***************************************************************************)
FirstGap(g, f) ==
    LET Stops(i) == FrameEnd(f) <= g[i].start \/ f.offset <= g[i].end
        i == CHOOSE i \in 1 .. Len(g) : Stops(i) /\ \A j \in 1 .. i - 1 : ~Stops(j)
    IN  IF FrameEnd(f) <= g[i].start THEN 0 ELSE i

(***************************************************************************)
(* Mutant: one byte too many is kept at the start, and one is dropped at   *)
(* the end.                                                                *)
(***************************************************************************)
MutCutStartShifted(f, gap) ==
    IF f.offset < gap.start
    THEN [f EXCEPT !.offset = gap.start, !.data = SubSeq(@, gap.start - f.offset, Len(@) - 1)]
    ELSE f

(***************************************************************************)
(* What lies before the gap is cut off.                                    *)
(***************************************************************************)
CutStart(f, gap) ==
    IF f.offset < gap.start
    THEN [f EXCEPT !.offset = gap.start, !.data = SubSeq(@, gap.start - f.offset + 1, Len(@))]
    ELSE f

(***************************************************************************)
(* The walk to the last gap the frame meets, starting at gap i: endGap     *)
(* moves on as long as the frame ends after the start of the next gap.     *)
(***************************************************************************)
LastGap(g, i, end) ==
    CHOOSE k \in i .. Len(g) :
        /\ \A j \in i .. k - 1 : end >= g[j].end /\ end > g[j + 1].start
        /\ end >= g[k].end => end <= g[k + 1].start

(***************************************************************************)
(* Mutant: the whole frame is queued although its end is there already.    *)
(***************************************************************************)
MutKeepEnd(f, gap) == f

(***************************************************************************)
(* What lies behind the last gap is cut off.  The FIN bit is kept.         *)
(***************************************************************************)
CutEnd(f, gap) ==
    IF FrameEnd(f) > gap.end
    THEN [f EXCEPT !.data = SubSeq(@, 1, gap.end - f.offset)]
    ELSE f

(***************************************************************************)
(* The gaps i to k shrink to what the frame leaves of the first and of the *)
(* last one.                                                               *)
(***************************************************************************)
Fill(g, i, k, start, end) ==
    LET left == IF start > g[i].start THEN << [g[i] EXCEPT !.end = start] >> ELSE << >>
        right == IF end < g[k].end THEN << [g[k] EXCEPT !.start = end] >> ELSE << >>
    IN  SubSeq(g, 1, i - 1) \o left \o right \o SubSeq(g, k + 1, Len(g))

(***************************************************************************)
(* The frames directly behind the gaps that the frame covers are deleted.  *)
(***************************************************************************)
Covered(g, i, k) == {g[j].end : j \in i .. k - 1}

(***************************************************************************)
(* Push on the sorter s: the new sorter and the error.  flag is set for    *)
(* the frames that come from the network.                                  *)
(***************************************************************************)
Push(s, frame, flag) ==
    LET f == CutQueued(s.queued, frame)
        i == FirstGap(s.gaps, f)
    IN
    IF frame.data = << >>
    THEN IF frame.fin
         THEN [s |-> [s EXCEPT !.queued = With(@, frame.offset, frame)], err |-> "nil"]
         ELSE [s |-> s, err |-> "empty"]
    ELSE IF f.data = << >> \/ i = 0
    THEN [s |-> s, err |-> "duplicate"]
    ELSE
    LET k == LastGap(s.gaps, i, FrameEnd(f))
        cut == CutEnd(CutStart(f, s.gaps[i]), s.gaps[k])
        filled == [s EXCEPT !.queued = Without(@, Covered(s.gaps, i, k)),
                            !.gaps = Fill(@, i, k, cut.offset, FrameEnd(cut))]
        timed == flag /\ cut.offset >= s.max
    IN
    IF Len(filled.gaps) > MaxGaps
    THEN [s |-> filled, err |-> "too many gaps"]
    ELSE [s |-> [filled EXCEPT !.queued = With(@, cut.offset, cut),
                               !.max = IF timed THEN cut.offset ELSE @,
                               !.sorted = IF timed THEN Append(@, cut.offset) ELSE @],
          err |-> "nil"]

SetSorter(s) ==
    /\ queuedFrames' = s.queued
    /\ gaps' = s.gaps
    /\ sortedOffset' = s.sorted
    /\ maxOffset' = s.max

(***************************************************************************)
(* AddStreamFrame: an unreliable stream ignores the error of Push, and a   *)
(* duplicate is no error.                                                  *)
(***************************************************************************)
AddStreamFrame(f) ==
    /\ err = "nil"
    /\ LET r == Push(Sorter, f, TRUE) IN
       /\ SetSorter(r.s)
       /\ err' = IF Unreliable \/ r.err = "duplicate" THEN "nil" ELSE r.err
    /\ UNCHANGED <<readPosition, readVars>>

-----------------------------------------------------------------------------
(***************************************************************************)
(* The zeros for a gap, one byte more than it is long.                     *)
(***************************************************************************)
Padding(gap) ==
    [offset |-> gap.start, data |-> [i \in 1 .. gap.end - gap.start + 1 |-> Zero], fin |-> FALSE]

(***************************************************************************)
(* Head fills the first gap of an unreliable stream when nothing is queued *)
(* at the read position and late holds: the oldest and the newest frame of *)
(* queuedTime are more than 70 ms apart.                                   *)
(***************************************************************************)
FillsGap(late) ==
    /\ readPosition \notin DOMAIN queuedFrames
    /\ Unreliable
    /\ Len(sortedOffset) >= 2
    /\ late

HeadFill(late) == IF FillsGap(late) THEN Push(Sorter, Padding(gaps[1]), FALSE).s ELSE Sorter

(***************************************************************************)
(* Read copies what follows readOffset.                                    *)
(***************************************************************************)
Unread(f, readOffset) == SubSeq(f.data, readOffset - f.offset + 1, Len(f.data))

(***************************************************************************)
(* Read until it has copied the head of the queue.  The buffer holds any   *)
(* frame; a smaller one only splits this step.  Padding the last gap would *)
(* allocate a buffer of MaxByteCount bytes.                                *)
(***************************************************************************)
ReadHead(late) ==
    /\ err = "nil"
    /\ ~finishedReading
    /\ reading = << >>
    /\ LET s == HeadFill(late) IN
       IF FillsGap(late) /\ gaps[1].end = MaxByteCount
       THEN /\ err' = "panic"
            /\ UNCHANGED <<sorterVars, reading, delivered>>
       ELSE /\ SetSorter(s)
            /\ IF readPosition \in DOMAIN s.queued
               THEN /\ reading' = << s.queued[readPosition] >>
                    /\ delivered' = delivered \o Unread(reading'[1], Len(delivered))
               ELSE UNCHANGED <<reading, delivered>>
            /\ UNCHANGED <<readPosition, err>>
    /\ UNCHANGED finishedReading

(***************************************************************************)
(* Pop forgets the time of the frame if it is the oldest one.              *)
(***************************************************************************)
PopTime(sorted, offset) ==
    IF sorted # << >> /\ Head(sorted) = offset THEN Tail(sorted) ELSE sorted

(***************************************************************************)
(* Pop, and the end of Read's loop for the frame it read.                  *)
(***************************************************************************)
PopFrame ==
    /\ err = "nil"
    /\ reading # << >>
    /\ LET f == queuedFrames[readPosition] IN
       /\ readPosition' = readPosition + Len(f.data)
       /\ queuedFrames' = Without(queuedFrames, {f.offset})
       /\ sortedOffset' = PopTime(sortedOffset, f.offset)
    /\ finishedReading' = reading[1].fin
    /\ reading' = << >>
    /\ UNCHANGED <<gaps, maxOffset, delivered, err>>

Next ==
    \/ \E f \in Frames : AddStreamFrame(f)
    \/ \E late \in BOOLEAN : ReadHead(late)
    \/ PopFrame

Spec == Init /\ [][Next]_vars

-----------------------------------------------------------------------------
Interval(start, end) == start .. end - 1
Missing == UNION {Interval(gaps[i].start, gaps[i].end) : i \in DOMAIN gaps}
Queued == UNION {Interval(o, FrameEnd(queuedFrames[o])) : o \in DOMAIN queuedFrames}

(***************************************************************************)
(* Where the frames that start at offset o and follow one another end.     *)
(***************************************************************************)
ChainEnd[o \in 0 .. StreamLength] ==
    IF o \in DOMAIN queuedFrames /\ queuedFrames[o].data # << >>
    THEN ChainEnd[FrameEnd(queuedFrames[o])]
    ELSE o

(***************************************************************************)
(* The gap list that Push keeps and the frames it queues say the same: a   *)
(* byte that was not read yet is queued if and only if it is in no gap.    *)
(* Head looks a frame up by the exact read position: on a reliable stream  *)
(* the queued frames follow one another without a hole or an overlap from  *)
(* the read position to the first gap, and from each gap to the next, so   *)
(* that Read finds every byte that has arrived. When Head fills the first  *)
(* gap of an unreliable stream, Read gets a frame at the read position:    *)
(* what is filled in is the gap that Read waits for, and it ends where the *)
(* next frame starts.                                                      *)
(***************************************************************************)
ReceivedIsReadable ==
    /\ \A b \in Bytes :
          IF b < readPosition THEN b \notin Missing ELSE b \in Queued <=> b \notin Missing
    /\ ~Unreliable =>
          /\ ChainEnd[readPosition] = gaps[1].start
          /\ \A i \in 1 .. Len(gaps) - 1 : ChainEnd[gaps[i].end] = gaps[i + 1].start
    /\ FillsGap(TRUE) /\ gaps[1].end < MaxByteCount =>
          readPosition \in DOMAIN HeadFill(TRUE).queued

(***************************************************************************)
(* Read returns io.EOF when it has returned all bytes of the stream, and   *)
(* not before.                                                             *)
(***************************************************************************)
EOFOnlyAtTheEnd == finishedReading => Len(delivered) = StreamLength

=============================================================================
