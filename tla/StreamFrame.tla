---------------------------- MODULE StreamFrame ----------------------------
(***************************************************************************)
(* internal/wire/stream_frame.go.  The type byte of a STREAM frame holds   *)
(* the widths of the stream ID and of the offset in its low five bits; the *)
(* lowest bit also marks the frames of unreliable streams.                 *)
(*                                                                         *)
(* The data of a frame is its length: a frame without a length field takes *)
(* what is left of the packet, rest.                                       *)
(***************************************************************************)
EXTENDS Wire

calculateStreamIDLength(f) ==
    IF f.StreamID < Byte THEN 1
    ELSE IF f.StreamID < Byte ^ 2 THEN 2
    ELSE IF f.StreamID < Byte ^ 3 THEN 3 ELSE 4

(***************************************************************************)
(* Mutant: an offset that fits into one byte is given one.                 *)
(***************************************************************************)
MutGetOffsetLength(f) ==
    IF f.Offset = 0 THEN 0
    ELSE Min({n \in 1 .. 8 : f.Offset < Byte ^ n \/ n = 8})

getOffsetLength(f) ==
    IF f.Offset = 0 THEN 0
    ELSE Min({n \in 2 .. 8 : f.Offset < Byte ^ n \/ n = 8})

StreamMinLength(f) ==
    1 + calculateStreamIDLength(f) + getOffsetLength(f)
    + (IF f.DataLenPresent THEN 2 ELSE 0)

(***************************************************************************)
(* The marker and the width of the stream ID are both put into the type    *)
(* byte with exclusive or.                                                 *)
(***************************************************************************)
FlipLowBit(bits) == IF bits % 2 = 0 THEN bits + 1 ELSE bits - 1

LowBits(f) ==
    LET bits == calculateStreamIDLength(f) - 1
    IN  IF f.UnreliableMarker THEN FlipLowBit(bits) ELSE bits

StreamIsWritable(f) == f.DataLen # 0 \/ f.FinBit

WriteStreamFrame(f) ==
    [kind |-> "STREAM",
     low |-> LowBits(f),
     fin |-> f.FinBit,
     dataLenPresent |-> f.DataLenPresent,
     offsetBits |-> IF getOffsetLength(f) > 0 THEN getOffsetLength(f) - 1 ELSE 0,
     streamID |-> WriteUint(f.StreamID, calculateStreamIDLength(f)),
     offset |-> WriteUint(f.Offset, getOffsetLength(f)),
     dataLen |-> WriteUint(f.DataLen, 2),
     rest |-> f.DataLen,
     length |-> 1 + calculateStreamIDLength(f) + getOffsetLength(f)
                + (IF f.DataLenPresent THEN 2 ELSE 0) + f.DataLen]

(***************************************************************************)
(* ParseStreamFrame drops the lowest bit of the type byte; the unpacker    *)
(* looks at it afterwards.                                                 *)
(***************************************************************************)
ParseStreamFrame(w) ==
    LET idLen == w.low - (w.low % 2) + 1
        offsetLen == IF w.offsetBits = 0 THEN 0 ELSE w.offsetBits + 1
        sid == ReadUintN(w.streamID, idLen)
        off == ReadUintN(w.offset, offsetLen)
        len == IF w.dataLenPresent THEN w.dataLen.value ELSE w.rest
    IN  IF \/ sid = Garbled
           \/ off = Garbled
           \/ w.dataLenPresent /\ len > MaxPacketSize
           \/ (off + len) % Word < off
           \/ ~w.fin /\ len = 0
        THEN ParseError
        ELSE [StreamID |-> sid, UnreliableMarker |-> w.low % 2 = 1,
              FinBit |-> w.fin, DataLenPresent |-> w.dataLenPresent,
              Offset |-> off, DataLen |-> len]
=============================================================================
