--------------------------- MODULE ControlFrames ---------------------------
(***************************************************************************)
(* The remaining frames of internal/wire: fields of fixed widths after the *)
(* type byte.  A reason phrase is its length.  A frame on the wire is the  *)
(* sequence of its fields.                                                 *)
(***************************************************************************)
EXTENDS Wire, SequencesExt

Uint(value, len) == WriteUint(value, len)
Read(w, i, len) == ReadUintN(w[i], len)

-----------------------------------------------------------------------------
WriteRstStreamFrame(f) ==
    <<Uint(f.StreamID, 4), Uint(f.ByteOffset, 8), Uint(f.ErrorCode, 4)>>

ParseRstStreamFrame(w) ==
    [kind |-> "RST_STREAM", StreamID |-> Read(w, 1, 4), ByteOffset |-> Read(w, 2, 8),
     ErrorCode |-> Read(w, 3, 4)]

WriteWindowUpdateFrame(f) == <<Uint(f.StreamID, 4), Uint(f.ByteOffset, 8)>>

ParseWindowUpdateFrame(w) ==
    [kind |-> "WINDOW_UPDATE", StreamID |-> Read(w, 1, 4), ByteOffset |-> Read(w, 2, 8)]

WriteBlockedFrame(f) == <<Uint(f.StreamID, 4)>>

ParseBlockedFrame(w) == [kind |-> "BLOCKED", StreamID |-> Read(w, 1, 4)]

ParsePingFrame == [kind |-> "PING"]

-----------------------------------------------------------------------------
(***************************************************************************)
(* CONNECTION_CLOSE and GOAWAY end with the length of the reason and the   *)
(* reason.                                                                 *)
(***************************************************************************)
ReasonIsWritable(f) == f.Reason <= Byte ^ 2 - 1

WriteConnectionCloseFrame(f) == <<Uint(f.ErrorCode, 4), Uint(f.Reason, 2)>>

ParseConnectionCloseFrame(w) ==
    IF Read(w, 2, 2) > MaxPacketSize THEN ParseError
    ELSE [kind |-> "CONNECTION_CLOSE", ErrorCode |-> Read(w, 1, 4), Reason |-> Read(w, 2, 2)]

WriteGoawayFrame(f) ==
    <<Uint(f.ErrorCode, 4), Uint(f.LastGoodStream, 4), Uint(f.Reason, 2)>>

ParseGoawayFrame(w) ==
    IF Read(w, 3, 2) > MaxPacketSize THEN ParseError
    ELSE [kind |-> "GOAWAY", ErrorCode |-> Read(w, 1, 4), LastGoodStream |-> Read(w, 2, 4),
          Reason |-> Read(w, 3, 2)]

-----------------------------------------------------------------------------
(***************************************************************************)
(* STOP_WAITING: how far LeastUnacked is below the number of the packet,   *)
(* in as many bytes as the header has for the number.                      *)
(***************************************************************************)
StopWaitingIsWritten(f) == f.PacketNumber # 0 /\ f.LeastUnacked <= f.PacketNumber

WriteStopWaitingFrame(f) ==
    <<Uint(f.PacketNumber - f.LeastUnacked, f.PacketNumberLen)>>

ParseStopWaitingFrame(w, packetNumber, packetNumberLen) ==
    LET leastUnackedDelta == Read(w, 1, packetNumberLen)
    IN  IF leastUnackedDelta >= packetNumber THEN ParseError
        ELSE [kind |-> "STOP_WAITING", LeastUnacked |-> packetNumber - leastUnackedDelta]

-----------------------------------------------------------------------------
(***************************************************************************)
(* ADD_ADDRESS: 4 or 16 bytes of address and a port.                       *)
(***************************************************************************)
AddressLength(f) == IF f.IPVersion = 4 THEN 4 ELSE 16

WriteAddAddressFrame(f) ==
    <<[len |-> 1, value |-> f.IPVersion], [len |-> AddressLength(f), value |-> f.Addr],
      Uint(f.Port, 2)>>

ParseAddAddressFrame(w) ==
    LET version == Read(w, 1, 1)
    IN  IF version \notin {4, 6} THEN ParseError
        ELSE [kind |-> "ADD_ADDRESS", IPVersion |-> version,
              Addr |-> Read(w, 2, IF version = 4 THEN 4 ELSE 16), Port |-> Read(w, 3, 2)]

-----------------------------------------------------------------------------
(***************************************************************************)
(* PATHS: for each path its ID and its round trip time, rounded.           *)
(***************************************************************************)
PathsIsWritable(f) == Len(f.PathIDs) = Len(f.RemoteRTTs)

WritePathsFrame(f) ==
    <<Uint(f.MaxNumPaths, 1), Uint(Len(f.PathIDs), 1)>>
    \o [i \in 1 .. 2 * Len(f.PathIDs) |->
           IF i % 2 = 1 THEN Uint(f.PathIDs[(i + 1) \div 2], 1)
           ELSE [len |-> 2, value |-> writeUfloat16(f.RemoteRTTs[i \div 2])]]

ParsePathsFrame(w) ==
    LET num == Read(w, 2, 1)
    IN  IF num > Read(w, 1, 1) THEN ParseError
        ELSE [kind |-> "PATHS", MaxNumPaths |-> Read(w, 1, 1),
              PathIDs |-> [i \in 1 .. num |-> Read(w, 2 * i + 1, 1)],
              RemoteRTTs |-> [i \in 1 .. num |-> readUfloat16(Read(w, 2 * i + 2, 2))]]

(***************************************************************************)
(* The length of a PATHS frame is computed in a byte.                      *)
(***************************************************************************)
PathsMinLength(f) == (1 + 1 + 1 + 3 * Len(f.PathIDs)) % 256

-----------------------------------------------------------------------------
IsWritable(f) ==
    CASE f.kind = "STOP_WAITING" -> StopWaitingIsWritten(f)
      [] f.kind = "CONNECTION_CLOSE" -> ReasonIsWritable(f)
      [] f.kind = "PATHS" -> PathsIsWritable(f)
      [] OTHER -> TRUE

Write(f) ==
    CASE f.kind = "RST_STREAM" -> WriteRstStreamFrame(f)
      [] f.kind = "WINDOW_UPDATE" -> WriteWindowUpdateFrame(f)
      [] f.kind = "BLOCKED" -> WriteBlockedFrame(f)
      [] f.kind = "CONNECTION_CLOSE" -> WriteConnectionCloseFrame(f)
      [] f.kind = "GOAWAY" -> WriteGoawayFrame(f)
      [] f.kind = "STOP_WAITING" -> WriteStopWaitingFrame(f)
      [] f.kind = "ADD_ADDRESS" -> WriteAddAddressFrame(f)
      [] f.kind = "PATHS" -> WritePathsFrame(f)
      [] OTHER -> << >>

WrittenLength(f) ==
    1 + FoldLeft(LAMBDA n, field : n + field.len, 0, Write(f))
    + (IF f.kind \in {"CONNECTION_CLOSE", "GOAWAY"} THEN f.Reason ELSE 0)

MinLength(f) ==
    CASE f.kind = "RST_STREAM" -> 1 + 4 + 8 + 4
      [] f.kind = "WINDOW_UPDATE" -> 1 + 4 + 8
      [] f.kind = "BLOCKED" -> 1 + 4
      [] f.kind = "CONNECTION_CLOSE" -> 1 + 4 + 2 + f.Reason
      [] f.kind = "GOAWAY" -> 1 + 4 + 4 + 2 + f.Reason
      [] f.kind = "STOP_WAITING" -> 1 + f.PacketNumberLen
      [] f.kind = "ADD_ADDRESS" -> 1 + 1 + AddressLength(f) + 2
      [] f.kind = "PATHS" -> PathsMinLength(f)
      [] OTHER -> 1

Parse(kind, w, packetNumber, packetNumberLen) ==
    CASE kind = "RST_STREAM" -> ParseRstStreamFrame(w)
      [] kind = "WINDOW_UPDATE" -> ParseWindowUpdateFrame(w)
      [] kind = "BLOCKED" -> ParseBlockedFrame(w)
      [] kind = "CONNECTION_CLOSE" -> ParseConnectionCloseFrame(w)
      [] kind = "GOAWAY" -> ParseGoawayFrame(w)
      [] kind = "STOP_WAITING" -> ParseStopWaitingFrame(w, packetNumber, packetNumberLen)
      [] kind = "ADD_ADDRESS" -> ParseAddAddressFrame(w)
      [] kind = "PATHS" -> ParsePathsFrame(w)
      [] OTHER -> ParsePingFrame
=============================================================================
