---------------------------- MODULE PacketCodec ----------------------------
(***************************************************************************)
(* What becomes of a packet between the packer of one endpoint and the     *)
(* frames of the other: packet_packer.go chooses a header and frames and   *)
(* writes them, the network delays, reorders and drops packets, path.go    *)
(* infers the packet number and packet_unpacker.go parses the frames.  One *)
(* path of a connection, in one direction.                                 *)
(*                                                                         *)
(* How the queues of the packer are filled is the subject of PacketSending *)
(* and StreamFramer; what they hold is arbitrary here.                     *)
(***************************************************************************)
EXTENDS AckFrame, StreamFrame, ControlFrames, PublicHeader

CONSTANTS
    Perspectives,           \* who the sender may be
    Levels,                 \* the encryption levels it uses
    Payloads,               \* what is queued for a packet: ack, control, streams
    CryptoOffsets,          \* write offsets of the crypto stream
    CryptoData,             \* how much data the crypto stream has
    CloseReasons,           \* lengths of the reason of a CONNECTION_CLOSE
    PathID,                 \* of the path
    Overhead,               \* of the sealers
    NonForwardSecurePacketSizeReduction,
    MaxPacketNumber,        \* bound on the packets sent
    MaxInFlight             \* bound on the packets in the network

VARIABLES
    pers,                   \* of the sender
    truncate,               \* TruncateConnectionID of a server, which matters for path 0
    known,                  \* the receiver knows the version
    next,                   \* the number of the next packet
    leastUnacked,           \* of the path of the sender
    handshakePacket,        \* the last packet of the crypto stream, for retransmission
    inFlight,
    largestRcvd             \* largestRcvdPacketNumber of the path of the receiver

codecVars == <<pers, truncate, known, next, leastUnacked, handshakePacket, inFlight, largestRcvd>>

None == [none |-> TRUE]

CodecInit ==
    /\ pers \in Perspectives
    /\ truncate \in (IF pers = "server" /\ PathID = 0 THEN BOOLEAN ELSE {FALSE})
    /\ known = (pers = "server")
    /\ next = 1
    /\ leastUnacked = 0
    /\ handshakePacket = None
    /\ inFlight = {}
    /\ largestRcvd = 0

-----------------------------------------------------------------------------
(* The packer *)

WriteFrame(f) ==
    CASE f.kind = "ACK" -> WriteAckFrame(f)
      [] f.kind = "CLOSE_PATH" -> WriteClosePathFrame(f)
      [] f.kind = "STREAM" -> WriteStreamFrame(f)
      [] OTHER -> [kind |-> f.kind, fields |-> Write(f), length |-> WrittenLength(f)]

FrameMinLength(f) ==
    CASE f.kind = "ACK" -> AckMinLength(f)
      [] f.kind = "CLOSE_PATH" -> ClosePathMinLength(f)
      [] f.kind = "STREAM" -> StreamMinLength(f) + f.DataLen
      [] OTHER -> MinLength(f)

FrameIsWritable(f) ==
    CASE f.kind \in {"ACK", "CLOSE_PATH"} -> RangesAreWritable(f)
      [] f.kind = "STREAM" -> StreamIsWritable(f)
      [] OTHER -> IsWritable(f)

(***************************************************************************)
(* The STOP_WAITING frame in the queue, for a LeastUnacked n above 0.  The *)
(* packer completes it with the number and its length.                     *)
(***************************************************************************)
StopWaiting(n, h) ==
    IF n = 0 THEN << >>
    ELSE <<[kind |-> "STOP_WAITING", LeastUnacked |-> n,
            PacketNumber |-> h.PacketNumber, PacketNumberLen |-> h.PacketNumberLen]>>

Header(encLevel, multipath) ==
    getPublicHeader(pers, encLevel, multipath, truncate, PathID, next, leastUnacked)

Total(written) == FoldLeft(LAMBDA n, w : n + w.length, 0, written)

(***************************************************************************)
(* While more is given up than the peer has, fewer packets are lost in a   *)
(* row than half of what the packet number tells apart: 2^15 packets.      *)
(***************************************************************************)
FewLost(h) ==
    \/ leastUnacked <= largestRcvd + 1
    \/ next - largestRcvd - 1 < HalfEpoch(h.PacketNumberLen)

(***************************************************************************)
(* writeAndSealPacket.  Only path 0 is there before the handshake is       *)
(* complete, and forward-secure keys only once the peer has answered.      *)
(***************************************************************************)
WriteAndSeal(h, encLevel, frames) ==
    /\ PathID # 0 => h.MultipathFlag
    /\ encLevel = "ForwardSecure" \/ h.MultipathFlag => known
    /\ FewLost(h)
    /\ inFlight' = inFlight \cup
          {[header |-> WriteHeader(h, pers), GetLength |-> GetLength(h, pers),
            number |-> h.PacketNumber, encLevel |-> encLevel, frames |-> frames]}
    /\ next' = next + 1
    /\ UNCHANGED <<pers, truncate, known, leastUnacked, largestRcvd>>

LastWithoutLength(streams) ==
    [i \in DOMAIN streams |->
        [streams[i] EXCEPT !.DataLenPresent = i < Len(streams)]]

CanSendData(encLevel) ==
    encLevel = "ForwardSecure" \/ (pers = "client" /\ encLevel = "Secure")

(***************************************************************************)
(* The frames of a packet in the order of composeNextPacket: STOP_WAITING, *)
(* ACK, control frames from the end of the queue, STREAM frames the last   *)
(* of which has no length.                                                 *)
(***************************************************************************)
ComposeNextPacket(payload, stopWaiting, encLevel) ==
    stopWaiting \o payload.ack \o Reverse(payload.control)
    \o (IF CanSendData(encLevel) THEN LastWithoutLength(payload.streams) ELSE << >>)

PackPacket(payload, n, encLevel, multipath) ==
    LET h == Header(encLevel, multipath)
        frames == ComposeNextPacket(payload, StopWaiting(n, h), encLevel)
    IN  /\ Len(frames) > Len(StopWaiting(n, h))
        /\ WriteAndSeal(h, encLevel, frames)
        /\ UNCHANGED handshakePacket

PackPing(encLevel, multipath) ==
    /\ WriteAndSeal(Header(encLevel, multipath), encLevel, <<[kind |-> "PING"]>>)
    /\ UNCHANGED handshakePacket

PackAckPacket(payload, n, encLevel, multipath) ==
    LET h == Header(encLevel, multipath)
    IN  /\ payload.ack # << >>
        /\ WriteAndSeal(h, encLevel, payload.ack \o StopWaiting(n, h))
        /\ UNCHANGED handshakePacket

PackConnectionClose(reason, encLevel, multipath) ==
    /\ WriteAndSeal(Header(encLevel, multipath), encLevel,
          <<[kind |-> "CONNECTION_CLOSE", ErrorCode |-> 1, Reason |-> reason]>>)
    /\ UNCHANGED handshakePacket

(***************************************************************************)
(* Mutant: packets of the crypto stream are filled.                        *)
(***************************************************************************)
MutCryptoFrame(h, offset, data) ==
    LET f == [kind |-> "STREAM", StreamID |-> 1, UnreliableMarker |-> FALSE, FinBit |-> FALSE,
              DataLenPresent |-> FALSE, Offset |-> offset, DataLen |-> 0]
    IN  [f EXCEPT !.DataLen =
            Min({data, MaxPacketSize - Overhead - GetLength(h, pers) - StreamMinLength(f)})]

(***************************************************************************)
(* PopCryptoStreamFrame: packets that are not forward-secure are left      *)
(* shorter.                                                                *)
(***************************************************************************)
CryptoFrame(h, offset, data) ==
    LET f == [kind |-> "STREAM", StreamID |-> 1, UnreliableMarker |-> FALSE, FinBit |-> FALSE,
              DataLenPresent |-> FALSE, Offset |-> offset, DataLen |-> 0]
        maxLen == MaxPacketSize - Overhead - NonForwardSecurePacketSizeReduction
                  - GetLength(h, pers)
    IN  [f EXCEPT !.DataLen = Min({data, maxLen - StreamMinLength(f)})]

PackCryptoPacket(offset, data, encLevel, multipath) ==
    LET h == Header(encLevel, multipath)
        frame == CryptoFrame(h, offset, data)
    IN  /\ encLevel = "Unencrypted" \/ (encLevel = "Secure" /\ pers = "server")
        /\ PathID = 0
        /\ WriteAndSeal(h, encLevel, <<frame>>)
        /\ handshakePacket' = [frame |-> frame, encLevel |-> encLevel]

(***************************************************************************)
(* The frame is sent again with a STOP_WAITING, in a packet the header of  *)
(* which may have grown since.                                             *)
(***************************************************************************)
PackHandshakeRetransmission(n, multipath) ==
    /\ handshakePacket # None
    /\ n # 0
    /\ LET encLevel == handshakePacket.encLevel
           h == Header(encLevel, multipath)
       IN  WriteAndSeal(h, encLevel, StopWaiting(n, h) \o <<handshakePacket.frame>>)
    /\ UNCHANGED handshakePacket

(***************************************************************************)
(* SetLeastUnacked: packets were acknowledged, or given up.                *)
(***************************************************************************)
SetLeastUnacked(n) ==
    /\ n > leastUnacked
    /\ leastUnacked' = n
    /\ UNCHANGED <<pers, truncate, known, next, handshakePacket, inFlight, largestRcvd>>

-----------------------------------------------------------------------------
(* The unpacker *)

ParseFrame(w, rest, encLevel, number, numberLen) ==
    CASE w.kind = "ACK" -> ParseAckFrame(w)
      [] w.kind = "CLOSE_PATH" -> ParseClosePathFrame(w)
      [] w.kind = "STREAM" ->
            LET f == ParseStreamFrame([w EXCEPT !.rest = rest])
            IN  IF f # ParseError /\ f.StreamID # 1 /\ encLevel = "Unencrypted"
                THEN ParseError ELSE f
      [] OTHER -> Parse(w.kind, w.fields, number, numberLen)

(***************************************************************************)
(* Unpack: frame after frame; a STREAM frame without a length takes all    *)
(* that is left.                                                           *)
(***************************************************************************)
Unpack(written, encLevel, number, numberLen) ==
    LET last == Min({i \in DOMAIN written :
                        \/ i = Len(written)
                        \/ written[i].kind = "STREAM" /\ ~written[i].dataLenPresent})
    IN  [i \in 1 .. last |->
            ParseFrame(written[i], Total(SubSeq(written, i + 1, Len(written)))
                                   + (IF written[i].kind = "STREAM" THEN written[i].rest ELSE 0),
                       encLevel, number, numberLen)]

Written(p) == [i \in DOMAIN p.frames |-> WriteFrame(p.frames[i])]

(***************************************************************************)
(* What the receiver makes of a packet.  With the wrong number a packet is *)
(* not decrypted.                                                          *)
(***************************************************************************)
Received(p) ==
    LET h == ParsePublicHeader(p.header, pers, known)
        number == InferPacketNumber(Word, Byte ^ h.PacketNumberLen, largestRcvd, h.PacketNumber)
    IN  IF h = ParseError THEN ParseError
        ELSE [PathID |-> h.PathID, number |-> number,
              frames |-> IF number # p.number THEN << >>
                         ELSE Unpack(Written(p), p.encLevel, number, h.PacketNumberLen)]

IsUnpacked(r) == r # ParseError /\ r.frames # << >> /\ ParseError \notin Range(r.frames)

(***************************************************************************)
(* path.handlePacketImpl, up to the frames.                                *)
(***************************************************************************)
HandlePacket(p) ==
    \E r \in {Received(p)} :
        /\ inFlight' = inFlight \ {p}
        /\ known' = (known \/ r # ParseError)
        /\ largestRcvd' = IF IsUnpacked(r) THEN Max({r.number, largestRcvd}) ELSE largestRcvd
        /\ UNCHANGED <<pers, truncate, next, leastUnacked, handshakePacket>>

LosePacket(p) ==
    /\ inFlight' = inFlight \ {p}
    /\ UNCHANGED <<pers, truncate, known, next, leastUnacked, handshakePacket, largestRcvd>>

-----------------------------------------------------------------------------
CanPack == next <= MaxPacketNumber /\ Cardinality(inFlight) < MaxInFlight
LeastUnackedSent == {0, leastUnacked, next}

CodecNext ==
    \/ CanPack /\ \E encLevel \in Levels, multipath \in BOOLEAN :
          \/ \E payload \in Payloads, n \in LeastUnackedSent :
                \/ PackPacket(payload, n, encLevel, multipath)
                \/ PackAckPacket(payload, n, encLevel, multipath)
          \/ PackPing(encLevel, multipath)
          \/ \E reason \in CloseReasons : PackConnectionClose(reason, encLevel, multipath)
          \/ \E offset \in CryptoOffsets, data \in CryptoData :
                PackCryptoPacket(offset, data, encLevel, multipath)
    \/ CanPack /\ \E n \in LeastUnackedSent, multipath \in BOOLEAN :
          PackHandshakeRetransmission(n, multipath)
    \/ \E n \in 1 .. next : SetLeastUnacked(n)
    \/ \E p \in inFlight : HandlePacket(p) \/ LosePacket(p)

-----------------------------------------------------------------------------
(***************************************************************************)
(* The receiver infers the number of a packet that it would handle now,    *)
(* whatever was lost or acknowledged since it was sent: of a packet ahead  *)
(* of all it has in every case, and of a late one as long as it is less    *)
(* than half of what the number tells apart late.  InferPacketNumber works *)
(* from the largest number received, getPublicHeader chose the length from *)
(* what was acknowledged when the packet was sent.  A packet of path 0     *)
(* before the handshake is for path 0.                                     *)
(***************************************************************************)
NumbersAreInferred ==
    \A p \in inFlight : \A r \in {Received(p)} :
       /\ r # ParseError
       /\ r.PathID = PathID
       /\ largestRcvd + 1 - p.number < HalfEpoch(p.header.packetNumber.len) =>
              r.number = p.number

(***************************************************************************)
(* What a frame is after the wire: the ranges of an ACK that have room,    *)
(* and round trip times rounded down by less than their last bit.          *)
(***************************************************************************)
SameRanges(f, got) ==
    LET ranges == SubSeq(f.AckRanges, 1, WritableRanges(f.AckRanges))
    IN  /\ got.PathID = f.PathID
        /\ got.LargestAcked = f.LargestAcked
        /\ got.AckRanges = IF HasMissingRanges(f) THEN ranges ELSE << >>
        /\ got.LowestAcked = IF HasMissingRanges(f) THEN ranges[Len(ranges)].First
                             ELSE f.LowestAcked

Rounded(rtt, got) ==
    \/ got = uFloat16MaxValue /\ rtt >= got
    \/ got <= rtt /\ (rtt - got) * Hidden <= rtt

SameFrame(f, got) ==
    CASE f.kind \in {"ACK", "CLOSE_PATH"} -> SameRanges(f, got)
      [] f.kind = "STOP_WAITING" -> got.LeastUnacked = f.LeastUnacked
      [] f.kind = "PATHS" -> /\ got.PathIDs = f.PathIDs
                             /\ got.MaxNumPaths = f.MaxNumPaths
                             /\ \A i \in DOMAIN f.RemoteRTTs :
                                   Rounded(f.RemoteRTTs[i], got.RemoteRTTs[i])
      [] OTHER -> \A field \in DOMAIN f \ {"kind"} : got[field] = f[field]

(***************************************************************************)
(* Unpack gives the frames that were packed, in their order and complete,  *)
(* for every packet of which the number is inferred: Write and Parse of    *)
(* all kinds of frames agree, STOP_WAITING with the number in the header,  *)
(* and the STREAM frame without a length is the last one.                  *)
(***************************************************************************)
FramesSurvive ==
    \A p \in inFlight : \A r \in {Received(p)} :
       r # ParseError /\ r.number = p.number =>
          /\ ParseError \notin Range(r.frames)
          /\ Len(r.frames) = Len(p.frames)
          /\ \A i \in DOMAIN p.frames : SameFrame(p.frames[i], r.frames[i])

(***************************************************************************)
(* A packet is written without an error of a frame, header and frames have *)
(* the lengths that GetLength and MinLength gave the packer to plan with,  *)
(* and it is not too large: a handshake packet neither, when it is sent    *)
(* again with a STOP_WAITING and a longer header.                          *)
(***************************************************************************)
PacketIsWritten ==
    \A p \in inFlight : \A written \in {Written(p)} :
       /\ \A f \in Range(p.frames) : FrameIsWritable(f)
       /\ p.header.length = p.GetLength
       /\ \A i \in DOMAIN p.frames : written[i].length = FrameMinLength(p.frames[i])
       /\ p.header.length + Total(written) + Overhead <= MaxPacketSize
=============================================================================
