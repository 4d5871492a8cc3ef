---------------------------- MODULE MCPacketCodec ----------------------------
(***************************************************************************)
(* PacketCodec with small bytes.  A scenario is one of                     *)
(*   - numbers: bytes of one bit, so that packet numbers of 2, 4 and 6     *)
(*     bytes are told apart within 4, 16 and 64 packets;                   *)
(*   - frames: bytes of two bits, so that an ACK has room for 3 blocks and *)
(*     gaps of 3, and every kind of frame with values around the widths;   *)
(*   - handshake: packets of the crypto stream, retransmitted;             *)
(*   - streamIDs: a stream the ID of which takes two bytes.                *)
(***************************************************************************)
EXTENDS Integers, SequencesExt

VARIABLES
    codecScenario,
    pers, truncate, known, next, leastUnacked, handshakePacket, inFlight, largestRcvd

codecVars == <<codecScenario, pers, truncate, known, next, leastUnacked, handshakePacket,
               inFlight, largestRcvd>>

(***************************************************************************)
(* The ranges of a set of packet numbers, in descending order.             *)
(***************************************************************************)
RangesOf(S) ==
    SetToSortSeq({[First |-> i, Last |-> j] : i, j \in S} \cap
                 {r \in [First : S, Last : S] :
                     /\ r.First .. r.Last \subseteq S
                     /\ r.First - 1 \notin S /\ r.Last + 1 \notin S /\ r.First <= r.Last},
                 LAMBDA a, b : a.First > b.First)

RangesFrame(kind, pathID, S) ==
    LET ranges == RangesOf(S)
    IN  [kind |-> kind, PathID |-> pathID, LargestAcked |-> ranges[1].Last,
         LowestAcked |-> ranges[Len(ranges)].First,
         AckRanges |-> IF Len(ranges) > 1 THEN ranges ELSE << >>]

(***************************************************************************)
(* Sets of received packets: the first gap is not larger than 6, which is  *)
(* what two blocks hold (254 blocks of 255 in the code).                   *)
(***************************************************************************)
ReceivedSets ==
    {S \in SUBSET {1, 5, 8, 9, 10, 11, 16} \ {{}} :
        LET ranges == RangesOf(S)
        IN  Len(ranges) > 1 => ranges[1].First - ranges[2].Last - 1 <= 6}

ControlQueues ==
    {<<RangesFrame("CLOSE_PATH", 3, S)>> : S \in {{1}, {2, 4, 8}, {1, 2, 3, 4, 11}, 13 .. 17}}
    \cup {<<[kind |-> "PING"]>>,
          <<[kind |-> "RST_STREAM", StreamID |-> 17, ByteOffset |-> 16384, ErrorCode |-> 6],
            [kind |-> "WINDOW_UPDATE", StreamID |-> 0, ByteOffset |-> 65535],
            [kind |-> "BLOCKED", StreamID |-> 255]>>,
          <<[kind |-> "GOAWAY", ErrorCode |-> 16, LastGoodStream |-> 16, Reason |-> 15]>>,
          <<[kind |-> "ADD_ADDRESS", IPVersion |-> 4, Addr |-> 7, Port |-> 15],
            [kind |-> "ADD_ADDRESS", IPVersion |-> 6, Addr |-> 8, Port |-> 0]>>}
    \cup {<<[kind |-> "PATHS", MaxNumPaths |-> 3, PathIDs |-> <<0, 3>>,
             RemoteRTTs |-> <<rtt, 0>>]>> : rtt \in {0, 7, 8, 9, 15, 17, 27, 28, 30}}

StreamFrames(ids) ==
    {f \in [kind : {"STREAM"}, StreamID : ids, UnreliableMarker : BOOLEAN, FinBit : BOOLEAN,
            DataLenPresent : {TRUE}, Offset : {0, 3, 15, 16, 16384}, DataLen : {0, 1, 15}] :
        f.FinBit \/ f.DataLen > 0}

Streams(ids) ==
    {<<f>> : f \in StreamFrames(ids)}
    \cup {<<f, [f EXCEPT !.Offset = 16, !.FinBit = FALSE, !.DataLen = 2]>> : f \in StreamFrames(ids)}

(***************************************************************************)
(* One of the parts of a packet varies at a time.                          *)
(***************************************************************************)
AllPayloads ==
    LET Payload(ack, control, streams) == [ack |-> ack, control |-> control, streams |-> streams]
        someStream == <<CHOOSE f \in StreamFrames({17}) : f.DataLen = 15>>
        someAck == <<RangesFrame("ACK", 0, {1, 5})>>
    IN  {Payload(<<RangesFrame("ACK", 2, S)>>, << >>, someStream) : S \in ReceivedSets}
        \cup {Payload(someAck, control, someStream) : control \in ControlQueues}
        \cup {Payload(<< >>, << >>, streams) : streams \in Streams({3, 17})}

LongIDs ==
    {[ack |-> << >>, control |-> << >>, streams |-> streams] : streams \in Streams({5})}

Numbers == INSTANCE PacketCodec WITH
    Perspectives <- {"server"}, Levels <- {"ForwardSecure"},
    MaxByte <- 1, uFloat16ExponentBits <- 2, uFloat16MantissaBits <- 2, MaxPacketSize <- 1350,
    Payloads <- {}, CryptoOffsets <- {}, CryptoData <- {}, CloseReasons <- {},
    PathID <- 1, Overhead <- 12, NonForwardSecurePacketSizeReduction <- 50,
    MaxPacketNumber <- 10, MaxInFlight <- 2

Frames == INSTANCE PacketCodec WITH
    Perspectives <- {"client", "server"}, Levels <- {"Secure", "ForwardSecure"},
    MaxByte <- 3, uFloat16ExponentBits <- 2, uFloat16MantissaBits <- 2, MaxPacketSize <- 1350,
    Payloads <- AllPayloads, CryptoOffsets <- {}, CryptoData <- {}, CloseReasons <- {0, 15},
    PathID <- 2, Overhead <- 12, NonForwardSecurePacketSizeReduction <- 50,
    MaxPacketNumber <- 2, MaxInFlight <- 1

Handshake == INSTANCE PacketCodec WITH
    Perspectives <- {"client", "server"}, Levels <- {"Unencrypted", "Secure"},
    MaxByte <- 3, uFloat16ExponentBits <- 2, uFloat16MantissaBits <- 2, MaxPacketSize <- 1350,
    Payloads <- {}, CryptoOffsets <- {0, 300}, CryptoData <- {5000}, CloseReasons <- {},
    PathID <- 0, Overhead <- 12, NonForwardSecurePacketSizeReduction <- 50,
    MaxPacketNumber <- 9, MaxInFlight <- 1

StreamIDs == INSTANCE PacketCodec WITH
    Perspectives <- {"server"}, Levels <- {"ForwardSecure"},
    MaxByte <- 3, uFloat16ExponentBits <- 2, uFloat16MantissaBits <- 2, MaxPacketSize <- 1350,
    Payloads <- LongIDs, CryptoOffsets <- {}, CryptoData <- {}, CloseReasons <- {},
    PathID <- 0, Overhead <- 12, NonForwardSecurePacketSizeReduction <- 50,
    MaxPacketNumber <- 2, MaxInFlight <- 1

CodecAssumption == Numbers!WireAssumption /\ Frames!WireAssumption

CodecInit(scenario) ==
    /\ codecScenario = scenario
    /\ CASE scenario = "frames" -> Frames!CodecInit
         [] scenario = "handshake" -> Handshake!CodecInit
         [] OTHER -> Numbers!CodecInit

CodecNext ==
    /\ UNCHANGED codecScenario
    /\ \/ codecScenario = "numbers" /\ Numbers!CodecNext
       \/ codecScenario = "frames" /\ Frames!CodecNext
       \/ codecScenario = "handshake" /\ Handshake!CodecNext /\ leastUnacked' <= 1
       \/ codecScenario = "streamIDs" /\ StreamIDs!CodecNext

Spec == CodecInit("streamIDs") /\ [][CodecNext]_codecVars

-----------------------------------------------------------------------------
(***************************************************************************)
(* The receiver infers the number and finds the path of every packet that  *)
(* is not half an epoch late (InferPacketNumber, getPublicHeader).         *)
(***************************************************************************)
NumbersAreInferred ==
    /\ codecScenario = "numbers" => Numbers!NumbersAreInferred
    /\ codecScenario = "frames" => Frames!NumbersAreInferred
    /\ codecScenario = "handshake" => Handshake!NumbersAreInferred

(***************************************************************************)
(* The frames that packetUnpacker.Unpack parses are those that were packed.*)
(***************************************************************************)
FramesSurvive ==
    /\ codecScenario = "frames" => Frames!FramesSurvive
    /\ codecScenario = "handshake" => Handshake!FramesSurvive

(***************************************************************************)
(* Frames are written without an error, have the length that was planned,  *)
(* and packets are not too large (writeAndSealPacket).                     *)
(***************************************************************************)
PacketIsWritten ==
    /\ codecScenario = "frames" => Frames!PacketIsWritten
    /\ codecScenario = "handshake" => Handshake!PacketIsWritten

(***************************************************************************)
(* The frames of a stream with a StreamID of two bytes survive as well:    *)
(* stream_frame_test.go wants the two low bits of the type byte to be the  *)
(* length of the StreamID, 0x1 for two bytes.  ParseStreamFrame drops the  *)
(* lowest of them.                                                         *)
(***************************************************************************)
LongStreamIDsSurvive == StreamIDs!FramesSurvive
=============================================================================
