------------------------------- MODULE Wire --------------------------------
(***************************************************************************)
(* How numbers are put into packets: fields of a fixed width               *)
(* (internal/utils/byteorder*.go), packet numbers that are cut to a width  *)
(* and inferred again (internal/protocol/packet_number.go), and the        *)
(* floating point durations of internal/utils/float16.go.                  *)
(*                                                                         *)
(* A field is a record of its width in bytes and the value those bytes     *)
(* stand for.  A reader that takes another width than was written is out   *)
(* of step with the writer from there on; what it reads is Garbled.        *)
(***************************************************************************)
EXTENDS Integers, FiniteSetsExt

CONSTANTS
    MaxByte,                \* 0xFF, the largest value of a byte
    uFloat16ExponentBits,   \* 5
    uFloat16MantissaBits,   \* 11
    MaxPacketSize           \* protocol.MaxPacketSize

WireAssumption ==
    /\ MaxByte \in Nat \ {0}
    /\ uFloat16ExponentBits \in Nat \ {0}
    /\ uFloat16MantissaBits \in Nat \ {0}
    /\ MaxPacketSize \in Nat

Byte == MaxByte + 1
Word == Byte ^ 8            \* the values of a word of 8 bytes
Garbled == -1
ParseError == [error |-> TRUE]

WriteUint(value, len) == [len |-> len, value |-> value % (Byte ^ len)]

ReadUintN(field, len) == IF field.len = len THEN field.value ELSE Garbled

-----------------------------------------------------------------------------
(***************************************************************************)
(* protocol.PacketNumber.  Arithmetic on packet numbers is unsigned, with  *)
(* words of word values.                                                   *)
(***************************************************************************)
delta(a, b) == IF a < b THEN b - a ELSE a - b

closestTo(target, a, b) == IF delta(target, a) < delta(target, b) THEN a ELSE b

(***************************************************************************)
(* The number closest to the next expected one among those with the given  *)
(* low bytes in the previous, the current and the next epoch.              *)
(***************************************************************************)
InferPacketNumber(word, epochDelta, lastPacketNumber, wirePacketNumber) ==
    LET epoch == lastPacketNumber - (lastPacketNumber % epochDelta)
        In(begin) == (begin + wirePacketNumber) % word
        target == lastPacketNumber + 1
    IN  closestTo(target, In(epoch),
                  closestTo(target, In(epoch - epochDelta), In(epoch + epochDelta)))

(***************************************************************************)
(* Half of what a number of len bytes tells apart: 2 << (len * 8 - 2).     *)
(***************************************************************************)
HalfEpoch(len) == (Byte ^ len) \div 2

GetPacketNumberLengthForPublicHeader(packetNumber, leastUnacked) ==
    IF packetNumber - leastUnacked < HalfEpoch(2) THEN 2
    ELSE IF packetNumber - leastUnacked < HalfEpoch(4) THEN 4 ELSE 6

GetPacketNumberLength(packetNumber) ==
    IF packetNumber < Byte THEN 1
    ELSE IF packetNumber < Byte ^ 2 THEN 2
    ELSE IF packetNumber < Byte ^ 4 THEN 4 ELSE 6

-----------------------------------------------------------------------------
(***************************************************************************)
(* Unsigned floating point values: the highest bits of a number, and how   *)
(* far they are shifted.  The loop of writeUfloat16 is a binary search for *)
(* the shift after which the highest bit is the hidden one.                *)
(***************************************************************************)
uFloat16MaxExponent == 2 ^ uFloat16ExponentBits - 2
Hidden == 2 ^ uFloat16MantissaBits
uFloat16MaxValue == (2 * Hidden - 1) * 2 ^ uFloat16MaxExponent

Shift(value) ==
    Max({e \in 0 .. uFloat16MaxExponent : value \div (2 ^ e) >= Hidden})

writeUfloat16(value) ==
    IF value < 2 * Hidden THEN value
    ELSE IF value >= uFloat16MaxValue
         THEN 2 ^ (uFloat16ExponentBits + uFloat16MantissaBits) - 1
    ELSE value \div (2 ^ Shift(value)) + Shift(value) * Hidden

readUfloat16(val) ==
    IF val < 2 * Hidden THEN val
    ELSE LET exponent == val \div Hidden - 1
         IN  (val - exponent * Hidden) * 2 ^ exponent
=============================================================================
