----------------------------- MODULE ByteStream -----------------------------
(***************************************************************************)
(* What the receiving side of a stream promises: bytes arrive in any       *)
(* order, Read returns them in the order of the stream and none that has   *)
(* not arrived, and reports the end after the last byte.  On an unreliable *)
(* stream a byte that is missing may be given up for a zero.               *)
(***************************************************************************)
EXTENDS Integers, Sequences

CONSTANTS StreamLength, Zero

VARIABLES
    unreliable,     \* never changes
    received, read, finished

vars == <<unreliable, received, read, finished>>

Bytes == 0 .. StreamLength - 1

Init ==
    /\ unreliable \in BOOLEAN
    /\ received = {}
    /\ read = << >>
    /\ finished = FALSE

(***************************************************************************)
(* Bytes arrive, or are given up.                                          *)
(***************************************************************************)
Receive ==
    /\ received' \in SUBSET Bytes
    /\ received \subseteq received'
    /\ UNCHANGED finished

Value(b) == IF unreliable THEN {b, Zero} ELSE {b}

(***************************************************************************)
(* Read returns some more bytes that have arrived.                         *)
(***************************************************************************)
Read ==
    /\ ~finished
    /\ Len(read') >= Len(read)
    /\ SubSeq(read', 1, Len(read)) = read
    /\ \A i \in Len(read) + 1 .. Len(read') : i - 1 \in received' /\ read'[i] \in Value(i - 1)
    /\ UNCHANGED finished

Finish ==
    /\ Len(read) = StreamLength
    /\ finished' = TRUE
    /\ UNCHANGED <<received, read>>

Next ==
    /\ \/ Receive /\ UNCHANGED read
       \/ Receive /\ Read
       \/ Finish
    /\ UNCHANGED unreliable

Spec == Init /\ [][Next]_vars

=============================================================================
