-------------------------- MODULE PacketNumberSet --------------------------
(***************************************************************************)
(* What a received packet history promises: it is the set of the packet    *)
(* numbers registered and not deleted since.                               *)
(***************************************************************************)
EXTENDS Integers

CONSTANT MaxPacketNumber

VARIABLE numbers

Init == numbers = {}

Add(p) == numbers' = numbers \cup {p}

Delete(p) == numbers' = {n \in numbers : n > p}

Next == \E p \in 0 .. MaxPacketNumber : (p > 0 /\ Add(p)) \/ Delete(p)

Spec == Init /\ [][Next]_numbers
=============================================================================
