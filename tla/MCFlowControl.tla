--------------------------- MODULE MCFlowControl ---------------------------
(***************************************************************************)
(* FlowControl with two streams that count on the connection, of which the *)
(* second may be reset.                                                    *)
(***************************************************************************)
EXTENDS FlowControl

CONSTANTS s1, s2

const_Streams == {s1, s2}
const_InitialWindow == [c \in {s1, s2, Conn} |-> IF c = Conn THEN 3 ELSE 2]
const_MaxIncrement == [c \in {s1, s2, Conn} |-> IF c = Conn THEN 6 ELSE 4]

MCNext == Next /\ resetLocally' \subseteq {s2}

MCSpec == Init /\ [][MCNext]_vars /\ Fairness

=============================================================================
