-------------------------- MODULE StreamRoundRobin --------------------------
(***************************************************************************)
(* The order in which the streams of a session get room in packets:        *)
(* RoundRobinIterate2 of the streams map, with the function that           *)
(* maybePopNormalFrames iterates.  Stream 3 comes first, then, if the      *)
(* congestion window of the path allows sending, the streams without an    *)
(* entry in unreliableStreamMark, then the streams with one.  Each of the  *)
(* two classes has an index at which its next round starts.                *)
(*                                                                         *)
(* The bytes of a packet are abstracted to the number k of streams with    *)
(* data that fill it.                                                      *)
(***************************************************************************)
EXTENDS Integers, Sequences, FiniteSets, SequencesExt

CONSTANTS
    StreamIDs,       \* the streams that come and go, without the crypto stream 1
    Marked,          \* the streams with an entry in unreliableStreamMark
    Unreliable,      \* the streams whose entry is TRUE
    MaxFill,         \* bound on the number of streams that fill a packet
    MaxPassed        \* bound on the packets that pass a stream over

StreamRoundRobinAssumption ==
    /\ StreamIDs \subseteq Nat \ {0, 1}
    /\ Unreliable \subseteq Marked
    /\ {MaxFill, MaxPassed} \subseteq Nat \ {0}

VARIABLES
    openStreams,           \* the sequence of the open streams
    roundRobinIndex,       \* where the next round of the marked streams starts
    unreliableRobinIndex,  \* where the next round of the other streams starts
    hasData,               \* the streams with data or a FIN to send
    served,                \* the streams with a frame in the last packet
    allowed,               \* SendingAllowed of the path of the last packet
    passed                 \* the packets that had no room for a stream with data, since the
                           \* set of streams changed, counted up to MaxPassed

vars == <<openStreams, roundRobinIndex, unreliableRobinIndex, hasData, served, allowed, passed>>

Open == ToSet(openStreams)
NumStreams == Len(openStreams)

Init ==
    /\ openStreams = <<1>>
    /\ roundRobinIndex = 0
    /\ unreliableRobinIndex = 0
    /\ hasData = {}
    /\ served = {}
    /\ allowed = TRUE
    /\ passed = [s \in StreamIDs |-> 0]

-----------------------------------------------------------------------------
(***************************************************************************)
(* The streams of a class in the order of a round that starts at an index. *)
(***************************************************************************)
Round(start, class) ==
    LET order == [i \in 1 .. NumStreams |-> openStreams[((i - 1 + start) % NumStreams) + 1]]
        InClass(s) == s \in class \ {1, 3}
    IN  SelectSeq(order, InClass)

(***************************************************************************)
(* How many streams of a round are visited when the packet has room for    *)
(* streams with data.  The stream that fills the packet ends the round; if *)
(* the packet is full already, the first stream does, without a frame.     *)
(***************************************************************************)
WithData(round, n) == Cardinality({i \in 1 .. n : round[i] \in hasData})

Visits(round, room) ==
    LET ends == {n \in 1 .. Len(round) : WithData(round, n) >= room}
    IN  IF ends = {} THEN Len(round) ELSE CHOOSE n \in ends : \A m \in ends : n <= m

Served(round, room) ==
    IF room = 0 THEN {} ELSE hasData \cap {round[i] : i \in 1 .. Visits(round, room)}

(***************************************************************************)
(* Mutant: the index is set to the number of streams that were visited.    *)
(***************************************************************************)
MutAdvanceRestarts(index, visits) == IF visits = 0 THEN index ELSE visits % NumStreams

(***************************************************************************)
(* The index moves on by one for every stream that was visited.            *)
(***************************************************************************)
Advance(index, visits) == IF visits = 0 THEN index ELSE (index + visits) % NumStreams

(***************************************************************************)
(* The round of the streams without a mark, if the window is open.         *)
(***************************************************************************)
FirstRound(ok) == IF ok THEN Round(unreliableRobinIndex, StreamIDs \ Marked) ELSE << >>

(***************************************************************************)
(* maybePopNormalFrames and RoundRobinIterate2, for a packet that k        *)
(* streams with data fill.  A stream that got room has sent all its data,  *)
(* or not (more).  Packets that one stream fills, and those that are       *)
(* beyond the congestion window, are not held against a stream.            *)
(***************************************************************************)
RoundRobinIterate2(k, ok) ==
    LET first == hasData \cap {3}
        room == k - Cardinality(first)
        round1 == FirstRound(ok)
        served1 == Served(round1, room)
        room2 == room - Cardinality(served1)
        round2 == Round(roundRobinIndex, Marked)
    IN  /\ allowed' = ok
        /\ IF room = 0
           THEN /\ served' = first
                /\ UNCHANGED <<roundRobinIndex, unreliableRobinIndex>>
           ELSE /\ served' = first \cup served1 \cup Served(round2, room2)
                /\ unreliableRobinIndex' = Advance(unreliableRobinIndex, Visits(round1, room))
                /\ roundRobinIndex' = Advance(roundRobinIndex, Visits(round2, room2))
        /\ \E more \in SUBSET served' : hasData' = (hasData \ served') \cup more
        /\ passed' = [s \in StreamIDs |->
                         CASE s \in served' -> 0
                           [] s \in hasData \ served' /\ ok /\ k = MaxFill /\ passed[s] < MaxPassed ->
                                  passed[s] + 1
                           [] OTHER -> passed[s]]
        /\ UNCHANGED openStreams

(***************************************************************************)
(* The application writes to a stream or closes it.                        *)
(***************************************************************************)
Write(s) ==
    /\ s \in Open \ (hasData \cup {1})
    /\ hasData' = hasData \cup {s}
    /\ UNCHANGED <<openStreams, roundRobinIndex, unreliableRobinIndex, served, allowed, passed>>

(***************************************************************************)
(* putStream and putStreamType.                                            *)
(***************************************************************************)
PutStream(s) ==
    /\ s \notin Open
    /\ openStreams' = Append(openStreams, s)
    /\ passed' = [t \in StreamIDs |-> 0]
    /\ UNCHANGED <<roundRobinIndex, unreliableRobinIndex, hasData, served, allowed>>

(***************************************************************************)
(* RemoveStream.  Positions count from 0.                                  *)
(***************************************************************************)
Adjusted(i) == IF i < roundRobinIndex THEN roundRobinIndex - 1 ELSE roundRobinIndex

RemoveStream(s) ==
    /\ s \in Open \ (hasData \cup {1})
    /\ \E i \in 1 .. NumStreams :
          /\ openStreams[i] = s
          /\ openStreams' = RemoveAt(openStreams, i)
          /\ roundRobinIndex' = Adjusted(i - 1)
    /\ passed' = [t \in StreamIDs |-> 0]
    /\ UNCHANGED <<unreliableRobinIndex, hasData, served, allowed>>

Next ==
    \/ \E k \in 1 .. MaxFill, ok \in BOOLEAN : RoundRobinIterate2(k, ok)
    \/ \E s \in StreamIDs : Write(s) \/ PutStream(s) \/ RemoveStream(s)

Spec == Init /\ [][Next]_vars

-----------------------------------------------------------------------------
(***************************************************************************)
(* A stream with data that the peer opened as a reliable one is served     *)
(* before MaxPassed packets have passed it over, one for each stream, as   *)
(* long as no stream comes or goes: an index that skips positions and      *)
(* starts anywhere, also beyond the streams that are left, starves no one. *)
(***************************************************************************)
ServedInTime == \A s \in StreamIDs \ Marked : passed[s] < MaxPassed

=============================================================================
