------------------------------ MODULE MCStream ------------------------------
(***************************************************************************)
(* Stream and, beside it, StreamFrameSorter.  A scenario is one of those   *)
(* of MCStreamFrameSorter, or one of three of the stream: data flows both  *)
(* ways, without deadlines, while both sides may reset the stream; the     *)
(* application only reads, or only writes, with deadlines and without a    *)
(* reset by the peer.                                                      *)
(***************************************************************************)
EXTENDS Stream

CONSTANT Zero

VARIABLES
    scenario,
    queuedFrames, gaps, readPosition, sortedOffset, maxOffset, reading, delivered, sorterFinished,
    sorterErr

sorterVars == <<queuedFrames, gaps, readPosition, sortedOffset, maxOffset, reading, delivered,
                sorterFinished, sorterErr>>

Sorter == INSTANCE MCStreamFrameSorter WITH finishedReading <- sorterFinished, err <- sorterErr

ASSUME Sorter!SorterAssumption

OfStream == scenario \in {"both", "reader", "writer"}

Scenario ==
    CASE scenario = "both" ->
           /\ received <= 1 /\ writeOffset + dataForWriting <= 2
           /\ now = 1 /\ readDeadline = 0 /\ writeDeadline = 0
      [] scenario = "reader" -> writePC = "idle" /\ writeDeadline = 0 /\ ~resetRemotely
      [] scenario = "writer" -> readPC = "idle" /\ received = 0 /\ readDeadline = 0 /\ ~resetRemotely

MCInit ==
    /\ Init
    /\ Sorter!Reliable!Init
    /\ scenario \in {"both", "reader", "writer", "reliable", "lossy"}

MCNext ==
    \/ OfStream /\ Next /\ UNCHANGED <<scenario, sorterVars>> /\ Scenario'
    \/ ~OfStream /\ Sorter!Next /\ UNCHANGED vars

MCFairness ==
    /\ WF_vars(OfStream /\ Reading) /\ WF_vars(OfStream /\ Writing) /\ WF_vars(OfStream /\ Framing)
    /\ WF_vars(OfStream /\ scenario # "both" /\ Tick)

MCSpec == MCInit /\ [][MCNext]_<<vars, scenario, sorterVars>> /\ MCFairness

-----------------------------------------------------------------------------
(***************************************************************************)
(* Read finds every byte that has arrived, or a filled gap, on both kinds  *)
(* of stream (streamFrameSorter.Push, Head).                               *)
(***************************************************************************)
ReceivedIsReadable == Sorter!ReceivedIsReadable

(***************************************************************************)
(* The sorter implements a byte stream: bytes arrive in any order and Read *)
(* returns them in theirs, with zeros only on an unreliable stream         *)
(* (streamFrameSorter.Push, stream.Read).                                  *)
(***************************************************************************)
ImplementsByteStream == Sorter!ImplementsByteStream

=============================================================================
