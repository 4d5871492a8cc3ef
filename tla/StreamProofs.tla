---------------------------- MODULE StreamProofs ----------------------------
(***************************************************************************)
(* What Stream tells the peer about the end of its data, for every bound,  *)
(* buffer size and set of deadlines.                                       *)
(***************************************************************************)
EXTENDS Stream, TLAPS

(***************************************************************************)
(* The inductive invariant.  The framer is about to send a FIN, or has     *)
(* sent it, only when the application has closed the stream and no data is *)
(* left; as Write refuses data after Close, none is added.  A RST_STREAM   *)
(* was sent only when the stream has an error, after which no data is      *)
(* taken.  These are the only ways to tell the peer the final offset, and  *)
(* one of them has happened when the stream is collected.                  *)
(***************************************************************************)
FinEndsTheData ==
    /\ framer = "fin" => finishedWriting /\ dataForWriting = 0
    /\ finSent => finishedWriting /\ dataForWriting = 0

RstHasError == rstSent => err # "nil"

EndIsTold ==
    /\ finalOffset # -1 => (finSent \/ rstSent) /\ writeOffset = finalOffset
    /\ ~registered /\ ~cancelled => finSent \/ rstSent

IndInv == FinEndsTheData /\ RstHasError /\ EndIsTold

LEMMA InitIndInv == Init => IndInv
BY DEF Init, IndInv, FinEndsTheData, RstHasError, EndIsTold

(***************************************************************************)
(* SendReset tells the present offset, or changes nothing.                 *)
(***************************************************************************)
LEMMA SendResetFact ==
    ASSUME SendReset
    PROVE  \/ rstSent' = TRUE /\ finalOffset' = writeOffset
           \/ UNCHANGED <<rstSent, finalOffset>>
BY SMTT(30) DEF SendReset

(***************************************************************************)
(* Every step keeps the invariant.                                         *)
(***************************************************************************)
LEMMA NextIndInv == IndInv /\ [Next]_vars => IndInv'
<1> SUFFICES ASSUME IndInv, [Next]_vars PROVE IndInv'
  OBVIOUS
<1> USE DEF IndInv, FinEndsTheData, RstHasError, EndIsTold
<1>1. CASE /\ UNCHANGED <<sendVars, rstSent, finalOffset, registered, finishedWriting>>
           /\ UNCHANGED flagVars
  BY <1>1 DEF sendVars, flagVars
<1>2. CASE ReadStart \/ Reading
  BY <1>1, <1>2 DEF ReadStart, Reading, ReadCheck, ReadLoop, ReadWake, ReadCopy
<1>3. CASE WriteStart
  BY <1>3 DEF WriteStart, flagVars
<1>4. CASE Writing
  BY <1>1, <1>4 DEF Writing, WriteLoop, WriteWake
<1>5. CASE Close
  BY <1>5 DEF Close, sendVars, flagVars
<1>6. CASE Reset
  <2>1. err' # "nil"
    BY <1>6 DEF Reset
  <2> QED
    BY <1>6, <2>1, SendResetFact, Zenon DEF Reset, sendVars
<1>7. CASE \/ \E t \in ReadDeadlines : SetReadDeadline(t)
           \/ \E t \in WriteDeadlines : SetWriteDeadline(t)
           \/ Tick
           \/ \E kind \in {"data", "fin", "behind a gap"} : AddStreamFrame(kind)
  BY <1>1, <1>7 DEF SetReadDeadline, SetWriteDeadline, Tick, AddStreamFrame
<1>8. CASE \E n \in 1 .. WriteLen : TakeData(n)
  <2>1. finalOffset # -1 => dataForWriting = 0 \/ err # "nil"
    OBVIOUS
  <2> QED
    BY <1>8, <2>1 DEF TakeData, flagVars, SessionFree
<1>9. CASE CheckFin
  BY <1>9 DEF CheckFin, shouldSendFin, flagVars
<1>10. CASE SentFin
  BY <1>10 DEF SentFin, flagVars
<1>11. CASE RegisterRemoteError
  <2>1. err' # "nil"
    BY <1>11 DEF RegisterRemoteError
  <2> QED
    BY <1>11, <2>1, SendResetFact, Zenon DEF RegisterRemoteError, sendVars
<1>12. CASE Cancel
  BY <1>12 DEF Cancel, sendVars
<1>13. CASE GarbageCollect
  BY <1>13 DEF GarbageCollect, finished, finishedWriteAndSentFin, sendVars, flagVars
<1>14. CASE UNCHANGED vars
  BY <1>1, <1>14 DEF vars
<1> QED
  BY <1>2, <1>3, <1>4, <1>5, <1>6, <1>7, <1>8, <1>9, <1>10, <1>11, <1>12, <1>13, <1>14, Zenon
  DEF Next, Framing

(***************************************************************************)
(* No data is taken from a stream after its FIN or its RST_STREAM has told *)
(* the peer where it ends (streamFramer.maybePopNormalFrames,              *)
(* stream.Reset, stream.RegisterRemoteError).                              *)
(***************************************************************************)
THEOREM FinalOffsetTheorem == Spec => []FinalOffsetIsFinal
<1>1. IndInv => FinalOffsetIsFinal
  BY DEF IndInv, EndIsTold, FinalOffsetIsFinal
<1> QED
  BY <1>1, InitIndInv, NextIndInv, PTL DEF Spec

(***************************************************************************)
(* A stream that stream.finished lets the session collect owes its peer    *)
(* nothing, unless the session has cancelled it.                           *)
(***************************************************************************)
THEOREM NothingOwedTheorem == Spec => []NothingOwed
<1>1. IndInv => NothingOwed
  BY DEF IndInv, FinEndsTheData, RstHasError, EndIsTold, NothingOwed
<1> QED
  BY <1>1, InitIndInv, NextIndInv, PTL DEF Spec


-----------------------------------------------------------------------------
(* What the application is told *)

CountTypes ==
    /\ bytesRead \in Nat /\ dataForWriting \in Nat /\ writeOffset \in Nat /\ reported \in Int
    /\ writePC \in {"idle", "loop", "wait"}
    /\ now \in Nat \ {0} /\ writeDeadline \in WriteDeadlines \cup {0}

(***************************************************************************)
(* Until a deadline can pass, what Write still has to report is what the   *)
(* session has taken of its data; what a failed Write leaves behind is not *)
(* taken any more.                                                         *)
(***************************************************************************)
WriteIsCounted ==
    now = 1 =>
        /\ writePC = "idle" => reported = writeOffset /\ (dataForWriting = 0 \/ err # "nil")
        /\ writePC # "idle" => reported + WriteLen = writeOffset + dataForWriting

EmptyReadIsExplained == emptyRead => resetLocally \/ cancelled

ReturnInv == CountTypes /\ WriteIsCounted /\ EmptyReadIsExplained

LEMMA InitReturnInv == Init => ReturnInv
BY DEF Init, ReturnInv, CountTypes, WriteIsCounted, EmptyReadIsExplained

(***************************************************************************)
(* The steps of Read count at least one frame before they return without   *)
(* an error.                                                               *)
(***************************************************************************)
LEMMA ReadReturnInv ==
    ASSUME ReturnInv, ReadStart \/ Reading PROVE ReturnInv'
<1> USE DEF ReturnInv, CountTypes, WriteIsCounted, EmptyReadIsExplained, flagVars, writeVars,
            sendVars, timeVars
<1>1. CASE ReadStart
  BY <1>1 DEF ReadStart
<1>2. ASSUME NEW n, NEW e, ReturnFromRead(n, e), ~(n = 0 /\ e = "nil") PROVE emptyRead' => emptyRead
  BY <1>2, Zenon DEF ReturnFromRead
<1>3. CASE ReadCheck
  <2>1. emptyRead' => emptyRead \/ resetLocally \/ cancelled
    BY <1>2, <1>3, Zenon DEF ReadCheck
  <2> QED
    BY <1>3, <2>1 DEF ReadCheck
<1>4. CASE ReadLoop
  <2>1. emptyRead' => emptyRead \/ resetLocally \/ cancelled
    <3>1. bytesRead > 0 => bytesRead # 0
      OBVIOUS
    <3> QED
      BY <1>2, <1>4, <3>1, Zenon DEF ReadLoop
  <2> QED
    BY <1>4, <2>1 DEF ReadLoop
<1>5. CASE ReadWake
  BY <1>5 DEF ReadWake
<1>6. CASE ReadCopy
  <2>1. bytesRead' \in Nat
    BY <1>6 DEF ReadCopy
  <2>2. emptyRead' => emptyRead
    <3>1. bytesRead + 1 # 0
      OBVIOUS
    <3> QED
      BY <1>2, <1>6, <3>1, Zenon DEF ReadCopy
  <2> QED
    BY <1>6, <2>1, <2>2 DEF ReadCopy
<1> QED
  BY <1>1, <1>3, <1>4, <1>5, <1>6, Zenon DEF Reading

LEMMA WriteReturnInv ==
    ASSUME 1 \notin WriteDeadlines, ReturnInv, WriteStart \/ Writing PROVE ReturnInv'
<1> USE DEF ReturnInv, CountTypes, WriteIsCounted, EmptyReadIsExplained, flagVars, readVars,
            sendVars, timeVars
<1>1. WriteLen \in Nat /\ WriteDeadlines \subseteq Nat
  BY StreamAssumption
<1>2. now = 1 => ~Expired(writeDeadline)
  BY <1>1 DEF Expired
<1>3. CASE WriteStart
  BY <1>1, <1>3 DEF WriteStart
<1>4. CASE WriteLoop
  <2>1. now = 1 => /\ writePC' = "idle" => reported' = writeOffset /\ (dataForWriting = 0 \/ err # "nil")
                   /\ writePC' # "idle" => writePC' = "wait" /\ reported' = reported
    BY <1>1, <1>2, <1>4 DEF WriteLoop
  <2> QED
    BY <1>1, <1>4, <2>1 DEF WriteLoop
<1>5. CASE WriteWake
  BY <1>5 DEF WriteWake
<1> QED
  BY <1>3, <1>4, <1>5, Zenon DEF Writing

LEMMA SessionReturnInv ==
    ASSUME ReturnInv, Next, ~(ReadStart \/ Reading), ~(WriteStart \/ Writing) PROVE ReturnInv'
<1> USE DEF ReturnInv, CountTypes, WriteIsCounted, EmptyReadIsExplained, flagVars, readVars,
            writeVars, sendVars, timeVars
<1>1. WriteLen \in Nat
  BY StreamAssumption
<1>2. CASE Close \/ CheckFin \/ SentFin \/ GarbageCollect
  BY <1>2 DEF Close, CheckFin, SentFin, GarbageCollect
<1>3. CASE Reset
  BY <1>3 DEF Reset
<1>4. CASE RegisterRemoteError \/ Cancel
  BY <1>4 DEF RegisterRemoteError, Cancel
<1>5. CASE \/ \E t \in ReadDeadlines : SetReadDeadline(t)
           \/ \E t \in WriteDeadlines : SetWriteDeadline(t)
           \/ \E kind \in {"data", "fin", "behind a gap"} : AddStreamFrame(kind)
  BY <1>5 DEF SetReadDeadline, SetWriteDeadline, AddStreamFrame
<1>6. CASE Tick
  <2>1. now' \in Nat \ {0} /\ now' # 1
    BY <1>6 DEF Tick
  <2> QED
    BY <1>6, <2>1 DEF Tick
<1>7. CASE \E n \in 1 .. WriteLen : TakeData(n)
  BY <1>1, <1>7 DEF TakeData
<1> QED
  BY <1>2, <1>3, <1>4, <1>5, <1>6, <1>7, Zenon DEF Next, Framing

(***************************************************************************)
(* What Write and Read return is true: the counts of Write are those of    *)
(* the bytes the session took, and a Read returns nothing without an error *)
(* only on a stream that is cancelled or reset.  The clock starts at 1, so *)
(* that no deadline has passed at the start.                               *)
(***************************************************************************)
THEOREM ReturnsTheorem ==
    ASSUME 1 \notin WriteDeadlines PROVE Spec => []ReturnsAreTrue
<1>1. ReturnInv /\ [Next]_vars => ReturnInv'
  <2> SUFFICES ASSUME ReturnInv, [Next]_vars PROVE ReturnInv'
    OBVIOUS
  <2>1. CASE UNCHANGED vars
    BY <2>1 DEF vars, ReturnInv, CountTypes, WriteIsCounted, EmptyReadIsExplained, flagVars,
                readVars, writeVars, sendVars, timeVars
  <2> QED
    BY <2>1, ReadReturnInv, WriteReturnInv, SessionReturnInv, Zenon
<1>2. ReturnInv => ReturnsAreTrue
  BY DEF ReturnInv, WriteIsCounted, EmptyReadIsExplained, ReturnsAreTrue
<1> QED
  BY <1>1, <1>2, InitReturnInv, PTL DEF Spec
=============================================================================
