------------------------------- MODULE Stream -------------------------------
(***************************************************************************)
(* One stream (stream.go) between the application and the session.         *)
(*                                                                         *)
(* The application runs a goroutine that reads and one that writes, and    *)
(* calls Close, Reset and the deadline setters from others.  The session's *)
(* goroutine adds STREAM frames, takes data to send, sends FIN and RST,    *)
(* registers the peer's RST_STREAM, cancels the stream when the session    *)
(* ends, and removes it from the streams map once it is finished.  The     *)
(* code between two operations on the mutex is one step, and so is what    *)
(* is done to the atomic flags outside of it.                              *)
(*                                                                         *)
(* The sorter is reduced to the frames that can be read now and the FIN    *)
(* behind them (see StreamFrameSorter).  readChan and writeChan have a     *)
(* capacity of one.                                                        *)
(***************************************************************************)
EXTENDS Integers

CONSTANTS
    MaxFrames,        \* bound on the frames the peer sends
    BufferLen,        \* len(p) of Read, in frames
    WriteLen,         \* len(p) of Write
    MaxOffset,        \* bound on the bytes written
    MaxTime,          \* bound on the clock
    ReadDeadlines,    \* the deadlines the application sets; 0 is the zero time
    WriteDeadlines

ASSUME StreamAssumption ==
    /\ MaxFrames \in Nat
    /\ BufferLen \in Nat \ {0}
    /\ WriteLen \in Nat \ {0}
    /\ MaxOffset \in Nat
    /\ MaxTime \in Nat \ {0}
    /\ ReadDeadlines \subseteq 0 .. MaxTime
    /\ WriteDeadlines \subseteq 0 .. MaxTime

VARIABLES
    err,                                  \* "nil", "cancel", "local" or "remote"
    cancelled, resetLocally, resetRemotely,
    finishedReading, finishedWriting, finSent, rstSent,
    readChan, writeChan,                  \* whether a token is in the channel
    readDeadline, writeDeadline, now,
    available, finQueued, received,       \* the frames Head finds, the FIN
    readPC, readErr, bytesRead, readWait, \* of the goroutine in Read
    emptyRead,                            \* some Read returned 0 and nil
    writePC, writeWait,                   \* of the goroutine in Write
    dataForWriting, writeOffset, reported,
    framer,                               \* of maybePopNormalFrames
    finalOffset,                          \* the offset told the peer, or -1
    registered                            \* whether the streams map holds it

flagVars == <<err, cancelled, resetLocally, resetRemotely>>
queueVars == <<available, finQueued, received>>
readVars == <<readPC, readErr, bytesRead, readWait, emptyRead, finishedReading>>
writeVars == <<writePC, writeWait, reported>>
sendVars == <<dataForWriting, writeOffset, finSent, framer>>
timeVars == <<readDeadline, writeDeadline, now>>
vars == <<flagVars, queueVars, readVars, writeVars, sendVars, timeVars, finishedWriting,
          rstSent, finalOffset, readChan, writeChan, registered>>

Init ==
    /\ err = "nil"
    /\ cancelled = FALSE /\ resetLocally = FALSE /\ resetRemotely = FALSE
    /\ finishedReading = FALSE /\ finishedWriting = FALSE
    /\ finSent = FALSE /\ rstSent = FALSE
    /\ readChan = FALSE /\ writeChan = FALSE
    /\ readDeadline = 0 /\ writeDeadline = 0 /\ now = 1
    /\ available = 0 /\ finQueued = FALSE /\ received = 0
    /\ readPC = "idle" /\ readErr = "nil" /\ bytesRead = 0 /\ readWait = 0
    /\ emptyRead = FALSE
    /\ writePC = "idle" /\ writeWait = 0
    /\ dataForWriting = 0 /\ writeOffset = 0 /\ reported = 0
    /\ framer = "idle"
    /\ finalOffset = -1
    /\ registered = TRUE

Expired(d) == d # 0 /\ now >= d

-----------------------------------------------------------------------------
(* Read *)

ReturnFromRead(n, e) ==
    /\ readPC' = "idle"
    /\ emptyRead' = (emptyRead \/ (n = 0 /\ e = "nil"))

(***************************************************************************)
(* Read takes the error under the mutex ...                                *)
(***************************************************************************)
ReadStart ==
    /\ readPC = "idle"
    /\ readPC' = "check"
    /\ readErr' = err
    /\ bytesRead' = 0
    /\ UNCHANGED <<flagVars, queueVars, readWait, emptyRead, finishedReading, writeVars, sendVars,
                   timeVars, finishedWriting, rstSent, finalOffset, readChan, writeChan, registered>>

(***************************************************************************)
(* ... and looks at the flags after it has released it.                    *)
(***************************************************************************)
ReadCheck ==
    /\ readPC = "check"
    /\ \/ /\ cancelled \/ resetLocally
          /\ ReturnFromRead(0, readErr)
       \/ /\ ~(cancelled \/ resetLocally)
          /\ finishedReading
          /\ ReturnFromRead(0, "EOF")
       \/ /\ ~(cancelled \/ resetLocally)
          /\ ~finishedReading
          /\ readPC' = "loop"
          /\ UNCHANGED emptyRead
    /\ UNCHANGED <<flagVars, queueVars, readErr, bytesRead, readWait, finishedReading, writeVars,
                   sendVars, timeVars, finishedWriting, rstSent, finalOffset, readChan, writeChan, registered>>

HasFrame == available > 0 \/ finQueued

(***************************************************************************)
(* Mutant: without a frame Read returns what it has, even if it is nothing.*)
(***************************************************************************)
MutReadNeverWaits ==
    /\ readPC = "loop"
    /\ \/ /\ ~HasFrame \/ resetLocally \/ cancelled
          /\ ReturnFromRead(bytesRead, err)
       \/ /\ HasFrame /\ ~(resetLocally \/ cancelled)
          /\ readPC' = "copy"
          /\ UNCHANGED emptyRead
    /\ UNCHANGED <<flagVars, queueVars, readErr, bytesRead, readWait, finishedReading, writeVars, sendVars,
                   timeVars, finishedWriting, rstSent, finalOffset, readChan, writeChan, registered>>

(***************************************************************************)
(* The loop of Read, with the mutex held: what was read is returned when   *)
(* there is no more; errors and the deadline come before a frame; without  *)
(* a frame Read waits, for the deadline it has seen.                       *)
(***************************************************************************)
ReadLoop ==
    /\ readPC = "loop"
    /\ \/ /\ ~HasFrame /\ bytesRead > 0
          /\ ReturnFromRead(bytesRead, err)
          /\ UNCHANGED readWait
       \/ /\ HasFrame \/ bytesRead = 0
          /\ \/ /\ resetLocally \/ cancelled
                /\ ReturnFromRead(bytesRead, err)
                /\ UNCHANGED readWait
             \/ /\ ~(resetLocally \/ cancelled)
                /\ Expired(readDeadline)
                /\ ReturnFromRead(bytesRead, "deadline")
                /\ UNCHANGED readWait
             \/ /\ ~(resetLocally \/ cancelled)
                /\ ~Expired(readDeadline)
                /\ readPC' = IF HasFrame THEN "copy" ELSE "wait"
                /\ readWait' = readDeadline
                /\ UNCHANGED emptyRead
    /\ UNCHANGED <<flagVars, queueVars, readErr, bytesRead, finishedReading, writeVars, sendVars,
                   timeVars, finishedWriting, rstSent, finalOffset, readChan, writeChan, registered>>

ReadWake ==
    /\ readPC = "wait"
    /\ \/ readChan /\ readChan' = FALSE
       \/ Expired(readWait) /\ UNCHANGED readChan
    /\ readPC' = "loop"
    /\ UNCHANGED <<flagVars, queueVars, readErr, bytesRead, readWait, emptyRead, finishedReading,
                   writeVars, sendVars, timeVars, finishedWriting, rstSent, finalOffset, writeChan, registered>>

(***************************************************************************)
(* Read copies the frame and pops it.  One that carries the FIN ends the   *)
(* stream.                                                                 *)
(***************************************************************************)
ReadCopy ==
    /\ readPC = "copy"
    /\ \/ /\ available > 0
          /\ available' = available - 1
          /\ bytesRead' = bytesRead + 1
          /\ IF bytesRead' < BufferLen
             THEN readPC' = "loop" /\ UNCHANGED emptyRead
             ELSE ReturnFromRead(bytesRead', "nil")
          /\ UNCHANGED <<finQueued, finishedReading>>
       \/ /\ available = 0
          /\ finQueued' = FALSE
          /\ finishedReading' = TRUE
          /\ ReturnFromRead(bytesRead, "EOF")
          /\ UNCHANGED <<available, bytesRead>>
    /\ UNCHANGED <<flagVars, received, readErr, readWait, writeVars, sendVars, timeVars, finishedWriting,
                   rstSent, finalOffset, readChan, writeChan, registered>>

-----------------------------------------------------------------------------
(* Write *)

(***************************************************************************)
(* Write puts its data into dataForWriting and waits until the session has *)
(* taken all of it, the deadline passes or the stream fails.               *)
(***************************************************************************)
WriteStart ==
    /\ writePC = "idle"
    /\ ~resetLocally /\ err = "nil" /\ ~finishedWriting
    /\ writeOffset + WriteLen <= MaxOffset
    /\ dataForWriting' = WriteLen
    /\ writePC' = "loop"
    /\ UNCHANGED <<flagVars, queueVars, readVars, writeWait, reported, writeOffset, finSent, framer, timeVars,
                   finishedWriting, rstSent, finalOffset, readChan, writeChan, registered>>

(***************************************************************************)
(* One turn of the loop, with the mutex held.                              *)
(***************************************************************************)
WriteLoop ==
    /\ writePC = "loop"
    /\ \/ /\ Expired(writeDeadline)
          /\ writePC' = "idle"
          /\ UNCHANGED <<reported, writeWait>>
       \/ /\ ~Expired(writeDeadline)
          /\ dataForWriting = 0 \/ err # "nil"
          /\ writePC' = "idle"
          /\ reported' = reported + (IF err # "nil" THEN WriteLen - dataForWriting ELSE WriteLen)
          /\ UNCHANGED writeWait
       \/ /\ ~Expired(writeDeadline)
          /\ dataForWriting # 0 /\ err = "nil"
          /\ writePC' = "wait"
          /\ writeWait' = writeDeadline
          /\ UNCHANGED reported
    /\ UNCHANGED <<flagVars, queueVars, readVars, sendVars, timeVars, finishedWriting, rstSent, finalOffset,
                   readChan, writeChan, registered>>

WriteWake ==
    /\ writePC = "wait"
    /\ \/ writeChan /\ writeChan' = FALSE
       \/ Expired(writeWait) /\ UNCHANGED writeChan
    /\ writePC' = "loop"
    /\ UNCHANGED <<flagVars, queueVars, readVars, writeWait, reported, sendVars, timeVars, finishedWriting,
                   rstSent, finalOffset, readChan, registered>>

-----------------------------------------------------------------------------
(* The application's other calls *)

Close ==
    /\ ~finishedWriting
    /\ finishedWriting' = TRUE
    /\ UNCHANGED <<flagVars, queueVars, readVars, writeVars, sendVars, timeVars, rstSent, finalOffset,
                   readChan, writeChan, registered>>

(***************************************************************************)
(* A reset stream tells the peer its final offset, once, unless a FIN did. *)
(***************************************************************************)
SendReset ==
    IF ~rstSent /\ ~(finishedWriting /\ finSent)
    THEN rstSent' = TRUE /\ finalOffset' = writeOffset
    ELSE UNCHANGED <<rstSent, finalOffset>>

Reset ==
    /\ ~resetLocally
    /\ resetLocally' = TRUE
    /\ IF err = "nil"
       THEN err' = "local" /\ readChan' = TRUE /\ writeChan' = TRUE
       ELSE UNCHANGED <<err, readChan, writeChan>>
    /\ SendReset
    /\ UNCHANGED <<cancelled, resetRemotely, queueVars, readVars, writeVars, sendVars, timeVars,
                   finishedWriting, registered>>

(***************************************************************************)
(* The setters wake the waiting goroutine only if the new deadline is      *)
(* before the old one, and nothing is before the zero time.                *)
(***************************************************************************)
SetReadDeadline(t) ==
    /\ readDeadline' = t
    /\ readChan' = (readChan \/ t < readDeadline)
    /\ UNCHANGED <<flagVars, queueVars, readVars, writeVars, sendVars, writeDeadline, now, finishedWriting,
                   rstSent, finalOffset, writeChan, registered>>

SetWriteDeadline(t) ==
    /\ writeDeadline' = t
    /\ writeChan' = (writeChan \/ t < writeDeadline)
    /\ UNCHANGED <<flagVars, queueVars, readVars, writeVars, sendVars, readDeadline, now, finishedWriting,
                   rstSent, finalOffset, readChan, registered>>

Tick ==
    /\ now < MaxTime
    /\ now' = now + 1
    /\ UNCHANGED <<flagVars, queueVars, readVars, writeVars, sendVars, readDeadline, writeDeadline,
                   finishedWriting, rstSent, finalOffset, readChan, writeChan, registered>>

-----------------------------------------------------------------------------
(* The session *)

(***************************************************************************)
(* The session's goroutine reaches the stream through the streams map and  *)
(* does one thing at a time.                                               *)
(***************************************************************************)
SessionFree == registered /\ framer = "idle"

(***************************************************************************)
(* Mutant: only frames that can be read wake Read.                         *)
(***************************************************************************)
MutFinWithoutSignal(kind) ==
    /\ SessionFree
    /\ ~finQueued /\ ~finishedReading
    /\ received < MaxFrames
    /\ available' = available + (IF kind = "data" THEN 1 ELSE 0)
    /\ finQueued' = (kind = "fin")
    /\ received' = received + 1
    /\ readChan' = (readChan \/ kind = "data")
    /\ UNCHANGED <<flagVars, readVars, writeVars, sendVars, timeVars, finishedWriting, rstSent, finalOffset,
                   writeChan, registered>>

(***************************************************************************)
(* A STREAM frame arrives: one that can be read now, the FIN, or one that  *)
(* is behind a gap or a duplicate.  Each wakes Read.                       *)
(***************************************************************************)
AddStreamFrame(kind) ==
    /\ SessionFree
    /\ ~finQueued /\ ~finishedReading
    /\ received < MaxFrames
    /\ available' = available + (IF kind = "data" THEN 1 ELSE 0)
    /\ finQueued' = (kind = "fin")
    /\ received' = received + 1
    /\ readChan' = TRUE
    /\ UNCHANGED <<flagVars, readVars, writeVars, sendVars, timeVars, finishedWriting, rstSent, finalOffset,
                   writeChan, registered>>

(***************************************************************************)
(* Mutant: Write is not woken when the last of its data is taken.          *)
(***************************************************************************)
MutTakeWithoutSignal(n) ==
    /\ SessionFree
    /\ IF err # "nil" \/ dataForWriting = 0
       THEN UNCHANGED <<dataForWriting, writeOffset, writeChan>>
       ELSE /\ n <= dataForWriting
            /\ dataForWriting' = dataForWriting - n
            /\ writeOffset' = writeOffset + n
            /\ UNCHANGED writeChan
    /\ framer' = "data"
    /\ UNCHANGED <<flagVars, queueVars, readVars, writeVars, finSent, timeVars, finishedWriting, rstSent,
                   finalOffset, readChan, registered>>

(***************************************************************************)
(* maybePopNormalFrames takes n bytes, as many as fit the packet and the   *)
(* window, if there are any (getDataForWriting) ...                        *)
(***************************************************************************)
TakeData(n) ==
    /\ SessionFree
    /\ IF err # "nil" \/ dataForWriting = 0
       THEN UNCHANGED <<dataForWriting, writeOffset, writeChan>>
       ELSE /\ n <= dataForWriting
            /\ dataForWriting' = dataForWriting - n
            /\ writeOffset' = writeOffset + n
            /\ writeChan' = (writeChan \/ dataForWriting' = 0)
    /\ framer' = "data"
    /\ UNCHANGED <<flagVars, queueVars, readVars, writeVars, finSent, timeVars, finishedWriting, rstSent,
                   finalOffset, readChan, registered>>

(***************************************************************************)
(* Mutant: data that is waiting is overlooked.                             *)
(***************************************************************************)
MutFinBeforeData == finishedWriting /\ ~finSent /\ err = "nil"

shouldSendFin == finishedWriting /\ ~finSent /\ err = "nil" /\ dataForWriting = 0

(***************************************************************************)
(* ... then asks whether the FIN has to be sent ...                        *)
(***************************************************************************)
CheckFin ==
    /\ framer = "data"
    /\ framer' = IF shouldSendFin THEN "fin" ELSE "idle"
    /\ UNCHANGED <<flagVars, queueVars, readVars, writeVars, dataForWriting, writeOffset, finSent, timeVars,
                   finishedWriting, rstSent, finalOffset, readChan, writeChan, registered>>

(***************************************************************************)
(* ... and sends it, at the end of the data it took.                       *)
(***************************************************************************)
SentFin ==
    /\ framer = "fin"
    /\ framer' = "idle"
    /\ finSent' = TRUE
    /\ finalOffset' = writeOffset
    /\ UNCHANGED <<flagVars, queueVars, readVars, writeVars, dataForWriting, writeOffset, timeVars,
                   finishedWriting, rstSent, readChan, writeChan, registered>>

(***************************************************************************)
(* The peer's RST_STREAM.  Write is woken; Read is not, for data that was  *)
(* sent before the RST_STREAM may still arrive.                            *)
(***************************************************************************)
RegisterRemoteError ==
    /\ SessionFree
    /\ ~resetRemotely
    /\ resetRemotely' = TRUE
    /\ IF err = "nil"
       THEN err' = "remote" /\ writeChan' = TRUE
       ELSE UNCHANGED <<err, writeChan>>
    /\ SendReset
    /\ UNCHANGED <<cancelled, resetLocally, queueVars, readVars, writeVars, sendVars, timeVars,
                   finishedWriting, readChan, registered>>

(***************************************************************************)
(* The session ends and cancels the streams of its map.                    *)
(***************************************************************************)
Cancel ==
    /\ SessionFree
    /\ ~cancelled
    /\ cancelled' = TRUE
    /\ IF err = "nil"
       THEN err' = "cancel" /\ readChan' = TRUE /\ writeChan' = TRUE
       ELSE UNCHANGED <<err, readChan, writeChan>>
    /\ UNCHANGED <<resetLocally, resetRemotely, queueVars, readVars, writeVars, sendVars, timeVars,
                   finishedWriting, rstSent, finalOffset, registered>>

finishedWriteAndSentFin == finishedWriting /\ finSent

(***************************************************************************)
(* Mutant: a stream that is closed counts as finished before its FIN.      *)
(***************************************************************************)
MutFinishedBeforeFin ==
    \/ cancelled
    \/ finishedReading /\ finishedWriting
    \/ resetRemotely /\ rstSent
    \/ finishedReading /\ rstSent
    \/ finishedWriteAndSentFin /\ resetRemotely

finished ==
    \/ cancelled
    \/ finishedReading /\ finishedWriteAndSentFin
    \/ resetRemotely /\ rstSent
    \/ finishedReading /\ rstSent
    \/ finishedWriteAndSentFin /\ resetRemotely

(***************************************************************************)
(* garbageCollectStreams, for this stream.                                 *)
(***************************************************************************)
GarbageCollect ==
    /\ SessionFree
    /\ finished
    /\ registered' = FALSE
    /\ UNCHANGED <<flagVars, queueVars, readVars, writeVars, sendVars, timeVars, finishedWriting, rstSent,
                   finalOffset, readChan, writeChan>>

Framing == (\E n \in 1 .. WriteLen : TakeData(n)) \/ CheckFin \/ SentFin
Reading == ReadCheck \/ ReadLoop \/ ReadWake \/ ReadCopy
Writing == WriteLoop \/ WriteWake

Next ==
    \/ ReadStart \/ Reading
    \/ WriteStart \/ Writing
    \/ Close \/ Reset
    \/ \E t \in ReadDeadlines : SetReadDeadline(t)
    \/ \E t \in WriteDeadlines : SetWriteDeadline(t)
    \/ Tick
    \/ \E kind \in {"data", "fin", "behind a gap"} : AddStreamFrame(kind)
    \/ Framing
    \/ RegisterRemoteError \/ Cancel \/ GarbageCollect

Spec == Init /\ [][Next]_vars

(***************************************************************************)
(* A goroutine that can run does, time passes, and the session's run loop  *)
(* keeps asking the stream for data.                                       *)
(***************************************************************************)
Fairness == WF_vars(Reading) /\ WF_vars(Writing) /\ WF_vars(Tick) /\ WF_vars(Framing)

FairSpec == Spec /\ Fairness

-----------------------------------------------------------------------------
(***************************************************************************)
(* The offset that the FIN or the RST_STREAM tells the peer is final: no   *)
(* data is taken from the stream afterwards, however Write, Close, Reset   *)
(* and the peer's RST_STREAM interleave with maybePopNormalFrames.         *)
(***************************************************************************)
FinalOffsetIsFinal == finalOffset # -1 => writeOffset = finalOffset

(***************************************************************************)
(* garbageCollectStreams removes no stream that still owes the peer data,  *)
(* a FIN or a RST_STREAM, unless the session is over.                      *)
(***************************************************************************)
NothingOwed ==
    ~registered /\ ~cancelled =>
        /\ finSent \/ rstSent
        /\ dataForWriting = 0 \/ err # "nil"

(***************************************************************************)
(* What the application is told: the counts that Write has returned        *)
(* without a deadline add up to what the session took, and a Read returns  *)
(* neither data nor an error only when the stream is cancelled or reset    *)
(* between its look at the error and that at the flags (stream.Write,      *)
(* stream.Read).                                                           *)
(***************************************************************************)
ReturnsAreTrue ==
    /\ writePC = "idle" /\ writeDeadline = 0 /\ now = 1 => reported = writeOffset
    /\ emptyRead => resetLocally \/ cancelled

(***************************************************************************)
(* A Read that waits returns when there is something to read, and when the *)
(* stream is reset locally or cancelled, unless the peer has reset it.     *)
(***************************************************************************)
BlockedReadReturns ==
    readPC = "wait" /\ (HasFrame \/ resetLocally \/ cancelled) ~> readPC = "idle" \/ resetRemotely

(***************************************************************************)
(* Cancel "immediately returns all reads" and Reset "stops reading"        *)
(* (stream_test.go), whatever the peer did before.                         *)
(***************************************************************************)
EndReturnsReads == readPC = "wait" /\ (resetLocally \/ cancelled) ~> readPC = "idle"

(***************************************************************************)
(* A Write that waits returns when its data was taken and when the stream  *)
(* fails, by either side's reset or with the session; and after Close the  *)
(* FIN is sent, unless the stream fails (stream.Write,                     *)
(* maybePopNormalFrames).                                                  *)
(***************************************************************************)
WritingEnds ==
    /\ writePC = "wait" /\ (dataForWriting = 0 \/ err # "nil") ~> writePC = "idle"
    /\ finishedWriting ~> (finSent \/ err # "nil" \/ ~registered)

=============================================================================
