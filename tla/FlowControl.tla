---------------------------- MODULE FlowControl ----------------------------
(***************************************************************************)
(* Flow control of one direction of a session: the sender's and the        *)
(* receiver's flowControlManager (internal/flowcontrol) with the calls     *)
(* that stream framer, streams and session make on them, and a network     *)
(* that loses, repeats and reorders STREAM, RST_STREAM and WINDOW_UPDATE   *)
(* frames.  A controller is a stream or Conn, the connection-level one     *)
(* (stream ID 0 in the code).  A STREAM frame is its stream and the offset *)
(* its data ends at.                                                       *)
(***************************************************************************)
EXTENDS Integers, FiniteSets, FiniteSetsExt

CONSTANTS
    Streams, Conn,
    Contributing,     \* the streams with contributesToConnection
    InitialWindow,    \* the receive window each controller starts with, which
                      \* the handshake tells the sender
    MaxIncrement,     \* maxReceiveWindowIncrement of each controller
    MaxOffset         \* bound on the bytes a stream sends

Controllers == Streams \cup {Conn}

ASSUME FlowControlAssumption ==
    /\ Conn \notin Streams
    /\ Contributing \subseteq Streams
    /\ InitialWindow \in [Controllers -> Nat \ {0}]
    /\ MaxIncrement \in [Controllers -> Nat]
    /\ MaxOffset \in Nat

(***************************************************************************)
(* The configured maxima are not below the initial windows.  The defaults  *)
(* of the repository do not meet this: see README.md.                      *)
(***************************************************************************)
MaximaCoverInitialWindows ==
    \A c \in Controllers : InitialWindow[c] <= MaxIncrement[c]

VARIABLES
    bytesSent, sendWindow,                                \* at the sender
    bytesRead, highestReceived, receiveWindow, receiveWindowIncrement,
    resetLocally,      \* the streams the sender reset
    resetRemotely,     \* the streams the receiver knows to be reset
    streamFrames, rstFrames, windowUpdates,               \* sent so far
    err                \* the receiver's error, which closes the session

sendVars == <<bytesSent, sendWindow, resetLocally>>
readVars == <<bytesRead, highestReceived, resetRemotely>>
windowVars == <<receiveWindow, receiveWindowIncrement>>
netVars == <<streamFrames, rstFrames, windowUpdates>>
vars == <<sendVars, readVars, windowVars, netVars, err>>

Frame == [stream : Streams, offset : Nat]
WindowUpdate == [id : Controllers, offset : Nat]

(***************************************************************************)
(* newFlowController.                                                      *)
(***************************************************************************)
Init ==
    /\ bytesSent = [c \in Controllers |-> 0]
    /\ sendWindow = [c \in Controllers |-> 0]
    /\ bytesRead = [c \in Controllers |-> 0]
    /\ highestReceived = [c \in Controllers |-> 0]
    /\ receiveWindow = InitialWindow
    /\ receiveWindowIncrement = InitialWindow
    /\ resetLocally = {}
    /\ resetRemotely = {}
    /\ streamFrames = {}
    /\ rstFrames = {}
    /\ windowUpdates = {}
    /\ err = "nil"

(***************************************************************************)
(* A stream operation counts n bytes on the stream and, if the stream      *)
(* contributes, on the connection.                                         *)
(***************************************************************************)
AddBytes(f, s, n) ==
    [c \in Controllers |->
        IF c = s \/ (c = Conn /\ s \in Contributing) THEN f[c] + n ELSE f[c]]

getSendWindow(c) == IF sendWindow[c] = 0 THEN InitialWindow[c] ELSE sendWindow[c]

ControllerSendWindowSize(c) ==
    IF bytesSent[c] > getSendWindow(c) THEN 0 ELSE getSendWindow(c) - bytesSent[c]

(***************************************************************************)
(* Mutant: the connection-level window is ignored.                         *)
(***************************************************************************)
MutIgnoresConnection(s) == ControllerSendWindowSize(s)

SendWindowSize(s) ==
    LET stream == ControllerSendWindowSize(s)
        conn == ControllerSendWindowSize(Conn)
    IN  IF s \in Contributing /\ conn < stream THEN conn ELSE stream

(***************************************************************************)
(* maybePopNormalFrames takes at most SendWindowSize bytes of a stream.    *)
(***************************************************************************)
SendStreamFrame(s, n) ==
    /\ err = "nil"
    /\ s \notin resetLocally
    /\ n <= SendWindowSize(s)
    /\ bytesSent[s] + n <= MaxOffset
    /\ bytesSent' = AddBytes(bytesSent, s, n)
    /\ streamFrames' = streamFrames \cup {[stream |-> s, offset |-> bytesSent[s] + n]}
    /\ UNCHANGED <<sendWindow, resetLocally, readVars, windowVars, rstFrames,
                   windowUpdates, err>>

(***************************************************************************)
(* stream.Reset: RST_STREAM carries writeOffset, the bytes taken so far.   *)
(***************************************************************************)
ResetLocally(s) ==
    /\ err = "nil"
    /\ s \notin resetLocally
    /\ resetLocally' = resetLocally \cup {s}
    /\ rstFrames' = rstFrames \cup {[stream |-> s, offset |-> bytesSent[s]]}
    /\ UNCHANGED <<bytesSent, sendWindow, readVars, windowVars, streamFrames,
                   windowUpdates, err>>

(***************************************************************************)
(* Mutant: the whole offset counts as newly received.                      *)
(***************************************************************************)
MutIncrementIsOffset(s, offset) == offset

HighestReceivedIncrement(s, offset) ==
    IF offset > highestReceived[s] THEN offset - highestReceived[s] ELSE 0

(***************************************************************************)
(* The manager's UpdateHighestReceived.  The stream's value is raised      *)
(* before it is checked, the connection's only if the stream passed.       *)
(***************************************************************************)
RaiseHighestReceived(s, offset) ==
    LET increment == HighestReceivedIncrement(s, offset)
        streamOnly == [highestReceived EXCEPT ![s] = @ + increment]
        both == AddBytes(highestReceived, s, increment)
    IN  IF streamOnly[s] > receiveWindow[s]
        THEN highestReceived' = streamOnly /\ err' = "receivedTooMuchData"
        ELSE /\ highestReceived' = both
             /\ err' = IF s \in Contributing /\ both[Conn] > receiveWindow[Conn]
                       THEN "receivedTooMuchData" ELSE err

ReceiveStreamFrame(f) ==
    /\ err = "nil"
    /\ RaiseHighestReceived(f.stream, f.offset)
    /\ UNCHANGED <<sendVars, bytesRead, resetRemotely, windowVars, netVars>>

(***************************************************************************)
(* handleRstStreamFrame: RegisterRemoteError, then ResetStream.            *)
(***************************************************************************)
ReceiveRstStream(f) ==
    /\ err = "nil"
    /\ resetRemotely' = resetRemotely \cup {f.stream}
    /\ IF f.offset < highestReceived[f.stream]
       THEN err' = "dataAfterTermination" /\ UNCHANGED highestReceived
       ELSE RaiseHighestReceived(f.stream, f.offset)
    /\ UNCHANGED <<sendVars, bytesRead, windowVars, netVars>>

(***************************************************************************)
(* stream.Read of n bytes; at most everything up to highestReceived has    *)
(* arrived.  After an RST_STREAM reads are no longer counted.              *)
(***************************************************************************)
Read(s, n) ==
    /\ err = "nil"
    /\ s \notin resetRemotely
    /\ bytesRead[s] + n <= highestReceived[s]
    /\ bytesRead' = AddBytes(bytesRead, s, n)
    /\ UNCHANGED <<sendVars, highestReceived, resetRemotely, windowVars,
                   netVars, err>>

(***************************************************************************)
(* Mutant: an update waits until a quarter of the increment is left.       *)
(***************************************************************************)
MutThresholdTooLow(c, increment) ==
    receiveWindow[c] - bytesRead[c] < increment \div 4

(***************************************************************************)
(* flowController.MaybeUpdateWindow of every controller.  adjust is the    *)
(* set of controllers whose updates come close enough together for         *)
(* maybeAdjustWindowIncrement to double the increment.                     *)
(***************************************************************************)
NecessaryWith(c, increment) == receiveWindow[c] - bytesRead[c] < increment \div 2

MaybeAdjustedWith(c, increment, adjust) ==
    IF ~NecessaryWith(c, increment) \/ c \notin adjust THEN increment
    ELSE IF 2 * increment < MaxIncrement[c] THEN 2 * increment
    ELSE MaxIncrement[c]

(***************************************************************************)
(* The second result of MaybeUpdateWindow: the new increment, or 0 when it *)
(* did not change; but the old increment when no update was necessary.     *)
(***************************************************************************)
ReturnedIncrement(c, adjust) ==
    LET old == receiveWindowIncrement[c]
        new == MaybeAdjustedWith(c, old, adjust)
    IN  IF NecessaryWith(c, old) /\ new = old THEN 0 ELSE new

(***************************************************************************)
(* EnsureMinimumWindowIncrement of the connection, for each reported       *)
(* stream that contributes: 1.5 times the stream's returned increment.     *)
(***************************************************************************)
EnsuredIncrement(force, adjust) ==
    LET old == receiveWindowIncrement[Conn]
        reported == {s \in Contributing :
                        force \/ NecessaryWith(s, receiveWindowIncrement[s])}
        larger == {v \in {(3 * ReturnedIncrement(s, adjust)) \div 2 : s \in reported} :
                        v > old}
    IN  IF larger = {} THEN {old}
        ELSE {IF v < MaxIncrement[Conn] THEN v ELSE MaxIncrement[Conn] :
                v \in {w \in larger : \A x \in larger : x <= w}}

(***************************************************************************)
(* GetWindowUpdates: the streams first, then the connection with the       *)
(* increment they ensured.  With force every window is reported.           *)
(***************************************************************************)
GetWindowUpdates(force, adjust) ==
    /\ err = "nil"
    /\ \E ensured \in EnsuredIncrement(force, adjust) :
        LET old == [receiveWindowIncrement EXCEPT ![Conn] = ensured]
            necessary == {c \in Controllers : NecessaryWith(c, old[c])}
        IN  /\ receiveWindowIncrement' =
                    [c \in Controllers |-> MaybeAdjustedWith(c, old[c], adjust)]
            /\ receiveWindow' =
                    [c \in Controllers |->
                        IF c \in necessary
                        THEN bytesRead[c] + receiveWindowIncrement'[c]
                        ELSE receiveWindow[c]]
            /\ windowUpdates' = windowUpdates \cup
                    {[id |-> c, offset |-> receiveWindow'[c]] :
                        c \in IF force THEN Controllers ELSE necessary}
    /\ UNCHANGED <<sendVars, readVars, streamFrames, rstFrames, err>>

(***************************************************************************)
(* handleWindowUpdateFrame: a window is only ever raised.                  *)
(***************************************************************************)
UpdateWindow(u) ==
    /\ err = "nil"
    /\ u.offset > sendWindow[u.id]
    /\ sendWindow' = [sendWindow EXCEPT ![u.id] = u.offset]
    /\ UNCHANGED <<bytesSent, resetLocally, readVars, windowVars, netVars, err>>

Sending == \E s \in Streams, n \in 1..MaxOffset : SendStreamFrame(s, n)
Resetting == \E s \in Streams : ResetLocally(s)
ReceivingStreamFrame == \E f \in streamFrames : ReceiveStreamFrame(f)
ReceivingRstStream == \E f \in rstFrames : ReceiveRstStream(f)
Reading == \E s \in Streams, n \in 1..MaxOffset : Read(s, n)
UpdatingReceiveWindows ==
    \E force \in BOOLEAN, adjust \in SUBSET Controllers : GetWindowUpdates(force, adjust)
UpdatingSendWindow == \E u \in windowUpdates : UpdateWindow(u)

Next ==
    \/ Sending
    \/ Resetting
    \/ ReceivingStreamFrame
    \/ ReceivingRstStream
    \/ Reading
    \/ UpdatingReceiveWindows
    \/ UpdatingSendWindow

Spec == Init /\ [][Next]_vars

(***************************************************************************)
(* Lost frames are retransmitted until they arrive, the application reads, *)
(* and every sending round asks for window updates.  Fairness is assumed   *)
(* only until a stream is reset.                                           *)
(***************************************************************************)
RegularUpdates == \E adjust \in SUBSET Controllers : GetWindowUpdates(FALSE, adjust)

Fairness ==
    /\ WF_vars(resetLocally = {} /\ ReceivingStreamFrame)
    /\ WF_vars(resetLocally = {} /\ Reading)
    /\ WF_vars(resetLocally = {} /\ RegularUpdates)
    /\ WF_vars(resetLocally = {} /\ UpdatingSendWindow)

FairSpec == Spec /\ Fairness

-----------------------------------------------------------------------------
TypeOK ==
    /\ bytesSent \in [Controllers -> Nat]
    /\ sendWindow \in [Controllers -> Nat]
    /\ bytesRead \in [Controllers -> Nat]
    /\ highestReceived \in [Controllers -> Nat]
    /\ receiveWindow \in [Controllers -> Nat]
    /\ receiveWindowIncrement \in [Controllers -> Nat]
    /\ resetLocally \subseteq Streams
    /\ resetRemotely \subseteq Streams
    /\ streamFrames \subseteq Frame
    /\ rstFrames \subseteq Frame
    /\ windowUpdates \subseteq WindowUpdate
    /\ err \in {"nil", "receivedTooMuchData", "dataAfterTermination"}

(***************************************************************************)
(* Between two honest ends the receiver never closes the session with      *)
(* FlowControlReceivedTooMuchData or StreamDataAfterTermination, whatever  *)
(* the order in which STREAM, RST_STREAM and WINDOW_UPDATE frames arrive   *)
(* and however the receive windows are tuned, provided the configured      *)
(* maxima cover the initial windows.                                       *)
(***************************************************************************)
NoFalseViolation == err = "nil"

(***************************************************************************)
(* The same for the errors a stream-level window can cause: what was       *)
(* received on a stream is within the stream's window, and no frame starts *)
(* or ends beyond the offset of the stream's RST_STREAM.                   *)
(***************************************************************************)
StreamsWithinWindow ==
    /\ \A s \in Streams : highestReceived[s] <= receiveWindow[s]
    /\ \A r \in rstFrames, f \in streamFrames :
            f.stream = r.stream => f.offset <= r.offset

(***************************************************************************)
(* The credit the sender believes to have was granted: what it sent is     *)
(* within its send window, and its send window is within the receive       *)
(* window, also when WINDOW_UPDATEs are lost or arrive out of order, on    *)
(* streams and on the connection.                                          *)
(***************************************************************************)
CreditWasGranted ==
    \A c \in Controllers :
        /\ bytesSent[c] <= getSendWindow(c)
        /\ getSendWindow(c) <= receiveWindow[c]

(***************************************************************************)
(* A receive window or its increment never shrinks: the peer may already   *)
(* use the credit.                                                         *)
(***************************************************************************)
ReceiveWindowNeverShrinks ==
    [][\A c \in Controllers :
          /\ receiveWindow'[c] >= receiveWindow[c]
          /\ receiveWindowIncrement'[c] >= receiveWindowIncrement[c]]_vars

(***************************************************************************)
(* A stream that is blocked by its own or by the connection's send window  *)
(* gets credit again, unless a stream is reset: the update threshold of    *)
(* half the increment leaves no state in which the sender waits for an     *)
(* update and the receiver for data (flowController.MaybeUpdateWindow).    *)
(***************************************************************************)
BlockedStreamGetsCredit ==
    \A s \in Streams :
        (SendWindowSize(s) = 0 /\ bytesSent[s] < MaxOffset)
            ~> (SendWindowSize(s) > 0 \/ resetLocally # {})
=============================================================================
