---------------------------- MODULE PacketSending ----------------------------
(***************************************************************************)
(* How frames get into packets: sendPacket, performPacketSending and       *)
(* ackRemainingPaths of the scheduler (scheduler.go) with the packet       *)
(* packer (packet_packer.go).                                              *)
(*                                                                         *)
(* The packer has a STOP_WAITING and an ACK frame for every path and one   *)
(* queue of the other control frames for all paths.  Frames have a kind    *)
(* and the length one; a packet has room for Room control frames.  Paths   *)
(* are selected as PathSelection says; here any path may be.  The local    *)
(* variables of sendPacket have their initial values when it does not use  *)
(* them.                                                                   *)
(***************************************************************************)
EXTENDS Integers, FiniteSets, SequencesExt

CONSTANTS
    InitialPath,       \* path 0
    OtherPaths,
    Room,              \* the size of a packet, in frames
    MaxQueue,          \* control frames are queued up to this bound
    KeepAlive,         \* whether the session is configured to send PING frames
    ProbesPaths,       \* whether PING frames are added to packets and sent to failed paths
    ManagerPings       \* whether the path manager sends a PING at any time

Paths == {InitialPath} \cup OtherPaths
Nil == "nil"

PacketSendingAssumption ==
    /\ InitialPath \notin OtherPaths
    /\ Room \in Nat \ {0, 1}
    /\ MaxQueue \in Nat
    /\ {KeepAlive, ProbesPaths, ManagerPings} \subseteq BOOLEAN

VARIABLES
    (* the packer *)
    controlFrames, stopWaiting, ackFrame,
    (* what the other parts have for it *)
    crypto,            \* whether the crypto stream has data
    streamData,        \* whether other streams have data
    forwardSecure,     \* whether packets may carry stream data
    ackPending,        \* the paths that GetAckFrame returns a frame for
    leastUnackedMoved, \* the paths that GetStopWaitingFrame(false) returns a frame for
    (* the scheduler *)
    pc, path, windowUpdateFrames, remaining,
    managerPath,       \* the path that the path manager is sending a PING on
    (* what was done last *)
    bug,               \* what went wrong
    unsent,            \* frames queued and not sent: WINDOW_UPDATE and other control frames
    ackTaken           \* the paths whose ACK was taken from the receiver and not sent

packerVars == <<controlFrames, stopWaiting, ackFrame>>
sourceVars == <<crypto, streamData, forwardSecure, ackPending, leastUnackedMoved>>
schedVars == <<pc, path, windowUpdateFrames, remaining, managerPath>>
ghostVars == <<bug, unsent, ackTaken>>
vars == <<packerVars, sourceVars, schedVars, ghostVars>>

Init ==
    /\ controlFrames = <<>>
    /\ stopWaiting = {}
    /\ ackFrame = {}
    /\ crypto = FALSE
    /\ streamData = FALSE
    /\ forwardSecure = FALSE
    /\ ackPending = {}
    /\ leastUnackedMoved = {}
    /\ pc = "idle"
    /\ path = InitialPath
    /\ windowUpdateFrames = FALSE
    /\ remaining = {}
    /\ managerPath = Nil
    /\ bug = "none"
    /\ unsent = 0
    /\ ackTaken = {}

-----------------------------------------------------------------------------
(***************************************************************************)
(* What the other parts of the session do between two calls of sendPacket. *)
(* There is one path until the handshake is complete, which it is when all *)
(* data of the crypto stream was sent.                                     *)
(***************************************************************************)
Known == IF forwardSecure THEN Paths ELSE {InitialPath}

WriteStream ==
    /\ pc = "idle"
    /\ streamData' = TRUE
    /\ UNCHANGED <<packerVars, crypto, forwardSecure, ackPending, leastUnackedMoved, schedVars,
                   ghostVars>>

WriteCrypto ==
    /\ pc = "idle"
    /\ ~forwardSecure
    /\ crypto' = TRUE
    /\ UNCHANGED <<packerVars, streamData, forwardSecure, ackPending, leastUnackedMoved,
                   schedVars, ghostVars>>

SetForwardSecure ==
    /\ pc = "idle"
    /\ ~crypto
    /\ forwardSecure' = TRUE
    /\ UNCHANGED <<packerVars, crypto, streamData, ackPending, leastUnackedMoved, schedVars,
                   ghostVars>>

ReceivePacket(p, hasAck) ==
    /\ pc = "idle"
    /\ p \in Known
    /\ ackPending' = ackPending \cup {p}
    /\ leastUnackedMoved' = IF hasAck THEN leastUnackedMoved \cup {p} ELSE leastUnackedMoved
    /\ UNCHANGED <<packerVars, crypto, streamData, forwardSecure, schedVars, ghostVars>>

-----------------------------------------------------------------------------
PathFrames(p, sw, ack) ==
    (IF p \in sw THEN <<"STOP_WAITING">> ELSE <<>>) \o (IF p \in ack THEN <<"ACK">> ELSE <<>>)

(***************************************************************************)
(* How many control frames fit.                                            *)
(***************************************************************************)
Fitting(control, room) == IF Len(control) <= room THEN Len(control) ELSE room

(***************************************************************************)
(* Mutant: the queue is emptied, whatever fits.                            *)
(***************************************************************************)
MutComposeNextPacket(p, control, sw, ack) ==
    LET first == PathFrames(p, sw, ack)
        n == Fitting(control, Room - Len(first))
    IN  [frames |-> first \o SubSeq(control, 1, n), control |-> <<>>, stream |-> FALSE]

(***************************************************************************)
(* composeNextPacket: STOP_WAITING and ACK of the path first, then control *)
(* frames from the end of the queue while they fit, then a stream frame.   *)
(***************************************************************************)
ComposeNextPacket(p, control, sw, ack) ==
    LET first == PathFrames(p, sw, ack)
        n == Fitting(control, Room - Len(first))
        taken == Reverse(SubSeq(control, Len(control) - n + 1, Len(control)))
        stream == forwardSecure /\ streamData /\ Len(first) + n < Room
    IN  [frames |-> first \o taken \o (IF stream THEN <<"STREAM">> ELSE <<>>),
         control |-> SubSeq(control, 1, Len(control) - n),
         stream |-> stream]

(***************************************************************************)
(* Mutant: a packet of the crypto stream clears the frames of its path.    *)
(***************************************************************************)
MutCryptoClears(p, control, sw, ack) ==
    LET next == ComposeNextPacket(p, control, sw, ack)
        none == Len(next.frames) = 0 \/ (Len(next.frames) = 1 /\ p \in sw)
    IN  IF crypto
        THEN [frames |-> <<"CRYPTO">>, control |-> control, sw |-> sw \ {p}, ack |-> ack \ {p},
              crypto |-> FALSE, stream |-> streamData]
        ELSE [frames |-> IF none THEN <<>> ELSE next.frames, control |-> next.control,
              sw |-> IF none THEN sw ELSE sw \ {p}, ack |-> IF none THEN ack ELSE ack \ {p},
              crypto |-> FALSE, stream |-> streamData /\ ~next.stream]

(***************************************************************************)
(* PackPacket, with the queue as the caller left it: the frames of the     *)
(* packet, <<>> for none, and what is left of the queues.  Data of the     *)
(* crypto stream goes into a packet of its own, and so does a PING frame   *)
(* at the head of the queue.                                               *)
(***************************************************************************)
PackPacket(p, control, sw, ack) ==
    LET isPing == control # <<>> /\ control[1] = "PING"
        next == IF isPing
                THEN [frames |-> <<"PING">>, control |-> Tail(control), stream |-> FALSE]
                ELSE ComposeNextPacket(p, control, sw, ack)
        none == Len(next.frames) = 0 \/ (Len(next.frames) = 1 /\ p \in sw)
    IN  IF crypto
        THEN [frames |-> <<"CRYPTO">>, control |-> control, sw |-> sw, ack |-> ack,
              crypto |-> FALSE, stream |-> streamData]
        ELSE [frames |-> IF none THEN <<>> ELSE next.frames,
              control |-> next.control,
              sw |-> IF none THEN sw ELSE sw \ {p},
              ack |-> IF none THEN ack ELSE ack \ {p},
              crypto |-> FALSE,
              stream |-> streamData /\ ~next.stream]

CountOf(frames) == Cardinality({i \in DOMAIN frames : frames[i] \in {"WINDOW_UPDATE", "OTHER"}})

(***************************************************************************)
(* The packer and what was sent after a packet, or none, for path p.       *)
(***************************************************************************)
Packed(p, r, queued) ==
    /\ stopWaiting' = r.sw
    /\ ackFrame' = r.ack
    /\ crypto' = r.crypto
    /\ streamData' = r.stream
    /\ unsent' = unsent + queued - CountOf(r.frames)
    /\ ackTaken' = IF "ACK" \in Range(r.frames) THEN ackTaken \ {p} ELSE ackTaken

-----------------------------------------------------------------------------
(***************************************************************************)
(* The run loop queues a PING for every path if nothing was received for   *)
(* long, and calls sendPacket, which queues the WINDOW_UPDATE frames.      *)
(***************************************************************************)
StartSending(keepAlive, updates) ==
    LET pings == IF keepAlive THEN [i \in 1 .. Cardinality(Known) |-> "PING"] ELSE <<>>
        frames == pings \o (IF updates THEN <<"WINDOW_UPDATE">> ELSE <<>>)
    IN  /\ pc = "idle"
        /\ keepAlive => KeepAlive /\ forwardSecure
        /\ Len(controlFrames) + Len(frames) <= MaxQueue
        /\ controlFrames' = controlFrames \o frames
        /\ unsent' = unsent + CountOf(frames)
        /\ windowUpdateFrames' = updates
        /\ pc' = "loop"
        /\ UNCHANGED <<stopWaiting, ackFrame, sourceVars, path, remaining, managerPath, bug,
                       ackTaken>>

(***************************************************************************)
(* A path is selected: the ACK and STOP_WAITING frames of this path and    *)
(* the CLOSE_PATH, ADD_ADDRESS and PATHS frames of the framer are queued.  *)
(* A STOP_WAITING frame is forced if stream frames are retransmitted.      *)
(***************************************************************************)
SelectPath(p, hasStreamRetransmission, other) ==
    LET hasAck == p \in ackPending
        hasStopWaiting == /\ hasAck \/ hasStreamRetransmission
                          /\ p \in leastUnackedMoved \/ hasStreamRetransmission
        frames == IF other THEN <<"OTHER">> ELSE <<>>
    IN  /\ pc = "loop"
        /\ p \in Known
        /\ hasStreamRetransmission => forwardSecure /\ streamData
        /\ Len(controlFrames) + Len(frames) <= MaxQueue
        /\ path' = p
        /\ ackPending' = ackPending \ {p}
        /\ ackFrame' = IF hasAck THEN ackFrame \cup {p} ELSE ackFrame
        /\ ackTaken' = IF hasAck THEN ackTaken \cup {p} ELSE ackTaken
        /\ stopWaiting' = IF hasStopWaiting THEN stopWaiting \cup {p} ELSE stopWaiting
        /\ leastUnackedMoved' = leastUnackedMoved \ (IF hasStopWaiting THEN {p} ELSE {})
        /\ controlFrames' = controlFrames \o frames
        /\ unsent' = unsent + Len(frames)
        /\ pc' = "perform"
        /\ UNCHANGED <<crypto, streamData, forwardSecure, windowUpdateFrames, remaining,
                       managerPath, bug>>

(***************************************************************************)
(* A handshake packet is retransmitted, with a STOP_WAITING frame.         *)
(***************************************************************************)
RetransmitHandshakePacket ==
    /\ pc = "loop"
    /\ ~forwardSecure
    /\ stopWaiting' = stopWaiting \ {InitialPath}
    /\ leastUnackedMoved' = leastUnackedMoved \ {InitialPath}
    /\ UNCHANGED <<controlFrames, ackFrame, crypto, streamData, forwardSecure, ackPending,
                   schedVars, bug, unsent, ackTaken>>

(***************************************************************************)
(* performPacketSending: a PING is added if no packet that the peer has to *)
(* acknowledge was sent for long; every WINDOW_UPDATE is queued again.     *)
(* Without a packet, sendPacket goes on with ackRemainingPaths.            *)
(***************************************************************************)
PerformPacketSending(ping, blocked, updates) ==
    LET control == IF ping THEN Append(controlFrames, "PING") ELSE controlFrames
        r == PackPacket(path, control, stopWaiting, ackFrame)
        again == (IF blocked THEN <<"OTHER">> ELSE <<>>)
                     \o (IF windowUpdateFrames THEN <<"WINDOW_UPDATE">> ELSE <<>>)
    IN  /\ pc = "perform"
        /\ ping => ProbesPaths
        /\ blocked => "STREAM" \in Range(r.frames)
        /\ IF r.frames = <<>>
           THEN /\ controlFrames' = r.control
                /\ Packed(path, r, 0)
                /\ pc' = "ack"
                /\ remaining' = Known
                /\ windowUpdateFrames' = updates
           ELSE /\ Len(r.control) + Len(again) <= MaxQueue
                /\ controlFrames' = r.control \o again
                /\ Packed(path, r, Len(again))
                /\ ~updates
                /\ windowUpdateFrames' = FALSE
                /\ pc' = "probe"
                /\ UNCHANGED remaining
        /\ path' = InitialPath
        /\ UNCHANGED <<forwardSecure, ackPending, leastUnackedMoved, managerPath, bug>>

(***************************************************************************)
(* sendPing on the path of a retransmission if it is potentially failed:   *)
(* the PING is put in front of the queue.  The error of a missing packet   *)
(* closes the session.                                                     *)
(***************************************************************************)
Probe(p) ==
    LET r == PackPacket(p, <<"PING">> \o controlFrames, stopWaiting, ackFrame)
    IN  /\ pc = "probe"
        /\ ProbesPaths
        /\ forwardSecure
        /\ controlFrames' = r.control
        /\ Packed(p, r, 0)
        /\ bug' = IF r.frames = <<>> THEN "nilPing" ELSE bug
        /\ pc' = IF r.frames = <<>> THEN "stopped" ELSE "loop"
        /\ UNCHANGED <<forwardSecure, ackPending, leastUnackedMoved, path, windowUpdateFrames,
                       remaining, managerPath>>

NoProbe ==
    /\ pc = "probe"
    /\ pc' = "loop"
    /\ UNCHANGED <<packerVars, sourceVars, path, windowUpdateFrames, remaining, managerPath, bug,
                   unsent, ackTaken>>

(***************************************************************************)
(* No path can be selected: ackRemainingPaths.                             *)
(***************************************************************************)
NoPath(updates) ==
    /\ pc = "loop"
    /\ pc' = "ack"
    /\ remaining' = Known
    /\ windowUpdateFrames' = updates
    /\ UNCHANGED <<packerVars, sourceVars, path, managerPath, bug, unsent, ackTaken>>

(***************************************************************************)
(* ackRemainingPaths for one path.  WINDOW_UPDATE frames are queued for    *)
(* every path.  QueueControlFrame gets a nil pointer to an ACK frame if    *)
(* there is none, which replaces an ACK frame in the packer.  An ACK is    *)
(* packed alone with the STOP_WAITING frame (PackAckPacket).               *)
(***************************************************************************)
AckRemainingPath(p) ==
    LET hasAck == p \in ackPending
        updates == IF windowUpdateFrames THEN <<"WINDOW_UPDATE">> ELSE <<>>
        control == controlFrames \o updates
        sends == hasAck \/ (windowUpdateFrames /\ p # InitialPath)
        sw == IF p \in leastUnackedMoved THEN stopWaiting \cup {p} ELSE stopWaiting
    IN  /\ pc = "ack"
        /\ p \in remaining
        /\ Len(control) <= MaxQueue
        /\ remaining' = remaining \ {p}
        /\ ackPending' = ackPending \ {p}
        /\ leastUnackedMoved' = IF sends THEN leastUnackedMoved \ {p} ELSE leastUnackedMoved
        /\ IF hasAck
           THEN /\ controlFrames' = control
                /\ Packed(p, [frames |-> PathFrames(p, sw, {p}), sw |-> sw \ {p},
                              ack |-> ackFrame \ {p}, crypto |-> crypto, stream |-> streamData],
                          Len(updates))
                /\ UNCHANGED bug
           ELSE IF sends
           THEN LET r == PackPacket(p, control, sw, ackFrame \ {p})
                IN  /\ controlFrames' = r.control
                    /\ Packed(p, r, Len(updates))
                    /\ bug' = IF r.frames = <<>> THEN "nilPacket" ELSE bug
           ELSE /\ controlFrames' = control
                /\ unsent' = unsent + Len(updates)
                /\ UNCHANGED <<stopWaiting, ackFrame, crypto, streamData, bug, ackTaken>>
        /\ pc' = IF bug' # "none" THEN "stopped" ELSE IF remaining' = {} THEN "idle" ELSE "ack"
        /\ windowUpdateFrames' = (pc' = "ack" /\ windowUpdateFrames)
        /\ UNCHANGED <<forwardSecure, path, managerPath>>

-----------------------------------------------------------------------------
(***************************************************************************)
(* createPath of the path manager calls sendPing in its own goroutine: it  *)
(* puts a PING in front of the queue, then packs a packet.                 *)
(***************************************************************************)
ManagerPutsPing(p) ==
    /\ ManagerPings
    /\ forwardSecure
    /\ pc # "stopped"
    /\ managerPath = Nil
    /\ Len(controlFrames) < MaxQueue
    /\ controlFrames' = <<"PING">> \o controlFrames
    /\ managerPath' = p
    /\ UNCHANGED <<stopWaiting, ackFrame, sourceVars, pc, path, windowUpdateFrames, remaining,
                   bug, unsent, ackTaken>>

ManagerPacksPing ==
    LET r == PackPacket(managerPath, controlFrames, stopWaiting, ackFrame)
    IN  /\ managerPath # Nil
        /\ pc # "stopped"
        /\ controlFrames' = r.control
        /\ Packed(managerPath, r, 0)
        /\ bug' = IF r.frames = <<>> THEN "nilPing" ELSE bug
        /\ pc' = IF r.frames = <<>> THEN "stopped" ELSE pc
        /\ managerPath' = Nil
        /\ UNCHANGED <<forwardSecure, ackPending, leastUnackedMoved, path, windowUpdateFrames,
                       remaining>>

-----------------------------------------------------------------------------
Next ==
    \/ WriteStream \/ WriteCrypto \/ SetForwardSecure
    \/ \E p \in Paths, hasAck \in BOOLEAN : ReceivePacket(p, hasAck)
    \/ \E keepAlive, updates \in BOOLEAN : StartSending(keepAlive, updates)
    \/ \E p \in Paths, hasStreamRetransmission, other \in BOOLEAN :
          SelectPath(p, hasStreamRetransmission, other)
    \/ RetransmitHandshakePacket
    \/ \E ping, blocked, updates \in BOOLEAN : PerformPacketSending(ping, blocked, updates)
    \/ NoProbe
    \/ \E updates \in BOOLEAN : NoPath(updates)
    \/ \E p \in Paths : Probe(p) \/ AckRemainingPath(p)
    \/ \E p \in OtherPaths : ManagerPutsPing(p)
    \/ ManagerPacksPing

Spec == Init /\ [][Next]_vars

-----------------------------------------------------------------------------
(***************************************************************************)
(* Every control frame but PING is packed as often as it is queued, into   *)
(* whatever packets of whatever paths: none is lost when a packet is full, *)
(* empty or not sent, and none is sent again (packetPacker.PackPacket).    *)
(***************************************************************************)
ControlFramesOnce == unsent = CountOf(controlFrames)

(***************************************************************************)
(* An ACK that was taken from the receiver, which from then on has none to *)
(* send, stays in the packer until a packet of its path takes it           *)
(* (scheduler.sendPacket, packetPacker.PackPacket).                        *)
(***************************************************************************)
AckIsKept == ackTaken \subseteq ackFrame

=============================================================================
