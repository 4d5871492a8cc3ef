---------------------------- MODULE StreamFramer ----------------------------
(***************************************************************************)
(* How the data of streams gets into packets and back into the queue when  *)
(* a packet is lost: streamFramer, composeNextPacket of the packet packer  *)
(* and getRetransmission of the scheduler.                                 *)
(*                                                                         *)
(* Bytes are counted; the header of a stream frame has the same length for *)
(* all frames, two bytes of which are the length of the data.  The order   *)
(* in which streams get room is the subject of StreamRoundRobin, and       *)
(* arbitrary here.  When packets are lost is the subject of                *)
(* SentPacketHandler, and arbitrary here.                                  *)
(***************************************************************************)
EXTENDS Integers, Sequences, FiniteSets, SequencesExt

CONSTANTS
    Streams,         \* streams that contribute to the connection's flow control
    MaxBytes,        \* bound on the bytes written to a stream
    StreamWindows,   \* initial send windows of streams
    ConnWindow,      \* initial send window of the connection
    FrameSizes,      \* room for frames in a packet, which depends on its header
    Header,          \* length of the header of a stream frame
    BlockedLen,      \* length of a BLOCKED frame
    MaxLosses        \* bound on the losses of packets

ASSUME StreamFramerAssumption ==
    /\ {MaxBytes, ConnWindow, MaxLosses} \cup StreamWindows \cup FrameSizes \subseteq Nat
    /\ Header \in Nat /\ Header > 2
    /\ BlockedLen \in Nat \ {0} /\ \A max \in FrameSizes : BlockedLen <= max

Connection == "connection"   \* stream 0, in a BLOCKED frame

VARIABLES
    unreliable,            \* the streams marked as unreliable
    early,                 \* the streams with data in packets that were not forward-secure
    dataForWriting, writeOffset, finSent, finishedWriting,  \* of the streams
    sendWindow, connWindow,
    retransmissionQueue,   \* of the framer
    controlFrames,         \* of the packer: the streams of BLOCKED frames
    inFlight,              \* the packets on the network
    lost,                  \* the packets in the retransmission queues of the paths
    acked,                 \* the bytes of each stream in acknowledged packets
    finAcked,              \* the streams with an acknowledged FIN
    forwardSecure,         \* the sealer of the session is a forward-secure one
    handshakeComplete,
    losses

kindVars == <<unreliable, early>>
streamVars == <<dataForWriting, writeOffset, finSent, finishedWriting>>
windowVars == <<sendWindow, connWindow>>
ackVars == <<acked, finAcked>>
cryptoVars == <<forwardSecure, handshakeComplete>>
vars == <<kindVars, streamVars, windowVars, retransmissionQueue, controlFrames, inFlight, lost, ackVars,
          cryptoVars, losses>>

Bytes(f) == f.offset .. f.offset + f.len - 1
Total(f) == FoldFunction(+, 0, f)

Init ==
    /\ unreliable \in SUBSET Streams
    /\ early = {}
    /\ dataForWriting = [s \in Streams |-> 0]
    /\ writeOffset = [s \in Streams |-> 0]
    /\ finSent = {}
    /\ finishedWriting = {}
    /\ \E window \in StreamWindows : sendWindow = [s \in Streams |-> window]
    /\ connWindow = ConnWindow
    /\ retransmissionQueue = << >>
    /\ controlFrames = << >>
    /\ inFlight = {}
    /\ lost = {}
    /\ acked = [s \in Streams |-> {}]
    /\ finAcked = {}
    /\ forwardSecure \in BOOLEAN
    /\ handshakeComplete = forwardSecure
    /\ losses = 0

-----------------------------------------------------------------------------
(***************************************************************************)
(* maybePopFramesForRetransmission(maxLen): frames of the queue, the last  *)
(* of which may be split.                                                  *)
(***************************************************************************)
Least(a, b) == IF a < b THEN a ELSE b

(***************************************************************************)
(* Mutant: the rest of a split frame starts where the frame started.       *)
(***************************************************************************)
MutSplitRestKeepsOffset(f, n) == [f EXCEPT !.len = @ - n]

(***************************************************************************)
(* maybeSplitOffFrame, for n < len: what is split off and what remains.    *)
(***************************************************************************)
SplitOff(f, n) == [f EXCEPT !.len = n, !.fin = FALSE]
SplitRest(f, n) == [f EXCEPT !.offset = @ + n, !.len = @ - n]

PopForRetransmission(maxLen) ==
    LET Pop(acc, f) ==
            IF acc.full \/ acc.len + Header >= maxLen
            THEN [acc EXCEPT !.full = TRUE, !.queue = Append(@, f)]
            ELSE LET room == maxLen - acc.len - Header IN
                 IF room < f.len
                 THEN [full |-> TRUE, len |-> maxLen,
                       frames |-> Append(acc.frames, SplitOff(f, room)),
                       queue |-> Append(acc.queue, SplitRest(f, room))]
                 ELSE [acc EXCEPT !.len = @ + Header + f.len, !.frames = Append(@, f)]
    IN  FoldLeft(Pop, [full |-> FALSE, len |-> 0, frames |-> << >>, queue |-> << >>],
                 retransmissionQueue)

(***************************************************************************)
(* SendWindowSize of a stream that has sent offset[s] bytes.               *)
(***************************************************************************)
Remaining(offset) == connWindow - Total(offset)
SendWindowSize(s, offset) == Least(sendWindow[s] - offset[s], Remaining(offset))

(***************************************************************************)
(* Mutant: the send window is that of the begin of the packet.             *)
(***************************************************************************)
MutStaleWindow(s, acc, room) ==
    IF acc.data[s] # 0 THEN Least(room, SendWindowSize(s, writeOffset)) ELSE room

(***************************************************************************)
(* Mutant: a FIN without data needs room in the send window.               *)
(***************************************************************************)
MutFinNeedsWindow(s, acc, room) == Least(room, SendWindowSize(s, acc.offset))

(***************************************************************************)
(* What a stream may send: the room in the packet and, if it has data, the *)
(* send window that the streams before it in the packet have left.         *)
(***************************************************************************)
MaxLen(s, acc, room) ==
    IF acc.data[s] # 0 THEN Least(room, SendWindowSize(s, acc.offset)) ELSE room

(***************************************************************************)
(* maybePopNormalFrames(maxBytes), for an order of the streams.            *)
(***************************************************************************)
PopNormal(maxBytes, order) ==
    LET Take(acc, s) ==
            LET room == maxBytes - acc.len - Header
                maxLen == MaxLen(s, acc, room)
                n == Least(acc.data[s], maxLen)
                fin == s \in finishedWriting \ finSent /\ acc.data[s] = n
                offset == [acc.offset EXCEPT ![s] = @ + n]
                blocked == IF Remaining(offset) = 0 THEN <<Connection>>
                           ELSE IF ~fin /\ SendWindowSize(s, acc.offset) = n THEN <<s>>
                           ELSE << >>
            IN  CASE acc.full \/ room < 0 -> [acc EXCEPT !.full = TRUE]
                  [] ~acc.full /\ room >= 0 /\ (maxLen = 0 \/ (n = 0 /\ ~fin)) -> acc
                  [] OTHER ->
                        [full |-> acc.len + Header + n = maxBytes,
                         len |-> acc.len + Header + n,
                         frames |-> Append(acc.frames, [stream |-> s, offset |-> acc.offset[s],
                                                        len |-> n, fin |-> fin]),
                         data |-> [acc.data EXCEPT ![s] = @ - n],
                         offset |-> offset,
                         fins |-> IF fin THEN acc.fins \cup {s} ELSE acc.fins,
                         blocked |-> acc.blocked \o blocked]
    IN  FoldLeft(Take, [full |-> FALSE, len |-> 0, frames |-> << >>, data |-> dataForWriting,
                        offset |-> writeOffset, fins |-> finSent, blocked |-> << >>], order)

(***************************************************************************)
(* Room for stream frames, behind control frames of a length.  The last    *)
(* stream frame does without the two bytes of its length.                  *)
(***************************************************************************)
RoomForStreams(max, payload) == max + 2 - payload

Length(p) ==
    LET lens == [i \in DOMAIN p.frames |-> Header + p.frames[i].len]
    IN  Len(p.blocked) * BlockedLen + IF p.frames = << >> THEN 0 ELSE Total(lens) - 2

(***************************************************************************)
(* composeNextPacket and PackPacket: control frames from the end of the    *)
(* queue as long as they fit, then frames to be retransmitted, then new    *)
(* ones.  Data is sent when canSendData says so, which for a client is as  *)
(* soon as the sealer is not an unencrypted one.  The BLOCKED frames that  *)
(* come of it are for the next packet.                                     *)
(***************************************************************************)
ComposeNextPacket(max, order) ==
    LET n == Least(Len(controlFrames), max \div BlockedLen)
        kept == Len(controlFrames) - n
        room == RoomForStreams(max, n * BlockedLen)
        retr == PopForRetransmission(room)
        new == PopNormal(room - retr.len, order)
        packet == [frames |-> retr.frames \o new.frames,
                   blocked |-> Reverse(SubSeq(controlFrames, kept + 1, Len(controlFrames))),
                   max |-> max,
                   forwardSecure |-> forwardSecure]
    IN  /\ packet.frames # << >> \/ packet.blocked # << >>
        /\ inFlight' = inFlight \cup {packet}
        /\ retransmissionQueue' = retr.queue
        /\ controlFrames' = SubSeq(controlFrames, 1, kept) \o new.blocked
        /\ dataForWriting' = new.data
        /\ writeOffset' = new.offset
        /\ finSent' = new.fins
        /\ early' = IF forwardSecure THEN early ELSE early \cup {f.stream : f \in ToSet(packet.frames)}
        /\ UNCHANGED <<unreliable, finishedWriting, windowVars, lost, ackVars, cryptoVars, losses>>

(***************************************************************************)
(* The orders of the streams that have something to send: the others get   *)
(* no frame wherever they come.                                            *)
(***************************************************************************)
Orders == SetToSeqs({s \in Streams : dataForWriting[s] # 0 \/ s \in finishedWriting \ finSent})

-----------------------------------------------------------------------------
(***************************************************************************)
(* The path's sentPacketHandler takes a packet for lost and puts it into   *)
(* its retransmission queue, or gets an ACK for it.                        *)
(***************************************************************************)
LosePacket(p) ==
    /\ losses < MaxLosses
    /\ losses' = losses + 1
    /\ inFlight' = inFlight \ {p}
    /\ lost' = lost \cup {p}
    /\ UNCHANGED <<kindVars, streamVars, windowVars, retransmissionQueue, controlFrames, ackVars, cryptoVars>>

AckPacket(p) ==
    /\ inFlight' = inFlight \ {p}
    /\ acked' = [s \in Streams |-> acked[s] \cup
                    UNION {Bytes(p.frames[i]) : i \in {j \in DOMAIN p.frames : p.frames[j].stream = s}}]
    /\ finAcked' = finAcked \cup {f.stream : f \in {g \in ToSet(p.frames) : g.fin}}
    /\ UNCHANGED <<kindVars, streamVars, windowVars, retransmissionQueue, controlFrames, lost, cryptoVars,
                   losses>>

(***************************************************************************)
(* The frames of a lost packet that are sent again: not those of           *)
(* unreliable streams.                                                     *)
(***************************************************************************)
FramesForRetransmission(p) ==
    LET IsReliable(f) == f.stream \notin unreliable IN SelectSeq(p.frames, IsReliable)

(***************************************************************************)
(* getRetransmission and the loop of sendPacket, for one packet.  A packet *)
(* that is not forward-secure is sent again as it is until the handshake   *)
(* is complete, and dropped from then on; the frames of others go to the   *)
(* queues of the framer and of the packer.                                 *)
(***************************************************************************)
GetRetransmission(p) ==
    /\ lost' = lost \ {p}
    /\ CASE p.forwardSecure ->
                /\ retransmissionQueue' = retransmissionQueue \o FramesForRetransmission(p)
                /\ controlFrames' = controlFrames \o p.blocked
                /\ UNCHANGED inFlight
         [] ~p.forwardSecure /\ handshakeComplete ->
                UNCHANGED <<retransmissionQueue, controlFrames, inFlight>>
         [] ~p.forwardSecure /\ ~handshakeComplete ->
                /\ inFlight' = inFlight \cup {p}
                /\ UNCHANGED <<retransmissionQueue, controlFrames>>
    /\ UNCHANGED <<kindVars, streamVars, windowVars, ackVars, cryptoVars, losses>>

-----------------------------------------------------------------------------
(***************************************************************************)
(* The application: Write, which waits until the data before it was taken, *)
(* and Close.                                                              *)
(***************************************************************************)
Write(s, n) ==
    /\ s \notin finishedWriting
    /\ dataForWriting[s] = 0
    /\ writeOffset[s] + n <= MaxBytes
    /\ dataForWriting' = [dataForWriting EXCEPT ![s] = n]
    /\ UNCHANGED <<kindVars, writeOffset, finSent, finishedWriting, windowVars, retransmissionQueue,
                   controlFrames, inFlight, lost, ackVars, cryptoVars, losses>>

Close(s) ==
    /\ s \notin finishedWriting
    /\ finishedWriting' = finishedWriting \cup {s}
    /\ UNCHANGED <<kindVars, dataForWriting, writeOffset, finSent, windowVars, retransmissionQueue,
                   controlFrames, inFlight, lost, ackVars, cryptoVars, losses>>

(***************************************************************************)
(* WINDOW_UPDATE frames of the peer (module FlowControl), as it consumes   *)
(* what it has received.                                                   *)
(***************************************************************************)
HandleWindowUpdate(s) ==
    /\ sendWindow[s] < MaxBytes
    /\ acked[s] # {}
    /\ sendWindow' = [sendWindow EXCEPT ![s] = MaxBytes]
    /\ UNCHANGED <<kindVars, streamVars, connWindow, retransmissionQueue, controlFrames, inFlight, lost,
                   ackVars, cryptoVars, losses>>

HandleConnWindowUpdate ==
    /\ connWindow < MaxBytes * Cardinality(Streams)
    /\ \E s \in Streams : acked[s] # {}
    /\ connWindow' = MaxBytes * Cardinality(Streams)
    /\ UNCHANGED <<kindVars, streamVars, sendWindow, retransmissionQueue, controlFrames, inFlight, lost,
                   ackVars, cryptoVars, losses>>

(***************************************************************************)
(* The handshake: the forward-secure keys are there; then the run loop     *)
(* learns that it is complete.                                             *)
(***************************************************************************)
SetForwardSecure ==
    /\ ~forwardSecure
    /\ forwardSecure' = TRUE
    /\ UNCHANGED <<kindVars, streamVars, windowVars, retransmissionQueue, controlFrames, inFlight, lost,
                   ackVars, handshakeComplete, losses>>

CompleteHandshake ==
    /\ forwardSecure
    /\ ~handshakeComplete
    /\ handshakeComplete' = TRUE
    /\ UNCHANGED <<kindVars, streamVars, windowVars, retransmissionQueue, controlFrames, inFlight, lost,
                   ackVars, forwardSecure, losses>>

Next ==
    \/ \E max \in FrameSizes, order \in Orders : ComposeNextPacket(max, order)
    \/ \E p \in inFlight : LosePacket(p) \/ AckPacket(p)
    \/ \E p \in lost : GetRetransmission(p)
    \/ \E s \in Streams : Close(s) \/ HandleWindowUpdate(s) \/ \E n \in 1 .. MaxBytes : Write(s, n)
    \/ HandleConnWindowUpdate
    \/ SetForwardSecure
    \/ CompleteHandshake

Spec == Init /\ [][Next]_vars

-----------------------------------------------------------------------------
(***************************************************************************)
(* Where a byte of a stream is: acknowledged, in a packet, or in the queue *)
(* of the framer.                                                          *)
(***************************************************************************)
Has(f, s, b) == f.stream = s /\ b \in Bytes(f)
Packets == inFlight \cup lost
Places(s, b) ==
    {<<"acked">> : x \in {s} \cap {t \in Streams : b \in acked[t]}}
    \cup {<<"queue", i>> : i \in {j \in DOMAIN retransmissionQueue : Has(retransmissionQueue[j], s, b)}}
    \cup UNION {{<<"packet", p, i>> : i \in {j \in DOMAIN p.frames : Has(p.frames[j], s, b)}} :
                p \in Packets}

(***************************************************************************)
(* The streams whose data is kept: packets with early data that are found  *)
(* lost after the handshake are dropped.                                   *)
(***************************************************************************)
Kept == Streams \ (unreliable \cup IF handshakeComplete THEN early ELSE {})

(***************************************************************************)
(* Every byte that was taken from a reliable stream is at exactly one      *)
(* place until it is acknowledged: losses, splitting of frames and packets *)
(* with frames of other streams neither forget nor duplicate one, and as   *)
(* long as the handshake goes on, no early data is forgotten. A FIN that   *)
(* was sent is acknowledged, under way or queued, at the final offset of   *)
(* its stream (streamFramer.maybeSplitOffFrame,                            *)
(* scheduler.getRetransmission).                                           *)
(***************************************************************************)
EveryByteOnce ==
    /\ \A s \in Kept : \A b \in 0 .. writeOffset[s] - 1 : Cardinality(Places(s, b)) = 1
    /\ \A s \in (finSent \ finAcked) \cap Kept :
          \E f \in ToSet(retransmissionQueue) \cup UNION {ToSet(p.frames) : p \in Packets} :
              f.stream = s /\ f.fin /\ f.offset + f.len = writeOffset[s]

(***************************************************************************)
(* No packet is larger than it may be, whatever mixture of control frames, *)
(* retransmissions, split frames and new data fills it, and what the       *)
(* streams have sent never exceeds their windows and that of the           *)
(* connection, which several streams of one packet share                   *)
(* (packetPacker.composeNextPacket, streamFramer.maybePopNormalFrames).    *)
(***************************************************************************)
WithinLimits ==
    /\ \A p \in Packets : Length(p) <= p.max
    /\ \A s \in Streams : writeOffset[s] <= sendWindow[s]
    /\ Total(writeOffset) <= connWindow

(***************************************************************************)
(* When nothing is under way and the session has nothing to send, and the  *)
(* peer has no window to grant, every reliable stream that was closed is   *)
(* delivered with its FIN: nothing is stuck in a queue or waits for a      *)
(* window, although packets were lost, frames split and windows small.     *)
(***************************************************************************)
Idle ==
    /\ inFlight = {} /\ lost = {}
    /\ ~ENABLED (HandleConnWindowUpdate \/ \E s \in Streams : HandleWindowUpdate(s))
    /\ ~ENABLED (\E max \in FrameSizes, order \in Orders : ComposeNextPacket(max, order))

NothingIsStuck ==
    \/ \A s \in Kept \cap finishedWriting :
          s \in finAcked /\ acked[s] = 0 .. writeOffset[s] - 1 /\ dataForWriting[s] = 0
    \/ ~Idle
=============================================================================
