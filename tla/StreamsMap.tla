----------------------------- MODULE StreamsMap -----------------------------
(***************************************************************************)
(* The streams map of a session (streams_map.go).  The session's goroutine *)
(* opens streams for the frames it receives, removes finished streams and  *)
(* closes the map; goroutines of the application open streams, wait for a  *)
(* free place in OpenStreamSync and wait for the peer's streams in         *)
(* AcceptStream.  All of it happens under the mutex of the map, so that    *)
(* every operation, up to a Wait on a condition variable, is one step.     *)
(***************************************************************************)
EXTENDS Integers, FiniteSets

CONSTANTS
    MaxID,              \* bound on stream IDs
    MaxOutgoing,        \* GetMaxOutgoingStreams
    MaxIncoming,        \* GetMaxIncomingStreams
    Acceptors,          \* goroutines that call AcceptStream
    Openers,            \* goroutines that call OpenStreamSync
    UnreliableStreams   \* the streams of the peer that it opened as unreliable ones

ASSUME StreamsMapAssumption ==
    /\ {MaxID, MaxOutgoing, MaxIncoming} \subseteq Nat \ {0}
    /\ Acceptors \cap Openers = {}
    /\ UnreliableStreams \subseteq 2 .. MaxID

VARIABLES
    server,                    \* perspective: whether this end is the server
    streams,                   \* the open streams, the keys of streams and of openStreams
    unreliableStreamMark,      \* the marks, a partial function to BOOLEAN
    unreliableMarker,          \* the open streams whose frame sorter is an unreliable one
    nextStream, highestStreamOpenedByPeer, nextStreamToAccept,
    numOutgoingStreams, numIncomingStreams,
    finished,                  \* the open streams that are finished()
    collected,                 \* history: the streams that were removed
    closed,                    \* closeErr is set
    pc,                        \* what each goroutine of the application does
    err                        \* the error of the session's goroutine

idVars == <<nextStream, highestStreamOpenedByPeer>>
countVars == <<numOutgoingStreams, numIncomingStreams>>
markVars == <<unreliableStreamMark, unreliableMarker>>
vars == <<server, streams, markVars, idVars, nextStreamToAccept, countVars, finished, collected,
          closed, pc, err>>

IDs == 1 .. MaxID
Own(id) == id % 2 = IF server THEN 0 ELSE 1

(***************************************************************************)
(* newStreamsMap, and the opening of the crypto stream in session.setup:   *)
(* the server gets stream 1 with GetOrOpenStream and accepts it, the       *)
(* client opens it.                                                        *)
(***************************************************************************)
Init ==
    /\ server \in BOOLEAN
    /\ streams = {1}
    /\ unreliableStreamMark = IF server THEN << >> ELSE [id \in {1} |-> FALSE]
    /\ unreliableMarker = {}
    /\ nextStream = IF server THEN 2 ELSE 3
    /\ nextStreamToAccept = IF server THEN 3 ELSE 2
    /\ highestStreamOpenedByPeer = IF server THEN 1 ELSE 0
    /\ numOutgoingStreams = 0
    /\ numIncomingStreams = 1
    /\ finished = {}
    /\ collected = {}
    /\ closed = FALSE
    /\ pc = [g \in Acceptors \cup Openers |-> "idle"]
    /\ err = "nil"

(***************************************************************************)
(* The run loop of the session handles frames and collects streams until   *)
(* an error or a Close ends it.                                            *)
(***************************************************************************)
Running == ~closed /\ err = "nil"

(***************************************************************************)
(* Broadcast wakes every waiting goroutine of S, n Signals wake n of them. *)
(* A goroutine that is woken has to take the mutex again before it looks.  *)
(***************************************************************************)
Waiting(S) == {g \in S : pc[g] = "wait"}
Wake(S) == [g \in DOMAIN pc |-> IF g \in S THEN "run" ELSE pc[g]]
Broadcast(S) == Wake(Waiting(S))
Signals(S, n) ==
    LET k == IF n < Cardinality(Waiting(S)) THEN n ELSE Cardinality(Waiting(S))
    IN  {Wake(W) : W \in {X \in SUBSET Waiting(S) : Cardinality(X) = k}}

-----------------------------------------------------------------------------
(***************************************************************************)
(* What GetOrOpenStream finds for an ID: an open stream; nil, nil, for a   *)
(* stream that must have been closed already; an invalid ID; or streams of *)
(* the peer that are to be opened.                                         *)
(***************************************************************************)
Lookup(id) ==
    CASE id \in streams -> "open"
      [] id \notin streams /\ Own(id) /\ id <= nextStream -> "nil"
      [] id \notin streams /\ Own(id) /\ id > nextStream -> "invalid"
      [] id \notin streams /\ ~Own(id) /\ id <= highestStreamOpenedByPeer -> "nil"
      [] OTHER -> "new"

(***************************************************************************)
(* The streams that GetOrOpenStream opens for a new ID: the peer's streams *)
(* up to it, in order, all those that were skipped included.  A client     *)
(* starts with 2, a server, whose stream 1 exists, with 3.                 *)
(***************************************************************************)
NewStreams(id) == {i \in highestStreamOpenedByPeer + 1 .. id : ~Own(i)}

(***************************************************************************)
(* Mutant: the limit is compared with >.                                   *)
(***************************************************************************)
MutOneMore(n) ==
    LET room == MaxIncoming + 1 - numIncomingStreams
    IN  IF room <= 0 THEN 0 ELSE IF server /\ room < n THEN room ELSE n

(***************************************************************************)
(* How many of n streams openRemoteStream opens before it returns          *)
(* TooManyOpenStreams.  It compares the number of incoming streams with    *)
(* the limit; a client counts the streams of its peer, whose IDs are even, *)
(* as outgoing ones.                                                       *)
(***************************************************************************)
Admitted(n) ==
    LET room == MaxIncoming - numIncomingStreams
    IN  IF room <= 0 THEN 0 ELSE IF server /\ room < n THEN room ELSE n

(***************************************************************************)
(* Mutant: no Broadcast for the goroutines in AcceptStream.                *)
(***************************************************************************)
MutNoBroadcast(id, mark) ==
    /\ Admitted(Cardinality(NewStreams(id))) = Cardinality(NewStreams(id))
    /\ streams' = streams \cup NewStreams(id)
    /\ highestStreamOpenedByPeer' = id
    /\ numIncomingStreams' = IF server THEN numIncomingStreams + Cardinality(NewStreams(id)) ELSE numIncomingStreams
    /\ numOutgoingStreams' = IF server THEN numOutgoingStreams ELSE numOutgoingStreams + Cardinality(NewStreams(id))
    /\ err' = "nil"
    /\ UNCHANGED <<unreliableMarker, pc>>

(***************************************************************************)
(* Mutant: the streams that are opened implicitly are of the kind of the   *)
(* stream of the frame.                                                    *)
(***************************************************************************)
MutKindOfTheFrame(id, mark) ==
    LET n == Admitted(Cardinality(NewStreams(id)))
        new == {i \in NewStreams(id) : Cardinality(NewStreams(i)) <= n}
    IN  /\ new = NewStreams(id)
        /\ streams' = streams \cup new
        /\ unreliableMarker' =
               unreliableMarker \cup IF id \in DOMAIN mark /\ mark[id] THEN new ELSE {}
        /\ highestStreamOpenedByPeer' = id
        /\ numIncomingStreams' = IF server THEN numIncomingStreams + n ELSE numIncomingStreams
        /\ numOutgoingStreams' = IF server THEN numOutgoingStreams ELSE numOutgoingStreams + n
        /\ err' = "nil"
        /\ pc' = Broadcast(Acceptors)

(***************************************************************************)
(* GetOrOpenStream for a new ID.  newStream takes the kind of the frame    *)
(* sorter from the mark that the stream has at this time.                  *)
(***************************************************************************)
OpenRemoteStreams(id, mark) ==
    LET n == Admitted(Cardinality(NewStreams(id)))
        new == {i \in NewStreams(id) : Cardinality(NewStreams(i)) <= n}
        ok == new = NewStreams(id)
    IN  /\ streams' = streams \cup new
        /\ unreliableMarker' = unreliableMarker \cup {i \in new \cap DOMAIN mark : mark[i]}
        /\ highestStreamOpenedByPeer' =
               IF new = {} THEN highestStreamOpenedByPeer ELSE CHOOSE i \in new : \A j \in new : j <= i
        /\ numIncomingStreams' = IF server THEN numIncomingStreams + n ELSE numIncomingStreams
        /\ numOutgoingStreams' = IF server THEN numOutgoingStreams ELSE numOutgoingStreams + n
        /\ err' = IF ok THEN "nil" ELSE "TooManyOpenStreams"
        /\ pc' = IF ok THEN Broadcast(Acceptors) ELSE pc

GetOrOpenStream(id, mark) ==
    /\ CASE Lookup(id) = "new" -> OpenRemoteStreams(id, mark)
         [] Lookup(id) # "new" ->
                /\ err' = IF Lookup(id) \in {"open", "nil"} THEN "nil" ELSE "InvalidStreamID"
                /\ UNCHANGED <<streams, unreliableMarker, highestStreamOpenedByPeer, countVars, pc>>
    /\ unreliableStreamMark' = mark
    /\ UNCHANGED <<nextStream, nextStreamToAccept, collected, closed>>

(***************************************************************************)
(* handleStreamFrame.  The unpacker has marked the stream before, if the   *)
(* frame carries the bit of unreliable streams; the peer sets it in every  *)
(* frame of the streams it opened as unreliable ones.  A frame of a closed *)
(* stream is ignored.                                                      *)
(***************************************************************************)
HandleStreamFrame(id) ==
    /\ Running
    /\ LET mark == IF id \in UnreliableStreams /\ ~Own(id)
                   THEN [i \in DOMAIN unreliableStreamMark \cup {id} |->
                            i = id \/ unreliableStreamMark[i]]
                   ELSE unreliableStreamMark
       IN  GetOrOpenStream(id, mark)
    /\ UNCHANGED finished

(***************************************************************************)
(* handleRstStreamFrame.  RegisterRemoteError answers with an RST_STREAM,  *)
(* unless one or a FIN was sent before, so that the stream is finished.    *)
(* The error for a stream that is closed already is ignored.               *)
(***************************************************************************)
HandleRstStreamFrame(id) ==
    /\ Running
    /\ id # 1
    /\ GetOrOpenStream(id, unreliableStreamMark)
    /\ finished' = IF err' = "nil" /\ id \in streams' THEN finished \cup {id} ELSE finished

(***************************************************************************)
(* Mutant: one Signal for all the streams that are removed.                *)
(***************************************************************************)
MutOneSignal ==
    /\ Running
    /\ finished # {}
    /\ streams' = streams \ finished
    /\ unreliableMarker' = unreliableMarker \ finished
    /\ numOutgoingStreams' = numOutgoingStreams - Cardinality({id \in finished : id % 2 = 0})
    /\ numIncomingStreams' = numIncomingStreams - Cardinality({id \in finished : id % 2 = 1})
    /\ finished' = {}
    /\ collected' = collected \cup finished
    /\ pc' \in Signals(Openers, 1)
    /\ UNCHANGED <<unreliableStreamMark, idVars, nextStreamToAccept, closed, err>>

(***************************************************************************)
(* garbageCollectStreams: RemoveStream of every finished stream, each with *)
(* a Signal for the goroutines that wait in OpenStreamSync.                *)
(***************************************************************************)
GarbageCollectStreams ==
    /\ Running
    /\ finished # {}
    /\ streams' = streams \ finished
    /\ unreliableMarker' = unreliableMarker \ finished
    /\ numOutgoingStreams' = numOutgoingStreams - Cardinality({id \in finished : id % 2 = 0})
    /\ numIncomingStreams' = numIncomingStreams - Cardinality({id \in finished : id % 2 = 1})
    /\ finished' = {}
    /\ collected' = collected \cup finished
    /\ pc' \in Signals(Openers, Cardinality(finished))
    /\ UNCHANGED <<unreliableStreamMark, idVars, nextStreamToAccept, closed, err>>

(***************************************************************************)
(* CloseWithError, when the session is closed or its goroutine had an      *)
(* error.  It cancels the streams.                                         *)
(***************************************************************************)
CloseWithError ==
    /\ ~closed
    /\ closed' = TRUE
    /\ pc' = Broadcast(Acceptors \cup Openers)
    /\ finished' = streams
    /\ UNCHANGED <<streams, markVars, idVars, nextStreamToAccept, countVars, collected, err>>

-----------------------------------------------------------------------------
(***************************************************************************)
(* The limit that openStreamImpl checks.                                   *)
(***************************************************************************)
CanOpen == numOutgoingStreams < MaxOutgoing

(***************************************************************************)
(* openStreamImpl and openUnreliableStreamImpl.  The stream is made by     *)
(* newStream, which looks for a mark, before putStreamType marks it.       *)
(***************************************************************************)
OpenStreamImpl(unreliable) ==
    /\ nextStream <= MaxID
    /\ CanOpen
    /\ numOutgoingStreams' = IF server THEN numOutgoingStreams + 1 ELSE numOutgoingStreams
    /\ numIncomingStreams' = IF server THEN numIncomingStreams ELSE numIncomingStreams + 1
    /\ nextStream' = nextStream + 2
    /\ streams' = streams \cup {nextStream}
    /\ unreliableStreamMark' =
           [id \in DOMAIN unreliableStreamMark \cup {nextStream} |->
               IF id = nextStream THEN unreliable ELSE unreliableStreamMark[id]]
    /\ UNCHANGED <<unreliableMarker, highestStreamOpenedByPeer, nextStreamToAccept, finished,
                   collected, closed, err>>

(***************************************************************************)
(* OpenStream and OpenUnreliableStream, when they open a stream; else they *)
(* return an error and change nothing.                                     *)
(***************************************************************************)
OpenStream ==
    /\ ~closed
    /\ OpenStreamImpl(FALSE)
    /\ UNCHANGED pc

OpenUnreliableStream ==
    /\ ~closed
    /\ OpenStreamImpl(TRUE)
    /\ UNCHANGED pc

(***************************************************************************)
(* OpenStreamSync, from the call or from a wake-up to the return or to the *)
(* next Wait.                                                              *)
(***************************************************************************)
OpenStreamSync(g) ==
    /\ pc[g] # "wait"
    /\ \/ /\ closed
          /\ pc[g] = "run"
          /\ pc' = [pc EXCEPT ![g] = "idle"]
          /\ UNCHANGED <<streams, markVars, idVars, nextStreamToAccept, countVars, finished,
                         collected, closed, err>>
       \/ /\ ~closed
          /\ OpenStreamImpl(FALSE)
          /\ pc' = [pc EXCEPT ![g] = "idle"]
       \/ /\ ~closed
          /\ ~CanOpen
          /\ pc' = [pc EXCEPT ![g] = "wait"]
          /\ UNCHANGED <<streams, markVars, idVars, nextStreamToAccept, countVars, finished,
                         collected, closed, err>>

(***************************************************************************)
(* AcceptStream, from the call or from a wake-up to the return or to the   *)
(* next Wait.                                                              *)
(***************************************************************************)
AcceptStream(g) ==
    /\ pc[g] # "wait"
    /\ \/ /\ closed
          /\ pc[g] = "run"
          /\ pc' = [pc EXCEPT ![g] = "idle"]
          /\ UNCHANGED nextStreamToAccept
       \/ /\ ~closed
          /\ nextStreamToAccept \in streams
          /\ nextStreamToAccept' = nextStreamToAccept + 2
          /\ pc' = [pc EXCEPT ![g] = "idle"]
       \/ /\ ~closed
          /\ nextStreamToAccept \notin streams
          /\ pc' = [pc EXCEPT ![g] = "wait"]
          /\ UNCHANGED nextStreamToAccept
    /\ UNCHANGED <<streams, markVars, idVars, countVars, finished, collected, closed, err>>

(***************************************************************************)
(* A stream that the application has in its hands becomes finished: both   *)
(* directions ended (module Stream).  The crypto stream never does.        *)
(***************************************************************************)
Finish(id) ==
    /\ ~closed
    /\ id \in streams \ finished
    /\ id # 1
    /\ Own(id) \/ id < nextStreamToAccept
    /\ finished' = finished \cup {id}
    /\ UNCHANGED <<streams, markVars, idVars, nextStreamToAccept, countVars, collected, closed,
                   pc, err>>

Next ==
    /\ \/ \E id \in IDs : HandleStreamFrame(id) \/ HandleRstStreamFrame(id) \/ Finish(id)
       \/ GarbageCollectStreams
       \/ CloseWithError
       \/ OpenStream
       \/ OpenUnreliableStream
       \/ \E g \in Openers : OpenStreamSync(g)
       \/ \E g \in Acceptors : AcceptStream(g)
    /\ UNCHANGED server

Spec == Init /\ [][Next]_vars

(***************************************************************************)
(* The application accepts streams in a loop, a woken goroutine gets the   *)
(* mutex, and the run loop goes round until the session is closed, which   *)
(* an error of the loop leads to.                                          *)
(***************************************************************************)
AcceptorStep(g) == AcceptStream(g) /\ UNCHANGED server
WokenOpenerStep(g) == pc[g] = "run" /\ OpenStreamSync(g) /\ UNCHANGED server
RunLoopStep ==
    /\ GarbageCollectStreams \/ (err # "nil" /\ CloseWithError)
    /\ UNCHANGED server

Fairness ==
    /\ \A g \in Acceptors : WF_vars(AcceptorStep(g))
    /\ \A g \in Openers : WF_vars(WokenOpenerStep(g))
    /\ WF_vars(RunLoopStep)

FairSpec == Spec /\ Fairness

-----------------------------------------------------------------------------
OwnStreams == {id \in streams : Own(id)}
PeerStreams == streams \ OwnStreams

(***************************************************************************)
(* The limits are exact at a server. Its counters count the open streams,  *)
(* through every order of implicit opening, refusal half way and removal:  *)
(* RemoveStream decrements by the parity of the ID what opening            *)
(* incremented by the perspective. So the server never has more streams of *)
(* its own, or of its client, open than the limits allow, and it fails the *)
(* connection with TooManyOpenStreams only when the client has as many     *)
(* open as it may. A client counts its own streams as incoming ones, and   *)
(* the limits do not hold for it.                                          *)
(***************************************************************************)
LimitsAreExact ==
    /\ numOutgoingStreams = Cardinality({id \in streams : id % 2 = 0})
    /\ numIncomingStreams = Cardinality({id \in streams : id % 2 = 1})
    /\ server => /\ Cardinality(OwnStreams) <= MaxOutgoing
                 /\ Cardinality(PeerStreams) <= MaxIncoming
                 /\ err = "TooManyOpenStreams" => Cardinality(PeerStreams) = MaxIncoming

(***************************************************************************)
(* No wake-up is lost at a server: while there is room for a stream and a  *)
(* goroutine waits in OpenStreamSync, one that was signalled is on its way *)
(* to look.  RemoveStream signals one goroutine only and for streams of    *)
(* either side.                                                            *)
(***************************************************************************)
RoomIsSignalled ==
    server /\ CanOpen /\ ~closed /\ Waiting(Openers) # {} => \E g \in Openers : pc[g] = "run"

(***************************************************************************)
(* A stream ID stands for one stream of one kind: neither a late frame nor *)
(* OpenStream opens a stream again that was removed, and a stream gets a   *)
(* sorter that skips what is missing only if its peer opened it as an      *)
(* unreliable one, also when it is opened implicitly, by the frame of      *)
(* another stream (streamsMap.GetOrOpenStream).                            *)
(***************************************************************************)
StreamsKeepIdentity ==
    /\ streams \cap collected = {}
    /\ unreliableMarker \subseteq UnreliableStreams

(***************************************************************************)
(* AcceptStream always catches up with the streams that the peer opened,   *)
(* by a frame or implicitly, unless the session is closed or the next      *)
(* stream to accept was reset and removed before: what arrives between a   *)
(* look at the map and the Wait is not missed. After a close no goroutine  *)
(* stays in AcceptStream or OpenStreamSync.                                *)
(***************************************************************************)
WaitersReturn ==
    /\ []<>(nextStreamToAccept > highestStreamOpenedByPeer \/ closed \/ nextStreamToAccept \in collected)
    /\ closed ~> \A g \in Acceptors \cup Openers : pc[g] = "idle"

=============================================================================
