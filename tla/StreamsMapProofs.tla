-------------------------- MODULE StreamsMapProofs --------------------------
(***************************************************************************)
(* The identity of streams and the wake-ups of OpenStreamSync in           *)
(* StreamsMap, for every number of streams, limits and goroutines.         *)
(***************************************************************************)
EXTENDS StreamsMap, FiniteSetTheorems, TLAPS

TypeOK ==
    /\ server \in BOOLEAN
    /\ streams \subseteq IDs /\ finished \subseteq streams /\ collected \subseteq IDs
    /\ unreliableStreamMark \in [DOMAIN unreliableStreamMark -> BOOLEAN]
    /\ nextStream \in Nat \ {0} /\ highestStreamOpenedByPeer \in Nat
    /\ server => numOutgoingStreams \in Int
    /\ closed \in BOOLEAN
    /\ pc \in [Acceptors \cup Openers -> {"idle", "run", "wait"}]

(***************************************************************************)
(* The streams that exist or existed are below nextStream, or up to        *)
(* highestStreamOpenedByPeer, according to who opens them, and both only   *)
(* grow; the peer's streams are marked only if they are unreliable.        *)
(***************************************************************************)
IdsUsedOnce ==
    /\ Own(nextStream)
    /\ \A id \in streams \cup collected :
           (Own(id) /\ id < nextStream) \/ (~Own(id) /\ id <= highestStreamOpenedByPeer)
    /\ \A id \in DOMAIN unreliableStreamMark :
           unreliableStreamMark[id] /\ ~Own(id) => id \in UnreliableStreams

(***************************************************************************)
(* While somebody waits in OpenStreamSync, at least as many goroutines are *)
(* on their way as there is room for.  That one is on its way would not be *)
(* inductive: it may take the place of one of two streams and return.      *)
(***************************************************************************)
Woken(S) == {g \in S : pc[g] = "run"}
EnoughAreWoken ==
    server /\ ~closed /\ Waiting(Openers) # {} =>
        Cardinality(Woken(Openers)) >= MaxOutgoing - numOutgoingStreams

IndInv == TypeOK /\ IdsUsedOnce /\ StreamsKeepIdentity /\ EnoughAreWoken

LEMMA InitIndInv == Init => IndInv
<1> SUFFICES ASSUME Init PROVE IndInv
  OBVIOUS
<1>1. TypeOK
  <2>1. MaxID \in Nat /\ 1 <= MaxID
    BY StreamsMapAssumption
  <2>2. unreliableStreamMark \in [DOMAIN unreliableStreamMark -> BOOLEAN]
    <3>1. CASE server
      BY <3>1 DEF Init
    <3>2. CASE ~server
      BY <3>2 DEF Init
    <3> QED
      BY <3>1, <3>2
  <2>3. streams \subseteq IDs /\ finished \subseteq streams /\ collected \subseteq IDs
    BY <2>1 DEF Init, IDs
  <2>4. pc \in [Acceptors \cup Openers -> {"idle", "run", "wait"}]
    BY DEF Init
  <2>5. nextStream \in Nat \ {0} /\ highestStreamOpenedByPeer \in Nat /\ numOutgoingStreams \in Int
    BY DEF Init
  <2> QED
    BY <2>2, <2>3, <2>4, <2>5, Zenon DEF Init, TypeOK
<1>2. IdsUsedOnce
  <2>1. CASE server = TRUE
    BY <2>1 DEF Init, IdsUsedOnce, Own
  <2>2. CASE server = FALSE
    BY <2>2 DEF Init, IdsUsedOnce, Own
  <2> QED
    BY <2>1, <2>2, Zenon DEF Init
<1>3. StreamsKeepIdentity
  BY DEF Init, StreamsKeepIdentity
<1>4. Waiting(Openers) = {}
  BY DEF Init, Waiting
<1> QED
  BY <1>1, <1>2, <1>3, <1>4 DEF IndInv, EnoughAreWoken

(***************************************************************************)
(* A set of numbers up to a bound has a greatest one.                      *)
(***************************************************************************)
LEMMA GreatestExists ==
    ASSUME NEW n \in Nat, NEW S, S \subseteq 0 .. n, S # {}
    PROVE  \E i \in S : \A j \in S : j <= i
<1> DEFINE T == {X \in SUBSET (0 .. n) : \E i \in S : X = i .. n}
<1> DEFINE Sub == StrictSubsetOrdering(0 .. n)
<1>1. T \subseteq FiniteSubsetsOf(0 .. n)
  BY FS_Interval, FS_Subset DEF FiniteSubsetsOf
<1>2. T # {}
  <2>1. PICK i \in S : TRUE
    BY Zenon
  <2>2. i .. n \in T
    BY <2>1
  <2> QED
    BY <2>2
<1>3. IsWellFoundedOn(Sub, FiniteSubsetsOf(0 .. n))
  BY FS_StrictSubsetOrderingWellFounded
<1>4. PICK X \in T : \A Y \in T : ~(<<Y, X>> \in Sub)
  <2> HIDE DEF T, Sub
  <2> QED
    BY <1>1, <1>2, <1>3, WFMin
<1>5. PICK i \in S : X = i .. n
  OBVIOUS
<1>6. ASSUME NEW j \in S, j > i PROVE FALSE
  <2>1. j .. n \in T
    OBVIOUS
  <2>2. j .. n \subseteq i .. n /\ i \in i .. n /\ i \notin j .. n
    BY <1>6
  <2>3. <<j .. n, X>> \in Sub
    BY <1>5, <2>1, <2>2 DEF StrictSubsetOrdering
  <2> QED
    BY <1>4, <2>1, <2>3
<1> QED
  BY <1>6

(***************************************************************************)
(* GetOrOpenStream opens streams of the peer that are all new, none or     *)
(* those up to the new highestStreamOpenedByPeer, and wakes nobody who     *)
(* waits in OpenStreamSync.                                                *)
(***************************************************************************)
LEMMA GetOrOpenStreamFact ==
    ASSUME IndInv, NEW id \in IDs, NEW mark, GetOrOpenStream(id, mark), UNCHANGED server
    PROVE  \E new \in SUBSET IDs :
               /\ streams' = streams \cup new
               /\ \A i \in new : ~Own(i) /\ i > highestStreamOpenedByPeer
               /\ highestStreamOpenedByPeer' \in Nat
               /\ highestStreamOpenedByPeer' >= highestStreamOpenedByPeer
               /\ \A i \in new : i <= highestStreamOpenedByPeer'
               /\ unreliableMarker' \subseteq
                      unreliableMarker \cup {i \in new \cap DOMAIN mark : mark[i]}
               /\ server => numOutgoingStreams' = numOutgoingStreams
               /\ pc' = pc \/ pc' = Broadcast(Acceptors)
<1>1. CASE Lookup(id) # "new"
  <2>1. UNCHANGED <<streams, unreliableMarker, highestStreamOpenedByPeer, countVars, pc>>
    BY <1>1 DEF GetOrOpenStream
  <2> WITNESS {} \in SUBSET IDs
  <2> QED
    BY <2>1 DEF countVars, IndInv, TypeOK
<1>2. CASE Lookup(id) = "new"
  <2> DEFINE n == Admitted(Cardinality(NewStreams(id)))
  <2> DEFINE new == {i \in NewStreams(id) : Cardinality(NewStreams(i)) <= n}
  <2>1. OpenRemoteStreams(id, mark)
    BY <1>2 DEF GetOrOpenStream
  <2>2. MaxID \in Nat /\ id \in 1 .. MaxID /\ highestStreamOpenedByPeer \in Nat
    BY StreamsMapAssumption DEF IDs, IndInv, TypeOK
  <2>3. \A i \in new : i \in highestStreamOpenedByPeer + 1 .. id /\ ~Own(i)
    BY DEF NewStreams
  <2>4. new \in SUBSET IDs /\ new \subseteq 0 .. MaxID
    BY <2>2, <2>3 DEF IDs
  <2>5. /\ highestStreamOpenedByPeer' \in Nat
        /\ highestStreamOpenedByPeer' >= highestStreamOpenedByPeer
        /\ \A i \in new : i <= highestStreamOpenedByPeer'
    <3>1. CASE new = {}
      <4>1. highestStreamOpenedByPeer' = highestStreamOpenedByPeer
        BY <2>1, <3>1 DEF OpenRemoteStreams
      <4> HIDE DEF new
      <4> QED
        BY <2>2, <3>1, <4>1
    <3>2. CASE new # {}
      <4>1. highestStreamOpenedByPeer' = CHOOSE i \in new : \A j \in new : j <= i
        BY <2>1, <3>2 DEF OpenRemoteStreams
      <4> HIDE DEF new
      <4>2. \E i \in new : \A j \in new : j <= i
        BY <2>2, <2>4, <3>2, GreatestExists, Zenon
      <4>3. highestStreamOpenedByPeer' \in new /\ \A j \in new : j <= highestStreamOpenedByPeer'
        BY <4>1, <4>2
      <4> QED
        BY <2>2, <2>3, <4>3
    <3> QED
      BY <3>1, <3>2
  <2>6. /\ streams' = streams \cup new
        /\ unreliableMarker' = unreliableMarker \cup {i \in new \cap DOMAIN mark : mark[i]}
        /\ pc' = pc \/ pc' = Broadcast(Acceptors)
    BY <2>1 DEF OpenRemoteStreams
  <2>7. server => numOutgoingStreams' = numOutgoingStreams
    BY <2>1 DEF OpenRemoteStreams
  <2> HIDE DEF new, n
  <2>8. \A i \in new : ~Own(i) /\ i > highestStreamOpenedByPeer
    BY <2>2, <2>3
  <2> QED
    BY <2>4, <2>5, <2>6, <2>7, <2>8
<1> QED
  BY <1>1, <1>2

(***************************************************************************)
(* Streams of the peer that are new, with marks for unreliable streams of  *)
(* the peer only, keep the invariant.                                      *)
(***************************************************************************)
LEMMA GetOrOpenStreamIndInv ==
    ASSUME IndInv, NEW id \in IDs, NEW mark, GetOrOpenStream(id, mark), UNCHANGED server,
           mark \in [DOMAIN mark -> BOOLEAN],
           \A i \in DOMAIN mark : mark[i] /\ ~Own(i) => i \in UnreliableStreams,
           finished' \subseteq streams'
    PROVE  IndInv'
<1>1. PICK new \in SUBSET IDs :
          /\ streams' = streams \cup new
          /\ \A i \in new : ~Own(i) /\ i > highestStreamOpenedByPeer
          /\ highestStreamOpenedByPeer' \in Nat
          /\ highestStreamOpenedByPeer' >= highestStreamOpenedByPeer
          /\ \A i \in new : i <= highestStreamOpenedByPeer'
          /\ unreliableMarker' \subseteq
                 unreliableMarker \cup {i \in new \cap DOMAIN mark : mark[i]}
          /\ server => numOutgoingStreams' = numOutgoingStreams
          /\ pc' = pc \/ pc' = Broadcast(Acceptors)
  BY GetOrOpenStreamFact
<1>2. unreliableStreamMark' = mark /\ UNCHANGED <<nextStream, collected, closed>>
  BY DEF GetOrOpenStream
<1>3. \A i \in Nat : Own(i)' <=> Own(i)
  BY DEF Own
<1>4. pc' \in [Acceptors \cup Openers -> {"idle", "run", "wait"}]
  BY <1>1 DEF Broadcast, Wake, IndInv, TypeOK
<1>5. TypeOK'
  BY <1>1, <1>2, <1>4 DEF IndInv, TypeOK
<1>6. streams \cup collected \subseteq Nat /\ nextStream \in Nat /\ new \subseteq Nat
  BY StreamsMapAssumption DEF IndInv, TypeOK, IDs
<1>7. IdsUsedOnce'
  <2>1. Own(nextStream)'
    BY <1>2, <1>3, <1>6 DEF IndInv, IdsUsedOnce, Own
  <2>2. ASSUME NEW i \in (streams \cup collected)'
        PROVE  (Own(i) /\ i < nextStream) \/ (~Own(i) /\ i <= highestStreamOpenedByPeer')
    <3>1. CASE i \in new
      BY <1>1, <3>1
    <3>2. CASE i \in streams \cup collected
      BY <1>1, <1>6, <3>2 DEF IndInv, IdsUsedOnce, TypeOK
    <3> QED
      BY <1>1, <1>2, <2>2, <3>1, <3>2
  <2> QED
    BY <1>2, <2>1, <2>2 DEF IdsUsedOnce, Own
<1>8. StreamsKeepIdentity'
  <2>1. new \cap collected = {}
    BY <1>1, <1>6 DEF IndInv, IdsUsedOnce, TypeOK
  <2> QED
    BY <1>1, <1>2, <2>1 DEF IndInv, StreamsKeepIdentity
<1>9. EnoughAreWoken'
  <2>1. \A g \in Openers : pc'[g] = pc[g]
    BY <1>1, StreamsMapAssumption DEF Broadcast, Wake, Waiting, IndInv, TypeOK
  <2>2. Woken(Openers)' = Woken(Openers) /\ Waiting(Openers)' = Waiting(Openers)
    BY <2>1 DEF Woken, Waiting
  <2> QED
    BY <1>1, <1>2, <2>2 DEF IndInv, EnoughAreWoken
<1> QED
  BY <1>5, <1>7, <1>8, <1>9 DEF IndInv

LEMMA HandleStreamFrameIndInv ==
    ASSUME IndInv, NEW id \in IDs, HandleStreamFrame(id), UNCHANGED server PROVE IndInv'
<1> DEFINE mark == IF id \in UnreliableStreams /\ ~Own(id)
                   THEN [i \in DOMAIN unreliableStreamMark \cup {id} |->
                            i = id \/ unreliableStreamMark[i]]
                   ELSE unreliableStreamMark
<1>1. GetOrOpenStream(id, mark) /\ UNCHANGED finished
  BY DEF HandleStreamFrame
<1>2. /\ mark \in [DOMAIN mark -> BOOLEAN]
      /\ \A i \in DOMAIN mark : mark[i] /\ ~Own(i) => i \in UnreliableStreams
  <2>1. CASE id \in UnreliableStreams /\ ~Own(id)
    <3>1. mark = [i \in DOMAIN unreliableStreamMark \cup {id} |-> i = id \/ unreliableStreamMark[i]]
      BY <2>1
    <3> HIDE DEF mark
    <3> QED
      BY <2>1, <3>1 DEF IndInv, IdsUsedOnce, TypeOK
  <2>2. CASE ~(id \in UnreliableStreams /\ ~Own(id))
    BY <2>2 DEF IndInv, IdsUsedOnce, TypeOK
  <2> QED
    BY <2>1, <2>2
<1> HIDE DEF mark
<1>3. finished' \subseteq streams'
  BY <1>1, GetOrOpenStreamFact DEF IndInv, TypeOK
<1> QED
  BY <1>1, <1>2, <1>3, GetOrOpenStreamIndInv

LEMMA HandleRstStreamFrameIndInv ==
    ASSUME IndInv, NEW id \in IDs, HandleRstStreamFrame(id), UNCHANGED server PROVE IndInv'
<1>1. GetOrOpenStream(id, unreliableStreamMark)
  BY DEF HandleRstStreamFrame
<1>2. finished' \subseteq streams'
  BY <1>1, GetOrOpenStreamFact DEF HandleRstStreamFrame, IndInv, TypeOK
<1>3. /\ unreliableStreamMark \in [DOMAIN unreliableStreamMark -> BOOLEAN]
      /\ \A i \in DOMAIN unreliableStreamMark :
             unreliableStreamMark[i] /\ ~Own(i) => i \in UnreliableStreams
  BY DEF IndInv, TypeOK, IdsUsedOnce
<1> QED
  BY <1>1, <1>2, <1>3, GetOrOpenStreamIndInv

LEMMA FinishedIsFinite ==
    ASSUME IndInv
    PROVE  LET even == {id \in finished : id % 2 = 0}
           IN  /\ IsFiniteSet(finished) /\ Cardinality(finished) \in Nat
               /\ Cardinality(even) \in Nat /\ Cardinality(even) <= Cardinality(finished)
<1>1. MaxID \in Int /\ finished \in SUBSET (1 .. MaxID)
  BY StreamsMapAssumption DEF IndInv, TypeOK, IDs
<1>2. IsFiniteSet(1 .. MaxID)
  BY <1>1, FS_Interval
<1>3. IsFiniteSet(finished)
  BY <1>1, <1>2, FS_Subset, Zenon
<1> DEFINE even == {id \in finished : id % 2 = 0}
<1>4. even \in SUBSET finished
  OBVIOUS
<1> HIDE DEF even
<1>5. IsFiniteSet(even) /\ Cardinality(even) <= Cardinality(finished)
  BY <1>3, <1>4, FS_Subset
<1>6. Cardinality(finished) \in Nat /\ Cardinality(even) \in Nat
  BY <1>3, <1>5, FS_CardinalityType
<1> QED
  BY <1>3, <1>5, <1>6 DEF even

(***************************************************************************)
(* The streams that are removed signal as many goroutines as there is more *)
(* room for, or all that wait.                                             *)
(***************************************************************************)
LEMMA GarbageCollectStreamsWakes ==
    ASSUME IsFiniteSet(Openers), IndInv, GarbageCollectStreams, UNCHANGED server
    PROVE  EnoughAreWoken'
<1> SUFFICES ASSUME server, ~closed, Waiting(Openers)' # {}
             PROVE  Cardinality(Woken(Openers))' >= MaxOutgoing - numOutgoingStreams'
  BY DEF EnoughAreWoken, GarbageCollectStreams
<1> DEFINE W0 == Waiting(Openers)
<1> DEFINE even == {id \in finished : id % 2 = 0}
<1>1. /\ MaxOutgoing \in Nat /\ MaxID \in Nat /\ numOutgoingStreams \in Int
      /\ finished \subseteq 1 .. MaxID
  BY StreamsMapAssumption DEF IndInv, TypeOK, IDs
<1>2. /\ IsFiniteSet(finished) /\ Cardinality(finished) \in Nat
      /\ Cardinality(even) \in Nat /\ Cardinality(even) <= Cardinality(finished)
  BY FinishedIsFinite
<1>3. /\ IsFiniteSet(W0) /\ Cardinality(W0) \in Nat
      /\ IsFiniteSet(Woken(Openers)) /\ Cardinality(Woken(Openers)) \in Nat
  <2>1. W0 \in SUBSET Openers /\ Woken(Openers) \in SUBSET Openers
    BY DEF Waiting, Woken
  <2> QED
    BY <2>1, FS_Subset, FS_CardinalityType
<1>4. PICK X \in SUBSET W0 :
          /\ pc' = Wake(X)
          /\ Cardinality(X) = IF Cardinality(finished) < Cardinality(W0)
                              THEN Cardinality(finished) ELSE Cardinality(W0)
  BY DEF GarbageCollectStreams, Signals
<1>5. Woken(Openers)' = Woken(Openers) \cup X /\ Waiting(Openers)' = W0 \ X
  <2>1. \A g \in Openers : pc'[g] = IF g \in X THEN "run" ELSE pc[g]
    BY <1>4 DEF Wake, IndInv, TypeOK
  <2>2. X \subseteq Openers
    BY DEF Waiting
  <2> QED
    BY <2>1, <2>2 DEF Woken, Waiting
<1>6. Woken(Openers) \cap X = {}
  BY DEF Woken, Waiting
<1>7. Cardinality(X) = Cardinality(finished)
  <2>1. CASE Cardinality(X) = Cardinality(W0)
    <3>1. X = W0
      BY <1>3, <2>1, FS_Subset
    <3> QED
      BY <1>5, <3>1
  <2> QED
    BY <1>4, <2>1
<1>8. Cardinality(Woken(Openers))' = Cardinality(Woken(Openers)) + Cardinality(finished)
  <2>1. IsFiniteSet(X)
    BY <1>3, FS_Subset
  <2>2. Cardinality(Woken(Openers) \cup X) =
            Cardinality(Woken(Openers)) + Cardinality(X) - Cardinality({})
    BY <1>3, <1>6, <2>1, FS_Union
  <2>3. Cardinality({}) = 0
    BY FS_EmptySet
  <2> QED
    BY <1>2, <1>3, <1>5, <1>7, <2>2, <2>3
<1>9. Cardinality(Woken(Openers)) >= MaxOutgoing - numOutgoingStreams
  <2>1. W0 # {}
    BY <1>5
  <2> QED
    BY <2>1 DEF IndInv, EnoughAreWoken
<1>10. numOutgoingStreams' = numOutgoingStreams - Cardinality(even)
  BY DEF GarbageCollectStreams
<1> HIDE DEF even, W0
<1> QED
  BY <1>1, <1>2, <1>3, <1>8, <1>9, <1>10

LEMMA GarbageCollectStreamsIndInv ==
    ASSUME IsFiniteSet(Openers), IndInv, GarbageCollectStreams, UNCHANGED server PROVE IndInv'
<1>1. /\ streams' = streams \ finished /\ collected' = collected \cup finished /\ finished' = {}
      /\ unreliableMarker' \subseteq unreliableMarker
      /\ UNCHANGED <<unreliableStreamMark, nextStream, highestStreamOpenedByPeer, closed>>
  BY DEF GarbageCollectStreams, idVars
<1>2. pc' \in [Acceptors \cup Openers -> {"idle", "run", "wait"}]
  BY DEF GarbageCollectStreams, Signals, Wake, IndInv, TypeOK
<1>3. server => numOutgoingStreams' \in Int
  BY FinishedIsFinite DEF GarbageCollectStreams, IndInv, TypeOK
<1>4. TypeOK'
  BY <1>1, <1>2, <1>3 DEF IndInv, TypeOK
<1>5. IdsUsedOnce'
  BY <1>1 DEF IndInv, TypeOK, IdsUsedOnce, Own
<1>6. StreamsKeepIdentity'
  BY <1>1 DEF IndInv, StreamsKeepIdentity
<1> QED
  BY <1>4, <1>5, <1>6, GarbageCollectStreamsWakes DEF IndInv

(***************************************************************************)
(* A step that leaves the streams and their IDs alone keeps the invariant  *)
(* if enough goroutines are woken.                                         *)
(***************************************************************************)
LEMMA WaitingIndInv ==
    ASSUME IndInv,
           UNCHANGED <<server, streams, markVars, idVars, numOutgoingStreams, collected>>,
           finished' \subseteq streams, closed' \in BOOLEAN,
           pc' \in [Acceptors \cup Openers -> {"idle", "run", "wait"}], EnoughAreWoken'
    PROVE  IndInv'
BY DEF IndInv, TypeOK, IdsUsedOnce, StreamsKeepIdentity, Own, markVars, idVars

(***************************************************************************)
(* A new stream of this end has a new ID; whether enough goroutines are    *)
(* woken depends on who opens it.                                          *)
(***************************************************************************)
LEMMA OpenStreamImplIndInv ==
    ASSUME IndInv, NEW unreliable \in BOOLEAN, OpenStreamImpl(unreliable), UNCHANGED server,
           pc' \in [Acceptors \cup Openers -> {"idle", "run", "wait"}], EnoughAreWoken'
    PROVE  IndInv'
<1>1. /\ streams' = streams \cup {nextStream} /\ nextStream' = nextStream + 2 /\ nextStream <= MaxID
      /\ unreliableStreamMark' =
             [id \in DOMAIN unreliableStreamMark \cup {nextStream} |->
                 IF id = nextStream THEN unreliable ELSE unreliableStreamMark[id]]
      /\ server => numOutgoingStreams' = numOutgoingStreams + 1
      /\ UNCHANGED <<unreliableMarker, highestStreamOpenedByPeer, finished, collected, closed>>
  BY DEF OpenStreamImpl
<1>2. /\ nextStream \in Nat \ {0} /\ nextStream \in IDs /\ Own(nextStream)
      /\ streams \cup collected \subseteq Nat /\ highestStreamOpenedByPeer \in Nat
  BY <1>1, StreamsMapAssumption DEF IndInv, TypeOK, IdsUsedOnce, IDs
<1>3. TypeOK'
  BY <1>1, <1>2 DEF IndInv, TypeOK
<1>4. IdsUsedOnce'
  <2>1. Own(nextStream)'
    BY <1>1, <1>2 DEF Own
  <2>2. ASSUME NEW i \in (streams \cup collected)'
        PROVE  (Own(i) /\ i < nextStream') \/ (~Own(i) /\ i <= highestStreamOpenedByPeer)
    BY <1>1, <1>2, <2>2 DEF IndInv, IdsUsedOnce
  <2>3. ASSUME NEW i \in DOMAIN unreliableStreamMark', unreliableStreamMark'[i], ~Own(i)
        PROVE  i \in UnreliableStreams
    BY <1>1, <1>2, <2>3 DEF IndInv, IdsUsedOnce
  <2> QED
    BY <1>1, <2>1, <2>2, <2>3, Zenon DEF IdsUsedOnce, Own
<1>5. StreamsKeepIdentity'
  <2>1. nextStream \notin collected
    BY <1>2 DEF IndInv, IdsUsedOnce
  <2> QED
    BY <1>1, <2>1 DEF IndInv, StreamsKeepIdentity
<1> QED
  BY <1>3, <1>4, <1>5 DEF IndInv

LEMMA OpenStreamIndInv ==
    ASSUME IsFiniteSet(Openers), IndInv, OpenStream \/ OpenUnreliableStream, UNCHANGED server
    PROVE  IndInv'
<1>1. PICK unreliable \in BOOLEAN : OpenStreamImpl(unreliable) /\ UNCHANGED pc
  BY Zenon DEF OpenStream, OpenUnreliableStream
<1>2. MaxOutgoing \in Nat /\ Cardinality(Woken(Openers)) \in Nat
  <2>1. Woken(Openers) \in SUBSET Openers
    BY DEF Woken
  <2> QED
    BY <2>1, FS_Subset, FS_CardinalityType, StreamsMapAssumption
<1>3. EnoughAreWoken'
  <2>1. Woken(Openers)' = Woken(Openers) /\ Waiting(Openers)' = Waiting(Openers)
    BY <1>1 DEF Woken, Waiting
  <2>2. closed' = closed /\ (server => numOutgoingStreams' = numOutgoingStreams + 1)
    BY <1>1 DEF OpenStreamImpl
  <2> QED
    BY <1>2, <2>1, <2>2 DEF IndInv, TypeOK, EnoughAreWoken
<1>4. pc' \in [Acceptors \cup Openers -> {"idle", "run", "wait"}]
  BY <1>1 DEF IndInv, TypeOK
<1> QED
  BY <1>1, <1>3, <1>4, OpenStreamImplIndInv

LEMMA OpenStreamSyncIndInv ==
    ASSUME IsFiniteSet(Openers), IndInv, NEW g \in Openers, OpenStreamSync(g), UNCHANGED server
    PROVE  IndInv'
<1>1. /\ MaxOutgoing \in Nat /\ IsFiniteSet(Woken(Openers)) /\ Cardinality(Woken(Openers)) \in Nat
      /\ Cardinality(Woken(Openers) \ {g}) \in Nat
      /\ Cardinality(Woken(Openers) \ {g}) >= Cardinality(Woken(Openers)) - 1
  <2>1. Woken(Openers) \in SUBSET Openers
    BY DEF Woken
  <2>2. IsFiniteSet(Woken(Openers)) /\ Cardinality(Woken(Openers)) \in Nat
    BY <2>1, FS_Subset, FS_CardinalityType
  <2>3. /\ IsFiniteSet(Woken(Openers) \ {g})
        /\ Cardinality(Woken(Openers) \ {g}) \in
               {Cardinality(Woken(Openers)) - 1, Cardinality(Woken(Openers))}
    BY <2>2, FS_RemoveElement
  <2>4. Cardinality(Woken(Openers) \ {g}) \in Nat
    BY <2>3, FS_CardinalityType
  <2> QED
    BY <2>2, <2>3, <2>4, StreamsMapAssumption
<1>2. pc \in [Acceptors \cup Openers -> {"idle", "run", "wait"}]
  BY DEF IndInv, TypeOK
<1>3. ASSUME NEW s \in {"idle", "wait"}, pc' = [pc EXCEPT ![g] = s]
      PROVE  /\ pc' \in [Acceptors \cup Openers -> {"idle", "run", "wait"}]
             /\ Woken(Openers)' = Woken(Openers) \ {g}
             /\ s = "idle" => Waiting(Openers)' \subseteq Waiting(Openers)
  BY <1>2, <1>3 DEF Woken, Waiting
<1>4. CASE closed /\ pc[g] = "run" /\ pc' = [pc EXCEPT ![g] = "idle"]
           /\ UNCHANGED <<streams, markVars, idVars, countVars, finished, collected, closed>>
  <2>1. EnoughAreWoken'
    BY <1>4 DEF EnoughAreWoken
  <2> QED
    BY <1>3, <1>4, <2>1, WaitingIndInv DEF countVars, IndInv, TypeOK
<1>5. CASE OpenStreamImpl(FALSE) /\ pc' = [pc EXCEPT ![g] = "idle"]
  <2>1. closed' = closed /\ (server => numOutgoingStreams' = numOutgoingStreams + 1)
    BY <1>5 DEF OpenStreamImpl
  <2>2. /\ Cardinality(Woken(Openers))' = Cardinality(Woken(Openers) \ {g})
        /\ Waiting(Openers)' \subseteq Waiting(Openers)
    BY <1>3, <1>5
  <2>3. EnoughAreWoken'
    <3> SUFFICES ASSUME server, ~closed, Waiting(Openers) # {}
                 PROVE  Cardinality(Woken(Openers) \ {g}) >= MaxOutgoing - (numOutgoingStreams + 1)
      BY <2>1, <2>2 DEF EnoughAreWoken
    <3>1. numOutgoingStreams \in Int
      BY DEF IndInv, TypeOK
    <3>2. Cardinality(Woken(Openers)) >= MaxOutgoing - numOutgoingStreams
      BY DEF IndInv, EnoughAreWoken
    <3> QED
      BY <1>1, <3>1, <3>2
  <2> QED
    BY <1>3, <1>5, <2>3, OpenStreamImplIndInv, Zenon
<1>6. CASE ~CanOpen /\ pc' = [pc EXCEPT ![g] = "wait"]
           /\ UNCHANGED <<streams, markVars, idVars, countVars, finished, collected, closed>>
  <2>1. server => numOutgoingStreams' = numOutgoingStreams /\ numOutgoingStreams \in Int
    BY <1>6 DEF countVars, IndInv, TypeOK
  <2>2. Cardinality(Woken(Openers))' = Cardinality(Woken(Openers) \ {g})
    BY <1>3, <1>6
  <2>3. server => Cardinality(Woken(Openers) \ {g}) >= MaxOutgoing - numOutgoingStreams
    BY <1>1, <1>6, <2>1 DEF CanOpen
  <2>4. EnoughAreWoken'
    BY <2>1, <2>2, <2>3 DEF EnoughAreWoken
  <2> QED
    BY <1>3, <1>6, <2>4, WaitingIndInv DEF countVars, IndInv, TypeOK
<1> QED
  BY <1>4, <1>5, <1>6, Zenon DEF OpenStreamSync

LEMMA AcceptStreamIndInv ==
    ASSUME IndInv, NEW g \in Acceptors, AcceptStream(g), UNCHANGED server PROVE IndInv'
<1>1. pc \in [Acceptors \cup Openers -> {"idle", "run", "wait"}]
  BY DEF IndInv, TypeOK
<1>2. PICK s \in {"idle", "wait"} : pc' = [pc EXCEPT ![g] = s]
  BY DEF AcceptStream
<1>3. UNCHANGED <<streams, markVars, idVars, countVars, finished, collected, closed>>
  BY DEF AcceptStream
<1>4. pc' \in [Acceptors \cup Openers -> {"idle", "run", "wait"}]
  BY <1>1, <1>2
<1>5. Woken(Openers)' = Woken(Openers) /\ Waiting(Openers)' = Waiting(Openers)
  BY <1>1, <1>2, StreamsMapAssumption DEF Woken, Waiting
<1>6. EnoughAreWoken'
  BY <1>3, <1>5 DEF countVars, IndInv, EnoughAreWoken
<1> QED
  BY <1>3, <1>4, <1>6, WaitingIndInv DEF countVars, IndInv, TypeOK

(***************************************************************************)
(* Every step keeps the invariant.                                         *)
(***************************************************************************)
LEMMA NextIndInv ==
    ASSUME IsFiniteSet(Openers), IndInv, [Next]_vars PROVE IndInv'
<1>1. CASE UNCHANGED vars
  <2>1. EnoughAreWoken'
    BY <1>1 DEF vars, countVars, IndInv, EnoughAreWoken, Waiting, Woken
  <2> QED
    BY <1>1, <2>1, WaitingIndInv DEF vars, countVars, IndInv, TypeOK
<1> SUFFICES ASSUME Next PROVE IndInv'
  BY <1>1
<1>2. UNCHANGED server
  BY DEF Next
<1>3. CASE \E id \in IDs : HandleStreamFrame(id)
  BY <1>2, <1>3, HandleStreamFrameIndInv
<1>4. CASE \E id \in IDs : HandleRstStreamFrame(id)
  BY <1>2, <1>4, HandleRstStreamFrameIndInv
<1>5. CASE \E id \in IDs : Finish(id)
  <2>1. /\ finished' \subseteq streams /\ closed' \in BOOLEAN
        /\ UNCHANGED <<streams, markVars, idVars, countVars, collected, closed, pc>>
    BY <1>5 DEF Finish, IndInv, TypeOK
  <2>2. EnoughAreWoken'
    BY <1>2, <2>1 DEF countVars, IndInv, EnoughAreWoken, Waiting, Woken
  <2> QED
    BY <1>2, <2>1, <2>2, WaitingIndInv DEF countVars, IndInv, TypeOK
<1>6. CASE GarbageCollectStreams
  BY <1>2, <1>6, GarbageCollectStreamsIndInv
<1>7. CASE CloseWithError
  <2>1. /\ finished' \subseteq streams /\ closed' = TRUE
        /\ UNCHANGED <<streams, markVars, idVars, countVars, collected>>
    BY <1>7 DEF CloseWithError
  <2>2. pc' \in [Acceptors \cup Openers -> {"idle", "run", "wait"}]
    BY <1>7 DEF CloseWithError, Broadcast, Wake, IndInv, TypeOK
  <2>3. EnoughAreWoken'
    BY <2>1 DEF EnoughAreWoken
  <2> QED
    BY <1>2, <2>1, <2>2, <2>3, WaitingIndInv DEF countVars
<1>8. CASE OpenStream \/ OpenUnreliableStream
  BY <1>2, <1>8, OpenStreamIndInv
<1>9. CASE \E g \in Openers : OpenStreamSync(g)
  BY <1>2, <1>9, OpenStreamSyncIndInv
<1>10. CASE \E g \in Acceptors : AcceptStream(g)
  BY <1>2, <1>10, AcceptStreamIndInv
<1> QED
  BY <1>3, <1>4, <1>5, <1>6, <1>7, <1>8, <1>9, <1>10, SMTT(30) DEF Next

(***************************************************************************)
(* A stream ID stands for one stream of one kind (GetOrOpenStream,         *)
(* openStreamImpl, RemoveStream), whatever frames arrive, in any order and *)
(* however late, and whatever the application opens meanwhile.             *)
(***************************************************************************)
THEOREM IdentityTheorem ==
    ASSUME IsFiniteSet(Openers) PROVE Spec => []StreamsKeepIdentity
<1>1. IndInv /\ [Next]_vars => IndInv'
  BY NextIndInv
<1>2. IndInv => StreamsKeepIdentity
  BY DEF IndInv
<1> QED
  BY <1>1, <1>2, InitIndInv, PTL DEF Spec

(***************************************************************************)
(* No wake-up is lost at a server, for every limit and any number of       *)
(* goroutines in OpenStreamSync: the one Signal of RemoveStream is enough, *)
(* though it may go to waste on a goroutine that finds no room, or that    *)
(* OpenStream overtakes.                                                   *)
(***************************************************************************)
THEOREM RoomIsSignalledTheorem ==
    ASSUME IsFiniteSet(Openers) PROVE Spec => []RoomIsSignalled
<1>1. IndInv /\ [Next]_vars => IndInv'
  BY NextIndInv
<1>2. IndInv => RoomIsSignalled
  <2> SUFFICES ASSUME IndInv, server, CanOpen, ~closed, Waiting(Openers) # {}
               PROVE  \E g \in Openers : pc[g] = "run"
    BY DEF RoomIsSignalled
  <2>1. MaxOutgoing \in Nat /\ numOutgoingStreams \in Int
    BY StreamsMapAssumption DEF IndInv, TypeOK
  <2>2. Cardinality(Woken(Openers)) >= MaxOutgoing - numOutgoingStreams
    BY DEF IndInv, EnoughAreWoken
  <2>3. Woken(Openers) # {}
    <3> SUFFICES ASSUME Woken(Openers) = {} PROVE FALSE
      OBVIOUS
    <3>1. Cardinality(Woken(Openers)) = 0
      BY FS_EmptySet
    <3> QED
      BY <2>1, <2>2, <3>1 DEF CanOpen
  <2> QED
    BY <2>3 DEF Woken
<1> QED
  BY <1>1, <1>2, InitIndInv, PTL DEF Spec
-----------------------------------------------------------------------------
(* The limits *)

(***************************************************************************)
(* The place of i among the numbers of S, and the first n numbers of S,    *)
(* which are those that OpenRemoteStreams opens of NewStreams(id).         *)
(***************************************************************************)
Rank(S, i) == Cardinality({j \in S : j <= i})
First(S, n) == {i \in S : Rank(S, i) <= n}

(***************************************************************************)
(* There are n numbers among the first n.  A least set of which this is    *)
(* not true has a greatest number, without which it is not true either.    *)
(***************************************************************************)
LEMMA FirstCount ==
    ASSUME NEW m \in Nat, NEW S \in SUBSET (0 .. m), NEW n \in Nat, n <= Cardinality(S)
    PROVE  Cardinality(First(S, n)) = n
<1> DEFINE Wrong(X) == \E k \in Nat : k <= Cardinality(X) /\ Cardinality(First(X, k)) # k
<1> DEFINE T == {X \in SUBSET (0 .. m) : Wrong(X)}
<1> DEFINE Sub == StrictSubsetOrdering(0 .. m)
<1> SUFFICES ASSUME T # {} PROVE FALSE
  BY Zenon
<1>1. \A X \in SUBSET (0 .. m) : IsFiniteSet(X) /\ Cardinality(X) \in Nat
  <2>1. IsFiniteSet(0 .. m)
    BY FS_Interval
  <2> QED
    BY <2>1, FS_Subset, FS_CardinalityType, Zenon
<1>2. T \subseteq FiniteSubsetsOf(0 .. m)
  BY <1>1 DEF FiniteSubsetsOf
<1>3. PICK X \in T : \A Y \in T : ~(<<Y, X>> \in Sub)
  <2>1. IsWellFoundedOn(Sub, FiniteSubsetsOf(0 .. m))
    BY FS_StrictSubsetOrderingWellFounded
  <2> HIDE DEF T, Sub
  <2> QED
    BY <1>2, <2>1, WFMin
<1>4. PICK k \in Nat : k <= Cardinality(X) /\ Cardinality(First(X, k)) # k
  OBVIOUS
<1>5. X \in SUBSET (0 .. m) /\ IsFiniteSet(X) /\ Cardinality(X) \in Nat
  BY <1>1
<1>6. \A i \in X : {j \in X : j <= i} \in SUBSET X
  OBVIOUS
<1>7. \A i \in X : Rank(X, i) \in Nat /\ Rank(X, i) <= Cardinality(X)
  BY <1>5, <1>6, FS_Subset, FS_CardinalityType DEF Rank
<1>8. k # Cardinality(X)
  <2> SUFFICES ASSUME k = Cardinality(X) PROVE FALSE
    OBVIOUS
  <2>1. First(X, k) = X
    BY <1>7, Zenon DEF First
  <2> QED
    BY <1>4, <2>1
<1>9. X # {}
  BY <1>4, <1>5, <1>8, FS_EmptySet
<1>10. PICK g \in X : \A j \in X : j <= g
  BY <1>5, <1>9, GreatestExists, Zenon
<1> DEFINE Y == X \ {g}
<1>11. Y \in SUBSET (0 .. m) /\ IsFiniteSet(Y) /\ Cardinality(Y) = Cardinality(X) - 1
  <2>1. Cardinality(Y) = Cardinality(X) - 1
    BY <1>5, <1>10, FS_RemoveElement, Zenon
  <2>2. Y \in SUBSET (0 .. m)
    BY <1>5
  <2> QED
    BY <1>1, <2>1, <2>2, Zenon
<1>12. Y \notin T
  <2>1. <<Y, X>> \in Sub
    BY <1>5, <1>10, Zenon DEF StrictSubsetOrdering
  <2> QED
    BY <1>3, <2>1, Zenon
<1>13. First(X, k) = First(Y, k)
  <2>1. \A i \in Y : {j \in X : j <= i} = {j \in Y : j <= i}
    BY <1>5, <1>10
  <2>2. \A i \in Y : Rank(X, i) = Rank(Y, i)
    BY <2>1 DEF Rank
  <2>3. {j \in X : j <= g} = X
    BY <1>10, Zenon
  <2>4. ~(Rank(X, g) <= k)
    BY <1>4, <1>5, <1>8, <2>3 DEF Rank
  <2> QED
    BY <1>10, <2>2, <2>4, Zenon DEF First
<1>14. ~(k <= Cardinality(Y))
  BY <1>4, <1>11, <1>12, <1>13, Zenon
<1> QED
  BY <1>4, <1>5, <1>8, <1>11, <1>14

Even(S) == {id \in S : id % 2 = 0}
Odd(S) == {id \in S : id % 2 = 1}

LEMMA DisjointCount ==
    ASSUME NEW S, NEW N, IsFiniteSet(S), IsFiniteSet(N), S \cap N = {}
    PROVE  /\ Cardinality(S \cup N) = Cardinality(S) + Cardinality(N)
           /\ Cardinality(S) \in Nat /\ Cardinality(N) \in Nat
<1>1. Cardinality(S \cup N) = Cardinality(S) + Cardinality(N) - Cardinality(S \cap N)
  BY FS_Union, Zenon
<1>2. Cardinality(S) \in Nat /\ Cardinality(N) \in Nat
  BY FS_CardinalityType, Zenon
<1>3. Cardinality(S \cap N) = 0
  BY FS_EmptySet
<1> QED
  BY <1>1, <1>2, <1>3

(***************************************************************************)
(* New streams add to the counts of their parity, and streams that are     *)
(* removed subtract from them.                                             *)
(***************************************************************************)
LEMMA ParityCounts ==
    ASSUME NEW S, NEW N, IsFiniteSet(S), IsFiniteSet(N), S \cap N = {}
    PROVE  /\ Cardinality(Even(S \cup N)) = Cardinality(Even(S)) + Cardinality(Even(N))
           /\ Cardinality(Odd(S \cup N)) = Cardinality(Odd(S)) + Cardinality(Odd(N))
           /\ Cardinality(Even(S)) \in Nat /\ Cardinality(Odd(S)) \in Nat
           /\ Cardinality(Even(N)) \in Nat /\ Cardinality(Odd(N)) \in Nat
<1>1. Even(S) \in SUBSET S /\ Odd(S) \in SUBSET S /\ Even(N) \in SUBSET N /\ Odd(N) \in SUBSET N
  BY DEF Even, Odd
<1>2. /\ IsFiniteSet(Even(S)) /\ IsFiniteSet(Odd(S)) /\ IsFiniteSet(Even(N)) /\ IsFiniteSet(Odd(N))
  BY <1>1, FS_Subset, Zenon
<1>3. /\ Even(S \cup N) = Even(S) \cup Even(N) /\ Odd(S \cup N) = Odd(S) \cup Odd(N)
      /\ Even(S) \cap Even(N) = {} /\ Odd(S) \cap Odd(N) = {}
  BY DEF Even, Odd
<1> QED
  BY <1>2, <1>3, DisjointCount, Zenon


(***************************************************************************)
(* The invariant: the counters count the open streams by parity, and those *)
(* of a server are within the limits.                                      *)
(***************************************************************************)
CountsAreExact ==
    /\ numOutgoingStreams = Cardinality(Even(streams))
    /\ numIncomingStreams = Cardinality(Odd(streams))
    /\ server => /\ numOutgoingStreams <= MaxOutgoing
                 /\ numIncomingStreams <= MaxIncoming
                 /\ err = "TooManyOpenStreams" => numIncomingStreams = MaxIncoming

LEMMA StreamsAreFinite ==
    ASSUME IndInv
    PROVE  IsFiniteSet(streams) /\ IsFiniteSet(finished) /\ streams \subseteq Nat /\ finished \subseteq streams
<1>1. MaxID \in Nat /\ streams \in SUBSET (1 .. MaxID) /\ finished \in SUBSET streams
  BY StreamsMapAssumption DEF IndInv, TypeOK, IDs
<1>2. IsFiniteSet(1 .. MaxID)
  BY <1>1, FS_Interval
<1>3. IsFiniteSet(streams) /\ IsFiniteSet(finished)
  BY <1>1, <1>2, FS_Subset, Zenon
<1> QED
  BY <1>1, <1>3

(***************************************************************************)
(* OpenRemoteStreams opens as many streams as it counts, and refuses one   *)
(* at a server only when the limit is reached.                             *)
(***************************************************************************)
LEMMA OpenRemoteStreamsCounts ==
    ASSUME IndInv, CountsAreExact, NEW id \in IDs, NEW mark, OpenRemoteStreams(id, mark)
    PROVE  \E new \in SUBSET IDs :
               /\ streams' = streams \cup new /\ new \cap streams = {} /\ IsFiniteSet(new)
               /\ \A i \in new : ~Own(i)
               /\ server => /\ numIncomingStreams' = numIncomingStreams + Cardinality(new)
                            /\ numOutgoingStreams' = numOutgoingStreams
                            /\ numIncomingStreams' <= MaxIncoming
                            /\ err' = "nil" \/ numIncomingStreams' = MaxIncoming
               /\ ~server => /\ numOutgoingStreams' = numOutgoingStreams + Cardinality(new)
                             /\ numIncomingStreams' = numIncomingStreams
<1> DEFINE h == highestStreamOpenedByPeer
<1> DEFINE All == NewStreams(id)
<1> DEFINE n == Admitted(Cardinality(All))
<1> DEFINE new == {i \in All : Cardinality(NewStreams(i)) <= n}
<1>1. MaxID \in Nat /\ MaxIncoming \in Nat /\ h \in Nat /\ id \in 1 .. MaxID /\ server \in BOOLEAN
  BY StreamsMapAssumption DEF IndInv, TypeOK, IDs
<1>2. All \in SUBSET (0 .. MaxID) /\ All \in SUBSET IDs /\ \A i \in All : ~Own(i) /\ i > h
  BY <1>1 DEF NewStreams, IDs
<1>3. IsFiniteSet(All) /\ Cardinality(All) \in Nat
  <2>1. IsFiniteSet(0 .. MaxID)
    BY <1>1, FS_Interval
  <2> QED
    BY <1>2, <2>1, FS_Subset, FS_CardinalityType, Zenon
<1>4. numIncomingStreams \in Nat
  <2>1. Odd(streams) \in SUBSET streams
    BY DEF Odd
  <2>2. Cardinality(Odd(streams)) \in Nat
    BY <2>1, StreamsAreFinite, FS_Subset, FS_CardinalityType, Zenon
  <2> QED
    BY <2>2 DEF CountsAreExact
<1>5. server => numIncomingStreams <= MaxIncoming
  BY DEF CountsAreExact
<1>6. n \in Nat /\ n <= Cardinality(All)
  BY <1>1, <1>3, <1>4 DEF Admitted
<1>7. new = First(All, n)
  <2>1. \A i \in All : NewStreams(i) = {j \in All : j <= i}
    BY <1>1 DEF NewStreams
  <2> HIDE DEF n, All
  <2> QED
    BY <2>1, Zenon DEF First, Rank
<1>8. Cardinality(new) = n
  <2> HIDE DEF n, All, new
  <2> QED
    BY <1>1, <1>2, <1>6, <1>7, FirstCount, Zenon
<1>9. new \in SUBSET All /\ IsFiniteSet(new)
  <2>1. new \in SUBSET All
    OBVIOUS
  <2> HIDE DEF new, All
  <2> QED
    BY <1>3, <2>1, FS_Subset, Zenon
<1>10. new \cap streams = {}
  BY <1>1, <1>2, <1>9 DEF IndInv, IdsUsedOnce, TypeOK
<1>11. /\ streams' = streams \cup new
       /\ numIncomingStreams' = IF server THEN numIncomingStreams + n ELSE numIncomingStreams
       /\ numOutgoingStreams' = IF server THEN numOutgoingStreams ELSE numOutgoingStreams + n
       /\ err' = IF new = All THEN "nil" ELSE "TooManyOpenStreams"
  BY DEF OpenRemoteStreams
<1>12. server => numIncomingStreams + n <= MaxIncoming
  BY <1>1, <1>3, <1>4, <1>5 DEF Admitted
<1>13. server /\ err' # "nil" => numIncomingStreams + n = MaxIncoming
  <2> SUFFICES ASSUME server, new # All PROVE numIncomingStreams + n = MaxIncoming
    BY <1>11
  <2>1. n # Cardinality(All)
    BY <1>3, <1>8, <1>9, FS_Subset
  <2> QED
    BY <1>1, <1>3, <1>4, <1>5, <2>1 DEF Admitted
<1> HIDE DEF n, All, new
<1> SUFFICES /\ new \in SUBSET IDs /\ \A i \in new : ~Own(i)
             /\ server => numIncomingStreams' <= MaxIncoming
             /\ server => err' = "nil" \/ numIncomingStreams' = MaxIncoming
  BY <1>8, <1>9, <1>10, <1>11, Zenon
<1> QED
  BY <1>2, <1>9, <1>11, <1>12, <1>13


LEMMA EvenOrOdd == \A i \in Nat : i % 2 \in {0, 1}
OBVIOUS

LEMMA GetOrOpenStreamCounts ==
    ASSUME IndInv, CountsAreExact, NEW id \in IDs, NEW mark, GetOrOpenStream(id, mark),
           UNCHANGED server
    PROVE  CountsAreExact'
<1>1. CASE Lookup(id) # "new"
  <2>1. UNCHANGED <<streams, countVars>> /\ err' # "TooManyOpenStreams"
    BY <1>1 DEF GetOrOpenStream
  <2> QED
    BY <2>1 DEF CountsAreExact, countVars
<1>2. CASE Lookup(id) = "new"
  <2>1. OpenRemoteStreams(id, mark)
    BY <1>2 DEF GetOrOpenStream
  <2>2. PICK new \in SUBSET IDs :
            /\ streams' = streams \cup new /\ new \cap streams = {} /\ IsFiniteSet(new)
            /\ \A i \in new : ~Own(i)
            /\ server => /\ numIncomingStreams' = numIncomingStreams + Cardinality(new)
                         /\ numOutgoingStreams' = numOutgoingStreams
                         /\ numIncomingStreams' <= MaxIncoming
                         /\ err' = "nil" \/ numIncomingStreams' = MaxIncoming
            /\ ~server => /\ numOutgoingStreams' = numOutgoingStreams + Cardinality(new)
                          /\ numIncomingStreams' = numIncomingStreams
    BY <2>1, OpenRemoteStreamsCounts
  <2>3. IsFiniteSet(streams) /\ new \subseteq Nat
    BY StreamsAreFinite, StreamsMapAssumption DEF IDs
  <2>4. /\ Cardinality(Even(streams \cup new)) = Cardinality(Even(streams)) + Cardinality(Even(new))
        /\ Cardinality(Odd(streams \cup new)) = Cardinality(Odd(streams)) + Cardinality(Odd(new))
        /\ Cardinality(Even(streams)) \in Nat /\ Cardinality(Odd(streams)) \in Nat
    BY <2>2, <2>3, ParityCounts, Zenon
  <2>5. Cardinality({}) = 0
    BY FS_EmptySet
  <2>6. Cardinality(new) \in Nat
    BY <2>2, FS_CardinalityType, Zenon
  <2>7. CASE server
    <3>1. Odd(new) = new /\ Even(new) = {}
      BY <2>2, <2>3, <2>7, EvenOrOdd, Zenon DEF Own, Even, Odd
    <3> QED
      BY <2>2, <2>4, <2>5, <2>6, <2>7, <3>1 DEF CountsAreExact
  <2>8. CASE ~server
    <3>1. Even(new) = new /\ Odd(new) = {}
      BY <2>2, <2>3, <2>8, EvenOrOdd, Zenon DEF Own, Even, Odd
    <3> QED
      BY <2>2, <2>4, <2>5, <2>6, <2>8, <3>1 DEF CountsAreExact
  <2> QED
    BY <2>7, <2>8
<1> QED
  BY <1>1, <1>2

LEMMA GarbageCollectStreamsCounts ==
    ASSUME IndInv, CountsAreExact, GarbageCollectStreams, UNCHANGED server PROVE CountsAreExact'
<1>1. IsFiniteSet(streams) /\ IsFiniteSet(finished) /\ finished \subseteq streams
  BY StreamsAreFinite
<1>2. IsFiniteSet(streams \ finished)
  BY <1>1, FS_Difference, Zenon
<1>3. (streams \ finished) \cup finished = streams /\ (streams \ finished) \cap finished = {}
  BY <1>1
<1>4. /\ Cardinality(Even(streams)) = Cardinality(Even(streams \ finished)) + Cardinality(Even(finished))
      /\ Cardinality(Odd(streams)) = Cardinality(Odd(streams \ finished)) + Cardinality(Odd(finished))
      /\ Cardinality(Even(streams \ finished)) \in Nat /\ Cardinality(Odd(streams \ finished)) \in Nat
      /\ Cardinality(Even(finished)) \in Nat /\ Cardinality(Odd(finished)) \in Nat
  <2> HIDE DEF Even, Odd
  <2> QED
    BY <1>1, <1>2, <1>3, ParityCounts, Zenon
<1>5. /\ streams' = streams \ finished /\ err' = err /\ err = "nil"
      /\ numOutgoingStreams' = numOutgoingStreams - Cardinality(Even(finished))
      /\ numIncomingStreams' = numIncomingStreams - Cardinality(Odd(finished))
  BY DEF GarbageCollectStreams, Even, Odd, Running
<1>6. MaxOutgoing \in Nat /\ MaxIncoming \in Nat
  BY StreamsMapAssumption
<1> QED
  BY <1>4, <1>5, <1>6 DEF CountsAreExact

LEMMA OpenStreamImplCounts ==
    ASSUME IndInv, CountsAreExact, NEW unreliable, OpenStreamImpl(unreliable), UNCHANGED server
    PROVE  CountsAreExact'
<1>1. nextStream \in Nat /\ Own(nextStream) /\ nextStream \notin streams
  BY StreamsMapAssumption DEF IndInv, TypeOK, IdsUsedOnce, IDs
<1>2. IsFiniteSet(streams) /\ IsFiniteSet({nextStream}) /\ Cardinality({nextStream}) = 1
  BY StreamsAreFinite, FS_Singleton, Zenon
<1>3. /\ Cardinality(Even(streams \cup {nextStream})) =
             Cardinality(Even(streams)) + Cardinality(Even({nextStream}))
      /\ Cardinality(Odd(streams \cup {nextStream})) =
             Cardinality(Odd(streams)) + Cardinality(Odd({nextStream}))
      /\ Cardinality(Even(streams)) \in Nat /\ Cardinality(Odd(streams)) \in Nat
  <2>1. streams \cap {nextStream} = {}
    BY <1>1
  <2> QED
    BY <1>2, <2>1, ParityCounts, Zenon
<1>4. Cardinality({}) = 0
  BY FS_EmptySet
<1>5. MaxOutgoing \in Nat
  BY StreamsMapAssumption
<1>6. /\ streams' = streams \cup {nextStream} /\ err' = err /\ numOutgoingStreams < MaxOutgoing
      /\ numOutgoingStreams' = IF server THEN numOutgoingStreams + 1 ELSE numOutgoingStreams
      /\ numIncomingStreams' = IF server THEN numIncomingStreams ELSE numIncomingStreams + 1
  BY DEF OpenStreamImpl, CanOpen
<1>7. CASE server
  <2>1. Even({nextStream}) = {nextStream} /\ Odd({nextStream}) = {}
    BY <1>1, <1>7, EvenOrOdd DEF Own, Even, Odd
  <2> QED
    BY <1>2, <1>3, <1>4, <1>5, <1>6, <1>7, <2>1 DEF CountsAreExact
<1>8. CASE ~server
  <2>1. Odd({nextStream}) = {nextStream} /\ Even({nextStream}) = {}
    BY <1>1, <1>8, EvenOrOdd DEF Own, Even, Odd
  <2> QED
    BY <1>2, <1>3, <1>4, <1>6, <1>8, <2>1, SMTT(30) DEF CountsAreExact
<1> QED
  BY <1>7, <1>8

LEMMA NextCounts ==
    ASSUME IndInv, CountsAreExact, [Next]_vars PROVE CountsAreExact'
<1>1. CASE UNCHANGED <<server, streams, countVars, err>>
  BY <1>1 DEF CountsAreExact, countVars
<1>2. CASE UNCHANGED vars
  BY <1>1, <1>2 DEF vars
<1> SUFFICES ASSUME Next PROVE CountsAreExact'
  BY <1>2
<1>3. UNCHANGED server
  BY DEF Next
<1>4. CASE \E id \in IDs : HandleStreamFrame(id) \/ HandleRstStreamFrame(id)
  <2>1. \E id \in IDs, mark \in {unreliableStreamMark, unreliableStreamMark'} : GetOrOpenStream(id, mark)
    <3>1. ASSUME NEW id \in IDs, HandleStreamFrame(id) PROVE GetOrOpenStream(id, unreliableStreamMark')
      BY <3>1, Zenon DEF HandleStreamFrame, GetOrOpenStream
    <3> QED
      BY <1>4, <3>1 DEF HandleRstStreamFrame
  <2> QED
    BY <1>3, <2>1, GetOrOpenStreamCounts
<1>5. CASE \E id \in IDs : Finish(id)
  BY <1>1, <1>3, <1>5 DEF Finish
<1>6. CASE GarbageCollectStreams
  BY <1>3, <1>6, GarbageCollectStreamsCounts
<1>7. CASE CloseWithError
  BY <1>1, <1>3, <1>7 DEF CloseWithError
<1>8. CASE OpenStream \/ OpenUnreliableStream
  BY <1>3, <1>8, OpenStreamImplCounts, Zenon DEF OpenStream, OpenUnreliableStream
<1>9. CASE \E g \in Openers : OpenStreamSync(g)
  BY <1>1, <1>3, <1>9, OpenStreamImplCounts, Zenon DEF OpenStreamSync
<1>10. CASE \E g \in Acceptors : AcceptStream(g)
  BY <1>1, <1>3, <1>10 DEF AcceptStream
<1> QED
  BY <1>4, <1>5, <1>6, <1>7, <1>8, <1>9, <1>10, Zenon DEF Next

(***************************************************************************)
(* The limits are exact at a server, for every limit and number of         *)
(* streams, and the counters of both ends are never off, whatever is       *)
(* opened implicitly, refused half way, removed or closed                  *)
(* (GetOrOpenStream, openRemoteStream, openStreamImpl, RemoveStream).      *)
(***************************************************************************)
THEOREM LimitsTheorem ==
    ASSUME IsFiniteSet(Openers) PROVE Spec => []LimitsAreExact
<1>1. IndInv /\ [Next]_vars => IndInv'
  BY NextIndInv
<1>2. IndInv /\ CountsAreExact /\ [Next]_vars => CountsAreExact'
  BY NextCounts
<1>3. Init => CountsAreExact
  <2> SUFFICES ASSUME Init PROVE CountsAreExact
    OBVIOUS
  <2>1. Even(streams) = {} /\ Odd(streams) = {1}
    BY DEF Init, Even, Odd
  <2>2. Cardinality({}) = 0 /\ Cardinality({1}) = 1
    BY FS_EmptySet, FS_Singleton
  <2>3. numOutgoingStreams = 0 /\ numIncomingStreams = 1 /\ err = "nil"
    BY DEF Init
  <2>4. 0 <= MaxOutgoing /\ 1 <= MaxIncoming
    BY StreamsMapAssumption
  <2> QED
    BY <2>1, <2>2, <2>3, <2>4 DEF CountsAreExact
<1>4. IndInv /\ CountsAreExact => LimitsAreExact
  <2> SUFFICES ASSUME IndInv, CountsAreExact PROVE LimitsAreExact
    OBVIOUS
  <2>1. streams \subseteq Nat
    BY StreamsAreFinite
  <2>2. ASSUME server PROVE OwnStreams = Even(streams) /\ PeerStreams = Odd(streams)
    <3>1. \A i \in streams : Own(i) <=> i % 2 = 0
      BY <2>2 DEF Own
    <3>2. \A i \in streams : ~Own(i) <=> i % 2 = 1
      BY <2>1, <3>1, EvenOrOdd
    <3> QED
      BY <3>1, <3>2, Zenon DEF OwnStreams, PeerStreams, Even, Odd
  <2> QED
    BY <2>2, Zenon DEF LimitsAreExact, CountsAreExact, Even, Odd
<1> QED
  BY <1>1, <1>2, <1>3, <1>4, InitIndInv, PTL DEF Spec

=============================================================================
