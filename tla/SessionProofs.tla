---------------------------- MODULE SessionProofs ----------------------------
(***************************************************************************)
(* The paths of a session, for any number of paths and of addresses: that  *)
(* the run loop of the session is never stuck in sendPackedPacket          *)
(* (SessionLifecycle), and that both ends agree on the paths               *)
(* (PathManager).                                                          *)
(***************************************************************************)
EXTENDS SessionLifecycle, FiniteSetTheorems, TLAPS

Ending == sPc \in {"closing", "closePaths", "wait", "done"}

(***************************************************************************)
(* A path is told to close, or has ended, only once the session closes,    *)
(* the peer closes a path or the path manager has ended.                   *)
(***************************************************************************)
PathsRun == \A p \in Paths : ~pCloseChan[p] /\ pPc[p] \notin {"exit", "exited"}

IndInv ==
    /\ paths \subseteq Paths
    /\ creating \in Paths
    /\ target \in Paths
    /\ pPc \in [Paths -> {"none", "top", "select", "fired", "exit", "exited"}]
    /\ pCloseChan \in [Paths -> BOOLEAN]
    /\ toSend \subseteq paths
    /\ sPc \notin {"send", "ack"} => toSend = {}
    /\ ~Ending => ~pmRunClosed
    /\ Ending \/ PeerClosed \/ pmPc = "done" \/ PathsRun

(***************************************************************************)
(* A new session satisfies the invariant.                                  *)
(***************************************************************************)
LEMMA InitIndInv == Init => IndInv
BY DEF Init, IndInv, Paths, Ending, PeerClosed, PathsRun

(***************************************************************************)
(* The steps of the session that send, or that come back from a call.      *)
(***************************************************************************)
LEMMA SendingIndInv ==
    ASSUME IndInv,
           \/ RunTick \/ RunHandshakeComplete \/ ClosePath \/ ClosePathInner
           \/ AckRemainingPaths \/ EndSending
           \/ \E p \in Paths : RunPathTimer(p) \/ RunRemotePath(p) \/ RunAddAddress(p)
                               \/ RunClosePathFrame(p) \/ SendPackedPacket(p)
    PROVE  IndInv'
<1>1. CASE RunTick \/ RunHandshakeComplete
  BY <1>1 DEF RunTick, RunHandshakeComplete, LaunchPathManager, StartSending, IndInv, Ending,
              PeerClosed, PathsRun, pathVars
<1>2. CASE ClosePath
  BY <1>2 DEF ClosePath, LaunchPathManager, StartSending, IndInv, Ending, PeerClosed, PathsRun,
              pathVars, Paths
<1>3. CASE ClosePathInner
  BY <1>3 DEF ClosePathInner, LaunchPathManager, StartSending, IndInv, Ending, PeerClosed,
     Paths
<1>4. CASE AckRemainingPaths \/ EndSending
  BY <1>4 DEF AckRemainingPaths, EndSending, IndInv, Ending, PeerClosed, PathsRun, pmVars,
     pathVars
<1>5. ASSUME NEW p \in Paths, RunPathTimer(p) PROVE IndInv'
  BY <1>5 DEF RunPathTimer, LaunchPathManager, StartSending, IndInv, Ending, PeerClosed,
     PathsRun
<1>6. ASSUME NEW p \in Paths, RunRemotePath(p) PROVE IndInv'
  BY <1>6 DEF RunRemotePath, SetupPath, LaunchPathManager, StartSending, IndInv, Ending,
              PeerClosed, PathsRun
<1>7. ASSUME NEW p \in Paths, RunAddAddress(p) PROVE IndInv'
  BY <1>7 DEF RunAddAddress, SetupPath, LaunchPathManager, StartSending, IndInv, Ending,
              PeerClosed, PathsRun
<1>8. ASSUME NEW p \in Paths, RunClosePathFrame(p) PROVE IndInv'
  BY <1>8 DEF RunClosePathFrame, IndInv, Ending, PeerClosed, pmVars, pathVars
<1>9. ASSUME NEW p \in Paths, SendPackedPacket(p) PROVE IndInv'
  BY <1>9 DEF SendPackedPacket, IndInv, Ending, PeerClosed, PathsRun, pmVars
<1> QED
  BY <1>1, <1>2, <1>3, <1>4, <1>5, <1>6, <1>7, <1>8, <1>9

(***************************************************************************)
(* The steps that close the session.                                       *)
(***************************************************************************)
LEMMA ClosingIndInv ==
    ASSUME IndInv,
           \/ RunTop \/ RunClose \/ HandleCloseError \/ ClosePaths \/ EndRun
           \/ \E p \in Paths : WaitForPath(p)
           \/ \E kind \in {"normal", "newVersion"} : Close(kind)
    PROVE  IndInv'
<1>1. CASE RunTop
  BY <1>1, Zenon DEF RunTop, IndInv, Ending, PeerClosed, PathsRun, pmVars
<1>2. CASE RunClose
  BY <1>2 DEF RunClose, TellOpenPaths, IndInv, Ending
<1>3. CASE HandleCloseError
  BY <1>3, Zenon DEF HandleCloseError, TellOpenPaths, IndInv, Ending, pmVars
<1>4. CASE ClosePaths \/ EndRun
  BY <1>4 DEF ClosePaths, EndRun, IndInv, Ending, pmVars, pathVars
<1>5. ASSUME NEW p \in Paths, WaitForPath(p) PROVE IndInv'
  BY <1>5 DEF WaitForPath, IndInv, Ending, pmVars
<1>6. ASSUME NEW kind \in {"normal", "newVersion"}, Close(kind) PROVE IndInv'
  BY <1>6 DEF Close, IndInv, Ending, PeerClosed, PathsRun, sessVars, pmVars, pathVars
<1> QED
  BY <1>1, <1>2, <1>3, <1>4, <1>5, <1>6

(***************************************************************************)
(* The steps of the path manager and of the paths.                         *)
(***************************************************************************)
LEMMA OthersIndInv ==
    ASSUME IndInv,
           PathManagerStep \/ PmChangePaths \/ \E p \in Paths : PathStep(p)
    PROVE  IndInv'
<1>1. CASE PmHandshakeCompleted \/ PmGetsLock \/ PmCreated \/ PmChangePaths
  BY <1>1 DEF PmHandshakeCompleted, PmGetsLock, PmCreated, PmChangePaths, IndInv, Ending,
              PeerClosed, PathsRun, sessVars, pathVars
<1>2. CASE CreatePath
  BY <1>2 DEF CreatePath, SetupPath, IndInv, Ending, PeerClosed, PathsRun, sessVars
<1>3. CASE PmRunClosed
  BY <1>3 DEF PmRunClosed, IndInv, Ending, sessVars, pathVars
<1>4. CASE PmClosePaths
  BY <1>4 DEF PmClosePaths, TellOpenPaths, IndInv, Ending, sessVars
<1>5. ASSUME NEW p \in Paths, PmWantsLock(p) PROVE IndInv'
  BY <1>5 DEF PmWantsLock, IndInv, Ending, PeerClosed, PathsRun, sessVars, pathVars
<1>6. ASSUME NEW p \in Paths, PathStep(p) PROVE IndInv'
  <2>1. /\ UNCHANGED <<sessVars, closeVars, readers, paths, pmVars>>
        /\ pPc' \in [Paths -> {"none", "top", "select", "fired", "exit", "exited"}]
        /\ pCloseChan' \in [Paths -> BOOLEAN]
    BY <1>6, Zenon DEF PathStep, PathTop, PathClose, PathTimer, PathSentPacket, PathExit,
       IndInv
  <2>2. PathsRun => PathsRun'
    BY <1>6 DEF PathStep, PathTop, PathClose, PathTimer, PathSentPacket, PathExit, IndInv,
       PathsRun
  <2> QED
    BY <2>1, <2>2 DEF IndInv, Ending, PeerClosed, sessVars, pmVars
<1> QED
  BY <1>1, <1>2, <1>3, <1>4, <1>5, <1>6 DEF PathManagerStep

(***************************************************************************)
(* Unless the peer has closed a path or the path manager has failed, no    *)
(* path that sendPacket still sends on has ended: sendPackedPacket finds   *)
(* the goroutine that takes its message, with any number of paths.         *)
(***************************************************************************)
THEOREM NoStuckSendTheorem == Spec => []NoStuckSend
<1>1. IndInv /\ [Next]_vars => IndInv'
  <2> SUFFICES ASSUME IndInv, [Next]_vars PROVE IndInv'
    OBVIOUS
  <2>1. CASE UNCHANGED vars
    BY <2>1 DEF vars, sessVars, pmVars, pathVars, IndInv, Ending, PeerClosed, PathsRun
  <2> QED
    BY <2>1, SendingIndInv, ClosingIndInv, OthersIndInv DEF Next, SessionStep
<1>2. IndInv => NoStuckSend
  BY DEF IndInv, NoStuckSend, ManagerFailed, Ending, PathsRun
<1> QED
  BY <1>1, <1>2, InitIndInv, PTL DEF Spec

-----------------------------------------------------------------------------
(***************************************************************************)
(* The path manager, with constants and variables of its own.              *)
(***************************************************************************)
CONSTANTS Local4, Local6, EarlyAddrs, Remote4, Remote6, FirstRemote, Unreachable, IdModulus

VARIABLES
    ifaceAddrs, pconns, localAddrs, adding, firstLook, changePaths, managerPmPc, holder,
    round, remoteAddrs, managerPaths, nxtPathID, pings, peerPaths

Manager == INSTANCE PathManager WITH pmPc <- managerPmPc, paths <- managerPaths

(***************************************************************************)
(* There are more path IDs than the pairs of addresses need.               *)
(***************************************************************************)
LEMMA IdsSuffice ==
    ASSUME Manager!PathManagerAssumption
    PROVE  IdModulus \in Nat /\ 2 * Cardinality(Manager!Pairs) < IdModulus
BY DEF Manager!PathManagerAssumption, Manager!Cardinality, Cardinality

(***************************************************************************)
(* The inductive invariant.  Whatever createPaths looks at has a socket    *)
(* already; the IDs given out are odd and below the next one, which moves  *)
(* on by two for each path and, as two addresses have one path at most,    *)
(* does not wrap around before all pairs have a path; and packets under    *)
(* way and paths of the server name paths of the client.                   *)
(***************************************************************************)
SocketsFirst ==
    /\ localAddrs \subseteq pconns
    /\ adding # Manager!Nil => adding \in pconns
    /\ \A pair \in round : pair \in Manager!Pairs /\ pair[1] \in pconns

PathsNumbered ==
    /\ managerPaths \in [DOMAIN managerPaths -> Manager!Pairs]
    /\ IsFiniteSet(DOMAIN managerPaths)
    /\ \A id \in DOMAIN managerPaths : id \in Nat /\ id < 2 * Cardinality(DOMAIN managerPaths) + 1
    /\ Cardinality(DOMAIN managerPaths) < Cardinality(Manager!Pairs) =>
           nxtPathID = 2 * Cardinality(DOMAIN managerPaths) + 1

PingsNamePaths ==
    \A ping \in pings : ping[1] \in DOMAIN managerPaths /\ ping[2] = managerPaths[ping[1]][1]

ManagerInv == SocketsFirst /\ PathsNumbered /\ PingsNamePaths /\ Manager!PathsAgree

LEMMA InitManagerInv == Manager!Init => ManagerInv
<1> SUFFICES ASSUME Manager!Init PROVE ManagerInv
  OBVIOUS
<1>1. DOMAIN managerPaths = {} /\ DOMAIN peerPaths = {}
  BY DEF Manager!Init
<1>2. IsFiniteSet(DOMAIN managerPaths) /\ Cardinality(DOMAIN managerPaths) = 0
  BY <1>1, FS_EmptySet
<1>3. managerPaths \in [DOMAIN managerPaths -> Manager!Pairs]
  BY <1>1 DEF Manager!Init
<1> QED
  BY <1>1, <1>2, <1>3 DEF Manager!Init, ManagerInv, SocketsFirst, PathsNumbered,
     PingsNamePaths, Manager!PathsAgree

(***************************************************************************)
(* While a pair has no path there are fewer paths than pairs.              *)
(***************************************************************************)
LEMMA RoomForPath ==
    ASSUME IsFiniteSet(Manager!Pairs), ManagerInv, NEW pair \in Manager!Pairs,
           ~Manager!PathExists(pair)
    PROVE  Cardinality(DOMAIN managerPaths) < Cardinality(Manager!Pairs)
<1>1. managerPaths \in [DOMAIN managerPaths -> Manager!Pairs \ {pair}]
  BY DEF ManagerInv, PathsNumbered, Manager!PathExists
<1>2. managerPaths \in Injection(DOMAIN managerPaths, Manager!Pairs \ {pair})
  BY <1>1 DEF ManagerInv, Manager!PathsAgree, Injection, IsInjective
<1>3. /\ IsFiniteSet(Manager!Pairs \ {pair})
      /\ Cardinality(Manager!Pairs \ {pair}) = Cardinality(Manager!Pairs) - 1
  BY FS_RemoveElement
<1>4. Cardinality(DOMAIN managerPaths) <= Cardinality(Manager!Pairs \ {pair})
  BY <1>2, <1>3, FS_Injection
<1>5. Cardinality(DOMAIN managerPaths) \in Nat /\ Cardinality(Manager!Pairs) \in Nat
  BY FS_CardinalityType DEF ManagerInv, PathsNumbered
<1> QED
  BY <1>3, <1>4, <1>5

(***************************************************************************)
(* A new path gets an ID of its own.                                       *)
(***************************************************************************)
LEMMA AddPathFact ==
    ASSUME Manager!PathManagerAssumption, IsFiniteSet(Manager!Pairs), ManagerInv,
           NEW pair \in Manager!Pairs, ~Manager!PathExists(pair), Manager!AddPath(pair)
    PROVE  /\ nxtPathID \notin DOMAIN managerPaths
           /\ DOMAIN managerPaths' = DOMAIN managerPaths \cup {nxtPathID}
           /\ managerPaths'[nxtPathID] = pair
           /\ \A id \in DOMAIN managerPaths : managerPaths'[id] = managerPaths[id]
           /\ PathsNumbered'
<1> DEFINE n == Cardinality(DOMAIN managerPaths)
<1>1. n \in Nat /\ n < Cardinality(Manager!Pairs) /\ Cardinality(Manager!Pairs) \in Nat
  BY RoomForPath, FS_CardinalityType DEF ManagerInv, PathsNumbered
<1>2. nxtPathID = 2 * n + 1
  BY <1>1 DEF ManagerInv, PathsNumbered
<1>3. nxtPathID \notin DOMAIN managerPaths
  BY <1>1, <1>2 DEF ManagerInv, PathsNumbered
<1>4. /\ DOMAIN managerPaths' = DOMAIN managerPaths \cup {nxtPathID}
      /\ managerPaths'[nxtPathID] = pair
      /\ \A id \in DOMAIN managerPaths : managerPaths'[id] = managerPaths[id]
      /\ managerPaths' \in [DOMAIN managerPaths' -> Manager!Pairs]
  BY <1>3 DEF Manager!AddPath, ManagerInv, PathsNumbered
<1>5. IsFiniteSet(DOMAIN managerPaths') /\ Cardinality(DOMAIN managerPaths') = n + 1
  <2>1. IsFiniteSet(DOMAIN managerPaths)
    BY DEF ManagerInv, PathsNumbered
  <2> HIDE DEF n
  <2> QED
    BY <2>1, <1>3, <1>4, FS_AddElement DEF n
<1>6. \A id \in DOMAIN managerPaths' : id \in Nat /\ id < 2 * (n + 1) + 1
  BY <1>1, <1>2, <1>4 DEF ManagerInv, PathsNumbered
<1>7. n + 1 < Cardinality(Manager!Pairs) => nxtPathID' = 2 * (n + 1) + 1
  <2> SUFFICES ASSUME n + 1 < Cardinality(Manager!Pairs) PROVE nxtPathID' = 2 * (n + 1) + 1
    OBVIOUS
  <2>1. nxtPathID' = (nxtPathID + 2) % IdModulus /\ IdModulus \in Nat
    BY DEF Manager!AddPath, Manager!PathManagerAssumption
  <2>2. 2 * Cardinality(Manager!Pairs) < IdModulus
    BY IdsSuffice
  <2> HIDE DEF n
  <2>3. 2 * n + 3 < IdModulus /\ nxtPathID + 2 = 2 * n + 3
    BY <1>1, <1>2, <2>1, <2>2
  <2>4. (2 * n + 3) % IdModulus = 2 * n + 3
    BY <1>1, <2>1, <2>3
  <2> QED
    BY <1>1, <2>1, <2>3, <2>4
<1> HIDE DEF n
<1> QED
  BY <1>3, <1>4, <1>5, <1>6, <1>7, Zenon DEF PathsNumbered

(***************************************************************************)
(* createPath keeps the invariant.                                         *)
(***************************************************************************)
LEMMA CreatePathManagerInv ==
    ASSUME Manager!PathManagerAssumption, IsFiniteSet(Manager!Pairs), ManagerInv, NEW g,
           NEW pair \in Manager!Pairs,
           Manager!CreatePath(g, pair)
    PROVE  ManagerInv'
<1>1. SocketsFirst'
  BY DEF Manager!CreatePath, ManagerInv, SocketsFirst, Manager!pcmVars
<1>2. CASE Manager!PathExists(pair)
  <2>1. UNCHANGED <<managerPaths, nxtPathID, pings, peerPaths, pconns>>
    BY <1>2 DEF Manager!CreatePath, Manager!pcmVars, Manager!peerVars
  <2> QED
    BY <1>1, <2>1 DEF ManagerInv, PathsNumbered, PingsNamePaths, Manager!PathsAgree
<1>3. CASE ~Manager!PathExists(pair)
  <2>1. Manager!AddPath(pair) /\ pair[1] \in pconns /\ UNCHANGED <<peerPaths, pconns>>
    BY <1>3 DEF Manager!CreatePath, Manager!pcmVars, Manager!peerVars, ManagerInv, SocketsFirst
  <2>2. /\ nxtPathID \notin DOMAIN managerPaths
        /\ DOMAIN managerPaths' = DOMAIN managerPaths \cup {nxtPathID}
        /\ managerPaths'[nxtPathID] = pair
        /\ \A id \in DOMAIN managerPaths : managerPaths'[id] = managerPaths[id]
        /\ PathsNumbered'
    BY <1>3, <2>1, AddPathFact
  <2>3. PingsNamePaths'
    BY <2>1, <2>2 DEF Manager!AddPath, ManagerInv, PingsNamePaths
  <2>4. Manager!PathsAgree'
    BY <1>3, <2>1, <2>2 DEF ManagerInv, Manager!PathsAgree, Manager!PathExists
  <2> QED
    BY <1>1, <2>2, <2>3, <2>4 DEF ManagerInv
<1> QED
  BY <1>2, <1>3

(***************************************************************************)
(* Every step keeps the invariant.                                         *)
(***************************************************************************)
LEMMA NextManagerInv ==
    ASSUME Manager!PathManagerAssumption, IsFiniteSet(Manager!Pairs), ManagerInv,
           [Manager!Next]_(Manager!vars)
    PROVE  ManagerInv'
<1> DEFINE PathsStay == UNCHANGED <<managerPaths, nxtPathID, pings, peerPaths>>
<1>1. ASSUME PathsStay, SocketsFirst', pconns \subseteq pconns' PROVE ManagerInv'
  BY <1>1 DEF ManagerInv, PathsNumbered, PingsNamePaths, Manager!PathsAgree
<1>2. CASE \E a \in Manager!Local : Manager!NewAddress(a)
  BY <1>1, <1>2 DEF Manager!NewAddress, Manager!peerVars, ManagerInv, SocketsFirst
<1>3. CASE \E a \in Manager!Local : Manager!CreatePconn(a)
  BY <1>1, <1>3 DEF Manager!CreatePconn, Manager!peerVars, ManagerInv, SocketsFirst
<1>4. CASE Manager!AppendLocalAddr
  BY <1>1, <1>4 DEF Manager!AppendLocalAddr, Manager!peerVars, ManagerInv, SocketsFirst
<1>5. CASE Manager!EndFirstLook
  BY <1>1, <1>5 DEF Manager!EndFirstLook, Manager!peerVars, ManagerInv, SocketsFirst
<1>6. ASSUME NEW g, NEW remotes, Manager!StartRound(g, localAddrs, remotes),
             PathsStay, UNCHANGED Manager!pcmVars
      PROVE  ManagerInv'
  <2>1. SocketsFirst'
    BY <1>6 DEF Manager!StartRound, Manager!pcmVars, ManagerInv, SocketsFirst
  <2> QED
    BY <1>1, <1>6, <2>1 DEF Manager!pcmVars
<1>7. CASE Manager!HandshakeCompleted \/ Manager!StartNextRound
  BY <1>6, <1>7 DEF Manager!HandshakeCompleted, Manager!StartNextRound, Manager!peerVars
<1>8. CASE \E r \in Manager!Remote : Manager!HandleAddAddressFrame(r)
  BY <1>6, <1>8 DEF Manager!HandleAddAddressFrame, Manager!peerVars
<1>9. CASE Manager!ChangePaths
  BY <1>1, <1>9 DEF Manager!ChangePaths, Manager!peerVars, Manager!pcmVars, ManagerInv,
     SocketsFirst
<1>10. CASE \E g \in Manager!Creators : Manager!EndRound(g)
  BY <1>1, <1>10 DEF Manager!EndRound, Manager!peerVars, Manager!pcmVars, ManagerInv,
     SocketsFirst
<1>11. CASE \E g \in Manager!Creators, pair \in Manager!Pairs : Manager!CreatePath(g, pair)
  BY <1>11, CreatePathManagerInv
<1>12. CASE \E ping \in pings : Manager!CreatePathFromRemote(ping[1], ping[2])
  <2> PICK ping \in pings : Manager!CreatePathFromRemote(ping[1], ping[2])
    BY <1>12
  <2>1. UNCHANGED <<managerPaths, nxtPathID, pings, Manager!pcmVars, round>>
    BY DEF Manager!CreatePathFromRemote
  <2>2. SocketsFirst' /\ PathsNumbered' /\ PingsNamePaths'
    BY <2>1 DEF Manager!pcmVars, ManagerInv, SocketsFirst, PathsNumbered, PingsNamePaths
  <2>3. Manager!PathsAgree'
    BY <2>1 DEF Manager!CreatePathFromRemote, Manager!pcmVars, ManagerInv, PingsNamePaths,
       Manager!PathsAgree
  <2> QED
    BY <2>2, <2>3 DEF ManagerInv
<1>13. CASE UNCHANGED Manager!vars
  BY <1>1, <1>13 DEF Manager!vars, Manager!peerVars, Manager!pcmVars, ManagerInv, SocketsFirst
<1> QED
  BY <1>2, <1>3, <1>4, <1>5, <1>7, <1>8, <1>9, <1>10, <1>11, <1>12, <1>13
  DEF Manager!Next, Manager!PconnManagerStep, Manager!PathManagerStep, Manager!SessionStep,
      Manager!Creators

(***************************************************************************)
(* Both sides mean the same path by a path ID, two addresses have one path *)
(* at most, and its socket exists (pathManager.createPath and              *)
(* createPathFromRemote), for any addresses on either side, of which some  *)
(* may be unreachable, and any order of the goroutines.                    *)
(***************************************************************************)
THEOREM PathsAgreeTheorem ==
    ASSUME Manager!PathManagerAssumption, IsFiniteSet(Manager!Pairs)
    PROVE  Manager!Spec => []Manager!PathsAgree
<1>1. ManagerInv /\ [Manager!Next]_(Manager!vars) => ManagerInv'
  BY NextManagerInv
<1>2. ManagerInv => Manager!PathsAgree
  BY DEF ManagerInv
<1> QED
  BY <1>1, <1>2, InitManagerInv, PTL DEF Manager!Spec
==============================================================================
