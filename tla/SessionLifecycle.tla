-------------------------- MODULE SessionLifecycle --------------------------
(***************************************************************************)
(* How a session, its path manager and its paths run and stop: the run     *)
(* loop of the session (session.go), that of the path manager              *)
(* (path_manager.go) and one run loop per path (path.go), which talk over  *)
(* channels of capacity one and share the map of paths under pathsLock.    *)
(*                                                                         *)
(* What packets contain is left out but for what creates and closes paths. *)
(* A packet sent on a path is the message on the channel sentPacket.       *)
(***************************************************************************)
EXTENDS Integers, FiniteSets

CONSTANTS
    InitialPath,      \* path 0
    LocalPaths,       \* the paths that the path manager may create (a client)
    RemotePaths,      \* the paths that packets of the peer may create (a server)
    PeerClosesPaths,  \* whether the peer sends CLOSE_PATH frames
    PingFails         \* whether the PING on a new path may fail

Paths == {InitialPath} \cup LocalPaths \cup RemotePaths

ASSUME SessionLifecycleAssumption ==
    /\ InitialPath \notin LocalPaths \cup RemotePaths
    /\ LocalPaths \cap RemotePaths = {}
    /\ {PeerClosesPaths, PingFails} \subseteq BOOLEAN

VARIABLES
    (* the session *)
    sPc,            \* where its run loop is
    toSend,         \* the paths that sendPacket has yet to send on
    target,         \* the path that the CLOSE_PATH frame being handled names
    toWait,         \* the paths whose end closePaths has yet to wait for
    paths,          \* the keys of the map of paths
    closedPaths,
    handshakeComplete, pathManagerLaunched,
    closeOnce,      \* the error that Close was called with, or "no"
    closeChan,      \* whether the channel is full
    (* the lock of the map, and the path manager *)
    readers,        \* how often the session holds pathsLock for reading
    writer,         \* the path manager: "none", "pending" or "held"
    pmPc,
    firstRound,     \* whether this is the createPaths that follows the handshake
    pmRunClosed, pmHandshakeCompleted,   \* whether the channels are full
    creating,       \* the path that the path manager is creating
    (* the paths *)
    pPc, open,
    pCloseChan, pSentPacket, pRunClosed  \* whether the channels are full

sessVars == <<sPc, toSend, target, toWait, closedPaths, handshakeComplete, pathManagerLaunched>>
closeVars == <<closeOnce, closeChan>>
pmVars == <<pmPc, firstRound, pmRunClosed, pmHandshakeCompleted, creating, writer>>
pathVars == <<pPc, open, pCloseChan, pSentPacket, pRunClosed>>
vars == <<sessVars, closeVars, readers, paths, pmVars, pathVars>>

(***************************************************************************)
(* session.setup, pathManager.setup and path.setup of the initial path.    *)
(***************************************************************************)
Init ==
    /\ sPc = "top"
    /\ toSend = {}
    /\ target = InitialPath
    /\ toWait = {}
    /\ paths = {InitialPath}
    /\ closedPaths = {}
    /\ handshakeComplete = FALSE
    /\ pathManagerLaunched = FALSE
    /\ closeOnce = "no"
    /\ closeChan = FALSE
    /\ readers = 0
    /\ writer = "none"
    /\ pmPc = "wait"
    /\ firstRound = TRUE
    /\ pmRunClosed = FALSE
    /\ pmHandshakeCompleted = FALSE
    /\ creating = InitialPath
    /\ pPc = [p \in Paths |-> IF p = InitialPath THEN "top" ELSE "none"]
    /\ open = [p \in Paths |-> p = InitialPath]
    /\ pCloseChan = [p \in Paths |-> FALSE]
    /\ pSentPacket = [p \in Paths |-> FALSE]
    /\ pRunClosed = [p \in Paths |-> FALSE]

(***************************************************************************)
(* A new path: its channels are empty and its goroutine starts.            *)
(***************************************************************************)
SetupPath(p) ==
    /\ paths' = paths \cup {p}
    /\ pPc' = [pPc EXCEPT ![p] = "top"]
    /\ open' = [open EXCEPT ![p] = TRUE]

(***************************************************************************)
(* closePaths of the path manager: what is open is told to close, unless   *)
(* it has been told already.                                               *)
(***************************************************************************)
TellOpenPaths == pCloseChan' = [p \in Paths |-> pCloseChan[p] \/ (p \in paths /\ open[p])]

(***************************************************************************)
(* A reader gets pathsLock if no writer has it or waits for it.            *)
(***************************************************************************)
CanRLock == writer = "none"

-----------------------------------------------------------------------------
(***************************************************************************)
(* The application closes the session, or the client to try another        *)
(* version; closeOnce lets one of them fill the channel.                   *)
(***************************************************************************)
Close(kind) ==
    /\ closeOnce = "no"
    /\ sPc # "done"
    /\ closeOnce' = kind
    /\ closeChan' = TRUE
    /\ UNCHANGED <<sessVars, readers, paths, pmVars, pathVars>>

(***************************************************************************)
(* Mutant: the paths are not told.                                         *)
(***************************************************************************)
MutRunTop ==
    /\ sPc = "top"
    /\ IF closeChan
       THEN /\ CanRLock
            /\ closeChan' = FALSE
            /\ pCloseChan' = pCloseChan
            /\ sPc' = "closing"
       ELSE /\ sPc' = "select"
            /\ UNCHANGED <<closeChan, pCloseChan>>
    /\ UNCHANGED <<toSend, target, toWait, closedPaths, handshakeComplete, pathManagerLaunched,
                   closeOnce, readers, paths, pmVars, pPc, open, pSentPacket, pRunClosed>>

(***************************************************************************)
(* The top of the loop: close at once if requested.  This tells the paths, *)
(* and not the path manager.                                               *)
(***************************************************************************)
RunTop ==
    /\ sPc = "top"
    /\ IF closeChan
       THEN /\ CanRLock
            /\ closeChan' = FALSE
            /\ pCloseChan' = [p \in Paths |-> pCloseChan[p] \/ p \in paths]
            /\ sPc' = "closing"
       ELSE /\ sPc' = "select"
            /\ UNCHANGED <<closeChan, pCloseChan>>
    /\ UNCHANGED <<toSend, target, toWait, closedPaths, handshakeComplete, pathManagerLaunched,
                   closeOnce, readers, paths, pmVars, pPc, open, pSentPacket, pRunClosed>>

(***************************************************************************)
(* The second place that takes a close from the channel.  This tells the   *)
(* open paths and the path manager.                                        *)
(***************************************************************************)
RunClose ==
    /\ sPc = "select"
    /\ closeChan
    /\ CanRLock
    /\ closeChan' = FALSE
    /\ TellOpenPaths
    /\ pmRunClosed' = TRUE
    /\ sPc' = "closing"
    /\ UNCHANGED <<toSend, target, toWait, closedPaths, handshakeComplete, pathManagerLaunched,
                   closeOnce, readers, paths, pmPc, firstRound, pmHandshakeCompleted, creating,
                   writer, pPc, open, pSentPacket, pRunClosed>>

(***************************************************************************)
(* What follows every other event: the path manager is launched after the  *)
(* handshake, and sendPacket sends on some paths: on those the scheduler   *)
(* selects, then, in ackRemainingPaths, on those that owe an ACK or a      *)
(* WINDOW_UPDATE, open or not.                                             *)
(***************************************************************************)
LaunchPathManager(complete) ==
    /\ handshakeComplete' = complete
    /\ IF complete /\ ~pathManagerLaunched
       THEN /\ pmHandshakeCompleted' = TRUE
            /\ pathManagerLaunched' = TRUE
       ELSE UNCHANGED <<pmHandshakeCompleted, pathManagerLaunched>>

StartSending(known) ==
    /\ sPc' = "send"
    /\ toSend' \in SUBSET known

RunTick ==
    /\ sPc = "select"
    /\ LaunchPathManager(handshakeComplete)
    /\ StartSending(paths)
    /\ UNCHANGED <<target, toWait, closedPaths, closeVars, readers, paths, pmPc, firstRound,
                   pmRunClosed, creating, writer, pathVars>>

RunHandshakeComplete ==
    /\ sPc = "select"
    /\ ~handshakeComplete
    /\ LaunchPathManager(TRUE)
    /\ StartSending(paths)
    /\ UNCHANGED <<target, toWait, closedPaths, closeVars, readers, paths, pmPc, firstRound,
                   pmRunClosed, creating, writer, pathVars>>

(***************************************************************************)
(* The session takes the timer event of a path, which waits to hand it     *)
(* over.                                                                   *)
(***************************************************************************)
RunPathTimer(p) ==
    /\ sPc = "select"
    /\ pPc[p] = "fired"
    /\ pPc' = [pPc EXCEPT ![p] = "top"]
    /\ LaunchPathManager(handshakeComplete)
    /\ StartSending(paths)
    /\ UNCHANGED <<target, toWait, closedPaths, closeVars, readers, paths, pmPc, firstRound,
                   pmRunClosed, creating, writer, open, pCloseChan, pSentPacket, pRunClosed>>

(***************************************************************************)
(* handlePacketImpl for a packet of a path that is not known:              *)
(* createPathFromRemote, which takes pathsLock for writing.                *)
(***************************************************************************)
RunRemotePath(p) ==
    /\ sPc = "select"
    /\ p \in RemotePaths \ paths
    /\ writer = "none"
    /\ SetupPath(p)
    /\ LaunchPathManager(handshakeComplete)
    /\ StartSending(paths \cup {p})
    /\ UNCHANGED <<target, toWait, closedPaths, closeVars, readers, pmPc, firstRound, pmRunClosed,
                   creating, writer, pCloseChan, pSentPacket, pRunClosed>>

(***************************************************************************)
(* A packet with an ADD_ADDRESS frame: createPaths in the goroutine of the *)
(* session, which waits for one that the path manager is in.               *)
(***************************************************************************)
RunAddAddress(p) ==
    /\ sPc = "select"
    /\ p \in LocalPaths \ paths
    /\ pmPc \notin {"create", "lock"}
    /\ SetupPath(p)
    /\ pSentPacket' = [pSentPacket EXCEPT ![p] = TRUE]
    /\ LaunchPathManager(handshakeComplete)
    /\ StartSending(paths \cup {p})
    /\ UNCHANGED <<target, toWait, closedPaths, closeVars, readers, pmPc, firstRound, pmRunClosed,
                   creating, writer, pCloseChan, pRunClosed>>

(***************************************************************************)
(* A packet with a CLOSE_PATH frame: closePath of the session takes        *)
(* pathsLock for reading, and, unless the path is closed already, closePath*)
(* of the path manager takes it for reading again.                         *)
(***************************************************************************)
RunClosePathFrame(p) ==
    /\ sPc = "select"
    /\ PeerClosesPaths
    /\ p \in paths
    /\ CanRLock
    /\ readers' = 1
    /\ target' = p
    /\ sPc' = "closePath"
    /\ UNCHANGED <<toSend, toWait, closedPaths, handshakeComplete, pathManagerLaunched, closeVars,
                   paths, pmVars, pathVars>>

ClosePath ==
    /\ sPc = "closePath"
    /\ IF target \in closedPaths
       THEN /\ readers' = 0
            /\ target' = InitialPath
            /\ LaunchPathManager(handshakeComplete)
            /\ StartSending(paths)
       ELSE /\ CanRLock
            /\ readers' = 2
            /\ sPc' = "closePathInner"
            /\ UNCHANGED <<toSend, target, handshakeComplete, pathManagerLaunched, pmHandshakeCompleted>>
    /\ UNCHANGED <<toWait, closedPaths, closeVars, paths, pmPc, firstRound, pmRunClosed,
                   creating, writer, pathVars>>

ClosePathInner ==
    /\ sPc = "closePathInner"
    /\ open[target] => ~pCloseChan[target]
    /\ pCloseChan' = IF open[target] THEN [pCloseChan EXCEPT ![target] = TRUE] ELSE pCloseChan
    /\ readers' = 0
    /\ closedPaths' = closedPaths \cup {target}
    /\ target' = InitialPath
    /\ LaunchPathManager(handshakeComplete)
    /\ StartSending(paths)
    /\ UNCHANGED <<toWait, closeVars, paths, pmPc, firstRound, pmRunClosed, creating,
                   writer, pPc, open, pSentPacket, pRunClosed>>

(***************************************************************************)
(* sendPackedPacket on the paths the scheduler selects, then, with         *)
(* pathsLock, on those of ackRemainingPaths.  The channel sentPacket of    *)
(* the path must take the message.                                         *)
(***************************************************************************)
SendPackedPacket(p) ==
    /\ sPc \in {"send", "ack"}
    /\ p \in toSend
    /\ ~pSentPacket[p]
    /\ pSentPacket' = [pSentPacket EXCEPT ![p] = TRUE]
    /\ toSend' = toSend \ {p}
    /\ UNCHANGED <<sPc, target, toWait, closedPaths, handshakeComplete, pathManagerLaunched,
                   closeVars, readers, paths, pmVars, pPc, open, pCloseChan, pRunClosed>>

AckRemainingPaths ==
    /\ sPc = "send"
    /\ toSend = {}
    /\ CanRLock
    /\ readers' = 1
    /\ sPc' = "ack"
    /\ toSend' \in SUBSET paths
    /\ UNCHANGED <<target, toWait, closedPaths, handshakeComplete, pathManagerLaunched, closeVars,
                   paths, pmVars, pathVars>>

EndSending ==
    /\ sPc = "ack"
    /\ toSend = {}
    /\ readers' = 0
    /\ sPc' = "top"
    /\ UNCHANGED <<toSend, target, toWait, closedPaths, handshakeComplete, pathManagerLaunched,
                   closeVars, paths, pmVars, pathVars>>

(***************************************************************************)
(* handleCloseError: a session that is closed for another version is done; *)
(* else closePaths tells the open paths once more, and waits for the end   *)
(* of every path in the map.                                               *)
(***************************************************************************)
HandleCloseError ==
    /\ sPc = "closing"
    /\ IF closeOnce = "newVersion"
       THEN /\ sPc' = "done"
            /\ UNCHANGED pCloseChan
       ELSE /\ CanRLock
            /\ TellOpenPaths
            /\ sPc' = "closePaths"
    /\ UNCHANGED <<toSend, target, toWait, closedPaths, handshakeComplete, pathManagerLaunched,
                   closeVars, readers, paths, pmVars, pPc, open, pSentPacket, pRunClosed>>

ClosePaths ==
    /\ sPc = "closePaths"
    /\ toWait' = paths
    /\ sPc' = "wait"
    /\ UNCHANGED <<toSend, target, closedPaths, handshakeComplete, pathManagerLaunched, closeVars,
                   readers, paths, pmVars, pathVars>>

WaitForPath(p) ==
    /\ sPc = "wait"
    /\ p \in toWait
    /\ pRunClosed[p]
    /\ pRunClosed' = [pRunClosed EXCEPT ![p] = FALSE]
    /\ toWait' = toWait \ {p}
    /\ UNCHANGED <<sPc, toSend, target, closedPaths, handshakeComplete, pathManagerLaunched,
                   closeVars, readers, paths, pmVars, pPc, open, pCloseChan, pSentPacket>>

EndRun ==
    /\ sPc = "wait"
    /\ toWait = {}
    /\ sPc' = "done"
    /\ UNCHANGED <<toSend, target, toWait, closedPaths, handshakeComplete, pathManagerLaunched,
                   closeVars, readers, paths, pmVars, pathVars>>

-----------------------------------------------------------------------------
(***************************************************************************)
(* The goroutine of the path manager waits for the handshake or for its    *)
(* end, then for changes of the local addresses or for its end.            *)
(***************************************************************************)
PmHandshakeCompleted ==
    /\ pmPc = "wait"
    /\ pmHandshakeCompleted
    /\ pmHandshakeCompleted' = FALSE
    /\ pmPc' = "create"
    /\ UNCHANGED <<sessVars, closeVars, readers, paths, firstRound, pmRunClosed, creating, writer,
                   pathVars>>

PmChangePaths ==
    /\ pmPc = "loop"
    /\ LocalPaths # {}
    /\ pmPc' = "create"
    /\ UNCHANGED <<sessVars, closeVars, readers, paths, firstRound, pmRunClosed,
                   pmHandshakeCompleted, creating, writer, pathVars>>

(***************************************************************************)
(* createPath: wait for pathsLock, then set the path up and send a PING on *)
(* it, whose message its empty channel takes.  An error of the PING ends   *)
(* the path manager in the first round, and is ignored later.              *)
(***************************************************************************)
PmWantsLock(p) ==
    /\ pmPc = "create"
    /\ p \in LocalPaths \ paths
    /\ creating' = p
    /\ writer' = "pending"
    /\ pmPc' = "lock"
    /\ UNCHANGED <<sessVars, closeVars, readers, paths, firstRound, pmRunClosed,
                   pmHandshakeCompleted, pathVars>>

PmGetsLock ==
    /\ writer = "pending"
    /\ readers = 0
    /\ writer' = "held"
    /\ UNCHANGED <<sessVars, closeVars, readers, paths, pmPc, firstRound, pmRunClosed,
                   pmHandshakeCompleted, creating, pathVars>>

CreatePath ==
    /\ pmPc = "lock"
    /\ writer = "held"
    /\ SetupPath(creating)
    /\ writer' = "none"
    /\ pSentPacket' = [pSentPacket EXCEPT ![creating] = TRUE]
    /\ \/ pmPc' = "create"
       \/ PingFails /\ pmPc' = IF firstRound THEN "closePaths" ELSE "loop"
    /\ UNCHANGED <<sessVars, closeVars, readers, firstRound, pmRunClosed, pmHandshakeCompleted,
                   creating, pCloseChan, pRunClosed>>

PmCreated ==
    /\ pmPc = "create"
    /\ pmPc' = "loop"
    /\ firstRound' = FALSE
    /\ UNCHANGED <<sessVars, closeVars, readers, paths, pmRunClosed, pmHandshakeCompleted,
                   creating, writer, pathVars>>

PmRunClosed ==
    /\ pmPc \in {"wait", "loop"}
    /\ pmRunClosed
    /\ pmRunClosed' = FALSE
    /\ pmPc' = IF pmPc = "wait" THEN "done" ELSE "closePaths"
    /\ UNCHANGED <<sessVars, closeVars, readers, paths, firstRound, pmHandshakeCompleted,
                   creating, writer, pathVars>>

PmClosePaths ==
    /\ pmPc = "closePaths"
    /\ TellOpenPaths
    /\ pmPc' = "done"
    /\ UNCHANGED <<sessVars, closeVars, readers, paths, firstRound, pmRunClosed,
                   pmHandshakeCompleted, creating, writer, pPc, open, pSentPacket, pRunClosed>>

-----------------------------------------------------------------------------
(***************************************************************************)
(* The goroutine of a path: close at once if requested; then wait for a    *)
(* close, for the timer or for a message that a packet was sent.  Once the *)
(* timer has fired, the path waits for the session to take it, for a close *)
(* or for such a message.                                                  *)
(***************************************************************************)
PathTop(p) ==
    /\ pPc[p] = "top"
    /\ pCloseChan' = [pCloseChan EXCEPT ![p] = FALSE]
    /\ pPc' = [pPc EXCEPT ![p] = IF pCloseChan[p] THEN "exit" ELSE "select"]
    /\ UNCHANGED <<sessVars, closeVars, readers, paths, pmVars, open, pSentPacket, pRunClosed>>

PathClose(p) ==
    /\ pPc[p] \in {"select", "fired"}
    /\ pCloseChan[p]
    /\ pCloseChan' = [pCloseChan EXCEPT ![p] = FALSE]
    /\ pPc' = [pPc EXCEPT ![p] = "exit"]
    /\ UNCHANGED <<sessVars, closeVars, readers, paths, pmVars, open, pSentPacket, pRunClosed>>

(***************************************************************************)
(* Mutant: the timer of a path ends it.                                    *)
(***************************************************************************)
MutPathTimer(p) ==
    /\ pPc[p] = "select"
    /\ pPc' = [pPc EXCEPT ![p] = "exit"]
    /\ UNCHANGED <<sessVars, closeVars, readers, paths, pmVars, open, pCloseChan, pSentPacket,
                   pRunClosed>>

PathTimer(p) ==
    /\ pPc[p] = "select"
    /\ pPc' = [pPc EXCEPT ![p] = "fired"]
    /\ UNCHANGED <<sessVars, closeVars, readers, paths, pmVars, open, pCloseChan, pSentPacket,
                   pRunClosed>>

(***************************************************************************)
(* Mutant: a path whose timer has fired waits for the session only.        *)
(***************************************************************************)
MutPathSentPacket(p) ==
    /\ pPc[p] = "select"
    /\ pSentPacket[p]
    /\ pSentPacket' = [pSentPacket EXCEPT ![p] = FALSE]
    /\ pPc' = [pPc EXCEPT ![p] = "top"]
    /\ UNCHANGED <<sessVars, closeVars, readers, paths, pmVars, open, pCloseChan, pRunClosed>>

PathSentPacket(p) ==
    /\ pPc[p] \in {"select", "fired"}
    /\ pSentPacket[p]
    /\ pSentPacket' = [pSentPacket EXCEPT ![p] = FALSE]
    /\ pPc' = [pPc EXCEPT ![p] = "top"]
    /\ UNCHANGED <<sessVars, closeVars, readers, paths, pmVars, open, pCloseChan, pRunClosed>>

PathExit(p) ==
    /\ pPc[p] = "exit"
    /\ ~pRunClosed[p]
    /\ open' = [open EXCEPT ![p] = FALSE]
    /\ pRunClosed' = [pRunClosed EXCEPT ![p] = TRUE]
    /\ pPc' = [pPc EXCEPT ![p] = "exited"]
    /\ UNCHANGED <<sessVars, closeVars, readers, paths, pmVars, pCloseChan, pSentPacket>>

-----------------------------------------------------------------------------
(***************************************************************************)
(* The run loop of the session, the goroutine of the path manager and that *)
(* of a path.                                                              *)
(***************************************************************************)
SessionStep ==
    \/ RunTop \/ RunClose \/ RunTick \/ RunHandshakeComplete
    \/ ClosePath \/ ClosePathInner \/ AckRemainingPaths \/ EndSending
    \/ HandleCloseError \/ ClosePaths \/ EndRun
    \/ \E p \in Paths :
           \/ RunPathTimer(p) \/ RunRemotePath(p) \/ RunAddAddress(p) \/ RunClosePathFrame(p)
           \/ SendPackedPacket(p) \/ WaitForPath(p)

PathManagerStep ==
    \/ PmHandshakeCompleted \/ PmGetsLock \/ CreatePath \/ PmCreated \/ PmRunClosed \/ PmClosePaths
    \/ \E p \in Paths : PmWantsLock(p)

PathStep(p) == PathTop(p) \/ PathClose(p) \/ PathTimer(p) \/ PathSentPacket(p) \/ PathExit(p)

Next ==
    \/ \E kind \in {"normal", "newVersion"} : Close(kind)
    \/ SessionStep
    \/ PathManagerStep \/ PmChangePaths
    \/ \E p \in Paths : PathStep(p)

Spec == Init /\ [][Next]_vars

(***************************************************************************)
(* Every goroutine that can take a step takes one.  A goroutine that       *)
(* selects among several channels again and again takes each one that is   *)
(* ready at last, as Go chooses at random: this matters for the end of the *)
(* path manager, which must not lose for ever against new addresses.       *)
(***************************************************************************)
Fairness ==
    /\ WF_vars(SessionStep)
    /\ WF_vars(PathManagerStep)
    /\ SF_vars(PmRunClosed)
    /\ \A p \in Paths : WF_vars(PathStep(p))

FairSpec == Spec /\ Fairness

-----------------------------------------------------------------------------
(***************************************************************************)
(* Whether the peer has begun to close a path, and whether the path manager*)
(* has ended by itself, after a PING that failed.                          *)
(***************************************************************************)
PeerClosed == sPc \in {"closePath", "closePathInner"} \/ closedPaths # {}

ManagerFailed == pmPc = "done" /\ ~pmRunClosed /\ sPc \notin {"closing", "closePaths", "wait", "done"}

(***************************************************************************)
(* A path that the goroutine of the path manager creates, and which may    *)
(* come too late for the session to see it when it closes.                 *)
(***************************************************************************)
Late(p) == p # InitialPath /\ p = creating

(***************************************************************************)
(* Close waits for the end of the run loop and returns (session.Close: "It *)
(* waits until the run loop has stopped before returning").                *)
(***************************************************************************)
CloseReturns == (closeOnce # "no") ~> (sPc = "done")

(***************************************************************************)
(* Close returns, whatever the paths and the session are at and whoever    *)
(* sends on which path, as long as nothing else closes a path and the path *)
(* manager creates none meanwhile (session.Close, session.closePaths). And *)
(* a close that reaches the second select of the run loop, which tells the *)
(* path manager, always ends the session and the path manager: a path that *)
(* is created too late for closePaths of the session is closed by the path *)
(* manager when it ends (pathManager.run).                                 *)
(***************************************************************************)
QuietCloseReturns ==
    /\ (closeOnce # "no") ~> (sPc = "done" \/ PeerClosed \/ ManagerFailed \/ creating # InitialPath)
    /\ pmRunClosed ~> (sPc = "done" /\ pmPc = "done")

(***************************************************************************)
(* The goroutines of the paths end with the session, also with one that is *)
(* closed for another version and does not wait for them, but for a path   *)
(* that the path manager creates meanwhile (session.run).                  *)
(***************************************************************************)
PathsStop == (sPc = "done") ~> (\A p \in paths : Late(p) \/ pPc[p] = "exited")

(***************************************************************************)
(* Unless the peer has closed a path or the path manager has failed, the   *)
(* session does not send on a path whose goroutine has ended: as nothing   *)
(* takes the message of the second packet, the run loop would wait for     *)
(* ever (session.sendPackedPacket).                                        *)
(***************************************************************************)
NoStuckSend ==
    PeerClosed \/ ManagerFailed \/ \A p \in toSend : pPc[p] = "exited" => ~pSentPacket[p]

=============================================================================
