--------------------------- MODULE MCPacketSending ---------------------------
(***************************************************************************)
(* The way of data into packets and onto paths: StreamFramer and, beside   *)
(* it, StreamRoundRobin, PacketSending, PathSelection and PathManager.     *)
(* A scenario is one of                                                    *)
(*   - shared: two reliable streams that share packets and the window of   *)
(*     the connection;                                                     *)
(*   - unreliable: a reliable and an unreliable stream share packets;      *)
(*   - single: one stream in packets of two sizes, with early data;        *)
(*   - robin3: the round robin over stream 3 and two others;               *)
(*   - robin: the round robin over three others;                           *)
(*   - plain: three paths share the packer, without PING frames;           *)
(*   - pinging: two paths, with all sources of PING frames, and no other   *)
(*     control frames but WINDOW_UPDATE;                                   *)
(*   - selection: the selection among path 0 and two other paths;          *)
(*   - manager: a client with an early and a late address creates paths to *)
(*     the addresses of a server, and one pair of addresses is unreachable.*)
(***************************************************************************)
EXTENDS StreamFramer, TLC

CONSTANTS p0, p1, p2, q1, q2, o1, a1, a2, r1, r2, s1, t1, t2

VARIABLES
    scenario,
    queue, stopWaiting, ackFrame, crypto, streamData, sealer, ackPending, leastUnackedMoved,
    pc, path, windowUpdateFrames, remaining, managerPath, bug, unsent, ackTaken,
    paths, smoothedRTT, sendingAllowed, potentiallyFailed, quotas, quotas2, selection,
    ifaceAddrs, pconns, localAddrs, adding, firstLook, changePaths, pmPc, holder, round,
    remoteAddrs, pairOf, nxtPathID, pings, peerPaths,
    openStreams, roundRobinIndex, unreliableRobinIndex, hasData, served, allowed, passed

sendingVars == <<queue, stopWaiting, ackFrame, crypto, streamData, sealer, ackPending,
                 leastUnackedMoved, pc, path, windowUpdateFrames, remaining,
                 managerPath, bug, unsent, ackTaken>>
selectionVars == <<paths, smoothedRTT, sendingAllowed, potentiallyFailed, quotas, quotas2,
                   selection>>
managerVars == <<ifaceAddrs, pconns, localAddrs, adding, firstLook, changePaths, pmPc, holder,
                 round, remoteAddrs, pairOf, nxtPathID, pings, peerPaths>>
robinVars == <<openStreams, roundRobinIndex, unreliableRobinIndex, hasData, served, allowed,
               passed>>
mcVars == <<vars, scenario, robinVars, sendingVars, selectionVars, managerVars>>

WithThree == INSTANCE StreamRoundRobin WITH
    StreamIDs <- {3, 5, 9}, Marked <- {9}, Unreliable <- {9}, MaxFill <- 2, MaxPassed <- 4

Without == INSTANCE StreamRoundRobin WITH
    StreamIDs <- {5, 7, 9}, Marked <- {9}, Unreliable <- {9}, MaxFill <- 1, MaxPassed <- 4

Plain == INSTANCE PacketSending WITH
    InitialPath <- p0, OtherPaths <- {p1, p2}, Room <- 3, MaxQueue <- 3,
    KeepAlive <- FALSE, ProbesPaths <- FALSE, ManagerPings <- FALSE,
    controlFrames <- queue, forwardSecure <- sealer

Pinging == INSTANCE PacketSending WITH
    InitialPath <- p0, OtherPaths <- {o1}, Room <- 3, MaxQueue <- 3,
    KeepAlive <- TRUE, ProbesPaths <- TRUE, ManagerPings <- TRUE,
    controlFrames <- queue, forwardSecure <- sealer

Selection == INSTANCE PathSelection WITH
    InitialPath <- p0, OtherPaths <- {q1, q2}, RTTs <- {0, 1, 2}, MaxQuota <- 2

Manager == INSTANCE PathManager WITH
    Local4 <- {a1, a2}, Local6 <- {}, EarlyAddrs <- {a1}, Remote4 <- {r1, r2}, Remote6 <- {s1},
    FirstRemote <- r1, Unreachable <- {<<a2, r1>>}, IdModulus <- 256, paths <- pairOf

ASSUME
    /\ WithThree!StreamRoundRobinAssumption
    /\ Without!StreamRoundRobinAssumption
    /\ Plain!PacketSendingAssumption
    /\ Pinging!PacketSendingAssumption
    /\ Selection!PathSelectionAssumption
    /\ Manager!PathManagerAssumption

Frames == scenario \in {"shared", "unreliable", "single"}
NoOther == \A i \in DOMAIN queue : queue[i] # "OTHER"

Written(s) == dataForWriting[s] + writeOffset[s]
AllOfSize(max) == \A p \in inFlight : p.max = max

Bounds ==
    CASE scenario = "shared" ->
           /\ unreliable = {} /\ handshakeComplete /\ AllOfSize(7) /\ losses <= 1
           /\ Written(t2) <= 1
      [] scenario = "unreliable" ->
           /\ unreliable = {t2} /\ handshakeComplete /\ AllOfSize(7)
           /\ Written(t1) <= 1 /\ Written(t2) <= 1
      [] scenario = "single" ->
           /\ unreliable = {t2} /\ Written(t2) = 0 /\ t2 \notin finishedWriting
           /\ losses <= IF handshakeComplete /\ early = {} THEN 2 ELSE 1
      [] OTHER -> unreliable = {} /\ handshakeComplete

MCInit ==
    /\ scenario \in {"shared", "unreliable", "single", "robin3", "robin", "plain", "pinging",
                     "selection", "manager"}
    /\ Init /\ Bounds
    /\ \A s \in Streams : sendWindow[s] = IF scenario = "single" THEN 1 ELSE 2
    /\ IF scenario = "robin3" THEN WithThree!Init ELSE Without!Init
    /\ Plain!Init
    /\ Selection!Init
    /\ Manager!Init

MCNext ==
    /\ UNCHANGED scenario
    /\ \/ /\ Frames /\ Next /\ Bounds'
          /\ UNCHANGED <<robinVars, sendingVars, selectionVars, managerVars>>
       \/ /\ scenario = "robin3" /\ WithThree!Next
          /\ UNCHANGED <<vars, sendingVars, selectionVars, managerVars>>
       \/ /\ scenario = "robin" /\ Without!Next
          /\ UNCHANGED <<vars, sendingVars, selectionVars, managerVars>>
       \/ /\ scenario = "plain" /\ Plain!Next
          /\ UNCHANGED <<vars, robinVars, selectionVars, managerVars>>
       \/ /\ scenario = "pinging" /\ Pinging!Next /\ NoOther'
          /\ UNCHANGED <<vars, robinVars, selectionVars, managerVars>>
       \/ /\ scenario = "selection" /\ Selection!Next /\ smoothedRTT'[p0] <= 1
          /\ UNCHANGED <<vars, robinVars, sendingVars, managerVars>>
       \/ /\ scenario = "manager" /\ Manager!Next
          /\ UNCHANGED <<vars, robinVars, sendingVars, selectionVars>>

MCSpec == MCInit /\ [][MCNext]_mcVars

-----------------------------------------------------------------------------
(***************************************************************************)
(* Every control frame but PING is packed as often as it is queued         *)
(* (packetPacker.PackPacket), with and without PING frames.                *)
(***************************************************************************)
ControlFramesOnce == scenario \in {"plain", "pinging"} => Pinging!ControlFramesOnce

(***************************************************************************)
(* Without PING frames, an ACK that was taken from the receiver stays in   *)
(* the packer until a packet of its path takes it (scheduler.sendPacket).  *)
(***************************************************************************)
AckIsKept == scenario = "plain" => Plain!AckIsKept

(***************************************************************************)
(* The scheduler selects the right path in whatever order the map of paths *)
(* comes (selectPathLowLatency, selectPathUnreliable).                     *)
(***************************************************************************)
RightPath == scenario = "selection" => Selection!RightPath

(***************************************************************************)
(* A path ID means the same path to both sides, and two addresses have one *)
(* path at most, with a socket (pathManager.createPath,                    *)
(* createPathFromRemote).                                                  *)
(***************************************************************************)
PathsAgree == scenario = "manager" => Manager!PathsAgree

(***************************************************************************)
(* When all has settled, the addresses known at the start have paths to    *)
(* all addresses of the server (pathManager.createPaths).                  *)
(***************************************************************************)
PairsGetPaths == scenario = "manager" => Manager!PairsGetPaths

(***************************************************************************)
(* While no stream comes or goes, a stream with data that the peer opened  *)
(* as a reliable one is passed over by at most one packet for each other   *)
(* stream (RoundRobinIterate2).                                            *)
(***************************************************************************)
ServedInTime ==
    /\ scenario = "robin3" => WithThree!ServedInTime
    /\ scenario = "robin" => Without!ServedInTime
=============================================================================
