----------------------------- MODULE PathManager -----------------------------
(***************************************************************************)
(* How the paths of a client come to be (path_manager.go,                  *)
(* pconn_manager.go), and how the server follows.                          *)
(*                                                                         *)
(* One goroutine, the pconn manager, looks for new addresses of the        *)
(* interfaces, opens a socket for each and leaves a token in the channel   *)
(* changePaths.  Another, the path manager, takes the token and creates    *)
(* the missing paths.  The goroutine of the session creates paths as well, *)
(* when an ADD_ADDRESS frame arrives.  The server creates a path when a    *)
(* packet with an unknown path ID arrives.  What becomes of the paths when *)
(* the session closes is in SessionLifecycle.                              *)
(***************************************************************************)
EXTENDS Integers, FiniteSets

CONSTANTS
    Local4, Local6,     \* the addresses the interfaces of the client may have
    EarlyAddrs,         \* those they have when the connection starts
    Remote4, Remote6,   \* the addresses the server may have
    FirstRemote,        \* the one that the client dialled
    Unreachable,        \* pairs of addresses on which a write fails
    IdModulus           \* path IDs have 8 bits: 256

Local == Local4 \cup Local6
Remote == Remote4 \cup Remote6
Pairs == (Local4 \X Remote4) \cup (Local6 \X Remote6)
Nil == "nil"
Creators == {"pathManager", "session"}

PathManagerAssumption ==
    /\ Local4 \cap Local6 = {}
    /\ Remote4 \cap Remote6 = {}
    /\ EarlyAddrs \subseteq Local
    /\ FirstRemote \in Remote
    /\ Unreachable \subseteq Pairs
    /\ IdModulus \in Nat
    /\ 2 * Cardinality(Pairs) < IdModulus

VARIABLES
    ifaceAddrs,     \* the addresses that the interfaces have
    pconns,         \* the addresses with a socket
    localAddrs,     \* the addresses that createPaths looks at
    adding,         \* the address between createPconn and the append to localAddrs
    firstLook,      \* the pconn manager is in the createPconns before its loop
    changePaths,    \* the channel holds a token
    pmPc,           \* where the path manager is
    holder,         \* who is in createPaths, and holds pconnMgr.mutex
    round,          \* the pairs that this createPaths has left
    remoteAddrs,
    paths,          \* path IDs of the client to pairs of addresses, without the initial path
    nxtPathID,
    pings,          \* the packets with a path ID and source address that were sent
    peerPaths       \* path IDs of the server to the address of the client

pcmVars == <<ifaceAddrs, pconns, localAddrs, adding, firstLook>>
peerVars == <<peerPaths>>
vars == <<pcmVars, changePaths, pmPc, holder, round, remoteAddrs, paths, nxtPathID, pings, peerVars>>

Init ==
    /\ ifaceAddrs = EarlyAddrs
    /\ pconns = {}
    /\ localAddrs = {}
    /\ adding = Nil
    /\ firstLook = TRUE
    /\ changePaths = FALSE
    /\ pmPc = "handshake"
    /\ holder = Nil
    /\ round = {}
    /\ remoteAddrs = {FirstRemote}
    /\ paths = [id \in {} |-> Nil]
    /\ nxtPathID = 1
    /\ pings = {}
    /\ peerPaths = [id \in {} |-> Nil]

-----------------------------------------------------------------------------
(***************************************************************************)
(* The goroutine of the pconn manager.                                     *)
(***************************************************************************)

\* An interface of the machine gets an address.
NewAddress(a) ==
    /\ a \notin ifaceAddrs
    /\ ifaceAddrs' = ifaceAddrs \cup {a}
    /\ UNCHANGED <<pconns, localAddrs, adding, firstLook, changePaths, pmPc, holder, round, remoteAddrs,
                   paths, nxtPathID, pings, peerVars>>

\* createPconns finds an address that localAddrs lacks, and calls createPconn.
CreatePconn(a) ==
    /\ adding = Nil
    /\ a \in ifaceAddrs \ localAddrs
    /\ holder = Nil
    /\ pconns' = pconns \cup {a}
    /\ changePaths' = TRUE
    /\ adding' = a
    /\ UNCHANGED <<ifaceAddrs, localAddrs, firstLook, pmPc, holder, round, remoteAddrs, paths, nxtPathID,
                   pings, peerVars>>

\* Back in createPconns, which appends the address without the mutex
AppendLocalAddr ==
    /\ adding # Nil
    /\ localAddrs' = localAddrs \cup {adding}
    /\ adding' = Nil
    /\ UNCHANGED <<ifaceAddrs, pconns, firstLook, changePaths, pmPc, holder, round, remoteAddrs, paths,
                   nxtPathID, pings, peerVars>>

(***************************************************************************)
(* Mutant: no token after the first look.                                  *)
(***************************************************************************)
MutEndFirstLook ==
    /\ firstLook
    /\ adding = Nil
    /\ EarlyAddrs \subseteq localAddrs
    /\ firstLook' = FALSE
    /\ UNCHANGED <<ifaceAddrs, pconns, localAddrs, adding, changePaths, pmPc, holder, round, remoteAddrs,
                   paths, nxtPathID, pings, peerVars>>

\* The first createPconns has returned; run leaves a token and starts the timer.
EndFirstLook ==
    /\ firstLook
    /\ adding = Nil
    /\ EarlyAddrs \subseteq localAddrs
    /\ firstLook' = FALSE
    /\ changePaths' = TRUE
    /\ UNCHANGED <<ifaceAddrs, pconns, localAddrs, adding, pmPc, holder, round, remoteAddrs, paths,
                   nxtPathID, pings, peerVars>>

-----------------------------------------------------------------------------
(***************************************************************************)
(* createPaths and createPath, called by the path manager and by the       *)
(* session.  The addresses are read when the round starts; an address of   *)
(* the server that arrives during a round of the path manager gets its own *)
(* round.                                                                  *)
(***************************************************************************)

StartRound(g, locals, remotes) ==
    /\ holder = Nil
    /\ holder' = g
    /\ round' = (locals \X remotes) \cap Pairs

HandshakeCompleted ==
    /\ pmPc = "handshake"
    /\ StartRound("pathManager", localAddrs, remoteAddrs)
    /\ pmPc' = "first"
    /\ UNCHANGED <<pcmVars, changePaths, remoteAddrs, paths, nxtPathID, pings, peerVars>>

ChangePaths ==
    /\ pmPc = "loop"
    /\ changePaths
    /\ changePaths' = FALSE
    /\ pmPc' = "next"
    /\ UNCHANGED <<pcmVars, holder, round, remoteAddrs, paths, nxtPathID, pings, peerVars>>

StartNextRound ==
    /\ pmPc = "next"
    /\ StartRound("pathManager", localAddrs, remoteAddrs)
    /\ pmPc' = "loop"
    /\ UNCHANGED <<pcmVars, changePaths, remoteAddrs, paths, nxtPathID, pings, peerVars>>

\* The frame may repeat an address; it starts a round in any case.
HandleAddAddressFrame(r) ==
    /\ pmPc # "handshake"
    /\ remoteAddrs' = remoteAddrs \cup {r}
    /\ StartRound("session", localAddrs, remoteAddrs')
    /\ UNCHANGED <<pcmVars, changePaths, pmPc, paths, nxtPathID, pings, peerVars>>

(***************************************************************************)
(* Mutant: the path ID is not advanced.                                    *)
(***************************************************************************)
MutAddPath(pair) ==
    /\ paths' = [id \in DOMAIN paths \cup {nxtPathID} |->
                     IF id = nxtPathID THEN pair ELSE paths[id]]
    /\ nxtPathID' = nxtPathID
    /\ pings' = IF pair \in Unreachable THEN pings ELSE pings \cup {<<nxtPathID, pair[1]>>}

\* The new path and its PING
AddPath(pair) ==
    /\ paths' = [id \in DOMAIN paths \cup {nxtPathID} |->
                     IF id = nxtPathID THEN pair ELSE paths[id]]
    /\ nxtPathID' = (nxtPathID + 2) % IdModulus
    /\ pings' = IF pair \in Unreachable THEN pings ELSE pings \cup {<<nxtPathID, pair[1]>>}

PathExists(pair) == \E id \in DOMAIN paths : paths[id] = pair

\* One call of createPath, under pathsLock; an error ends the round.
CreatePath(g, pair) ==
    /\ holder = g
    /\ pair \in round
    /\ \/ /\ PathExists(pair)
          /\ UNCHANGED <<paths, nxtPathID, pings>>
       \/ /\ ~PathExists(pair)
          /\ AddPath(pair)
    /\ \/ /\ PathExists(pair) \/ pair \notin Unreachable
          /\ round' = round \ {pair}
          /\ UNCHANGED <<holder, pmPc>>
       \/ /\ ~PathExists(pair)
          /\ pair \in Unreachable
          /\ round' = {}
          /\ holder' = Nil
          /\ pmPc' = IF g = "pathManager" /\ pmPc = "first" THEN "done" ELSE pmPc
    /\ UNCHANGED <<pcmVars, changePaths, remoteAddrs, peerVars>>

EndRound(g) ==
    /\ holder = g
    /\ round = {}
    /\ holder' = Nil
    /\ pmPc' = IF g = "pathManager" /\ pmPc = "first" THEN "loop" ELSE pmPc
    /\ UNCHANGED <<round, pcmVars, changePaths, remoteAddrs, paths, nxtPathID, pings, peerVars>>

-----------------------------------------------------------------------------
(***************************************************************************)
(* The server gets a packet of a path that it does not know.  Packets may  *)
(* be lost, repeated and overtaken.                                        *)
(***************************************************************************)
CreatePathFromRemote(id, a) ==
    /\ <<id, a>> \in pings
    /\ id \notin DOMAIN peerPaths
    /\ id % 2 # 0
    /\ peerPaths' = [i \in DOMAIN peerPaths \cup {id} |-> IF i = id THEN a ELSE peerPaths[i]]
    /\ UNCHANGED <<pcmVars, changePaths, pmPc, holder, round, remoteAddrs, paths, nxtPathID, pings>>

PconnManagerStep == (\E a \in Local : CreatePconn(a)) \/ AppendLocalAddr \/ EndFirstLook
PathManagerStep ==
    \/ HandshakeCompleted
    \/ ChangePaths
    \/ StartNextRound
    \/ \E pair \in Pairs : CreatePath("pathManager", pair)
    \/ EndRound("pathManager")
SessionStep == (\E pair \in Pairs : CreatePath("session", pair)) \/ EndRound("session")

Next ==
    \/ \E a \in Local : NewAddress(a)
    \/ PconnManagerStep
    \/ PathManagerStep
    \/ \E r \in Remote : HandleAddAddressFrame(r)
    \/ SessionStep
    \/ \E ping \in pings : CreatePathFromRemote(ping[1], ping[2])

Spec == Init /\ [][Next]_vars

-----------------------------------------------------------------------------
(***************************************************************************)
(* A path ID means the same path to both sides: the server never has a     *)
(* path that the client lacks or that starts at another address, however   *)
(* late the packets of the path arrive. Though the path manager and the    *)
(* session both create paths, in any number of rounds, two addresses have  *)
(* one path at most, and the socket that createPath takes from pconns      *)
(* without asking is there (pathManager.createPath, createPathFromRemote). *)
(***************************************************************************)
PathsAgree ==
    /\ \A id \in DOMAIN peerPaths : id \in DOMAIN paths /\ peerPaths[id] = paths[id][1]
    /\ \A i, j \in DOMAIN paths : paths[i] = paths[j] => i = j
    /\ \A id \in DOMAIN paths : paths[id][1] \in pconns

(***************************************************************************)
(* Nobody has anything left to do: the addresses of the interfaces are in  *)
(* localAddrs, the path manager has taken the tokens, and no createPaths   *)
(* is under way.                                                           *)
(***************************************************************************)
Settled ==
    /\ pmPc = "loop" /\ holder = Nil
    /\ ~changePaths /\ ~firstLook
    /\ adding = Nil /\ ifaceAddrs \subseteq localAddrs

(***************************************************************************)
(* The addresses that the interfaces have when the connection starts are   *)
(* used: when all has settled there is a path from each of them to every   *)
(* address of the server of its IP version, unless a write has failed,     *)
(* which ends a round (pconnManager.run, pathManager.createPaths).         *)
(***************************************************************************)
PairsGetPaths ==
    Settled /\ (\A id \in DOMAIN paths : paths[id] \notin Unreachable) =>
        \A pair \in Pairs :
            pair[1] \in EarlyAddrs /\ pair[2] \in remoteAddrs => PathExists(pair)

=============================================================================
