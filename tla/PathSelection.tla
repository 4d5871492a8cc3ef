---------------------------- MODULE PathSelection ----------------------------
(***************************************************************************)
(* The selection of the path that the next packet is sent on               *)
(* (scheduler.go): selectPathLowLatency, and selectPathUnreliable when     *)
(* that finds no path and unreliable data waits.  Both loop over a map, so *)
(* that the paths come in any order.  The quotas count the packets that    *)
(* were sent on a path.                                                    *)
(***************************************************************************)
EXTENDS Integers, FiniteSets, SequencesExt

CONSTANTS
    InitialPath,   \* path 0
    OtherPaths,
    RTTs,          \* the values of the smoothed RTT, 0 while there is no sample
    MaxQuota       \* the packets of all paths are counted up to this bound

AllPaths == {InitialPath} \cup OtherPaths
Nil == "nil"

PathSelectionAssumption ==
    /\ InitialPath \notin OtherPaths
    /\ 0 \in RTTs
    /\ RTTs \subseteq Nat
    /\ MaxQuota \in Nat

VARIABLES
    paths,          \* the keys of the map of paths
    smoothedRTT, sendingAllowed,
    potentiallyFailed,  \* of the other paths; that of path 0 is not looked at
    quotas, quotas2,
    selection       \* the path that sendPacket has selected, among which, and is about to send on

envVars == <<paths, smoothedRTT, sendingAllowed, potentiallyFailed>>
vars == <<envVars, quotas, quotas2, selection>>

NoSelection == [kind |-> "none", retransmission |-> FALSE, among |-> {}, path |-> Nil]

Init ==
    /\ paths = {InitialPath}
    /\ smoothedRTT = [p \in AllPaths |-> 0]
    /\ sendingAllowed = [p \in AllPaths |-> TRUE]
    /\ potentiallyFailed = [p \in OtherPaths |-> FALSE]
    /\ quotas = [p \in AllPaths |-> 0]
    /\ quotas2 = [p \in AllPaths |-> 0]
    /\ selection = NoSelection

-----------------------------------------------------------------------------
(***************************************************************************)
(* What the other parts change: a path is created, a sample of the RTT is  *)
(* taken, the congestion window has room again or shrinks, a path times    *)
(* out or is heard of again.  The path manager creates paths at any time;  *)
(* the rest happens in the goroutine of the session, between its rounds of *)
(* sending.                                                                *)
(***************************************************************************)
CreatePath(p) ==
    /\ p \notin paths
    /\ paths' = paths \cup {p}
    /\ UNCHANGED <<smoothedRTT, sendingAllowed, potentiallyFailed, quotas, quotas2, selection>>

UpdateRTT(p, rtt) ==
    /\ selection = NoSelection
    /\ p \in paths
    /\ rtt # 0
    /\ smoothedRTT' = [smoothedRTT EXCEPT ![p] = rtt]
    /\ UNCHANGED <<paths, sendingAllowed, potentiallyFailed, quotas, quotas2, selection>>

ReceiveAck(p) ==
    /\ selection = NoSelection
    /\ p \in paths
    /\ sendingAllowed' = [sendingAllowed EXCEPT ![p] = TRUE]
    /\ potentiallyFailed' = [q \in OtherPaths |-> q # p /\ potentiallyFailed[q]]
    /\ UNCHANGED <<paths, smoothedRTT, quotas, quotas2, selection>>

OnPacketLost(p) ==
    /\ selection = NoSelection
    /\ p \in paths
    /\ sendingAllowed' = [sendingAllowed EXCEPT ![p] = FALSE]
    /\ UNCHANGED <<paths, smoothedRTT, potentiallyFailed, quotas, quotas2, selection>>

OnRTO(p) ==
    /\ selection = NoSelection
    /\ p \in paths
    /\ potentiallyFailed' = [potentiallyFailed EXCEPT ![p] = TRUE]
    /\ UNCHANGED <<paths, smoothedRTT, sendingAllowed, quotas, quotas2, selection>>

-----------------------------------------------------------------------------
(***************************************************************************)
(* The paths that the loops consider.                                      *)
(***************************************************************************)
Considered(hasRetransmission) ==
    {p \in paths \ {InitialPath} :
        /\ hasRetransmission \/ sendingAllowed[p]
        /\ ~potentiallyFailed[p]}

(***************************************************************************)
(* Mutant: an RTT of zero counts as the lowest.                            *)
(***************************************************************************)
MutNextSelected(selected, p) ==
    IF selected = Nil \/ smoothedRTT[p] < smoothedRTT[selected] THEN p ELSE selected

(***************************************************************************)
(* The loop of selectPathLowLatency, for one path more.  lowerRTT is the   *)
(* RTT of the path selected so far, and 0 without one.                     *)
(***************************************************************************)
NextSelected(selected, p) ==
    LET lowerRTT == IF selected = Nil THEN 0 ELSE smoothedRTT[selected]
        currentRTT == smoothedRTT[p]
    IN  IF \/ lowerRTT # 0 /\ currentRTT = 0
           \/ currentRTT = 0 /\ selected # Nil /\ quotas[p] > quotas[selected]
           \/ currentRTT # 0 /\ lowerRTT # 0 /\ currentRTT >= lowerRTT
        THEN selected
        ELSE p

(***************************************************************************)
(* The branch for a retransmission from a path without an RTT sample:      *)
(* any other path with a lower quota.                                      *)
(***************************************************************************)
UnprobedAlternatives(hasRetransmission, hasStreamRetransmission, from) ==
    IF hasRetransmission /\ hasStreamRetransmission /\ smoothedRTT[from] = 0
    THEN {p \in paths \ {InitialPath, from} : quotas[p] < quotas[from]}
    ELSE {}

(***************************************************************************)
(* The paths that selectPathLowLatency may return, over all orders of the  *)
(* map.                                                                    *)
(***************************************************************************)
SelectPathLowLatency(hasRetransmission, hasStreamRetransmission, from) ==
    LET alternatives == UnprobedAlternatives(hasRetransmission, hasStreamRetransmission, from)
    IN  IF Cardinality(paths) <= 1
        THEN {IF hasRetransmission \/ sendingAllowed[InitialPath] THEN InitialPath ELSE Nil}
        ELSE IF alternatives # {}
        THEN alternatives
        ELSE {FoldLeft(NextSelected, Nil, order) :
                 order \in SetToSeqs(Considered(hasRetransmission))}

(***************************************************************************)
(* selectPathUnreliable: a path with the lowest quota, whether its         *)
(* congestion window has room or not.                                      *)
(***************************************************************************)
SelectPathUnreliable(hasRetransmission) ==
    LET usable == {p \in paths \ {InitialPath} : ~potentiallyFailed[p]}
        NextUsed(selected, p) ==
            IF selected = Nil \/ quotas2[p] < quotas2[selected] THEN p ELSE selected
    IN  IF Cardinality(paths) <= 1
        THEN {IF hasRetransmission \/ sendingAllowed[InitialPath] THEN InitialPath ELSE Nil}
        ELSE {FoldLeft(NextUsed, Nil, order) : order \in SetToSeqs(usable)}

(***************************************************************************)
(* performPacketSending: there may be nothing to send; a packet may fill   *)
(* the congestion window; and it is counted in quotas2 if the window of    *)
(* the path is full after it.                                              *)
(***************************************************************************)
PerformPacketSending(outcome) ==
    LET p == selection.path
        allowed == sendingAllowed[p] /\ outcome # "full"
    IN  /\ selection.kind # "none"
        /\ selection' = NoSelection
        /\ IF p = Nil \/ outcome = "nothing"
           THEN UNCHANGED <<sendingAllowed, quotas, quotas2>>
           ELSE /\ MapThenSumSet(LAMBDA q : quotas[q] + quotas2[q], AllPaths) < MaxQuota
                /\ sendingAllowed' = [sendingAllowed EXCEPT ![p] = allowed]
                /\ IF allowed
                   THEN /\ quotas' = [quotas EXCEPT ![p] = @ + 1]
                        /\ UNCHANGED quotas2
                   ELSE /\ quotas2' = [quotas2 EXCEPT ![p] = @ + 1]
                        /\ UNCHANGED quotas
        /\ UNCHANGED <<paths, smoothedRTT, potentiallyFailed>>

(***************************************************************************)
(* The selection of one round of sendPacket.  The path that a              *)
(* retransmission is from, and whether there are stream frames to          *)
(* retransmit, matter only if there is one.                                *)
(***************************************************************************)
SelectPath(hasRetransmission, hasStreamRetransmission, from, unreliableData) ==
    /\ selection = NoSelection
    /\ IF hasRetransmission THEN from \in paths ELSE from = InitialPath /\ ~hasStreamRetransmission
    /\ LET low == SelectPathLowLatency(hasRetransmission, hasStreamRetransmission, from)
           alternatives == UnprobedAlternatives(hasRetransmission, hasStreamRetransmission, from)
           kind == IF low = {Nil} /\ unreliableData THEN "unreliable"
                   ELSE IF Cardinality(paths) > 1 /\ alternatives # {} THEN "unprobed"
                   ELSE "lowLatency"
       IN  \E p \in IF kind = "unreliable" THEN SelectPathUnreliable(hasRetransmission) ELSE low :
              selection' = [kind |-> kind, retransmission |-> hasRetransmission, among |-> paths,
                            path |-> p]
    /\ UNCHANGED <<envVars, quotas, quotas2>>

Next ==
    \/ \E p \in OtherPaths : CreatePath(p)
    \/ \E p \in AllPaths :
          ReceiveAck(p) \/ OnPacketLost(p) \/ \E rtt \in RTTs : UpdateRTT(p, rtt)
    \/ \E p \in OtherPaths : OnRTO(p)
    \/ \E hasRetransmission, hasStreamRetransmission, unreliableData \in BOOLEAN :
          \E from \in AllPaths :
             SelectPath(hasRetransmission, hasStreamRetransmission, from, unreliableData)
    \/ \E outcome \in {"nothing", "room", "full"} : PerformPacketSending(outcome)

Spec == Init /\ [][Next]_vars

-----------------------------------------------------------------------------
(***************************************************************************)
(* The paths that may be selected, and the best of them.                   *)
(***************************************************************************)
Eligible ==
    {p \in selection.among \ {InitialPath} :
        /\ selection.kind = "unreliable" \/ selection.retransmission \/ sendingAllowed[p]
        /\ ~potentiallyFailed[p]}

LowestRTT ==
    LET probed == {p \in Eligible : smoothedRTT[p] # 0}
    IN  IF probed # {}
        THEN /\ selection.path \in probed
             /\ \A q \in probed : smoothedRTT[selection.path] <= smoothedRTT[q]
        ELSE \A q \in Eligible : quotas[selection.path] <= quotas[q]

LeastUsed == \A q \in Eligible : quotas2[selection.path] <= quotas2[q]

(***************************************************************************)
(* The path that a packet is sent on is the right one, for every order of  *)
(* the map of paths. selectPathLowLatency returns an eligible path with    *)
(* the lowest RTT; a path without a sample only if no path has one, and    *)
(* then one with the lowest quota; and none only if none is eligible,      *)
(* where a path is eligible if it works and its congestion window has room *)
(* or there is something to retransmit. selectPathUnreliable returns the   *)
(* working path that was used least for such data. The initial path is     *)
(* used only while it is alone (scheduler.go: "Avoid using PathID 0 if     *)
(* there is more than 1 path").                                            *)
(***************************************************************************)
RightPath ==
    /\ selection.path = InitialPath => selection.among = {InitialPath}
    /\ selection.kind \in {"lowLatency", "unreliable"} /\ Cardinality(selection.among) > 1 =>
          IF Eligible = {} THEN selection.path = Nil
          ELSE /\ selection.path \in Eligible
               /\ IF selection.kind = "unreliable" THEN LeastUsed ELSE LowestRTT
    /\ selection.among = {InitialPath} /\ ~selection.retransmission /\ selection.path # Nil =>
          sendingAllowed[InitialPath]

=============================================================================
