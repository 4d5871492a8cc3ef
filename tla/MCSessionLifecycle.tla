------------------------- MODULE MCSessionLifecycle -------------------------
(***************************************************************************)
(* A session with path 0 and one more path, in three scenarios: a server,  *)
(* where a packet of the peer creates the path; a client, where its path   *)
(* manager does; and a client whose peer closes paths and where the PING   *)
(* on the new path may fail.                                               *)
(***************************************************************************)
EXTENDS SessionLifecycle

VARIABLE scenario

Scenario ==
    CASE scenario = "server" -> creating' = InitialPath /\ paths' \cap LocalPaths = {}
      [] OTHER -> paths' \cap RemotePaths = {}

(***************************************************************************)
(* Bounds of the last scenario: the session sends in ackRemainingPaths     *)
(* only, which is on any path, open or not, and on one path at a time; it  *)
(* is closed for good; only the path manager creates the path; and only    *)
(* the timer of path 0 fires.                                              *)
(***************************************************************************)
Failing ==
    /\ sPc = "select" => toSend' = {}
    /\ pmPc # "lock" => paths' = paths
    /\ sPc = "send" => Cardinality(toSend') <= 1
    /\ closeOnce' # "newVersion"
    /\ \A p \in Paths \ {InitialPath} : pPc'[p] # "fired"

NothingFails ==
    /\ sPc' # "closePath"
    /\ pmPc = "lock" => pmPc' \in {"lock", "create"}

MCInit == Init /\ scenario \in {"server", "client", "failing"}

MCNext ==
    /\ Next
    /\ UNCHANGED scenario
    /\ Scenario
    /\ IF scenario = "failing" THEN Failing ELSE NothingFails

MCSpec == MCInit /\ [][MCNext]_<<vars, scenario>> /\ Fairness

(***************************************************************************)
(* The client alone.                                                       *)
(***************************************************************************)
ClientSpec == MCSpec /\ scenario = "client"

=============================================================================
