---------------------------- MODULE MCStreamsMap ----------------------------
(***************************************************************************)
(* StreamsMap for the streams 1 to 6 at a server and 1 to 5 at a client,   *)
(* and limits that are reached.                                            *)
(***************************************************************************)
EXTENDS StreamsMap

MCNext == Next /\ (server \/ 6 \notin streams')

MCSpec == Init /\ [][MCNext]_vars /\ Fairness

=============================================================================
