------------------------ MODULE MCSentPacketHandler ------------------------
(***************************************************************************)
(* Instances of SentPacketHandler for TLC.                                 *)
(***************************************************************************)
EXTENDS SentPacketHandler

(***************************************************************************)
(* One payload for each way the handler treats a packet that the session   *)
(* sends: reliable data with an ACK, and only frames that are not          *)
(* retransmitted.  The lengths differ so that sums tell packets apart.     *)
(***************************************************************************)
const_Payloads ==
    {[frames |-> {"stream", "ack"}, length |-> 2],
     [frames |-> {"ack", "unreliable"}, length |-> 1]}
=============================================================================
