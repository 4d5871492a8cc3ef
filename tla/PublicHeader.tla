---------------------------- MODULE PublicHeader ---------------------------
(***************************************************************************)
(* internal/wire/public_header.go, and the header that                     *)
(* packet_packer.go getPublicHeader makes for a packet.                    *)
(***************************************************************************)
EXTENDS Wire

hasPacketNumber(h, sentBy) == ~h.ResetFlag /\ ~(h.VersionFlag /\ sentBy = "server")

(***************************************************************************)
(* Mutant: the length of the packet number is taken from the number.       *)
(***************************************************************************)
MutGetPublicHeader(pers, encLevel, multipath, truncate, pathID, pnum, leastUnacked) ==
    [VersionFlag |-> pers = "client" /\ encLevel # "ForwardSecure",
     ResetFlag |-> FALSE,
     DiversificationNonce |-> pers = "server" /\ encLevel = "Secure",
     TruncateConnectionID |-> truncate /\ ~multipath,
     MultipathFlag |-> multipath,
     PathID |-> IF multipath THEN pathID ELSE 0,
     PacketNumberLen |-> GetPacketNumberLengthForPublicHeader(pnum, pnum),
     PacketNumber |-> pnum]

(***************************************************************************)
(* The header of a packet.  multipath: the handshake is complete and the   *)
(* version is a multipath one.                                             *)
(***************************************************************************)
getPublicHeader(pers, encLevel, multipath, truncate, pathID, pnum, leastUnacked) ==
    [VersionFlag |-> pers = "client" /\ encLevel # "ForwardSecure",
     ResetFlag |-> FALSE,
     DiversificationNonce |-> pers = "server" /\ encLevel = "Secure",
     TruncateConnectionID |-> truncate /\ ~multipath,
     MultipathFlag |-> multipath,
     PathID |-> IF multipath THEN pathID ELSE 0,
     PacketNumberLen |-> GetPacketNumberLengthForPublicHeader(pnum, leastUnacked),
     PacketNumber |-> pnum]

(***************************************************************************)
(* GetLength is asked for regular packets only.                            *)
(***************************************************************************)
GetLength(h, pers) ==
    1 + (IF hasPacketNumber(h, pers) THEN h.PacketNumberLen ELSE 0)
    + (IF h.TruncateConnectionID THEN 0 ELSE 8)
    + (IF h.VersionFlag THEN 4 ELSE 0)
    + (IF h.DiversificationNonce THEN 32 ELSE 0)
    + (IF h.MultipathFlag THEN 1 ELSE 0)

WriteHeader(h, pers) ==
    [flags |-> [version |-> h.VersionFlag, reset |-> h.ResetFlag,
                connectionID |-> ~h.TruncateConnectionID,
                nonce |-> h.DiversificationNonce,
                lenBits |-> IF hasPacketNumber(h, pers)
                            THEN h.PacketNumberLen \div 2 ELSE 0,
                multipath |-> h.MultipathFlag],
     versionTag |-> h.VersionFlag /\ pers = "client",
     nonce |-> h.DiversificationNonce,
     PathID |-> h.PathID,
     packetNumber |-> WriteUint(h.PacketNumber, h.PacketNumberLen),
     length |-> 1 + (IF h.TruncateConnectionID THEN 0 ELSE 8)
                + (IF h.VersionFlag /\ pers = "client" THEN 4 ELSE 0)
                + (IF h.DiversificationNonce THEN 32 ELSE 0)
                + (IF h.MultipathFlag THEN 1 ELSE 0)
                + (IF hasPacketNumber(h, pers) THEN h.PacketNumberLen ELSE 0)]

(***************************************************************************)
(* ParsePublicHeader.  A client's packet needs its connection ID; without  *)
(* a version that is known or given the packet is refused.  The reader is  *)
(* out of step when it takes or leaves a nonce or a version that is not    *)
(* or is there.                                                            *)
(***************************************************************************)
ParsePublicHeader(w, sentBy, versionKnown) ==
    LET h == [ResetFlag |-> w.flags.reset, VersionFlag |-> w.flags.version]
        len == IF w.flags.lenBits = 0 THEN 1 ELSE 2 * w.flags.lenBits
        readsNonce == sentBy = "server" /\ w.flags.nonce /\ ~h.VersionFlag /\ ~h.ResetFlag
        readsVersion == ~h.ResetFlag /\ h.VersionFlag /\ sentBy = "client"
    IN  IF \/ ~versionKnown /\ ~(h.VersionFlag \/ h.ResetFlag)
           \/ ~w.flags.connectionID /\ sentBy = "client"
           \/ readsNonce # w.nonce
           \/ readsVersion # w.versionTag
        THEN ParseError
        ELSE [PathID |-> IF w.flags.multipath THEN w.PathID ELSE 0,
              PacketNumberLen |-> IF hasPacketNumber(h, sentBy) THEN len ELSE 0,
              PacketNumber |-> IF hasPacketNumber(h, sentBy)
                               THEN ReadUintN(w.packetNumber, len) ELSE 0]
=============================================================================
