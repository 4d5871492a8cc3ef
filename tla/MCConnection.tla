---------------------------- MODULE MCConnection ----------------------------
(***************************************************************************)
(* Connection with versions 1 to 3 known to the client.                    *)
(***************************************************************************)
EXTENDS Connection

const_SupportedVersions == <<3, 2, 1>>

Conf(cookie, cache, ours, theirs) ==
    [cookie |-> cookie, cache |-> cache, ours |-> ours, theirs |-> theirs]

const_Configurations ==
    {Conf(TRUE, "none", <<2, 1>>, <<2, 1>>),     \* two rejections
     Conf(TRUE, "current", <<2, 1>>, <<2, 1>>),  \* cached config, the token of which is old
     Conf(TRUE, "stale", <<2, 1>>, <<2, 1>>),    \* that of a server that was restarted
     Conf(FALSE, "none", <<3, 2, 1>>, <<1, 2>>), \* no cookie, one rejection; the version is negotiated
     Conf(FALSE, "none", <<3>>, <<1, 2>>),       \* there is no common one
     Conf(FALSE, "none", <<3, 1>>, <<9, 1>>)}    \* the client does not know one of the server
=============================================================================
