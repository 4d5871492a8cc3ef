----------------------------- MODULE Connection -----------------------------
(***************************************************************************)
(* Making a connection: the client of client.go, which offers a version,   *)
(* may have to start again with another one, and returns from Dial when    *)
(* the handshake is complete; and the server of server.go, which answers   *)
(* packets with unsupported versions, makes the sessions and gives them to *)
(* Accept.  The sessions themselves are those of Handshake.  The network   *)
(* between the two reorders packets, and loses or repeats MaxFaults of     *)
(* them.                                                                   *)
(***************************************************************************)
EXTENDS Handshake

CONSTANTS
    Configurations,  \* the configurations to start from
    MaxFaults        \* bound on lost packets and needless retransmissions

VARIABLES
    dial,       \* the goroutine in Dial, and the client's version flags
    accepted,   \* whether the session went to Accept
    faults

vars == <<conf, client, server, session, written, net, dial, accepted, faults>>
handshakeVars == <<conf, client, server, session, written>>

(* The session the client makes first offers its favourite version under   *)
(* connection ID 1; the server has no session, which is connection ID 0.   *)
Init ==
    /\ conf \in Configurations
    /\ client = UseHandshakeCache(NewCryptoSetupClient(1, conf.ours[1], << >>), conf.cache)
    /\ server = NewCryptoSetup(0, 0)
    /\ session = [e \in Endpoints |-> NewSession(IF e = "client" THEN "idle" ELSE "new")]
    /\ written = [e \in Endpoints |-> << >>]
    /\ net = {}
    /\ dial = [pc |-> "version", versionNegotiated |-> FALSE,
               receivedVersionNegotiationPacket |-> FALSE]
    /\ accepted = FALSE
    /\ faults = 0

-----------------------------------------------------------------------------
(* client.go *)

IsVersionNegotiation(p) == p.level = "version negotiation"

(* Packets the listener drops: of another connection ID, for a session     *)
(* that is closed, and version negotiation packets that come too late or   *)
(* list the version the client offered.                                    *)
ClientIgnores(p) ==
    \/ p.conn # client.conn
    \/ session["client"].pc = "closed"
    \/ /\ IsVersionNegotiation(p)
       /\ \/ dial.receivedVersionNegotiationPacket
          \/ dial.versionNegotiated
          \/ IsSupportedVersion(conf.theirs, client.version)

ClientDropPacket(p) ==
    /\ p \in net /\ p.from = "server" /\ ClientIgnores(p)
    /\ net' = net \ {p}
    /\ UNCHANGED <<handshakeVars, dial, accepted, faults>>

(* The client switches to the best common version: a new session under a   *)
(* new connection ID, while the old one is closed without a word.          *)
SwitchVersion(p, newVersion) ==
    /\ newVersion # VersionUnsupported
    /\ client' = UseHandshakeCache(NewCryptoSetupClient(2, newVersion, conf.theirs), conf.cache)
    /\ session' = [session EXCEPT !["client"] = NewSession("new")]
    /\ written' = [written EXCEPT !["client"] = << >>]
    /\ net' = net \ {p}

(* There is none: the session is closed with InvalidVersion.               *)
InvalidVersion(p, newVersion) ==
    /\ newVersion = VersionUnsupported
    /\ session' = [session EXCEPT !["client"].pc = "closed"]
    /\ net' = (net \ {p}) \cup {Packet("client", GetSealer("client"), ConnectionClose)}
    /\ UNCHANGED <<client, written>>

HandlePacketWithVersionFlag(p) ==
    /\ p \in net /\ p.from = "server" /\ ~ClientIgnores(p) /\ IsVersionNegotiation(p)
    /\ Idle("client")
    /\ LET newVersion == ChooseSupportedVersion(conf.ours, conf.theirs)
       IN SwitchVersion(p, newVersion) \/ InvalidVersion(p, newVersion)
    /\ dial' = [dial EXCEPT !.receivedVersionNegotiationPacket = TRUE]
    /\ UNCHANGED <<conf, server, accepted, faults>>

(* The goroutine that ran the old session runs the new one.                *)
RunNewSession ==
    /\ session["client"].pc = "new"
    /\ session' = [session EXCEPT !["client"].pc = "idle"]
    /\ UNCHANGED <<conf, client, server, written, net, dial, accepted, faults>>

(* Any other packet shows that the server accepts the version.             *)
ClientHandlePacket(p) ==
    /\ p \in net /\ p.from = "server" /\ ~ClientIgnores(p) /\ ~IsVersionNegotiation(p)
    /\ Idle("client")
    /\ dial' = [dial EXCEPT !.versionNegotiated = TRUE]
    /\ session' = [session EXCEPT !["client"] = HandlePacket("client", p)]
    /\ net' = net \ {p}
    /\ UNCHANGED <<conf, client, server, written, accepted, faults>>

(* Dial: the version, then the secure key, then the whole handshake.       *)
EstablishSecureConnection ==
    /\ \/ /\ dial.pc = "version" /\ dial.versionNegotiated
          /\ dial' = [dial EXCEPT !.pc = "secure"]
          /\ UNCHANGED session
       \/ /\ dial.pc = "secure" /\ session["client"].handshakeChan # << >>
          /\ dial' = [dial EXCEPT !.pc = IF Head(session["client"].handshakeChan) = "secure"
                                         THEN "forward" ELSE "failed"]
          /\ session' = [session EXCEPT !["client"].handshakeChan = Tail(@)]
    /\ UNCHANGED <<conf, client, server, written, net, accepted, faults>>

WaitUntilHandshakeComplete ==
    /\ dial.pc = "forward" /\ session["client"].handshakeComplete
    /\ dial' = [dial EXCEPT !.pc = "returned"]
    /\ UNCHANGED <<handshakeVars, net, accepted, faults>>

(* The session was closed: run returned, and Dial returns its error.       *)
DialFails ==
    /\ dial.pc \in {"version", "secure", "forward"}
    /\ session["client"].pc = "closed" /\ ~session["client"].handshakeComplete
    /\ dial' = [dial EXCEPT !.pc = "failed"]
    /\ UNCHANGED <<handshakeVars, net, accepted, faults>>

-----------------------------------------------------------------------------
(* server.go *)

Known(p) == server.conn = p.conn
ServerSupports(p) == IsSupportedVersion(conf.theirs, p.version)

(* Dropped: late packets of a closed session, and packets of an            *)
(* unsupported version that are too small for a client hello.              *)
ServerDropPacket(p) ==
    /\ p \in net /\ p.from = "client"
    /\ \/ Known(p) /\ session["server"].pc = "closed"
       \/ ~Known(p) /\ ~ServerSupports(p) /\ p.msg \in {Data, ConnectionClose}
    /\ net' = net \ {p}
    /\ UNCHANGED <<handshakeVars, dial, accepted, faults>>

(* The versions it lists are those of conf.theirs.                         *)
ComposeVersionNegotiation(conn) ==
    [from |-> "server", conn |-> conn, msg |-> 0, level |-> "version negotiation",
     key |-> NoKey, version |-> 0, nonce |-> 0]

(* A client hello of an unsupported version is answered with the versions  *)
(* the server has; nothing is kept of it.                                  *)
SendVersionNegotiation(p) ==
    /\ p \in net /\ p.from = "client" /\ ~Known(p) /\ ~ServerSupports(p)
    /\ p.msg \notin {Data, ConnectionClose}
    /\ net' = (net \ {p}) \cup {ComposeVersionNegotiation(p.conn)}
    /\ UNCHANGED <<handshakeVars, dial, accepted, faults>>

(* The first packet of a supported version makes the session.              *)
ServeNewConnection(p) ==
    /\ p \in net /\ p.from = "client" /\ ~Known(p) /\ ServerSupports(p)
    /\ server' = NewCryptoSetup(p.conn, p.version)
    /\ session' = [session EXCEPT !["server"] =
                     [NewSession("open") EXCEPT !.packet = {p}]]
    /\ written' = [written EXCEPT !["server"] = << >>]
    /\ net' = net \ {p}
    /\ UNCHANGED <<conf, client, dial, accepted, faults>>

ServerHandlePacket(p) ==
    /\ p \in net /\ p.from = "client" /\ Known(p) /\ Idle("server")
    /\ session' = [session EXCEPT !["server"] = HandlePacket("server", p)]
    /\ net' = net \ {p}
    /\ UNCHANGED <<conf, client, server, written, dial, accepted, faults>>

(* The goroutine that waits for the session to be forward-secure and then  *)
(* queues it for Accept.                                                   *)
QueueSession ==
    /\ ~accepted /\ session["server"].handshakeChan # << >>
    /\ accepted' = (Head(session["server"].handshakeChan) = "forward")
    /\ session' = [session EXCEPT !["server"].handshakeChan = Tail(@)]
    /\ UNCHANGED <<conf, client, server, written, net, dial, faults>>

-----------------------------------------------------------------------------
(* The sessions, the network and the timers.                               *)

SessionStep(e) ==
    /\ \/ SendCryptoPacket(e)
       \/ Open(e)
       \/ HandleAeadChanged(e)
       \/ HandleAeadClosed(e)
       \/ CloseFailed(e)
    /\ UNCHANGED <<dial, accepted, faults>>

ClientSetupStep ==
    /\ \/ MaybeUpgradeCrypto
       \/ KeepListening
       \/ SendCHLO
       \/ SentCHLO
       \/ TakeDiversificationNonce
       \/ ClientHandleMessage
    /\ UNCHANGED <<dial, accepted, faults>>

ServerSetupStep ==
    /\ ServerHandleMessage \/ SentREJ \/ SentSHLO
    /\ UNCHANGED <<dial, accepted, faults>>

(* The applications send as soon as they have the session.                 *)
ApplicationSends(e) ==
    /\ IF e = "client" THEN dial.pc \in {"forward", "returned"} ELSE accepted
    /\ SendData(e)
    /\ UNCHANGED <<dial, accepted, faults>>

(* The retransmission timers of e are slower than what is under way: its   *)
(* packets have arrived, were dropped or lost, and its peer has handled    *)
(* what it has.                                                            *)
TimeToRetransmit(e) ==
    /\ \A p \in net : p.from # e
    /\ session[Peer(e)].pc \notin {"nonce", "open"} /\ session[Peer(e)].aeadChanged = << >>
    /\ Setup(Peer(e)).pc = "failed" => session[Peer(e)].pc = "closed"

(* A packet that did not arrive and is not queued either is found lost.    *)
Retransmit(e) ==
    /\ TimeToRetransmit(e)
    /\ \/ \E number \in DOMAIN written[e] :
            /\ number \notin session[Peer(e)].received
            /\ ~Queued(e, written[e][number].level, number)
            /\ RetransmitHandshake(e, number)
       \/ /\ ~session[Peer(e)].data
          /\ ~Queued(e, "forward", Data)
          /\ RetransmitData(e)
    /\ UNCHANGED <<dial, accepted, faults>>

(* A packet that did arrive is taken for lost.                             *)
RetransmitNeedlessly(e) ==
    /\ faults < MaxFaults
    /\ faults' = faults + 1
    /\ \E number \in session[Peer(e)].received \cap DOMAIN written[e] :
            RetransmitHandshake(e, number)
    /\ UNCHANGED <<dial, accepted>>

LosePacket(p) ==
    /\ p \in net /\ faults < MaxFaults
    /\ faults' = faults + 1
    /\ net' = net \ {p}
    /\ UNCHANGED <<handshakeVars, dial, accepted>>

(* A client whose server closed the session unheard gives up in the end.   *)
HandshakeTimeout ==
    /\ Idle("client") /\ ~session["client"].handshakeComplete
    /\ session["server"].pc = "closed"
    /\ session' = [session EXCEPT !["client"].pc = "closed"]
    /\ net' = net \cup {Packet("client", GetSealer("client"), ConnectionClose)}
    /\ UNCHANGED <<conf, client, server, written, dial, accepted, faults>>

Listen ==
    \E p \in net : ClientDropPacket(p) \/ HandlePacketWithVersionFlag(p)
                     \/ ClientHandlePacket(p)

Serve ==
    \E p \in net : ServerDropPacket(p) \/ SendVersionNegotiation(p)
                     \/ ServeNewConnection(p) \/ ServerHandlePacket(p)

Dial == EstablishSecureConnection \/ WaitUntilHandshakeComplete \/ DialFails

Next ==
    \/ Listen \/ Serve \/ Dial \/ RunNewSession \/ QueueSession
    \/ ClientSetupStep \/ ServerSetupStep \/ HandshakeTimeout
    \/ \E e \in Endpoints : \/ SessionStep(e) \/ ApplicationSends(e)
                            \/ Retransmit(e) \/ RetransmitNeedlessly(e)
    \/ \E p \in net : LosePacket(p)

(* Every goroutine goes on when it can, what is found lost is sent again,  *)
(* and the applications use the session; no fault has to happen.           *)
Fairness ==
    /\ WF_vars(Listen) /\ WF_vars(Serve) /\ WF_vars(Dial)
    /\ WF_vars(RunNewSession) /\ WF_vars(QueueSession)
    /\ WF_vars(ClientSetupStep) /\ WF_vars(ServerSetupStep) /\ WF_vars(HandshakeTimeout)
    /\ \A e \in Endpoints : /\ WF_vars(SessionStep(e))
                            /\ WF_vars(ApplicationSends(e))
                            /\ WF_vars(Retransmit(e))

Spec == Init /\ [][Next]_vars /\ Fairness

-----------------------------------------------------------------------------
(* Properties *)

(* The versions of the server include one that the client does not know    *)
(* and cannot recognise in the server hello.                               *)
UnknownVersions ==
    /\ ~IsSupportedVersion(conf.theirs, conf.ours[1])
    /\ \E i \in DOMAIN conf.theirs : ~IsSupportedVersion(SupportedVersions, conf.theirs[i])

(* A connection cannot be made: no common version; the client kept the     *)
(* server config of a server that was restarted (its nonce, made from the  *)
(* old OBIT, is refused); or unknown versions.                             *)
Hopeless ==
    \/ \A i \in DOMAIN conf.ours : ~IsSupportedVersion(conf.theirs, conf.ours[i])
    \/ conf.cache = "stale"
    \/ UnknownVersions

(***************************************************************************)
(* The two ends agree.  Whenever the client has derived a key, the server  *)
(* has derived the same one from the same hello, nonces and server config, *)
(* although hellos are rejected, repeated and overtaken (maybeUpgrade-     *)
(* Crypto, handleSHLOMessage, handleCHLO).  Dial returns a session that    *)
(* the server has too, forward-secure and under the version the client     *)
(* likes best of those the server has, and an error only when no           *)
(* connection can be made (client.establishSecureConnection).              *)
(***************************************************************************)
EndsAgree ==
    /\ client.secure # NoKey => client.secure = server.secure
    /\ client.fs # NoKey => client.fs = server.fs
    /\ dial.pc = "returned" =>
         /\ client.conn = server.conn /\ client.version = server.version
         /\ \E i \in DOMAIN conf.ours :
               /\ client.version = conf.ours[i]
               /\ \A j \in 1 .. i : IsSupportedVersion(conf.theirs, conf.ours[j]) <=> j = i
         /\ client.fs # NoKey
    /\ dial.pc = "failed" => Hopeless

(***************************************************************************)
(* Where a connection can be made, it is: Dial and Accept return, both     *)
(* sides complete the handshake and forward-secure data gets through both  *)
(* ways, so no goroutine waits for ever on a channel, the crypto stream or *)
(* the nonce of the other (session.run, HandleCryptoStream).  Where it     *)
(* cannot, Dial returns an error; this is not claimed with unknown         *)
(* versions, where the run loop may wait for ever to hand over the nonce   *)
(* of a repeated server hello to a crypto goroutine that has failed.       *)
(***************************************************************************)
ConnectionIsMade ==
    <>(\/ UnknownVersions
       \/ Hopeless /\ dial.pc = "failed"
       \/ /\ dial.pc = "returned" /\ accepted
          /\ \A e \in Endpoints : session[e].handshakeComplete /\ session[e].data)

=============================================================================
