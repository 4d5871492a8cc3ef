----------------------------- MODULE Handshake -----------------------------
(***************************************************************************)
(* The QUIC crypto handshake: the crypto setups of a client and of a       *)
(* server (internal/handshake), each driven by a goroutine of its own      *)
(* (HandleCryptoStream), and what the run loops of the two sessions do for *)
(* them: they pop the messages off the crypto stream, seal and open the    *)
(* packets, hand over the diversification nonce, queue what they cannot    *)
(* decrypt yet and react to the aeadChanged channel.                       *)
(*                                                                         *)
(* A packet carries one handshake message (by its number on the crypto     *)
(* stream of its sender), one piece of application data, or a              *)
(* CONNECTION_CLOSE.  A key is the tuple of the inputs of its derivation,  *)
(* so two keys are equal exactly when the two sides derived them from the  *)
(* same inputs.  The module has the steps of the two endpoints; Connection *)
(* joins them with the client and the server that own the sessions.        *)
(***************************************************************************)
EXTENDS Integers, Sequences, FiniteSets

CONSTANTS
    MaxClientHellos,          \* protocol.MaxClientHellos
    MaxUndecryptablePackets,  \* protocol.MaxUndecryptablePackets
    AeadChangedSize,          \* capacity of the aeadChanged channel of a session
    HandshakeChanSize,        \* capacity of the handshakeChan of a session
    SupportedVersions         \* protocol.SupportedVersions of the client

ASSUME HandshakeAssumption ==
    /\ {MaxClientHellos, AeadChangedSize, HandshakeChanSize} \subseteq Nat \ {0}
    /\ MaxUndecryptablePackets \in Nat

VARIABLES
    conf,      \* the configuration: cookies demanded, cache of the client, versions
    client,    \* cryptoSetupClient of the session the client runs
    server,    \* cryptoSetupServer of the session the server has for it
    session,   \* the two sessions' run loops
    written,   \* the messages each side put into packets, with their level
    net        \* packets on their way

Endpoints == {"client", "server"}
Peer(e) == IF e = "client" THEN "server" ELSE "client"
Setup(e) == IF e = "client" THEN client ELSE server

NoKey == << >>
NullKey == <<"null">>

(* What the packets carry besides the message with a given number.         *)
Data == 0
ConnectionClose == -1

-----------------------------------------------------------------------------
(* Initial states of a crypto setup and of a session.                      *)

NewCryptoSetupClient(conn, version, negotiatedVersions) ==
    [pc |-> "upgrade", conn |-> conn, version |-> version,
     negotiatedVersions |-> negotiatedVersions, clientHelloCounter |-> 0,
     stk |-> "none", serverConfig |-> "none", nonc |-> "none", leafCert |-> FALSE,
     serverVerified |-> FALSE, chlo |-> << >>, lastSentCHLO |-> 0,
     divNonce |-> 0, secure |-> NoKey, fs |-> NoKey, receivedSecure |-> FALSE]

(* A cached server config comes with the certificate, with a token which   *)
(* no later session of the server can decode (each has a generator with a  *)
(* key of its own), and with a client nonce made from its OBIT.            *)
UseHandshakeCache(setup, cache) ==
    IF cache = "none" THEN setup
    ELSE [setup EXCEPT !.stk = "old", !.serverConfig = cache, !.nonc = cache,
                       !.leafCert = TRUE, !.serverVerified = TRUE]

(* A new server setup.                                                     *)
NewCryptoSetup(conn, version) ==
    [pc |-> "read", conn |-> conn, version |-> version, reply |-> << >>,
     divNonce |-> 0, secure |-> NoKey, fs |-> NoKey, receivedSecure |-> FALSE,
     receivedForwardSecure |-> FALSE, sentSHLO |-> FALSE]

(* A new session, whose run loop is at pc.                                 *)
NewSession(pc) ==
    [pc |-> pc, packet |-> {}, aeadChanged |-> << >>, closed |-> FALSE,
     handshakeChan |-> << >>, handshakeComplete |-> FALSE,
     undecryptablePackets |-> {}, received |-> {}, read |-> 0,
     sentData |-> {}, data |-> FALSE]

-----------------------------------------------------------------------------
(* Versions, in lists ordered by preference.                               *)

VersionUnsupported == -1

IsSupportedVersion(supported, v) == \E i \in DOMAIN supported : supported[i] = v

(***************************************************************************)
(* Mutant: the peer's preference decides.                                  *)
(***************************************************************************)
MutChooseSupportedVersion(ours, theirs) ==
    LET common == {i \in DOMAIN theirs : IsSupportedVersion(ours, theirs[i])}
    IN IF common = {} THEN VersionUnsupported
       ELSE theirs[CHOOSE i \in common : \A j \in common : i <= j]

(* The first of ours that is among theirs.                                 *)
ChooseSupportedVersion(ours, theirs) ==
    LET common == {i \in DOMAIN ours : IsSupportedVersion(theirs, ours[i])}
    IN IF common = {} THEN VersionUnsupported
       ELSE ours[CHOOSE i \in common : \A j \in common : i <= j]

-----------------------------------------------------------------------------
(* Keys and the levels at which packets are sealed.                        *)

(* The key of the secure level: from the client nonce, the connection ID,  *)
(* the client hello, the server config and the diversification nonce.      *)
SecureKey(conn, chlo, nonc, scfg, divNonce) ==
    <<"secure", conn, chlo, nonc, scfg, divNonce>>

(* The key of the forward-secure level: the client nonce is followed by    *)
(* the server's, and there is no diversification nonce.                    *)
ForwardSecureKey(conn, chlo, nonc, scfg, sno) ==
    <<"forward", conn, chlo, nonc, scfg, sno>>

(* The sealer of a level.                                                  *)
GetSealerWithEncryptionLevel(e, level) ==
    CASE level = "null" -> NullKey
      [] level = "secure" -> Setup(e).secure
      [] level = "forward" -> Setup(e).fs

(* The level of an ordinary packet: a server has nothing between           *)
(* unencrypted and forward-secure.                                         *)
GetSealer(e) ==
    CASE Setup(e).fs # NoKey -> "forward"
      [] Setup(e).fs = NoKey /\ e = "client" /\ client.secure # NoKey -> "secure"
      [] OTHER -> "null"

(* The level of a packet with handshake messages.                          *)
GetSealerForCryptoStream(e) ==
    IF e = "server" /\ server.secure # NoKey THEN "secure" ELSE "null"

(* The packet e sends at a level: a client writes its version until it is  *)
(* forward-secure, a server the diversification nonce when it is secure.   *)
Packet(e, level, msg) ==
    [from |-> e, conn |-> Setup(e).conn, msg |-> msg, level |-> level,
     key |-> GetSealerWithEncryptionLevel(e, level),
     version |-> IF e = "client" /\ level # "forward" THEN client.version ELSE 0,
     nonce |-> IF e = "server" /\ level = "secure" THEN server.divNonce ELSE 0]

-----------------------------------------------------------------------------
(* The client's crypto goroutine.  It runs from the time the run loop is   *)
(* started until the session closes.                                       *)

ClientRuns(pc) == session["client"].pc \notin {"new", "closed"} /\ client.pc = pc

(* Send on aeadChanged, which blocks while the channel is full.  There are *)
(* two sends at most, so it never does with the mutex held.                *)
AeadChanged(e, level, closes) ==
    /\ Len(session[e].aeadChanged) < AeadChangedSize
    /\ session' = [session EXCEPT ![e].aeadChanged = Append(@, level),
                                  ![e].closed = closes]

(* The condition on which the client derives the secure key.               *)
CanUpgrade ==
    /\ client.serverVerified /\ client.secure = NoKey
    /\ client.serverConfig # "none" /\ client.nonc # "none" /\ client.leafCert
    /\ client.divNonce # 0 /\ client.lastSentCHLO # 0

MaybeUpgradeCrypto ==
    /\ ClientRuns("upgrade") /\ CanUpgrade
    /\ client' = [client EXCEPT !.pc = "select",
                     !.secure = SecureKey(client.conn, client.lastSentCHLO, client.nonc,
                                          client.serverConfig, client.divNonce)]
    /\ AeadChanged("client", "secure", FALSE)
    /\ UNCHANGED <<conf, server, written, net>>

(* A client that has the secure key sends no more hellos.                  *)
KeepListening ==
    /\ ClientRuns("upgrade") /\ client.secure # NoKey
    /\ client' = [client EXCEPT !.pc = "select"]
    /\ UNCHANGED <<conf, server, session, written, net>>

(* The client hello: the token and the ID of the server config it has, and *)
(* the rest of a full hello once it has a certificate too.                 *)
GetTags ==
    LET full == client.serverConfig # "none" /\ client.leafCert
    IN [tag |-> "CHLO", number |-> client.clientHelloCounter + 1,
        version |-> client.version, stk |-> client.stk,
        scid |-> client.serverConfig, full |-> full,
        nonc |-> IF full THEN client.nonc ELSE "none"]

(* sendCHLO up to the Write on the crypto stream, which waits for the run  *)
(* loop to take the message; one hello too many is an error.               *)
SendCHLO ==
    /\ ClientRuns("upgrade") /\ ~CanUpgrade /\ client.secure = NoKey
    /\ client' = IF client.clientHelloCounter + 1 > MaxClientHellos
                 THEN [client EXCEPT !.pc = "failed", !.clientHelloCounter = @ + 1]
                 ELSE [client EXCEPT !.pc = "write", !.clientHelloCounter = @ + 1,
                                     !.chlo = <<GetTags>>]
    /\ UNCHANGED <<conf, server, session, written, net>>

(* The Write returned.                                                     *)
SentCHLO ==
    /\ ClientRuns("written")
    /\ client' = [client EXCEPT !.pc = "select", !.chlo = << >>,
                                !.lastSentCHLO = client.chlo[1].number]
    /\ UNCHANGED <<conf, server, session, written, net>>

(* The goroutine takes the nonce from the run loop, which waits in         *)
(* SetDiversificationNonce with the packet that carries it.                *)
TakeDiversificationNonce ==
    /\ ClientRuns("select") /\ session["client"].pc = "nonce"
    /\ \E p \in session["client"].packet :
          client' = IF client.divNonce \notin {0, p.nonce}
                    THEN [client EXCEPT !.pc = "failed"]
                    ELSE [client EXCEPT !.pc = "upgrade", !.divNonce = p.nonce]
    /\ session' = [session EXCEPT !["client"].pc = "open"]
    /\ UNCHANGED <<conf, server, written, net>>

(* The next message of the peer on the crypto stream of e, in order.       *)
HasMessage(e) == session[e].read + 1 \in session[e].received
NextMessage(e) == written[Peer(e)][session[e].read + 1].msg

(* A rejection brings a token, the server config (for which a nonce is     *)
(* made if there is none) and, when the token of the hello was accepted,   *)
(* the certificate and a proof, which signs the hello it answers.          *)
HandleREJMessage(m) ==
    LET known == [client EXCEPT !.stk = "valid", !.serverConfig = "current",
                                !.nonc = IF @ = "none" THEN "current" ELSE @]
    IN CASE ~m.proof -> [known EXCEPT !.pc = "upgrade"]
         [] m.proof /\ m.signed = client.lastSentCHLO ->
              [known EXCEPT !.pc = "upgrade", !.leafCert = TRUE, !.serverVerified = TRUE]
         [] OTHER -> [known EXCEPT !.pc = "failed"]

(* The list in a server hello must be the one of the version negotiation   *)
(* packet; a version the client does not know counts as VersionUnsupported.*)
ValidateVersionList(versions) ==
    \/ client.negotiatedVersions = << >>
    \/ client.negotiatedVersions =
         [i \in DOMAIN versions |-> IF IsSupportedVersion(SupportedVersions, versions[i])
                                    THEN versions[i] ELSE VersionUnsupported]

HandleSHLOMessage(m) ==
    IF ~client.receivedSecure \/ ~ValidateVersionList(m.versions)
    THEN [client EXCEPT !.pc = "failed"]
    ELSE [client EXCEPT !.pc = "upgrade",
             !.fs = ForwardSecureKey(client.conn, client.lastSentCHLO, client.nonc,
                                     client.serverConfig, m.sno)]

ClientHandleMessage ==
    /\ ClientRuns("select") /\ HasMessage("client")
    /\ LET m == NextMessage("client")
       IN \/ /\ m.tag = "REJ"
             /\ client' = HandleREJMessage(m)
             /\ session' = [session EXCEPT !["client"].read = @ + 1]
          \/ /\ m.tag = "SHLO"
             /\ client' = HandleSHLOMessage(m)
             /\ client'.fs # NoKey => Len(session["client"].aeadChanged) < AeadChangedSize
             /\ session' = [session EXCEPT !["client"].read = @ + 1,
                   !["client"].aeadChanged = IF client'.fs # NoKey
                                             THEN Append(@, "forward") ELSE @,
                   !["client"].closed = client'.fs # NoKey]
    /\ UNCHANGED <<conf, server, written, net>>

-----------------------------------------------------------------------------
(* The server's crypto goroutine: it reads hellos until it has answered a  *)
(* full one.                                                               *)

ServerRuns(pc) == session["server"].pc \notin {"new", "closed"} /\ server.pc = pc

(* A token this session made, or none at all where AcceptCookie takes that.*)
AcceptSTK(stk) == stk = "valid" \/ (stk = "none" /\ ~conf.cookie)

IsInchoateCHLO(m) == ~m.full \/ m.scid # "current" \/ ~AcceptSTK(m.stk)

HandleInchoateCHLO(m) ==
    [server EXCEPT !.pc = "write",
        !.reply = <<[tag |-> "REJ", proof |-> AcceptSTK(m.stk), signed |-> m.number]>>]

(* A full hello: both keys are derived and the secure one is announced     *)
(* while the server hello has yet to be sent.                              *)
HandleCHLO(m) ==
    [server EXCEPT !.pc = "write", !.divNonce = m.number,
        !.secure = SecureKey(server.conn, m.number, m.nonc, m.scid, m.number),
        !.fs = ForwardSecureKey(server.conn, m.number, m.nonc, m.scid, m.number),
        !.reply = <<[tag |-> "SHLO", sno |-> m.number, versions |-> conf.theirs]>>]

ServerHandleMessage ==
    /\ ServerRuns("read") /\ HasMessage("server")
    /\ LET m == NextMessage("server")
           downgrade == m.version # server.version /\ IsSupportedVersion(conf.theirs, m.version)
           refused == downgrade \/ (~IsInchoateCHLO(m) /\ m.nonc # "current")
       IN \/ /\ refused
             /\ server' = [server EXCEPT !.pc = "failed"]
             /\ session' = [session EXCEPT !["server"].read = @ + 1]
          \/ /\ ~refused /\ IsInchoateCHLO(m)
             /\ server' = HandleInchoateCHLO(m)
             /\ session' = [session EXCEPT !["server"].read = @ + 1]
          \/ /\ ~refused /\ ~IsInchoateCHLO(m)
             /\ server' = HandleCHLO(m)
             /\ Len(session["server"].aeadChanged) < AeadChangedSize
             /\ session' = [session EXCEPT !["server"].read = @ + 1,
                               !["server"].aeadChanged = Append(@, "secure")]
    /\ UNCHANGED <<conf, client, written, net>>

(* The Write of a rejection returned.                                      *)
SentREJ ==
    /\ ServerRuns("written") /\ server.reply[1].tag = "REJ"
    /\ server' = [server EXCEPT !.pc = "read", !.reply = << >>]
    /\ UNCHANGED <<conf, client, session, written, net>>

(* The Write of the server hello returned: the goroutine announces the     *)
(* forward-secure key, lets Open go on, and ends.                          *)
SentSHLO ==
    /\ ServerRuns("written") /\ server.reply[1].tag = "SHLO"
    /\ server' = [server EXCEPT !.pc = "done", !.reply = << >>, !.sentSHLO = TRUE]
    /\ AeadChanged("server", "forward", FALSE)
    /\ UNCHANGED <<conf, client, written, net>>

-----------------------------------------------------------------------------
(* The run loops.  Between two packets, events or sends a loop is idle.    *)

Idle(e) == session[e].pc = "idle"

(* The run loop takes a message the crypto goroutine waits to write and    *)
(* sends it in a packet of its own.                                        *)
SendCryptoPacket(e) ==
    LET level == GetSealerForCryptoStream(e)
        number == Len(written[e]) + 1
        msg == IF e = "client" THEN client.chlo ELSE server.reply
    IN /\ Idle(e) /\ Setup(e).pc = "write"
       /\ written' = [written EXCEPT ![e] = Append(@, [msg |-> msg[1], level |-> level])]
       /\ net' = net \cup {Packet(e, level, number)}
       /\ IF e = "client"
          THEN client' = [client EXCEPT !.pc = "written"] /\ UNCHANGED server
          ELSE server' = [server EXCEPT !.pc = "written"] /\ UNCHANGED client
       /\ UNCHANGED <<conf, session>>

(* Whether the level lets application data out.                            *)
CanSendData(e, level) ==
    IF e = "client" THEN level \in {"secure", "forward"} ELSE level = "forward"

(* Application data: once per level.                                       *)
SendData(e) ==
    LET level == GetSealer(e)
    IN /\ Idle(e) /\ CanSendData(e, level) /\ level \notin session[e].sentData
       /\ session' = [session EXCEPT ![e].sentData = @ \cup {level}]
       /\ net' = net \cup {Packet(e, level, Data)}
       /\ UNCHANGED <<conf, client, server, written>>

(* The peer of e has queued a packet of it.                                *)
Queued(e, level, msg) ==
    \E p \in session[Peer(e)].undecryptablePackets : p.level = level /\ p.msg = msg

(***************************************************************************)
(* Mutant: it is sent again at the highest level.                          *)
(***************************************************************************)
MutRetransmitHandshake(e, number) ==
    /\ Idle(e) /\ ~session[e].handshakeComplete
    /\ net' = net \cup {Packet(e, GetSealer(e), number)}
    /\ UNCHANGED <<conf, client, server, session, written>>

(* A handshake packet found lost is sent again at its level, as long as    *)
(* the sender has not completed the handshake.                             *)
RetransmitHandshake(e, number) ==
    /\ Idle(e) /\ ~session[e].handshakeComplete
    /\ net' = net \cup {Packet(e, written[e][number].level, number)}
    /\ UNCHANGED <<conf, client, server, session, written>>

(* Data lost at the forward-secure level is sent again.                    *)
RetransmitData(e) ==
    /\ Idle(e) /\ "forward" \in session[e].sentData
    /\ net' = net \cup {Packet(e, "forward", Data)}
    /\ UNCHANGED <<conf, client, server, session, written>>

(* The run loop takes a packet: a client hands over the nonce first.       *)
HandlePacket(e, p) ==
    [session[e] EXCEPT !.packet = {p},
                       !.pc = IF e = "client" /\ p.nonce # 0 THEN "nonce" ELSE "open"]

(* The level at which a setup opens a packet, or "none".                   *)
OpenClient(p) ==
    CASE p.key = client.fs -> "forward"
      [] p.key = client.secure /\ client.fs = NoKey -> "secure"
      [] p.key = NullKey /\ client.fs = NoKey /\ ~client.receivedSecure -> "null"
      [] OTHER -> "none"
OpenServer(p) ==
    CASE p.key = server.fs -> "forward"
      [] p.key = server.secure /\ ~server.receivedForwardSecure -> "secure"
      [] p.key = NullKey /\ ~server.receivedForwardSecure /\ ~server.receivedSecure -> "null"
      [] OTHER -> "none"
OpenLevel(e, p) == IF e = "client" THEN OpenClient(p) ELSE OpenServer(p)

(* What a session has after it handled the content of a packet.            *)
Delivered(s, p) ==
    CASE p.msg = Data -> [s EXCEPT !.pc = "idle", !.packet = {},
                                   !.data = @ \/ p.level = "forward"]
      [] p.msg = ConnectionClose -> [s EXCEPT !.pc = "closed", !.packet = {}]
      [] OTHER -> [s EXCEPT !.pc = "idle", !.packet = {}, !.received = @ \cup {p.msg}]

(* Undecryptable packets are queued until the handshake is complete; when  *)
(* the queue is full they are dropped.  (The session then gives up when    *)
(* the queue is not empty after half a second, which is taken to be longer *)
(* than the handshake.)                                                    *)
TryQueueingUndecryptablePacket(s, p) ==
    [s EXCEPT !.pc = "idle", !.packet = {},
              !.undecryptablePackets =
                  IF s.handshakeComplete \/ Cardinality(@) + 1 > MaxUndecryptablePackets
                  THEN @ ELSE @ \cup {p}]

(* Open, and what follows.  The first forward-secure packet makes a server *)
(* wait for the server hello to be out before it closes aeadChanged.       *)
Open(e) ==
    /\ session[e].pc = "open"
    /\ \E p \in session[e].packet :
         LET level == OpenLevel(e, p)
             first == e = "server" /\ level = "forward" /\ ~server.receivedForwardSecure
         IN /\ first => server.sentSHLO
            /\ session' = [session EXCEPT ![e] =
                   IF level = "none" THEN TryQueueingUndecryptablePacket(session[e], p)
                   ELSE Delivered([session[e] EXCEPT !.closed = @ \/ first], p)]
            /\ client' = [client EXCEPT !.receivedSecure =
                             @ \/ (e = "client" /\ level = "secure")]
            /\ server' = [server EXCEPT
                   !.receivedForwardSecure = @ \/ first,
                   !.receivedSecure = @ \/ (e = "server" /\ level = "secure")]
    /\ UNCHANGED <<conf, written, net>>

(* An announced level: the queued packets are put back among the received  *)
(* ones and the event goes to whoever waits for the handshake.             *)
HandleAeadChanged(e) ==
    /\ Idle(e) /\ session[e].aeadChanged # << >>
    /\ Len(session[e].handshakeChan) < HandshakeChanSize
    /\ net' = net \cup session[e].undecryptablePackets
    /\ session' = [session EXCEPT ![e].aeadChanged = Tail(@),
                      ![e].undecryptablePackets = {},
                      ![e].handshakeChan = Append(@, Head(session[e].aeadChanged))]
    /\ UNCHANGED <<conf, client, server, written>>

(* The channel was closed: the handshake is complete.                      *)
HandleAeadClosed(e) ==
    /\ Idle(e) /\ session[e].aeadChanged = << >> /\ session[e].closed
    /\ ~session[e].handshakeComplete
    /\ session' = [session EXCEPT ![e].handshakeComplete = TRUE]
    /\ UNCHANGED <<conf, client, server, written, net>>

(* The crypto goroutine failed and asked for the session to be closed: the *)
(* run loop ends and sends a CONNECTION_CLOSE.                             *)
CloseFailed(e) ==
    /\ Idle(e) /\ Setup(e).pc = "failed"
    /\ session' = [session EXCEPT ![e].pc = "closed"]
    /\ net' = net \cup {Packet(e, GetSealer(e), ConnectionClose)}
    /\ UNCHANGED <<conf, client, server, written>>

=============================================================================
