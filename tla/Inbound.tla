------------------------------ MODULE Inbound ------------------------------
(***************************************************************************)
(* How a connection gets from the listener to the proxy: the three trees   *)
(* of servers (server, client, and mux on top of a server).  The initial   *)
(* state chooses the tree and its configuration.                           *)
(***************************************************************************)
EXTENDS ServerStack, ClientStack, MuxStack

CONSTANT Configs    \* configurations of the server tree

ASSUME ConfigsAssumption == \A cfg \in Configs : Len(cfg.fallback) \in Nat

Init ==
    /\ stack \in {"tls", "plain", "client", "mux"}
    /\ \E cfg \in Configs :
          /\ TLSNewServer(cfg).ok
          /\ conf = TLSNewServer(cfg)
          /\ ~Serving => cfg = CHOOSE d \in Configs : TLSNewServer(d).ok
    /\ accepting = TRUE
    /\ conn = [c \in Conn |-> Fresh]
    /\ chan = [q \in Channels |-> <<>>]
    /\ next = {}
    /\ busy = [l \in Loops |-> Nil]
    /\ session = "none"
    /\ ctx = FALSE

\* The proxy's accept loops take what the endpoints of the tree queued.
ProxyTake(c) ==
    LET owner == [q \in {"http.conn", "socks.conn", "ss.conn", "ss.packet"} |->
                     CASE q = "http.conn" -> "http" [] q = "socks.conn" -> "socks" [] OTHER -> "simplesocks"]
    IN
    /\ \E q \in DOMAIN owner :
          /\ Takes(c, q)
          /\ \E n \in FindAllEndpoints(Tree) : n[Len(n)] = owner[q]
    /\ Set(c, IF conn[c].sess = "queued" THEN [conn[c] EXCEPT !.sess = "open"]
              ELSE [conn[c] EXCEPT !.at = "served"])
    /\ UNCHANGED <<fixed, next, busy>>

\* Close of every server of the tree.
Close ==
    /\ ~ctx
    /\ ctx' = TRUE
    /\ UNCHANGED <<stack, conf, accepting, conn, chan, next, busy, session>>

Next ==
    \/ \E c \in Conn :
          \/ TransportAccept(c) \/ TransportDispatch(c) \/ TransportSniff(c)
          \/ TLSTake(c) \/ TLSHandshake(c) \/ TLSRequest(c) \/ TLSDeadline(c) \/ RedirectorTakes(c)
          \/ WebsocketTake(c) \/ WebsocketRequest(c) \/ WebsocketHandler(c)
          \/ WebsocketReturns(c) \/ WebsocketTimeout(c)
          \/ ShadowsocksTake(c) \/ ShadowsocksRead(c) \/ TrojanTake(c) \/ TrojanAuth(c)
          \/ AdapterAccept(c) \/ AdapterDetect(c) \/ AdapterSend(c)
          \/ HTTPTake(c) \/ HTTPRequest(c) \/ HTTPSend(c) \/ HTTPStep(c) \/ HTTPSessionClosed(c)
          \/ SocksTake(c) \/ SocksHandshake(c) \/ SocksSend(c) \/ SocksAssociateEnds(c)
          \/ MuxAcceptStream(c) \/ SimpleSocksTake(c) \/ SimpleSocksHeader(c) \/ SimpleSocksSend(c)
          \/ ProxyTake(c)
    \/ TransportAcceptFails \/ WebsocketRegisters \/ SocksRegisters
    \/ MuxSession \/ MuxSessionEnds \/ Close

\* The deadlines of the tls layer and the timer of websocket fire.
Fairness == \A c \in Conn : WF_vars(TLSDeadline(c)) /\ WF_vars(WebsocketTimeout(c))

Spec == Init /\ [][Next]_vars /\ Fairness
-----------------------------------------------------------------------------
(***************************************************************************)
(* Properties                                                              *)
(***************************************************************************)

\* A connection whose layer has handed it on, to a queue, to trojan or to the
\* redirector.
HandedOn(c) == conn[c].at \in Channels \cup {"trojan", "redirect"}

\* However many layers peeked at a connection, and wherever a peek stopped, the
\* next reader sees the stream from its first byte; behind a layer that consumed
\* a header (websocket, socks, http, simplesocks) it sees all that follows it.
\* And a layer's deadline ends with the layer: what it handed on, and what is
\* redirected after a TLS handshake, has no deadline left on it.
HandedOnClean ==
    \A c \in Conn :
        /\ HandedOn(c) =>
              Ahead(conn[c].rr) =
                  IF conn[c].via = "ws" \/ conn[c].at \in {"http.conn", "socks.conn", "ss.conn", "ss.packet"}
                  THEN Tail(Stream) ELSE Stream
        /\ conn[c].at \in Channels \cup {"ws", "trojan"} => ~conn[c].armed
        /\ conn[c].at = "redirect" /\ conn[c].peer.proto = "tls" => ~conn[c].armed

\* A connection is in the queue its position names and in no other, and once; the
\* http server opens a session for the next request of a client only when the
\* session of the last is closed; and the server tree gives up a connection
\* without closing it only at shutdown.
OneOwner ==
    \A c \in Conn :
        /\ \A q \in Channels :
              LET places == {i \in DOMAIN chan[q] : chan[q][i] = c} IN
              IF conn[c].at = q \/ (q = "http.conn" /\ conn[c].sess = "queued")
              THEN \E i \in places : places = {i}
              ELSE places = {}
        /\ conn[c].at \in {"httpSend", "nextRequest"} => conn[c].sess \in {"none", "closed"}
        /\ Serving /\ At(c, "lost") => ctx

\* A rule with a name or a protocol gets a connection only if the client offered
\* them in a handshake that completed, and the default rule and the legacy
\* address get one only if no other rule asks for it.  A default rule after the
\* first one asks like any other.
RulesGovern(c) ==
    LET s == conn[c]
        known == s.peer.proto = "tls"
        sni == IF known THEN s.peer.sni ELSE None
        alpn == IF known THEN s.peer.alpn ELSE None
        asks == {i \in DOMAIN conf.rules : /\ conf.rules[i].default => \E j \in 1 .. i - 1 : conf.rules[j].default
                                           /\ Satisfies(conf.rules[i], sni, alpn)}
        rule == s.chain[1].rule
    IN (s.at = "redirect" /\ OnTLS /\ s.target # conf.remote) =>
          IF s.chain[1].name = "rule"
          THEN IF asks = {} THEN rule.default
               ELSE rule = conf.rules[CHOOSE i \in asks : \A j \in asks : i <= j]
          ELSE asks = {} /\ s.target = conf.addr

\* A connection ends up where its first bytes, its handshake and the rules say:
\* redirected by the rules, or with the overlay its first request asks for.  An
\* HTTP request reaches trojan only when it came too late or broken, or when no
\* overlay had announced itself; nothing else reaches websocket.
RightDestination ==
    \A c \in Conn :
        /\ RulesGovern(c)
        /\ conn[c].at \in {"transport.ws", "tls.ws", "ws", "wsShake"} => IsHTTP(c) /\ ~conn[c].cut
        /\ (conn[c].at = "tls.conn" /\ IsHTTP(c)) => conn[c].cut

\* A peer that goes silent in a tls handshake, after it, or in a websocket
\* handshake does not stay there: the deadlines and the timer move it on.
SilentPeersMoveOn ==
    \A c \in Conn : (conf.timed /\ conn[c].at \in {"shake", "tlsSniff", "wsShake"})
                    ~> conn[c].at \notin {"shake", "tlsSniff", "wsShake"}

\* full-config.md: routing by rule also applies to a client that completes the
\* handshake and then fails trojan's authentication.
RuleReachesTrojan ==
    \A c \in Conn :
        LET rule == Match(conf.rules, conn[c].peer.sni, conn[c].peer.alpn) IN
        (conn[c].by = "trojan" /\ OnTLS /\ rule # NoRule) =>
            conn[c].target = [addr |-> rule.addr, port |-> rule.port]
=============================================================================
