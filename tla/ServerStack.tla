---------------------------- MODULE ServerStack ----------------------------
(***************************************************************************)
(* The server tree up to trojan: transport, tls, websocket, shadowsocks.   *)
(*                                                                         *)
(* stack is "tls" or, with a transport plugin, "plain" (no tls layer);     *)
(* trojan and websocket are the two overlays of the top layer, each with   *)
(* shadowsocks on it when conf.ss.  A peer has the protocol it opens with  *)
(* ("tls", "plain" text), what it says then ("trojan", a "ws" upgrade,     *)
(* another "http" request), whether verifySNI accepts its name, its SNI    *)
(* and its ALPN.  It sends when it likes, breaks off, or stays silent.     *)
(***************************************************************************)
EXTENDS InboundCore

Serving == stack \in {"tls", "plain"}
OnTLS == stack = "tls"
RootConn == IF OnTLS THEN "tls.conn" ELSE "transport.conn"
RootWS == IF OnTLS THEN "tls.ws" ELSE "transport.ws"
RootLayer == CHOOSE l \in {"tls", "transport"} : "websocket" \in On(l)
IsHTTP(c) == conn[c].peer.app \in {"ws", "http"}

\* tls.NewServer: the legacy pair is turned into a rule before an empty host is
\* replaced by remote_addr.
TLSNewServer(cfg) ==
    LET rules == MergeRules(RulesFromConfig(cfg.fallback), cfg.host, cfg.port)
        unset == cfg.port = 0 /\ rules = <<>>
    IN [ok |-> /\ cfg.port # 0 => cfg.dials
               /\ unset => cfg.response # "missing"
               /\ cfg.keyPair,
        rules |-> rules,
        addr |-> IF cfg.port = 0 THEN NoRule
                 ELSE [addr |-> IF cfg.host = None THEN cfg.remote ELSE cfg.host, port |-> cfg.port],
        resp |-> unset /\ cfg.response = "file",
        timed |-> cfg.timed,
        ws |-> cfg.ws,
        ss |-> cfg.ss,
        remote |-> [addr |-> cfg.remote, port |-> 80]]
-----------------------------------------------------------------------------
(***************************************************************************)
(* transport                                                               *)
(***************************************************************************)

\* Accept returns a connection; its goroutine starts.
TransportAccept(c) ==
    /\ Serving /\ accepting
    /\ At(c, "new")
    /\ \E p \in Peers[stack] :
          Set(c, [conn[c] EXCEPT !.at = "tcp", !.peer = p, !.chain = <<Wrapper("tcp")>>])
    /\ UNCHANGED <<fixed, chan, next, busy>>

\* Accept fails: at shutdown, but also once for want of a descriptor; the loop
\* returns in either case.
TransportAcceptFails ==
    /\ Serving /\ accepting
    /\ accepting' = FALSE
    /\ UNCHANGED <<stack, conf, conn, chan, next, busy, session, ctx>>

\* The goroutine looks at nextHTTP: without a websocket or http overlay the
\* connection is offered as it is.
TransportDispatch(c) ==
    LET s == conn[c] IN
    /\ At(c, "tcp")
    /\ IF "transport" \in next
       THEN /\ Set(c, [Wrapped(s, 512) EXCEPT !.at = "sniff"])
            /\ UNCHANGED chan
       ELSE OfferOrClose(c, [s EXCEPT !.chain = <<Wrapper("transport")>> \o @], "transport.conn")
    /\ UNCHANGED <<fixed, next, busy>>

\* http.ReadRequest returns: a whole request, or an error (other bytes, or a
\* stream that ended after n bytes).  No deadline is set.
TransportSniff(c) ==
    \E n \in 0 .. 2, cut \in BOOLEAN :
       LET s == [conn[c] EXCEPT !.rr = Peeked(@, n), !.cut = cut,
                                !.chain = <<Wrapper("transport"), Wrapper("rewind")>> \o @]
       IN /\ At(c, "sniff")
          /\ n = 0 => cut
          /\ OfferOrClose(c, s, IF IsHTTP(c) /\ ~cut THEN "transport.ws" ELSE "transport.conn")
          /\ UNCHANGED <<fixed, next, busy>>
-----------------------------------------------------------------------------
(***************************************************************************)
(* tls                                                                     *)
(***************************************************************************)

\* acceptLoop takes a connection; the goroutine wraps it and arms the handshake
\* deadline.
TLSTake(c) ==
    /\ OnTLS
    /\ Takes(c, "transport.conn")
    /\ Set(c, [Wrapped(conn[c], 2048) EXCEPT !.at = "shake", !.armed = conf.timed])
    /\ UNCHANGED <<fixed, next, busy>>

\* Redirect is called with a target; Relay models what follows.
Redirected(s, to) == [s EXCEPT !.at = "redirect", !.target = to]

\* dispatchFallback: the rule for SNI and ALPN, the legacy address, or close.
DispatchFallback(s, sni, alpn) ==
    LET rule == Match(conf.rules, sni, alpn) IN
    CASE rule # NoRule ->
            Redirected([s EXCEPT !.chain = <<[name |-> "rule", rule |-> rule]>> \o @],
                       [addr |-> rule.addr, port |-> rule.port])
      [] rule = NoRule /\ conf.addr # NoRule -> Redirected(s, conf.addr)
      [] OTHER -> [s EXCEPT !.at = "closed"]

\* Mutant: the bytes of the failed handshake are not given back.
TLSHandshakeNoRewind(c) ==
    LET s == conn[c] IN
    /\ At(c, "shake")
    /\ s.peer.proto = "plain"
    /\ Set(c, DispatchFallback([s EXCEPT !.rr = StopBuffering(Read(@, 1))], None, None))
    /\ UNCHANGED <<fixed, chan, next, busy>>

\* Handshake returns.  Something that is not TLS at all is rewound and falls
\* back, gets the plain response or is closed (with the handshake deadline still
\* armed); any other failure (GetCertificate refuses the name, a broken
\* handshake, the end of the stream) closes.  On success the deadline is
\* replaced by the one for the first request.
TLSHandshake(c) ==
    LET s == conn[c]
        plain == [s EXCEPT !.rr = Peeked(@, 1), !.chain = <<Wrapper("rewind")>> \o @]
        inner == [s EXCEPT !.rr = SetBufferSize(NewRewindConn(Stream), 1024), !.armed = conf.timed,
                           !.at = "tlsSniff",
                           !.chain = <<Wrapper("rewind"), Wrapper("tls"), Wrapper("rewind")>> \o @]
    IN /\ At(c, "shake")
       /\ \/ /\ s.peer.proto = "plain"
             /\ Set(c, IF conf.addr # NoRule \/ conf.rules # <<>>
                       THEN DispatchFallback(plain, None, None)
                       ELSE [s EXCEPT !.at = IF conf.resp THEN "answered" ELSE "closed"])
          \/ /\ s.peer.proto = "tls" /\ s.peer.certified
             /\ Set(c, inner)
          \/ Set(c, [s EXCEPT !.at = "closed"])
       /\ UNCHANGED <<fixed, chan, next, busy>>

\* ReadRequest returns, or fails (other bytes, an early end, the deadline).
\* The bytes are given back and the deadline is cleared.
TLSSniff(c, n, cut) ==
    LET s == [conn[c] EXCEPT !.rr = Peeked(@, n), !.cut = cut, !.armed = FALSE]
        offered == [s EXCEPT !.chain = <<Wrapper("transport")>> \o @]
    IN /\ At(c, "tlsSniff")
       /\ CASE ~IsHTTP(c) \/ cut -> OfferOrClose(c, offered, "tls.conn")
            [] IsHTTP(c) /\ ~cut /\ "tls" \notin next ->
                  /\ Set(c, DispatchFallback(s, s.peer.sni, s.peer.alpn))
                  /\ UNCHANGED chan
            [] OTHER -> OfferOrClose(c, offered, "tls.ws")
       /\ UNCHANGED <<fixed, next, busy>>

TLSRequest(c) == \E n \in 0 .. 2, cut \in BOOLEAN : (n = 0 => cut) /\ TLSSniff(c, n, cut)

\* Mutant: a deadline that passes in the handshake is not noticed.
TLSDeadlineSniffOnly(c) ==
    /\ conn[c].armed
    /\ \E n \in 0 .. 1 : TLSSniff(c, n, TRUE)

\* A deadline passes: the handshake has failed, or the request is not one.
TLSDeadline(c) ==
    /\ conn[c].armed
    /\ \/ /\ At(c, "shake")
          /\ Goto(c, "closed")
          /\ UNCHANGED <<fixed, chan, next, busy>>
       \/ \E n \in 0 .. 1 : TLSSniff(c, n, TRUE)

\* The redirector has the connection (its worker relays and closes it), or
\* Redirect returned at shutdown and nobody has it.
RedirectorTakes(c) ==
    /\ At(c, "redirect")
    /\ \/ Goto(c, "redirected")
       \/ ctx /\ Goto(c, "lost")
    /\ UNCHANGED <<fixed, chan, next, busy>>
-----------------------------------------------------------------------------
(***************************************************************************)
(* websocket: AcceptConn runs in the accept loop of the trojan server on   *)
(* top of it, one connection at a time.  (The configured host is one that  *)
(* websocket.NewConfig can parse.)                                         *)
(***************************************************************************)

\* The first AcceptConn of the websocket layer announces it below.
WebsocketRegisters ==
    /\ Serving
    /\ RootLayer \notin next
    /\ next' = next \cup {RootLayer}
    /\ UNCHANGED <<fixed, conn, chan, busy>>

WebsocketTake(c) ==
    /\ Serving
    /\ busy["websocket"] = Nil
    /\ RootLayer \in next
    /\ Takes(c, RootWS)
    /\ IF conf.ws
       THEN /\ Set(c, [Wrapped(conn[c], 512) EXCEPT !.at = "ws"])
            /\ busy' = [busy EXCEPT !["websocket"] = c]
       ELSE /\ Set(c, Redirected(conn[c], conf.remote))
            /\ UNCHANGED busy
    /\ UNCHANGED <<fixed, next>>

\* The request is parsed again (tls or transport gave it back whole).  Anything
\* but an upgrade on the path goes to remote_addr; for an upgrade ServeHTTP
\* starts and AcceptConn waits.
WebsocketRequest(c) ==
    LET s == [conn[c] EXCEPT !.rr = Read(@, 1)] IN
    /\ At(c, "ws")
    /\ IF s.peer.app = "ws"
       THEN /\ Set(c, [s EXCEPT !.at = "wsShake"])
            /\ UNCHANGED busy
       ELSE /\ Set(c, Redirected([s EXCEPT !.rr = StopBuffering(Rewind(@)),
                                           !.chain = <<Wrapper("rewind")>> \o @], conf.remote))
            /\ busy' = [busy EXCEPT !["websocket"] = Nil]
    /\ UNCHANGED <<fixed, chan, next>>

\* ServeHTTP has answered: the handler stores wsConn and sends on handshake,
\* which nobody receives once AcceptConn has given up.  When it cannot answer it
\* closes the connection, and AcceptConn waits on.
WebsocketHandler(c) ==
    /\ \/ At(c, "wsShake") /\ \E p \in {"wsStored", "wsFailed"} : Goto(c, p)
       \/ At(c, "wsLate") /\ \E p \in {"parked", "closed"} : Goto(c, p)
    /\ UNCHANGED <<fixed, chan, next, busy>>

\* AcceptConn returns the connection to trojan, or to shadowsocks, which goes on
\* in the same loop.
WebsocketDelivers(c) ==
    LET s == [conn[c] EXCEPT !.via = "ws", !.chain = <<Wrapper("websocket")>> \o @,
                             !.rr = StopBuffering(@)]
        decrypts == "shadowsocks" \in On("websocket")
    IN /\ Set(c, IF decrypts THEN [Wrapped(s, 1024) EXCEPT !.at = "ssRead"] ELSE [s EXCEPT !.at = "trojan"])
       /\ busy' = IF decrypts THEN busy ELSE [busy EXCEPT !["websocket"] = Nil]

\* AcceptConn receives from handshake.
WebsocketReturns(c) ==
    /\ At(c, "wsStored")
    /\ WebsocketDelivers(c)
    /\ UNCHANGED <<fixed, chan, next>>

\* time.After: AcceptConn reads wsConn, which the handler may have stored; without
\* synchronisation it may or may not see it.
WebsocketTimeout(c) ==
    /\ \/ At(c, "wsStored") /\ WebsocketDelivers(c)
       \/ /\ \/ At(c, "wsShake") /\ Goto(c, "wsLate")
             \/ At(c, "wsStored") /\ Goto(c, "parked")
             \/ At(c, "wsFailed") /\ Goto(c, "closed")
          /\ busy' = [busy EXCEPT !["websocket"] = Nil]
    /\ UNCHANGED <<fixed, chan, next>>
-----------------------------------------------------------------------------
(***************************************************************************)
(* shadowsocks, in the accept loop of the trojan server on top of it       *)
(***************************************************************************)

ShadowsocksTake(c) ==
    /\ Serving
    /\ busy["shadowsocks"] = Nil
    /\ Takes(c, RootConn)
    /\ "shadowsocks" \in On(RootLayer)
    /\ Set(c, [Wrapped(conn[c], 1024) EXCEPT !.at = "ssRead"])
    /\ busy' = [busy EXCEPT !["shadowsocks"] = c]
    /\ UNCHANGED <<fixed, next>>

\* The trial read decrypts or not; either way the bytes are given back.
ShadowsocksRead(c) ==
    \E n \in 0 .. 2, ok \in BOOLEAN :
       LET s == [conn[c] EXCEPT !.rr = Peeked(@, n)] IN
       /\ At(c, "ssRead")
       /\ ok => n > 0
       /\ Set(c, IF ok THEN [s EXCEPT !.at = "trojan", !.chain = <<Wrapper("shadowsocks")>> \o @]
                 ELSE Redirected([s EXCEPT !.chain = <<Wrapper("rewind")>> \o @], conf.remote))
       /\ busy' = [busy EXCEPT ![IF s.via = "ws" THEN "websocket" ELSE "shadowsocks"] = Nil]
       /\ UNCHANGED <<fixed, chan, next>>
-----------------------------------------------------------------------------
(***************************************************************************)
(* trojan, as far as it hands a connection on (TrojanServer has the rest)  *)
(***************************************************************************)

TrojanTake(c) ==
    /\ Serving
    /\ Takes(c, RootConn)
    /\ "trojan" \in On(RootLayer)
    /\ Goto(c, "trojan")
    /\ UNCHANGED <<fixed, next, busy>>

\* Auth succeeds, or the connection is rewound and redirected: to the rule that
\* Unwrap finds on the chain, else to remote_addr.
TrojanAuth(c) ==
    LET s == conn[c]
        rule == Unwrap(<<Wrapper("rewind")>> \o s.chain)
    IN /\ At(c, "trojan")
       /\ \/ Goto(c, "served")
          \/ Set(c, Redirected([s EXCEPT !.by = "trojan"],
                               IF rule = NoRule THEN conf.remote ELSE [addr |-> rule.addr, port |-> rule.port]))
       /\ UNCHANGED <<fixed, chan, next, busy>>
=============================================================================
