----------------------------- MODULE MCInbound -----------------------------
(***************************************************************************)
(* Instance of Inbound: clients that differ in what the layers look at, and *)
(* configurations with rules, a legacy address, a response file, nothing.  *)
(***************************************************************************)
EXTENDS Inbound

Client(proto, app, sni) ==
    [proto |-> proto, app |-> app, certified |-> sni # "b", sni |-> sni, alpn |-> "h1"]

MCPeers ==
    [tls    |-> {Client("tls", "trojan", "a"), Client("tls", "ws", "a"), Client("tls", "http", "a"),
                 Client("tls", "trojan", "b"), Client("plain", "trojan", "a")},
     plain  |-> {Client("plain", "trojan", "a"), Client("plain", "ws", "a"), Client("plain", "http", "a")},
     client |-> {[app |-> "socks", cmd |-> k] : k \in {"connect", "associate", "unknown"}}
                \cup {[app |-> "http", cmd |-> k] : k \in {"connect", "get"}},
     mux    |-> {[app |-> "mux", cmd |-> k] : k \in {"connect", "associate", "unknown"}}]

Rule(sni, alpn, addr, default) ==
    [sni |-> sni, alpn |-> alpn, addr |-> addr, port |-> 81, proxy |-> 0, default |-> default]

Base ==
    [fallback |-> <<>>, host |-> None, port |-> 0, remote |-> "remote", dials |-> TRUE,
     response |-> "none", keyPair |-> TRUE, timed |-> TRUE, ws |-> TRUE, ss |-> FALSE]

MCConfigs ==
    {Base,
     [Base EXCEPT !.fallback = <<Rule(None, {}, "d", TRUE), Rule("a", {"h2"}, "x", FALSE), Rule("a", {"h1"}, "y", FALSE)>>,
                  !.timed = FALSE],
     [Base EXCEPT !.fallback = <<Rule(None, {}, "d", TRUE), Rule("a", {"h1"}, "e", TRUE)>>],
     [Base EXCEPT !.fallback = <<Rule("b", {}, "x", FALSE)>>, !.host = "legacy", !.port = 82],
     [Base EXCEPT !.host = "legacy", !.port = 82, !.ws = FALSE],
     [Base EXCEPT !.response = "file", !.ss = TRUE],
     [Base EXCEPT !.response = "missing"]}
=============================================================================
