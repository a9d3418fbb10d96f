---------------------------- MODULE ClientStack ----------------------------
(***************************************************************************)
(* The client tree: adapter, and the http and socks servers on it.         *)
(*                                                                         *)
(* A peer is a local program that speaks "socks" (with a command) or       *)
(* "http" (a CONNECT, or requests to be forwarded one by one).  No layer   *)
(* of this tree sets a deadline, and its queues are filled by plain sends. *)
(***************************************************************************)
EXTENDS InboundCore

CONSTANT MaxRequests    \* bound: requests on one connection

\* A command is one of those that handshake tells apart.
ASSUME PeersAssumption ==
    \A p \in Peers["client"] : p.app = "socks" => p.cmd \in {"connect", "associate", "unknown"}

Local == stack = "client"

\* acceptConnLoop takes a connection and reads from it before the next Accept.
AdapterAccept(c) ==
    /\ Local /\ accepting
    /\ busy["adapter"] = Nil
    /\ At(c, "new")
    /\ \E p \in Peers[stack] : Set(c, [Wrapped([conn[c] EXCEPT !.peer = p], 16) EXCEPT !.at = "detect"])
    /\ busy' = [busy EXCEPT !["adapter"] = c]
    /\ UNCHANGED <<fixed, chan, next>>

\* The first bytes decide, as long as a socks server waits for connections.  A
\* failed read is logged and the connection left as it is.
AdapterDetect(c) ==
    LET s == [conn[c] EXCEPT !.rr = Peeked(@, 1)] IN
    /\ At(c, "detect")
    /\ \/ /\ Set(c, [s EXCEPT !.at = IF s.peer.app = "socks" /\ "adapter" \in next
                                     THEN "to socks" ELSE "to http"])
          /\ UNCHANGED busy
       \/ /\ Goto(c, "lost")
          /\ busy' = [busy EXCEPT !["adapter"] = Nil]
    /\ UNCHANGED <<fixed, chan, next>>

AdapterSend(c) ==
    LET q == IF At(c, "to socks") THEN "adapter.socks" ELSE "adapter.http" IN
    /\ At(c, "to socks") \/ At(c, "to http")
    /\ Put(c, [conn[c] EXCEPT !.at = q], q)
    /\ busy' = [busy EXCEPT !["adapter"] = Nil]
    /\ UNCHANGED <<fixed, next>>

\* The first AcceptConn of the socks server.
SocksRegisters ==
    /\ Local /\ "socks" \in On("adapter")
    /\ next' = next \cup {"adapter"}
    /\ UNCHANGED <<fixed, conn, chan, busy>>
-----------------------------------------------------------------------------
(***************************************************************************)
(* http                                                                    *)
(***************************************************************************)

HTTPTake(c) ==
    /\ Local
    /\ Takes(c, "adapter.http")
    /\ Goto(c, "httpRequest")
    /\ UNCHANGED <<fixed, next, busy>>

\* The first ReadRequest, and for CONNECT the answer.  Bytes that are no request
\* end the goroutine, which leaves the connection; a bad address or a failed
\* answer closes it.
HTTPRequest(c) ==
    LET s == conn[c] IN
    /\ At(c, "httpRequest")
    /\ \/ Goto(c, "lost")
       \/ s.peer.app = "http" /\ Set(c, [s EXCEPT !.at = "httpSend", !.rr = Read(@, 1), !.requests = 1])
       \/ s.peer.app = "http" /\ s.peer.cmd = "connect" /\ Goto(c, "closed")
    /\ UNCHANGED <<fixed, chan, next, busy>>

\* connChan <- the connection, or a session for one request of it: the goroutine
\* goes on to write the request into the session's pipe.
HTTPSend(c) ==
    LET s == conn[c] IN
    /\ At(c, "httpSend")
    /\ Put(c, IF s.peer.cmd = "connect" THEN [s EXCEPT !.at = "http.conn"]
              ELSE [s EXCEPT !.at = "reqWrite", !.sess = "queued"], "http.conn")
    /\ UNCHANGED <<fixed, next, busy>>

\* One round of the loop.  The pipe carries the request while the relay reads
\* and the response while it writes; a closed session fails the step, as does a
\* bad response or a client that is gone.  Failing closes the connection but not
\* the session.  An answered request closes its session before the next is read.
HTTPStep(c) ==
    LET s == conn[c] IN
    /\ \/ At(c, "reqWrite") /\ s.sess = "open" /\ Goto(c, "respRead")
       \/ At(c, "respRead") /\ s.sess = "open" /\ Goto(c, "respWrite")
       \/ At(c, "respWrite") /\ Set(c, [s EXCEPT !.at = "nextRequest", !.sess = "closed"])
       \/ /\ At(c, "nextRequest") /\ s.requests < MaxRequests
          /\ Set(c, [s EXCEPT !.at = "httpSend", !.requests = @ + 1])
       \/ At(c, "reqWrite") /\ s.sess = "closed" /\ Goto(c, "closed")
       \/ s.at \in {"respRead", "respWrite", "nextRequest"} /\ Goto(c, "closed")
    /\ UNCHANGED <<fixed, chan, next, busy>>

\* The relay ends (its outbound side failed, or there was no outbound) and closes
\* the session: reader and writer of the pipes see it.
HTTPSessionClosed(c) ==
    /\ conn[c].sess = "open"
    /\ Set(c, [conn[c] EXCEPT !.sess = "closed"])
    /\ UNCHANGED <<fixed, chan, next, busy>>
-----------------------------------------------------------------------------
(***************************************************************************)
(* socks: the TCP side                                                     *)
(***************************************************************************)

SocksTake(c) ==
    /\ "adapter" \in next
    /\ Takes(c, "adapter.socks")
    /\ Goto(c, "socksShake")
    /\ UNCHANGED <<fixed, next, busy>>

\* handshake fails and the connection is left; or it returns a command, which is
\* answered: CONNECT is passed on, ASSOCIATE is held while the client stays, a
\* failed answer and any other command close.
SocksHandshake(c) ==
    LET s == conn[c]
        held == [connect |-> "socksSend", associate |-> "associated", unknown |-> "closed"]
    IN /\ At(c, "socksShake")
       /\ \/ Goto(c, "lost")
          \/ Set(c, [s EXCEPT !.at = held[s.peer.cmd], !.rr = Read(@, 1)])
          \/ Goto(c, "closed")
       /\ UNCHANGED <<fixed, chan, next, busy>>

SocksSend(c) ==
    /\ At(c, "socksSend")
    /\ Put(c, [conn[c] EXCEPT !.at = "socks.conn"], "socks.conn")
    /\ UNCHANGED <<fixed, next, busy>>

SocksAssociateEnds(c) ==
    /\ At(c, "associated")
    /\ Goto(c, "closed")
    /\ UNCHANGED <<fixed, chan, next, busy>>
=============================================================================
