------------------------------ MODULE MuxStack ------------------------------
(***************************************************************************)
(* mux and simplesocks on a trojan server: the streams of one smux session *)
(* become connections, and each starts with a header that says what it is. *)
(***************************************************************************)
EXTENDS InboundCore

Muxed == stack = "mux"

\* acceptConnWorker: smux.Server on a connection from trojan, or its error, after
\* which nobody has the connection.
MuxSession ==
    /\ Muxed /\ session = "none"
    /\ "mux" \in On("trojan")
    /\ session' \in {"up", "lost"}
    /\ UNCHANGED <<stack, conf, accepting, conn, chan, next, busy, ctx>>

\* AcceptStream returns a stream; at shutdown the goroutine may also end, which
\* closes the session and the connection below it.
MuxAcceptStream(c) ==
    /\ session = "up"
    /\ At(c, "new")
    /\ \E p \in Peers[stack] :
          LET s == [conn[c] EXCEPT !.peer = p] IN
          \/ OfferOrClose(c, s, "mux.conn") /\ UNCHANGED session
          \/ /\ ctx
             /\ session' = "down"
             /\ Set(c, [s EXCEPT !.at = "closed"])
             /\ UNCHANGED chan
    /\ UNCHANGED <<stack, conf, accepting, next, busy, ctx>>

\* AcceptStream fails: the peer or the user's cut-off closed the connection.
MuxSessionEnds ==
    /\ session = "up"
    /\ session' = "down"
    /\ UNCHANGED <<stack, conf, accepting, conn, chan, next, busy, ctx>>

\* simplesocks' acceptLoop takes a stream and reads its header by itself.
SimpleSocksTake(c) ==
    /\ Muxed
    /\ busy["simplesocks"] = Nil
    /\ Takes(c, "mux.conn")
    /\ Goto(c, "header")
    /\ busy' = [busy EXCEPT !["simplesocks"] = c]
    /\ UNCHANGED <<fixed, next>>

\* The header is there, or cannot be read any more; a stream that is silent keeps
\* the loop.  Failure and unknown commands close the stream.
SimpleSocksHeader(c) ==
    LET s == conn[c]
        sends == session = "up" /\ s.peer.cmd \in {"connect", "associate"}
    IN /\ At(c, "header")
       /\ \/ /\ sends
             /\ Set(c, [s EXCEPT !.at = "ssSend", !.rr = Read(@, 1)])
             /\ UNCHANGED busy
          \/ /\ Goto(c, "closed")
             /\ busy' = [busy EXCEPT !["simplesocks"] = Nil]
       /\ UNCHANGED <<fixed, chan, next>>

SimpleSocksSend(c) ==
    LET q == IF conn[c].peer.cmd = "connect" THEN "ss.conn" ELSE "ss.packet" IN
    /\ At(c, "ssSend")
    /\ Put(c, [conn[c] EXCEPT !.at = q], q)
    /\ busy' = [busy EXCEPT !["simplesocks"] = Nil]
    /\ UNCHANGED <<fixed, next>>
=============================================================================
