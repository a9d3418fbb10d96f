---------------------------- MODULE UDPSessions ----------------------------
(***************************************************************************)
(* The UDP dispatchers of dokodemo, tproxy and socks: one loop gives each  *)
(* datagram to the session of its source, a goroutine per session (the     *)
(* daemon) sends answers back and ends the session when it is quiet, and   *)
(* the proxy's relay reads and writes the session.                         *)
(*                                                                         *)
(* The three differ in what the loop does when a queue is full, in how a   *)
(* daemon ends, and in what it watches.  server says which one runs.       *)
(***************************************************************************)
EXTENDS Naturals, Sequences

CONSTANTS
    Source,         \* addresses datagrams come from
    UDPSession,     \* bound: sessions that exist at one time (reused when nothing refers to one)
    NoSession,      \* no session
    Capacity,       \* of the input, output and packetChan channels
    MaxDatagrams    \* bound: datagrams a source sends

ASSUME UDPAssumption ==
    /\ NoSession \notin UDPSession
    /\ Capacity \in Nat \ {0}

VARIABLES
    server,         \* "dokodemo", "tproxy" or "socks"
    mapping,        \* s.mapping
    sess,           \* the sessions
    packetChan,     \* sessions the proxy has not accepted yet
    disp,           \* the dispatch loop: pc, the datagram, its session
    sent,           \* datagrams sent by each source
    sctx            \* s.ctx is done

svars == <<server, mapping, sess, packetChan, disp, sent, sctx>>

Unused == [src |-> NoSession, open |-> FALSE, daemon |-> "none", relay |-> "none", input |-> <<>>, output |-> <<>>]
Idle == [pc |-> "read", src |-> NoSession, n |-> 0, k |-> NoSession]

SessInit ==
    /\ server \in {"dokodemo", "tproxy", "socks"}
    /\ mapping = [s \in Source |-> NoSession]
    /\ sess = [k \in UDPSession |-> Unused]
    /\ packetChan = <<>>
    /\ disp = Idle
    /\ sent = [s \in Source |-> 0]
    /\ sctx = FALSE

Mapped(k) == \E s \in Source : mapping[s] = k
\* Nothing refers to session k.
Free(k) == sess[k].daemon \in {"none", "ended"} /\ sess[k].relay \in {"none", "gone"} /\ ~Mapped(k)
\* dokodemo's loop holds the mapping lock while it waits for room in an input.
Locked == server = "dokodemo" /\ disp.pc = "input"
-----------------------------------------------------------------------------
\* The new session: dokodemo puts the first datagram in at once, socks starts the
\* daemon before the session is announced, the others after.
NewSession(s, n) ==
    [src |-> s, open |-> TRUE, daemon |-> IF server = "socks" THEN "run" ELSE "none", relay |-> "none",
     input |-> IF server = "dokodemo" THEN <<<<s, n>>>> ELSE <<>>, output |-> <<>>]

\* The loop reads a datagram and looks its source up.
Receive(s) ==
    LET n == sent[s] + 1 IN
    /\ ~sctx
    /\ disp.pc = "read"
    /\ sent[s] < MaxDatagrams
    /\ sent' = [sent EXCEPT ![s] = n]
    /\ IF mapping[s] # NoSession
       THEN /\ disp' = [pc |-> "input", src |-> s, n |-> n, k |-> mapping[s]]
            /\ UNCHANGED <<mapping, sess>>
       ELSE \E k \in {j \in UDPSession : Free(j)} :
               /\ mapping' = [mapping EXCEPT ![s] = k]
               /\ sess' = [sess EXCEPT ![k] = NewSession(s, n)]
               /\ disp' = [pc |-> "announce", src |-> s, n |-> n, k |-> k]
    /\ UNCHANGED <<server, packetChan, sctx>>

\* packetChan <- conn, a plain send; then the daemon, if it does not run yet.
Announce ==
    LET k == disp.k IN
    /\ disp.pc = "announce"
    /\ Len(packetChan) < Capacity
    /\ packetChan' = Append(packetChan, k)
    /\ sess' = [sess EXCEPT ![k].relay = "queued",
                            ![k].daemon = IF server = "socks" THEN @ ELSE "run"]
    /\ disp' = IF server = "dokodemo" THEN Idle ELSE [disp EXCEPT !.pc = "input"]
    /\ UNCHANGED <<server, mapping, sent, sctx>>

\* Mutant: tproxy and socks wait for room, as dokodemo does.
InputWaits ==
    /\ disp.pc = "input"
    /\ Len(sess[disp.k].input) < Capacity
    /\ sess' = [sess EXCEPT ![disp.k].input = Append(@, <<disp.src, disp.n>>)]
    /\ disp' = Idle
    /\ UNCHANGED <<server, mapping, packetChan, sent, sctx>>

\* The datagram goes into the input of the session that was looked up, whatever
\* has become of it.  When it is full dokodemo waits and the others drop; socks
\* also drops a datagram it cannot parse.
Input ==
    LET k == disp.k IN
    /\ disp.pc = "input"
    /\ \/ /\ Len(sess[k].input) < Capacity
          /\ sess' = [sess EXCEPT ![k].input = Append(@, <<disp.src, disp.n>>)]
       \/ /\ server # "dokodemo"
          /\ Len(sess[k].input) = Capacity \/ server = "socks"
          /\ UNCHANGED sess
    /\ disp' = Idle
    /\ UNCHANGED <<server, mapping, packetChan, sent, sctx>>
-----------------------------------------------------------------------------
(***************************************************************************)
(* The daemon of a session                                                 *)
(***************************************************************************)

Unmap(k) == mapping' = [s \in Source |-> IF mapping[s] = k THEN NoSession ELSE mapping[s]]

\* An answer goes back to the source (tproxy skips one from a domain name).  When
\* that fails dokodemo's daemon just ends, tproxy's closes the session, and
\* socks' closes it and goes on to forget it.
DaemonSend(k) ==
    /\ sess[k].daemon = "run"
    /\ sess[k].output # <<>>
    /\ \/ sess' = [sess EXCEPT ![k].output = Tail(@)]
       \/ sess' = [sess EXCEPT ![k].output = Tail(@),
                               ![k].open = IF server = "dokodemo" THEN @ ELSE FALSE,
                               ![k].daemon = IF server = "socks" THEN "ending" ELSE "ended"]
    /\ UNCHANGED <<server, mapping, packetChan, disp, sent, sctx>>

\* Mutant: socks forgets the session first and closes it then.
DaemonQuietUnmapFirst(k) ==
    /\ sess[k].daemon = "run"
    /\ ~Locked
    /\ Unmap(k)
    /\ sess' = [sess EXCEPT ![k].daemon = "ending"]
    /\ UNCHANGED <<server, packetChan, disp, sent, sctx>>

\* time.After with no answer in between (and for socks, Close of the session):
\* dokodemo and tproxy forget the session first, socks closes it first.
DaemonQuiet(k) ==
    /\ sess[k].daemon = "run"
    /\ ~Locked
    /\ IF server = "socks" THEN UNCHANGED mapping ELSE Unmap(k)
    /\ sess' = [sess EXCEPT ![k].daemon = "ending", ![k].open = IF server = "socks" THEN FALSE ELSE @]
    /\ UNCHANGED <<server, packetChan, disp, sent, sctx>>

\* The second half: the session is closed, and forgotten if it is still the one.
DaemonEnds(k) ==
    /\ sess[k].daemon = "ending"
    /\ sess' = [sess EXCEPT ![k].daemon = "ended", ![k].open = FALSE]
    /\ IF server = "socks" THEN Unmap(k) ELSE UNCHANGED mapping
    /\ UNCHANGED <<server, packetChan, disp, sent, sctx>>

\* s.ctx: dokodemo's daemon returns, the others close (socks forgets as well).
DaemonStops(k) ==
    /\ sctx
    /\ sess[k].daemon = "run"
    /\ sess' = [sess EXCEPT ![k].open = IF server = "dokodemo" THEN @ ELSE FALSE,
                            ![k].daemon = IF server = "socks" THEN "ending" ELSE "ended"]
    /\ UNCHANGED <<server, mapping, packetChan, disp, sent, sctx>>
-----------------------------------------------------------------------------
(***************************************************************************)
(* The relay of the proxy                                                  *)
(***************************************************************************)

UDPAcceptPacket ==
    /\ packetChan # <<>>
    /\ packetChan' = Tail(packetChan)
    /\ sess' = [sess EXCEPT ![Head(packetChan)].relay = "taken"]
    /\ UNCHANGED <<server, mapping, disp, sent, sctx>>

\* ReadWithMetadata; a closed session may still give what is queued.
ReadWithMetadata(k) ==
    /\ sess[k].relay = "taken"
    /\ sess[k].input # <<>>
    /\ sess' = [sess EXCEPT ![k].input = Tail(@)]
    /\ UNCHANGED <<server, mapping, packetChan, disp, sent, sctx>>

\* WriteWithMetadata waits for room.  tproxy queues a buffer of the right length
\* that the payload was never copied to.
WriteWithMetadata(k) ==
    /\ sess[k].relay = "taken"
    /\ Len(sess[k].output) < Capacity
    /\ sess' = [sess EXCEPT ![k].output = Append(@, IF server = "tproxy" THEN "blank" ELSE "answer")]
    /\ UNCHANGED <<server, mapping, packetChan, disp, sent, sctx>>

\* The relay ends (no outbound, an error, idle) and closes the session.
RelayCloses(k) ==
    /\ sess[k].relay = "taken"
    /\ sess' = [sess EXCEPT ![k].relay = "gone", ![k].open = FALSE]
    /\ UNCHANGED <<server, mapping, packetChan, disp, sent, sctx>>

SessClose ==
    /\ ~sctx
    /\ sctx' = TRUE
    /\ UNCHANGED <<server, mapping, sess, packetChan, disp, sent>>

SessNext ==
    \/ \E s \in Source : Receive(s)
    \/ Announce \/ Input \/ UDPAcceptPacket \/ SessClose
    \/ \E k \in UDPSession : DaemonSend(k) \/ DaemonQuiet(k) \/ DaemonEnds(k) \/ DaemonStops(k)
    \/ \E k \in UDPSession : ReadWithMetadata(k) \/ WriteWithMetadata(k) \/ RelayCloses(k)

-----------------------------------------------------------------------------
(***************************************************************************)
(* Properties                                                              *)
(***************************************************************************)

\* A session is given the datagrams of its own source, each once and in order,
\* although the loop uses a session it looked up before the session ended; and in
\* socks, whose daemon closes a session before it forgets it, a source has one
\* open session at a time.
OneOpenSession ==
    /\ \A k \in UDPSession :
          LET q == sess[k].input IN
          /\ \A i \in DOMAIN q : q[i][1] = sess[k].src /\ q[i][2] <= sent[sess[k].src]
          /\ \A i, j \in DOMAIN q : i < j => q[i][2] < q[j][2]
    /\ server = "socks" =>
          \A k, j \in UDPSession : (sess[k].open /\ sess[j].open /\ sess[k].src = sess[j].src) => k = j

\* tproxy and socks: no session, however slow or dead its reader, holds up the
\* loop that serves all the others.  socks: a session that is closed, by its
\* daemon or by the relay, does not keep the datagrams of its source: it is
\* forgotten, and the next datagram opens another.
DispatchGoesOn ==
    /\ (server # "dokodemo" /\ disp.pc # "read") ~> disp.pc = "read"
    /\ \A k \in UDPSession : (server = "socks" /\ Mapped(k) /\ ~sess[k].open) ~> ~(Mapped(k) /\ ~sess[k].open)
=============================================================================
