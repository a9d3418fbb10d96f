---------------------------- MODULE InboundCore ----------------------------
(***************************************************************************)
(* What the servers of a tunnel tree share while a connection climbs       *)
(* through them: accept queues, accept loops that handle a connection      *)
(* themselves, and the record that follows one connection.  ServerStack,   *)
(* ClientStack and MuxStack hold the handlers; Inbound composes them.      *)
(***************************************************************************)
EXTENDS Naturals, Sequences, RewindReader, Fallback, Trees

CONSTANTS
    Conn,       \* connections (streams, in the mux tree) over a run
    Nil,        \* no connection
    QueueSize,  \* capacity of an accept queue
    Peers       \* what the other side of a connection may be, per tree

ASSUME InboundAssumption ==
    /\ QueueSize \in Nat \ {0}
    /\ Nil \notin Conn

VARIABLES
    stack,      \* the tree of tunnels that is running
    conf,       \* what the NewServer functions made of the configuration
    accepting,  \* the accept loop of the bottom layer runs
    conn,       \* each connection
    chan,       \* the accept queues
    next,       \* layers that know that their second overlay is there
    busy,       \* the connection an accept loop handles by itself
    session,    \* the smux session of the mux tree
    ctx         \* the servers have been closed

vars == <<stack, conf, accepting, conn, chan, next, busy, session, ctx>>
\* What no handler of a connection changes.
fixed == <<stack, conf, accepting, session, ctx>>

Channels == {"transport.conn", "transport.ws", "tls.conn", "tls.ws", "adapter.socks", "adapter.http",
             "http.conn", "socks.conn", "mux.conn", "ss.conn", "ss.packet"}
Loops == {"websocket", "shadowsocks", "adapter", "simplesocks"}

\* The endpoints of the tree that runs, and the layers directly on layer l.
Tree == IF stack = "client" THEN ClientTree ELSE ServerTree(stack = "plain", conf.ss)
On(l) == Above(Tree, l)

\* What the other side sends: a header and something after it.
Stream == <<1, 2>>

Fresh ==
    [at |-> "new", peer |-> Nil, rr |-> NewRewindConn(Stream), armed |-> FALSE, cut |-> FALSE,
     via |-> "conn", by |-> "tls", chain |-> <<>>, target |-> NoRule, sess |-> "none", requests |-> 0]

\* Connection c changes to the record r.  Nothing is kept of one that is closed,
\* that the proxy or the redirector serves, or that nobody has any more.
Gone == {"closed", "answered", "served", "redirected", "parked", "lost"}
Set(c, r) == conn' = [conn EXCEPT ![c] = IF r.at \in Gone THEN [Fresh EXCEPT !.at = r.at, !.sess = r.sess] ELSE r]
Goto(c, p) == Set(c, [conn[c] EXCEPT !.at = p])
At(c, p) == conn[c].at = p

\* A layer wraps the connection it took: its readers see what is ahead.
Wrapped(s, n) == [s EXCEPT !.rr = SetBufferSize(NewRewindConn(Ahead(s.rr)), n)]

\* A wrapper in front of the chain of net.Conn that the layers have built.
Wrapper(name) == [name |-> name, rule |-> NoRule]

\* The select of offer (transport, tls) and of the mux session: into the queue,
\* or closed when the queue is full or the server is closed.
OfferOrClose(c, s, q) ==
    \/ /\ Len(chan[q]) < QueueSize
       /\ chan' = [chan EXCEPT ![q] = Append(@, c)]
       /\ Set(c, [s EXCEPT !.at = q])
    \/ /\ ctx \/ Len(chan[q]) >= QueueSize
       /\ Set(c, [s EXCEPT !.at = "closed"])
       /\ UNCHANGED chan

\* A plain send: it waits for room and for nothing else.
Put(c, s, q) ==
    /\ Len(chan[q]) < QueueSize
    /\ chan' = [chan EXCEPT ![q] = Append(@, c)]
    /\ Set(c, s)

\* Mutant: a received connection stays at the head.
TakesByPeeking(c, q) ==
    /\ chan[q] # <<>>
    /\ c = Head(chan[q])
    /\ UNCHANGED chan

\* The receiving side.
Takes(c, q) ==
    /\ chan[q] # <<>>
    /\ c = Head(chan[q])
    /\ chan' = [chan EXCEPT ![q] = Tail(@)]
=============================================================================
