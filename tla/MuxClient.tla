----------------------------- MODULE MuxClient -----------------------------
(***************************************************************************)
(* mux.Client and stickyConn: streams over shared smux sessions.           *)
(*                                                                         *)
(* DialConn keeps clientPoolLock while it looks for a session with room,   *)
(* dials a new one and opens the stream; cleanLoop and Close take sessions *)
(* out of the pool under the lock and close them after releasing it.  On   *)
(* each session stickyConn holds back SYN and FIN headers until a frame    *)
(* with a payload, or a keepalive, carries them along.  smux itself is     *)
(* external: it calls Write from one goroutine per session, its peer gives *)
(* up on a session that stays silent, and a session may break at any time. *)
(***************************************************************************)
EXTENDS Naturals, Sequences, FiniteSets, Functions

CONSTANTS
    Session,      \* smux sessions over the life of the client
    Stream,       \* calls of DialConn, and the streams they return
    Concurrency,  \* streams per session, 0 for no limit
    StickySize,   \* capacity of synQueue and finQueue
    Nil

ASSUME ConcurrencyAssumption == Concurrency \in Nat
ASSUME StickyAssumption == StickySize \in Nat \ {0}
ASSUME NilAssumption == Nil \notin Session \cup Stream

cleanLoop == "cleanLoop"
closer == "Close"
Proc == Stream \cup {cleanLoop, closer}
ASSUME ProcAssumption == cleanLoop \notin Stream /\ closer \notin Stream /\ Nil \notin Proc

\* The frames of a stream.
Syn(x) == <<"SYN", x>>
Psh(x) == <<"PSH", x>>
Fin(x) == <<"FIN", x>>
Frame == {"SYN", "PSH", "FIN"} \X Stream

VARIABLES
    sess,     \* each session: live, dead (IsClosed) or closed by the client
    pool,     \* clientPool
    lock,     \* who holds clientPoolLock
    closed,   \* Client.closed
    ctx,      \* the context is cancelled
    pc,       \* the calls of DialConn, cleanLoop and the call of Close
    seen,     \* what the holder of the lock has passed in its loop
    toClose,  \* clientsToClose of each of them
    via,      \* the session of each stream
    up,       \* streams smux counts in NumStreams
    synQ,     \* synQueue of each session
    finQ,     \* finQueue of each session
    stuck,    \* Write is blocked on a full queue
    wire      \* what each session has written to its connection

poolVars == <<pool, lock, closed, seen, toClose>>
wireVars == <<synQ, finQ, stuck, wire>>
vars == <<sess, ctx, pc, via, up, poolVars, wireVars>>

Init ==
    /\ sess = [m \in Session |-> "none"]
    /\ pool = {} /\ lock = Nil /\ closed = FALSE /\ ctx = FALSE
    /\ pc = [p \in Proc |-> "idle"]
    /\ seen = {}
    /\ toClose = [p \in Proc |-> {}]
    /\ via = [x \in Stream |-> Nil]
    /\ up = {}
    /\ synQ = [m \in Session |-> <<>>] /\ finQ = [m \in Session |-> <<>>]
    /\ stuck = [m \in Session |-> FALSE]
    /\ wire = [m \in Session |-> <<>>]

Goto(p, next) == pc' = [pc EXCEPT ![p] = next]
Lock(p) == lock = Nil /\ lock' = p
Unlock(p) == lock = p /\ lock' = Nil /\ seen' = {}
NumStreams(m) == Cardinality({x \in up : via[x] = m})

\* Mutant: nobody closes the session.
RemoveOnly(p, m) == pool' = pool \ {m} /\ UNCHANGED toClose

\* delete(c.clientPool, id), and the session joins clientsToClose.
Remove(p, m) ==
    /\ pool' = pool \ {m}
    /\ toClose' = [toClose EXCEPT ![p] = @ \cup {m}]

\* A send on synQueue or finQueue does not block.
HasRoom(q) == Len(q) < StickySize
-----------------------------------------------------------------------------
(***************************************************************************)
(* DialConn.                                                               *)
(***************************************************************************)

DialConn(x) ==
    /\ pc[x] = "idle"
    /\ \/ /\ ~closed
          /\ Lock(x)
          /\ Goto(x, "scan")
       \/ /\ closed /\ lock = Nil
          /\ Goto(x, "done")
          /\ UNCHANGED lock
    /\ UNCHANGED <<sess, ctx, via, up, pool, closed, seen, toClose, wireVars>>

\* One round of the loop over the pool.
DialExamines(x, m) ==
    /\ pc[x] = "scan" /\ lock = x
    /\ m \in pool \ seen
    /\ \/ /\ sess[m] # "live"
          /\ Remove(x, m)
          /\ UNCHANGED <<pc, via, seen>>
       \/ /\ sess[m] = "live"
          /\ NumStreams(m) < Concurrency \/ Concurrency = 0
          /\ via' = [via EXCEPT ![x] = m]
          /\ Goto(x, "open")
          /\ UNCHANGED <<pool, toClose, seen>>
       \/ /\ sess[m] = "live"
          /\ NumStreams(m) >= Concurrency /\ Concurrency > 0
          /\ seen' = seen \cup {m}
          /\ UNCHANGED <<pc, via, pool, toClose>>
    /\ UNCHANGED <<sess, ctx, up, lock, closed, wireVars>>

NoSessionHasRoom(x) ==
    /\ pc[x] = "scan" /\ lock = x
    /\ pool \subseteq seen
    /\ Goto(x, "new")
    /\ UNCHANGED <<sess, ctx, via, up, poolVars, wireVars>>

\* newMuxClient, with the lock held during the dial of the underlay.
newMuxClient(x) ==
    /\ pc[x] = "new"
    /\ \/ \E m \in Session :
             /\ sess[m] = "none"
             /\ sess' = [sess EXCEPT ![m] = "live"]
             /\ pool' = pool \cup {m}
             /\ via' = [via EXCEPT ![x] = m]
             /\ Goto(x, "open")
             /\ UNCHANGED <<lock, seen>>
       \/ /\ Unlock(x)
          /\ Goto(x, "closing")
          /\ UNCHANGED <<sess, pool, via>>
    /\ UNCHANGED <<ctx, up, closed, toClose, wireVars>>

\* Open returns a stream once stickyConn has taken its SYN.
OpenSucceeds(x) ==
    /\ pc[x] = "open" /\ sess[via[x]] = "live" /\ ~stuck[via[x]]
    /\ HasRoom(synQ[via[x]])
    /\ synQ' = [synQ EXCEPT ![via[x]] = Append(@, Syn(x))]
    /\ up' = up \cup {x}
    /\ Unlock(x)
    /\ Goto(x, "closing")
    /\ UNCHANGED <<sess, ctx, via, pool, closed, toClose, finQ, stuck, wire>>

\* The SYN finds the queue full: Write blocks, and nobody but the goroutine
\* that is blocked would drain the queue.
OpenBlocks(x) ==
    /\ pc[x] = "open" /\ sess[via[x]] = "live" /\ ~stuck[via[x]]
    /\ ~HasRoom(synQ[via[x]])
    /\ stuck' = [stuck EXCEPT ![via[x]] = TRUE]
    /\ UNCHANGED <<sess, ctx, pc, via, up, poolVars, synQ, finQ, wire>>

\* Open returns an error: the session is dead, or the SYN was not taken in
\* time.  In the second case the other streams of the session end with it.
OpenFails(x) ==
    /\ pc[x] = "open"
    /\ Remove(x, via[x])
    /\ via' = [via EXCEPT ![x] = Nil]
    /\ Unlock(x)
    /\ Goto(x, "closing")
    /\ UNCHANGED <<sess, ctx, up, closed, wireVars>>

\* A session that has ended carries nothing any more.
Ends(m, how) ==
    /\ sess' = [sess EXCEPT ![m] = how]
    /\ synQ' = [synQ EXCEPT ![m] = <<>>] /\ finQ' = [finQ EXCEPT ![m] = <<>>]
    /\ wire' = [wire EXCEPT ![m] = <<>>]
    /\ stuck' = [stuck EXCEPT ![m] = FALSE]

\* closeMuxClients, session by session, after the lock was released.
closeMuxClients(p) ==
    /\ pc[p] \in {"closing", "last"}
    /\ \E m \in toClose[p] :
          /\ Ends(m, "closed")
          /\ toClose' = [toClose EXCEPT ![p] = @ \ {m}]
    /\ UNCHANGED <<ctx, pc, via, up, pool, lock, closed, seen>>

\* The list is closed: DialConn and Close return, cleanLoop goes on until it
\* has seen the end of the context.
Closed(p) ==
    /\ pc[p] \in {"closing", "last"} /\ toClose[p] = {}
    /\ Goto(p, IF p = cleanLoop /\ pc[p] = "closing" THEN "idle" ELSE "done")
    /\ UNCHANGED <<sess, ctx, via, up, poolVars, wireVars>>
-----------------------------------------------------------------------------
(***************************************************************************)
(* cleanLoop and Close.                                                    *)
(***************************************************************************)

\* time.After fires.
CleanTick ==
    /\ pc[cleanLoop] = "idle"
    /\ Lock(cleanLoop)
    /\ Goto(cleanLoop, "scan")
    /\ UNCHANGED <<sess, ctx, via, up, pool, closed, seen, toClose, wireVars>>

\* A dead session is removed, and one without streams if it is old enough.
CleanExamines(m) ==
    /\ pc[cleanLoop] = "scan"
    /\ m \in pool \ seen
    /\ \/ (sess[m] # "live" \/ NumStreams(m) = 0) /\ Remove(cleanLoop, m)
       \/ sess[m] = "live" /\ UNCHANGED <<pool, toClose>>
    /\ seen' = seen \cup {m}
    /\ UNCHANGED <<sess, ctx, pc, via, up, lock, closed, wireVars>>

CleanUnlocks ==
    /\ pc[cleanLoop] = "scan"
    /\ pool \subseteq seen
    /\ Unlock(cleanLoop)
    /\ Goto(cleanLoop, "closing")
    /\ UNCHANGED <<sess, ctx, via, up, pool, closed, toClose, wireVars>>

\* Mutant: the sessions stay where they are.
DrainNothing(p) == closed' = TRUE /\ UNCHANGED <<toClose, pool>>

\* drainClientPoolLocked.
Drain(p) ==
    /\ closed' = TRUE
    /\ toClose' = [toClose EXCEPT ![p] = pool]
    /\ pool' = {}

\* The context is done: the cleaner drains the pool and returns.
CleanShutdown ==
    /\ pc[cleanLoop] = "idle" /\ ctx /\ lock = Nil
    /\ Drain(cleanLoop)
    /\ Goto(cleanLoop, "last")
    /\ UNCHANGED <<sess, ctx, via, up, lock, seen, wireVars>>

Close ==
    /\ pc[closer] = "idle" /\ lock = Nil
    /\ \/ ~closed /\ Drain(closer)
       \/ closed /\ UNCHANGED <<closed, toClose, pool>>
    /\ Goto(closer, "cancel")
    /\ UNCHANGED <<sess, ctx, via, up, lock, seen, wireVars>>

Cancel ==
    /\ pc[closer] = "cancel"
    /\ ctx' = TRUE
    /\ Goto(closer, "closing")
    /\ UNCHANGED <<sess, via, up, poolVars, wireVars>>

\* The context of the whole proxy is cancelled.
ParentDone ==
    /\ ~ctx
    /\ ctx' = TRUE
    /\ UNCHANGED <<sess, pc, via, up, poolVars, wireVars>>
-----------------------------------------------------------------------------
(***************************************************************************)
(* The streams and stickyConn.  The frames of one session are written by   *)
(* one goroutine of smux.                                                  *)
(***************************************************************************)

\* Mutant: the FIN headers go first.
FinFirst(m, p) == finQ[m] \o synQ[m] \o p

\* Mutant: the FIN headers are taken from the queue and dropped.
FinDropped(m, p) == synQ[m] \o p

\* The SYN headers held back, the frame itself, the FIN headers held back.
stickToPayload(m, p) == synQ[m] \o p \o finQ[m]

\* Write of a frame that is neither a SYN nor a FIN.
Write(m, p) ==
    /\ sess[m] = "live" /\ ~stuck[m]
    /\ wire' = [wire EXCEPT ![m] = @ \o stickToPayload(m, p)]
    /\ synQ' = [synQ EXCEPT ![m] = <<>>]
    /\ finQ' = [finQ EXCEPT ![m] = <<>>]
    /\ UNCHANGED stuck

\* A payload of a stream.  The first one of each is followed.
StreamWrites(x) ==
    /\ x \in up /\ pc[x] = "done"
    /\ Psh(x) \notin Range(wire[via[x]])
    /\ Write(via[x], <<Psh(x)>>)
    /\ UNCHANGED <<sess, ctx, pc, via, up, poolVars>>

\* The keepalive of smux, which carries no stream.
KeepAlive(m) ==
    /\ synQ[m] # <<>> \/ finQ[m] # <<>>
    /\ Write(m, <<>>)
    /\ UNCHANGED <<sess, ctx, pc, via, up, poolVars>>

\* Conn.Close: the FIN is held back, or blocks Write on a full queue, or has
\* no session any more.  smux forgets the stream in each case.
StreamCloses(x) ==
    /\ x \in up /\ pc[x] = "done"
    /\ up' = up \ {x}
    /\ via' = [via EXCEPT ![x] = Nil]
    /\ \/ /\ sess[via[x]] = "live" /\ ~stuck[via[x]] /\ HasRoom(finQ[via[x]])
          /\ finQ' = [finQ EXCEPT ![via[x]] = Append(@, Fin(x))]
          /\ UNCHANGED stuck
       \/ /\ sess[via[x]] = "live" /\ ~stuck[via[x]] /\ ~HasRoom(finQ[via[x]])
          /\ stuck' = [stuck EXCEPT ![via[x]] = TRUE]
          /\ UNCHANGED finQ
       \/ /\ sess[via[x]] # "live" \/ stuck[via[x]]
          /\ UNCHANGED <<finQ, stuck>>
    /\ UNCHANGED <<sess, ctx, pc, poolVars, synQ, wire>>

\* The network or the peer ends a session.
Break(m) ==
    /\ sess[m] = "live"
    /\ Ends(m, "dead")
    /\ UNCHANGED <<ctx, pc, via, up, poolVars>>

\* The peer hears nothing from a session whose Write is blocked, not even
\* keepalives, and gives up on it.
PeerTimesOut(m) == stuck[m] /\ Break(m)
-----------------------------------------------------------------------------
Dial(x) ==
    \/ DialConn(x) \/ NoSessionHasRoom(x) \/ newMuxClient(x)
    \/ OpenSucceeds(x) \/ OpenBlocks(x) \/ OpenFails(x)
    \/ \E m \in Session : DialExamines(x, m)

Clean == CleanUnlocks \/ \E m \in Session : CleanExamines(m)

Next ==
    \/ \E x \in Stream : Dial(x) \/ StreamWrites(x) \/ StreamCloses(x)
    \/ \E p \in Proc : closeMuxClients(p) \/ Closed(p)
    \/ CleanTick \/ Clean \/ CleanShutdown
    \/ Close \/ Cancel \/ ParentDone
    \/ \E m \in Session : KeepAlive(m) \/ Break(m)

Spec == Init /\ [][Next]_vars

\* Whoever holds the lock goes on, dials and opens return, lists are closed,
\* keepalives are sent and peers time out.  The cleaner takes its shutdown
\* case in the end although it may tick as well, and the mutex is not kept
\* from a waiter for ever.
Fairness ==
    /\ \A x \in Stream : WF_vars(Dial(x) /\ lock = x)
    /\ \A p \in Proc : WF_vars(closeMuxClients(p) \/ Closed(p))
    /\ WF_vars(Clean) /\ SF_vars(CleanShutdown) /\ WF_vars(Cancel)
    /\ \A m \in Session : WF_vars(KeepAlive(m)) /\ WF_vars(PeerTimesOut(m))

FairSpec == Spec /\ Fairness
-----------------------------------------------------------------------------
(***************************************************************************)
(* Properties.                                                             *)
(***************************************************************************)

\* A session that was dialled is in the pool, in the list of somebody who
\* closes it, or closed: no path of DialConn, cleanLoop and Close forgets
\* one.  A closed client has nothing in its pool, also when DialConn was
\* waiting for the lock.  The cleaner takes no session from its streams.
PoolSound ==
    /\ \A m \in Session :
           sess[m] \in {"live", "dead"} => m \in pool \/ \E p \in Proc : m \in toClose[p]
    /\ closed => pool = {}
    /\ \A m \in toClose[cleanLoop] : sess[m] = "live" /\ ~closed => NumStreams(m) = 0

\* On the wire the SYN of a stream comes before its payload and its FIN,
\* although stickyConn sends headers later than smux wrote them.
FramesInOrder ==
    \A m \in Session : \A i \in 1 .. Len(wire[m]) :
        \A x \in Stream : wire[m][i] \in {Psh(x), Fin(x)} => \E j \in 1 .. i : wire[m][j] = Syn(x)

\* A header that was held back goes out, unless the session ends.
HeadersFlushed ==
    \A m \in Session, x \in Stream :
        \A h \in {Syn(x), Fin(x)} :
            (h \in Range(synQ[m]) \cup Range(finQ[m])) ~> (sess[m] # "live" \/ h \in Range(wire[m]))

\* After the end of the context every session is closed, whoever dials while
\* the pool is drained.
ShutdownClosesSessions == ctx ~> (closed /\ \A m \in Session : sess[m] \in {"none", "closed"})

=============================================================================
