------------------------------- MODULE Relay -------------------------------
(***************************************************************************)
(* proxy.Proxy and redirector.Redirector: what moves bytes between the two *)
(* ends of a session.                                                      *)
(*                                                                         *)
(* A session is a connection taken from a source (relayConnLoop), a packet *)
(* association (relayPacketLoop) or a connection handed to the redirector. *)
(* Its goroutine dials the other end, starts one copier per direction,     *)
(* waits for the first of them to end or for the shutdown, and closes both *)
(* ends.  The peers send, stop reading or fail as they like.               *)
(***************************************************************************)
EXTENDS Naturals, Sequences

CONSTANTS
    Session,    \* sessions over the life of the process
    QueueSize,  \* capacity of redirectionChan
    IdleLimit,  \* an idle timeout is configured
    Kinds       \* the ways the sessions may come in

ASSUME QueueAssumption == QueueSize \in Nat \ {0}
ASSUME IdleAssumption == IdleLimit \in BOOLEAN

Kind == {"conn", "packet", "redirect"}
ASSUME KindsAssumption == Kinds \subseteq [Session -> Kind]

Dir == {"up", "down"}
End == {"in", "out"}
Src(d) == IF d = "up" THEN "in" ELSE "out"
Dst(d) == IF d = "up" THEN "out" ELSE "in"

VARIABLES
    kind,       \* how each session comes in
    pc,         \* the goroutine of each session
    open,       \* the ends that are there and that nobody has closed
    copier,     \* the two copy goroutines of each session
    errs,       \* errors waiting in errChan
    queue,      \* redirectionChan
    worker,     \* the redirector's worker runs
    ctx,        \* the context is cancelled
    inHand      \* the copier has read something it has not written

session == <<kind, pc, open, copier, errs, inHand>>
vars == <<session, queue, worker, ctx>>

TypeOK ==
    /\ kind \in [Session -> Kind]
    /\ pc \in [Session -> {"new", "offered", "queued", "dropped", "dial", "select", "close", "closed", "wait", "done"}]
    /\ open \in [Session -> SUBSET End]
    /\ copier \in [Session -> [Dir -> {"off", "read", "write", "finished", "failed"}]]
    /\ errs \in [Session -> 0 .. 2]
    /\ queue \in Seq(Session) /\ Len(queue) <= QueueSize
    /\ worker \in BOOLEAN
    /\ ctx \in BOOLEAN
    /\ inHand \in [Session -> [Dir -> BOOLEAN]]

Init ==
    /\ kind \in Kinds
    /\ pc = [s \in Session |-> "new"]
    /\ open = [s \in Session |-> {}]
    /\ copier = [s \in Session |-> [d \in Dir |-> "off"]]
    /\ errs = [s \in Session |-> 0]
    /\ queue = <<>>
    /\ worker = TRUE
    /\ ctx = FALSE
    /\ inHand = [s \in Session |-> [d \in Dir |-> FALSE]]

Goto(s, next) == pc' = [pc EXCEPT ![s] = next]
-----------------------------------------------------------------------------
(***************************************************************************)
(* Sessions come in.                                                       *)
(***************************************************************************)

\* AcceptConn returns a connection: a goroutine of its own relays it.  The
\* loop returns on an error after the shutdown; from then on nothing is
\* accepted, which a step that is never taken says as well.
AcceptConn(s) ==
    /\ kind[s] = "conn"
    /\ pc[s] = "new"
    /\ Goto(s, "dial")
    /\ open' = [open EXCEPT ![s] = {"in"}]
    /\ UNCHANGED <<kind, copier, errs, queue, worker, ctx, inHand>>

AcceptPacket(s) ==
    /\ kind[s] = "packet"
    /\ pc[s] = "new"
    /\ Goto(s, "dial")
    /\ open' = [open EXCEPT ![s] = {"in"}]
    /\ UNCHANGED <<kind, copier, errs, queue, worker, ctx, inHand>>

\* A tunnel server passes a connection that is not its own to Redirect.
CallRedirect(s) ==
    /\ kind[s] = "redirect"
    /\ pc[s] = "new"
    /\ Goto(s, "offered")
    /\ open' = [open EXCEPT ![s] = {"in"}]
    /\ UNCHANGED <<kind, copier, errs, queue, worker, ctx, inHand>>

\* Redirect waits for room in the channel or for the shutdown; in the second
\* case it returns without closing the connection.
Redirect(s) ==
    /\ pc[s] = "offered"
    /\ \/ /\ Len(queue) < QueueSize
          /\ queue' = Append(queue, s)
          /\ Goto(s, "queued")
       \/ /\ ctx
          /\ Goto(s, "dropped")
          /\ UNCHANGED queue
    /\ UNCHANGED <<kind, open, copier, errs, worker, ctx, inHand>>

\* The worker starts a goroutine for each redirection it takes.
WorkerTakes ==
    /\ worker
    /\ queue # <<>>
    /\ Goto(Head(queue), "dial")
    /\ queue' = Tail(queue)
    /\ UNCHANGED <<kind, open, copier, errs, worker, ctx, inHand>>

WorkerReturns ==
    /\ worker
    /\ ctx
    /\ worker' = FALSE
    /\ UNCHANGED <<session, queue, ctx>>
-----------------------------------------------------------------------------
(***************************************************************************)
(* The goroutine of a session.                                             *)
(***************************************************************************)

\* The dial fails, or there is nowhere to dial: the deferred Close runs.
DialFails(s) ==
    /\ pc[s] = "dial"
    /\ Goto(s, "done")
    /\ open' = [open EXCEPT ![s] = {}]
    /\ UNCHANGED <<kind, copier, errs, queue, worker, ctx, inHand>>

\* The other end is there and both copiers start.
DialSucceeds(s) ==
    /\ pc[s] = "dial"
    /\ Goto(s, "select")
    /\ open' = [open EXCEPT ![s] = End]
    /\ copier' = [copier EXCEPT ![s] = [d \in Dir |-> "read"]]
    /\ UNCHANGED <<kind, errs, queue, worker, ctx, inHand>>

\* Mutant: an idle tick of the goroutine ends the session.
SelectAnything(s) ==
    /\ pc[s] = "select"
    /\ Goto(s, "close")
    /\ errs' = [errs EXCEPT ![s] = IF @ > 0 THEN @ - 1 ELSE @]
    /\ UNCHANGED <<kind, open, copier, queue, worker, ctx, inHand>>

\* Mutant: the shutdown is not among the cases.
SelectErrOnly(s) ==
    /\ pc[s] = "select"
    /\ errs[s] > 0 /\ errs' = [errs EXCEPT ![s] = @ - 1]
    /\ Goto(s, "close")
    /\ UNCHANGED <<kind, open, copier, queue, worker, ctx, inHand>>

\* The first copier that ends, or the shutdown.
Select(s) ==
    /\ pc[s] = "select"
    /\ \/ errs[s] > 0 /\ errs' = [errs EXCEPT ![s] = @ - 1]
       \/ ctx /\ UNCHANGED errs
    /\ Goto(s, "close")
    /\ UNCHANGED <<kind, open, copier, queue, worker, ctx, inHand>>

\* A relay closes the inbound end first.
CloseInbound(s) ==
    /\ pc[s] = "close" /\ kind[s] # "redirect"
    /\ Goto(s, "closed")
    /\ open' = [open EXCEPT ![s] = @ \ {"in"}]
    /\ UNCHANGED <<kind, copier, errs, queue, worker, ctx, inHand>>

\* Mutant: closing the outbound end is left to the deferred call.
OutboundLater(s) ==
    /\ pc[s] = "closed" /\ kind[s] # "redirect"
    /\ Goto(s, "wait")
    /\ UNCHANGED <<kind, open, copier, errs, queue, worker, ctx, inHand>>

CloseOutbound(s) ==
    /\ pc[s] = "closed" /\ kind[s] # "redirect"
    /\ Goto(s, "wait")
    /\ open' = [open EXCEPT ![s] = @ \ {"out"}]
    /\ UNCHANGED <<kind, copier, errs, queue, worker, ctx, inHand>>

\* It waits for one more error and returns; the deferred calls of Close find
\* both ends closed.
WaitSecond(s) ==
    /\ pc[s] = "wait"
    /\ errs[s] > 0
    /\ errs' = [errs EXCEPT ![s] = @ - 1]
    /\ Goto(s, "done")
    /\ UNCHANGED <<kind, open, copier, queue, worker, ctx, inHand>>

\* A redirection returns at once: its deferred calls close the outbound end,
\* then the inbound one.
ReturnClosesOutbound(s) ==
    /\ pc[s] = "close" /\ kind[s] = "redirect"
    /\ Goto(s, "closed")
    /\ open' = [open EXCEPT ![s] = @ \ {"out"}]
    /\ UNCHANGED <<kind, copier, errs, queue, worker, ctx, inHand>>

ReturnClosesInbound(s) ==
    /\ pc[s] = "closed" /\ kind[s] = "redirect"
    /\ Goto(s, "done")
    /\ open' = [open EXCEPT ![s] = @ \ {"in"}]
    /\ UNCHANGED <<kind, copier, errs, queue, worker, ctx, inHand>>

-----------------------------------------------------------------------------
(***************************************************************************)
(* The copiers: io.CopyBuffer, io.Copy and the loop of copyPacket.         *)
(***************************************************************************)

\* The copier sends nil or its error to errChan, which has room for both.
\* What it has in hand after an error is lost.
CopierEnds(s, d, how) ==
    /\ copier' = [copier EXCEPT ![s][d] = how]
    /\ errs' = [errs EXCEPT ![s] = @ + 1]
    /\ inHand' = [inHand EXCEPT ![s][d] = @ /\ how = "finished"]
    /\ UNCHANGED <<kind, pc, open, queue, worker, ctx>>

\* The peer sends and the read succeeds, which also moves the read deadline.
CopyReads(s, d) ==
    /\ copier[s][d] = "read"
    /\ Src(d) \in open[s]
    /\ copier' = [copier EXCEPT ![s][d] = "write"]
    /\ inHand' = [inHand EXCEPT ![s][d] = TRUE]
    /\ UNCHANGED <<kind, pc, open, errs, queue, worker, ctx>>

\* What was read is written; a peer that does not read keeps the copier here.
CopyWrites(s, d) ==
    /\ copier[s][d] = "write"
    /\ Dst(d) \in open[s]
    /\ copier' = [copier EXCEPT ![s][d] = "read"]
    /\ inHand' = [inHand EXCEPT ![s][d] = FALSE]
    /\ UNCHANGED <<kind, pc, open, errs, queue, worker, ctx>>

\* Mutant: what came with the end of the stream is not written.
EndsBeforeWriting(s, d) ==
    /\ copier[s][d] \in {"read", "write"}
    /\ Src(d) \in open[s]
    /\ CopierEnds(s, d, "finished")

\* The peer ends the stream, or for packets sends a datagram without payload.
CopyFinishes(s, d) ==
    /\ copier[s][d] = "read"
    /\ Src(d) \in open[s]
    /\ CopierEnds(s, d, "finished")

\* Mutant: only the end that came in gets a deadline.
InboundDeadlineOnly(s, d) ==
    /\ IdleLimit /\ d = "up"
    /\ copier[s][d] = "read"
    /\ Src(d) \in open[s]
    /\ CopierEnds(s, d, "failed")

\* The peer stays silent until the deadline that idleReader, idleConn or
\* copyPacket set.
DeadlinePasses(s, d) ==
    /\ IdleLimit
    /\ copier[s][d] = "read"
    /\ Src(d) \in open[s]
    /\ CopierEnds(s, d, "failed")

\* A read or a write on an end this process has closed returns an error.
CopyFindsClosed(s, d) ==
    /\ \/ copier[s][d] = "read" /\ Src(d) \notin open[s]
       \/ copier[s][d] = "write" /\ Dst(d) \notin open[s]
    /\ CopierEnds(s, d, "failed")

\* The network fails the read or the write.
CopyFails(s, d) ==
    /\ copier[s][d] \in {"read", "write"}
    /\ CopierEnds(s, d, "failed")
-----------------------------------------------------------------------------
(***************************************************************************)
(* The operator.                                                           *)
(***************************************************************************)

\* Proxy.Close cancels the context.
Close ==
    /\ ~ctx
    /\ ctx' = TRUE
    /\ UNCHANGED <<session, queue, worker>>
-----------------------------------------------------------------------------
Main(s) ==
    \/ DialFails(s) \/ DialSucceeds(s)
    \/ Select(s)
    \/ CloseInbound(s) \/ CloseOutbound(s) \/ WaitSecond(s)
    \/ ReturnClosesOutbound(s) \/ ReturnClosesInbound(s)

Copier(s, d) ==
    \/ CopyReads(s, d) \/ CopyWrites(s, d)
    \/ CopyFinishes(s, d) \/ DeadlinePasses(s, d) \/ CopyFindsClosed(s, d) \/ CopyFails(s, d)

Arrival(s) == AcceptConn(s) \/ AcceptPacket(s) \/ CallRedirect(s) \/ Redirect(s)

Next ==
    \/ \E s \in Session : Arrival(s) \/ Main(s)
    \/ \E s \in Session, d \in Dir : Copier(s, d)
    \/ WorkerTakes \/ WorkerReturns
    \/ Close

Spec == Init /\ [][Next]_vars

\* Goroutines that can run do, dials return, and deadlines fire.  Nothing is
\* assumed of the peers: they may never send, never stop and never read.
Fairness ==
    /\ \A s \in Session : WF_vars(Main(s)) /\ WF_vars(Redirect(s))
    /\ \A s \in Session, d \in Dir :
           WF_vars(DeadlinePasses(s, d)) /\ WF_vars(CopyFindsClosed(s, d))
    /\ WF_vars(WorkerTakes)

FairSpec == Spec /\ Fairness
-----------------------------------------------------------------------------
(***************************************************************************)
(* Properties.                                                             *)
(***************************************************************************)

Stopped == {"finished", "failed"}
Ended(s) == \E d \in Dir : copier[s][d] \in Stopped
Gone(s) == pc[s] = "done" /\ open[s] = {} /\ \A d \in Dir : copier[s][d] \in Stopped \cup {"off"}

\* While both directions of a session work and the proxy is not shut down,
\* neither end is closed: the relay never cuts an active flow.
NoEarlyClose ==
    \A s \in Session :
        (pc[s] \in {"select", "close", "closed", "wait"} /\ ~Ended(s) /\ ~ctx) => open[s] = End

\* The goroutine of a session leaves no connection behind, on any of its
\* return paths.
NothingLeftBehind == \A s \in Session : pc[s] = "done" => open[s] = {}

\* A copier that ends without an error has written everything it read: what
\* came before the end of the stream is not lost, and closing both ends after
\* one direction finished truncates only the other one.
FinishedIsDelivered ==
    \A s \in Session, d \in Dir : copier[s][d] = "finished" => ~inHand[s][d]

\* Once one direction has ended, the other one ends, both ends are closed and
\* the goroutines are gone, also when the other peer neither sends nor reads.
EndsTogether == \A s \in Session : Ended(s) ~> Gone(s)

\* After Close every session that has its goroutine ends.  A redirection
\* still waiting in or before the channel has none.
ShutdownEnds == \A s \in Session : (ctx /\ pc[s] \in {"dial", "select"}) ~> Gone(s)

\* With an idle timeout, a peer that stays silent ends the session, even
\* one that has never sent anything.
SilentPeersEvicted ==
    \A s \in Session, d \in Dir :
        (IdleLimit /\ copier[s][d] = "read") ~> (copier[s][d] = "write" \/ Gone(s))

=============================================================================
