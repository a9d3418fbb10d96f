-------------------------- MODULE PacketDeadlines --------------------------
(***************************************************************************)
(* Deadlines of the two virtual packet connections.                        *)
(*                                                                         *)
(* socks: packetDeadline.set swaps timers and channels under a mutex while *)
(* the timer's callback closes the current channel without it.  Channels   *)
(* are numbers; a closed one is a member of dl.closed.                     *)
(*                                                                         *)
(* router: set stores the deadline and closes a channel that makes blocked *)
(* readers look again (rdl.version counts these), and two loops feed one   *)
(* queue from the proxied and from the direct socket.                      *)
(***************************************************************************)
EXTENDS Naturals, Sequences

CONSTANTS MaxSets,      \* bound: calls of set
          RouterQueue   \* capacity of the router's packetChan

ASSUME DeadlineAssumption == MaxSets \in Nat /\ RouterQueue \in Nat \ {0}

VARIABLES
    dl,         \* socks: timer, current channel, closed channels, what was asked
    setter,     \* socks: the call of set that holds the mutex
    callbacks,  \* socks: callbacks that have started and not closed yet
    reader,     \* socks: a ReadWithMetadata and the channel it waits on
    dctx,       \* socks: the connection is closed
    panicked,   \* close of a closed channel
    rdl,        \* router: deadline and version
    rread,      \* router: a ReadWithMetadata, with the deadline it knows
    loops,      \* router: the two loops of packetLoop
    rqueue,     \* router: packetChan
    rctx        \* router: the connection is closed

dlvars == <<dl, setter, callbacks, reader, dctx, panicked>>
rvars == <<rdl, rread, loops, rqueue, rctx>>

DlInit ==
    /\ dl = [timer |-> "none", chan |-> 0, closed |-> {}, until |-> "zero", sets |-> 0]
    /\ setter = [pc |-> "idle", t |-> "zero"]
    /\ callbacks = 0
    /\ reader = [pc |-> "idle", ch |-> 0]
    /\ dctx = FALSE
    /\ panicked = FALSE
-----------------------------------------------------------------------------
(***************************************************************************)
(* socks                                                                   *)
(***************************************************************************)

Closed == dl.chan \in dl.closed
Unlocked == setter.pc = "idle"

\* SetReadDeadline enters set and takes the mutex; on a closed connection only
\* Close does, with the zero time.
SetEnter(t) ==
    /\ Unlocked
    /\ dl.sets < MaxSets
    /\ dctx => t = "zero"
    /\ setter' = [pc |-> "set", t |-> t]
    /\ UNCHANGED <<dl, callbacks, reader, dctx, panicked>>

\* Close cancels the context, whoever holds the mutex, before it calls set.
CloseConn ==
    /\ ~dctx
    /\ dctx' = TRUE
    /\ UNCHANGED <<dl, setter, callbacks, reader, panicked>>

\* What set does once the old timer is out of the way.
SetBody(t) ==
    [timer  |-> IF t = "future" THEN "armed" ELSE "none",
     chan   |-> IF t # "past" /\ Closed THEN dl.chan + 1 ELSE dl.chan,
     closed |-> IF t = "past" THEN dl.closed \cup {dl.chan} ELSE dl.closed,
     until  |-> t,
     sets   |-> dl.sets + 1]

\* Mutant: a timer that cannot be stopped is not waited for.
SetFinishNoWait ==
    /\ setter.pc = "set"
    /\ dl' = SetBody(setter.t)
    /\ setter' = [setter EXCEPT !.pc = "idle"]
    /\ UNCHANGED <<callbacks, reader, dctx, panicked>>

\* A timer is stopped, or it has fired and set waits until its callback has
\* closed the channel.
SetFinish ==
    /\ setter.pc = "set"
    /\ dl.timer = "fired" => Closed
    /\ dl' = SetBody(setter.t)
    /\ setter' = [setter EXCEPT !.pc = "idle"]
    /\ UNCHANGED <<callbacks, reader, dctx, panicked>>

TimerFires ==
    /\ dl.timer = "armed"
    /\ dl' = [dl EXCEPT !.timer = "fired", !.until = "past"]
    /\ callbacks' = callbacks + 1
    /\ UNCHANGED <<setter, reader, dctx, panicked>>

\* close(d.cancel): whatever channel is current now.
Callback ==
    /\ callbacks > 0
    /\ callbacks' = callbacks - 1
    /\ panicked' = (panicked \/ Closed)
    /\ dl' = [dl EXCEPT !.closed = @ \cup {dl.chan}]
    /\ UNCHANGED <<setter, reader, dctx>>

\* ReadWithMetadata: two checks, then the select on the channel it gets then.
ReadEnter ==
    /\ reader.pc = "idle" /\ Unlocked /\ ~dctx /\ ~Closed
    /\ reader' = [reader EXCEPT !.pc = "checked"]
    /\ UNCHANGED <<dl, setter, callbacks, dctx, panicked>>
ReadSelect ==
    /\ reader.pc = "checked" /\ Unlocked
    /\ reader' = [pc |-> "select", ch |-> dl.chan]
    /\ UNCHANGED <<dl, setter, callbacks, dctx, panicked>>
\* A datagram, the closed context, or the closed channel.
ReadReturn ==
    /\ reader.pc = "select"
    /\ reader' = [pc |-> "idle", ch |-> 0]
    /\ UNCHANGED <<dl, setter, callbacks, dctx, panicked>>

DlNext ==
    \/ \E t \in {"zero", "future", "past"} : SetEnter(t)
    \/ CloseConn \/ SetFinish \/ TimerFires \/ Callback \/ ReadEnter \/ ReadSelect \/ ReadReturn
-----------------------------------------------------------------------------
(***************************************************************************)
(* router                                                                  *)
(***************************************************************************)

Sides == {"proxy", "direct"}

RcInit ==
    /\ rdl = [until |-> "zero", version |-> 0]
    /\ rread = [pc |-> "idle", until |-> "zero", version |-> 0]
    /\ loops = [l \in Sides |-> "read"]
    /\ rqueue = <<>>
    /\ rctx = FALSE

\* A loop reads a packet, or an error (for the direct socket also a source it
\* cannot use), and always an error once Close has closed the sockets.
LoopRead(l) ==
    /\ loops[l] = "read"
    /\ \/ ~rctx /\ loops' = [loops EXCEPT ![l] = "packet"]
       \/ loops' = [loops EXCEPT ![l] = "error"]
    /\ UNCHANGED <<rdl, rread, rqueue, rctx>>

\* Mutant: a loop does not look at the context while it waits for room.
LoopPutNoContext(l) ==
    /\ loops[l] \in {"packet", "error"}
    /\ Len(rqueue) < RouterQueue
    /\ rqueue' = Append(rqueue, loops[l])
    /\ loops' = [loops EXCEPT ![l] = IF @ = "packet" THEN "read" ELSE "ended"]
    /\ UNCHANGED <<rdl, rread, rctx>>

\* Into the queue, or out at the end of the context; an error ends the loop.
LoopPut(l) ==
    /\ loops[l] \in {"packet", "error"}
    /\ \/ /\ Len(rqueue) < RouterQueue
          /\ rqueue' = Append(rqueue, loops[l])
          /\ loops' = [loops EXCEPT ![l] = IF @ = "packet" THEN "read" ELSE "ended"]
       \/ /\ rctx
          /\ loops' = [loops EXCEPT ![l] = "ended"]
          /\ UNCHANGED rqueue
    /\ UNCHANGED <<rdl, rread, rctx>>

\* One round of ReadWithMetadata: a closed connection and a passed deadline end
\* it at once.
RouterReadEnter ==
    /\ rread.pc = "idle"
    /\ ~rctx /\ rdl.until # "past"
    /\ rread' = [pc |-> "select", until |-> rdl.until, version |-> rdl.version]
    /\ UNCHANGED <<rdl, loops, rqueue, rctx>>

\* The select: a packet or an error from the queue, the context, its timer, or a
\* new deadline (the round starts again).
RouterReadReturn ==
    /\ rread.pc = "select"
    /\ \/ rqueue # <<>> /\ rqueue' = Tail(rqueue)
       \/ (rctx \/ rread.until = "past" \/ rread.version # rdl.version) /\ UNCHANGED rqueue
    /\ rread' = [rread EXCEPT !.pc = "idle"]
    /\ UNCHANGED <<rdl, loops, rctx>>

SetReadDeadline(t) ==
    /\ ~rctx /\ rdl.version < MaxSets
    /\ rdl' = [until |-> t, version |-> rdl.version + 1]
    /\ UNCHANGED <<rread, loops, rqueue, rctx>>

\* Time passes the deadline, and the timer a reader started for it fires.
RouterDeadlinePasses ==
    /\ rdl.until = "future"
    /\ rdl' = [rdl EXCEPT !.until = "past"]
    /\ rread' = IF rread.version = rdl.version /\ rread.until = "future"
                THEN [rread EXCEPT !.until = "past"] ELSE rread
    /\ UNCHANGED <<loops, rqueue, rctx>>

RouterClose ==
    /\ ~rctx
    /\ rctx' = TRUE
    /\ UNCHANGED <<rdl, rread, loops, rqueue>>

RcNext ==
    \/ \E l \in Sides : LoopRead(l) \/ LoopPut(l)
    \/ RouterReadEnter \/ RouterReadReturn \/ RouterDeadlinePasses \/ RouterClose
    \/ \E t \in {"zero", "future", "past"} : SetReadDeadline(t)

-----------------------------------------------------------------------------
(***************************************************************************)
(* Properties                                                              *)
(***************************************************************************)

\* socks: no channel is closed twice (a panic), however set and the callback of
\* a timer that has just fired meet; a reader that is blocked waits on the
\* channel the next expiry closes; and reads time out exactly while the last
\* deadline that was set has passed.
DeadlineSound ==
    /\ ~panicked
    /\ reader.pc = "select" /\ reader.ch \notin dl.closed => reader.ch = dl.chan
    /\ Unlocked /\ Closed => dl.until = "past"
    /\ Unlocked /\ dl.until = "past" /\ callbacks = 0 => Closed

\* router: a read that is blocked ends when the deadline in force has passed, also
\* when that deadline was set after the read began, and when the connection is
\* closed; Close also ends both loops, one that waits for room in a queue that
\* nobody reads any more included.
RouterReleases ==
    /\ (rread.pc = "select" /\ rdl.until = "past") ~> (rread.pc = "idle" \/ rdl.until # "past")
    /\ (rread.pc = "select" /\ rctx) ~> rread.pc = "idle"
    /\ rctx ~> \A l \in Sides : loops[l] = "ended"
=============================================================================
