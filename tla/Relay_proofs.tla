---------------------------- MODULE Relay_proofs ----------------------------
(***************************************************************************)
(* Proofs about Relay, for any number of sessions and any queue size, and, *)
(* in a second section, about Datagrams.                                   *)
(*                                                                         *)
(* The ends a session has open are a function of where its goroutine is    *)
(* (EndsFollow), which is right as long as a session is in the redirection *)
(* channel at most once and only while nobody serves it (QueuedUnserved).  *)
(* The goroutine leaves its select only for an error that a copier sent,   *)
(* so errChan never holds more errors than copiers have ended (ErrsBacked).*)
(***************************************************************************)
EXTENDS Relay, Datagrams, TLAPS

USE Zenon

Unserved == {"new", "offered", "queued", "dropped", "dial"}

\* The ends that are open, by the position of the goroutine.
EndsFollow ==
    \A s \in Session :
        /\ pc[s] \in {"new", "done", "wait"} => open[s] = {}
        /\ pc[s] \in {"offered", "queued", "dropped", "dial"} => open[s] = {"in"}
        /\ pc[s] \in {"select", "close"} => open[s] = End
        /\ pc[s] = "closed" => open[s] = IF kind[s] = "redirect" THEN {"in"} ELSE {"out"}
        /\ pc[s] \in Unserved => \A d \in Dir : copier[s][d] = "off"

\* A session in the channel is waiting, and is there once.
QueuedUnserved ==
    /\ \A i \in 1 .. Len(queue) : pc[queue[i]] = "queued"
    /\ \A i, j \in 1 .. Len(queue) : queue[i] = queue[j] => i = j

One(b) == IF b THEN 1 ELSE 0
EndedCopiers(s) == One(copier[s]["up"] \in Stopped) + One(copier[s]["down"] \in Stopped)

\* Every error in errChan was sent by a copier that ended, and the select was
\* left for one of them or for the shutdown.
ErrsBacked ==
    \A s \in Session :
        /\ errs[s] <= EndedCopiers(s)
        /\ pc[s] \in {"close", "closed", "wait"} => Ended(s) \/ ctx

\* A chunk in hand belongs to a copier that is about to write it.
HandsAccounted == \A s \in Session, d \in Dir : inHand[s][d] => copier[s][d] = "write"

Inv == TypeOK /\ EndsFollow /\ QueuedUnserved /\ ErrsBacked /\ HandsAccounted
-----------------------------------------------------------------------------
\* The invariant gives the three properties.
LEMMA InvSuffices == Inv => NoEarlyClose /\ NothingLeftBehind /\ FinishedIsDelivered
  BY DEF Inv, EndsFollow, ErrsBacked, HandsAccounted, NoEarlyClose, NothingLeftBehind, FinishedIsDelivered, TypeOK

\* Inv holds when the proxy starts.
LEMMA InvInit == Init => Inv
  <1> SUFFICES ASSUME Init PROVE Inv
    OBVIOUS
  <1>1. TypeOK
    <2>1. kind \in [Session -> Kind]
      BY KindsAssumption DEF Init
    <2>2. queue \in Seq(Session) /\ Len(queue) <= QueueSize
      BY QueueAssumption, SMTT(30) DEF Init
    <2>3. copier \in [Session -> [Dir -> {"off", "read", "write", "finished", "failed"}]]
          /\ inHand \in [Session -> [Dir -> BOOLEAN]] /\ open \in [Session -> SUBSET End]
      BY DEF Init
    <2>4. errs \in [Session -> 0 .. 2]
          /\ pc \in [Session -> {"new", "offered", "queued", "dropped", "dial", "select", "close", "closed", "wait", "done"}]
      BY SMTT(30) DEF Init
    <2>5. worker \in BOOLEAN /\ ctx \in BOOLEAN
      BY ZenonT(30) DEF Init
    <2>6. QED BY <2>1, <2>2, <2>3, <2>4, <2>5 DEF TypeOK
  <1>2. EndsFollow /\ QueuedUnserved /\ HandsAccounted
    BY SMTT(30) DEF Init, EndsFollow, QueuedUnserved, HandsAccounted, Unserved
  <1>3. ErrsBacked
    <2>1. ASSUME NEW s \in Session PROVE errs[s] <= EndedCopiers(s) /\ pc[s] = "new"
      <3>1. errs[s] = 0 /\ pc[s] = "new" /\ copier[s]["up"] = "off" /\ copier[s]["down"] = "off"
        BY DEF Init, Dir
      <3>2. QED BY <3>1, SMTT(30) DEF EndedCopiers, One, Stopped
    <2>2. \A s \in Session : errs[s] <= EndedCopiers(s)
      BY ZenonT(30), <2>1
    <2>3. \A s \in Session : pc[s] \notin {"close", "closed", "wait"}
      BY ZenonT(30), <2>1
    <2>4. QED BY <2>2, <2>3, ZenonT(30) DEF ErrsBacked
  <1>4. QED BY <1>1, <1>2, <1>3 DEF Inv

\* A step that changes only the goroutine of one session, not one that is in
\* the channel, leaves the channel alone.
LEMMA ChannelKept ==
    ASSUME QueuedUnserved, TypeOK, UNCHANGED queue,
           NEW s \in Session, pc[s] # "queued", \A t \in Session : t # s => pc'[t] = pc[t]
    PROVE  QueuedUnserved'
  <1>1. \A i \in 1 .. Len(queue) : queue[i] \in Session
    BY SMTT(30) DEF TypeOK
  <1>2. QED BY <1>1 DEF QueuedUnserved

\* A session that starts or stops keeps everything but its own place.
LEMMA ArrivalInv ==
    ASSUME Inv, NEW s \in Session, AcceptConn(s) \/ AcceptPacket(s) \/ CallRedirect(s)
    PROVE  Inv'
  <1>1. /\ pc[s] = "new" /\ \E next \in {"dial", "offered"} : pc' = [pc EXCEPT ![s] = next]
        /\ open' = [open EXCEPT ![s] = {"in"}]
        /\ UNCHANGED <<kind, copier, errs, queue, worker, ctx, inHand>>
    BY DEF AcceptConn, AcceptPacket, CallRedirect, Goto
  <1>2. TypeOK'
    BY <1>1 DEF Inv, TypeOK, End
  <1>3. EndsFollow'
    BY <1>1, ZenonT(30) DEF Inv, TypeOK, EndsFollow, Unserved
  <1>4. QueuedUnserved'
    BY <1>1, ChannelKept DEF Inv, TypeOK
  <1>5. ErrsBacked' /\ HandsAccounted'
    BY <1>1 DEF Inv, TypeOK, ErrsBacked, HandsAccounted, EndedCopiers, Ended
  <1>6. QED BY <1>2, <1>3, <1>4, <1>5 DEF Inv

\* Redirect puts a session into the channel that is not there yet, or drops
\* it.
LEMMA RedirectInv ==
    ASSUME Inv, NEW s \in Session, Redirect(s)
    PROVE  Inv'
  <1>1. /\ pc[s] = "offered" /\ UNCHANGED <<kind, open, copier, errs, worker, ctx, inHand>>
    BY DEF Redirect
  <1>2. CASE Len(queue) < QueueSize /\ queue' = Append(queue, s) /\ pc' = [pc EXCEPT ![s] = "queued"]
    <2>1. TypeOK'
      <3>1. queue' \in Seq(Session) /\ Len(queue') = Len(queue) + 1 /\ Len(queue) \in Nat
        BY <1>2, SMTT(30) DEF Inv, TypeOK
      <3>2. Len(queue') <= QueueSize
        BY <1>2, <3>1, QueueAssumption, SMTT(30)
      <3>3. QED BY <1>1, <1>2, <3>1, <3>2 DEF Inv, TypeOK
    <2>2. EndsFollow'
      BY <1>1, <1>2, ZenonT(30) DEF Inv, TypeOK, EndsFollow, Unserved
    <2>3. QueuedUnserved'
      <3>1. \A i \in 1 .. Len(queue) : queue[i] \in Session /\ queue[i] # s
        BY <1>1, SMTT(30) DEF Inv, TypeOK, QueuedUnserved
      <3>2. Len(queue) \in Nat /\ Len(queue') = Len(queue) + 1 /\ queue'[Len(queue) + 1] = s
            /\ \A i \in 1 .. Len(queue) : queue'[i] = queue[i]
        BY <1>2, SMTT(30) DEF Inv, TypeOK
      <3>3. \A i \in 1 .. Len(queue') : i = Len(queue) + 1 \/ i \in 1 .. Len(queue)
        BY <3>2, SMTT(30)
      <3>4. \A i \in 1 .. Len(queue') : pc'[queue'[i]] = "queued"
        BY <1>2, <3>1, <3>2, <3>3, SMTT(30) DEF Inv, TypeOK, QueuedUnserved
      <3>5. \A i, j \in 1 .. Len(queue') : queue'[i] = queue'[j] => i = j
        BY <3>1, <3>2, <3>3, SMTT(30) DEF Inv, QueuedUnserved
      <3>6. QED BY <3>4, <3>5 DEF QueuedUnserved
    <2>4. ErrsBacked' /\ HandsAccounted'
      BY <1>1, <1>2 DEF Inv, TypeOK, ErrsBacked, HandsAccounted, EndedCopiers, Ended
    <2>5. QED BY <2>1, <2>2, <2>3, <2>4 DEF Inv
  <1>3. CASE queue' = queue /\ pc' = [pc EXCEPT ![s] = "dropped"]
    <2>1. TypeOK'
      BY <1>1, <1>3 DEF Inv, TypeOK
    <2>2. EndsFollow'
      BY <1>1, <1>3, ZenonT(30) DEF Inv, TypeOK, EndsFollow, Unserved
    <2>3. QueuedUnserved'
      BY <1>1, <1>3, ChannelKept DEF Inv, TypeOK
    <2>4. ErrsBacked' /\ HandsAccounted'
      BY <1>1, <1>3 DEF Inv, TypeOK, ErrsBacked, HandsAccounted, EndedCopiers, Ended
    <2>5. QED BY <2>1, <2>2, <2>3, <2>4 DEF Inv
  <1>4. QED BY <1>2, <1>3 DEF Redirect, Goto

\* The worker takes the head of the channel, which is nowhere else in it.
LEMMA WorkerInv ==
    ASSUME Inv, WorkerTakes
    PROVE  Inv'
  <1>1. /\ queue # <<>> /\ pc' = [pc EXCEPT ![Head(queue)] = "dial"] /\ queue' = Tail(queue)
        /\ UNCHANGED <<kind, open, copier, errs, worker, ctx, inHand>>
    BY DEF WorkerTakes, Goto
  <1>2. /\ Len(queue) \in Nat /\ Len(queue) >= 1 /\ Len(queue) <= QueueSize
        /\ Head(queue) = queue[1] /\ queue[1] \in Session /\ pc[queue[1]] = "queued"
        /\ \A i \in 1 .. Len(queue) : queue[i] \in Session
    BY <1>1, SMTT(30) DEF Inv, TypeOK, QueuedUnserved
  <1>3. /\ queue' \in Seq(Session) /\ Len(queue') = Len(queue) - 1
        /\ \A i \in 1 .. Len(queue') : queue'[i] = queue[i + 1] /\ i + 1 \in 1 .. Len(queue) /\ i + 1 # 1
    BY <1>1, <1>2, SMTT(30) DEF Inv, TypeOK
  <1>4. TypeOK'
    <2>1. Len(queue') <= QueueSize
      BY <1>2, <1>3, QueueAssumption, SMTT(30)
    <2>2. QED BY <1>1, <1>2, <1>3, <2>1 DEF Inv, TypeOK
  <1>5. EndsFollow'
    BY <1>1, <1>2, ZenonT(30) DEF Inv, TypeOK, EndsFollow, Unserved
  <1>6. QueuedUnserved'
    <2>1. ASSUME NEW i \in 1 .. Len(queue') PROVE queue'[i] # queue[1] /\ pc'[queue'[i]] = "queued"
      <3>1. queue'[i] = queue[i + 1] /\ i + 1 \in 1 .. Len(queue) /\ i + 1 # 1 /\ 1 \in 1 .. Len(queue)
        BY <1>2, <1>3, <2>1, SMTT(30)
      <3>2. queue[i + 1] # queue[1]
        BY <3>1 DEF Inv, QueuedUnserved
      <3>3. pc[queue[i + 1]] = "queued"
        BY <3>1 DEF Inv, QueuedUnserved
      <3>4. QED BY <1>1, <1>2, <3>1, <3>2, <3>3 DEF Inv, TypeOK
    <2>2. ASSUME NEW i \in 1 .. Len(queue'), NEW j \in 1 .. Len(queue'), queue'[i] = queue'[j] PROVE i = j
      <3>1. queue[i + 1] = queue[j + 1] /\ i + 1 \in 1 .. Len(queue) /\ j + 1 \in 1 .. Len(queue)
        BY <1>3, <2>2
      <3>2. i + 1 = j + 1
        BY <3>1 DEF Inv, QueuedUnserved
      <3>3. i \in Nat /\ j \in Nat
        BY SMTT(30)
      <3>4. QED BY <3>2, <3>3, SMTT(30)
    <2>3. QED BY <2>1, <2>2 DEF QueuedUnserved
  <1>7. ErrsBacked' /\ HandsAccounted'
    BY <1>1, <1>2 DEF Inv, TypeOK, ErrsBacked, HandsAccounted, EndedCopiers, Ended
  <1>8. QED BY <1>4, <1>5, <1>6, <1>7 DEF Inv
-----------------------------------------------------------------------------
(***************************************************************************)
(* The goroutine of a session.                                             *)
(***************************************************************************)

\* Dials.
LEMMA DialInv ==
    ASSUME Inv, NEW s \in Session, DialFails(s) \/ DialSucceeds(s)
    PROVE  Inv'
  <1>1. pc[s] = "dial" /\ UNCHANGED <<kind, errs, queue, worker, ctx, inHand>>
    BY DEF DialFails, DialSucceeds
  <1>2. CASE DialFails(s)
    <2>1. pc' = [pc EXCEPT ![s] = "done"] /\ open' = [open EXCEPT ![s] = {}] /\ copier' = copier
      BY <1>2 DEF DialFails, Goto
    <2>2. TypeOK'
      BY <1>1, <2>1 DEF Inv, TypeOK
    <2>3. EndsFollow'
      BY <1>1, <2>1 DEF Inv, TypeOK, EndsFollow, Unserved
    <2>4. QueuedUnserved'
      BY <1>1, <2>1, ChannelKept DEF Inv, TypeOK
    <2>5. ErrsBacked' /\ HandsAccounted'
      BY <1>1, <2>1 DEF Inv, TypeOK, ErrsBacked, HandsAccounted, EndedCopiers, Ended
    <2>6. QED BY <2>2, <2>3, <2>4, <2>5 DEF Inv
  <1>3. CASE DialSucceeds(s)
    <2>1. pc' = [pc EXCEPT ![s] = "select"] /\ open' = [open EXCEPT ![s] = End]
          /\ copier' = [copier EXCEPT ![s] = [d \in Dir |-> "read"]]
      BY <1>3 DEF DialSucceeds, Goto
    <2>2. TypeOK'
      <3>1. [d \in Dir |-> "read"] \in [Dir -> {"off", "read", "write", "finished", "failed"}]
        OBVIOUS
      <3>2. QED BY <1>1, <2>1, <3>1 DEF Inv, TypeOK
    <2>3. EndsFollow'
      BY <1>1, <2>1 DEF Inv, TypeOK, EndsFollow, Unserved
    <2>4. QueuedUnserved'
      BY <1>1, <2>1, ChannelKept DEF Inv, TypeOK
    <2>5. /\ copier[s]["up"] = "off" /\ copier[s]["down"] = "off" /\ errs[s] \in 0 .. 2
          /\ copier'[s]["up"] = "read" /\ copier'[s]["down"] = "read"
          /\ \A t \in Session : t # s => copier'[t] = copier[t]
          /\ \A d \in Dir : ~inHand[s][d]
      BY <1>1, <2>1 DEF Inv, TypeOK, EndsFollow, Unserved, Dir, HandsAccounted
    <2>6. errs[s] <= 0 /\ EndedCopiers(s)' = 0
      BY <2>5, SMTT(30) DEF Inv, ErrsBacked, EndedCopiers, One, Stopped
    <2>7. ErrsBacked'
      BY <1>1, <2>1, <2>5, <2>6 DEF Inv, TypeOK, ErrsBacked, EndedCopiers, Ended
    <2>8. HandsAccounted'
      BY <1>1, <2>1, <2>5 DEF Inv, TypeOK, HandsAccounted
    <2>9. QED BY <2>2, <2>3, <2>4, <2>7, <2>8 DEF Inv
  <1>4. QED BY <1>2, <1>3

\* An error in errChan means that a copier has ended.
LEMMA ErrorMeansEnded ==
    ASSUME Inv, NEW s \in Session, errs[s] > 0
    PROVE  Ended(s)
  <1>1. errs[s] \in 0 .. 2 /\ errs[s] <= EndedCopiers(s)
    BY DEF Inv, TypeOK, ErrsBacked
  <1>2. CASE copier[s]["up"] \in Stopped
    BY <1>2 DEF Ended, Dir
  <1>3. CASE copier[s]["down"] \in Stopped
    BY <1>3 DEF Ended, Dir
  <1>4. CASE copier[s]["up"] \notin Stopped /\ copier[s]["down"] \notin Stopped
    <2>1. EndedCopiers(s) = 0
      BY <1>4, SMTT(30) DEF EndedCopiers, One
    <2>2. QED BY <1>1, <2>1, SMTT(30)
  <1>5. QED BY <1>2, <1>3, <1>4

\* The select, the two closes and the wait for the second error.
LEMMA EndingInv ==
    ASSUME Inv, NEW s \in Session,
           \/ Select(s) \/ CloseInbound(s) \/ CloseOutbound(s) \/ WaitSecond(s)
           \/ ReturnClosesOutbound(s) \/ ReturnClosesInbound(s)
    PROVE  Inv'
  <1>1. /\ pc[s] \in {"select", "close", "closed", "wait"}
        /\ UNCHANGED <<kind, copier, queue, worker, ctx, inHand>>
        /\ \A t \in Session : t # s => pc'[t] = pc[t] /\ open'[t] = open[t] /\ errs'[t] = errs[t]
    BY DEF Select, CloseInbound, CloseOutbound, WaitSecond, ReturnClosesOutbound, ReturnClosesInbound, Goto, Inv, TypeOK
  <1>2. /\ pc' \in [Session -> {"new", "offered", "queued", "dropped", "dial", "select", "close", "closed", "wait", "done"}]
        /\ open' \in [Session -> SUBSET End]
        /\ \/ pc[s] = "select" /\ pc'[s] = "close" /\ open'[s] = open[s]
           \/ pc[s] = "close" /\ pc'[s] = "closed"
           \/ pc[s] = "closed" /\ kind[s] # "redirect" /\ pc'[s] = "wait"
           \/ pc[s] = "closed" /\ kind[s] = "redirect" /\ pc'[s] = "done"
           \/ pc[s] = "wait" /\ pc'[s] = "done" /\ open'[s] = open[s]
    BY ZenonT(30) DEF Select, CloseInbound, CloseOutbound, WaitSecond, ReturnClosesOutbound, ReturnClosesInbound, Goto, Inv, TypeOK
  <1>3. errs' \in [Session -> 0 .. 2] /\ errs'[s] <= errs[s]
    <2>1. errs \in [Session -> 0 .. 2] /\ errs[s] \in 0 .. 2
      BY DEF Inv, TypeOK
    <2>2. \/ errs' = errs
          \/ errs[s] > 0 /\ errs' = [errs EXCEPT ![s] = errs[s] - 1]
      BY DEF Select, CloseInbound, CloseOutbound, WaitSecond, ReturnClosesOutbound, ReturnClosesInbound
    <2>3. errs[s] > 0 => errs[s] - 1 \in 0 .. 2 /\ errs[s] - 1 <= errs[s]
      BY <2>1, SMTT(30)
    <2>4. errs[s] <= errs[s]
      BY <2>1, SMTT(30)
    <2>5. QED BY <2>1, <2>2, <2>3, <2>4
  <1>4. TypeOK'
    BY <1>1, <1>2, <1>3 DEF Inv, TypeOK
  <1>5. QueuedUnserved'
    BY <1>1, ChannelKept DEF Inv
  <1>6. HandsAccounted'
    BY <1>1 DEF Inv, HandsAccounted
  <1>7. EndsFollow'
    <2>1. /\ pc'[s] = "close" => open'[s] = End
          /\ pc'[s] = "closed" => open'[s] = IF kind[s] = "redirect" THEN {"in"} ELSE {"out"}
          /\ pc'[s] \in {"wait", "done"} => open'[s] = {}
      <3>1. /\ pc[s] \in {"select", "close"} => open[s] = End
            /\ pc[s] = "closed" => open[s] = IF kind[s] = "redirect" THEN {"in"} ELSE {"out"}
            /\ pc[s] = "wait" => open[s] = {}
        BY DEF Inv, EndsFollow
      <3>2. /\ pc[s] = "close" => open'[s] = open[s] \ IF kind[s] = "redirect" THEN {"out"} ELSE {"in"}
            /\ pc[s] = "closed" => open'[s] = open[s] \ IF kind[s] = "redirect" THEN {"in"} ELSE {"out"}
        BY DEF Select, CloseInbound, CloseOutbound, WaitSecond, ReturnClosesOutbound, ReturnClosesInbound, Inv, TypeOK
      <3>3. pc[s] = "close" => open'[s] = IF kind[s] = "redirect" THEN {"in"} ELSE {"out"}
        BY <3>1, <3>2 DEF End
      <3>4. pc[s] = "closed" => open'[s] = {}
        BY <3>1, <3>2
      <3>5. QED BY <1>2, <3>1, <3>3, <3>4
    <2>2. pc'[s] \in {"close", "closed", "wait", "done"}
      BY <1>2
    <2>3. pc'[s] \notin Unserved \cup {"new", "select"}
      BY <2>2 DEF Unserved
    <2>4. ASSUME NEW t \in Session
          PROVE  /\ pc'[t] \in {"new", "done", "wait"} => open'[t] = {}
                 /\ pc'[t] \in {"offered", "queued", "dropped", "dial"} => open'[t] = {"in"}
                 /\ pc'[t] \in {"select", "close"} => open'[t] = End
                 /\ pc'[t] = "closed" => open'[t] = IF kind[t] = "redirect" THEN {"in"} ELSE {"out"}
                 /\ pc'[t] \in Unserved => \A d \in Dir : copier[t][d] = "off"
      <3>1. CASE t = s
        BY <2>1, <2>3, <3>1 DEF Unserved
      <3>2. CASE t # s
        BY <1>1, <3>2, ZenonT(30) DEF Inv, EndsFollow
      <3>3. QED BY <3>1, <3>2
    <2>5. QED BY <1>1, <2>4, ZenonT(30) DEF EndsFollow
  <1>8. ErrsBacked'
    <2>1. pc[s] = "select" => Ended(s) \/ ctx
      BY ErrorMeansEnded DEF Select, CloseInbound, CloseOutbound, WaitSecond, ReturnClosesOutbound, ReturnClosesInbound
    <2>2. \A t \in Session : EndedCopiers(t)' = EndedCopiers(t) /\ (Ended(t)' <=> Ended(t))
      BY <1>1 DEF EndedCopiers, Ended
    <2>3. \A t \in Session : EndedCopiers(t) \in Nat /\ errs'[t] \in Nat /\ errs[t] \in Nat
      <3>1. \A t \in Session : EndedCopiers(t) \in Nat
        BY SMTT(30) DEF EndedCopiers, One
      <3>2. errs \in [Session -> 0 .. 2]
        BY DEF Inv, TypeOK
      <3>3. QED BY <1>3, <3>1, <3>2, SMTT(30)
    <2>4. \A t \in Session : errs'[t] <= EndedCopiers(t)
      BY <1>1, <1>3, <2>3, SMTT(30) DEF Inv, ErrsBacked
    <2>5. \A t \in Session : pc'[t] \in {"close", "closed", "wait"} => Ended(t) \/ ctx
      BY <1>1, <1>2, <2>1 DEF Inv, ErrsBacked
    <2>6. QED BY <1>1, <2>2, <2>4, <2>5 DEF ErrsBacked
  <1>9. QED BY <1>4, <1>5, <1>6, <1>7, <1>8 DEF Inv
-----------------------------------------------------------------------------
(***************************************************************************)
(* The copiers.                                                            *)
(***************************************************************************)

\* A chunk is read, or written.
LEMMA CopyInv ==
    ASSUME Inv, NEW s \in Session, NEW d \in Dir, CopyReads(s, d) \/ CopyWrites(s, d)
    PROVE  Inv'
  <1>1. PICK next \in {"read", "write"} :
            /\ copier[s][d] \in {"read", "write"}
            /\ copier' = [copier EXCEPT ![s][d] = next]
            /\ inHand' = [inHand EXCEPT ![s][d] = (next = "write")]
            /\ UNCHANGED <<kind, pc, open, errs, queue, worker, ctx>>
    BY ZenonT(30) DEF CopyReads, CopyWrites
  <1>2. /\ copier' \in [Session -> [Dir -> {"off", "read", "write", "finished", "failed"}]]
        /\ inHand' \in [Session -> [Dir -> BOOLEAN]]
    BY <1>1 DEF Inv, TypeOK
  <1>3. /\ copier'[s][d] = next /\ (inHand'[s][d] => next = "write")
        /\ \A t \in Session, e \in Dir :
               t # s \/ e # d => copier'[t][e] = copier[t][e] /\ inHand'[t][e] = inHand[t][e]
    BY <1>1, ZenonT(30) DEF Inv, TypeOK
  <1>4. TypeOK'
    BY <1>1, <1>2 DEF Inv, TypeOK
  <1>5. EndsFollow'
    BY <1>1, <1>3, ZenonT(30) DEF Inv, TypeOK, EndsFollow
  <1>6. QueuedUnserved'
    BY <1>1 DEF Inv, QueuedUnserved
  <1>7. HandsAccounted'
    BY <1>3, SMTT(30) DEF Inv, HandsAccounted
  <1>8. \A t \in Session, e \in Dir : copier'[t][e] \in Stopped <=> copier[t][e] \in Stopped
    BY <1>1, <1>3 DEF Stopped
  <1>9. ErrsBacked'
    <2>1. \A t \in Session : EndedCopiers(t)' = EndedCopiers(t) /\ (Ended(t)' <=> Ended(t))
      BY <1>8 DEF EndedCopiers, Ended, Dir, One
    <2>2. QED BY <1>1, <2>1 DEF Inv, ErrsBacked
  <1>10. QED BY <1>4, <1>5, <1>6, <1>7, <1>9 DEF Inv

\* A copier ends: its error is one more in errChan, and one more copier has
\* ended.
LEMMA EndInv ==
    ASSUME Inv, NEW s \in Session, NEW d \in Dir, NEW how \in Stopped,
           copier[s][d] \in {"read", "write"}, how = "finished" => copier[s][d] = "read",
           CopierEnds(s, d, how)
    PROVE  Inv'
  <1>1. /\ copier' = [copier EXCEPT ![s][d] = how]
        /\ errs' = [errs EXCEPT ![s] = @ + 1]
        /\ inHand' = [inHand EXCEPT ![s][d] = @ /\ how = "finished"]
        /\ UNCHANGED <<kind, pc, open, queue, worker, ctx>>
    BY DEF CopierEnds
  <1>2. /\ copier' \in [Session -> [Dir -> {"off", "read", "write", "finished", "failed"}]]
        /\ inHand' \in [Session -> [Dir -> BOOLEAN]]
    BY <1>1 DEF Inv, TypeOK, Stopped
  <1>3. /\ copier'[s][d] = how /\ ~inHand'[s][d]
        /\ \A t \in Session, e \in Dir :
               t # s \/ e # d => copier'[t][e] = copier[t][e] /\ inHand'[t][e] = inHand[t][e]
    BY <1>1, ZenonT(30) DEF Inv, TypeOK, HandsAccounted
  <1>4. EndedCopiers(s)' = EndedCopiers(s) + 1 /\ EndedCopiers(s) \in 0 .. 1
    <2>1. CASE d = "up"
      <3>1. /\ copier'[s]["up"] \in Stopped /\ copier[s]["up"] \notin Stopped
            /\ copier'[s]["down"] = copier[s]["down"]
        BY <1>3, <2>1 DEF Stopped, Dir
      <3>2. QED BY <3>1, SMTT(30) DEF EndedCopiers, One
    <2>2. CASE d = "down"
      <3>1. /\ copier'[s]["down"] \in Stopped /\ copier[s]["down"] \notin Stopped
            /\ copier'[s]["up"] = copier[s]["up"]
        BY <1>3, <2>2 DEF Stopped, Dir
      <3>2. QED BY <3>1, SMTT(30) DEF EndedCopiers, One
    <2>3. QED BY <2>1, <2>2 DEF Dir
  <1>5. /\ errs[s] \in Nat /\ errs'[s] = errs[s] + 1 /\ errs[s] <= EndedCopiers(s)
        /\ \A t \in Session : t # s => errs'[t] = errs[t]
    <2>1. errs \in [Session -> 0 .. 2] /\ errs[s] <= EndedCopiers(s)
      BY DEF Inv, TypeOK, ErrsBacked
    <2>2. QED BY <1>1, <2>1, SMTT(30)
  <1>6. errs'[s] \in 0 .. 2 /\ errs'[s] <= EndedCopiers(s)'
    BY <1>4, <1>5, SMTT(30)
  <1>7. TypeOK'
    <2>1. errs' \in [Session -> 0 .. 2]
      BY <1>1, <1>5, <1>6 DEF Inv, TypeOK
    <2>2. QED BY <1>1, <1>2, <2>1 DEF Inv, TypeOK
  <1>8. EndsFollow'
    BY <1>1, <1>3, ZenonT(30) DEF Inv, TypeOK, EndsFollow
  <1>9. QueuedUnserved'
    BY <1>1 DEF Inv, QueuedUnserved
  <1>10. HandsAccounted'
    BY <1>3, SMTT(30) DEF Inv, HandsAccounted
  <1>11. ErrsBacked'
    <2>1. \A t \in Session : t # s => EndedCopiers(t)' = EndedCopiers(t)
      BY <1>3 DEF EndedCopiers, Dir
    <2>2. \A t \in Session : Ended(t) => Ended(t)'
      BY <1>3 DEF Ended
    <2>3. QED BY <1>1, <1>5, <1>6, <2>1, <2>2 DEF Inv, ErrsBacked
  <1>12. QED BY <1>7, <1>8, <1>9, <1>10, <1>11 DEF Inv
-----------------------------------------------------------------------------
\* Every step of the proxy preserves Inv.
LEMMA InvNext == Inv /\ [Next]_vars => Inv'
  <1> SUFFICES ASSUME Inv, [Next]_vars PROVE Inv'
    OBVIOUS
  <1>1. ASSUME NEW s \in Session, Arrival(s) PROVE Inv'
    BY <1>1, ArrivalInv, RedirectInv DEF Arrival
  <1>2. ASSUME NEW s \in Session, Main(s) PROVE Inv'
    BY <1>2, DialInv, EndingInv DEF Main
  <1>3. ASSUME NEW s \in Session, NEW d \in Dir, Copier(s, d) PROVE Inv'
    <2>1. CASE CopyReads(s, d) \/ CopyWrites(s, d)
      BY <2>1, CopyInv
    <2>2. CASE CopyFinishes(s, d)
      BY <2>2, EndInv DEF CopyFinishes, Stopped
    <2>3. CASE DeadlinePasses(s, d) \/ CopyFindsClosed(s, d) \/ CopyFails(s, d)
      BY <2>3, EndInv DEF DeadlinePasses, CopyFindsClosed, CopyFails, Stopped
    <2>4. QED BY <1>3, <2>1, <2>2, <2>3 DEF Copier
  <1>4. CASE WorkerTakes
    BY <1>4, WorkerInv
  <1>5. CASE WorkerReturns \/ Close \/ UNCHANGED vars
    <2>1. /\ UNCHANGED <<kind, pc, open, copier, errs, inHand, queue>>
          /\ worker' \in BOOLEAN /\ ctx' \in BOOLEAN /\ (ctx => ctx')
      BY <1>5, ZenonT(30) DEF WorkerReturns, Close, vars, session, Inv, TypeOK
    <2>2. TypeOK' /\ EndsFollow' /\ QueuedUnserved' /\ HandsAccounted'
      BY <2>1, SMTT(30) DEF Inv, TypeOK, EndsFollow, QueuedUnserved, HandsAccounted
    <2>3. ErrsBacked'
      BY <2>1 DEF Inv, ErrsBacked, EndedCopiers, Ended
    <2>4. QED BY <2>2, <2>3 DEF Inv
  <1>6. QED BY <1>1, <1>2, <1>3, <1>4, <1>5 DEF Next

\* Inv holds throughout.
THEOREM Invariance == Spec => []Inv
  BY InvInit, InvNext, PTL DEF Spec

\* The variables keep their types; in particular errChan never holds more
\* than the two errors it has room for, so no copier blocks on sending its
\* own, and the redirection channel stays within its capacity.
THEOREM TypeCorrect == Spec => []TypeOK
  <1>1. Inv => TypeOK
    BY DEF Inv
  <1>2. QED BY <1>1, Invariance, PTL

\* The relay and the redirector never close an end of a session whose two
\* directions work, unless the proxy is shut down.
THEOREM ActiveFlowsKept == Spec => []NoEarlyClose
  BY Invariance, InvSuffices, PTL

\* No return path of relayConnLoop, relayPacketLoop or handle leaves a
\* connection open.
THEOREM NoEndLeaks == Spec => []NothingLeftBehind
  BY Invariance, InvSuffices, PTL

\* A copier that ends without an error has written all it read.
THEOREM FinishedDelivered == Spec => []FinishedIsDelivered
  BY Invariance, InvSuffices, PTL
-----------------------------------------------------------------------------
(***************************************************************************)
(* Datagrams, for any number of sources, sessions, datagrams and           *)
(* deadlines: the deadline of a socks packet connection never closes a     *)
(* channel twice, sessions are given their own datagrams in order, and a   *)
(* source of the socks server has one open session.                        *)
(***************************************************************************)

Times == {"zero", "future", "past"}

(***************************************************************************)
(* The deadline.  A timer that is armed, or that fired and whose callback  *)
(* has not run, leaves the current channel open; set waits for that        *)
(* callback, so each callback finds the channel it was started for.        *)
(***************************************************************************)

DlType ==
    /\ dl \in [timer : {"none", "armed", "fired"}, chan : Nat, closed : SUBSET Nat, until : Times, sets : Nat]
    /\ setter \in [pc : {"idle", "set"}, t : Times]
    /\ callbacks \in {0, 1}
    /\ reader \in [pc : {"idle", "checked", "select"}, ch : Nat]

DlInv ==
    /\ DlType
    /\ panicked = FALSE
    /\ \A n \in dl.closed : n <= dl.chan
    /\ callbacks = 1 => dl.timer = "fired" /\ ~Closed
    /\ dl.timer = "fired" => dl.until = "past" /\ (callbacks = 0 => Closed)
    /\ dl.timer = "armed" => dl.until = "future" /\ ~Closed
    /\ dl.timer = "none" => (dl.until = "past" <=> Closed)
    /\ reader.pc = "select" /\ reader.ch \notin dl.closed => reader.ch = dl.chan

\* No timer runs and the channel is open.
LEMMA DlInitially == ASSUME DlInit PROVE DlInv
  BY SMTT(30) DEF DlInit, DlInv, DlType, Times, Closed

\* set leaves a channel that is closed exactly when the time is past.
LEMMA SetKeeps == ASSUME DlInv, SetFinish PROVE DlInv'
<1> USE DEF Times, Closed
<1>1. PICK t \in Times : t = setter.t
  BY DEF DlInv, DlType
<1>2. dl' = SetBody(t) /\ UNCHANGED <<callbacks, reader, panicked>> /\ callbacks = 0
  BY <1>1 DEF SetFinish, DlInv, DlType
<1>3. setter' \in [pc : {"idle", "set"}, t : Times]
  BY DEF SetFinish, DlInv, DlType
<1>4. dl \in [timer : {"none", "armed", "fired"}, chan : Nat, closed : SUBSET Nat, until : Times, sets : Nat]
  BY DEF DlInv, DlType
<1>5. /\ dl'.timer = IF t = "future" THEN "armed" ELSE "none"
      /\ dl'.chan = IF t # "past" /\ Closed THEN dl.chan + 1 ELSE dl.chan
      /\ dl'.closed = IF t = "past" THEN dl.closed \cup {dl.chan} ELSE dl.closed
      /\ dl'.until = t
  BY <1>2 DEF SetBody
<1>6. DlType'
  <2>1. dl' \in [timer : {"none", "armed", "fired"}, chan : Nat, closed : SUBSET Nat, until : Times, sets : Nat]
    BY <1>2, <1>4, SMTT(30) DEF SetBody
  <2>2. callbacks' \in {0, 1} /\ reader' \in [pc : {"idle", "checked", "select"}, ch : Nat]
    BY <1>2 DEF DlInv, DlType
  <2> QED BY <1>3, <2>1, <2>2 DEF DlType
<1>7. \A n \in dl.closed : n <= dl.chan
  BY DEF DlInv
<1>8. (\A n \in dl.closed : n <= dl.chan)'
  BY <1>4, <1>5, <1>7, SMTT(30)
<1>9. Closed' <=> t = "past"
  BY <1>4, <1>5, <1>7, SMTT(30)
<1>10. (reader.pc = "select" /\ reader.ch \notin dl.closed => reader.ch = dl.chan)'
  BY <1>2, <1>4, <1>5 DEF DlInv
<1>11. panicked' = FALSE /\ callbacks' = 0
  BY <1>2 DEF DlInv
<1> HIDE DEF Closed
<1> QED BY <1>1, <1>5, <1>6, <1>8, <1>9, <1>10, <1>11, SMTT(30) DEF DlInv

\* Every step of set, of the timer and of the reader keeps that.
LEMMA DlStep == ASSUME DlInv, DlNext \/ UNCHANGED dlvars PROVE DlInv'
<1> USE DEF Times, Closed
<1>1. CASE \E t \in {"zero", "future", "past"} : SetEnter(t)
  <2>1. UNCHANGED <<dl, callbacks, reader, panicked>> /\ setter' \in [pc : {"idle", "set"}, t : Times]
    BY <1>1, SMTT(30) DEF SetEnter
  <2> QED BY <2>1 DEF DlInv, DlType
<1>2. CASE SetFinish
  BY <1>2, SetKeeps
<1>3. CASE TimerFires
  <2>1. dl \in [timer : {"none", "armed", "fired"}, chan : Nat, closed : SUBSET Nat, until : Times, sets : Nat]
    BY DEF DlInv, DlType
  <2>2. dl' = [dl EXCEPT !.timer = "fired", !.until = "past"] /\ callbacks = 0 /\ callbacks' = 1
    BY <1>3, SMTT(30) DEF DlInv, DlType, TimerFires
  <2>3. dl'.timer = "fired" /\ dl'.until = "past" /\ dl'.chan = dl.chan /\ dl'.closed = dl.closed
    BY <2>1, <2>2
  <2>4. DlType'
    BY <1>3, <2>1, <2>2 DEF DlInv, DlType, TimerFires
  <2> QED BY <1>3, <2>2, <2>3, <2>4 DEF DlInv, TimerFires
<1>4. CASE Callback
  <2>1. callbacks = 1 /\ ~Closed
    BY <1>4, SMTT(30) DEF Callback, DlInv, DlType
  <2>2. panicked' = FALSE
    BY <1>4, <2>1, ZenonT(30) DEF Callback, DlInv
  <2> QED BY <1>4, <2>1, <2>2, SMTT(30) DEF DlInv, DlType, Callback
<1>5. CASE ReadEnter \/ ReadSelect \/ ReadReturn
  BY <1>5, SMTT(30) DEF DlInv, DlType, ReadEnter, ReadSelect, ReadReturn
<1>6. CASE CloseConn
  BY <1>6 DEF DlInv, DlType, CloseConn
<1>7. CASE UNCHANGED dlvars
  BY <1>7 DEF DlInv, DlType, dlvars
<1> QED BY <1>1, <1>2, <1>3, <1>4, <1>5, <1>6, <1>7 DEF DlNext

\* packetDeadline.set and the timer's callback never close a channel twice, a
\* blocked reader waits on the channel that the next expiry closes, and a read
\* times out exactly while the deadline has passed, for any number of calls.
THEOREM DeadlineCorrect == DgSpec => []DeadlineSound
<1>1. DgInit => DlInv
  BY DlInitially DEF DgInit
<1>2. DlInv /\ [DgNext]_dgvars => DlInv'
  BY DlStep DEF DgNext, dgvars
<1>3. DlInv => DeadlineSound
  BY DEF DlInv, DlType, DeadlineSound, Times, Closed, Unlocked
<1> QED BY <1>1, <1>2, <1>3, PTL DEF DgSpec
-----------------------------------------------------------------------------
(***************************************************************************)
(* The sessions.  The loop keeps the session it looked up, which only the  *)
(* loop can give to another source; what is queued in it is older than the *)
(* datagram in hand.  In socks an open session is the one in the mapping.  *)
(***************************************************************************)

Sessions ==
    [src : Source \cup {NoSession}, open : BOOLEAN, daemon : {"none", "run", "ending", "ended"},
     relay : {"none", "queued", "taken", "gone"}, input : Seq(Source \X Nat), output : Seq({"blank", "answer"})]

SessType ==
    /\ mapping \in [Source -> UDPSession \cup {NoSession}]
    /\ sess \in [UDPSession -> Sessions]
    /\ packetChan \in Seq(UDPSession)
    /\ disp \in [pc : {"read", "announce", "input"}, src : Source \cup {NoSession}, n : Nat, k : UDPSession \cup {NoSession}]
    /\ sent \in [Source -> Nat]

\* Queue q holds datagrams of source s in order, none after the n-th.
QueueOf(q, s, n) ==
    /\ \A i \in DOMAIN q : q[i][1] = s /\ q[i][2] <= n
    /\ \A i, j \in DOMAIN q : i < j => q[i][2] < q[j][2]

\* Queue q holds only datagrams before the n-th.
Earlier(q, n) == \A i \in DOMAIN q : q[i][2] < n

\* The datagram in hand is the latest of its source, and not in its session yet.
InHand ==
    disp.pc # "read" =>
        /\ disp.src \in Source /\ disp.k \in UDPSession
        /\ sess[disp.k].src = disp.src /\ disp.n = sent[disp.src]
        /\ disp.pc = "input" => Earlier(sess[disp.k].input, disp.n)
        /\ disp.pc = "announce" /\ server # "dokodemo" => sess[disp.k].input = <<>>

SessInv ==
    /\ SessType
    /\ \A s \in Source : mapping[s] \in UDPSession => sess[mapping[s]].src = s
    /\ \A k \in UDPSession : QueueOf(sess[k].input, sess[k].src, sent[sess[k].src])
    /\ InHand
    /\ server = "socks" => \A k \in UDPSession : sess[k].open => sess[k].src \in Source /\ mapping[sess[k].src] = k

\* No session is in use.
LEMMA SessInitially == ASSUME SessInit PROVE SessInv
<1>1. SessType
  BY SMTT(30) DEF SessInit, SessType, Sessions, Unused, Idle
<1>2. \A k \in UDPSession : sess[k].input = <<>> /\ ~sess[k].open
  BY DEF SessInit, Unused
<1> QED BY <1>1, <1>2, UDPAssumption, SMTT(30) DEF SessInv, SessInit, InHand, QueueOf, Idle

\* What a daemon or a relay does to session k: it may close it, send and take from
\* its queues, and forget it, in socks only when it is closed.
Serves(k) ==
    /\ sess' \in [UDPSession -> Sessions]
    /\ \A j \in UDPSession : j # k => sess'[j] = sess[j]
    /\ sess'[k].src = sess[k].src
    /\ sess'[k].open => sess[k].open
    /\ \/ sess'[k].input = sess[k].input
       \/ sess[k].input # <<>> /\ sess'[k].input = Tail(sess[k].input)
    /\ \/ mapping' = mapping
       \/ Unmap(k) /\ (server = "socks" => ~sess'[k].open)
    /\ packetChan' \in Seq(UDPSession)
    /\ UNCHANGED <<server, disp, sent>>

\* What is left of a queue when its first datagram was read is such a queue,
LEMMA TailQueue ==
    ASSUME NEW q \in Seq(Source \X Nat), q # <<>>, NEW s, NEW n, QueueOf(q, s, n)
    PROVE  QueueOf(Tail(q), s, n)
<1>1. /\ DOMAIN Tail(q) = 1 .. Len(q) - 1 /\ DOMAIN q = 1 .. Len(q) /\ Len(q) \in Nat
      /\ \A i \in 1 .. Len(q) - 1 : Tail(q)[i] = q[i + 1]
  BY SMTT(30)
<1>2. ASSUME NEW i \in DOMAIN Tail(q) PROVE i \in Nat /\ i + 1 \in DOMAIN q /\ Tail(q)[i] = q[i + 1]
  BY <1>1, SMTT(30)
<1>3. \A i \in DOMAIN Tail(q) : Tail(q)[i][1] = s /\ Tail(q)[i][2] <= n
  BY <1>2 DEF QueueOf
<1>4. ASSUME NEW i \in DOMAIN Tail(q), NEW j \in DOMAIN Tail(q), i < j PROVE Tail(q)[i][2] < Tail(q)[j][2]
  <2>1. i + 1 < j + 1
    BY <1>2, <1>4, SMTT(30)
  <2>2. q[i + 1][2] < q[j + 1][2]
    BY <1>2, <2>1 DEF QueueOf
  <2> QED BY <1>2, <2>2
<1> QED BY <1>3, <1>4 DEF QueueOf

\* and still before the n-th.
LEMMA TailEarlier ==
    ASSUME NEW q \in Seq(Source \X Nat), q # <<>>, NEW n, Earlier(q, n)
    PROVE  Earlier(Tail(q), n)
<1>1. DOMAIN Tail(q) = 1 .. Len(q) - 1 /\ DOMAIN q = 1 .. Len(q) /\ Len(q) \in Nat
  BY SMTT(30)
<1>2. ASSUME NEW i \in DOMAIN Tail(q) PROVE i + 1 \in DOMAIN q /\ Tail(q)[i] = q[i + 1]
  BY <1>1, SMTT(30)
<1> QED BY <1>2 DEF Earlier

\* The datagrams of a queue come before the one that its source sends next.
LEMMA BeforeNext ==
    ASSUME NEW q \in Seq(Source \X Nat), NEW s, NEW m \in Nat, NEW n \in Nat, m < n, QueueOf(q, s, m)
    PROVE  Earlier(q, n)
<1>1. \A i \in DOMAIN q : q[i][2] \in Nat
  BY SMTT(30)
<1>2. \A i \in DOMAIN q : q[i][2] <= m
  BY DEF QueueOf
<1> QED BY <1>1, <1>2, SMTT(30) DEF Earlier

\* The datagram in hand comes behind what is queued.
LEMMA AppendQueue ==
    ASSUME NEW q \in Seq(Source \X Nat), NEW s \in Source, NEW n \in Nat, QueueOf(q, s, n), Earlier(q, n)
    PROVE  QueueOf(Append(q, <<s, n>>), s, n)
<1> DEFINE r == Append(q, <<s, n>>)
<1>1. /\ DOMAIN r = 1 .. Len(q) + 1 /\ DOMAIN q = 1 .. Len(q) /\ Len(q) \in Nat
      /\ \A i \in 1 .. Len(q) : r[i] = q[i]
      /\ r[Len(q) + 1] = <<s, n>>
  BY SMTT(30)
<1> HIDE DEF r
<1>2. \A i \in DOMAIN r : i \in DOMAIN q \/ i = Len(q) + 1
  BY <1>1, SMTT(30)
<1>3. \A i \in DOMAIN r : r[i][1] = s /\ r[i][2] <= n
  BY <1>1, <1>2, SMTT(30) DEF QueueOf
<1>4. ASSUME NEW i \in DOMAIN r, NEW j \in DOMAIN r, i < j PROVE r[i][2] < r[j][2]
  <2>1. i \in DOMAIN q
    BY <1>1, <1>4, SMTT(30)
  <2>2. CASE j \in DOMAIN q
    BY <1>1, <1>4, <2>1, <2>2 DEF QueueOf
  <2>3. CASE j = Len(q) + 1
    BY <1>1, <2>1, <2>3, SMTT(30) DEF Earlier
  <2> QED BY <1>2, <2>2, <2>3
<1> QED BY <1>3, <1>4 DEF QueueOf, r

\* More datagrams of any source, and the queue is still one of s.
LEMMA LaterQueue ==
    ASSUME NEW q \in Seq(Source \X Nat), NEW s, NEW n \in Nat, NEW m \in Nat, n <= m, QueueOf(q, s, n)
    PROVE  QueueOf(q, s, m)
<1>1. \A i \in DOMAIN q : q[i][2] \in Nat
  BY SMTT(30)
<1>2. \A i \in DOMAIN q : q[i][1] = s /\ q[i][2] <= m
  BY <1>1, SMTT(30) DEF QueueOf
<1> QED BY <1>2 DEF QueueOf

\* What a daemon or a relay may do keeps the invariant.
LEMMA ServesKeeps == ASSUME SessInv, NEW k \in UDPSession, Serves(k) PROVE SessInv'
<1>1. \A j \in UDPSession : sess'[j].src = sess[j].src
  BY DEF Serves
<1>2. SessType'
  BY UDPAssumption, SMTT(30) DEF SessInv, SessType, Serves, Unmap
<1>3. \A s \in Source : mapping'[s] \in UDPSession => mapping'[s] = mapping[s]
  BY UDPAssumption, SMTT(30) DEF SessInv, SessType, Serves, Unmap
<1>4. \A s \in Source : mapping'[s] \in UDPSession => sess'[mapping'[s]].src = s
  BY <1>1, <1>3 DEF SessInv
<1>5. ASSUME NEW j \in UDPSession PROVE QueueOf(sess'[j].input, sess[j].src, sent[sess[j].src])
  <2>1. QueueOf(sess[j].input, sess[j].src, sent[sess[j].src]) /\ sess[j].input \in Seq(Source \X Nat)
    BY DEF SessInv, SessType, Sessions
  <2>2. CASE sess'[j].input = sess[j].input
    BY <2>1, <2>2
  <2>3. CASE sess[j].input # <<>> /\ sess'[j].input = Tail(sess[j].input)
    BY <2>1, <2>3, TailQueue
  <2> QED BY <2>2, <2>3 DEF Serves
<1>6. InHand'
  <2>1. disp.k \in UDPSession /\ Earlier(sess[disp.k].input, disp.n) => Earlier(sess'[disp.k].input, disp.n)
    <3> SUFFICES ASSUME disp.k \in UDPSession, Earlier(sess[disp.k].input, disp.n)
                 PROVE  Earlier(sess'[disp.k].input, disp.n)
      OBVIOUS
    <3>1. sess[disp.k].input \in Seq(Source \X Nat)
      BY DEF SessInv, SessType, Sessions
    <3>2. CASE sess'[disp.k].input = sess[disp.k].input
      BY <3>2
    <3>3. CASE sess[disp.k].input # <<>> /\ sess'[disp.k].input = Tail(sess[disp.k].input)
      BY <3>1, <3>3, TailEarlier, SMTT(60)
    <3> QED BY <3>2, <3>3 DEF Serves
  <2>2. disp.n \in Nat /\ disp' = disp /\ server' = server /\ sent' = sent
    BY DEF Serves, SessInv, SessType
  <2>3. disp.k \in UDPSession /\ sess[disp.k].input = <<>> => sess'[disp.k].input = <<>>
    <3>1. CASE disp.k = k
      BY <3>1 DEF Serves
    <3>2. CASE disp.k # k
      BY <3>2 DEF Serves
    <3> QED BY <3>1, <3>2
  <2> QED BY <1>1, <2>1, <2>2, <2>3 DEF SessInv, InHand
<1>7. server = "socks" => \A j \in UDPSession : sess'[j].open => sess'[j].src \in Source /\ mapping'[sess'[j].src] = j
  <2> SUFFICES ASSUME server = "socks", NEW j \in UDPSession, sess'[j].open
               PROVE  sess[j].src \in Source /\ mapping'[sess[j].src] = j
    BY <1>1
  <2>1. sess[j].open
    BY DEF Serves
  <2>2. sess[j].src \in Source /\ mapping[sess[j].src] = j
    BY <2>1 DEF SessInv
  <2>3. CASE mapping' = mapping
    BY <2>2, <2>3
  <2>4. CASE Unmap(k) /\ ~sess'[k].open
    BY <2>2, <2>4 DEF Unmap
  <2> QED BY <2>3, <2>4 DEF Serves
<1>8. \A j \in UDPSession : QueueOf(sess'[j].input, sess'[j].src, sent'[sess'[j].src])
  BY <1>1, <1>5 DEF Serves
<1>9. server' = server
  BY DEF Serves
<1> QED BY <1>2, <1>4, <1>6, <1>7, <1>8, <1>9 DEF SessInv

\* Each step of a daemon, of the relay and of the proxy serves one session.
LEMMA DaemonServes ==
    ASSUME SessInv, NEW k \in UDPSession, DaemonSend(k) \/ DaemonQuiet(k) \/ DaemonEnds(k) \/ DaemonStops(k)
    PROVE  Serves(k)
<1>0. sess \in [UDPSession -> Sessions] /\ packetChan \in Seq(UDPSession) /\ sess[k] \in Sessions
  BY DEF SessInv, SessType
<1>1. PICK o \in {sess[k].open, FALSE}, d \in {"run", "ending", "ended"}, a \in {sess[k].output, Tail(sess[k].output)} :
          /\ sess' = [sess EXCEPT ![k] = [sess[k] EXCEPT !.output = a, !.open = o, !.daemon = d]]
          /\ a = sess[k].output \/ sess[k].output # <<>>
          /\ mapping' = mapping \/ (Unmap(k) /\ (server = "socks" => o = FALSE))
  <2>1. CASE DaemonSend(k)
    <3>1. CASE sess' = [sess EXCEPT ![k].output = Tail(@)]
      <4>1. sess[k].daemon = "run" /\ sess[k].output # <<>> /\ mapping' = mapping
        BY <2>1 DEF DaemonSend
      <4>2. [sess[k] EXCEPT !.output = Tail(@)] = [sess[k] EXCEPT !.output = Tail(sess[k].output), !.open = sess[k].open, !.daemon = "run"]
        BY <1>0, <4>1 DEF Sessions
      <4> QED BY <1>0, <3>1, <4>1, <4>2
    <3>2. CASE sess' # [sess EXCEPT ![k].output = Tail(@)]
      BY <1>0, <2>1, <3>2 DEF DaemonSend, Sessions
    <3> QED BY <3>1, <3>2
  <2>2. CASE DaemonQuiet(k)
    <3>1. \A o : [sess[k] EXCEPT !.daemon = "ending", !.open = o]
                   = [sess[k] EXCEPT !.output = sess[k].output, !.open = o, !.daemon = "ending"]
      BY <1>0 DEF Sessions
    <3>2. CASE server = "socks"
      <4>1. mapping' = mapping /\ sess' = [sess EXCEPT ![k] = [sess[k] EXCEPT !.daemon = "ending", !.open = FALSE]]
        BY <1>0, <2>2, <3>2 DEF DaemonQuiet
      <4> QED BY <3>1, <4>1
    <3>3. CASE server # "socks"
      <4>1. Unmap(k) /\ sess' = [sess EXCEPT ![k] = [sess[k] EXCEPT !.daemon = "ending", !.open = sess[k].open]]
        BY <1>0, <2>2, <3>3 DEF DaemonQuiet
      <4> QED BY <3>1, <3>3, <4>1
    <3> QED BY <3>2, <3>3
  <2>3. CASE DaemonEnds(k)
    BY <1>0, <2>3 DEF DaemonEnds, Sessions
  <2>4. CASE DaemonStops(k)
    <3>1. CASE server = "dokodemo"
      BY <1>0, <2>4, <3>1, SMTT(30) DEF DaemonStops, Sessions
    <3>2. CASE server # "dokodemo"
      BY <1>0, <2>4, <3>2, SMTT(60) DEF DaemonStops, Sessions
    <3> QED BY <3>1, <3>2
  <2> QED BY <2>1, <2>2, <2>3, <2>4
<1> DEFINE R == [sess[k] EXCEPT !.output = a, !.open = o, !.daemon = d]
<1>2. a \in Seq({"blank", "answer"})
  <2>1. sess[k].output \in Seq({"blank", "answer"})
    BY <1>0 DEF Sessions
  <2>2. CASE a = sess[k].output
    BY <2>1, <2>2
  <2>3. CASE sess[k].output # <<>> /\ a = Tail(sess[k].output)
    <3>1. Tail(sess[k].output) \in Seq({"blank", "answer"})
      BY <2>1, <2>3, SMTT(30)
    <3> QED BY <2>3, <3>1
  <2> QED BY <1>1, <2>2, <2>3
<1>3. o \in BOOLEAN
  BY <1>0, <1>1 DEF Sessions
<1>4. R \in Sessions /\ R.src = sess[k].src /\ R.input = sess[k].input /\ R.open = o
  BY <1>0, <1>1, <1>2, <1>3 DEF Sessions
<1>5. sess' \in [UDPSession -> Sessions] /\ sess'[k] = R /\ \A j \in UDPSession : j # k => sess'[j] = sess[j]
  BY <1>0, <1>1, <1>4
<1>6. o => sess[k].open
  BY <1>1, ZenonT(30)
<1>7. packetChan' = packetChan /\ UNCHANGED <<server, disp, sent>>
  BY ZenonT(30) DEF DaemonSend, DaemonQuiet, DaemonEnds, DaemonStops
<1> HIDE DEF R
<1> QED BY <1>0, <1>1, <1>4, <1>5, <1>6, <1>7 DEF Serves

\* The relay reads, writes or closes its session.
LEMMA RelayServes ==
    ASSUME SessInv, NEW k \in UDPSession, ReadWithMetadata(k) \/ WriteWithMetadata(k) \/ RelayCloses(k)
    PROVE  Serves(k)
<1>0. sess \in [UDPSession -> Sessions] /\ packetChan \in Seq(UDPSession) /\ sess[k] \in Sessions
  BY DEF SessInv, SessType
<1>1. sess[k].input \in Seq(Source \X Nat) /\ sess[k].output \in Seq({"blank", "answer"})
  BY <1>0 DEF Sessions
<1>2. PICK R \in Sessions :
          /\ sess' = [sess EXCEPT ![k] = R]
          /\ R.src = sess[k].src /\ (R.open => sess[k].open)
          /\ R.input = sess[k].input \/ (sess[k].input # <<>> /\ R.input = Tail(sess[k].input))
  <2>1. CASE ReadWithMetadata(k)
    <3> DEFINE R == [sess[k] EXCEPT !.input = Tail(sess[k].input)]
    <3>1. sess' = [sess EXCEPT ![k] = R] /\ sess[k].input # <<>>
      BY <1>0, <2>1 DEF ReadWithMetadata
    <3>2. Tail(sess[k].input) \in Seq(Source \X Nat)
      BY <1>1, <3>1, SMTT(30)
    <3>3. R \in Sessions /\ R.src = sess[k].src /\ R.open = sess[k].open /\ R.input = Tail(sess[k].input)
      BY <1>0, <3>2 DEF Sessions
    <3> HIDE DEF R
    <3> QED BY <3>1, <3>3
  <2>2. CASE WriteWithMetadata(k)
    <3> DEFINE A == Append(sess[k].output, IF server = "tproxy" THEN "blank" ELSE "answer")
               R == [sess[k] EXCEPT !.output = A]
    <3>1. sess' = [sess EXCEPT ![k] = R]
      BY <1>0, <2>2 DEF WriteWithMetadata
    <3>2. A \in Seq({"blank", "answer"})
      BY <1>1, SMTT(30)
    <3> HIDE DEF A
    <3>3. R \in Sessions /\ R.src = sess[k].src /\ R.open = sess[k].open /\ R.input = sess[k].input
      BY <1>0, <3>2 DEF Sessions
    <3> HIDE DEF R
    <3> QED BY <3>1, <3>3
  <2>3. CASE RelayCloses(k)
    <3> DEFINE R == [sess[k] EXCEPT !.relay = "gone", !.open = FALSE]
    <3>1. sess' = [sess EXCEPT ![k] = R]
      BY <1>0, <2>3 DEF RelayCloses
    <3>2. R \in Sessions /\ R.src = sess[k].src /\ R.open = FALSE /\ R.input = sess[k].input
      BY <1>0 DEF Sessions
    <3> HIDE DEF R
    <3> QED BY <3>1, <3>2
  <2> QED BY <2>1, <2>2, <2>3
<1>3. sess' \in [UDPSession -> Sessions] /\ sess'[k] = R /\ \A j \in UDPSession : j # k => sess'[j] = sess[j]
  BY <1>0, <1>2
<1>4. mapping' = mapping /\ packetChan' = packetChan /\ UNCHANGED <<server, disp, sent>>
  BY DEF ReadWithMetadata, WriteWithMetadata, RelayCloses
<1> QED BY <1>0, <1>2, <1>3, <1>4 DEF Serves

\* The proxy accepts a session.
LEMMA AcceptServes == ASSUME SessInv, UDPAcceptPacket PROVE \E k \in UDPSession : Serves(k)
<1> DEFINE k == Head(packetChan)
           R == [sess[k] EXCEPT !.relay = "taken"]
<1>1. sess \in [UDPSession -> Sessions] /\ packetChan \in Seq(UDPSession) /\ packetChan # <<>>
  BY DEF SessInv, SessType, UDPAcceptPacket
<1>2. k \in UDPSession /\ Tail(packetChan) \in Seq(UDPSession)
  BY <1>1, SMTT(30)
<1> HIDE DEF k
<1>3. sess' = [sess EXCEPT ![k] = R] /\ mapping' = mapping /\ packetChan' = Tail(packetChan) /\ UNCHANGED <<server, disp, sent>>
  BY <1>1, <1>2 DEF UDPAcceptPacket, k
<1>4. R \in Sessions /\ R.src = sess[k].src /\ R.open = sess[k].open /\ R.input = sess[k].input
  BY <1>1, <1>2, ZenonT(30) DEF Sessions
<1> HIDE DEF R
<1>5. sess' \in [UDPSession -> Sessions] /\ sess'[k] = R /\ \A j \in UDPSession : j # k => sess'[j] = sess[j]
  BY <1>1, <1>2, <1>3, <1>4
<1>6. Serves(k)
  BY <1>2, <1>3, <1>4, <1>5 DEF Serves
<1> QED BY <1>2, <1>6

\* The loop.  A new session takes the place of one that nothing refers to.
LEMMA ReceiveKeeps == ASSUME SessInv, NEW s \in Source, Receive(s) PROVE SessInv'
<1> DEFINE n == sent[s] + 1
<1>0. /\ mapping \in [Source -> UDPSession \cup {NoSession}] /\ sess \in [UDPSession -> Sessions] /\ packetChan \in Seq(UDPSession)
      /\ sent \in [Source -> Nat] /\ sent[s] \in Nat /\ n \in Nat /\ sent[s] < n /\ server' = server
  BY SMTT(30) DEF SessInv, SessType, Receive
<1>1. sent' = [sent EXCEPT ![s] = n] /\ packetChan' = packetChan
  BY DEF Receive
<1> HIDE DEF n
<1>2. sent' \in [Source -> Nat] /\ sent'[s] = n /\ \A x \in Source : sent'[x] \in Nat /\ sent[x] <= sent'[x]
  BY <1>0, <1>1, SMTT(30)
<1>3. ASSUME NEW j \in UDPSession PROVE QueueOf(sess[j].input, sess[j].src, sent'[sess[j].src])
  <2>1. QueueOf(sess[j].input, sess[j].src, sent[sess[j].src]) /\ sess[j].input \in Seq(Source \X Nat)
    BY <1>0 DEF SessInv, Sessions
  <2>2. CASE sess[j].src \in Source
    BY <1>0, <1>2, <2>1, <2>2, LaterQueue, ZenonT(30)
  <2>3. CASE sess[j].src \notin Source
    <3>1. \A i \in DOMAIN sess[j].input : FALSE
      BY <2>1, <2>3, SMTT(30) DEF QueueOf
    <3> QED BY <3>1 DEF QueueOf
  <2> QED BY <2>2, <2>3
<1>4. CASE mapping[s] # NoSession
  <2>1. disp' = [pc |-> "input", src |-> s, n |-> n, k |-> mapping[s]] /\ UNCHANGED <<mapping, sess>>
    BY <1>4 DEF Receive, n
  <2>2. mapping[s] \in UDPSession /\ sess[mapping[s]].src = s
    BY <1>0, <1>4 DEF SessInv
  <2>3. SessType'
    BY <1>0, <1>1, <1>2, <2>1, <2>2 DEF SessType
  <2>4. Earlier(sess[mapping[s]].input, n)
    <3>1. QueueOf(sess[mapping[s]].input, s, sent[s]) /\ sess[mapping[s]].input \in Seq(Source \X Nat)
      BY <1>0, <2>2 DEF SessInv, Sessions
    <3>2. sent[s] \in Nat /\ n \in Nat /\ sent[s] < n
      BY <1>0, ZenonT(30)
    <3> QED BY <3>1, <3>2, BeforeNext
  <2>5. InHand'
    BY <1>2, <2>1, <2>2, <2>4 DEF InHand
  <2> QED BY <1>0, <1>3, <2>1, <2>3, <2>5 DEF SessInv
<1>5. CASE mapping[s] = NoSession
  <2>1. PICK k \in UDPSession :
            /\ Free(k)
            /\ mapping' = [mapping EXCEPT ![s] = k]
            /\ sess' = [sess EXCEPT ![k] = NewSession(s, n)]
            /\ disp' = [pc |-> "announce", src |-> s, n |-> n, k |-> k]
    BY <1>5 DEF Receive, n
  <2>2. \A x \in Source : mapping[x] # k
    BY <2>1 DEF Free, Mapped
  <2> DEFINE R == NewSession(s, n)
             Q == IF server = "dokodemo" THEN <<<<s, n>>>> ELSE <<>>
  <2>3. Q \in Seq(Source \X Nat) /\ QueueOf(Q, s, n) /\ (server # "dokodemo" => Q = <<>>)
    <3>1. CASE server = "dokodemo"
      BY <1>0, <3>1, SMTT(30) DEF QueueOf
    <3>2. CASE server # "dokodemo"
      BY <3>2, SMTT(30) DEF QueueOf
    <3> QED BY <3>1, <3>2
  <2> HIDE DEF Q
  <2>4. R \in Sessions /\ R.src = s /\ R.input = Q
    <3>1. R = [src |-> s, open |-> TRUE, daemon |-> IF server = "socks" THEN "run" ELSE "none", relay |-> "none",
               input |-> Q, output |-> <<>>]
      BY DEF NewSession, Q
    <3> HIDE DEF R
    <3>2. <<>> \in Seq({"blank", "answer"})
      BY SMTT(30)
    <3> QED BY <2>3, <3>1, <3>2 DEF Sessions
  <2> HIDE DEF R
  <2>5. sess' \in [UDPSession -> Sessions] /\ sess'[k] = R /\ \A j \in UDPSession : j # k => sess'[j] = sess[j]
    BY <1>0, <2>1, <2>4 DEF R
  <2>6. SessType'
    <3>1. mapping' \in [Source -> UDPSession \cup {NoSession}]
      BY <1>0, <2>1
    <3>2. disp' \in [pc : {"read", "announce", "input"}, src : Source \cup {NoSession}, n : Nat, k : UDPSession \cup {NoSession}]
      BY <1>0, <2>1
    <3> QED BY <1>0, <1>1, <1>2, <2>5, <3>1, <3>2 DEF SessType
  <2>7. \A x \in Source : mapping'[x] \in UDPSession => sess'[mapping'[x]].src = x
    BY <1>0, <2>1, <2>2, <2>4, <2>5 DEF SessInv
  <2>8. \A j \in UDPSession : QueueOf(sess'[j].input, sess'[j].src, sent'[sess'[j].src])
    BY <1>2, <1>3, <2>3, <2>4, <2>5
  <2>9. InHand'
    BY <1>0, <1>2, <2>1, <2>3, <2>4, <2>5 DEF InHand
  <2>10. ASSUME server = "socks", NEW j \in UDPSession, sess'[j].open PROVE sess'[j].src \in Source /\ mapping'[sess'[j].src] = j
    <3>1. CASE j = k
      BY <1>0, <2>1, <2>4, <2>5, <3>1
    <3>2. CASE j # k
      <4>1. sess'[j] = sess[j] /\ sess[j].src \in Source /\ mapping[sess[j].src] = j
        BY <2>5, <2>10, <3>2 DEF SessInv
      <4>2. sess[j].src # s
        <5>1. mapping[sess[j].src] # NoSession
          BY <4>1, UDPAssumption, ZenonT(30)
        <5> QED BY <1>5, <5>1
      <4> QED BY <1>0, <2>1, <4>1, <4>2
    <3> QED BY <3>1, <3>2
  <2> QED BY <1>0, <2>6, <2>7, <2>8, <2>9, <2>10 DEF SessInv
<1> QED BY <1>4, <1>5

\* The loop announces a new session on packetChan.
LEMMA AnnounceKeeps == ASSUME SessInv, Announce PROVE SessInv'
<1> DEFINE k == disp.k
           d == IF server = "socks" THEN sess[k].daemon ELSE "run"
           R == [sess[k] EXCEPT !.relay = "queued", !.daemon = d]
<1>1. /\ sess \in [UDPSession -> Sessions] /\ k \in UDPSession /\ disp.pc = "announce" /\ packetChan \in Seq(UDPSession)
      /\ disp.src \in Source /\ disp.n \in Nat /\ disp.n = sent[disp.src] /\ sess[k].src = disp.src
      /\ server # "dokodemo" => sess[k].input = <<>>
  BY DEF SessInv, SessType, InHand, Announce
<1>2. /\ sess' = [sess EXCEPT ![k] = R] /\ packetChan' = Append(packetChan, k) /\ UNCHANGED <<server, mapping, sent>>
      /\ disp' = IF server = "dokodemo" THEN Idle ELSE [pc |-> "input", src |-> disp.src, n |-> disp.n, k |-> k]
  <2>1. sess' = [sess EXCEPT ![k] = R]
    BY <1>1 DEF Announce
  <2>2. packetChan' = Append(packetChan, k) /\ UNCHANGED <<server, mapping, sent>>
    BY DEF Announce
  <2>3. disp' = IF server = "dokodemo" THEN Idle ELSE [disp EXCEPT !.pc = "input"]
    BY DEF Announce
  <2>4. disp \in [pc : {"read", "announce", "input"}, src : Source \cup {NoSession}, n : Nat, k : UDPSession \cup {NoSession}]
    BY DEF SessInv, SessType
  <2>5. [disp EXCEPT !.pc = "input"] = [pc |-> "input", src |-> disp.src, n |-> disp.n, k |-> disp.k]
    BY <2>4, SMTT(30)
  <2> QED BY <2>1, <2>2, <2>3, <2>5
<1>3. R \in Sessions /\ R.src = sess[k].src /\ R.open = sess[k].open /\ R.input = sess[k].input
  <2>1. d \in {"none", "run", "ending", "ended"} /\ sess[k] \in Sessions
    BY <1>1 DEF Sessions
  <2> HIDE DEF d, k
  <2> QED BY <2>1, ZenonT(30) DEF Sessions
<1> HIDE DEF k, R
<1>4. /\ sess' \in [UDPSession -> Sessions] /\ sess'[k] = R
      /\ \A j \in UDPSession : sess'[j].src = sess[j].src /\ sess'[j].open = sess[j].open /\ sess'[j].input = sess[j].input
  BY <1>1, <1>2, <1>3
<1>5. SessType'
  <2>1. packetChan' \in Seq(UDPSession)
    <3>1. packetChan \in Seq(UDPSession) /\ k \in UDPSession /\ packetChan' = Append(packetChan, k)
      BY <1>1, <1>2
    <3> QED BY <3>1, SMTT(30)
  <2>2. disp' \in [pc : {"read", "announce", "input"}, src : Source \cup {NoSession}, n : Nat, k : UDPSession \cup {NoSession}]
    <3>1. Idle \in [pc : {"read", "announce", "input"}, src : Source \cup {NoSession}, n : Nat, k : UDPSession \cup {NoSession}]
      BY DEF Idle
    <3>2. [pc |-> "input", src |-> disp.src, n |-> disp.n, k |-> k]
             \in [pc : {"read", "announce", "input"}, src : Source \cup {NoSession}, n : Nat, k : UDPSession \cup {NoSession}]
      BY <1>1
    <3> QED BY <1>2, <3>1, <3>2
  <2>3. mapping' \in [Source -> UDPSession \cup {NoSession}] /\ sent' \in [Source -> Nat]
    BY <1>2 DEF SessInv, SessType
  <2> QED BY <1>4, <2>1, <2>2, <2>3 DEF SessType
<1>6. InHand'
  <2>1. CASE server = "dokodemo"
    <3>1. disp'.pc = "read"
      BY <1>2, <2>1 DEF Idle
    <3> QED BY <3>1, ZenonT(30) DEF InHand
  <2>2. CASE server # "dokodemo"
    <3>1. disp'.pc = "input" /\ disp'.src = disp.src /\ disp'.n = disp.n /\ disp'.k = k
      BY <1>2, <2>2
    <3>2. sess'[k].src = disp.src /\ sess'[k].input = <<>> /\ sent' = sent
      BY <1>1, <1>2, <1>4, <2>2
    <3>3. Earlier(sess'[k].input, disp.n)
      BY <3>2, SMTT(30) DEF Earlier
    <3> QED BY <1>1, <3>1, <3>2, <3>3 DEF InHand
  <2> QED BY <2>1, <2>2
<1>7. \A s \in Source : mapping'[s] \in UDPSession => sess'[mapping'[s]].src = s
  BY <1>2, <1>4 DEF SessInv
<1>8. \A j \in UDPSession : QueueOf(sess'[j].input, sess'[j].src, sent'[sess'[j].src])
  BY <1>2, <1>4 DEF SessInv
<1>9. server = "socks" => \A j \in UDPSession : sess'[j].open => sess'[j].src \in Source /\ mapping'[sess'[j].src] = j
  BY <1>2, <1>4 DEF SessInv
<1> QED BY <1>2, <1>5, <1>6, <1>7, <1>8, <1>9 DEF SessInv

\* The loop puts the datagram in, or drops it.
LEMMA InputKeeps == ASSUME SessInv, Input PROVE SessInv'
<1> DEFINE k == disp.k
           R == [sess[k] EXCEPT !.input = Append(@, <<disp.src, disp.n>>)]
<1>1. /\ sess \in [UDPSession -> Sessions] /\ k \in UDPSession /\ disp.src \in Source /\ disp.n \in Nat
      /\ disp.n = sent[disp.src] /\ sess[k].src = disp.src /\ Earlier(sess[k].input, disp.n)
      /\ UNCHANGED <<server, mapping, packetChan, sent>> /\ disp' = Idle
  BY DEF SessInv, SessType, InHand, Input
<1>2. /\ InHand'
      /\ disp' \in [pc : {"read", "announce", "input"}, src : Source \cup {NoSession}, n : Nat, k : UDPSession \cup {NoSession}]
  BY <1>1 DEF InHand, Idle
<1>3. CASE sess' = sess
  BY <1>1, <1>2, <1>3, ZenonT(30) DEF SessInv, SessType
<1>4. CASE sess' = [sess EXCEPT ![k].input = Append(@, <<disp.src, disp.n>>)]
  <2> DEFINE Q == Append(sess[k].input, <<disp.src, disp.n>>)
  <2>1. sess[k].input \in Seq(Source \X Nat) /\ QueueOf(sess[k].input, disp.src, disp.n)
    BY <1>1, ZenonT(30) DEF SessInv, Sessions
  <2>2. Q \in Seq(Source \X Nat) /\ QueueOf(Q, disp.src, disp.n)
    <3>1. <<disp.src, disp.n>> \in Source \X Nat
      BY <1>1
    <3>2. Q \in Seq(Source \X Nat)
      BY <2>1, <3>1, SMTT(30)
    <3>3. QueueOf(Q, disp.src, disp.n)
      BY <1>1, <2>1, AppendQueue
    <3> QED BY <3>2, <3>3
  <2> HIDE DEF Q
  <2>3. R \in Sessions /\ R.src = sess[k].src /\ R.open = sess[k].open /\ R.input = Q
    <3>1. R = [sess[k] EXCEPT !.input = Q] /\ sess[k] \in Sessions
      BY <1>1 DEF Q
    <3> HIDE DEF R, k
    <3> QED BY <2>2, <3>1, ZenonT(30) DEF Sessions
  <2>4. sess' = [sess EXCEPT ![k] = R]
    BY <1>1, <1>4
  <2> HIDE DEF k, R
  <2>5. /\ sess' \in [UDPSession -> Sessions] /\ sess'[k] = R
        /\ \A j \in UDPSession : j # k => sess'[j] = sess[j]
        /\ \A j \in UDPSession : sess'[j].src = sess[j].src /\ sess'[j].open = sess[j].open
    BY <1>1, <2>3, <2>4
  <2>6. SessType'
    BY <1>1, <1>2, <2>5, ZenonT(30) DEF SessInv, SessType
  <2>7. \A s \in Source : mapping'[s] \in UDPSession => sess'[mapping'[s]].src = s
    BY <1>1, <2>5 DEF SessInv
  <2>8. \A j \in UDPSession : QueueOf(sess'[j].input, sess'[j].src, sent'[sess'[j].src])
    BY <1>1, <2>2, <2>3, <2>5 DEF SessInv
  <2>9. server = "socks" => \A j \in UDPSession : sess'[j].open => sess'[j].src \in Source /\ mapping'[sess'[j].src] = j
    BY <1>1, <2>5 DEF SessInv
  <2> QED BY <1>1, <1>2, <2>6, <2>7, <2>8, <2>9, ZenonT(30) DEF SessInv
<1> QED BY <1>3, <1>4 DEF Input

\* Every step of the loop, the daemons, the relays and the proxy is one of these.
LEMMA SessStep == ASSUME SessInv, SessNext \/ UNCHANGED svars PROVE SessInv'
<1>1. CASE \E s \in Source : Receive(s)
  BY <1>1, ReceiveKeeps
<1>2. CASE Announce
  BY <1>2, AnnounceKeeps
<1>3. CASE Input
  BY <1>3, InputKeeps
<1>4. CASE UDPAcceptPacket
  BY <1>4, AcceptServes, ServesKeeps
<1>5. CASE SessClose \/ UNCHANGED svars
  <2>1. UNCHANGED <<server, mapping, sess, packetChan, disp, sent>>
    BY <1>5 DEF SessClose, svars
  <2> QED BY <2>1 DEF SessInv, SessType, InHand
<1>6. CASE \E k \in UDPSession : DaemonSend(k) \/ DaemonQuiet(k) \/ DaemonEnds(k) \/ DaemonStops(k)
  BY <1>6, DaemonServes, ServesKeeps
<1>7. CASE \E k \in UDPSession : ReadWithMetadata(k) \/ WriteWithMetadata(k) \/ RelayCloses(k)
  BY <1>7, RelayServes, ServesKeeps
<1> QED BY <1>1, <1>2, <1>3, <1>4, <1>5, <1>6, <1>7 DEF SessNext

\* In dokodemo, tproxy and socks a session is only ever given datagrams of its own
\* source, in order and none twice, although the loop uses a session after it
\* looked it up; and a source of the socks server never has two open sessions.
THEOREM SessionsCorrect == DgSpec => []OneOpenSession
<1>1. DgInit => SessInv
  BY SessInitially DEF DgInit
<1>2. SessInv /\ [DgNext]_dgvars => SessInv'
  BY SessStep DEF DgNext, dgvars
<1>3. SessInv => OneOpenSession
  <2> SUFFICES ASSUME SessInv PROVE OneOpenSession
    OBVIOUS
  <2>1. \A k \in UDPSession : QueueOf(sess[k].input, sess[k].src, sent[sess[k].src])
    BY DEF SessInv
  <2>2. server = "socks" => \A k \in UDPSession : sess[k].open => mapping[sess[k].src] = k
    BY DEF SessInv
  <2>3. server = "socks" =>
           \A k, j \in UDPSession : (sess[k].open /\ sess[j].open /\ sess[k].src = sess[j].src) => k = j
    BY <2>2
  <2> QED BY <2>1, <2>3 DEF QueueOf, OneOpenSession
<1> QED BY <1>1, <1>2, <1>3, PTL DEF DgSpec

=============================================================================
