-------------------------- MODULE MuxClient_proofs --------------------------
(***************************************************************************)
(* Proofs about MuxClient for any number of streams and sessions, any      *)
(* concurrency and any size of the queues of stickyConn.                   *)
(***************************************************************************)
EXTENDS MuxClient, FiniteSetTheorems, TLAPS

\* Zenon proves the leaves that name no prover.
USE Zenon

Step == {"idle", "scan", "new", "open", "closing", "last", "cancel", "done"}

TypeInv ==
    /\ sess \in [Session -> {"none", "live", "dead", "closed"}]
    /\ pool \subseteq Session
    /\ closed \in BOOLEAN
    /\ pc \in [Proc -> Step]
    /\ toClose \in [Proc -> SUBSET Session]
    /\ via \in [Stream -> Session \cup {Nil}]
    /\ up \subseteq Stream
    /\ synQ \in [Session -> Seq(Frame)]
    /\ finQ \in [Session -> Seq(Frame)]
    /\ wire \in [Session -> Seq(Frame)]

\* Between the lookup and the open a call of DialConn holds the lock of a pool
\* that is not closed, and its session stays in it.
Locked ==
    /\ \A x \in Stream : pc[x] \in {"scan", "new", "open"} => lock = x /\ ~closed
    /\ pc[cleanLoop] = "scan" => lock = cleanLoop
    /\ \A x \in Stream : pc[x] = "open" => via[x] \in pool

\* A stream that smux counts was opened on a session that was dialled.
Opened ==
    /\ IsFiniteSet(up)
    /\ \A x \in up : pc[x] \in {"closing", "done"} /\ via[x] \in Session /\ sess[via[x]] # "none"

\* Every dialled session has one place, and a list starts empty.
Placed ==
    /\ \A m \in Session : sess[m] \in {"live", "dead"} => m \in pool \/ \E p \in Proc : m \in toClose[p]
    /\ \A m \in pool : sess[m] # "none"
    /\ \A p \in Proc : pc[p] = "idle" => toClose[p] = {}
    /\ \A p \in Proc : \A m \in toClose[p] : m \notin pool /\ sess[m] # "none"
    /\ closed => pool = {}

\* The cleaner's list has no session with streams before the pool is closed.
Spared ==
    ~closed => \A m \in toClose[cleanLoop] : sess[m] = "live" => \A x \in up : via[x] # m

\* The SYN of x is in a sequence of frames.
Has(q, x) == \E i \in 1 .. Len(q) : q[i] = Syn(x)

\* What stickyConn holds back, and what it has to have taken before.
HeldBack(m) ==
    /\ sess[m] # "live" => synQ[m] = <<>> /\ finQ[m] = <<>> /\ wire[m] = <<>>
    /\ \A i \in 1 .. Len(synQ[m]) : \E x \in Stream : synQ[m][i] = Syn(x)
    /\ \A i \in 1 .. Len(finQ[m]) : \E x \in Stream :
           finQ[m][i] = Fin(x) /\ (Has(synQ[m], x) \/ Has(wire[m], x))
    /\ sess[m] = "live" => \A x \in up : via[x] = m => Has(synQ[m], x) \/ Has(wire[m], x)

Inv == TypeInv /\ Locked /\ Opened /\ Placed /\ Spared
FrameInv == FramesInOrder /\ \A m \in Session : HeldBack(m)
-----------------------------------------------------------------------------
(***************************************************************************)
(* Who holds the lock, and where the sessions are.                         *)
(***************************************************************************)

\* The processes are distinct, and none is Nil.
LEMMA ProcFacts ==
    /\ cleanLoop \in Proc /\ closer \in Proc /\ cleanLoop # closer
    /\ \A x \in Stream : x \in Proc /\ x # cleanLoop /\ x # closer /\ x # Nil
    /\ cleanLoop # Nil /\ Nil \notin Session
  BY ProcAssumption, NilAssumption DEF Proc, cleanLoop, closer

\* A step of one process, which leaves pool, lists, sessions and streams alone.
LEMMA GotoInv ==
    ASSUME Inv, NEW p \in Proc, NEW next \in Step, Goto(p, next),
           UNCHANGED <<sess, via, up, pool, closed, toClose, wireVars>>,
           next = "idle" => toClose[p] = {},
           p \in Stream => next \in {"scan", "new", "closing", "done"},
           p \in up => next \in {"closing", "done"},
           (p \in Stream /\ next \in {"scan", "new"}) => lock' = p /\ ~closed,
           (p = cleanLoop /\ next = "scan") => lock' = cleanLoop,
           \A q \in Proc : (q # p /\ lock = q) => lock' = q
    PROVE  Inv'
  <1>1. pc' = [pc EXCEPT ![p] = next]
    BY DEF Goto
  <1>2. pc' \in [Proc -> Step] /\ pc'[p] = next /\ \A q \in Proc : q # p => pc'[q] = pc[q]
    BY <1>1 DEF Inv, TypeInv
  <1>3. TypeInv'
    BY <1>2 DEF Inv, TypeInv, wireVars
  <1>4. Locked'
    BY <1>2, ProcFacts DEF Inv, Locked
  <1>5. Opened'
    BY <1>2, ProcFacts DEF Inv, Opened, TypeInv
  <1>6. Placed' /\ Spared'
    BY <1>2 DEF Inv, Placed, Spared
  <1>7. QED BY <1>3, <1>4, <1>5, <1>6 DEF Inv

\* Somebody who holds the lock moves a session from the pool to the list.
LEMMA RemoveInv ==
    ASSUME Inv, NEW p \in Proc, NEW m \in pool, Remove(p, m), pc[p] # "idle",
           UNCHANGED <<sess, pc, via, up, lock, closed, wireVars>>,
           \A x \in Stream : pc[x] # "open",
           p = cleanLoop => sess[m] # "live" \/ \A x \in up : via[x] # m
    PROVE  Inv'
  <1>1. pool' = pool \ {m} /\ toClose' = [toClose EXCEPT ![p] = toClose[p] \cup {m}] /\ m \in Session
    BY DEF Remove, Inv, TypeInv
  <1>2. /\ toClose' \in [Proc -> SUBSET Session] /\ toClose'[p] = toClose[p] \cup {m}
        /\ \A q \in Proc : q # p => toClose'[q] = toClose[q]
    BY <1>1 DEF Inv, TypeInv
  <1>3. TypeInv'
    BY <1>1, <1>2 DEF Inv, TypeInv, wireVars
  <1>4. Locked' /\ Opened'
    BY DEF Inv, Locked, Opened
  <1>5. Placed'
    BY <1>1, <1>2 DEF Inv, Placed
  <1>6. Spared'
    BY <1>2, ProcFacts DEF Inv, Spared
  <1>7. QED BY <1>3, <1>4, <1>5, <1>6 DEF Inv

\* With the lock at p, no other call of DialConn is past its lookup.
LEMMA LockExcludes ==
    ASSUME Inv, NEW p \in Proc, lock = p \/ lock = Nil
    PROVE  \A x \in Stream : x # p => pc[x] \notin {"scan", "new", "open"}
  BY ProcFacts DEF Inv, Locked

\* DialConn up to the session it will use.
LEMMA LookupInv ==
    ASSUME Inv, NEW x \in Stream,
           DialConn(x) \/ NoSessionHasRoom(x) \/ \E m \in Session : DialExamines(x, m)
    PROVE  Inv'
  <1>1. CASE DialConn(x)
    <2>1. /\ \E next \in {"scan", "done"} :
                Goto(x, next) /\ (next = "scan" => ~closed /\ lock = Nil /\ lock' = x)
                              /\ (next = "done" => lock' = lock)
          /\ UNCHANGED <<sess, via, up, pool, closed, toClose, wireVars>>
          /\ pc[x] = "idle"
      BY <1>1 DEF DialConn, Lock
    <2>2. x \notin up
      BY <2>1 DEF Inv, Opened
    <2>3. x \in Proc /\ \A q \in Proc : q # Nil
      BY ProcFacts, ProcAssumption
    <2>4. CASE Goto(x, "scan") /\ ~closed /\ lock = Nil /\ lock' = x
      BY <2>1, <2>2, <2>3, <2>4, ProcFacts, GotoInv DEF Step
    <2>5. CASE Goto(x, "done") /\ lock' = lock
      BY <2>1, <2>2, <2>3, <2>5, ProcFacts, GotoInv DEF Step
    <2>6. QED BY <2>1, <2>4, <2>5
  <1>2. CASE NoSessionHasRoom(x)
    <2>1. Goto(x, "new") /\ pc[x] = "scan" /\ UNCHANGED <<lock, sess, via, up, pool, closed, toClose, wireVars>>
      BY <1>2 DEF NoSessionHasRoom, poolVars
    <2>2. x \notin up /\ lock = x /\ ~closed
      BY <2>1 DEF Inv, Opened, Locked
    <2>3. QED BY <2>1, <2>2, ProcFacts, GotoInv DEF Step
  <1>3. ASSUME NEW m \in Session, DialExamines(x, m) PROVE Inv'
    <2>1. pc[x] = "scan" /\ lock = x /\ m \in pool /\ UNCHANGED <<sess, up, lock, closed, wireVars>>
      BY <1>3 DEF DialExamines
    <2>2. (\A y \in Stream : pc[y] # "open") /\ x \in Proc /\ ~closed
      BY <2>1, ProcFacts, LockExcludes DEF Inv, Locked
    <2>3. CASE Remove(x, m) /\ UNCHANGED <<pc, via>>
      BY <2>1, <2>2, <2>3, ProcFacts, RemoveInv
    <2>4. CASE UNCHANGED <<pc, via, pool, toClose>>
      BY <2>1, <2>4 DEF Inv, TypeInv, Locked, Opened, Placed, Spared, wireVars
    <2>5. CASE via' = [via EXCEPT ![x] = m] /\ Goto(x, "open") /\ UNCHANGED <<pool, toClose>>
      <3>1. /\ pc' \in [Proc -> Step] /\ pc'[x] = "open" /\ \A q \in Proc : q # x => pc'[q] = pc[q]
            /\ via' \in [Stream -> Session \cup {Nil}] /\ via'[x] = m /\ \A y \in Stream : y # x => via'[y] = via[y]
        BY <2>2, <2>5 DEF Goto, Inv, TypeInv, Step
      <3>2. TypeInv'
        BY <2>1, <2>5, <3>1 DEF Inv, TypeInv, wireVars
      <3>3. Locked'
        BY <2>1, <2>2, <2>5, <3>1, ProcFacts DEF Inv, Locked
      <3>4. x \notin up
        BY <2>1 DEF Inv, Opened
      <3>5. Opened' /\ Spared'
        BY <2>1, <2>5, <3>1, <3>4, ProcFacts, ZenonT(30) DEF Inv, TypeInv, Opened, Spared
      <3>6. Placed'
        BY <2>1, <2>2, <2>5, <3>1 DEF Inv, Placed
      <3>7. QED BY <3>2, <3>3, <3>5, <3>6 DEF Inv
    <2>6. QED BY <1>3, <2>3, <2>4, <2>5 DEF DialExamines
  <1>4. QED BY <1>1, <1>2, <1>3

\* The dial of a new session.
LEMMA newMuxClientInv ==
    ASSUME Inv, NEW x \in Stream, newMuxClient(x)
    PROVE  Inv'
  <1>1. pc[x] = "new" /\ lock = x /\ ~closed /\ x \in Proc /\ UNCHANGED <<up, closed, toClose, wireVars>> /\ x \notin up
    BY ProcFacts DEF newMuxClient, Inv, Locked, Opened
  <1>2. \A y \in Stream : y # x => pc[y] \notin {"scan", "new", "open"}
    BY <1>1, LockExcludes
  <1>3. ASSUME NEW m \in Session, sess[m] = "none", sess' = [sess EXCEPT ![m] = "live"], pool' = pool \cup {m},
               via' = [via EXCEPT ![x] = m], Goto(x, "open"), UNCHANGED <<lock, seen>>
        PROVE  Inv'
    <2>1. /\ pc' \in [Proc -> Step] /\ pc'[x] = "open" /\ \A q \in Proc : q # x => pc'[q] = pc[q]
          /\ via' \in [Stream -> Session \cup {Nil}] /\ via'[x] = m /\ \A y \in Stream : y # x => via'[y] = via[y]
          /\ sess' \in [Session -> {"none", "live", "dead", "closed"}] /\ sess'[m] = "live"
          /\ \A n \in Session : n # m => sess'[n] = sess[n]
      BY <1>1, <1>3 DEF Goto, Inv, TypeInv, Step
    <2>2. TypeInv'
      BY <1>1, <1>3, <2>1 DEF Inv, TypeInv, wireVars
    <2>3. Locked'
      BY <1>1, <1>2, <1>3, <2>1, ProcFacts DEF Inv, Locked
    <2>4. Opened'
      BY <1>1, <1>3, <2>1, ProcFacts DEF Inv, TypeInv, Opened
    <2>5. Placed'
      <3>1. \A n \in Session : sess'[n] \in {"live", "dead"} => n \in pool' \/ \E p \in Proc : n \in toClose'[p]
        BY <1>1, <1>3, <2>1 DEF Inv, Placed
      <3>2. \A n \in pool' : sess'[n] # "none"
        BY <1>3, <2>1 DEF Inv, TypeInv, Placed
      <3>3. \A p \in Proc : \A n \in toClose'[p] : n # m /\ n \in Session /\ n \notin pool /\ sess[n] # "none"
        BY <1>1, <1>3 DEF Inv, TypeInv, Placed
      <3>4. \A p \in Proc : pc'[p] = "idle" => toClose'[p] = {}
        BY <1>1, <2>1, ZenonT(30) DEF Inv, Placed
      <3>5. QED BY <1>1, <1>3, <2>1, <3>1, <3>2, <3>3, <3>4, ZenonT(30) DEF Placed
    <2>6. m \notin toClose[cleanLoop]
      BY <1>3, ProcFacts DEF Inv, Placed
    <2>7. Spared'
      <3>1. toClose[cleanLoop] \subseteq Session /\ up \subseteq Stream
        BY ProcFacts DEF Inv, TypeInv
      <3>2. \A n \in toClose[cleanLoop] : sess'[n] = sess[n]
        BY <2>1, <2>6, <3>1
      <3>3. \A y \in up : via'[y] = via[y]
        BY <1>1, <2>1, <3>1
      <3>4. QED BY <1>1, <3>2, <3>3 DEF Inv, Spared
    <2>8. QED BY <2>2, <2>3, <2>4, <2>5, <2>7 DEF Inv
  <1>4. ASSUME Unlock(x), Goto(x, "closing"), UNCHANGED <<sess, pool, via>> PROVE Inv'
    <2>1. \A q \in Proc : (q # x /\ lock = q) => lock' = q
      BY <1>1
    <2>2. QED BY <1>1, <1>4, <2>1, ProcFacts, GotoInv DEF Step
  <1>5. QED BY <1>3, <1>4 DEF newMuxClient

\* The stream is open on a session of the pool.
LEMMA OpenSucceedsInv ==
    ASSUME Inv, NEW x \in Stream, OpenSucceeds(x)
    PROVE  Inv'
  <1>1. /\ pc[x] = "open" /\ sess[via[x]] = "live" /\ up' = up \cup {x} /\ Goto(x, "closing")
        /\ synQ' = [synQ EXCEPT ![via[x]] = Append(synQ[via[x]], Syn(x))]
        /\ lock' = Nil /\ lock = x
        /\ UNCHANGED <<sess, via, pool, closed, toClose, finQ, wire>>
    BY DEF OpenSucceeds, Unlock
  <1>2. via[x] \in pool /\ via[x] \in Session /\ x \in Proc /\ ~closed
    BY <1>1, ProcFacts DEF Inv, Locked, TypeInv
  <1>3. pc' \in [Proc -> Step] /\ pc'[x] = "closing" /\ \A q \in Proc : q # x => pc'[q] = pc[q]
    BY <1>1, <1>2 DEF Goto, Inv, TypeInv, Step
  <1>4. Syn(x) \in Frame
    BY DEF Syn, Frame
  <1>5. synQ' \in [Session -> Seq(Frame)]
    BY <1>1, <1>2, <1>4, SMT DEF Inv, TypeInv
  <1>6. TypeInv'
    BY <1>1, <1>3, <1>5 DEF Inv, TypeInv
  <1>7. Locked'
    BY <1>1, <1>2, <1>3, LockExcludes, ProcFacts DEF Inv, Locked
  <1>8. IsFiniteSet(up')
    BY <1>1, FS_AddElement DEF Inv, Opened
  <1>9. Opened'
    BY <1>1, <1>2, <1>3, <1>8, ProcFacts DEF Inv, TypeInv, Opened
  <1>10. Placed'
    BY <1>1, <1>3 DEF Inv, Placed
  <1>11. Spared'
    BY <1>1, <1>2, ProcFacts, SMT DEF Inv, Placed, Spared
  <1>12. QED BY <1>6, <1>7, <1>9, <1>10, <1>11 DEF Inv

\* The SYN blocks, or the open fails and the session leaves the pool.
LEMMA OpenFailsInv ==
    ASSUME Inv, NEW x \in Stream, OpenBlocks(x) \/ OpenFails(x)
    PROVE  Inv'
  <1>1. CASE OpenBlocks(x)
    BY <1>1 DEF OpenBlocks, poolVars, Inv, TypeInv, Locked, Opened, Placed, Spared
  <1>2. CASE OpenFails(x)
    <2>1. /\ pc[x] = "open" /\ Remove(x, via[x]) /\ via' = [via EXCEPT ![x] = Nil] /\ Goto(x, "closing")
          /\ lock' = Nil /\ lock = x
          /\ UNCHANGED <<sess, up, closed, wireVars>>
      BY <1>2 DEF OpenFails, Unlock
    <2>2. via[x] \in pool /\ via[x] \in Session /\ x \in Proc /\ ~closed /\ x \notin up
      BY <2>1, ProcFacts DEF Inv, Locked, TypeInv, Opened
    <2>3. /\ pc' \in [Proc -> Step] /\ pc'[x] = "closing" /\ \A q \in Proc : q # x => pc'[q] = pc[q]
          /\ via' \in [Stream -> Session \cup {Nil}] /\ \A y \in Stream : y # x => via'[y] = via[y]
          /\ toClose' \in [Proc -> SUBSET Session] /\ toClose'[x] = toClose[x] \cup {via[x]}
          /\ \A q \in Proc : q # x => toClose'[q] = toClose[q]
          /\ pool' = pool \ {via[x]}
      BY <2>1, <2>2 DEF Goto, Remove, Inv, TypeInv, Step
    <2>4. TypeInv'
      BY <2>1, <2>3 DEF Inv, TypeInv, wireVars
    <2>5. Locked'
      BY <2>1, <2>2, <2>3, LockExcludes, ProcFacts DEF Inv, Locked
    <2>6. Opened' /\ Spared'
      BY <2>1, <2>2, <2>3, ProcFacts, ZenonT(30) DEF Inv, TypeInv, Opened, Spared
    <2>7. Placed'
      BY <2>1, <2>2, <2>3, SMT DEF Inv, Placed
    <2>8. QED BY <2>4, <2>5, <2>6, <2>7 DEF Inv
  <1>3. QED BY <1>1, <1>2

\* A session ends: broken, or closed by the process whose list it is on.
LEMMA EndsInv ==
    ASSUME Inv, NEW m \in Session, NEW how \in {"dead", "closed"}, Ends(m, how),
           UNCHANGED <<pc, via, up, pool, lock, closed>>,
           \/ UNCHANGED toClose /\ how = "dead" /\ sess[m] = "live"
           \/ how = "closed" /\ \E p \in Proc : m \in toClose[p] /\ toClose' = [toClose EXCEPT ![p] = toClose[p] \ {m}]
    PROVE  Inv'
  <1>1. /\ sess' = [sess EXCEPT ![m] = how]
        /\ synQ' = [synQ EXCEPT ![m] = <<>>] /\ finQ' = [finQ EXCEPT ![m] = <<>>] /\ wire' = [wire EXCEPT ![m] = <<>>]
    BY DEF Ends
  <1>2. /\ sess' \in [Session -> {"none", "live", "dead", "closed"}] /\ sess'[m] = how
        /\ \A n \in Session : n # m => sess'[n] = sess[n]
    BY <1>1 DEF Inv, TypeInv
  <1>3. synQ' \in [Session -> Seq(Frame)] /\ finQ' \in [Session -> Seq(Frame)] /\ wire' \in [Session -> Seq(Frame)]
    BY <1>1, SMT DEF Inv, TypeInv
  <1>4. /\ toClose' \in [Proc -> SUBSET Session]
        /\ \A p \in Proc : toClose'[p] \subseteq toClose[p] /\ toClose[p] \ {m} \subseteq toClose'[p]
        /\ how = "dead" => toClose' = toClose
    <2>1. CASE UNCHANGED toClose
      BY <2>1 DEF Inv, TypeInv
    <2>2. ASSUME how = "closed", NEW p \in Proc, toClose' = [toClose EXCEPT ![p] = toClose[p] \ {m}]
          PROVE  /\ toClose' \in [Proc -> SUBSET Session]
                 /\ \A q \in Proc : toClose'[q] \subseteq toClose[q] /\ toClose[q] \ {m} \subseteq toClose'[q]
      BY <2>2 DEF Inv, TypeInv
    <2>3. QED BY <2>1, <2>2
  <1>5. TypeInv'
    BY <1>2, <1>3, <1>4 DEF Inv, TypeInv
  <1>6. Locked'
    BY DEF Inv, Locked
  <1>7. Opened'
    BY <1>2 DEF Inv, Opened
  <1>8. sess[m] # "none"
    BY DEF Inv, Placed
  <1>9. Placed'
    <2>1. \A n \in Session : sess'[n] \in {"live", "dead"} => n \in pool' \/ \E p \in Proc : n \in toClose'[p]
      <3>1. ASSUME NEW n \in Session, sess'[n] \in {"live", "dead"}
            PROVE  n \in pool' \/ \E p \in Proc : n \in toClose'[p]
        <4>1. CASE n = m
          BY <1>2, <1>4, <3>1, <4>1 DEF Inv, Placed
        <4>2. CASE n # m
          BY <1>2, <1>4, <3>1, <4>2 DEF Inv, Placed
        <4>3. QED BY <4>1, <4>2
      <3>2. QED BY <3>1
    <2>2. \A n \in Session : sess[n] # "none" => sess'[n] # "none"
      BY <1>2
    <2>3. \A p \in Proc : pc'[p] = "idle" => toClose'[p] = {}
      BY <1>4 DEF Inv, Placed
    <2>4. \A p \in Proc : \A n \in toClose'[p] : n \notin pool' /\ sess'[n] # "none"
      BY <1>4, <2>2 DEF Inv, TypeInv, Placed
    <2>5. \A n \in pool' : sess'[n] # "none"
      BY <2>2 DEF Inv, TypeInv, Placed
    <2>6. QED BY <2>1, <2>3, <2>4, <2>5 DEF Inv, Placed
  <1>10. Spared'
    <2>1. \A n \in Session : sess'[n] = "live" => sess[n] = "live"
      BY <1>2
    <2>2. toClose'[cleanLoop] \subseteq toClose[cleanLoop] /\ toClose[cleanLoop] \subseteq Session
      BY <1>4, ProcFacts DEF Inv, TypeInv
    <2>3. QED BY <2>1, <2>2 DEF Inv, Spared
  <1>11. QED BY <1>5, <1>6, <1>7, <1>9, <1>10 DEF Inv

\* The lists are closed, session by session, and their owners go on.
LEMMA ClosingInv ==
    ASSUME Inv, NEW p \in Proc, closeMuxClients(p) \/ Closed(p)
    PROVE  Inv'
  <1>1. CASE closeMuxClients(p)
    <2>1. PICK m \in toClose[p] : Ends(m, "closed") /\ toClose' = [toClose EXCEPT ![p] = toClose[p] \ {m}]
      BY <1>1 DEF closeMuxClients
    <2>2. m \in Session /\ UNCHANGED <<pc, via, up, pool, lock, closed>>
      BY <1>1 DEF closeMuxClients, Inv, TypeInv
    <2>3. QED BY <2>1, <2>2, EndsInv
  <1>2. CASE Closed(p)
    <2>1. PICK next \in {"idle", "done"} : Goto(p, next) /\ (next = "idle" => p = cleanLoop)
      BY <1>2 DEF Closed
    <2>2. toClose[p] = {} /\ UNCHANGED <<sess, via, up, lock, pool, closed, toClose, wireVars>>
      BY <1>2 DEF Closed, poolVars
    <2>3. QED BY <2>1, <2>2, ProcFacts, GotoInv DEF Step, Inv, TypeInv
  <1>3. QED BY <1>1, <1>2

\* One pass of the cleaner.
LEMMA CleanInv ==
    ASSUME Inv, CleanTick \/ Clean
    PROVE  Inv'
  <1>1. CASE CleanTick
    <2>1. /\ Goto(cleanLoop, "scan") /\ lock = Nil /\ lock' = cleanLoop
          /\ UNCHANGED <<sess, via, up, pool, closed, toClose, wireVars>>
      BY <1>1 DEF CleanTick, Lock
    <2>2. cleanLoop \notin up /\ \A q \in Proc : q # Nil
      BY ProcAssumption, ProcFacts DEF Inv, TypeInv
    <2>3. QED BY <2>1, <2>2, ProcFacts, GotoInv DEF Step
  <1>2. CASE CleanUnlocks
    <2>1. /\ Goto(cleanLoop, "closing") /\ lock = cleanLoop
          /\ UNCHANGED <<sess, via, up, pool, closed, toClose, wireVars>>
      BY <1>2 DEF CleanUnlocks, Unlock
    <2>2. QED BY <2>1, ProcFacts, GotoInv DEF Step
  <1>3. ASSUME NEW m \in Session, CleanExamines(m) PROVE Inv'
    <2>1. /\ pc[cleanLoop] = "scan" /\ m \in pool /\ UNCHANGED <<sess, pc, via, up, lock, closed, wireVars>>
          /\ \/ (sess[m] # "live" \/ NumStreams(m) = 0) /\ Remove(cleanLoop, m)
             \/ UNCHANGED <<pool, toClose>>
      BY <1>3 DEF CleanExamines
    <2>2. lock = cleanLoop
      BY <2>1 DEF Inv, Locked
    <2>3. \A x \in Stream : pc[x] # "open"
      BY <2>2, ProcFacts, LockExcludes
    <2>4. ASSUME NumStreams(m) = 0 PROVE \A x \in up : via[x] # m
      <3>1. IsFiniteSet({x \in up : via[x] = m})
        BY FS_Subset DEF Inv, Opened
      <3>2. {x \in up : via[x] = m} = {}
        BY <2>4, <3>1, FS_EmptySet DEF NumStreams
      <3>3. QED BY <3>2
    <2>5. CASE (sess[m] # "live" \/ NumStreams(m) = 0) /\ Remove(cleanLoop, m)
      <3>1. sess[m] # "live" \/ \A x \in up : via[x] # m
        BY <2>4, <2>5
      <3>2. QED BY <2>1, <2>3, <2>5, <3>1, ProcFacts, RemoveInv
    <2>6. CASE UNCHANGED <<pool, toClose>>
      BY <2>1, <2>6 DEF Inv, TypeInv, Locked, Opened, Placed, Spared, wireVars
    <2>7. QED BY <2>1, <2>5, <2>6
  <1>4. QED BY <1>1, <1>2, <1>3 DEF Clean

\* The pool is drained, by Close or by the cleaner.
LEMMA DrainInv ==
    ASSUME Inv, NEW p \in {cleanLoop, closer}, NEW next \in {"last", "cancel"},
           pc[p] = "idle", lock = Nil, Goto(p, next), Drain(p),
           UNCHANGED <<sess, via, up, lock, wireVars>>
    PROVE  Inv'
  <1>1. /\ pc' = [pc EXCEPT ![p] = next] /\ closed' = TRUE /\ pool' = {}
        /\ toClose' = [toClose EXCEPT ![p] = pool] /\ p \in Proc
    BY ProcFacts DEF Goto, Drain
  <1>2. /\ pc' \in [Proc -> Step] /\ pc'[p] = next /\ \A q \in Proc : q # p => pc'[q] = pc[q]
        /\ toClose' \in [Proc -> SUBSET Session] /\ toClose'[p] = pool
        /\ \A q \in Proc : q # p => toClose'[q] = toClose[q]
    BY <1>1 DEF Inv, TypeInv, Step
  <1>3. TypeInv'
    BY <1>1, <1>2 DEF Inv, TypeInv, wireVars
  <1>4. \A x \in Stream : pc'[x] = pc[x] /\ pc[x] \notin {"scan", "new", "open"}
    BY <1>1, <1>2, LockExcludes, ProcFacts DEF Inv, Locked
  <1>5. Locked'
    BY <1>1, <1>2, <1>4, ProcFacts DEF Inv, Locked
  <1>6. Opened'
    BY <1>4 DEF Inv, TypeInv, Opened
  <1>7. toClose[p] = {}
    BY <1>1 DEF Inv, Placed
  <1>8. Placed'
    BY <1>1, <1>2, <1>7, ZenonT(30) DEF Inv, TypeInv, Placed
  <1>9. Spared'
    BY <1>1 DEF Spared
  <1>10. QED BY <1>3, <1>5, <1>6, <1>8, <1>9 DEF Inv

\* The end of the context, and Close.
LEMMA ShutdownInv ==
    ASSUME Inv, CleanShutdown \/ Close \/ Cancel \/ ParentDone
    PROVE  Inv'
  <1>1. CASE CleanShutdown
    BY <1>1, DrainInv DEF CleanShutdown
  <1>2. CASE Close
    <2>1. CASE Drain(closer)
      BY <1>2, <2>1, DrainInv DEF Close
    <2>2. CASE UNCHANGED <<closed, toClose, pool>>
      <3>1. Goto(closer, "cancel") /\ UNCHANGED <<sess, via, up, lock, wireVars>>
        BY <1>2 DEF Close
      <3>2. QED BY <2>2, <3>1, ProcFacts, GotoInv DEF Step, Inv, TypeInv
    <2>3. QED BY <1>2, <2>1, <2>2 DEF Close
  <1>3. CASE Cancel
    <2>1. Goto(closer, "closing") /\ UNCHANGED <<sess, via, up, lock, pool, closed, toClose, wireVars>>
      BY <1>3 DEF Cancel, poolVars
    <2>2. QED BY <2>1, ProcFacts, GotoInv DEF Step
  <1>4. CASE ParentDone
    BY <1>4 DEF ParentDone, poolVars, wireVars, Inv, TypeInv, Locked, Opened, Placed, Spared
  <1>5. QED BY <1>1, <1>2, <1>3, <1>4

\* The steps of the streams and of the sessions.
LEMMA StreamInv ==
    ASSUME Inv,
           \/ \E x \in Stream : StreamWrites(x) \/ StreamCloses(x)
           \/ \E m \in Session : KeepAlive(m) \/ Break(m)
    PROVE  Inv'
  <1>1. ASSUME NEW m \in Session, NEW q \in Seq(Frame), Write(m, q), UNCHANGED <<sess, ctx, pc, via, up, poolVars>>
        PROVE  Inv'
    <2>1. /\ wire' = [wire EXCEPT ![m] = wire[m] \o (synQ[m] \o q \o finQ[m])]
          /\ synQ' = [synQ EXCEPT ![m] = <<>>] /\ finQ' = [finQ EXCEPT ![m] = <<>>]
      BY <1>1 DEF Write, stickToPayload
    <2>2. wire[m] \o (synQ[m] \o q \o finQ[m]) \in Seq(Frame)
      BY <1>1, SMT DEF Inv, TypeInv
    <2>3. synQ' \in [Session -> Seq(Frame)] /\ finQ' \in [Session -> Seq(Frame)] /\ wire' \in [Session -> Seq(Frame)]
      BY <2>1, <2>2, SMT DEF Inv, TypeInv
    <2>4. TypeInv'
      BY <1>1, <2>3 DEF Inv, TypeInv, poolVars
    <2>5. QED BY <1>1, <2>4 DEF Inv, Locked, Opened, Placed, Spared, poolVars
  <1>2. ASSUME NEW x \in Stream, StreamWrites(x) PROVE Inv'
    <2>1. via[x] \in Session /\ <<Psh(x)>> \in Seq(Frame)
      BY <1>2, SMT DEF StreamWrites, Inv, Opened, Psh, Frame
    <2>2. QED BY <1>1, <1>2, <2>1 DEF StreamWrites
  <1>3. ASSUME NEW m \in Session, KeepAlive(m) PROVE Inv'
    <2>1. <<>> \in Seq(Frame)
      BY SMT
    <2>2. QED BY <1>1, <1>3, <2>1 DEF KeepAlive
  <1>4. ASSUME NEW m \in Session, Break(m) PROVE Inv'
    BY <1>4, EndsInv DEF Break, poolVars
  <1>5. ASSUME NEW x \in Stream, StreamCloses(x) PROVE Inv'
    <2>1. /\ x \in up /\ up' = up \ {x} /\ via' = [via EXCEPT ![x] = Nil] /\ via[x] \in Session
          /\ UNCHANGED <<sess, pc, poolVars, synQ, wire>>
          /\ finQ' = finQ \/ finQ' = [finQ EXCEPT ![via[x]] = Append(finQ[via[x]], Fin(x))]
      BY <1>5 DEF StreamCloses, Inv, Opened
    <2>2. Fin(x) \in Frame
      BY DEF Fin, Frame
    <2>3. finQ' \in [Session -> Seq(Frame)]
      <3>1. finQ \in [Session -> Seq(Frame)] /\ Append(finQ[via[x]], Fin(x)) \in Seq(Frame)
        BY <2>1, <2>2, SMT DEF Inv, TypeInv
      <3>2. QED BY <2>1, <3>1
    <2>4. via' \in [Stream -> Session \cup {Nil}] /\ \A y \in Stream : y # x => via'[y] = via[y]
      BY <2>1 DEF Inv, TypeInv
    <2>5. TypeInv'
      BY <2>1, <2>3, <2>4 DEF Inv, TypeInv, poolVars
    <2>6. IsFiniteSet(up')
      BY <2>1, FS_Subset DEF Inv, Opened
    <2>7. Locked'
      BY <2>1, <2>4 DEF Inv, Locked, Opened, poolVars
    <2>8. \A y \in up' : y \in up /\ via'[y] = via[y]
      BY <2>1, <2>4 DEF Inv, TypeInv
    <2>9. Opened'
      BY <2>1, <2>6, <2>8 DEF Inv, Opened
    <2>10. Spared'
      BY <2>1, <2>8 DEF Inv, Spared, poolVars
    <2>11. Placed'
      BY <2>1 DEF Inv, Placed, poolVars
    <2>12. QED BY <2>5, <2>7, <2>9, <2>10, <2>11 DEF Inv
  <1>6. QED BY <1>2, <1>3, <1>4, <1>5
-----------------------------------------------------------------------------
(***************************************************************************)
(* The order of the frames.                                                *)
(***************************************************************************)

\* In q the SYN of a stream comes before its payload and its FIN, or is in
\* what went before.
Follows(q, before) ==
    \A i \in 1 .. Len(q) : \A x \in Stream :
        q[i] \in {Psh(x), Fin(x)} => Has(before, x) \/ \E j \in 1 .. i : q[j] = Syn(x)

\* FramesInOrder for one session.
Ordered(q) ==
    \A i \in 1 .. Len(q) : \A x \in Stream : q[i] \in {Psh(x), Fin(x)} => \E j \in 1 .. i : q[j] = Syn(x)

\* A SYN in a sequence is in any sequence that contains it.
LEMMA HasConcat ==
    ASSUME NEW q \in Seq(Frame), NEW r \in Seq(Frame), NEW x
    PROVE  Has(q \o r, x) <=> Has(q, x) \/ Has(r, x)
  <1>1. /\ Len(q \o r) = Len(q) + Len(r)
        /\ \A i \in 1 .. Len(q) : (q \o r)[i] = q[i]
        /\ \A i \in 1 .. Len(r) : (q \o r)[Len(q) + i] = r[i]
    BY SMT
  <1>2. ASSUME Has(q \o r, x) PROVE Has(q, x) \/ Has(r, x)
    <2>1. PICK i \in 1 .. Len(q) + Len(r) : (q \o r)[i] = Syn(x)
      BY <1>1, <1>2 DEF Has
    <2>2. CASE i <= Len(q)
      BY <1>1, <2>1, <2>2, SMT DEF Has
    <2>3. CASE i > Len(q)
      <3>1. i - Len(q) \in 1 .. Len(r) /\ Len(q) + (i - Len(q)) = i
        BY <2>1, <2>3, SMT
      <3>2. r[i - Len(q)] = Syn(x)
        BY <1>1, <2>1, <3>1
      <3>3. QED BY <3>1, <3>2 DEF Has
    <2>4. QED BY <2>1, <2>2, <2>3, SMT
  <1>3. ASSUME Has(q, x) PROVE Has(q \o r, x)
    BY <1>1, <1>3, SMT DEF Has
  <1>4. ASSUME Has(r, x) PROVE Has(q \o r, x)
    <2>1. PICK i \in 1 .. Len(r) : r[i] = Syn(x)
      BY <1>4 DEF Has
    <2>2. Len(q) + i \in 1 .. Len(q) + Len(r) /\ (q \o r)[Len(q) + i] = Syn(x)
      BY <1>1, <2>1, SMT
    <2>3. QED BY <1>1, <2>2 DEF Has
  <1>5. QED BY <1>2, <1>3, <1>4

\* What may follow q, put behind q, keeps the order.
LEMMA OrderedConcat ==
    ASSUME NEW q \in Seq(Frame), NEW r \in Seq(Frame), Ordered(q), Follows(r, q)
    PROVE  Ordered(q \o r)
  <1>1. /\ Len(q \o r) = Len(q) + Len(r)
        /\ \A i \in 1 .. Len(q) : (q \o r)[i] = q[i]
        /\ \A i \in 1 .. Len(r) : (q \o r)[Len(q) + i] = r[i]
    BY SMT
  <1>2. SUFFICES ASSUME NEW i \in 1 .. Len(q) + Len(r), NEW x \in Stream, (q \o r)[i] \in {Psh(x), Fin(x)}
                 PROVE  \E j \in 1 .. i : (q \o r)[j] = Syn(x)
    BY <1>1 DEF Ordered
  <1>3. CASE i <= Len(q)
    <2>1. i \in 1 .. Len(q) /\ q[i] \in {Psh(x), Fin(x)}
      BY <1>1, <1>2, <1>3, SMT
    <2>2. PICK j \in 1 .. i : q[j] = Syn(x)
      BY <2>1 DEF Ordered
    <2>3. QED BY <1>1, <2>1, <2>2, SMT
  <1>4. CASE i > Len(q)
    <2>1. i - Len(q) \in 1 .. Len(r) /\ Len(q) + (i - Len(q)) = i
      BY <1>2, <1>4, SMT
    <2>2. r[i - Len(q)] \in {Psh(x), Fin(x)}
      BY <1>1, <1>2, <2>1
    <2>3. CASE Has(q, x)
      BY <1>1, <1>4, <2>3, SMT DEF Has
    <2>4. ASSUME NEW j \in 1 .. i - Len(q), r[j] = Syn(x) PROVE \E k \in 1 .. i : (q \o r)[k] = Syn(x)
      <3>1. j \in 1 .. Len(r) /\ Len(q) + j \in 1 .. i
        BY <2>1, <2>4, SMT
      <3>2. (q \o r)[Len(q) + j] = Syn(x)
        BY <1>1, <2>4, <3>1
      <3>3. QED BY <3>1, <3>2
    <2>5. QED BY <2>1, <2>2, <2>3, <2>4 DEF Follows
  <1>5. QED BY <1>2, <1>3, <1>4, SMT

\* stickToPayload puts the SYN headers first and the FIN headers last, so what
\* it makes may follow the wire.
LEMMA StickInOrder ==
    ASSUME NEW w \in Seq(Frame), NEW s \in Seq(Frame), NEW p \in Seq(Frame), NEW f \in Seq(Frame), Ordered(w),
           \A i \in 1 .. Len(s) : \E x \in Stream : s[i] = Syn(x),
           \A i \in 1 .. Len(p) : \E x \in Stream : p[i] = Psh(x) /\ (Has(s, x) \/ Has(w, x)),
           \A i \in 1 .. Len(f) : \E x \in Stream : f[i] = Fin(x) /\ (Has(s, x) \/ Has(w, x))
    PROVE  Ordered(w \o (s \o p \o f))
  <1>1. s \o p \in Seq(Frame) /\ w \o s \in Seq(Frame) /\ (w \o s) \o p \in Seq(Frame)
    BY SMT
  <1>2. Ordered(w \o s)
    <2>1. Follows(s, w)
      BY SMTT(30) DEF Follows, Syn, Psh, Fin
    <2>2. QED BY <2>1, OrderedConcat
  <1>3. Ordered((w \o s) \o p)
    <2>1. Follows(p, w \o s)
      BY HasConcat, SMT DEF Follows, Psh, Fin
    <2>2. QED BY <1>1, <1>2, <2>1, OrderedConcat
  <1>4. Ordered(((w \o s) \o p) \o f)
    <2>1. \A x \in Stream : Has(s, x) \/ Has(w, x) => Has((w \o s) \o p, x)
      BY <1>1, HasConcat
    <2>2. \A x, y \in Stream : Fin(y) \in {Psh(x), Fin(x)} => x = y
      BY DEF Psh, Fin
    <2>3. Follows(f, (w \o s) \o p)
      BY <2>1, <2>2 DEF Follows
    <2>4. QED BY <1>1, <1>3, <2>3, OrderedConcat
  <1>5. w \o (s \o p \o f) = ((w \o s) \o p) \o f
    BY SMTT(30)
  <1>6. QED BY <1>4, <1>5

\* A step that leaves the wires and the queues alone, ends no session and
\* opens no stream.
LEMMA QuietOrder ==
    ASSUME Inv, FrameInv, UNCHANGED <<synQ, finQ, wire>>,
           \A m \in Session : sess'[m] = sess[m] \/ sess[m] = "none",
           \A x \in up' : x \in up /\ via'[x] = via[x]
    PROVE  FrameInv'
  <1>1. FramesInOrder'
    BY DEF FrameInv, FramesInOrder
  <1>2. ASSUME NEW m \in Session PROVE HeldBack(m)'
    <2>1. \A x \in up : via[x] # m \/ sess[m] # "none"
      BY DEF Inv, Opened
    <2>2. QED BY <2>1, SMT DEF FrameInv, HeldBack
  <1>3. QED BY <1>1, <1>2 DEF FrameInv

\* The lookups, the lists and the cleaner do not touch frames.
LEMMA PoolOrder ==
    ASSUME Inv, FrameInv,
           \/ \E x \in Stream :
                 \/ DialConn(x) \/ NoSessionHasRoom(x) \/ newMuxClient(x) \/ OpenBlocks(x) \/ OpenFails(x)
                 \/ \E m \in Session : DialExamines(x, m)
           \/ \E p \in Proc : Closed(p)
           \/ CleanTick \/ Clean \/ CleanShutdown \/ Close \/ Cancel \/ ParentDone
    PROVE  FrameInv'
  <1>1. ASSUME NEW x \in Stream,
               \/ DialConn(x) \/ NoSessionHasRoom(x) \/ newMuxClient(x) \/ OpenBlocks(x) \/ OpenFails(x)
               \/ \E m \in Session : DialExamines(x, m)
        PROVE  FrameInv'
    <2>1. pc[x] \in {"idle", "scan", "new", "open"} /\ UNCHANGED <<synQ, finQ, wire, up>>
          /\ \/ via' = via
             \/ \E v \in Session \cup {Nil} : via' = [via EXCEPT ![x] = v]
      BY <1>1 DEF DialConn, NoSessionHasRoom, newMuxClient, OpenBlocks, OpenFails, DialExamines, wireVars
    <2>2. x \notin up /\ \A y \in up : y \in Stream
      BY <2>1 DEF Inv, Opened, TypeInv
    <2>3. \A y \in up' : y \in up /\ via'[y] = via[y]
      BY <2>1, <2>2 DEF Inv, TypeInv
    <2>4. \A m \in Session : sess'[m] = sess[m] \/ sess[m] = "none"
      BY <1>1 DEF DialConn, NoSessionHasRoom, newMuxClient, OpenBlocks, OpenFails, DialExamines, Inv, TypeInv
    <2>5. QED BY <2>1, <2>3, <2>4, QuietOrder
  <1>2. ASSUME \/ \E p \in Proc : Closed(p)
               \/ CleanTick \/ Clean \/ CleanShutdown \/ Close \/ Cancel \/ ParentDone
        PROVE  FrameInv'
    <2>1. UNCHANGED <<sess, via, up, synQ, finQ, wire>>
      BY <1>2 DEF Closed, CleanTick, Clean, CleanUnlocks, CleanExamines, CleanShutdown, Close, Cancel, ParentDone, wireVars
    <2>2. QED BY <2>1, QuietOrder
  <1>3. QED BY <1>1, <1>2

\* The SYN of a new stream waits behind the others.
LEMMA OpenOrder ==
    ASSUME Inv, FrameInv, NEW x \in Stream, OpenSucceeds(x)
    PROVE  FrameInv'
  <1>1. /\ pc[x] = "open" /\ sess[via[x]] = "live" /\ up' = up \cup {x}
        /\ synQ' = [synQ EXCEPT ![via[x]] = Append(synQ[via[x]], Syn(x))]
        /\ UNCHANGED <<sess, via, finQ, wire>>
    BY DEF OpenSucceeds
  <1>2. PICK n \in Session : n = via[x]
    BY <1>1 DEF Inv, Locked, TypeInv
  <1>3. FramesInOrder'
    BY <1>1 DEF FrameInv, FramesInOrder
  <1>4. ASSUME NEW m \in Session PROVE HeldBack(m)'
    <2>1. CASE m # n
      <3>1. synQ'[m] = synQ[m] /\ via[x] # m
        BY <1>1, <1>2, <2>1 DEF Inv, TypeInv
      <3>2. QED BY <1>1, <3>1, SMT DEF FrameInv, HeldBack
    <2>2. CASE m = n
      <3>1. synQ[m] \in Seq(Frame) /\ Syn(x) \in Frame /\ synQ'[m] = Append(synQ[m], Syn(x)) /\ sess'[m] = "live"
        BY <1>1, <1>2, <2>2 DEF Inv, TypeInv, Syn, Frame
      <3>2. /\ Len(synQ'[m]) = Len(synQ[m]) + 1 /\ synQ'[m][Len(synQ[m]) + 1] = Syn(x)
            /\ \A i \in 1 .. Len(synQ[m]) : synQ'[m][i] = synQ[m][i]
            /\ Len(synQ[m]) \in Nat
        BY <3>1, SMT
      <3>3. Has(synQ'[m], x) /\ \A y \in Stream : Has(synQ[m], y) => Has(synQ'[m], y)
        BY <3>2, SMT DEF Has
      <3>4. \A i \in 1 .. Len(synQ'[m]) : \E y \in Stream : synQ'[m][i] = Syn(y)
        BY <3>2, SMT DEF FrameInv, HeldBack
      <3>5. \A i \in 1 .. Len(finQ'[m]) : \E y \in Stream :
                finQ'[m][i] = Fin(y) /\ (Has(synQ'[m], y) \/ Has(wire'[m], y))
        BY <1>1, <3>3 DEF FrameInv, HeldBack
      <3>6. \A y \in up' : via'[y] = m => Has(synQ'[m], y) \/ Has(wire'[m], y)
        BY <1>1, <3>1, <3>3 DEF FrameInv, HeldBack, Inv, TypeInv
      <3>7. QED BY <3>1, <3>4, <3>5, <3>6 DEF HeldBack
    <2>3. QED BY <2>1, <2>2
  <1>5. QED BY <1>3, <1>4 DEF FrameInv

\* A session that ends takes its frames with it.
LEMMA EndsOrder ==
    ASSUME Inv, FrameInv, NEW n \in Session, NEW how \in {"dead", "closed"}, Ends(n, how), UNCHANGED <<via, up>>
    PROVE  FrameInv'
  <1>1. /\ sess'[n] = how /\ synQ'[n] = <<>> /\ finQ'[n] = <<>> /\ wire'[n] = <<>>
        /\ \A m \in Session : m # n => /\ sess'[m] = sess[m] /\ synQ'[m] = synQ[m]
                                       /\ finQ'[m] = finQ[m] /\ wire'[m] = wire[m]
    BY DEF Ends, Inv, TypeInv
  <1>2. FramesInOrder'
    <2>1. ASSUME NEW m \in Session PROVE Ordered(wire'[m])
      <3>1. CASE m = n
        BY <1>1, <3>1, SMT DEF Ordered
      <3>2. CASE m # n
        BY <1>1, <3>2, SMT DEF Ordered, FrameInv, FramesInOrder
      <3>3. QED BY <3>1, <3>2
    <2>2. QED BY <2>1 DEF Ordered, FramesInOrder
  <1>3. ASSUME NEW m \in Session PROVE HeldBack(m)'
    <2>1. CASE m = n
      BY <1>1, <2>1, SMTT(30) DEF HeldBack
    <2>2. CASE m # n
      BY <1>1, <2>2, SMT DEF FrameInv, HeldBack
    <2>3. QED BY <2>1, <2>2
  <1>4. QED BY <1>2, <1>3 DEF FrameInv

\* Write carries what was held back.
LEMMA WriteOrder ==
    ASSUME Inv, FrameInv, NEW n \in Session, NEW q \in Seq(Frame), Write(n, q), UNCHANGED <<sess, via, up>>,
           \A i \in 1 .. Len(q) : \E x \in up : q[i] = Psh(x) /\ via[x] = n
    PROVE  FrameInv'
  <1>1. /\ sess[n] = "live"
        /\ wire' = [wire EXCEPT ![n] = wire[n] \o (synQ[n] \o q \o finQ[n])]
        /\ synQ' = [synQ EXCEPT ![n] = <<>>] /\ finQ' = [finQ EXCEPT ![n] = <<>>]
    BY DEF Write, stickToPayload
  <1>2. /\ wire'[n] = wire[n] \o (synQ[n] \o q \o finQ[n]) /\ synQ'[n] = <<>> /\ finQ'[n] = <<>>
        /\ \A m \in Session : m # n => synQ'[m] = synQ[m] /\ finQ'[m] = finQ[m] /\ wire'[m] = wire[m]
        /\ wire[n] \in Seq(Frame) /\ synQ[n] \in Seq(Frame) /\ finQ[n] \in Seq(Frame)
    BY <1>1 DEF Inv, TypeInv
  <1>3. HeldBack(n) /\ Ordered(wire[n])
    BY DEF FrameInv, FramesInOrder, Ordered
  <1>4. Ordered(wire'[n])
    <2>1. \A i \in 1 .. Len(q) : \E x \in Stream : q[i] = Psh(x) /\ (Has(synQ[n], x) \/ Has(wire[n], x))
      BY <1>1, <1>3 DEF HeldBack, Inv, TypeInv
    <2>2. /\ \A i \in 1 .. Len(synQ[n]) : \E x \in Stream : synQ[n][i] = Syn(x)
          /\ \A i \in 1 .. Len(finQ[n]) : \E x \in Stream :
                 finQ[n][i] = Fin(x) /\ (Has(synQ[n], x) \/ Has(wire[n], x))
      BY <1>3 DEF HeldBack
    <2>3. Ordered(wire[n] \o (synQ[n] \o q \o finQ[n]))
      BY <1>2, <1>3, <2>1, <2>2, StickInOrder
    <2>4. QED BY <1>2, <2>3
  <1>5. FramesInOrder'
    <2>1. ASSUME NEW m \in Session, m # n PROVE Ordered(wire'[m])
      <3>1. Ordered(wire[m])
        BY DEF FrameInv, FramesInOrder, Ordered
      <3>2. wire'[m] = wire[m]
        BY <1>2, <2>1
      <3>3. QED BY <3>1, <3>2
    <2>2. \A m \in Session : Ordered(wire'[m])
      BY <1>4, <2>1
    <2>3. QED BY <2>2 DEF Ordered, FramesInOrder
  <1>6. ASSUME NEW m \in Session PROVE HeldBack(m)'
    <2>1. CASE m = n
      <3>1. synQ[n] \o q \in Seq(Frame) /\ (synQ[n] \o q) \o finQ[n] \in Seq(Frame)
        BY <1>2, SMT
      <3>2. \A x \in up : Has(synQ[n], x) \/ Has(wire[n], x) => Has(wire'[n], x)
        <4>1. ASSUME NEW x PROVE Has(synQ[n], x) \/ Has(wire[n], x) => Has(wire'[n], x)
          <5>1. Has(synQ[n], x) => Has(synQ[n] \o q, x)
            BY <1>2, HasConcat
          <5>2. Has(synQ[n] \o q, x) => Has((synQ[n] \o q) \o finQ[n], x)
            BY <1>2, <3>1, HasConcat
          <5>3. Has(wire[n] \o ((synQ[n] \o q) \o finQ[n]), x) <=> Has(wire[n], x) \/ Has((synQ[n] \o q) \o finQ[n], x)
            BY <1>2, <3>1, HasConcat, ZenonT(30)
          <5>4. QED BY <1>2, <5>1, <5>2, <5>3
        <4>2. QED BY <4>1
      <3>3. \A x \in up : via[x] = n => Has(wire'[n], x)
        BY <1>1, <1>3, <3>2 DEF HeldBack
      <3>4. QED BY <1>1, <1>2, <2>1, <3>3, SMTT(30) DEF HeldBack
    <2>2. CASE m # n
      <3>1. HeldBack(m) /\ synQ'[m] = synQ[m] /\ finQ'[m] = finQ[m] /\ wire'[m] = wire[m]
        BY <1>2, <2>2 DEF FrameInv
      <3>2. QED BY <3>1 DEF HeldBack
    <2>3. QED BY <2>1, <2>2
  <1>7. QED BY <1>5, <1>6 DEF FrameInv

\* The FIN of a stream is held back after its SYN was taken.
LEMMA CloseOrder ==
    ASSUME Inv, FrameInv, NEW x \in Stream, StreamCloses(x)
    PROVE  FrameInv'
  <1>1. /\ x \in up /\ up' = up \ {x} /\ via' = [via EXCEPT ![x] = Nil]
        /\ UNCHANGED <<sess, synQ, wire>>
        /\ \/ finQ' = finQ
           \/ sess[via[x]] = "live" /\ finQ' = [finQ EXCEPT ![via[x]] = Append(finQ[via[x]], Fin(x))]
    BY DEF StreamCloses
  <1>2. PICK n \in Session : n = via[x]
    BY <1>1 DEF Inv, Opened
  <1>3. \A y \in up' : y \in up /\ via'[y] = via[y]
    BY <1>1 DEF Inv, TypeInv
  <1>4. CASE finQ' = finQ
    BY <1>1, <1>3, <1>4, QuietOrder
  <1>5. CASE sess[via[x]] = "live" /\ finQ' = [finQ EXCEPT ![via[x]] = Append(finQ[via[x]], Fin(x))]
    <2>1. FramesInOrder'
      BY <1>1, SMTT(30) DEF FrameInv, FramesInOrder
    <2>2. ASSUME NEW m \in Session PROVE HeldBack(m)'
      <3>1. CASE m # n
        <4>1. finQ'[m] = finQ[m]
          BY <1>2, <1>5, <3>1 DEF Inv, TypeInv
        <4>2. QED BY <1>1, <1>3, <4>1, SMT DEF FrameInv, HeldBack
      <3>2. CASE m = n
        <4>1. finQ[m] \in Seq(Frame) /\ Fin(x) \in Frame /\ finQ'[m] = Append(finQ[m], Fin(x)) /\ sess[m] = "live"
          BY <1>2, <1>5, <3>2 DEF Inv, TypeInv, Fin, Frame
        <4>2. /\ Len(finQ'[m]) = Len(finQ[m]) + 1 /\ finQ'[m][Len(finQ[m]) + 1] = Fin(x)
              /\ \A i \in 1 .. Len(finQ[m]) : finQ'[m][i] = finQ[m][i]
              /\ Len(finQ[m]) \in Nat
          BY <4>1, SMT
        <4>3. Has(synQ[m], x) \/ Has(wire[m], x)
          BY <1>1, <1>2, <3>2, <4>1 DEF FrameInv, HeldBack
        <4>4. \A i \in 1 .. Len(finQ'[m]) : \E y \in Stream :
                  finQ'[m][i] = Fin(y) /\ (Has(synQ[m], y) \/ Has(wire[m], y))
          BY <4>2, <4>3, SMTT(30) DEF FrameInv, HeldBack
        <4>5. QED BY <1>1, <1>3, <4>1, <4>4, SMT DEF FrameInv, HeldBack
      <3>3. QED BY <3>1, <3>2
    <2>3. QED BY <2>1, <2>2 DEF FrameInv
  <1>6. QED BY <1>1, <1>4, <1>5
-----------------------------------------------------------------------------
(***************************************************************************)
(* The theorems.                                                           *)
(***************************************************************************)

\* Inv holds when the client starts and every step of it keeps it.
LEMMA InvInductive ==
    Spec => []Inv
  <1>1. Init => Inv
    <2>1. SUFFICES ASSUME Init PROVE Inv
      OBVIOUS
    <2>2. TypeInv
      <3>1. <<>> \in Seq(Frame)
        BY SMT
      <3>2. /\ synQ \in [Session -> Seq(Frame)] /\ finQ \in [Session -> Seq(Frame)]
            /\ wire \in [Session -> Seq(Frame)]
        BY <2>1, <3>1 DEF Init
      <3>3. QED BY <2>1, <3>2 DEF Init, TypeInv, Step
    <2>3. Locked /\ Placed /\ Spared
      BY <2>1, ProcFacts DEF Init, Locked, Placed, Spared
    <2>4. Opened
      BY <2>1, FS_EmptySet DEF Init, Opened
    <2>5. QED BY <2>2, <2>3, <2>4 DEF Inv
  <1>2. Inv /\ [Next]_vars => Inv'
    <2>1. SUFFICES ASSUME Inv, [Next]_vars PROVE Inv'
      OBVIOUS
    <2>2. ASSUME NEW x \in Stream, Dial(x) PROVE Inv'
      BY <2>1, <2>2, LookupInv, newMuxClientInv, OpenSucceedsInv, OpenFailsInv DEF Dial
    <2>3. ASSUME NEW p \in Proc, closeMuxClients(p) \/ Closed(p) PROVE Inv'
      BY <2>1, <2>3, ClosingInv
    <2>4. CASE CleanTick \/ Clean
      BY <2>1, <2>4, CleanInv
    <2>5. CASE CleanShutdown \/ Close \/ Cancel \/ ParentDone
      BY <2>1, <2>5, ShutdownInv
    <2>6. CASE \/ \E x \in Stream : StreamWrites(x) \/ StreamCloses(x)
               \/ \E m \in Session : KeepAlive(m) \/ Break(m)
      BY <2>1, <2>6, StreamInv
    <2>7. CASE UNCHANGED vars
      BY <2>1, <2>7 DEF Inv, TypeInv, Locked, Opened, Placed, Spared, vars, poolVars, wireVars
    <2>8. QED BY <2>1, <2>2, <2>3, <2>4, <2>5, <2>6, <2>7 DEF Next
  <1>3. QED BY <1>1, <1>2, PTL DEF Spec

\* Every session that was dialled is in the pool or with somebody who closes
\* it, a closed client keeps none, and the cleaner takes no session that has
\* streams, however the calls of DialConn, the cleaner and Close interleave.
THEOREM PoolCorrect == Spec => []PoolSound
  <1>1. Inv => PoolSound
    <2>1. SUFFICES ASSUME Inv, NEW m \in toClose[cleanLoop], sess[m] = "live", ~closed PROVE NumStreams(m) = 0
      BY DEF Inv, Placed, PoolSound
    <2>2. {x \in up : via[x] = m} = {}
      BY <2>1 DEF Inv, Spared
    <2>3. QED BY <2>2, FS_EmptySet DEF NumStreams
  <1>2. QED BY <1>1, InvInductive, PTL

\* Whatever stickyConn holds back and whenever it flushes, on every session the
\* SYN of a stream goes out before its payload and its FIN.
THEOREM OrderCorrect == Spec => []FramesInOrder
  <1>1. Init => FrameInv
    BY SMT DEF Init, FrameInv, FramesInOrder, HeldBack
  <1>2. Inv /\ FrameInv /\ [Next]_vars => FrameInv'
    <2>1. SUFFICES ASSUME Inv, FrameInv, [Next]_vars PROVE FrameInv'
      OBVIOUS
    <2>2. ASSUME NEW x \in Stream, Dial(x) PROVE FrameInv'
      BY <2>1, <2>2, PoolOrder, OpenOrder DEF Dial
    <2>3. ASSUME NEW p \in Proc, closeMuxClients(p) PROVE FrameInv'
      BY <2>1, <2>3, EndsOrder DEF closeMuxClients, Inv, TypeInv
    <2>4. CASE (\E p \in Proc : Closed(p)) \/ CleanTick \/ Clean \/ CleanShutdown \/ Close \/ Cancel \/ ParentDone
      BY <2>1, <2>4, PoolOrder
    <2>5. ASSUME NEW x \in Stream, StreamWrites(x) PROVE FrameInv'
      <3>1. via[x] \in Session /\ x \in up /\ <<Psh(x)>> \in Seq(Frame)
        BY <2>1, <2>5, SMT DEF StreamWrites, Inv, Opened, Psh, Frame
      <3>2. Write(via[x], <<Psh(x)>>) /\ UNCHANGED <<sess, via, up>>
        BY <2>5 DEF StreamWrites
      <3>3. \A i \in 1 .. Len(<<Psh(x)>>) : <<Psh(x)>>[i] = Psh(x)
        BY SMT
      <3>4. QED BY <2>1, <3>1, <3>2, <3>3, WriteOrder
    <2>6. ASSUME NEW x \in Stream, StreamCloses(x) PROVE FrameInv'
      BY <2>1, <2>6, CloseOrder
    <2>7. ASSUME NEW m \in Session, KeepAlive(m) PROVE FrameInv'
      <3>1. <<>> \in Seq(Frame) /\ Len(<<>>) = 0
        BY SMT
      <3>2. Write(m, <<>>) /\ UNCHANGED <<sess, via, up>>
        BY <2>7 DEF KeepAlive
      <3>3. \A i \in 1 .. Len(<<>>) : \E x \in up : <<>>[i] = Psh(x) /\ via[x] = m
        BY <3>1, SMT
      <3>4. QED BY <2>1, <3>1, <3>2, <3>3, WriteOrder
    <2>8. ASSUME NEW m \in Session, Break(m) PROVE FrameInv'
      BY <2>1, <2>8, EndsOrder DEF Break
    <2>9. CASE UNCHANGED vars
      BY <2>1, <2>9, QuietOrder DEF vars, wireVars
    <2>10. QED BY <2>1, <2>2, <2>3, <2>4, <2>5, <2>6, <2>7, <2>8, <2>9 DEF Next
  <1>3. FrameInv => FramesInOrder
    BY DEF FrameInv
  <1>4. QED BY <1>1, <1>2, <1>3, InvInductive, PTL DEF Spec
=============================================================================
