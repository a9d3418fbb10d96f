------------------------ MODULE TrojanServer_proofs ------------------------
(***************************************************************************)
(* Proofs about TrojanServer, for any sets of connections, addresses and   *)
(* user objects, any caps and any queue size: types, accept queues,        *)
(* cutoff watchers and slots.                                              *)
(***************************************************************************)
EXTENDS TrojanServer, FiniteSetTheorems, TLAPS

\* Zenon proves the leaves that name no prover.
USE Zenon

\* A connection has an address once it is accepted and a user once its hash
\* is known; before admission nobody closes or watches it.
Attached ==
    \A c \in Conn :
        /\ pc[c] # "idle" => ip[c] \in IP
        /\ pc[c] \notin {"idle", "hash"} => owner[c] \in UserObj
        /\ ~Admitted(c) => closing[c] = "open" /\ watcher[c] = "none"

Shape == TypeOK /\ Attached /\ QueuedOnce
-----------------------------------------------------------------------------
(***************************************************************************)
(* Types.                                                                  *)
(***************************************************************************)

\* The operator's actions keep the types.
LEMMA OperatorTypes == TypeOK /\ Operator => TypeOK'
  <1> SUFFICES ASSUME TypeOK, Operator PROVE TypeOK'
    OBVIOUS
  <1> USE DEF TypeOK, LimitsTypeOK, connVars, serverVars, limits
  <1>1. ASSUME NEW u \in UserObj, AddUser(u) PROVE TypeOK'
    BY <1>1, SMT DEF AddUser, FreshLimits
  <1>2. CASE DelUserClose
    BY <1>2 DEF DelUserClose
  <1>3. CASE DelUserDelete
    BY <1>3 DEF DelUserDelete
  <1>4. ASSUME NEW n \in IPLimits, SetUserIPLimit(n) PROVE TypeOK'
    BY <1>4, LimitsAssumption, SMTT(30) DEF SetUserIPLimit, setIPLimit
  <1>5. ASSUME NEW q \in Quotas, SetUserQuota(q) PROVE TypeOK'
    BY <1>5, LimitsAssumption DEF SetUserQuota
  <1>6. QED BY <1>1, <1>2, <1>3, <1>4, <1>5 DEF Operator

\* AddIP and DelIP keep the types of the counters.
LEMMA LimitTypes ==
    ASSUME TypeOK, NEW u \in UserObj, NEW a \in IP, AddIP(u, a) \/ DelIP(u, a)
    PROVE  LimitsTypeOK'
  <1>0. LimitsTypeOK /\ ipTable[u] \in [IP -> Nat] /\ ipTable[u][a] \in Nat /\ connNum[u] \in Nat
    BY DEF TypeOK, LimitsTypeOK
  <1>1. ASSUME NEW n \in Nat, ipTable' = [ipTable EXCEPT ![u][a] = n]
        PROVE  ipTable' \in [UserObj -> [IP -> Nat]]
    <2>1. [ipTable[u] EXCEPT ![a] = n] \in [IP -> Nat]
      BY <1>0
    <2>2. QED BY <1>0, <1>1, <2>1 DEF LimitsTypeOK
  <1>2. CASE AddIP(u, a)
    <2>1. ipTable' = ipTable \/ ipTable' = [ipTable EXCEPT ![u][a] = ipTable[u][a] + 1]
      BY <1>2 DEF AddIP
    <2>2. ipTable' \in [UserObj -> [IP -> Nat]]
      BY <1>0, <1>1, <2>1, SMT DEF LimitsTypeOK
    <2>3. ipNum' \in [UserObj -> Int] /\ connNum' \in [UserObj -> Nat] /\ MaxIPNum' \in [UserObj -> Int]
      BY <1>0, <1>2, SMT DEF AddIP, LimitsTypeOK
    <2>4. QED BY <2>2, <2>3 DEF LimitsTypeOK
  <1>3. CASE DelIP(u, a)
    <2>1. \/ ipTable' = ipTable
          \/ ipTable[u][a] > 0 /\ ipTable' = [ipTable EXCEPT ![u][a] = ipTable[u][a] - 1]
      BY <1>3 DEF DelIP
    <2>2. ipTable' \in [UserObj -> [IP -> Nat]]
      BY <1>0, <1>1, <2>1, SMT DEF LimitsTypeOK
    <2>3. ipNum' \in [UserObj -> Int] /\ MaxIPNum' \in [UserObj -> Int]
      BY <1>0, <1>3, SMT DEF DelIP, LimitsTypeOK
    <2>4. connNum' = connNum \/ connNum' = [connNum EXCEPT ![u] = IF @ > 0 THEN @ - 1 ELSE @]
      BY <1>3 DEF DelIP, ReleaseConn
    <2>5. connNum' \in [UserObj -> Nat]
      BY <1>0, <2>4, SMT DEF LimitsTypeOK
    <2>6. QED BY <2>2, <2>3, <2>5 DEF LimitsTypeOK
  <1>4. QED BY <1>2, <1>3

\* The handshake keeps the types.
LEMMA HandshakeTypes ==
    ASSUME TypeOK, Attached, NEW c \in Conn, Handshake(c)
    PROVE  TypeOK'
  <1> USE DEF TypeOK, authVars, serverVars, limits, Queues
  <1> HIDE DEF LimitsTypeOK
  <1>0. UNCHANGED limits => LimitsTypeOK'
    BY DEF LimitsTypeOK
  <1>1. ASSUME NEW a \in IP, Accept(c, a) PROVE TypeOK'
    BY <1>0, <1>1 DEF Accept, PC
  <1>2. CASE AuthFails(c)
    BY <1>0, <1>2 DEF AuthFails, Discard, PC
  <1>3. CASE AuthUser(c)
    BY <1>0, <1>3 DEF AuthUser, PC
  <1>4. ASSUME NEW m \in Commands, ReadMetadata(c, m) PROVE TypeOK'
    BY <1>0, <1>4 DEF ReadMetadata, PC
  <1>5. CASE Admit(c)
    <2>1. owner[c] \in UserObj /\ ip[c] \in IP
      BY <1>5 DEF Attached, Admit
    <2>2. LimitsTypeOK'
      BY <1>5, <2>1, LimitTypes DEF Admit
    <2>3. QED BY <1>5, <2>2, SMT DEF Admit, PC
  <1>6. CASE Refuse(c)
    BY <1>0, <1>6 DEF Refuse, Discard, PC
  <1>7. QED BY <1>1, <1>2, <1>3, <1>4, <1>5, <1>6 DEF Handshake

\* The steps of a tunnel after its handshake.
Tunnel(c) ==
    \/ InstallWatcher(c)
    \/ Deliver(c)
    \/ Drop(c)
    \/ Traffic(c)
    \/ PeerHangsUp(c)
    \/ RelayInterrupted(c)
    \/ CloseBody(c)
    \/ WatcherWakes(c)
    \/ WatcherReturns(c)
    \/ Forget(c)

\* The steps of the server as a whole.
Service ==
    \/ Cancel
    \/ CloseUnderlay
    \/ \E q \in Queues : AcceptConn(q) \/ ConsumerExits(q)

\* These are all the steps there are.
LEMMA NextSteps ==
    Next <=> Operator \/ Service \/ \E c \in Conn : Handshake(c) \/ Tunnel(c)
  BY DEF Next, Service, Tunnel

\* A tunnel's steps keep the types.
LEMMA TunnelTypes ==
    ASSUME TypeOK, Attached, NEW c \in Conn, Tunnel(c)
    PROVE  TypeOK'
  <1> USE DEF TypeOK, authVars, serverVars, limits
  <1>0. UNCHANGED limits => LimitsTypeOK'
    BY DEF LimitsTypeOK
  <1>1. CASE InstallWatcher(c)
    BY <1>0, <1>1 DEF InstallWatcher, PC
  <1>2. CASE Deliver(c)
    BY <1>0, <1>2, SMTT(30) DEF Deliver, PC
  <1>3. CASE Drop(c)
    BY <1>0, <1>3 DEF Drop, PC
  <1>4. CASE Traffic(c)
    <2>1. owner[c] \in UserObj
      BY <1>4 DEF Traffic, Attached
    <2>2. cutoff[owner[c]] \/ (quota[owner[c]] > 0 /\ traffic[owner[c]] + 1 >= quota[owner[c]]) \in BOOLEAN
      OBVIOUS
    <2>3. QED BY <1>0, <1>4, <2>1, <2>2, SMT DEF Traffic, connVars
  <1>5. CASE PeerHangsUp(c)
    BY <1>0, <1>5 DEF PeerHangsUp, RelayReturns, PC
  <1>6. CASE RelayInterrupted(c)
    BY <1>0, <1>6 DEF RelayInterrupted, RelayReturns, PC
  <1>7. CASE CloseSignal(c)
    BY <1>0, <1>7 DEF CloseSignal
  <1>8. CASE CloseRelease(c)
    <2>1. owner[c] \in UserObj /\ ip[c] \in IP
      BY <1>8 DEF CloseRelease, Attached, Admitted
    <2>2. LimitsTypeOK'
      BY <1>8, <2>1, LimitTypes DEF CloseRelease
    <2>3. QED BY <1>8, <2>2, SMT DEF CloseRelease
  <1>9. CASE CloseTransport(c)
    BY <1>0, <1>9 DEF CloseTransport
  <1>10. CASE WatcherWakes(c)
    BY <1>0, <1>10 DEF WatcherWakes
  <1>11. CASE WatcherReturns(c)
    BY <1>0, <1>11 DEF WatcherReturns
  <1>12. CASE Forget(c)
    BY <1>0, <1>12 DEF Forget, Discard, PC
  <1>13. QED
    BY <1>1, <1>2, <1>3, <1>4, <1>5, <1>6, <1>7, <1>8, <1>9, <1>10, <1>11, <1>12
    DEF Tunnel, CloseBody

\* The server's steps keep the types.
LEMMA ServiceTypes == TypeOK /\ Service => TypeOK'
  <1> SUFFICES ASSUME TypeOK, Service PROVE TypeOK'
    OBVIOUS
  <1> USE DEF TypeOK, authVars, connVars, limits
  <1>0. UNCHANGED limits => LimitsTypeOK'
    BY DEF LimitsTypeOK
  <1>1. CASE Cancel
    BY <1>0, <1>1 DEF Cancel
  <1>2. CASE CloseUnderlay
    BY <1>0, <1>2 DEF CloseUnderlay
  <1>3. ASSUME NEW q \in Queues, AcceptConn(q) PROVE TypeOK'
    <2>1. queue[q] \in Seq(Conn) /\ queue[q] # <<>>
      BY <1>3 DEF AcceptConn
    <2>2. Head(queue[q]) \in Conn /\ Tail(queue[q]) \in Seq(Conn)
      BY <2>1, SMT
    <2>3. QED BY <1>0, <1>3, <2>2 DEF AcceptConn, PC
  <1>4. ASSUME NEW q \in Queues, ConsumerExits(q) PROVE TypeOK'
    BY <1>0, <1>4 DEF ConsumerExits
  <1>5. QED BY <1>1, <1>2, <1>3, <1>4 DEF Service

-----------------------------------------------------------------------------
(***************************************************************************)
(* Connections and queues.                                                 *)
(***************************************************************************)

\* The handshake keeps Attached.
LEMMA HandshakeAttached ==
    ASSUME TypeOK, Attached, NEW c \in Conn, Handshake(c)
    PROVE  Attached'
  <1> USE DEF TypeOK, Attached, Admitted
  <1>1. ASSUME NEW a \in IP, Accept(c, a) PROVE Attached'
    BY <1>1 DEF Accept
  <1>2. CASE AuthFails(c)
    BY <1>2 DEF AuthFails, Discard
  <1>3. CASE AuthUser(c)
    BY <1>3 DEF AuthUser
  <1>4. ASSUME NEW m \in Commands, ReadMetadata(c, m) PROVE Attached'
    BY <1>4 DEF ReadMetadata
  <1>5. CASE Admit(c)
    BY <1>5 DEF Admit
  <1>6. CASE Refuse(c)
    BY <1>6 DEF Refuse, Discard
  <1>7. QED BY <1>1, <1>2, <1>3, <1>4, <1>5, <1>6 DEF Handshake

\* A tunnel's steps keep Attached.
LEMMA TunnelAttached ==
    ASSUME TypeOK, Attached, NEW c \in Conn, Tunnel(c)
    PROVE  Attached'
  <1> USE DEF TypeOK, Attached, Admitted
  <1>1. CASE InstallWatcher(c)
    BY <1>1 DEF InstallWatcher
  <1>2. CASE Deliver(c)
    BY <1>2 DEF Deliver
  <1>3. CASE Drop(c)
    BY <1>3 DEF Drop
  <1>4. CASE Traffic(c)
    BY <1>4 DEF Traffic, connVars
  <1>5. CASE PeerHangsUp(c) \/ RelayInterrupted(c)
    BY <1>5 DEF PeerHangsUp, RelayInterrupted, RelayReturns
  <1>6. CASE CloseSignal(c)
    BY <1>6 DEF CloseSignal
  <1>7. CASE CloseRelease(c)
    BY <1>7 DEF CloseRelease
  <1>8. CASE CloseTransport(c)
    BY <1>8 DEF CloseTransport
  <1>9. CASE WatcherWakes(c)
    BY <1>9, ZenonT(30) DEF WatcherWakes
  <1>10. CASE WatcherReturns(c)
    BY <1>10 DEF WatcherReturns
  <1>11. CASE Forget(c)
    BY <1>11 DEF Forget, Discard
  <1>12. QED
    BY <1>1, <1>2, <1>3, <1>4, <1>5, <1>6, <1>7, <1>8, <1>9, <1>10, <1>11
    DEF Tunnel, CloseBody

\* The connection an AcceptConn takes is one that waits in that queue.
LEMMA HeadIsQueued ==
    ASSUME TypeOK, QueuedOnce, NEW q \in Queues, queue[q] # <<>>
    PROVE  /\ queue[q] \in Seq(Conn)
           /\ Len(queue[q]) > 0
           /\ Head(queue[q]) = queue[q][1]
           /\ Head(queue[q]) \in Conn
           /\ pc[Head(queue[q])] = "queued"
           /\ cmd[Head(queue[q])] = q
  <1>1. queue[q] \in Seq(Conn) /\ Len(queue[q]) > 0 /\ Head(queue[q]) = queue[q][1]
    BY SMT DEF TypeOK
  <1>2. 1 \in DOMAIN queue[q] /\ Head(queue[q]) \in Conn
    BY <1>1, SMT
  <1>3. QED BY <1>1, <1>2, SMT DEF QueuedOnce

\* The server's steps keep Attached.
LEMMA ServiceAttached == TypeOK /\ Attached /\ QueuedOnce /\ Service => Attached'
  <1> SUFFICES ASSUME TypeOK, Attached, QueuedOnce, Service PROVE Attached'
    OBVIOUS
  <1>1. CASE UNCHANGED connVars
    BY <1>1 DEF connVars, Attached, Admitted
  <1>2. ASSUME NEW q \in Queues, AcceptConn(q) PROVE Attached'
    <2>1. Head(queue[q]) \in Conn /\ pc[Head(queue[q])] = "queued"
      BY <1>2, HeadIsQueued DEF AcceptConn
    <2>2. QED BY <1>2, <2>1 DEF AcceptConn, TypeOK, Attached, Admitted
  <1>3. QED BY <1>1, <1>2 DEF Service, Cancel, CloseUnderlay, ConsumerExits

\* A step that leaves the queues alone, and that neither enters nor leaves
\* the waiting state, keeps QueuedOnce.
LEMMA QueuesUntouched ==
    ASSUME QueuedOnce, queue' = queue,
           \A c \in Conn : \A q \in Queues :
               (pc'[c] = "queued" /\ cmd'[c] = q) <=> (pc[c] = "queued" /\ cmd[c] = q)
    PROVE  QueuedOnce'
  BY SMT DEF QueuedOnce

\* Delivering appends a connection that was in no queue.
LEMMA DeliverQueues ==
    ASSUME TypeOK, QueuedOnce, NEW c \in Conn, Deliver(c)
    PROVE  QueuedOnce'
  <1> DEFINE k == cmd[c]
  <1>1. /\ k \in Queues /\ queue[k] \in Seq(Conn) /\ Len(queue[k]) < QueueSize
        /\ queue' = [queue EXCEPT ![k] = Append(queue[k], c)]
        /\ pc' = [pc EXCEPT ![c] = "queued"] /\ cmd' = cmd /\ pc[c] = "dispatch"
    BY DEF Deliver, HasRoom, TypeOK
  <1>2. \A i \in DOMAIN queue[k] : queue[k][i] # c
    BY <1>1 DEF QueuedOnce
  <1>3. SUFFICES ASSUME NEW q \in Queues
        PROVE  /\ Len(queue'[q]) <= QueueSize
               /\ \A i, j \in DOMAIN queue'[q] : queue'[q][i] = queue'[q][j] => i = j
               /\ \A d \in Conn : (\E i \in DOMAIN queue'[q] : queue'[q][i] = d)
                                     <=> (pc'[d] = "queued" /\ cmd'[d] = q)
    BY DEF QueuedOnce
  <1>4. CASE q = k
    <2>1. queue'[q] = Append(queue[k], c)
      BY <1>1, <1>4 DEF TypeOK
    <2>2. /\ Len(queue'[q]) = Len(queue[k]) + 1
          /\ DOMAIN queue'[q] = 1 .. (Len(queue[k]) + 1)
          /\ DOMAIN queue[k] = 1 .. Len(queue[k])
          /\ \A i \in DOMAIN queue[k] : queue'[q][i] = queue[k][i]
          /\ queue'[q][Len(queue[k]) + 1] = c
          /\ Len(queue[k]) \in Nat
      BY <1>1, <2>1, SMT
    <2>3. Len(queue'[q]) <= QueueSize
      BY <1>1, <2>2, QueueSizeAssumption, SMTT(30)
    <2>4. \A i, j \in DOMAIN queue'[q] : queue'[q][i] = queue'[q][j] => i = j
      BY <1>1, <1>2, <2>2, SMT DEF QueuedOnce
    <2>5. ASSUME NEW d \in Conn
          PROVE  (\E i \in DOMAIN queue'[q] : queue'[q][i] = d) <=> (pc'[d] = "queued" /\ cmd'[d] = q)
      <3>1. CASE d = c
        BY <1>1, <1>4, <2>2, <3>1, SMTT(30) DEF TypeOK
      <3>2. CASE d # c
        <4>1. (\E i \in DOMAIN queue'[q] : queue'[q][i] = d) <=> (\E i \in DOMAIN queue[k] : queue[k][i] = d)
          BY <2>2, <3>2, SMTT(30)
        <4>2. pc'[d] = pc[d] /\ cmd'[d] = cmd[d]
          BY <1>1, <3>2 DEF TypeOK
        <4>3. QED BY <1>1, <1>4, <4>1, <4>2, SMT DEF QueuedOnce
      <3>3. QED BY <3>1, <3>2
    <2>6. QED BY <2>3, <2>4, <2>5
  <1>5. CASE q # k
    <2>1. queue'[q] = queue[q]
      BY <1>1, <1>5 DEF TypeOK
    <2>2. \A d \in Conn : (pc'[d] = "queued" /\ cmd'[d] = q) <=> (pc[d] = "queued" /\ cmd[d] = q)
      BY <1>1, <1>5 DEF TypeOK
    <2>3. QED BY <2>1, <2>2, SMT DEF QueuedOnce
  <1>6. QED BY <1>4, <1>5

\* AcceptConn removes the head and nothing else.
LEMMA AcceptQueues ==
    ASSUME TypeOK, QueuedOnce, NEW k \in Queues, AcceptConn(k)
    PROVE  QueuedOnce'
  <1> DEFINE c == Head(queue[k])
  <1> DEFINE n == Len(queue[k])
  <1>1. /\ queue[k] \in Seq(Conn) /\ n > 0 /\ c = queue[k][1] /\ c \in Conn
        /\ pc[c] = "queued" /\ cmd[c] = k
    BY HeadIsQueued DEF AcceptConn
  <1>2. /\ queue' = [queue EXCEPT ![k] = Tail(queue[k])]
        /\ pc' = [pc EXCEPT ![c] = "relay"] /\ cmd' = cmd
    BY DEF AcceptConn
  <1>3. SUFFICES ASSUME NEW q \in Queues
        PROVE  /\ Len(queue'[q]) <= QueueSize
               /\ \A i, j \in DOMAIN queue'[q] : queue'[q][i] = queue'[q][j] => i = j
               /\ \A d \in Conn : (\E i \in DOMAIN queue'[q] : queue'[q][i] = d)
                                     <=> (pc'[d] = "queued" /\ cmd'[d] = q)
    BY DEF QueuedOnce
  <1>4. CASE q = k
    <2>1. queue'[q] = Tail(queue[k])
      BY <1>2, <1>4 DEF TypeOK
    <2>2. /\ n \in Nat
          /\ Len(queue'[q]) = n - 1
          /\ DOMAIN queue'[q] = 1 .. (n - 1)
          /\ DOMAIN queue[k] = 1 .. n
          /\ \A i \in 1 .. (n - 1) : queue'[q][i] = queue[k][i + 1]
      BY <1>1, <2>1, SMT
    <2>3. /\ n <= QueueSize
          /\ \A i, j \in 1 .. n : queue[k][i] = queue[k][j] => i = j
          /\ \A d \in Conn : (\E i \in 1 .. n : queue[k][i] = d) <=> (pc[d] = "queued" /\ cmd[d] = k)
      BY <2>2, SMT DEF QueuedOnce
    <2>4. Len(queue'[q]) <= QueueSize
      BY <2>2, <2>3, QueueSizeAssumption, SMT
    <2>5. ASSUME NEW i \in DOMAIN queue'[q], NEW j \in DOMAIN queue'[q], queue'[q][i] = queue'[q][j]
          PROVE  i = j
      <3>1. i \in 1 .. (n - 1) /\ j \in 1 .. (n - 1)
        BY <2>2
      <3>2. queue[k][i + 1] = queue[k][j + 1] /\ i + 1 \in 1 .. n /\ j + 1 \in 1 .. n
        BY <2>2, <2>5, <3>1, SMTT(30)
      <3>3. i + 1 = j + 1
        BY <2>3, <3>2
      <3>4. QED BY <3>1, <3>3, SMT
    <2>6. ASSUME NEW d \in Conn
          PROVE  (\E i \in DOMAIN queue'[q] : queue'[q][i] = d) <=> (pc'[d] = "queued" /\ cmd'[d] = q)
      <3>1. CASE d = c
        <4>1. pc'[d] = "relay"
          BY <1>1, <1>2, <3>1 DEF TypeOK
        <4>2. \A i \in 1 .. (n - 1) : queue[k][i + 1] # c
          <5>1. SUFFICES ASSUME NEW i \in 1 .. (n - 1), queue[k][i + 1] = queue[k][1] PROVE FALSE
            BY <1>1
          <5>2. i + 1 \in 1 .. n /\ 1 \in 1 .. n
            BY <2>2, <1>1, SMT
          <5>3. QED BY <2>3, <5>1, <5>2, SMT
        <4>3. QED BY <2>2, <3>1, <4>1, <4>2
      <3>2. CASE d # c
        <4>1. ASSUME NEW i \in 1 .. n, queue[k][i] = d PROVE \E j \in 1 .. (n - 1) : queue[k][j + 1] = d
          <5>1. i # 1
            BY <1>1, <3>2, <4>1
          <5>2. i - 1 \in 1 .. (n - 1) /\ (i - 1) + 1 = i
            BY <2>2, <5>1, SMT
          <5>3. QED BY <4>1, <5>2
        <4>2. ASSUME NEW j \in 1 .. (n - 1), queue[k][j + 1] = d PROVE \E i \in 1 .. n : queue[k][i] = d
          <5>1. j + 1 \in 1 .. n
            BY <2>2, SMT
          <5>2. QED BY <4>2, <5>1
        <4>3. (\E i \in DOMAIN queue'[q] : queue'[q][i] = d) <=> (\E i \in 1 .. n : queue[k][i] = d)
          BY <2>2, <4>1, <4>2
        <4>4. pc'[d] = pc[d] /\ cmd'[d] = cmd[d]
          BY <1>2, <3>2 DEF TypeOK
        <4>5. QED BY <1>4, <2>3, <4>3, <4>4
      <3>3. QED BY <3>1, <3>2
    <2>7. QED BY <2>4, <2>5, <2>6
  <1>5. CASE q # k
    <2>1. queue'[q] = queue[q]
      BY <1>2, <1>5 DEF TypeOK
    <2>2. \A d \in Conn : (pc'[d] = "queued" /\ cmd'[d] = q) <=> (pc[d] = "queued" /\ cmd[d] = q)
      BY <1>1, <1>2, <1>5 DEF TypeOK
    <2>3. QED BY <2>1, <2>2, SMT DEF QueuedOnce
  <1>6. QED BY <1>4, <1>5

\* Every step keeps the queues consistent with the connections.
LEMMA QueuesStep ==
    ASSUME Shape, [Next]_vars
    PROVE  QueuedOnce'
  <1> USE DEF Shape
  <1> DEFINE Waiting == \A c \in Conn : \A q \in Queues :
               (pc'[c] = "queued" /\ cmd'[c] = q) <=> (pc[c] = "queued" /\ cmd[c] = q)
  <1>0. queue' = queue /\ Waiting => QueuedOnce'
    BY QueuesUntouched
  <1>1. CASE UNCHANGED vars
    BY <1>0, <1>1 DEF vars, connVars, serverVars
  <1>2. CASE Operator
    BY <1>0, <1>2 DEF Operator, AddUser, DelUserClose, DelUserDelete, SetUserIPLimit,
                      SetUserQuota, connVars, serverVars
  <1>3. ASSUME NEW c \in Conn, Handshake(c) PROVE QueuedOnce'
    <2>1. queue' = queue /\ Waiting
      BY <1>3, ZenonT(30) DEF Handshake, Accept, AuthFails, AuthUser, ReadMetadata, Admit, Refuse, Discard,
                  serverVars, TypeOK
    <2>2. QED BY <1>0, <2>1
  <1>4. ASSUME NEW c \in Conn, Tunnel(c) PROVE QueuedOnce'
    <2>1. CASE Deliver(c)
      BY <2>1, DeliverQueues
    <2>2. CASE InstallWatcher(c) \/ Drop(c) \/ Traffic(c) \/ PeerHangsUp(c) \/ RelayInterrupted(c)
      <3>1. queue' = queue /\ Waiting
        BY <2>2 DEF InstallWatcher, Drop, Traffic, PeerHangsUp, RelayInterrupted, RelayReturns,
                    connVars, serverVars, TypeOK
      <3>2. QED BY <1>0, <3>1
    <2>3. CASE CloseBody(c) \/ WatcherWakes(c) \/ WatcherReturns(c) \/ Forget(c)
      <3>1. queue' = queue /\ Waiting
        BY <2>3 DEF CloseBody, CloseSignal, CloseRelease, CloseTransport, WatcherWakes,
                    WatcherReturns, Forget, Discard, serverVars, TypeOK
      <3>2. QED BY <1>0, <3>1
    <2>4. QED BY <1>4, <2>1, <2>2, <2>3 DEF Tunnel
  <1>5. CASE Service
    <2>1. ASSUME NEW q \in Queues, AcceptConn(q) PROVE QueuedOnce'
      BY <2>1, AcceptQueues
    <2>2. CASE UNCHANGED connVars /\ queue' = queue
      BY <1>0, <2>2 DEF connVars
    <2>3. QED BY <1>5, <2>1, <2>2 DEF Service, Cancel, CloseUnderlay, ConsumerExits
  <1>6. QED BY <1>1, <1>2, <1>3, <1>4, <1>5, NextSteps

\* Every step keeps the shape of the state.
LEMMA ShapeStep == ASSUME Shape, [Next]_vars PROVE Shape'
  <1> USE DEF Shape
  <1>1. QueuedOnce'
    BY QueuesStep
  <1>2. CASE UNCHANGED vars
    BY <1>1, <1>2 DEF vars, limits, authVars, connVars, serverVars, TypeOK, LimitsTypeOK, Attached, Admitted
  <1>3. CASE Operator
    <2>1. UNCHANGED connVars
      BY <1>3 DEF Operator, AddUser, DelUserClose, DelUserDelete, SetUserIPLimit, SetUserQuota
    <2>2. Attached'
      BY <2>1 DEF connVars, Attached, Admitted
    <2>3. QED BY <1>1, <1>3, <2>2, OperatorTypes
  <1>4. ASSUME NEW c \in Conn, Handshake(c) PROVE Shape'
    BY <1>1, <1>4, HandshakeTypes, HandshakeAttached
  <1>5. ASSUME NEW c \in Conn, Tunnel(c) PROVE Shape'
    BY <1>1, <1>5, TunnelTypes, TunnelAttached
  <1>6. CASE Service
    BY <1>1, <1>6, ServiceTypes, ServiceAttached
  <1>7. QED BY <1>2, <1>3, <1>4, <1>5, <1>6, NextSteps

\* The initial states have the shape.
LEMMA ShapeInit == Init => Shape
  <1> SUFFICES ASSUME Init PROVE Shape
    OBVIOUS
  <1> USE DEF Init, LimitsInit
  <1>1. TypeOK
    BY SMT DEF TypeOK, LimitsTypeOK, PC
  <1>2. Attached
    BY DEF Attached, Admitted
  <1>3. QueuedOnce
    BY QueueSizeAssumption, SMT DEF QueuedOnce
  <1>4. QED BY <1>1, <1>2, <1>3 DEF Shape

\* The variables keep their types: every state the server, its watchers and
\* the operator reach by any interleaving is well formed.
THEOREM TypeCorrect == Spec => []TypeOK
  <1>1. Shape /\ [Next]_vars => Shape'
    BY ShapeStep
  <1>2. Shape => TypeOK
    BY DEF Shape
  <1>3. QED BY ShapeInit, <1>1, <1>2, PTL DEF Spec

\* The channels between the dispatcher and the consumers (deliver,
\* offerPacket, AcceptConn, AcceptPacket) hold every waiting tunnel exactly
\* once, and never more than their capacity.
THEOREM QueuesCorrect == Spec => []QueuedOnce
  <1>1. Shape /\ [Next]_vars => Shape'
    BY ShapeStep
  <1>2. Shape => QueuedOnce
    BY DEF Shape
  <1>3. QED BY ShapeInit, <1>1, <1>2, PTL DEF Spec
-----------------------------------------------------------------------------
(***************************************************************************)
(* Cutoff.                                                                 *)
(***************************************************************************)

\* The select that installs the watcher leaves no gap: a tunnel without a
\* watcher belongs to a user whose cutoff has already fired, or to a server
\* that is stopping.
THEOREM WatchedCorrect == Spec => []UncutTunnelsWatched
  <1> USE DEF UncutTunnelsWatched
  <1>1. Init => UncutTunnelsWatched
    BY ZenonT(30) DEF Init
  <1>2. ASSUME Shape, UncutTunnelsWatched, [Next]_vars PROVE UncutTunnelsWatched'
    <2> USE <1>2 DEF Shape, TypeOK
    <2>1. CASE UNCHANGED vars
      BY <2>1 DEF vars, authVars, connVars, serverVars
    <2>2. ASSUME NEW u \in UserObj, AddUser(u) PROVE UncutTunnelsWatched'
      BY <2>2, SMT DEF AddUser, Forgotten, connVars, serverVars
    <2>3. CASE DelUserClose \/ DelUserDelete
      <3>1. UNCHANGED <<connVars, ctx>> /\ \A u \in UserObj : cutoff[u] => cutoff'[u]
        BY <2>3 DEF DelUserClose, DelUserDelete, serverVars
      <3>2. \A d \in Conn : pc[d] \in {"dispatch", "queued", "relay"} => owner[d] \in UserObj
        BY DEF Attached
      <3>3. QED BY <3>1, <3>2 DEF connVars
    <2>4. ASSUME NEW n, SetUserIPLimit(n) \/ SetUserQuota(n) PROVE UncutTunnelsWatched'
      BY <2>4 DEF SetUserIPLimit, SetUserQuota, connVars, serverVars
    <2>5. CASE Service
      <3>1. ASSUME NEW q \in Queues, AcceptConn(q) PROVE UncutTunnelsWatched'
        <4>1. Head(queue[q]) \in Conn /\ pc[Head(queue[q])] = "queued"
          BY <3>1, HeadIsQueued DEF AcceptConn
        <4>2. QED BY <3>1, <4>1 DEF AcceptConn, authVars
      <3>2. CASE Cancel \/ CloseUnderlay \/ \E q \in Queues : ConsumerExits(q)
        BY <3>2 DEF Cancel, CloseUnderlay, ConsumerExits, authVars, connVars
      <3>3. QED BY <2>5, <3>1, <3>2 DEF Service
    <2>6. ASSUME NEW c \in Conn, Handshake(c) PROVE UncutTunnelsWatched'
      <3>1. /\ cutoff' = cutoff /\ ctx' = ctx /\ closing' = closing /\ watcher' = watcher
            /\ pc'[c] \notin {"dispatch", "queued", "relay"}
            /\ \A d \in Conn : d # c => pc'[d] = pc[d] /\ owner'[d] = owner[d]
        BY <2>6, ZenonT(30) DEF Handshake, Accept, AuthFails, AuthUser, ReadMetadata, Admit, Refuse, Discard,
                    authVars, serverVars
      <3>2. QED BY <3>1
    <2>7. ASSUME NEW c \in Conn, InstallWatcher(c) \/ Deliver(c) \/ Drop(c) PROVE UncutTunnelsWatched'
      BY <2>7, SMT DEF InstallWatcher, Deliver, Drop, authVars, serverVars
    <2>8. ASSUME NEW c \in Conn, Traffic(c) PROVE UncutTunnelsWatched'
      <3>1. UNCHANGED <<connVars, ctx>> /\ \A u \in UserObj : cutoff[u] => cutoff'[u]
        BY <2>8 DEF Traffic, serverVars
      <3>2. \A d \in Conn : pc[d] \in {"dispatch", "queued", "relay"} => owner[d] \in UserObj
        BY DEF Attached
      <3>3. QED BY <3>1, <3>2 DEF connVars
    <2>9. ASSUME NEW c \in Conn, PeerHangsUp(c) \/ RelayInterrupted(c) PROVE UncutTunnelsWatched'
      BY <2>9, ZenonT(30) DEF PeerHangsUp, RelayInterrupted, RelayReturns, authVars, serverVars
    <2>10. ASSUME NEW c \in Conn, CloseBody(c) PROVE UncutTunnelsWatched'
      BY <2>10, ZenonT(30) DEF CloseBody, CloseSignal, CloseRelease, CloseTransport, authVars, serverVars
    <2>11. ASSUME NEW c \in Conn, WatcherWakes(c) \/ WatcherReturns(c) \/ Forget(c) PROVE UncutTunnelsWatched'
      <3>1. CASE WatcherWakes(c)
        BY <3>1, ZenonT(30) DEF WatcherWakes, authVars, serverVars
      <3>2. CASE WatcherReturns(c)
        BY <3>2 DEF WatcherReturns, authVars, serverVars
      <3>3. CASE Forget(c)
        <4>1. /\ pc'[c] = "idle" /\ cutoff' = cutoff /\ ctx' = ctx
              /\ \A d \in Conn : d # c => /\ pc'[d] = pc[d] /\ owner'[d] = owner[d]
                                          /\ closing'[d] = closing[d] /\ watcher'[d] = watcher[d]
          BY <3>3 DEF Forget, Discard, authVars, serverVars
        <4>2. QED BY <4>1
      <3>4. QED BY <2>11, <3>1, <3>2, <3>3
    <2>12. QED
      BY <2>1, <2>2, <2>3, <2>4, <2>5, <2>6, <2>7, <2>8, <2>9, <2>10, <2>11, NextSteps
      DEF Operator, Tunnel
  <1>3. Shape /\ [Next]_vars => Shape'
    BY ShapeStep
  <1>4. QED BY ShapeInit, <1>1, <1>2, <1>3, PTL DEF Spec

-----------------------------------------------------------------------------

(***************************************************************************)
(* The slots.  The counters are correct because Close releases a           *)
(* connection only while it holds a slot, and a connection holds one only  *)
(* between Admit and CloseRelease.  That needs to know what a connection   *)
(* outside this window looks like (Attached), that the head of an accept   *)
(* queue is a waiting connection (QueuedOnce), and, for the cap, that      *)
(* connNum never falls below the number of open tunnels even when a change *)
(* of the IP limit makes it drift (SlotsCovered).                          *)
(***************************************************************************)

\* connNum never underestimates the open tunnels, and stays below the cap.
SlotsCovered ==
    \A u \in UserObj :
        /\ connNum[u] >= Cardinality(Holders(u))
        /\ MaxConnNum > 0 => connNum[u] <= MaxConnNum

Counted == SlotsCovered /\ SlotsExact /\ GaugeExact

\* The step changes neither which connections hold a slot nor whose it is.
HoldersKept ==
    \A c \in Conn : /\ Holding(c)' <=> Holding(c)
                    /\ Holding(c) => owner'[c] = owner[c] /\ ip'[c] = ip[c]

AllHolders == {c \in Conn : Holding(c)}
Occupied(u) == {a \in IP : ipTable[u][a] > 0}

\* Then the sets that are counted are the same after the step.
LEMMA HoldersKeptSets ==
    ASSUME HoldersKept
    PROVE  /\ AllHolders' = AllHolders
           /\ \A u \in UserObj : Holders(u)' = Holders(u)
           /\ \A u \in UserObj : \A a \in IP : HoldersAt(u, a)' = HoldersAt(u, a)
  <1>1. AllHolders' = AllHolders
    BY DEF HoldersKept, AllHolders
  <1>2. ASSUME NEW u \in UserObj PROVE Holders(u)' = Holders(u)
    BY DEF HoldersKept, Holders
  <1>3. ASSUME NEW u \in UserObj, NEW a \in IP PROVE HoldersAt(u, a)' = HoldersAt(u, a)
    BY <1>2 DEF HoldersKept, Holders, HoldersAt
  <1>4. QED BY <1>1, <1>2, <1>3

\* All these sets are finite.
LEMMA FiniteHolders ==
    /\ IsFiniteSet(AllHolders)
    /\ \A u \in UserObj : IsFiniteSet(Holders(u)) /\ IsFiniteSet(Occupied(u))
    /\ \A u \in UserObj : \A a \in IP : IsFiniteSet(HoldersAt(u, a))
  BY FS_Subset, ConnAssumption, IPAssumption DEF AllHolders, Holders, HoldersAt, Occupied

\* A step that keeps the holders and the counters keeps the accounting.
LEMMA QuietStep ==
    ASSUME Counted, HoldersKept, UNCHANGED <<limits, retags, active>>
    PROVE  Counted'
  <1>1. /\ AllHolders' = AllHolders
        /\ \A u \in UserObj : Holders(u)' = Holders(u)
        /\ \A u \in UserObj : \A a \in IP : HoldersAt(u, a)' = HoldersAt(u, a)
    BY HoldersKeptSets
  <1>2. SlotsCovered'
    BY <1>1 DEF Counted, SlotsCovered, limits
  <1>3. SlotsExact'
    BY <1>1, ZenonT(30) DEF Counted, SlotsExact, limits
  <1>4. GaugeExact'
    BY <1>1 DEF Counted, GaugeExact, AllHolders
  <1>5. QED BY <1>2, <1>3, <1>4 DEF Counted

\* A handshake that does not end in admission counts nothing.
LEMMA HandshakeQuiet ==
    ASSUME Shape, NEW c \in Conn, Handshake(c), ~Admit(c)
    PROVE  HoldersKept /\ UNCHANGED <<limits, retags, active>>
  <1> USE DEF Shape, TypeOK, Attached, HoldersKept, Holding, Admitted, authVars, serverVars, limits
  <1>1. ASSUME NEW a \in IP, Accept(c, a) PROVE HoldersKept /\ UNCHANGED <<limits, retags, active>>
    BY <1>1 DEF Accept
  <1>2. CASE AuthFails(c) \/ Refuse(c)
    BY <1>2, ZenonT(30) DEF AuthFails, Refuse, Discard
  <1>3. CASE AuthUser(c)
    BY <1>3 DEF AuthUser
  <1>4. ASSUME NEW m \in Commands, ReadMetadata(c, m) PROVE HoldersKept /\ UNCHANGED <<limits, retags, active>>
    BY <1>4 DEF ReadMetadata
  <1>5. QED BY <1>1, <1>2, <1>3, <1>4 DEF Handshake

\* Only CloseRelease gives a slot back.
LEMMA TunnelQuiet ==
    ASSUME Shape, NEW c \in Conn, Tunnel(c), ~CloseRelease(c)
    PROVE  HoldersKept /\ UNCHANGED <<limits, retags, active>>
  <1> USE DEF Shape, TypeOK, HoldersKept, Holding, Admitted, authVars, connVars, serverVars, limits
  <1>1. CASE InstallWatcher(c)
    BY <1>1 DEF InstallWatcher
  <1>2. CASE Deliver(c) \/ Drop(c)
    BY <1>2 DEF Deliver, Drop
  <1>3. CASE Traffic(c)
    BY <1>3 DEF Traffic
  <1>4. CASE PeerHangsUp(c) \/ RelayInterrupted(c)
    BY <1>4 DEF PeerHangsUp, RelayInterrupted, RelayReturns
  <1>5. CASE CloseSignal(c) \/ CloseTransport(c)
    BY <1>5 DEF CloseSignal, CloseTransport
  <1>6. CASE WatcherWakes(c) \/ WatcherReturns(c)
    BY <1>6 DEF WatcherWakes, WatcherReturns
  <1>7. CASE Forget(c)
    BY <1>7 DEF Forget, Discard
  <1>8. QED BY <1>1, <1>2, <1>3, <1>4, <1>5, <1>6, <1>7 DEF Tunnel, CloseBody

\* The server's own steps count nothing.
LEMMA ServiceQuiet ==
    ASSUME Shape, Service
    PROVE  HoldersKept /\ UNCHANGED <<limits, retags, active>>
  <1> USE DEF HoldersKept, Holding, Admitted, authVars, connVars, limits
  <1>1. ASSUME NEW q \in Queues, AcceptConn(q) PROVE HoldersKept /\ UNCHANGED <<limits, retags, active>>
    <2>1. Head(queue[q]) \in Conn /\ pc[Head(queue[q])] = "queued"
      BY <1>1, HeadIsQueued DEF AcceptConn, Shape
    <2>2. QED BY <1>1, <2>1 DEF AcceptConn, Shape, TypeOK
  <1>2. CASE UNCHANGED <<limits, authVars, connVars, active>>
    BY <1>2
  <1>3. QED BY <1>1, <1>2 DEF Service, Cancel, CloseUnderlay, ConsumerExits

\* A new user object has no holders: nothing that lives refers to it.
LEMMA AddUserCounted ==
    ASSUME Shape, Counted, NEW u \in UserObj, AddUser(u)
    PROVE  Counted'
  <1>1. HoldersKept /\ active' = active
    BY DEF AddUser, connVars, serverVars, HoldersKept, Holding, Admitted
  <1>2. Holders(u) = {}
    BY DEF AddUser, Forgotten, Holders
  <1>3. /\ AllHolders' = AllHolders
        /\ \A v \in UserObj : Holders(v)' = Holders(v)
        /\ \A v \in UserObj : \A a \in IP : HoldersAt(v, a)' = HoldersAt(v, a)
    BY <1>1, HoldersKeptSets
  <1>4. /\ connNum'[u] = 0 /\ MaxIPNum'[u] = 0 /\ ipNum'[u] = 0
        /\ \A a \in IP : ipTable'[u][a] = 0
    BY DEF AddUser, FreshLimits, Shape, TypeOK, LimitsTypeOK
  <1>5. \A v \in UserObj : v # u =>
            /\ connNum'[v] = connNum[v] /\ MaxIPNum'[v] = MaxIPNum[v] /\ ipNum'[v] = ipNum[v]
            /\ ipTable'[v] = ipTable[v] /\ retags'[v] = retags[v]
    BY DEF AddUser, FreshLimits, Shape, TypeOK, LimitsTypeOK
  <1>6. Cardinality({}) = 0
    BY FS_EmptySet
  <1>7. SlotsCovered'
    BY <1>2, <1>3, <1>4, <1>5, <1>6, MaxConnNumAssumption, SMT DEF SlotsCovered, Counted
  <1>8. {a \in IP : ipTable'[u][a] > 0} = {}
    BY <1>4, SMT
  <1>9. SlotsExact'
    <2>1. SUFFICES ASSUME NEW v \in UserObj, retags'[v] = 0
          PROVE  /\ connNum'[v] = Cardinality(Holders(v)')
                 /\ \A a \in IP : ipTable'[v][a] =
                       IF MaxIPNum'[v] > 0 THEN Cardinality(HoldersAt(v, a)') ELSE 0
                 /\ ipNum'[v] = Cardinality({a \in IP : ipTable'[v][a] > 0})
      BY DEF SlotsExact
    <2>2. CASE v = u
      BY <1>2, <1>3, <1>4, <1>6, <1>8, <2>2
    <2>3. CASE v # u
      <3>1. {a \in IP : ipTable'[v][a] > 0} = {a \in IP : ipTable[v][a] > 0}
        BY <1>5, <2>3
      <3>2. QED BY <1>3, <1>5, <2>1, <2>3, <3>1, SMTT(30) DEF SlotsExact, Counted
    <2>4. QED BY <2>2, <2>3
  <1>10. GaugeExact'
    BY <1>1, <1>3 DEF GaugeExact, Counted, AllHolders
  <1>11. QED BY <1>7, <1>9, <1>10 DEF Counted

\* setIPLimit keeps the counters right when it does not cross zero, and when
\* no connection is open.
LEMMA SetLimitCounted ==
    ASSUME Shape, Counted, NEW n \in IPLimits, SetUserIPLimit(n)
    PROVE  Counted'
  <1>0. user \in UserObj /\ n \in Int
    BY LimitsAssumption DEF SetUserIPLimit, Shape, TypeOK
  <1>1. HoldersKept /\ active' = active
    BY DEF SetUserIPLimit, connVars, serverVars, HoldersKept, Holding, Admitted
  <1>2. /\ AllHolders' = AllHolders
        /\ \A v \in UserObj : Holders(v)' = Holders(v)
        /\ \A v \in UserObj : \A a \in IP : HoldersAt(v, a)' = HoldersAt(v, a)
    BY <1>1, HoldersKeptSets
  <1>3. UNCHANGED <<ipTable, ipNum, connNum>> /\ MaxIPNum' = [MaxIPNum EXCEPT ![user] = n]
    BY DEF SetUserIPLimit, setIPLimit
  <1>4. SlotsCovered'
    BY <1>2, <1>3 DEF SlotsCovered, Counted
  <1>5. ASSUME NEW u \in UserObj, retags'[u] = 0
        PROVE  /\ connNum'[u] = Cardinality(Holders(u)')
               /\ \A a \in IP : ipTable'[u][a] =
                     IF MaxIPNum'[u] > 0 THEN Cardinality(HoldersAt(u, a)') ELSE 0
               /\ ipNum'[u] = Cardinality({a \in IP : ipTable'[u][a] > 0})
    <2>1. CASE Holders(u) = {} /\ retags[u] = 0
      <3>1. connNum[u] = 0 /\ \A a \in IP : HoldersAt(u, a) = {}
        BY <2>1, FS_EmptySet DEF Counted, SlotsExact, HoldersAt
      <3>2. \A a \in IP : ipTable[u][a] = 0 /\ Cardinality(HoldersAt(u, a)) = 0
        BY <2>1, <3>1, FS_EmptySet DEF Counted, SlotsExact
      <3>3. QED BY <1>2, <1>3, <2>1, <3>2 DEF Counted, SlotsExact
    <2>2. CASE retags[u] = 0 /\ (MaxIPNum'[u] > 0 <=> MaxIPNum[u] > 0)
      BY <1>2, <1>3, <2>2 DEF Counted, SlotsExact
    <2>3. CASE u = user
      <3>1. MaxIPNum'[u] = n /\ retags[u] \in Nat
        BY <1>0, <1>3, <2>3 DEF Shape, TypeOK, LimitsTypeOK
      <3>2. CASE CrossesZero(user, n) /\ Holders(user) # {}
        <4>1. retags'[u] = retags[u] + 1
          BY <1>0, <2>3, <3>2 DEF SetUserIPLimit, Shape, TypeOK
        <4>2. QED BY <1>5, <3>1, <4>1, SMT
      <3>3. CASE ~(CrossesZero(user, n) /\ Holders(user) # {})
        <4>1. retags' = retags
          BY <3>3 DEF SetUserIPLimit
        <4>2. QED BY <1>5, <2>1, <2>2, <2>3, <3>1, <3>3, <4>1 DEF CrossesZero
      <3>4. QED BY <3>2, <3>3
    <2>4. CASE u # user
      <3>1. MaxIPNum'[u] = MaxIPNum[u] /\ retags'[u] = retags[u]
        BY <1>0, <1>3, <2>4 DEF SetUserIPLimit, Shape, TypeOK, LimitsTypeOK
      <3>2. QED BY <1>5, <2>2, <3>1
    <2>5. QED BY <2>3, <2>4
  <1>6. SlotsExact'
    BY <1>5 DEF SlotsExact
  <1>7. GaugeExact'
    BY <1>1, <1>2 DEF GaugeExact, Counted, AllHolders
  <1>8. QED BY <1>4, <1>6, <1>7 DEF Counted

\* A connection that is admitted or released has a user and an address.
LEMMA SlotOwner ==
    ASSUME Shape, NEW c \in Conn, Admit(c) \/ CloseRelease(c)
    PROVE  owner[c] \in UserObj /\ ip[c] \in IP
  BY DEF Admit, CloseRelease, Shape, Attached, Admitted

\* One connection more: admission adds it to its user's holders and nowhere
\* else.
LEMMA AdmitHolders ==
    ASSUME Shape, NEW c \in Conn, Admit(c), NEW u \in UserObj, u = owner[c], NEW a \in IP, a = ip[c]
    PROVE  /\ c \notin AllHolders /\ AllHolders' = AllHolders \cup {c}
           /\ Holders(u)' = Holders(u) \cup {c}
           /\ HoldersAt(u, a)' = HoldersAt(u, a) \cup {c}
           /\ \A v \in UserObj : v # u =>
                 Holders(v)' = Holders(v) /\ \A b \in IP : HoldersAt(v, b)' = HoldersAt(v, b)
           /\ \A b \in IP : b # a => HoldersAt(u, b)' = HoldersAt(u, b)
  <1>1. /\ closing[c] = "open" /\ pc[c] = "addip"
        /\ owner' = owner /\ ip' = ip /\ closing' = closing /\ pc' = [pc EXCEPT ![c] = "watch"]
    BY DEF Admit, Shape, Attached, Admitted
  <1>2. ~Holding(c) /\ Holding(c)' /\ \A d \in Conn : d # c => (Holding(d)' <=> Holding(d))
    BY <1>1 DEF Holding, Admitted, Shape, TypeOK
  <1>3. AllHolders' = AllHolders \cup {c} /\ c \notin AllHolders
    BY <1>2 DEF AllHolders
  <1>4. \A v \in UserObj : Holders(v)' = IF v = u THEN Holders(v) \cup {c} ELSE Holders(v)
    BY <1>1, <1>2 DEF Holders
  <1>5. \A v \in UserObj, b \in IP : HoldersAt(v, b)' = {d \in Holders(v)' : ip[d] = b}
    BY <1>1 DEF HoldersAt
  <1>6. QED BY <1>3, <1>4, <1>5, SMT DEF HoldersAt

\* One connection less: the release removes it from its user's holders.
LEMMA ReleaseHolders ==
    ASSUME Shape, NEW c \in Conn, CloseRelease(c), NEW u \in UserObj, u = owner[c], NEW a \in IP, a = ip[c]
    PROVE  /\ c \in AllHolders /\ AllHolders' = AllHolders \ {c}
           /\ c \in Holders(u) /\ Holders(u)' = Holders(u) \ {c}
           /\ c \in HoldersAt(u, a) /\ HoldersAt(u, a)' = HoldersAt(u, a) \ {c}
           /\ \A v \in UserObj : v # u =>
                 Holders(v)' = Holders(v) /\ \A b \in IP : HoldersAt(v, b)' = HoldersAt(v, b)
           /\ \A b \in IP : b # a => HoldersAt(u, b)' = HoldersAt(u, b)
  <1>1. /\ closing[c] = "signalled" /\ closing' = [closing EXCEPT ![c] = "released"]
        /\ owner' = owner /\ ip' = ip /\ pc' = pc
    BY DEF CloseRelease
  <1>2. Admitted(c)
    BY <1>1 DEF Shape, Attached, Admitted
  <1>3. Holding(c) /\ ~Holding(c)' /\ \A d \in Conn : d # c => (Holding(d)' <=> Holding(d))
    BY <1>1, <1>2 DEF Holding, Admitted, Shape, TypeOK
  <1>4. AllHolders' = AllHolders \ {c} /\ c \in AllHolders
    BY <1>3 DEF AllHolders
  <1>5. \A v \in UserObj : Holders(v)' = IF v = u THEN Holders(v) \ {c} ELSE Holders(v)
    BY <1>1, <1>3 DEF Holders
  <1>6. \A v \in UserObj, b \in IP : HoldersAt(v, b)' = {d \in Holders(v)' : ip[d] = b}
    BY <1>1 DEF HoldersAt
  <1>7. c \in Holders(u) /\ c \in HoldersAt(u, a)
    BY <1>3 DEF Holders, HoldersAt
  <1>8. QED BY <1>4, <1>5, <1>6, <1>7, SMT DEF HoldersAt

\* Counting after one element is added or removed.
LEMMA CountMore ==
    ASSUME NEW S, IsFiniteSet(S), NEW x, x \notin S
    PROVE  Cardinality(S) \in Nat /\ Cardinality(S \cup {x}) = Cardinality(S) + 1
  BY FS_AddElement, FS_CardinalityType

\* Counting after one element is removed.
LEMMA CountLess ==
    ASSUME NEW S, IsFiniteSet(S), NEW x \in S
    PROVE  Cardinality(S) \in Nat /\ Cardinality(S) > 0 /\ Cardinality(S \ {x}) = Cardinality(S) - 1
  <1>1. Cardinality(S) \in Nat /\ IsFiniteSet(S \ {x}) /\ Cardinality(S \ {x}) = Cardinality(S) - 1
    BY FS_RemoveElement, FS_CardinalityType
  <1>2. Cardinality(S \ {x}) \in Nat
    BY <1>1, FS_CardinalityType
  <1>3. QED BY <1>1, <1>2, SMT

\* AddIP counts the connection it admits, under either kind of limit.
LEMMA AdmitCounted ==
    ASSUME Shape, Counted, NEW c \in Conn, Admit(c)
    PROVE  Counted'
  <1>a. PICK u \in UserObj : u = owner[c]
    BY SlotOwner
  <1>b. PICK a \in IP : a = ip[c]
    BY SlotOwner
  <1>1. /\ c \notin AllHolders /\ AllHolders' = AllHolders \cup {c}
        /\ Holders(u)' = Holders(u) \cup {c}
        /\ HoldersAt(u, a)' = HoldersAt(u, a) \cup {c}
        /\ \A v \in UserObj : v # u =>
              Holders(v)' = Holders(v) /\ \A b \in IP : HoldersAt(v, b)' = HoldersAt(v, b)
        /\ \A b \in IP : b # a => HoldersAt(u, b)' = HoldersAt(u, b)
    BY <1>a, <1>b, AdmitHolders, ZenonT(30)
  <1>2. /\ Cardinality(AllHolders') = Cardinality(AllHolders) + 1
        /\ Cardinality(Holders(u)') = Cardinality(Holders(u)) + 1
        /\ Cardinality(HoldersAt(u, a)') = Cardinality(HoldersAt(u, a)) + 1
        /\ Cardinality(Holders(u)) \in Nat
    <2>1. c \notin Holders(u) /\ c \notin HoldersAt(u, a)
      BY <1>1 DEF AllHolders, Holders, HoldersAt
    <2>2. IsFiniteSet(AllHolders) /\ IsFiniteSet(Holders(u)) /\ IsFiniteSet(HoldersAt(u, a))
      BY <1>1, FiniteHolders
    <2>3. QED BY <1>1, <2>1, <2>2, CountMore
  <1>3. /\ ~ConnCapReached(u) /\ connNum' = [connNum EXCEPT ![u] = @ + 1]
        /\ MaxIPNum' = MaxIPNum /\ retags' = retags /\ active' = active + 1
        /\ MaxIPNum[u] <= 0 => UNCHANGED <<ipTable, ipNum>>
        /\ ~(MaxIPNum[u] <= 0) =>
              /\ ipTable' = [ipTable EXCEPT ![u] = [ipTable[u] EXCEPT ![a] = ipTable[u][a] + 1]]
              /\ ipNum' = [ipNum EXCEPT ![u] = IF ipTable[u][a] = 0 THEN @ + 1 ELSE @]
    BY <1>a, <1>b DEF Admit, AddIP, AddIPRefuses, authVars
  <1>4. LimitsTypeOK /\ connNum[u] \in Nat /\ MaxIPNum[u] \in Int /\ connNum'[u] = connNum[u] + 1
    BY <1>1, <1>3 DEF Shape, TypeOK, LimitsTypeOK
  <1>5. SlotsCovered'
    <2>1. connNum[u] >= Cardinality(Holders(u))
      BY <1>1 DEF Counted, SlotsCovered
    <2>2. MaxConnNum > 0 => connNum[u] + 1 <= MaxConnNum
      BY <1>3, <1>4, MaxConnNumAssumption, SMT DEF ConnCapReached
    <2>3. \A v \in UserObj : v # u => connNum'[v] = connNum[v]
      BY <1>3, <1>4 DEF LimitsTypeOK
    <2>4. ASSUME NEW v \in UserObj
          PROVE  connNum'[v] >= Cardinality(Holders(v)') /\ (MaxConnNum > 0 => connNum'[v] <= MaxConnNum)
      <3>1. CASE v = u
        BY <1>2, <1>4, <2>1, <2>2, <3>1, SMT
      <3>2. CASE v # u
        BY <1>1, <2>3, <3>2 DEF Counted, SlotsCovered
      <3>3. QED BY <3>1, <3>2
    <2>5. QED BY <2>4 DEF SlotsCovered
  <1>6. SlotsExact'
    <2>1. SUFFICES ASSUME NEW v \in UserObj, retags[v] = 0
          PROVE  /\ connNum'[v] = Cardinality(Holders(v)')
                 /\ \A b \in IP : ipTable'[v][b] =
                       IF MaxIPNum[v] > 0 THEN Cardinality(HoldersAt(v, b)') ELSE 0
                 /\ ipNum'[v] = Cardinality({b \in IP : ipTable'[v][b] > 0})
      BY <1>3 DEF SlotsExact
    <2>2. /\ connNum[v] = Cardinality(Holders(v))
          /\ \A b \in IP : ipTable[v][b] = IF MaxIPNum[v] > 0 THEN Cardinality(HoldersAt(v, b)) ELSE 0
          /\ ipNum[v] = Cardinality({b \in IP : ipTable[v][b] > 0})
      BY <2>1 DEF Counted, SlotsExact
    <2>3. CASE v # u
      <3>1. connNum'[v] = connNum[v] /\ ipTable'[v] = ipTable[v] /\ ipNum'[v] = ipNum[v]
        BY <1>3, <1>4, <2>3 DEF LimitsTypeOK
      <3>2. QED BY <1>1, <2>2, <2>3, <3>1
    <2>4. CASE v = u /\ MaxIPNum[u] <= 0
      <3>1. ~(MaxIPNum[u] > 0)
        BY <1>4, <2>4, SMT
      <3>2. QED BY <1>2, <1>3, <1>4, <2>2, <2>4, <3>1
    <2>5. CASE v = u /\ ~(MaxIPNum[u] <= 0)
      <3>0. ipNum[u] = Cardinality(Occupied(u))
        BY <2>2, <2>5 DEF Occupied
      <3>1. MaxIPNum[u] > 0 /\ ipTable[u] \in [IP -> Nat] /\ ipTable[u][a] \in Nat
        BY <1>1, <1>4, <2>5, SMTT(30) DEF LimitsTypeOK
      <3>2. ipTable'[u][a] = ipTable[u][a] + 1 /\ \A b \in IP : b # a => ipTable'[u][b] = ipTable[u][b]
        BY <1>1, <1>3, <1>4, <2>5, <3>1, SMTT(30) DEF LimitsTypeOK
      <3>3. {b \in IP : ipTable'[u][b] > 0} = Occupied(u) \cup {a}
        BY <1>1, <3>1, <3>2, SMT DEF Occupied
      <3>4. ipNum'[u] = Cardinality(Occupied(u) \cup {a})
        <4>1. CASE ipTable[u][a] = 0
          <5>1. a \notin Occupied(u) /\ IsFiniteSet(Occupied(u))
            BY <1>1, <4>1, FiniteHolders, SMT DEF Occupied
          <5>2. ipNum'[u] = ipNum[u] + 1
            BY <1>1, <1>3, <1>4, <2>5, <4>1 DEF LimitsTypeOK
          <5>3. QED BY <3>0, <5>1, <5>2, CountMore
        <4>2. CASE ipTable[u][a] # 0
          <5>1. Occupied(u) \cup {a} = Occupied(u)
            BY <1>1, <3>1, <4>2, SMT DEF Occupied
          <5>2. ipNum'[u] = ipNum[u]
            BY <1>1, <1>3, <1>4, <2>5, <4>2 DEF LimitsTypeOK
          <5>3. QED BY <3>0, <5>1, <5>2
        <4>3. QED BY <4>1, <4>2
      <3>5. connNum'[u] = Cardinality(Holders(u)')
        BY <1>2, <1>4, <2>2, <2>5
      <3>6. \A b \in IP : ipTable'[u][b] = Cardinality(HoldersAt(u, b)')
        BY <1>1, <1>2, <2>2, <2>5, <3>1, <3>2
      <3>7. QED BY <2>5, <3>1, <3>3, <3>4, <3>5, <3>6
    <2>6. QED BY <2>3, <2>4, <2>5
  <1>7. GaugeExact'
    BY <1>2, <1>3 DEF Counted, GaugeExact, AllHolders
  <1>8. QED BY <1>5, <1>6, <1>7 DEF Counted

\* DelIP, called by the one Close that releases the connection, takes back
\* exactly what AddIP counted.
LEMMA ReleaseCounted ==
    ASSUME Shape, Counted, NEW c \in Conn, CloseRelease(c)
    PROVE  Counted'
  <1>a. PICK u \in UserObj : u = owner[c]
    BY SlotOwner
  <1>b. PICK a \in IP : a = ip[c]
    BY SlotOwner
  <1>1. /\ c \in AllHolders /\ AllHolders' = AllHolders \ {c}
        /\ c \in Holders(u) /\ Holders(u)' = Holders(u) \ {c}
        /\ c \in HoldersAt(u, a) /\ HoldersAt(u, a)' = HoldersAt(u, a) \ {c}
        /\ \A v \in UserObj : v # u =>
              Holders(v)' = Holders(v) /\ \A b \in IP : HoldersAt(v, b)' = HoldersAt(v, b)
        /\ \A b \in IP : b # a => HoldersAt(u, b)' = HoldersAt(u, b)
    BY <1>a, <1>b, ReleaseHolders, ZenonT(30)
  <1>2. /\ Cardinality(AllHolders') = Cardinality(AllHolders) - 1
        /\ Cardinality(Holders(u)') = Cardinality(Holders(u)) - 1
        /\ Cardinality(HoldersAt(u, a)') = Cardinality(HoldersAt(u, a)) - 1
        /\ Cardinality(Holders(u)) \in Nat /\ Cardinality(Holders(u)) > 0
        /\ Cardinality(HoldersAt(u, a)) \in Nat /\ Cardinality(HoldersAt(u, a)) > 0
    <2>1. IsFiniteSet(AllHolders) /\ IsFiniteSet(Holders(u)) /\ IsFiniteSet(HoldersAt(u, a))
      BY FiniteHolders
    <2>2. QED BY <1>1, <2>1, CountLess
  <1>3. DelIP(u, a) /\ retags' = retags /\ active' = active - 1 /\ MaxIPNum' = MaxIPNum
    BY <1>a, <1>b DEF CloseRelease, DelIP, authVars
  <1>4. /\ LimitsTypeOK /\ connNum[u] \in Nat /\ MaxIPNum[u] \in Int
        /\ ipTable[u] \in [IP -> Nat] /\ ipTable[u][a] \in Nat
    BY DEF Shape, TypeOK, LimitsTypeOK
  <1>5. SlotsCovered'
    <2>1. connNum[u] >= Cardinality(Holders(u)) /\ (MaxConnNum > 0 => connNum[u] <= MaxConnNum)
      BY DEF Counted, SlotsCovered
    <2>2. connNum' = connNum \/ connNum' = [connNum EXCEPT ![u] = connNum[u] - 1]
      BY <1>2, <1>3, <1>4, <2>1, SMT DEF DelIP, ReleaseConn
    <2>3. \A v \in UserObj : v # u => connNum'[v] = connNum[v]
      BY <1>4, <2>2 DEF LimitsTypeOK
    <2>4. connNum'[u] = connNum[u] \/ connNum'[u] = connNum[u] - 1
      BY <1>4, <2>2 DEF LimitsTypeOK
    <2>5. connNum'[u] >= Cardinality(Holders(u)') /\ (MaxConnNum > 0 => connNum'[u] <= MaxConnNum)
      BY <1>2, <1>4, <2>1, <2>4, MaxConnNumAssumption, SMTT(30)
    <2>6. \A v \in UserObj : v # u =>
              connNum'[v] >= Cardinality(Holders(v)') /\ (MaxConnNum > 0 => connNum'[v] <= MaxConnNum)
      BY <1>1, <2>3 DEF Counted, SlotsCovered
    <2>7. QED BY <2>5, <2>6 DEF SlotsCovered
  <1>6. SlotsExact'
    <2>1. SUFFICES ASSUME NEW v \in UserObj, retags[v] = 0
          PROVE  /\ connNum'[v] = Cardinality(Holders(v)')
                 /\ \A b \in IP : ipTable'[v][b] =
                       IF MaxIPNum[v] > 0 THEN Cardinality(HoldersAt(v, b)') ELSE 0
                 /\ ipNum'[v] = Cardinality({b \in IP : ipTable'[v][b] > 0})
      BY <1>3 DEF SlotsExact
    <2>2. /\ connNum[v] = Cardinality(Holders(v))
          /\ \A b \in IP : ipTable[v][b] = IF MaxIPNum[v] > 0 THEN Cardinality(HoldersAt(v, b)) ELSE 0
          /\ ipNum[v] = Cardinality({b \in IP : ipTable[v][b] > 0})
      BY <2>1 DEF Counted, SlotsExact
    <2>3. CASE v # u
      <3>1. connNum'[v] = connNum[v] /\ ipTable'[v] = ipTable[v] /\ ipNum'[v] = ipNum[v]
        BY <1>3, <1>4, <2>3 DEF DelIP, ReleaseConn, LimitsTypeOK
      <3>2. QED BY <1>1, <2>2, <2>3, <3>1
    <2>4. CASE v = u /\ ~(MaxIPNum[u] > 0)
      <3>1. ipTable' = ipTable /\ ipNum' = ipNum /\ connNum'[u] = connNum[u] - 1
        BY <1>2, <1>3, <1>4, <2>2, <2>4 DEF DelIP, ReleaseConn, LimitsTypeOK
      <3>2. QED BY <1>2, <2>2, <2>4, <3>1
    <2>5. CASE v = u /\ MaxIPNum[u] > 0
      <3>1. ipTable[u][a] > 0
        BY <1>2, <2>2, <2>5
      <3>2. /\ ipTable' = [ipTable EXCEPT ![u] = [ipTable[u] EXCEPT ![a] = ipTable[u][a] - 1]]
            /\ ipNum' = [ipNum EXCEPT ![u] = IF ipTable[u][a] = 1 THEN @ - 1 ELSE @]
            /\ connNum' = [connNum EXCEPT ![u] = IF @ > 0 THEN @ - 1 ELSE @]
        BY <1>3, <1>4, <2>5, <3>1, SMT DEF DelIP, ReleaseConn
      <3>3. ipTable'[u][a] = ipTable[u][a] - 1 /\ \A b \in IP : b # a => ipTable'[u][b] = ipTable[u][b]
        BY <1>4, <3>2 DEF LimitsTypeOK
      <3>4. ipNum[u] = Cardinality(Occupied(u)) /\ IsFiniteSet(Occupied(u)) /\ a \in Occupied(u)
        BY <2>2, <2>5, <3>1, FiniteHolders DEF Occupied
      <3>5. ipNum'[u] = Cardinality({b \in IP : ipTable'[u][b] > 0})
        <4>1. CASE ipTable[u][a] = 1
          <5>1. {b \in IP : ipTable'[u][b] > 0} = Occupied(u) \ {a}
            BY <1>4, <3>3, <4>1, SMT DEF Occupied
          <5>2. ipNum'[u] = ipNum[u] - 1
            BY <1>4, <3>2, <4>1 DEF LimitsTypeOK
          <5>3. QED BY <3>4, <5>1, <5>2, CountLess
        <4>2. CASE ipTable[u][a] # 1
          <5>1. {b \in IP : ipTable'[u][b] > 0} = Occupied(u)
            BY <1>4, <3>1, <3>3, <4>2, SMT DEF Occupied
          <5>2. ipNum'[u] = ipNum[u]
            BY <1>4, <3>2, <4>2 DEF LimitsTypeOK
          <5>3. QED BY <3>4, <5>1, <5>2
        <4>3. QED BY <4>1, <4>2
      <3>6. connNum'[u] = Cardinality(Holders(u)')
        BY <1>2, <1>4, <2>2, <2>5, <3>2 DEF LimitsTypeOK
      <3>7. \A b \in IP : ipTable'[u][b] = Cardinality(HoldersAt(u, b)')
        BY <1>1, <1>2, <2>2, <2>5, <3>3
      <3>8. QED BY <2>5, <3>5, <3>6, <3>7
    <2>6. QED BY <2>3, <2>4, <2>5
  <1>7. GaugeExact'
    BY <1>2, <1>3 DEF Counted, GaugeExact, AllHolders
  <1>8. QED BY <1>5, <1>6, <1>7 DEF Counted

\* Every step keeps the accounting.
LEMMA CountedStep == ASSUME Shape, Counted, [Next]_vars PROVE Counted'
  <1>1. CASE UNCHANGED vars
    <2>1. HoldersKept /\ UNCHANGED <<limits, retags, active>>
      BY <1>1 DEF vars, limits, authVars, connVars, serverVars, HoldersKept, Holding, Admitted
    <2>2. QED BY <2>1, QuietStep
  <1>2. CASE Operator
    <2>1. ASSUME NEW u \in UserObj, AddUser(u) PROVE Counted'
      BY <2>1, AddUserCounted
    <2>2. ASSUME NEW n \in IPLimits, SetUserIPLimit(n) PROVE Counted'
      BY <2>2, SetLimitCounted
    <2>3. CASE UNCHANGED <<limits, retags, connVars, serverVars>>
      <3>1. HoldersKept /\ UNCHANGED <<limits, retags, active>>
        BY <2>3 DEF limits, connVars, serverVars, HoldersKept, Holding, Admitted
      <3>2. QED BY <3>1, QuietStep
    <2>4. QED BY <1>2, <2>1, <2>2, <2>3 DEF Operator, DelUserClose, DelUserDelete, SetUserQuota
  <1>3. ASSUME NEW c \in Conn, Handshake(c) PROVE Counted'
    <2>1. CASE Admit(c)
      BY <2>1, AdmitCounted
    <2>2. CASE ~Admit(c)
      BY <1>3, <2>2, HandshakeQuiet, QuietStep
    <2>3. QED BY <2>1, <2>2
  <1>4. ASSUME NEW c \in Conn, Tunnel(c) PROVE Counted'
    <2>1. CASE CloseRelease(c)
      BY <2>1, ReleaseCounted
    <2>2. CASE ~CloseRelease(c)
      BY <1>4, <2>2, TunnelQuiet, QuietStep
    <2>3. QED BY <2>1, <2>2
  <1>5. CASE Service
    BY <1>5, ServiceQuiet, QuietStep
  <1>6. QED BY <1>1, <1>2, <1>3, <1>4, <1>5, NextSteps

\* Initially nothing is counted and nothing is open.
LEMMA CountedInit == Init => Counted
  <1> SUFFICES ASSUME Init PROVE Counted
    OBVIOUS
  <1>1. /\ AllHolders = {}
        /\ \A u \in UserObj : Holders(u) = {} /\ Occupied(u) = {} /\ \A a \in IP : HoldersAt(u, a) = {}
    BY SMT DEF Init, LimitsInit, AllHolders, Holders, HoldersAt, Occupied, Holding, Admitted
  <1>2. Cardinality({}) = 0
    BY FS_EmptySet
  <1>3. SlotsCovered
    <2>1. \A u \in UserObj : connNum[u] = 0 /\ Cardinality(Holders(u)) = 0
      BY <1>1, <1>2 DEF Init, LimitsInit
    <2>2. QED BY <2>1, MaxConnNumAssumption, SMT DEF SlotsCovered
  <1>4. SlotsExact
    <2>1. ASSUME NEW u \in UserObj
          PROVE  /\ connNum[u] = 0 /\ ipNum[u] = 0 /\ MaxIPNum[u] = 0
                 /\ \A a \in IP : ipTable[u][a] = 0
                 /\ {a \in IP : ipTable[u][a] > 0} = {}
      BY SMT DEF Init, LimitsInit
    <2>2. QED BY <1>1, <1>2, <2>1 DEF SlotsExact
  <1>5. GaugeExact
    BY <1>1, <1>2 DEF Init, GaugeExact, AllHolders
  <1>6. QED BY <1>3, <1>4, <1>5 DEF Counted

\* The inductive invariant holds in every reachable state.
THEOREM Accounting == Spec => [](Shape /\ Counted)
  <1>1. Init => Shape /\ Counted
    BY ShapeInit, CountedInit
  <1>2. Shape /\ Counted /\ [Next]_vars => (Shape /\ Counted)'
    BY ShapeStep, CountedStep
  <1>3. QED BY <1>1, <1>2, PTL DEF Spec

\* As long as the IP limit does not cross zero under open connections,
\* connNum, ipTable and ipNum count exactly the open tunnels, for any number
\* of connections, addresses and limits.
THEOREM SlotsCorrect == Spec => []SlotsExact
  <1>1. Shape /\ Counted => SlotsExact
    BY DEF Counted
  <1>2. QED BY Accounting, <1>1, PTL

\* max_conn_per_user is never exceeded, even when changes of the IP limit
\* make connNum drift: the drift is always upwards.
THEOREM ConnCapCorrect == Spec => []ConnCapRespected
  <1>1. Shape /\ Counted => ConnCapRespected
    <2>1. SUFFICES ASSUME Shape, Counted, MaxConnNum > 0, NEW u \in UserObj
          PROVE  Cardinality(Holders(u)) <= MaxConnNum
      BY DEF ConnCapRespected
    <2>2. connNum[u] >= Cardinality(Holders(u)) /\ connNum[u] <= MaxConnNum
      BY <2>1 DEF Counted, SlotsCovered
    <2>3. connNum[u] \in Nat /\ Cardinality(Holders(u)) \in Nat
      BY <2>1, FiniteHolders, FS_CardinalityType DEF Shape, TypeOK, LimitsTypeOK
    <2>4. QED BY <2>2, <2>3, MaxConnNumAssumption, SMT
  <1>2. QED BY Accounting, <1>1, PTL

\* The gauge of active connections counts the open tunnels, whichever of
\* dispatcher, relay and watcher closes them.
THEOREM GaugeCorrect == Spec => []GaugeExact
  <1>1. Shape /\ Counted => GaugeExact
    BY DEF Counted
  <1>2. QED BY Accounting, <1>1, PTL

-----------------------------------------------------------------------------
(***************************************************************************)
(* Admission.                                                              *)
(***************************************************************************)

\* With an IP limit in force, the table has an entry for exactly the
\* addresses of the open tunnels.
LEMMA OccupiedAddresses ==
    ASSUME Shape, Counted, NEW u \in UserObj, MaxIPNum[u] > 0, retags[u] = 0
    PROVE  AddressesOf(Holders(u)) = Occupied(u) /\ ipNum[u] = Cardinality(Occupied(u))
  <1>1. \A a \in IP : ipTable[u][a] = Cardinality(HoldersAt(u, a))
    BY DEF Counted, SlotsExact
  <1>2. ASSUME NEW c \in Holders(u) PROVE ip[c] \in IP /\ ip[c] \in Occupied(u)
    <2>1. ip[c] \in IP /\ c \in HoldersAt(u, ip[c])
      BY DEF Holders, HoldersAt, Holding, Admitted, Shape, Attached
    <2>2. Cardinality(HoldersAt(u, ip[c])) > 0
      BY <2>1, FiniteHolders, CountLess
    <2>3. QED BY <1>1, <2>1, <2>2 DEF Occupied
  <1>3. ASSUME NEW a \in Occupied(u) PROVE \E c \in Holders(u) : ip[c] = a
    <2>1. a \in IP /\ Cardinality(HoldersAt(u, a)) > 0
      BY <1>1 DEF Occupied
    <2>2. HoldersAt(u, a) # {}
      BY <2>1, FS_EmptySet, SMT
    <2>3. QED BY <2>2 DEF HoldersAt
  <1>4. QED BY <1>2, <1>3, SMT DEF AddressesOf, Counted, SlotsExact, Occupied

\* Only admission makes a connection a holder.
LEMMA OnlyAdmitAdds ==
    ASSUME Shape, Counted, [Next]_vars, NEW u \in UserObj, Holders(u)' \ Holders(u) # {}
    PROVE  \E c \in Conn : Admit(c) /\ owner[c] = u
  <1>1. HoldersKept => FALSE
    BY HoldersKeptSets
  <1>2. CASE UNCHANGED vars \/ Operator
    <2>1. UNCHANGED connVars
      BY <1>2 DEF vars, Operator, AddUser, DelUserClose, DelUserDelete, SetUserIPLimit, SetUserQuota
    <2>2. QED BY <1>1, <2>1 DEF connVars, HoldersKept, Holding, Admitted
  <1>3. CASE Service
    BY <1>1, <1>3, ServiceQuiet
  <1>4. ASSUME NEW c \in Conn, Handshake(c) PROVE Admit(c) /\ owner[c] = u
    <2>1. Admit(c)
      BY <1>1, <1>4, HandshakeQuiet
    <2>2. PICK v \in UserObj : v = owner[c]
      BY <2>1, SlotOwner
    <2>3. PICK a \in IP : a = ip[c]
      BY <2>1, SlotOwner
    <2>4. v # u => Holders(u)' = Holders(u)
      BY <2>1, <2>2, <2>3, AdmitHolders
    <2>5. QED BY <2>1, <2>2, <2>4
  <1>5. ASSUME NEW c \in Conn, Tunnel(c) PROVE FALSE
    <2>1. CloseRelease(c)
      BY <1>1, <1>5, TunnelQuiet
    <2>2. PICK v \in UserObj : v = owner[c]
      BY <2>1, SlotOwner
    <2>3. PICK a \in IP : a = ip[c]
      BY <2>1, SlotOwner
    <2>4. Holders(u)' \subseteq Holders(u)
      BY <2>1, <2>2, <2>3, ReleaseHolders
    <2>5. QED BY <2>4
  <1>6. QED BY <1>2, <1>3, <1>4, <1>5, NextSteps

AdmissionWithinCap ==
    \A u \in UserObj :
        (Holders(u)' \ Holders(u) # {} /\ MaxIPNum[u] > 0 /\ retags[u] = 0) =>
            \/ AddressesOf(Holders(u))' = AddressesOf(Holders(u))
            \/ Cardinality(AddressesOf(Holders(u))') <= MaxIPNum[u]

\* AddIP respects the IP limit: a tunnel from a new address is let in only
\* while the number of distinct addresses stays within it.
THEOREM IPCapCorrect == Spec => IPCapOnAdmission
  <1>1. ASSUME Shape, Counted, [Next]_vars PROVE AdmissionWithinCap
    <2>1. SUFFICES ASSUME NEW u \in UserObj, Holders(u)' \ Holders(u) # {}, MaxIPNum[u] > 0, retags[u] = 0
          PROVE  \/ AddressesOf(Holders(u))' = AddressesOf(Holders(u))
                 \/ Cardinality(AddressesOf(Holders(u))') <= MaxIPNum[u]
      BY DEF AdmissionWithinCap
    <2>2. PICK c \in Conn : Admit(c) /\ owner[c] = u
      BY <1>1, <2>1, OnlyAdmitAdds
    <2>3. PICK a \in IP : a = ip[c]
      BY <1>1, <2>2, SlotOwner
    <2>4. Holders(u)' = Holders(u) \cup {c} /\ ip' = ip
      BY <1>1, <2>2, <2>3, AdmitHolders DEF Admit
    <2>5. AddressesOf(Holders(u)) = Occupied(u) /\ ipNum[u] = Cardinality(Occupied(u))
      BY <1>1, <2>1, OccupiedAddresses
    <2>6. AddressesOf(Holders(u))' = Occupied(u) \cup {a}
      BY <2>3, <2>4, <2>5 DEF AddressesOf
    <2>7. ipTable[u][a] \in Nat /\ MaxIPNum[u] \in Int /\ ipNum[u] \in Int
      BY <1>1 DEF Shape, TypeOK, LimitsTypeOK
    <2>8. CASE ipTable[u][a] > 0
      BY <2>5, <2>6, <2>8 DEF Occupied
    <2>9. CASE ipTable[u][a] = 0
      <3>1. ipNum[u] + 1 <= MaxIPNum[u]
        BY <2>1, <2>2, <2>3, <2>7, <2>9, SMTT(30) DEF Admit, AddIP, AddIPRefuses, IPCapReached
      <3>2. a \notin Occupied(u) /\ IsFiniteSet(Occupied(u))
        BY <2>9, FiniteHolders, SMT DEF Occupied
      <3>3. QED BY <2>5, <2>6, <3>1, <3>2, CountMore
    <2>10. QED BY <2>7, <2>8, <2>9, SMT
  <1>2. Shape /\ Counted /\ [Next]_vars => [AdmissionWithinCap]_vars
    BY <1>1
  <1>3. QED BY Accounting, <1>2, PTL DEF Spec, IPCapOnAdmission, AdmissionWithinCap
=============================================================================
