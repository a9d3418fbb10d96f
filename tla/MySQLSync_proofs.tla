--------------------------- MODULE MySQLSync_proofs ---------------------------
(***************************************************************************)
(* Proofs about MySQLSync, for any set of users, batch size and bounds:    *)
(* types, the accounting of traffic, the refinement of TrafficLedger, and  *)
(* that a failed cycle removes nobody.                                     *)
(***************************************************************************)
EXTENDS MySQLSync, TLAPS

USE Zenon

\* Where the updater is decides what its loop variables hold.
Loops ==
    /\ upc = "collect" => \A h \in visit : mem[h] # Nil
    /\ upc \in {"rows", "limits", "quota"} =>
          /\ \A h \in visit : rows[h] # Nil
          /\ \A h \in Hash : rows[h] # Nil => h \in named \cup visit
    /\ upc \in {"limits", "quota"} => current \in Hash /\ rows[current] # Nil
    /\ upc = "prune" => \A h \in Hash : rows[h] # Nil => h \in named
    /\ apc # "idle" => arg \in Hash \X Int

Inv == TypeOK /\ Loops
-----------------------------------------------------------------------------
\* Records of the two tables keep their fields.
LEMMA Records ==
    /\ NewUser \in MemUser
    /\ \A u \in MemUser, q \in Int : [u EXCEPT !.quota = q] \in MemUser /\ [u EXCEPT !.limit = q] \in MemUser
    /\ \A u \in MemUser, n \in Nat : [u EXCEPT !.cnt = n] \in MemUser
    /\ \A r \in DbRow, q \in Int : [r EXCEPT !.quota = q] \in DbRow /\ [r EXCEPT !.limit = q] \in DbRow
    /\ \A r \in DbRow, n \in Nat : [r EXCEPT !.used = @ + n] \in DbRow
    /\ \A u \in MemUser : u.cnt \in Nat /\ u.quota \in Int /\ u.limit \in Int
  BY SMTT(30) DEF NewUser, MemUser, DbRow

\* A failure stays within its bound, and so does a change.
LEMMA BoundsTypes ==
    ASSUME TypeOK, Fail \/ Change \/ UNCHANGED bounds
    PROVE  faults' \in 0 .. MaxFaults /\ changes' \in 0 .. MaxChanges
  BY BoundsAssumption, SMTT(30) DEF TypeOK, Fail, Change, bounds

\* Removing a user keeps the types.
LEMMA RemoveTypes ==
    ASSUME TypeOK, NEW h \in Hash, Remove(h)
    PROVE  /\ mem' \in [Hash -> MemUser \cup {Nil}] /\ discarded' \in [Hash -> Nat]
           /\ mem'[h] = Nil /\ \A g \in Hash : g # h => mem'[g] = mem[g]
  <1>1. (IF mem[h] = Nil THEN 0 ELSE mem[h].cnt) \in Nat
    BY Records DEF TypeOK
  <1>2. QED BY <1>1, SMTT(30) DEF TypeOK, Remove

\* The steps of the updater up to the end of the flush.
LEMMA FlushInv ==
    ASSUME Inv, \/ PingDB \/ Collected \/ Flushed
                \/ \E h \in Hash : CollectUser(h)
                \/ \E b \in SUBSET Hash : FlushBatch(b)
    PROVE  Inv'
  <1> USE DEF Inv
  <1>1. CASE PingDB
    <2>1. faults' \in 0 .. MaxFaults /\ changes' \in 0 .. MaxChanges
      BY <1>1, BoundsTypes DEF PingDB
    <2>2. upc' \in {"collect", "wait"} /\ visit' \subseteq Hash /\ (upc' = "collect" => visit' = Present)
      BY <1>1 DEF PingDB, TypeOK, Present
    <2>3. UNCHANGED <<db, mem, pending, rows, named, current, api, history>>
      BY <1>1 DEF PingDB
    <2>4. TypeOK'
      BY <2>1, <2>2, <2>3 DEF TypeOK, api, history
    <2>5. Loops'
      BY <2>2, <2>3 DEF Loops, Present, api
    <2>6. QED BY <2>4, <2>5
  <1>2. CASE Collected
    BY <1>2 DEF Collected, TypeOK, Loops, api, bounds, history
  <1>3. CASE Flushed
    BY <1>3 DEF Flushed, TypeOK, Loops, api, bounds, history
  <1>4. ASSUME NEW h \in Hash, CollectUser(h) PROVE Inv'
    <2>1. mem[h] \in MemUser /\ mem[h].cnt \in Nat
      BY <1>4, Records DEF CollectUser, TypeOK, Loops
    <2>2. mem' = [mem EXCEPT ![h] = [mem[h] EXCEPT !.cnt = 0]]
      BY <1>4 DEF CollectUser
    <2>3. [mem[h] EXCEPT !.cnt = 0] \in MemUser
      BY <2>1, Records, ZenonT(30)
    <2>4. mem' \in [Hash -> MemUser \cup {Nil}] /\ pending' \in [Hash -> Nat]
      BY <1>4, <2>1, <2>2, <2>3, SMTT(30) DEF CollectUser, TypeOK
    <2>5. TypeOK'
      BY <1>4, <2>4 DEF CollectUser, TypeOK, api, bounds, history
    <2>6. Loops'
      BY <1>4, <2>2 DEF CollectUser, Loops, TypeOK, api
    <2>7. QED BY <2>5, <2>6
  <1>5. ASSUME NEW b \in SUBSET Hash, FlushBatch(b) PROVE Inv'
    <2>1. ASSUME Applied(b)
          PROVE  db' \in [Hash -> DbRow \cup {Nil}] /\ written' \in [Hash -> Nat]
      <3>1. ASSUME NEW h \in Hash, db[h] # Nil PROVE [db[h] EXCEPT !.used = @ + pending[h]] \in DbRow
        BY <3>1, Records DEF TypeOK
      <3>2. \A h \in Hash : (IF h \in b THEN pending[h] ELSE 0) \in Nat
        BY DEF TypeOK
      <3>3. QED BY <2>1, <3>1, <3>2, SMTT(30) DEF Applied, TypeOK
    <2>2. Forget(b) => pending' \in [Hash -> Nat]
      BY SMTT(30) DEF Forget, TypeOK
    <2>3. repeated' = [h \in Hash |-> repeated[h] + (IF h \in b THEN pending[h] ELSE 0)]
             => repeated' \in [Hash -> Nat]
      BY SMTT(30) DEF TypeOK
    <2>4. /\ db' \in [Hash -> DbRow \cup {Nil}] /\ written' \in [Hash -> Nat]
          /\ pending' \in [Hash -> Nat] /\ repeated' \in [Hash -> Nat]
      BY <1>5, <2>1, <2>2, <2>3 DEF FlushBatch, TypeOK
    <2>5. upc' \in {"flush", "wait"} /\ visit' \subseteq Hash /\ faults' \in 0 .. MaxFaults /\ changes' \in 0 .. MaxChanges
      BY <1>5, BoundsTypes DEF FlushBatch, TypeOK
    <2>6. UNCHANGED <<mem, rows, named, current, api, carried, discarded>>
      BY <1>5 DEF FlushBatch
    <2>7. TypeOK'
      BY <2>4, <2>5, <2>6 DEF TypeOK, api
    <2>8. Loops'
      BY <2>5, <2>6 DEF Loops, api
    <2>9. QED BY <2>7, <2>8
  <1>6. QED BY <1>1, <1>2, <1>3, <1>4, <1>5

\* The steps of refreshUsers and the wait.
LEMMA RefreshInv ==
    ASSUME Inv, \/ Query \/ ApplyLimits \/ ApplyQuota \/ RowsEnd \/ Pruned \/ NextUpdate
                \/ \E h \in Hash : ApplyRow(h) \/ PruneUser(h)
    PROVE  Inv'
  <1> USE DEF Inv
  <1>1. CASE Query
    <2>1. faults' \in 0 .. MaxFaults /\ changes' \in 0 .. MaxChanges
      BY <1>1, BoundsTypes DEF Query
    <2>2. \/ upc' = "rows" /\ rows' = db /\ visit' = {h \in Hash : db[h] # Nil}
          \/ upc' = "wait" /\ UNCHANGED <<rows, visit>>
      BY <1>1 DEF Query
    <2>3. UNCHANGED <<db, mem, pending, named, current, api, history>>
      BY <1>1 DEF Query
    <2>4. TypeOK'
      BY <2>1, <2>2, <2>3 DEF TypeOK, api, history
    <2>5. Loops'
      BY <2>2, <2>3 DEF Loops, api
    <2>6. QED BY <2>4, <2>5
  <1>2. CASE ApplyLimits
    <2>1. current \in Hash /\ rows[current] \in DbRow
      BY <1>2 DEF ApplyLimits, Loops, TypeOK
    <2>2. rows[current].limit \in Int
      BY <2>1 DEF DbRow
    <2>3. mem[current] # Nil => [mem[current] EXCEPT !.limit = rows[current].limit] \in MemUser
      BY <2>1, <2>2, Records, ZenonT(30) DEF TypeOK
    <2>4. mem' \in [Hash -> MemUser \cup {Nil}]
      BY <1>2, <2>1, <2>3 DEF ApplyLimits, TypeOK
    <2>5. TypeOK'
      BY <1>2, <2>4 DEF ApplyLimits, TypeOK, api, bounds, history
    <2>6. Loops'
      BY <1>2 DEF ApplyLimits, Loops, api
    <2>7. QED BY <2>5, <2>6
  <1>3. CASE ApplyQuota
    <2>1. current \in Hash /\ rows[current] \in DbRow
      BY <1>3 DEF ApplyQuota, Loops, TypeOK
    <2>2. rows[current].quota \in Int
      BY <2>1 DEF DbRow
    <2>3. mem[current] # Nil => [mem[current] EXCEPT !.quota = rows[current].quota] \in MemUser
      BY <2>1, <2>2, Records, ZenonT(30) DEF TypeOK
    <2>4. mem' \in [Hash -> MemUser \cup {Nil}]
      BY <1>3, <2>1, <2>3 DEF ApplyQuota, TypeOK
    <2>5. TypeOK'
      BY <1>3, <2>4 DEF ApplyQuota, TypeOK, api, bounds, history
    <2>6. Loops'
      BY <1>3 DEF ApplyQuota, Loops, api
    <2>7. QED BY <2>5, <2>6
  <1>4. CASE RowsEnd
    <2>1. faults' \in 0 .. MaxFaults /\ changes' \in 0 .. MaxChanges
      BY <1>4, BoundsTypes DEF RowsEnd
    <2>2. \/ upc' = "prune" /\ visit = {} /\ visit' = Present /\ UNCHANGED <<rows, named>>
          \/ upc' = "wait" /\ visit' = {} /\ rows' = None /\ named' = {}
      BY <1>4 DEF RowsEnd
    <2>3. UNCHANGED <<db, mem, pending, current, api, history>> /\ upc = "rows"
      BY <1>4 DEF RowsEnd
    <2>4. TypeOK'
      BY <2>1, <2>2, <2>3 DEF TypeOK, None, Present, api, history
    <2>5. Loops'
      BY <2>2, <2>3 DEF Loops, api
    <2>6. QED BY <2>4, <2>5
  <1>5. CASE Pruned
    BY <1>5 DEF Pruned, TypeOK, Loops, None, api, bounds, history
  <1>6. CASE NextUpdate
    BY <1>6 DEF NextUpdate, TypeOK, Loops, api, bounds, history
  <1>7. ASSUME NEW h \in Hash, ApplyRow(h) PROVE Inv'
    <2>1. rows[h] # Nil /\ h \in visit
      BY <1>7 DEF ApplyRow, Loops
    <2>2. mem' \in [Hash -> MemUser \cup {Nil}] /\ discarded' \in [Hash -> Nat]
      BY <1>7, Records, RemoveTypes, ZenonT(30) DEF ApplyRow, TypeOK
    <2>3. /\ visit' = visit \ {h} /\ named' = named \cup {h} /\ upc = "rows"
          /\ UNCHANGED <<db, pending, rows, api, bounds, carried, written, repeated>>
          /\ \/ upc' = "limits" /\ current' = h
             \/ upc' = "rows" /\ current' = current
      BY <1>7 DEF ApplyRow
    <2>4. TypeOK'
      BY <2>2, <2>3 DEF TypeOK, api, bounds
    <2>5. Loops'
      BY <2>1, <2>3 DEF Loops, api
    <2>6. QED BY <2>4, <2>5
  <1>8. ASSUME NEW h \in Hash, PruneUser(h) PROVE Inv'
    <2>1. mem' \in [Hash -> MemUser \cup {Nil}] /\ discarded' \in [Hash -> Nat]
      BY <1>8, RemoveTypes DEF PruneUser, TypeOK
    <2>2. visit' \subseteq Hash /\ upc = "prune"
          /\ UNCHANGED <<db, pending, upc, rows, named, current, api, bounds, carried, written, repeated>>
      BY <1>8 DEF PruneUser, TypeOK
    <2>3. TypeOK'
      BY <2>1, <2>2 DEF TypeOK, api, bounds
    <2>4. Loops'
      BY <2>2 DEF Loops, api
    <2>5. QED BY <2>3, <2>4
  <1>9. QED BY <1>1, <1>2, <1>3, <1>4, <1>5, <1>6, <1>7, <1>8

\* Tunnels, API calls and the administrator.
LEMMA EnvironmentInv ==
    ASSUME Inv, Environment
    PROVE  Inv'
  <1> USE DEF Inv
  <1>1. ASSUME NEW h \in Hash, AddTraffic(h) PROVE Inv'
    <2>1. mem[h] \in MemUser
      BY <1>1 DEF AddTraffic, TypeOK
    <2> DEFINE total == mem[h].cnt + 1
               cut == mem[h].quota > 0 /\ total >= mem[h].quota
               counted == [[mem[h] EXCEPT !.cnt = total] EXCEPT !.cut = cut]
    <2>2. counted \in MemUser
      <3>1. total \in Nat /\ cut \in BOOLEAN
        BY <2>1, SMTT(30) DEF MemUser
      <3>2. QED BY <2>1, <3>1, ZenonT(30) DEF MemUser
    <2>3. mem' = [mem EXCEPT ![h] = counted]
      BY <1>1, <2>1, ZenonT(30) DEF AddTraffic, TypeOK, MemUser
    <2>4. mem' \in [Hash -> MemUser \cup {Nil}] /\ carried' \in [Hash -> Nat]
      BY <1>1, <2>2, <2>3, SMTT(30) DEF AddTraffic, TypeOK
    <2>5. mem'[h] # Nil
      BY <2>2, <2>3, NilAssumption DEF TypeOK
    <2>6. TypeOK'
      BY <1>1, <2>4, SMTT(30) DEF AddTraffic, TypeOK, updater, api, bounds
    <2>7. Loops'
      BY <1>1, <2>3, <2>5, ZenonT(30) DEF AddTraffic, Loops, TypeOK, updater, api
    <2>8. QED BY <2>6, <2>7
  <1>2. ASSUME NEW h \in Hash, APIAddUser(h) PROVE Inv'
    <2>1. faults' \in 0 .. MaxFaults /\ changes' \in 0 .. MaxChanges
      BY <1>2, BoundsTypes DEF APIAddUser
    <2>2. mem' \in [Hash -> MemUser \cup {Nil}]
      BY <1>2, Records DEF APIAddUser, TypeOK
    <2>3. TypeOK'
      BY <1>2, <2>1, <2>2 DEF APIAddUser, TypeOK, updater, api, history
    <2>4. Loops'
      BY <1>2, Records DEF APIAddUser, Loops, TypeOK, updater, api
    <2>5. QED BY <2>3, <2>4
  <1>3. ASSUME NEW h \in Hash, APIDelUser(h) PROVE Inv'
    <2>1. faults' \in 0 .. MaxFaults /\ changes' \in 0 .. MaxChanges
      BY <1>3, BoundsTypes DEF APIDelUser
    <2>2. /\ mem' \in [Hash -> MemUser \cup {Nil}] /\ discarded' \in [Hash -> Nat]
          /\ \A g \in Hash : g # h => mem'[g] = mem[g]
      BY <1>3, RemoveTypes DEF APIDelUser
    <2>3. /\ UNCHANGED <<db, pending, upc, rows, named, current, api, carried, written, repeated>>
          /\ visit' = IF upc = "collect" THEN visit \ {h} ELSE visit
      BY <1>3 DEF APIDelUser
    <2>4. TypeOK'
      BY <2>1, <2>2, <2>3 DEF TypeOK, api
    <2>5. Loops'
      BY <2>2, <2>3 DEF Loops, TypeOK, api
    <2>6. QED BY <2>4, <2>5
  <1>4. ASSUME NEW h \in Hash, NEW c \in {"quota", "limit"}, NEW v \in Int, APISet(h, c, v) PROVE Inv'
    <2>1. faults' \in 0 .. MaxFaults /\ changes' \in 0 .. MaxChanges
      BY <1>4, BoundsTypes DEF APISet
    <2>2. mem[h] # Nil => [mem[h] EXCEPT ![c] = v] \in MemUser
      BY ZenonT(30) DEF TypeOK, MemUser
    <2>3. mem' \in [Hash -> MemUser \cup {Nil}]
      BY <1>4, <2>2 DEF APISet, TypeOK
    <2>4. \A g \in Hash : mem'[g] = Nil => mem[g] = Nil
      <3>1. ASSUME mem[h] # Nil PROVE [mem[h] EXCEPT ![c] = v] # Nil
        BY <3>1, <2>2, NilAssumption
      <3>2. QED BY <1>4, <3>1 DEF APISet, TypeOK
    <2>5. TypeOK'
      BY <1>4, <2>1, <2>3 DEF APISet, TypeOK, updater, history
    <2>6. Loops'
      BY <1>4, <2>4 DEF APISet, Loops, TypeOK, updater
    <2>7. QED BY <2>5, <2>6
  <1>5. CASE APIUpdate
    <2>1. faults' \in 0 .. MaxFaults /\ changes' \in 0 .. MaxChanges
      BY <1>5, BoundsTypes DEF APIUpdate
    <2>2. arg[1] \in Hash /\ arg[2] \in Int /\ apc \in {"quota", "limit"}
      BY <1>5 DEF APIUpdate, Loops, TypeOK
    <2>3. db[arg[1]] # Nil => [db[arg[1]] EXCEPT ![apc] = arg[2]] \in DbRow
      BY <2>2 DEF TypeOK, DbRow
    <2>4. db' \in [Hash -> DbRow \cup {Nil}]
      BY <1>5, <2>2, <2>3, ZenonT(30) DEF APIUpdate, TypeOK
    <2>5. TypeOK'
      BY <1>5, <2>1, <2>4 DEF APIUpdate, TypeOK, updater, history
    <2>6. Loops'
      BY <1>5 DEF APIUpdate, Loops, updater
    <2>7. QED BY <2>5, <2>6
  <1>6. ASSUME NEW h \in Hash, NEW q \in Quotas, NEW l \in Limits,
               AdminInsert(h, [quota |-> q, limit |-> l, used |-> 0])
        PROVE  Inv'
    <2>1. [quota |-> q, limit |-> l, used |-> 0] \in DbRow
      BY ValuesAssumption DEF DbRow
    <2>2. faults' \in 0 .. MaxFaults /\ changes' \in 0 .. MaxChanges
      BY <1>6, BoundsTypes DEF AdminInsert
    <2>3. db' \in [Hash -> DbRow \cup {Nil}]
      BY <1>6, <2>1 DEF AdminInsert, TypeOK
    <2>4. UNCHANGED <<mem, pending, updater, api, history>>
      BY <1>6 DEF AdminInsert
    <2>5. QED BY <2>2, <2>3, <2>4 DEF TypeOK, Loops, updater, api, history
  <1>7. ASSUME NEW h \in Hash, AdminDelete(h) PROVE Inv'
    <2>1. faults' \in 0 .. MaxFaults /\ changes' \in 0 .. MaxChanges
      BY <1>7, BoundsTypes DEF AdminDelete
    <2>2. db' \in [Hash -> DbRow \cup {Nil}]
      BY <1>7 DEF AdminDelete, TypeOK
    <2>3. QED BY <1>7, <2>1, <2>2 DEF AdminDelete, TypeOK, Loops, updater, api, history
  <1>8. QED BY <1>1, <1>2, <1>3, <1>4, <1>5, <1>6, <1>7, ValuesAssumption, ZenonT(30) DEF Environment

\* The type invariant and the loop invariant are inductive.
LEMMA InvStep == Inv /\ [Next]_vars => Inv'
  <1>1. SUFFICES ASSUME Inv, [Next]_vars PROVE Inv'
    OBVIOUS
  <1>2. CASE UNCHANGED vars
    BY <1>1, <1>2 DEF vars, updater, api, bounds, history, Inv, TypeOK, Loops
  <1>3. CASE Next
    BY <1>1, <1>3, FlushInv, RefreshInv, EnvironmentInv DEF Next, Updater
  <1>4. QED BY <1>1, <1>2, <1>3

\* The initial state satisfies them.
LEMMA InvInit == Init => Inv
  <1>1. SUFFICES ASSUME Init PROVE Inv
    OBVIOUS
  <1>2. db \in [Hash -> DbRow \cup {Nil}]
    <2>1. ASSUME NEW r \in [quota : Quotas, limit : Limits, used : {0}] PROVE r \in DbRow
      <3>0. r.quota \in Quotas /\ r.limit \in Limits /\ r.used = 0
        OBVIOUS
      <3>1. r.quota \in Int /\ r.limit \in Int
        BY <3>0, ValuesAssumption
      <3>2. r = [quota |-> r.quota, limit |-> r.limit, used |-> r.used]
        OBVIOUS
      <3>3. QED BY <3>0, <3>1, <3>2, SMTT(30) DEF DbRow
    <2>2. QED BY <1>1, <2>1 DEF Init
  <1>3. QED BY <1>1, <1>2, BoundsAssumption, SMTT(30) DEF Init, Inv, TypeOK, Loops, None, Zero

\* Every refresh works on complete data of the right types: the row it
\* applies exists, and the rows it has not named it has still to visit.
THEOREM LoopsCorrect == Spec => []Inv
  BY InvInit, InvStep, PTL DEF Spec

\* The type invariant, for every set of users.
THEOREM TypeCorrect == Spec => []TypeOK
  <1>1. Inv => TypeOK
    BY DEF Inv
  <1>2. QED BY <1>1, LoopsCorrect, PTL
-----------------------------------------------------------------------------
(***************************************************************************)
(* A failed cycle removes nobody.                                          *)
(***************************************************************************)

RemovedByTheTable ==
    \A h \in Hash :
        (mem[h] # Nil /\ mem'[h] = Nil /\ changes' = changes) => rows[h] = Nil \/ ~Eligible(rows[h])

\* The steps that keep every user.
LEMMA KeptUsers ==
    ASSUME Inv, \/ PingDB \/ Collected \/ Flushed \/ Query \/ ApplyLimits \/ ApplyQuota \/ RowsEnd
                \/ Pruned \/ NextUpdate \/ APIUpdate
                \/ \E h \in Hash : CollectUser(h) \/ AddTraffic(h) \/ APIAddUser(h) \/ AdminDelete(h)
                \/ \E b \in SUBSET Hash : FlushBatch(b)
                \/ \E h \in Hash, r \in DbRow : AdminInsert(h, r)
    PROVE  \A h \in Hash : mem[h] # Nil => mem'[h] # Nil
  <1> USE DEF Inv
  <1>1. CASE mem' = mem
    BY <1>1
  <1>2. ASSUME NEW h \in Hash, CollectUser(h) PROVE \A g \in Hash : mem[g] # Nil => mem'[g] # Nil
    <2>1. mem[h] \in MemUser
      BY <1>2 DEF CollectUser, TypeOK, Loops
    <2>2. [mem[h] EXCEPT !.cnt = 0] # Nil /\ mem' = [mem EXCEPT ![h] = [mem[h] EXCEPT !.cnt = 0]]
      BY <1>2, <2>1, Records, NilAssumption DEF CollectUser
    <2>3. QED BY <2>2 DEF TypeOK
  <1>3. ASSUME NEW h \in Hash, AddTraffic(h) PROVE \A g \in Hash : mem[g] # Nil => mem'[g] # Nil
    <2>1. mem[h] \in MemUser
      BY <1>3 DEF AddTraffic, TypeOK
    <2> DEFINE total == mem[h].cnt + 1
               cut == mem[h].quota > 0 /\ total >= mem[h].quota
               counted == [[mem[h] EXCEPT !.cnt = total] EXCEPT !.cut = cut]
    <2>2. counted \in MemUser
      <3>1. total \in Nat /\ cut \in BOOLEAN
        BY <2>1, SMTT(30) DEF MemUser
      <3>2. QED BY <2>1, <3>1, ZenonT(30) DEF MemUser
    <2>3. mem' = [mem EXCEPT ![h] = counted]
      BY <1>3, <2>1, ZenonT(30) DEF AddTraffic, TypeOK, MemUser
    <2>4. QED BY <2>2, <2>3, NilAssumption DEF TypeOK
  <1>4. ASSUME NEW h \in Hash, APIAddUser(h) PROVE \A g \in Hash : mem[g] # Nil => mem'[g] # Nil
    BY <1>4 DEF APIAddUser, TypeOK
  <1>5. CASE ApplyLimits
    <2>1. current \in Hash /\ rows[current] \in DbRow
      BY <1>5 DEF ApplyLimits, Loops, TypeOK
    <2>2. rows[current].limit \in Int
      BY <2>1 DEF DbRow
    <2>3. ASSUME mem[current] # Nil PROVE [mem[current] EXCEPT !.limit = rows[current].limit] # Nil
      <3>1. mem[current] \in MemUser
        BY <2>1, <2>3 DEF TypeOK
      <3>2. [mem[current] EXCEPT !.limit = rows[current].limit] \in MemUser
        BY <2>2, <3>1, Records, ZenonT(30)
      <3>3. QED BY <3>2, NilAssumption
    <2>4. QED BY <1>5, <2>1, <2>3 DEF ApplyLimits, TypeOK
  <1>6. CASE ApplyQuota
    <2>1. current \in Hash /\ rows[current] \in DbRow
      BY <1>6 DEF ApplyQuota, Loops, TypeOK
    <2>2. rows[current].quota \in Int
      BY <2>1 DEF DbRow
    <2>3. ASSUME mem[current] # Nil PROVE [mem[current] EXCEPT !.quota = rows[current].quota] # Nil
      <3>1. mem[current] \in MemUser
        BY <2>1, <2>3 DEF TypeOK
      <3>2. [mem[current] EXCEPT !.quota = rows[current].quota] \in MemUser
        BY <2>2, <3>1, Records, ZenonT(30)
      <3>3. QED BY <3>2, NilAssumption
    <2>4. QED BY <1>6, <2>1, <2>3 DEF ApplyQuota, TypeOK
  <1>7. QED BY <1>1, <1>2, <1>3, <1>4, <1>5, <1>6
        DEF PingDB, Collected, Flushed, Query, RowsEnd, Pruned, NextUpdate, APIUpdate, FlushBatch,
            AdminInsert, AdminDelete

\* Outages: a failed ping, flush, query or read removes nobody, because only a
\* refresh that read every row gets to prune.
THEOREM OutagesHarmless == Spec => OnlyTheTableRemoves
  <1>1. Inv /\ [Next]_vars => [RemovedByTheTable]_vars
    <2>1. SUFFICES ASSUME Inv, Next PROVE RemovedByTheTable
      BY DEF RemovedByTheTable
    <2>2. CASE \A h \in Hash : mem[h] # Nil => mem'[h] # Nil
      BY <2>2 DEF RemovedByTheTable
    <2>3. ASSUME NEW h \in Hash, ApplyRow(h) PROVE RemovedByTheTable
      <3>1. \A g \in Hash : mem[g] # Nil /\ mem'[g] = Nil => g = h /\ ~Eligible(rows[h])
        BY <2>1, <2>3, RemoveTypes DEF ApplyRow, Inv, TypeOK
      <3>2. QED BY <3>1 DEF RemovedByTheTable
    <2>4. ASSUME NEW h \in Hash, PruneUser(h) PROVE RemovedByTheTable
      <3>1. \A g \in Hash : mem[g] # Nil /\ mem'[g] = Nil => g = h /\ h \notin named
        BY <2>1, <2>4, RemoveTypes, SMTT(30) DEF PruneUser, Inv, TypeOK
      <3>2. h \notin named => rows[h] = Nil
        BY <2>1, <2>4 DEF PruneUser, Inv, Loops
      <3>3. QED BY <3>1, <3>2 DEF RemovedByTheTable
    <2>5. ASSUME Change PROVE RemovedByTheTable
      BY <2>1, <2>5, SMTT(30) DEF RemovedByTheTable, Change, Inv, TypeOK
    <2>6. CASE Updater
      BY <2>1, <2>2, <2>3, <2>4, <2>6, KeptUsers DEF Updater
    <2>7. CASE Environment
      BY <2>1, <2>2, <2>5, <2>7, KeptUsers DEF Environment, APIDelUser, APISet, AdminInsert
    <2>8. QED BY <2>1, <2>6, <2>7 DEF Next
  <1>2. QED BY <1>1, LoopsCorrect, PTL DEF Spec, OnlyTheTableRemoves, RemovedByTheTable

-----------------------------------------------------------------------------
(***************************************************************************)
(* Traffic is accounted for, and the buffer is the abstract ledger.        *)
(***************************************************************************)

\* What a user's counter holds is a number.
LEMMA CounterNat ==
    ASSUME TypeOK, NEW h \in Hash
    PROVE  Counter(h) \in Nat
  BY Records DEF TypeOK, Counter

\* A removed user takes its counter along.
LEMMA RemoveCounted ==
    ASSUME TypeOK, NEW h \in Hash, Remove(h)
    PROVE  /\ Counter(h)' = 0 /\ discarded'[h] = discarded[h] + Counter(h)
           /\ \A g \in Hash : g # h => Counter(g)' = Counter(g) /\ discarded'[g] = discarded[g]
  <1>1. discarded' = [discarded EXCEPT ![h] = discarded[h] + Counter(h)]
    BY DEF Remove, Counter, TypeOK
  <1>2. mem' = [mem EXCEPT ![h] = Nil]
    BY DEF Remove
  <1>3. QED BY <1>1, <1>2 DEF Counter, TypeOK

\* Settings do not touch the counters.
LEMMA SettingsKeepCounters ==
    ASSUME TypeOK, NEW h \in Hash, NEW c \in {"quota", "limit"}, NEW v \in Int,
           mem' = [mem EXCEPT ![h] = IF @ = Nil THEN @ ELSE [@ EXCEPT ![c] = v]]
    PROVE  \A g \in Hash : Counter(g)' = Counter(g)
  <1>1. ASSUME mem[h] # Nil PROVE Counter(h)' = Counter(h)
    <2>1. mem[h] \in MemUser
      BY <1>1 DEF TypeOK
    <2>2. [mem[h] EXCEPT ![c] = v] \in MemUser /\ [mem[h] EXCEPT ![c] = v].cnt = mem[h].cnt
      BY <2>1 DEF MemUser
    <2>3. mem'[h] = [mem[h] EXCEPT ![c] = v]
      BY <1>1 DEF TypeOK
    <2>4. QED BY <1>1, <2>2, <2>3, NilAssumption DEF Counter
  <1>2. ASSUME mem[h] = Nil PROVE Counter(h)' = Counter(h)
    BY <1>2 DEF Counter, TypeOK
  <1>3. ASSUME NEW g \in Hash, g # h PROVE Counter(g)' = Counter(g)
    BY <1>3 DEF Counter, TypeOK
  <1>4. QED BY <1>1, <1>2, <1>3

\* A new user has counted nothing.
LEMMA AddKeepsCounters ==
    ASSUME TypeOK, NEW h \in Hash, mem' = [mem EXCEPT ![h] = IF @ = Nil THEN NewUser ELSE @]
    PROVE  \A g \in Hash : Counter(g)' = Counter(g)
  BY NilAssumption, Records DEF Counter, TypeOK, NewUser

\* What a step of the program does to the traffic of every user: one of the
\* five steps of the ledger, or nothing.
Counts(h) ==
    /\ Counter(h)' = Counter(h) + 1 /\ carried'[h] = carried[h] + 1
    /\ \A g \in Hash : g # h => Counter(g)' = Counter(g) /\ carried'[g] = carried[g]
    /\ UNCHANGED <<pending, written, repeated, discarded>>

Moves(h) ==
    /\ Counter(h)' = 0
    /\ \A g \in Hash : g # h => Counter(g)' = Counter(g)
    /\ pending' = [pending EXCEPT ![h] = @ + Counter(h)]
    /\ UNCHANGED <<carried, written, repeated, discarded>>

Stores(b) ==
    /\ \A g \in Hash : Counter(g)' = Counter(g)
    /\ written' = [g \in Hash |-> written[g] + (IF g \in b THEN pending[g] ELSE 0)]
    /\ \/ pending' = [g \in Hash |-> IF g \in b THEN 0 ELSE pending[g]] /\ UNCHANGED repeated
       \/ /\ repeated' = [g \in Hash |-> repeated[g] + (IF g \in b THEN pending[g] ELSE 0)]
          /\ UNCHANGED pending
    /\ UNCHANGED <<carried, discarded>>

Drops(h) ==
    /\ Counter(h)' = 0 /\ discarded'[h] = discarded[h] + Counter(h)
    /\ \A g \in Hash : g # h => Counter(g)' = Counter(g) /\ discarded'[g] = discarded[g]
    /\ UNCHANGED <<pending, carried, written, repeated>>

Keeps ==
    /\ \A g \in Hash : Counter(g)' = Counter(g)
    /\ UNCHANGED <<pending, carried, written, repeated, discarded>>

\* Every step is one of those.
LEMMA StepKinds ==
    ASSUME Inv, [Next]_vars
    PROVE  \/ Keeps
           \/ \E h \in Hash : Counts(h) \/ Moves(h) \/ Drops(h)
           \/ \E b \in SUBSET Hash : Stores(b)
  <1> USE DEF Inv
  <1>1. UNCHANGED <<mem, pending, carried, written, repeated, discarded>> => Keeps
    BY DEF Keeps, Counter
  <1>2. ASSUME NEW h \in Hash, CollectUser(h) PROVE Moves(h)
    <2>1. mem[h] \in MemUser
      BY <1>2 DEF CollectUser, TypeOK, Loops
    <2>2. mem' = [mem EXCEPT ![h] = [mem[h] EXCEPT !.cnt = 0]]
      BY <1>2 DEF CollectUser
    <2>3. [mem[h] EXCEPT !.cnt = 0] \in MemUser /\ [mem[h] EXCEPT !.cnt = 0].cnt = 0
      BY <2>1, Records DEF MemUser
    <2>4. Counter(h)' = 0 /\ Counter(h) = mem[h].cnt /\ \A g \in Hash : g # h => Counter(g)' = Counter(g)
      BY <2>1, <2>2, <2>3, NilAssumption DEF Counter, TypeOK
    <2>5. QED BY <1>2, <2>4 DEF CollectUser, Moves, history, TypeOK
  <1>3. ASSUME NEW b \in SUBSET Hash, FlushBatch(b) PROVE Stores(b) \/ Keeps
    <2>1. \A g \in Hash : Counter(g)' = Counter(g)
      BY <1>3 DEF FlushBatch, Counter
    <2>2. QED BY <1>3, <2>1 DEF FlushBatch, Applied, Forget, Stores, Keeps
  <1>4. ASSUME NEW h \in Hash, ApplyRow(h) PROVE Drops(h) \/ Keeps
    BY <1>4, RemoveCounted, AddKeepsCounters DEF ApplyRow, Drops, Keeps
  <1>5. ASSUME NEW h \in Hash, PruneUser(h) PROVE Drops(h) \/ Keeps
    BY <1>1, <1>5, RemoveCounted DEF PruneUser, Drops
  <1>6. ASSUME NEW h \in Hash, APIDelUser(h) PROVE Drops(h)
    BY <1>6, RemoveCounted DEF APIDelUser, Drops
  <1>7. CASE ApplyLimits
    <2>1. current \in Hash /\ rows[current].limit \in Int
      BY <1>7 DEF ApplyLimits, Loops, TypeOK, DbRow
    <2>2. QED BY <1>7, <2>1, SettingsKeepCounters, ZenonT(30) DEF ApplyLimits, Keeps, history
  <1>8. CASE ApplyQuota
    <2>1. current \in Hash /\ rows[current].quota \in Int
      BY <1>8 DEF ApplyQuota, Loops, TypeOK, DbRow
    <2>2. QED BY <1>8, <2>1, SettingsKeepCounters, ZenonT(30) DEF ApplyQuota, Keeps, history
  <1>9. ASSUME NEW h \in Hash, NEW c \in {"quota", "limit"}, NEW v \in Int, APISet(h, c, v) PROVE Keeps
    BY <1>9, SettingsKeepCounters, ZenonT(30) DEF APISet, Keeps, history
  <1>10. ASSUME NEW h \in Hash, APIAddUser(h) PROVE Keeps
    <2>1. mem' = [mem EXCEPT ![h] = IF @ = Nil THEN NewUser ELSE @]
      BY <1>10 DEF APIAddUser
    <2>2. QED BY <1>10, <2>1, AddKeepsCounters, ZenonT(30) DEF APIAddUser, Keeps, history
  <1>11. ASSUME NEW h \in Hash, AddTraffic(h) PROVE Counts(h)
    <2>1. mem[h] \in MemUser
      BY <1>11 DEF AddTraffic, TypeOK
    <2> DEFINE total == mem[h].cnt + 1
               cut == mem[h].quota > 0 /\ total >= mem[h].quota
               counted == [[mem[h] EXCEPT !.cnt = total] EXCEPT !.cut = cut]
    <2>2. counted \in MemUser /\ counted.cnt = total
      <3>1. total \in Nat /\ cut \in BOOLEAN
        BY <2>1, SMTT(30) DEF MemUser
      <3>2. QED BY <2>1, <3>1, ZenonT(30) DEF MemUser
    <2>3. mem' = [mem EXCEPT ![h] = counted]
      BY <1>11, <2>1, ZenonT(30) DEF AddTraffic, TypeOK, MemUser
    <2>4. mem'[h] = counted /\ mem'[h] # Nil /\ mem[h] # Nil /\ \A g \in Hash : g # h => mem'[g] = mem[g]
      BY <2>1, <2>2, <2>3, NilAssumption DEF TypeOK
    <2>5. Counter(h)' = Counter(h) + 1 /\ \A g \in Hash : g # h => Counter(g)' = Counter(g)
      BY <2>2, <2>4 DEF Counter
    <2>6. QED BY <1>11, <2>5 DEF AddTraffic, Counts, TypeOK
  <1>12. CASE UNCHANGED vars
    BY <1>1, <1>12, SMTT(30) DEF vars, history
  <1>13. CASE Updater
    BY <1>1, <1>2, <1>3, <1>4, <1>5, <1>7, <1>8, <1>13
       DEF Updater, PingDB, Collected, Flushed, Query, RowsEnd, Pruned, NextUpdate, history
  <1>14. CASE Environment
    BY <1>1, <1>6, <1>9, <1>10, <1>11, <1>14, ValuesAssumption
       DEF Environment, APIUpdate, AdminInsert, AdminDelete, history
  <1>15. QED BY <1>12, <1>13, <1>14 DEF Next

\* Each of them keeps the books balanced.
LEMMA AccountedStep == Inv /\ Inv' /\ Accounted /\ [Next]_vars => Accounted'
  <1>1. SUFFICES ASSUME Inv, Inv', Accounted, [Next]_vars, NEW g \in Hash
                 PROVE  (carried[g] + repeated[g] = written[g] + pending[g] + Counter(g) + discarded[g])'
    BY DEF Accounted
  <1> DEFINE Books == /\ carried[g] \in Nat /\ repeated[g] \in Nat /\ written[g] \in Nat
                      /\ pending[g] \in Nat /\ Counter(g) \in Nat /\ discarded[g] \in Nat
  <1>2. Books /\ Books'
    <2>1. TypeOK /\ TypeOK'
      BY <1>1 DEF Inv
    <2>2. Counter(g) \in Nat
      BY <2>1, CounterNat
    <2>3. Counter(g)' \in Nat
      <3>1. mem' \in [Hash -> MemUser \cup {Nil}]
        BY <2>1 DEF TypeOK
      <3>2. QED BY <3>1 DEF Counter, MemUser
    <2>4. QED BY <2>1, <2>2, <2>3 DEF TypeOK
  <1>3. carried[g] + repeated[g] = written[g] + pending[g] + Counter(g) + discarded[g]
    BY <1>1 DEF Accounted
  <1>4. CASE Keeps
    BY <1>3, <1>4 DEF Keeps
  <1>5. ASSUME NEW h \in Hash, Counts(h) PROVE (carried[g] + repeated[g] = written[g] + pending[g] + Counter(g) + discarded[g])'
    BY <1>2, <1>3, <1>5, SMTT(30) DEF Counts
  <1>6. ASSUME NEW h \in Hash, Moves(h) PROVE (carried[g] + repeated[g] = written[g] + pending[g] + Counter(g) + discarded[g])'
    <2>1. pending'[g] = IF g = h THEN pending[g] + Counter(g) ELSE pending[g]
      BY <1>1, <1>6 DEF Moves, Inv, TypeOK
    <2>2. QED BY <1>2, <1>3, <1>6, <2>1, SMTT(30) DEF Moves
  <1>7. ASSUME NEW h \in Hash, Drops(h) PROVE (carried[g] + repeated[g] = written[g] + pending[g] + Counter(g) + discarded[g])'
    BY <1>2, <1>3, <1>7, SMTT(30) DEF Drops
  <1>8. ASSUME NEW b \in SUBSET Hash, Stores(b)
        PROVE  (carried[g] + repeated[g] = written[g] + pending[g] + Counter(g) + discarded[g])'
    <2>1. written'[g] = written[g] + (IF g \in b THEN pending[g] ELSE 0)
      BY <1>8 DEF Stores
    <2>2. \/ pending'[g] = (IF g \in b THEN 0 ELSE pending[g]) /\ repeated'[g] = repeated[g]
          \/ /\ repeated'[g] = repeated[g] + (IF g \in b THEN pending[g] ELSE 0)
             /\ pending'[g] = pending[g]
      BY <1>8 DEF Stores
    <2>3. Counter(g)' = Counter(g) /\ carried'[g] = carried[g] /\ discarded'[g] = discarded[g]
      BY <1>8 DEF Stores
    <2>4. QED BY <1>2, <1>3, <2>1, <2>2, <2>3, SMTT(30)
  <1>9. QED BY <1>1, <1>4, <1>5, <1>6, <1>7, <1>8, StepKinds, SMTT(30)

\* No byte is lost on the way to the database, however statements fail and
\* users come and go: AddSentTraffic, ResetTraffic, the buffer and the
\* batches balance for every user.
THEOREM TrafficAccounted == Spec => []Accounted
  <1>1. Init => Accounted
    BY SMTT(30) DEF Init, Accounted, Counter, None, Zero
  <1>2. QED BY <1>1, AccountedStep, LoopsCorrect, PTL DEF Spec

\* A step of the authenticator is a step of the ledger.
LEMMA LedgerStep == Inv /\ [Next]_vars => [Ledger!Next]_<<[h \in Hash |-> Counter(h)], pending, written>>
  <1>1. SUFFICES ASSUME Inv, [Next]_vars
                 PROVE  [Ledger!Next]_<<[h \in Hash |-> Counter(h)], pending, written>>
    OBVIOUS
  <1> DEFINE counter == [h \in Hash |-> Counter(h)]
  <1>2. counter' = [h \in Hash |-> Counter(h)']
    OBVIOUS
  <1>3. CASE Keeps
    <2>1. counter' = counter
      BY <1>2, <1>3 DEF Keeps
    <2>2. QED BY <1>3, <2>1 DEF Keeps
  <1>4. ASSUME NEW h \in Hash, Counts(h) PROVE Ledger!Count(h)
    BY <1>2, <1>4, ZenonT(30) DEF Counts, Ledger!Count
  <1>5. ASSUME NEW h \in Hash, Moves(h) PROVE Ledger!Move(h)
    BY <1>2, <1>5, ZenonT(30) DEF Moves, Ledger!Move
  <1>6. ASSUME NEW h \in Hash, Drops(h) PROVE Ledger!Drop(h)
    BY <1>2, <1>6, ZenonT(30) DEF Drops, Ledger!Drop
  <1>7. ASSUME NEW b \in SUBSET Hash, Stores(b) PROVE Ledger!Store(b) \/ Ledger!StoreUnnoticed(b)
    <2>1. counter' = counter
      BY <1>2, <1>7 DEF Stores
    <2>2. QED BY <1>7, <2>1 DEF Stores, Ledger!Store, Ledger!StoreUnnoticed
  <1>8. QED BY <1>1, <1>3, <1>4, <1>5, <1>6, <1>7, StepKinds DEF Ledger!Next

\* The authenticator implements the ledger: buffered traffic reaches the
\* database at least once and is never dropped from the buffer.
THEOREM ImplementsLedger == Spec => LedgerSpec
  <1>1. Init => Ledger!Init
    BY DEF Init, Ledger!Init, Counter, None, Zero
  <1>2. QED BY <1>1, LedgerStep, LoopsCorrect, PTL DEF Spec, LedgerSpec, Ledger!Spec

=============================================================================
