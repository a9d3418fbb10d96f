-------------------------- MODULE MemoryAuth_proofs --------------------------
(***************************************************************************)
(* Proofs about MemoryAuth for any number of API streams, users, objects   *)
(* and failures.                                                           *)
(***************************************************************************)
EXTENDS MemoryAuth, TLAPS

\* Zenon proves the leaves that name no prover.
USE Zenon

\* Past its first step, a call knows which hash it works on.
CallsKnowTheirHash ==
    \A p \in Caller :
        /\ pc[p] # "idle" => arg[p] \in Hash
        /\ pc[p] \in {"set", "save", "write", "close", "cancel", "unmap"} =>
               target[p] \in Obj /\ hash[target[p]] = arg[p]
        /\ pc[p] = "set" => field[p] \in Column \X Int
        /\ pc[p] = "write" => snap[p] \in [Column -> Int]

\* The map, the objects and their updaters agree on hashes.
HashesAgree ==
    /\ \A h \in Hash : users[h] # Nil => hash[users[h]] = h
    /\ \A o \in Obj : hash[o] = Nil => ~closed[o] /\ upc[o] = "off"

Inv == TypeOK /\ CallsKnowTheirHash /\ HashesAgree /\ ClosedNeverServed
-----------------------------------------------------------------------------
(***************************************************************************)
(* Helpers.                                                                *)
(***************************************************************************)

\* Writing one column of a function of rows keeps its type.
LEMMA ColumnTypes ==
    ASSUME NEW S, NEW f \in [S -> [Column -> Int]], NEW x \in S, NEW c \in Column, NEW v \in Int
    PROVE  [f EXCEPT ![x][c] = v] \in [S -> [Column -> Int]]
  <1>1. [f[x] EXCEPT ![c] = v] \in [Column -> Int]
    OBVIOUS
  <1>2. QED BY <1>1

\* A call that returns clears its locals.
LEMMA IdleTypes ==
    ASSUME TypeOK, NEW p \in Caller, Idle(p)
    PROVE  /\ pc' \in [Caller -> {"idle", "store", "set", "save", "write", "load", "close", "cancel", "unmap", "delete"}]
           /\ arg' \in [Caller -> Hash \cup {Nil}]
           /\ target' \in [Caller -> Obj \cup {Nil}]
           /\ snap' \in [Caller -> Row]
           /\ field' \in [Caller -> (Column \X Int) \cup {Nil}]
           /\ pc'[p] = "idle"
           /\ \A q \in Caller : q # p => /\ pc'[q] = pc[q] /\ arg'[q] = arg[q] /\ target'[q] = target[q]
                                         /\ snap'[q] = snap[q] /\ field'[q] = field[q]
  <1>1. pc' = [pc EXCEPT ![p] = "idle"] /\ arg' = [arg EXCEPT ![p] = Nil] /\ target' = [target EXCEPT ![p] = Nil]
        /\ snap' = [snap EXCEPT ![p] = NoRow] /\ field' = [field EXCEPT ![p] = Nil]
    BY DEF Idle
  <1>2. NoRow \in Row
    BY DEF Row
  <1>3. QED BY <1>1, <1>2 DEF TypeOK

\* One more failure is within the bound.
LEMMA FaultTypes ==
    ASSUME faults \in 0 .. MaxFaults, faults < MaxFaults
    PROVE  faults + 1 \in 0 .. MaxFaults
  BY BoundsAssumption, SMT
-----------------------------------------------------------------------------
(***************************************************************************)
(* AddUser and SetUser.                                                    *)
(***************************************************************************)

\* The first steps of the calls, which only note their hash.
LEMMA BeginInv ==
    ASSUME Inv, NEW p \in Caller, NEW h \in Hash,
           NEW next \in {"store", "load", "set"}, Begin(p, h, next),
           UNCHANGED <<mem, row, updater, snap, faults>>,
           boot' \subseteq Passwords, ack' \in [Hash -> {"in", "out", "unknown"}],
           \/ next # "set" /\ UNCHANGED <<target, field>>
           \/ /\ next = "set" /\ users[h] # Nil
              /\ target' = [target EXCEPT ![p] = users[h]]
              /\ \E c \in Column, v \in Int : field' = [field EXCEPT ![p] = <<c, v>>]
    PROVE  Inv'
  <1>1. /\ pc' = [pc EXCEPT ![p] = next] /\ arg' = [arg EXCEPT ![p] = h]
        /\ overlapped' \subseteq Hash /\ pc[p] = "idle"
    BY DEF Begin, Inv, TypeOK
  <1>2. /\ target' \in [Caller -> Obj \cup {Nil}]
        /\ field' \in [Caller -> (Column \X Int) \cup {Nil}]
        /\ \A q \in Caller : q # p => target'[q] = target[q] /\ field'[q] = field[q]
        /\ next = "set" => target'[p] = users[h] /\ users[h] \in Obj /\ field'[p] \in Column \X Int
    <2>1. CASE next # "set" /\ UNCHANGED <<target, field>>
      BY <2>1 DEF Inv, TypeOK
    <2>2. ASSUME next = "set", users[h] # Nil, target' = [target EXCEPT ![p] = users[h]],
                 NEW c \in Column, NEW v \in Int, field' = [field EXCEPT ![p] = <<c, v>>]
          PROVE  /\ target' \in [Caller -> Obj \cup {Nil}]
                 /\ field' \in [Caller -> (Column \X Int) \cup {Nil}]
                 /\ \A q \in Caller : q # p => target'[q] = target[q] /\ field'[q] = field[q]
                 /\ next = "set" => target'[p] = users[h] /\ users[h] \in Obj /\ field'[p] \in Column \X Int
      <3>1. <<c, v>> \in Column \X Int
        OBVIOUS
      <3>2. users[h] \in Obj
        BY <2>2, SMT DEF Inv, TypeOK
      <3>3. target' \in [Caller -> Obj \cup {Nil}] /\ target'[p] = users[h]
            /\ \A q \in Caller : q # p => target'[q] = target[q]
        BY <2>2, <3>2 DEF Inv, TypeOK
      <3>4. field' \in [Caller -> (Column \X Int) \cup {Nil}] /\ field'[p] = <<c, v>>
            /\ \A q \in Caller : q # p => field'[q] = field[q]
        BY <2>2, <3>1 DEF Inv, TypeOK
      <3>5. QED BY <3>1, <3>2, <3>3, <3>4
    <2>3. QED BY <2>1, <2>2
  <1>3. TypeOK'
    BY <1>1, <1>2 DEF Inv, TypeOK, mem, updater
  <1>4. CallsKnowTheirHash'
    BY <1>1, <1>2, SMT DEF Inv, TypeOK, CallsKnowTheirHash, HashesAgree, mem
  <1>5. HashesAgree' /\ ClosedNeverServed'
    BY <1>1 DEF Inv, TypeOK, HashesAgree, ClosedNeverServed, mem, updater
  <1>6. QED BY <1>3, <1>4, <1>5 DEF Inv

\* AddUser, DelUser, SetUser and the sweep start.
LEMMA StartInv ==
    ASSUME Inv, NEW h \in Hash,
           \/ \E p \in Caller : AddUser(p, h) \/ DelUser(p, h)
           \/ \E p \in Caller, c \in Fields, v \in Values : SetUser(p, h, c, v)
           \/ Sweep(h)
    PROVE  Inv'
  <1>1. ASSUME NEW p \in Caller, AddUser(p, h) PROVE Inv'
    <2>1. boot' \subseteq Passwords
      BY <1>1 DEF AddUser, Inv, TypeOK
    <2>2. CASE users[h] = Nil
      <3>1. /\ Begin(p, h, "store") /\ ack' = [ack EXCEPT ![h] = "unknown"]
            /\ UNCHANGED <<target, snap, field, mem, row, updater, faults>>
        BY <1>1, <2>2 DEF AddUser
      <3>2. ack' \in [Hash -> {"in", "out", "unknown"}]
        BY <3>1 DEF Inv, TypeOK
      <3>3. QED BY <2>1, <3>1, <3>2, BeginInv
    <2>3. CASE users[h] # Nil
      <3>1. UNCHANGED <<pc, call, ack, overlapped, mem, row, updater, faults>>
        BY <1>1, <2>3 DEF AddUser
      <3>2. QED BY <2>1, <3>1 DEF Inv, TypeOK, CallsKnowTheirHash, HashesAgree, ClosedNeverServed, mem, updater, call
    <2>4. QED BY <2>2, <2>3
  <1>2. ASSUME NEW p \in Caller, DelUser(p, h) PROVE Inv'
    <2>1. ack' \in [Hash -> {"in", "out", "unknown"}] /\ boot' \subseteq Passwords
      BY <1>2 DEF DelUser, Inv, TypeOK
    <2>2. QED BY <1>2, <2>1, BeginInv DEF DelUser
  <1>3. ASSUME Sweep(h) PROVE Inv'
    <2>1. ack' \in [Hash -> {"in", "out", "unknown"}] /\ boot' \subseteq Passwords /\ Sweeper \in Caller
      BY <1>3 DEF Sweep, Inv, TypeOK, Caller
    <2>2. QED BY <1>3, <2>1, BeginInv DEF Sweep
  <1>4. ASSUME NEW p \in Caller, NEW c \in Fields, NEW v \in Values, SetUser(p, h, c, v) PROVE Inv'
    <2>1. ack' \in [Hash -> {"in", "out", "unknown"}] /\ boot' \subseteq Passwords
      BY <1>4 DEF SetUser, Inv, TypeOK
    <2>2. c \in Column /\ v \in Int
      BY FieldsAssumption, ValuesAssumption DEF Column
    <2>3. QED BY <1>4, <2>1, <2>2, BeginInv DEF SetUser
  <1>5. QED BY <1>1, <1>2, <1>3, <1>4

\* The new User enters the map under a hash of its own: an object that was
\* free is nobody's target and is open.
LEMMA StoreUserInv ==
    ASSUME Inv, NEW p \in Caller, NEW o \in Obj, StoreUser(p, o)
    PROVE  Inv'
  <1>1. arg[p] \in Hash /\ ~closed[o] /\ hash[o] = Nil /\ pc[p] = "store"
    BY DEF StoreUser, Inv, CallsKnowTheirHash, HashesAgree
  <1>2. [c \in Column |-> IF c = "quota" THEN -1 ELSE 0] \in [Column -> Int]
    BY SMT
  <1>3. val' \in [Obj -> [Column -> Int]]
    BY <1>2 DEF StoreUser, Inv, TypeOK
  <1>4. TypeOK'
    BY <1>1, <1>3 DEF StoreUser, Inv, TypeOK
  <1>5. \A h \in Hash : users[h] # o
    BY <1>1, NilAssumption, SMTT(30) DEF Inv, HashesAgree, TypeOK
  <1>6. \A q \in Caller :
            pc[q] \in {"set", "save", "write", "close", "cancel", "unmap"} => target[q] # o
    BY <1>1, NilAssumption DEF Inv, CallsKnowTheirHash
  <1>7. CallsKnowTheirHash'
    BY <1>1, <1>6 DEF StoreUser, Inv, TypeOK, CallsKnowTheirHash
  <1>8. HashesAgree'
    BY <1>1, <1>5, NilAssumption, ZenonT(30) DEF StoreUser, Inv, TypeOK, HashesAgree
  <1>9. ClosedNeverServed'
    <2>1. SUFFICES ASSUME NEW h \in Hash, users'[h] # Nil, closed'[users'[h]]
                   PROVE  \E q \in Caller : pc'[q] = "unmap" /\ arg'[q] = h
      BY DEF ClosedNeverServed
    <2>2. h # arg[p] /\ users'[h] = users[h] /\ closed' = closed
      BY <1>1, <2>1 DEF StoreUser, Inv, TypeOK
    <2>3. PICK q \in Caller : pc[q] = "unmap" /\ arg[q] = h
      BY <2>1, <2>2 DEF Inv, ClosedNeverServed
    <2>4. QED BY <1>1, <2>3 DEF StoreUser, Inv, TypeOK
  <1>10. QED BY <1>4, <1>7, <1>8, <1>9 DEF Inv

\* Setting a field and reading the fields for the row touch no hash.
LEMMA FieldInv ==
    ASSUME Inv, NEW p \in Caller, SetField(p) \/ ReadFields(p) \/ CloseResets(p)
    PROVE  Inv'
  <1>1. target[p] \in Obj /\ pc[p] \in {"set", "save", "close"}
    BY DEF SetField, ReadFields, CloseResets, Inv, CallsKnowTheirHash
  <1>2. val' \in [Obj -> [Column -> Int]]
    <2>1. CASE SetField(p)
      <3>1. field[p][1] \in Column /\ field[p][2] \in Int
        BY <2>1 DEF SetField, Inv, CallsKnowTheirHash
      <3>2. val' = [val EXCEPT ![target[p]][field[p][1]] = field[p][2]]
        BY <2>1 DEF SetField
      <3>3. QED BY <1>1, <3>1, <3>2, ColumnTypes, SMT DEF Inv, TypeOK
    <2>2. CASE ReadFields(p)
      BY <2>2 DEF ReadFields, Inv, TypeOK, mem
    <2>3. CASE CloseResets(p)
      <3>1. val' = [val EXCEPT ![target[p]]["traffic"] = 0] /\ "traffic" \in Column
        BY <2>3 DEF CloseResets, Column
      <3>2. QED BY <1>1, <3>1, ColumnTypes, SMT DEF Inv, TypeOK
    <2>4. QED BY <2>1, <2>2, <2>3
  <1>3. /\ snap' \in [Caller -> Row]
        /\ \A q \in Caller : q # p => snap'[q] = snap[q]
        /\ pc'[p] = "write" => snap'[p] \in [Column -> Int]
    <2>1. val[target[p]] \in [Column -> Int]
      BY <1>1 DEF Inv, TypeOK
    <2>2. CASE ReadFields(p)
      BY <2>1, <2>2 DEF ReadFields, Inv, TypeOK, Row
    <2>3. CASE SetField(p) \/ CloseResets(p)
      BY <2>3 DEF SetField, CloseResets, Inv, TypeOK, call
    <2>4. QED BY <2>2, <2>3
  <1>4. \E next \in {"save", "write", "cancel"} : pc' = [pc EXCEPT ![p] = next]
    BY DEF SetField, ReadFields, CloseResets
  <1>5. UNCHANGED <<users, hash, closed, row, updater, arg, target, field, boot, overlapped, faults, ack>>
    BY DEF SetField, ReadFields, CloseResets, mem, call
  <1>6. TypeOK'
    BY <1>2, <1>3, <1>4, <1>5, SMT DEF Inv, TypeOK, updater
  <1>7. CallsKnowTheirHash'
    BY <1>1, <1>3, <1>4, <1>5, ZenonT(30) DEF Inv, TypeOK, CallsKnowTheirHash
  <1>8. HashesAgree'
    BY <1>5 DEF Inv, HashesAgree, updater
  <1>9. ClosedNeverServed'
    BY <1>1, <1>4, <1>5, SMT DEF Inv, TypeOK, ClosedNeverServed
  <1>10. QED BY <1>6, <1>7, <1>8, <1>9 DEF Inv

\* A call that returns from a statement on the table leaves users and
\* objects alone.
LEMMA ReturnInv ==
    ASSUME Inv, NEW p \in Caller, Idle(p), pc[p] # "unmap",
           UNCHANGED <<mem, updater, boot, overlapped>>,
           row' \in [Hash -> Row], faults' \in 0 .. MaxFaults,
           ack' \in [Hash -> {"in", "out", "unknown"}]
    PROVE  Inv'
  <1>1. TypeOK
    BY DEF Inv
  <1>2. TypeOK'
    BY <1>1, IdleTypes DEF TypeOK, mem, updater
  <1>3. CallsKnowTheirHash'
    BY <1>1, IdleTypes, SMT DEF Inv, CallsKnowTheirHash, mem
  <1>4. HashesAgree'
    BY DEF Inv, HashesAgree, mem, updater
  <1>5. ClosedNeverServed'
    BY <1>1, IdleTypes, SMT DEF Inv, ClosedNeverServed, mem
  <1>6. QED BY <1>2, <1>3, <1>4, <1>5 DEF Inv

\* SaveUser and the deletion of the row, successful or not.
LEMMA TableInv ==
    ASSUME Inv, NEW p \in Caller, SaveUser(p) \/ DeleteRow(p)
    PROVE  Inv'
  <1>1. arg[p] \in Hash /\ pc[p] # "unmap"
    BY DEF SaveUser, DeleteRow, Inv, CallsKnowTheirHash
  <1>2. faults' \in 0 .. MaxFaults
    BY FaultTypes DEF SaveUser, DeleteRow, Inv, TypeOK
  <1>3. row' \in [Hash -> Row]
    BY <1>1 DEF SaveUser, DeleteRow, Inv, TypeOK, Row
  <1>4. ack' \in [Hash -> {"in", "out", "unknown"}]
    BY <1>1 DEF SaveUser, DeleteRow, Inv, TypeOK
  <1>5. Idle(p) /\ UNCHANGED <<mem, updater, boot, overlapped>>
    BY DEF SaveUser, DeleteRow
  <1>6. QED BY <1>1, <1>2, <1>3, <1>4, <1>5, ReturnInv

-----------------------------------------------------------------------------
(***************************************************************************)
(* DelUser.                                                                *)
(***************************************************************************)

\* The lookup of DelUser: an object found in the map has the hash of the call.
LEMMA LoadUserInv ==
    ASSUME Inv, NEW p \in Caller, LoadUser(p)
    PROVE  Inv'
  <1>1. arg[p] \in Hash /\ pc[p] = "load"
    BY DEF LoadUser, Inv, CallsKnowTheirHash
  <1>2. CASE users[arg[p]] = Nil
    <2>1. Idle(p) /\ UNCHANGED <<mem, row, updater, boot, overlapped, faults, ack>>
      BY <1>2 DEF LoadUser
    <2>2. row' \in [Hash -> Row] /\ faults' \in 0 .. MaxFaults /\ ack' \in [Hash -> {"in", "out", "unknown"}]
      BY <2>1 DEF Inv, TypeOK
    <2>3. QED BY <1>1, <2>1, <2>2, ReturnInv
  <1>3. CASE users[arg[p]] # Nil
    <2>1. /\ pc' = [pc EXCEPT ![p] = "close"] /\ target' = [target EXCEPT ![p] = users[arg[p]]]
          /\ UNCHANGED <<arg, snap, field, mem, row, updater, boot, overlapped, faults, ack>>
      BY <1>3 DEF LoadUser
    <2>2. users[arg[p]] \in Obj /\ hash[users[arg[p]]] = arg[p]
      BY <1>1, <1>3, SMT DEF Inv, TypeOK, HashesAgree
    <2>3. TypeOK'
      BY <2>1, <2>2 DEF Inv, TypeOK, mem, updater
    <2>4. CallsKnowTheirHash'
      BY <1>1, <2>1, <2>2 DEF Inv, TypeOK, CallsKnowTheirHash, mem
    <2>5. HashesAgree'
      BY <2>1 DEF Inv, HashesAgree, mem, updater
    <2>6. ClosedNeverServed'
      BY <1>1, <2>1 DEF Inv, TypeOK, ClosedNeverServed, mem
    <2>7. QED BY <2>3, <2>4, <2>5, <2>6 DEF Inv
  <1>4. QED BY <1>2, <1>3

\* The context is cancelled by a call that will remove the entry of the hash
\* the object has.
LEMMA CloseCancelsInv ==
    ASSUME Inv, NEW p \in Caller, CloseCancels(p)
    PROVE  Inv'
  <1>1. arg[p] \in Hash /\ target[p] \in Obj /\ hash[target[p]] = arg[p] /\ pc[p] = "cancel"
    BY DEF CloseCancels, Inv, CallsKnowTheirHash
  <1>2. TypeOK'
    BY <1>1 DEF CloseCancels, Inv, TypeOK, updater, call
  <1>3. CallsKnowTheirHash'
    BY <1>1 DEF CloseCancels, Inv, TypeOK, CallsKnowTheirHash, call
  <1>4. HashesAgree'
    BY <1>1, NilAssumption, SMT DEF CloseCancels, Inv, TypeOK, HashesAgree, updater
  <1>5. ClosedNeverServed'
    <2>1. SUFFICES ASSUME NEW h \in Hash, users'[h] # Nil, closed'[users'[h]]
                   PROVE  \E q \in Caller : pc'[q] = "unmap" /\ arg'[q] = h
      BY DEF ClosedNeverServed
    <2>2. users[h] \in Obj /\ hash[users[h]] = h /\ users' = users /\ arg' = arg
          /\ pc' = [pc EXCEPT ![p] = "unmap"] /\ closed' = [closed EXCEPT ![target[p]] = TRUE]
      BY <2>1, SMT DEF CloseCancels, Inv, TypeOK, HashesAgree, call
    <2>3. CASE users[h] = target[p]
      BY <1>1, <2>2, <2>3 DEF Inv, TypeOK
    <2>4. CASE users[h] # target[p]
      <3>1. closed[users[h]]
        BY <2>1, <2>2, <2>4 DEF Inv, TypeOK
      <3>2. PICK q \in Caller : pc[q] = "unmap" /\ arg[q] = h
        BY <2>1, <2>2, <3>1 DEF Inv, ClosedNeverServed
      <3>3. QED BY <2>2, <3>2 DEF Inv, TypeOK
    <2>5. QED BY <2>3, <2>4
  <1>6. QED BY <1>2, <1>3, <1>4, <1>5 DEF Inv

\* The entry goes; another call that was to remove the entry of another hash
\* still is.
LEMMA DeleteEntryInv ==
    ASSUME Inv, NEW p \in Caller, DeleteEntry(p)
    PROVE  Inv'
  <1>1. arg[p] \in Hash /\ pc[p] = "unmap"
    BY DEF DeleteEntry, Inv, CallsKnowTheirHash
  <1>2. TypeOK'
    BY <1>1 DEF DeleteEntry, Inv, TypeOK, updater, call
  <1>3. CallsKnowTheirHash'
    BY <1>1 DEF DeleteEntry, Inv, TypeOK, CallsKnowTheirHash, call
  <1>4. HashesAgree'
    BY <1>1 DEF DeleteEntry, Inv, TypeOK, HashesAgree, updater
  <1>5. ClosedNeverServed'
    <2>1. SUFFICES ASSUME NEW h \in Hash, users'[h] # Nil, closed'[users'[h]]
                   PROVE  \E q \in Caller : pc'[q] = "unmap" /\ arg'[q] = h
      BY DEF ClosedNeverServed
    <2>2. h # arg[p] /\ users'[h] = users[h] /\ closed' = closed
      BY <1>1, <2>1 DEF DeleteEntry, Inv, TypeOK
    <2>3. PICK q \in Caller : pc[q] = "unmap" /\ arg[q] = h
      BY <2>1, <2>2 DEF Inv, ClosedNeverServed
    <2>4. q # p
      BY <2>2, <2>3
    <2>5. QED BY <2>3, <2>4 DEF DeleteEntry, Inv, TypeOK, call
  <1>6. QED BY <1>2, <1>3, <1>4, <1>5 DEF Inv
-----------------------------------------------------------------------------
(***************************************************************************)
(* Traffic, forgotten objects, crashes.                                    *)
(***************************************************************************)

\* Traffic and the trafficUpdater touch neither the map nor the calls.
LEMMA UpdaterInv ==
    ASSUME Inv, NEW o \in Obj,
           AddTraffic(o) \/ TrafficTick(o) \/ UpdateUserTraffic(o) \/ UpdaterReturns(o)
    PROVE  Inv'
  <1>1. UNCHANGED <<users, hash, closed, pc, call, boot, overlapped, ack>>
    BY DEF AddTraffic, TrafficTick, UpdateUserTraffic, UpdaterReturns, mem
  <1>2. hash[o] \in Hash
    BY DEF AddTraffic, TrafficTick, UpdateUserTraffic, UpdaterReturns, Inv, HashesAgree, TypeOK
  <1>3. "traffic" \in Column /\ val[o]["traffic"] \in Int
    BY DEF Inv, TypeOK, Column
  <1>4. val' \in [Obj -> [Column -> Int]]
    <2>1. CASE AddTraffic(o)
      <3>1. val' = [val EXCEPT ![o]["traffic"] = val[o]["traffic"] + 1]
        BY <2>1 DEF AddTraffic, Inv, TypeOK
      <3>2. val[o]["traffic"] + 1 \in Int
        BY <1>3, SMT
      <3>3. QED BY <1>3, <3>1, <3>2, ColumnTypes, SMT DEF Inv, TypeOK
    <2>2. CASE TrafficTick(o) \/ UpdateUserTraffic(o) \/ UpdaterReturns(o)
      BY <2>2 DEF TrafficTick, UpdateUserTraffic, UpdaterReturns, mem, Inv, TypeOK
    <2>3. QED BY <2>1, <2>2
  <1>5. row' \in [Hash -> Row]
    <2>1. CASE UNCHANGED row
      BY <2>1 DEF Inv, TypeOK
    <2>2. CASE UpdateUserTraffic(o) /\ row' # row
      <3>1. row' = [row EXCEPT ![hash[o]] = IF row[hash[o]] = NoRow THEN row[hash[o]]
                                            ELSE [row[hash[o]] EXCEPT !["traffic"] = writing[o]]]
        BY <1>2, <2>2 DEF UpdateUserTraffic, Inv, TypeOK
      <3>2. row[hash[o]] # NoRow => row[hash[o]] \in [Column -> Int]
        BY <1>2, SMT DEF Inv, TypeOK, Row
      <3>3. row[hash[o]] # NoRow => [row[hash[o]] EXCEPT !["traffic"] = writing[o]] \in [Column -> Int]
        BY <1>3, <3>2 DEF Inv, TypeOK
      <3>4. QED BY <1>2, <3>1, <3>3 DEF Inv, TypeOK, Row
    <2>3. QED BY <2>1, <2>2 DEF AddTraffic, TrafficTick, UpdaterReturns
  <1>6. upc' \in [Obj -> {"off", "tick", "write"}] /\ \A x \in Obj : hash[x] = Nil => upc'[x] = "off"
    <2>1. upc' = upc \/ \E s \in {"off", "tick", "write"} : upc' = [upc EXCEPT ![o] = s]
      BY DEF AddTraffic, TrafficTick, UpdateUserTraffic, UpdaterReturns, updater
    <2>2. hash[o] # Nil
      BY <1>2, NilAssumption
    <2>3. QED BY <2>1, <2>2, ZenonT(30) DEF Inv, TypeOK, HashesAgree
  <1>7. last' \in [Obj -> Int] /\ writing' \in [Obj -> Int]
    BY <1>3, SMT DEF AddTraffic, TrafficTick, UpdateUserTraffic, UpdaterReturns, updater, Inv, TypeOK
  <1>8. faults' \in 0 .. MaxFaults
    BY FaultTypes DEF AddTraffic, TrafficTick, UpdateUserTraffic, UpdaterReturns, Inv, TypeOK
  <1>9. TypeOK'
    BY <1>1, <1>4, <1>5, <1>6, <1>7, <1>8 DEF Inv, TypeOK, call
  <1>10. CallsKnowTheirHash'
    BY <1>1 DEF Inv, CallsKnowTheirHash, call
  <1>11. HashesAgree'
    BY <1>1, <1>6 DEF Inv, HashesAgree
  <1>12. ClosedNeverServed'
    BY <1>1 DEF Inv, ClosedNeverServed, call
  <1>13. QED BY <1>9, <1>10, <1>11, <1>12 DEF Inv

\* A forgotten object is in no map entry and no call.
LEMMA ForgetInv ==
    ASSUME Inv, NEW o \in Obj, Forget(o)
    PROVE  Inv'
  <1>1. Blank \in [Column -> Int]
    BY SMT DEF Blank
  <1>2. \A h \in Hash : users[h] # o
    BY NilAssumption DEF Forget, Inv, HashesAgree, TypeOK
  <1>3. TypeOK'
    BY <1>1 DEF Forget, Inv, TypeOK, updater, call
  <1>4. CallsKnowTheirHash'
    BY DEF Forget, Inv, TypeOK, CallsKnowTheirHash, call
  <1>5. HashesAgree'
    BY <1>2, ZenonT(30) DEF Forget, Inv, TypeOK, HashesAgree, updater
  <1>6. ClosedNeverServed'
    BY <1>2, SMT DEF Forget, Inv, TypeOK, ClosedNeverServed, call
  <1>7. QED BY <1>3, <1>4, <1>5, <1>6 DEF Inv

\* After a restart no user is closed and no call is in progress.
LEMMA CrashInv ==
    ASSUME Inv, Crash
    PROVE  Inv'
  <1>1. hash' \in [Obj -> Hash \cup {Nil}]
    BY DEF Crash
  <1>2. \A h \in Hash : users'[h] # Nil => hash'[users'[h]] = h
    BY DEF Crash
  <1>3. \A o \in Obj : hash'[o] # Nil => row[hash'[o]] \in [Column -> Int]
    <2>1. SUFFICES ASSUME NEW o \in Obj, hash'[o] # Nil PROVE row[hash'[o]] \in [Column -> Int]
      OBVIOUS
    <2>2. hash'[o] \in Hash /\ users'[hash'[o]] = o
      BY <2>1 DEF Crash
    <2>3. row[hash'[o]] # NoRow
      BY <2>2, NilAssumption DEF Crash
    <2>4. QED BY <2>2, <2>3, SMT DEF Inv, TypeOK, Row
  <1>4. Blank \in [Column -> Int]
    BY SMT DEF Blank
  <1>5. val' \in [Obj -> [Column -> Int]]
    BY <1>3, <1>4 DEF Crash
  <1>6. faults' \in 0 .. MaxFaults
    BY FaultTypes DEF Crash, Inv, TypeOK
  <1>7. TypeOK'
    BY <1>1, <1>5, <1>6, SMT DEF Crash, Inv, TypeOK, Row
  <1>8. CallsKnowTheirHash'
    BY DEF Crash, CallsKnowTheirHash
  <1>9. HashesAgree'
    BY <1>2 DEF Crash, HashesAgree
  <1>10. ClosedNeverServed'
    BY DEF Crash, ClosedNeverServed
  <1>11. QED BY <1>7, <1>8, <1>9, <1>10 DEF Inv
-----------------------------------------------------------------------------
(***************************************************************************)
(* Calls that do not overlap.                                              *)
(***************************************************************************)

\* The row of a hash is the user of that hash, as far as SaveUser writes it.
Matches(h) ==
    /\ users[h] = Nil <=> row[h] = NoRow
    /\ users[h] # Nil => \A c \in {"limit", "quota"} : row[h][c] = val[users[h]][c]

\* What the only call p on h relies on: nobody else changes the entry it looked
\* up, and nothing is promised while it adds or removes the user.
CallInv(p, h) ==
    /\ pc[p] \in {"store", "delete"} => users[h] = Nil
    /\ pc[p] \in {"set", "save", "write", "close", "cancel", "unmap"} => users[h] = target[p]
    /\ pc[p] = "unmap" => closed[target[p]]
    /\ pc[p] \in {"store", "load", "close", "cancel", "unmap", "delete"} => ack[h] = "unknown"

\* The row lags behind the user only while a call is between the two.
RowInv(h) ==
    /\ (\A p \in Caller : arg[p] = h => pc[p] \in {"load", "set"}) => Matches(h)
    /\ \A p \in Caller : (arg[p] = h /\ pc[p] = "store") => row[h] = NoRow
    /\ \A p \in Caller : (arg[p] = h /\ pc[p] = "write") =>
           \A c \in {"limit", "quota"} : snap[p][c] = val[target[p]][c]

\* What was promised about h when the last call on it returned.
Promised(h) ==
    /\ ack[h] = "in" => row[h] # NoRow /\ users[h] # Nil
    /\ ack[h] = "out" => row[h] = NoRow /\ users[h] = Nil

\* A hash on which calls never overlapped.
Alone(h) ==
    /\ \A p, q \in Caller : (arg[p] = h /\ arg[q] = h) => p = q
    /\ \A p \in Caller : arg[p] = h => CallInv(p, h)
    /\ \A o \in Obj : (hash[o] = h /\ users[h] # o) => closed[o]
    /\ Promised(h)
    /\ faults = 0 => RowInv(h)

IdleCalls == \A p \in Caller : pc[p] = "idle" => arg[p] = Nil

AloneInv == IdleCalls /\ \A h \in Hash \ overlapped : Alone(h)

\* A step that leaves the entry, the calls and the objects of a hash alone, up to
\* traffic and to objects that are closed or forgotten, keeps what it is about.
LEMMA FrameAlone ==
    ASSUME Inv, Inv', NEW h \in Hash, Alone(h),
           users'[h] = users[h], ack'[h] = ack[h], faults' = 0 => faults = 0,
           row'[h] = NoRow <=> row[h] = NoRow,
           row[h] # NoRow => \A c \in {"limit", "quota"} : row'[h][c] = row[h][c],
           \A p \in Caller : arg'[p] = h => arg[p] = h,
           \A p \in Caller : arg[p] = h => /\ arg'[p] = h /\ pc'[p] = pc[p]
                                           /\ target'[p] = target[p] /\ snap'[p] = snap[p],
           \A o \in Obj : hash'[o] = h => hash[o] = h /\ (closed[o] => closed'[o]),
           \A o \in Obj : hash'[o] = h => \A c \in {"limit", "quota"} : val'[o][c] = val[o][c]
    PROVE  Alone(h)'
  <1>1. \A p \in Caller : (arg[p] = h /\ pc[p] \in {"set", "save", "write", "close", "cancel", "unmap"}) =>
            target[p] \in Obj /\ hash'[target[p]] = h
    BY SMT DEF Inv, CallsKnowTheirHash
  <1>2. users[h] # Nil => users[h] \in Obj /\ hash'[users[h]] = h
    BY SMT DEF Inv, TypeOK, HashesAgree
  <1>3. \A p, q \in Caller : (arg'[p] = h /\ arg'[q] = h) => p = q
    BY DEF Alone
  <1>4. ASSUME NEW p \in Caller, arg'[p] = h PROVE CallInv(p, h)'
    <2>1. CallInv(p, h) /\ arg[p] = h /\ pc'[p] = pc[p] /\ target'[p] = target[p]
      BY <1>4 DEF Alone
    <2>2. pc[p] = "unmap" => closed'[target[p]]
      BY <1>1, <2>1 DEF CallInv
    <2>3. QED BY <2>1, <2>2 DEF CallInv
  <1>5. \A o \in Obj : (hash'[o] = h /\ users'[h] # o) => closed'[o]
    BY DEF Alone
  <1>6. Promised(h)'
    BY DEF Alone, Promised
  <1>7. ASSUME faults' = 0 PROVE RowInv(h)'
    <2>1. RowInv(h)
      BY <1>7 DEF Alone
    <2>2. Matches(h) => Matches(h)'
      BY <1>2 DEF Matches
    <2>3. (\A p \in Caller : arg'[p] = h => pc'[p] \in {"load", "set"}) => Matches(h)'
      BY <2>1, <2>2 DEF RowInv
    <2>4. \A p \in Caller : (arg'[p] = h /\ pc'[p] = "store") => row'[h] = NoRow
      BY <2>1 DEF RowInv
    <2>5. ASSUME NEW p \in Caller, arg'[p] = h, pc'[p] = "write", NEW c \in {"limit", "quota"}
          PROVE  snap'[p][c] = val'[target'[p]][c]
      <3>1. snap[p][c] = val[target[p]][c]
        BY <2>1, <2>5 DEF RowInv
      <3>2. target[p] \in Obj /\ hash'[target[p]] = h
        BY <1>1, <2>5
      <3>3. QED BY <2>5, <3>1, <3>2
    <2>6. QED BY <2>3, <2>4, <2>5 DEF RowInv
  <1>8. QED BY <1>3, <1>4, <1>5, <1>6, <1>7 DEF Alone

\* Traffic, its updaters and forgotten objects.
LEMMA BackgroundAlone ==
    ASSUME Inv, Inv', AloneInv, NEW o \in Obj, Background(o)
    PROVE  AloneInv'
  <1>1. UNCHANGED <<users, pc, call, overlapped, ack>>
    BY DEF Background, AddTraffic, TrafficTick, UpdateUserTraffic, UpdaterReturns, Forget, mem
  <1>2. faults' = 0 => faults = 0
    BY SMT DEF Background, AddTraffic, TrafficTick, UpdateUserTraffic, UpdaterReturns, Forget, Inv, TypeOK
  <1>3. ASSUME NEW h \in Hash
        PROVE  /\ row'[h] = NoRow <=> row[h] = NoRow
               /\ row[h] # NoRow => \A c \in {"limit", "quota"} : row'[h][c] = row[h][c]
    <2>1. CASE UNCHANGED row
      BY <2>1
    <2>2. CASE UpdateUserTraffic(o) /\ row' # row
      <3>1. row' = [row EXCEPT ![hash[o]] = IF row[hash[o]] = NoRow THEN row[hash[o]]
                                            ELSE [row[hash[o]] EXCEPT !["traffic"] = writing[o]]]
        BY <2>2 DEF UpdateUserTraffic, Inv, TypeOK
      <3>2. row[h] # NoRow => row[h] \in [Column -> Int]
        BY DEF Inv, TypeOK, Row
      <3>3. row[h] # NoRow => /\ [row[h] EXCEPT !["traffic"] = writing[o]] \in [Column -> Int]
                              /\ \A c \in {"limit", "quota"} : [row[h] EXCEPT !["traffic"] = writing[o]][c] = row[h][c]
        BY <3>2 DEF Inv, TypeOK, Column
      <3>4. CASE h = hash[o]
        <4>1. row'[h] = IF row[h] = NoRow THEN row[h] ELSE [row[h] EXCEPT !["traffic"] = writing[o]]
          BY <3>1, <3>4 DEF Inv, TypeOK
        <4>2. QED BY <3>3, <4>1, RowAssumption
      <3>5. CASE h # hash[o]
        BY <3>1, <3>5 DEF Inv, TypeOK
      <3>6. QED BY <3>4, <3>5
    <2>3. QED BY <2>1, <2>2 DEF Background, AddTraffic, TrafficTick, UpdaterReturns, Forget
  <1>4. ASSUME NEW h \in Hash, NEW x \in Obj, hash'[x] = h
        PROVE  /\ hash[x] = h /\ (closed[x] => closed'[x])
               /\ \A c \in {"limit", "quota"} : val'[x][c] = val[x][c]
    <2>1. CASE Forget(o)
      BY <1>4, <2>1, NilAssumption DEF Forget, Inv, TypeOK
    <2>2. CASE AddTraffic(o)
      <3>1. hash' = hash /\ closed' = closed /\ val' = [val EXCEPT ![o]["traffic"] = val[o]["traffic"] + 1]
        BY <2>2 DEF AddTraffic, Inv, TypeOK
      <3>2. QED BY <1>4, <3>1, SMT DEF Inv, TypeOK, Column
    <2>3. CASE TrafficTick(o) \/ UpdateUserTraffic(o) \/ UpdaterReturns(o)
      BY <1>4, <2>3 DEF TrafficTick, UpdateUserTraffic, UpdaterReturns, mem
    <2>4. QED BY <2>1, <2>2, <2>3 DEF Background
  <1>5. ASSUME NEW h \in Hash \ overlapped PROVE Alone(h)'
    <2>1. Alone(h)
      BY DEF AloneInv
    <2>2. QED BY <1>1, <1>2, <1>3, <1>4, <2>1, FrameAlone DEF call
  <1>6. QED BY <1>1, <1>5 DEF AloneInv, IdleCalls, call

\* A crash ends all calls, and the users are the rows.
LEMMA CrashAlone ==
    ASSUME Inv, AloneInv, Crash
    PROVE  AloneInv'
  <1>1. IdleCalls'
    BY DEF Crash, IdleCalls
  <1>2. ASSUME NEW h \in Hash \ overlapped PROVE Alone(h)'
    <2>1. \A p \in Caller : arg'[p] # h
      BY NilAssumption DEF Crash
    <2>2. \A o \in Obj : hash'[o] = h => users'[h] = o
      BY NilAssumption DEF Crash
    <2>3. Promised(h)'
      BY DEF AloneInv, Alone, Promised, Crash
    <2>4. faults' # 0
      BY SMT DEF Crash, Inv, TypeOK
    <2>5. QED BY <2>1, <2>2, <2>3, <2>4 DEF Alone
  <1>3. QED BY <1>1, <1>2 DEF AloneInv, Crash

\* A step of call p on hash h touches no other hash: what is left to show is h.
LEMMA OthersAlone ==
    ASSUME Inv, Inv', AloneInv, NEW p \in Caller, NEW h \in Hash,
           arg[p] \in {h, Nil}, arg'[p] \in {h, Nil}, pc'[p] = "idle" => arg'[p] = Nil,
           \A q \in Caller : q # p => /\ arg'[q] = arg[q] /\ pc'[q] = pc[q]
                                      /\ target'[q] = target[q] /\ snap'[q] = snap[q],
           \A g \in Hash : g # h => users'[g] = users[g] /\ ack'[g] = ack[g] /\ row'[g] = row[g],
           \A o \in Obj : hash'[o] # h => hash'[o] = hash[o] /\ closed'[o] = closed[o] /\ val'[o] = val[o],
           faults' = 0 => faults = 0, overlapped \subseteq overlapped',
           h \notin overlapped' => Alone(h)'
    PROVE  AloneInv'
  <1>1. IdleCalls'
    BY DEF AloneInv, IdleCalls
  <1>2. ASSUME NEW g \in Hash \ overlapped', g # h PROVE Alone(g)'
    <2>1. Alone(g) /\ g # Nil
      BY NilAssumption DEF AloneInv
    <2>2. /\ \A q \in Caller : arg'[q] = g => arg[q] = g
          /\ \A q \in Caller : arg[q] = g => /\ arg'[q] = g /\ pc'[q] = pc[q]
                                             /\ target'[q] = target[q] /\ snap'[q] = snap[q]
      BY <1>2, <2>1
    <2>3. /\ \A o \in Obj : hash'[o] = g => hash[o] = g /\ (closed[o] => closed'[o])
          /\ \A o \in Obj : hash'[o] = g => \A c \in {"limit", "quota"} : val'[o][c] = val[o][c]
      BY <1>2
    <2>4. users'[g] = users[g] /\ ack'[g] = ack[g] /\ row'[g] = row[g]
      BY <1>2
    <2>5. QED BY <2>1, <2>2, <2>3, <2>4, FrameAlone
  <1>3. QED BY <1>1, <1>2 DEF AloneInv

\* A call starts on h, and no other is in progress there, or h overlaps.
LEMMA BeginAlone ==
    ASSUME Inv, Inv', AloneInv, NEW p \in Caller, NEW h \in Hash,
           NEW next \in {"store", "load", "set"}, Begin(p, h, next),
           UNCHANGED <<mem, row, snap, faults>>,
           \A q \in Caller : q # p => target'[q] = target[q],
           next = "store" => users[h] = Nil,
           next = "set" => ack' = ack /\ target'[p] = users[h],
           next # "set" => ack' = [ack EXCEPT ![h] = "unknown"]
    PROVE  AloneInv'
  <1>1. /\ pc' = [pc EXCEPT ![p] = next] /\ arg' = [arg EXCEPT ![p] = h] /\ pc[p] = "idle"
        /\ overlapped' = IF \E q \in Caller : arg[q] = h THEN overlapped \cup {h} ELSE overlapped
    BY DEF Begin
  <1>2. /\ pc'[p] = next /\ arg'[p] = h /\ arg[p] = Nil
        /\ \A q \in Caller : q # p => pc'[q] = pc[q] /\ arg'[q] = arg[q]
    BY <1>1, SMT DEF Inv, TypeOK, AloneInv, IdleCalls
  <1>3. (\A g \in Hash : g # h => ack'[g] = ack[g]) /\ ack'[h] = IF next = "set" THEN ack[h] ELSE "unknown"
    BY ZenonT(30) DEF Inv, TypeOK
  <1>4. ASSUME h \notin overlapped' PROVE Alone(h)'
    <2>1. Alone(h) /\ \A q \in Caller : arg[q] # h
      BY <1>1, <1>4 DEF AloneInv
    <2>2. \A q \in Caller : arg'[q] = h => q = p
      BY <1>2, <2>1
    <2>3. CallInv(p, h)'
      BY <1>2, <1>3 DEF CallInv, mem
    <2>4. \A o \in Obj : (hash'[o] = h /\ users'[h] # o) => closed'[o]
      BY <2>1 DEF Alone, mem
    <2>5. Promised(h)'
      BY <1>3, <2>1 DEF Alone, Promised, mem
    <2>6. ASSUME faults' = 0 PROVE RowInv(h)'
      <3>1. Matches(h)
        BY <2>1, <2>6 DEF Alone, RowInv
      <3>2. Matches(h)'
        BY <3>1 DEF Matches, mem
      <3>3. next = "store" => row'[h] = NoRow
        BY <3>1 DEF Matches
      <3>4. QED BY <1>2, <2>2, <3>2, <3>3 DEF RowInv
    <2>7. QED BY <2>2, <2>3, <2>4, <2>5, <2>6 DEF Alone
  <1>5. /\ \A q \in Caller : q # p => /\ arg'[q] = arg[q] /\ pc'[q] = pc[q]
                                      /\ target'[q] = target[q] /\ snap'[q] = snap[q]
        /\ \A g \in Hash : g # h => users'[g] = users[g] /\ ack'[g] = ack[g] /\ row'[g] = row[g]
        /\ \A o \in Obj : hash'[o] # h => hash'[o] = hash[o] /\ closed'[o] = closed[o] /\ val'[o] = val[o]
        /\ overlapped \subseteq overlapped'
    BY <1>1, <1>2, <1>3 DEF mem
  <1>6. pc'[p] # "idle"
    BY <1>2
  <1>7. QED BY <1>2, <1>4, <1>5, <1>6, OthersAlone

\* A call starts: alone on its hash, or the hash is one on which calls overlapped.
LEMMA StartAlone ==
    ASSUME Inv, Inv', AloneInv, NEW h \in Hash,
           \/ \E p \in Caller : AddUser(p, h) \/ DelUser(p, h)
           \/ \E p \in Caller, c \in Fields, v \in Values : SetUser(p, h, c, v)
           \/ Sweep(h)
    PROVE  AloneInv'
  <1>1. ASSUME NEW p \in Caller, AddUser(p, h) PROVE AloneInv'
    <2>1. CASE users[h] = Nil
      <3>1. /\ Begin(p, h, "store") /\ ack' = [ack EXCEPT ![h] = "unknown"]
            /\ UNCHANGED <<target, snap, field, mem, row, updater, faults>>
        BY <1>1, <2>1 DEF AddUser
      <3>2. QED BY <2>1, <3>1, BeginAlone
    <2>2. CASE users[h] # Nil
      <3>1. UNCHANGED <<pc, call, ack, overlapped, mem, row, updater, faults>>
        BY <1>1, <2>2 DEF AddUser
      <3>2. QED BY <3>1, SMT DEF AloneInv, IdleCalls, Alone, CallInv, Promised, RowInv, Matches, mem, call
    <2>3. QED BY <2>1, <2>2
  <1>2. ASSUME NEW p \in Caller, DelUser(p, h) PROVE AloneInv'
    BY <1>2, BeginAlone DEF DelUser
  <1>3. ASSUME Sweep(h) PROVE AloneInv'
    BY <1>3, BeginAlone DEF Sweep, Caller
  <1>4. ASSUME NEW p \in Caller, NEW c \in Fields, NEW v \in Values, SetUser(p, h, c, v) PROVE AloneInv'
    <2>1. /\ Begin(p, h, "set") /\ target' = [target EXCEPT ![p] = users[h]]
          /\ UNCHANGED <<mem, row, snap, faults, ack>>
      BY <1>4 DEF SetUser
    <2>2. target'[p] = users[h] /\ \A q \in Caller : q # p => target'[q] = target[q]
      BY <2>1 DEF Inv, TypeOK
    <2>3. QED BY <2>1, <2>2, BeginAlone
  <1>5. QED BY <1>1, <1>2, <1>3, <1>4

\* What every later step of a call starts from.
LEMMA CallFacts ==
    ASSUME Inv, NEW p \in Caller, pc[p] # "idle"
    PROVE  /\ arg[p] \in Hash /\ arg[p] # Nil
           /\ pc[p] \in {"set", "save", "write", "close", "cancel", "unmap"} =>
                  target[p] \in Obj /\ target[p] # Nil /\ hash[target[p]] = arg[p]
  BY NilAssumption DEF Inv, CallsKnowTheirHash

\* StoreUser makes its object the user of the hash.
LEMMA StoreUserAlone ==
    ASSUME Inv, Inv', AloneInv, NEW p \in Caller, NEW o \in Obj, StoreUser(p, o)
    PROVE  AloneInv'
  <1>h. PICK h \in Hash : h = arg[p] /\ h # Nil
    BY CallFacts DEF StoreUser
  <1>1. /\ pc[p] = "store" /\ hash[o] = Nil /\ users' = [users EXCEPT ![h] = o]
        /\ hash' = [hash EXCEPT ![o] = h] /\ pc' = [pc EXCEPT ![p] = "save"]
        /\ target' = [target EXCEPT ![p] = o]
        /\ val' = [val EXCEPT ![o] = [c \in Column |-> IF c = "quota" THEN -1 ELSE 0]]
        /\ UNCHANGED <<closed, row, arg, snap, overlapped, faults, ack>>
    BY <1>h DEF StoreUser
  <1>2. h \in Hash /\ h # Nil /\ arg[p] = h
    BY <1>h
  <1>3. /\ pc'[p] = "save" /\ target'[p] = o /\ users'[h] = o
        /\ \A q \in Caller : q # p => pc'[q] = pc[q] /\ target'[q] = target[q]
        /\ \A g \in Hash : g # h => users'[g] = users[g]
        /\ \A n \in Obj : n # o => hash'[n] = hash[n] /\ val'[n] = val[n]
        /\ hash'[o] = h
    BY <1>1, <1>2, SMT DEF Inv, TypeOK
  <1>4. ASSUME h \notin overlapped' PROVE Alone(h)'
    <2>1. Alone(h)
      BY <1>1, <1>2, <1>4 DEF AloneInv
    <2>2. users[h] = Nil /\ ack[h] = "unknown" /\ \A q \in Caller : arg[q] = h => q = p
      BY <1>1, <1>2, <2>1 DEF Alone, CallInv
    <2>3. CallInv(p, h)'
      BY <1>3 DEF CallInv
    <2>4. \A n \in Obj : (hash'[n] = h /\ users'[h] # n) => closed'[n]
      <3>1. ASSUME NEW n \in Obj, hash'[n] = h, users'[h] # n PROVE closed'[n]
        <4>1. n # o /\ hash[n] = h /\ users[h] # n
          BY <1>3, <2>2, <3>1, NilAssumption
        <4>2. QED BY <1>1, <2>1, <4>1 DEF Alone
      <3>2. QED BY <3>1
    <2>5. Promised(h)'
      BY <1>1, <2>2 DEF Promised
    <2>6. RowInv(h)'
      <3>1. \A q \in Caller : arg'[q] = h <=> q = p
        BY <1>1, <1>2, <2>2
      <3>2. QED BY <1>3, <3>1 DEF RowInv
    <2>7. QED BY <1>1, <2>2, <2>3, <2>4, <2>5, <2>6 DEF Alone
  <1>5. \A n \in Obj : hash'[n] # h => hash'[n] = hash[n] /\ closed'[n] = closed[n] /\ val'[n] = val[n]
    BY <1>1, <1>3
  <1>6. QED BY <1>1, <1>2, <1>3, <1>4, <1>5, OthersAlone, SMT

\* A step on the fields of the user of the hash, between the lookup and the
\* statement.
LEMMA FieldAlone ==
    ASSUME Inv, Inv', AloneInv, NEW p \in Caller, SetField(p) \/ ReadFields(p) \/ CloseResets(p)
    PROVE  AloneInv'
  <1>h. PICK h \in Hash : h = arg[p] /\ h # Nil
    BY CallFacts DEF SetField, ReadFields, CloseResets
  <1>1. /\ pc[p] \in {"set", "save", "close"}
        /\ \E next \in {"save", "write", "cancel"} :
              /\ pc' = [pc EXCEPT ![p] = next]
              /\ next = "save" => pc[p] = "set"
              /\ next = "write" => pc[p] = "save"
              /\ next = "cancel" => pc[p] = "close"
        /\ UNCHANGED <<users, hash, closed, row, arg, target, overlapped, faults, ack>>
    BY DEF SetField, ReadFields, CloseResets, call, mem
  <1>2. h \in Hash /\ h # Nil /\ arg[p] = h /\ target[p] \in Obj /\ target[p] # Nil /\ hash[target[p]] = h
    BY <1>1, <1>h, CallFacts
  <1>3. /\ pc'[p] = "save" => pc[p] = "set"
        /\ pc'[p] = "write" => pc[p] = "save"
        /\ pc'[p] = "cancel" => pc[p] = "close"
        /\ pc'[p] \in {"save", "write", "cancel"}
        /\ \A q \in Caller : q # p => pc'[q] = pc[q]
    BY <1>1, ZenonT(30) DEF Inv, TypeOK
  <1>4. /\ \A o \in Obj : o # target[p] => val'[o] = val[o]
        /\ \A q \in Caller : q # p => snap'[q] = snap[q]
        /\ pc'[p] = "write" => snap'[p] = val[target[p]] /\ val' = val
    <2>1. CASE SetField(p)
      <3>1. UNCHANGED snap /\ val' = [val EXCEPT ![target[p]][field[p][1]] = field[p][2]] /\ pc[p] = "set"
        BY <2>1 DEF SetField, call
      <3>2. QED BY <1>3, <3>1 DEF Inv, TypeOK
    <2>2. CASE ReadFields(p)
      <3>1. snap' = [snap EXCEPT ![p] = val[target[p]]] /\ val' = val
        BY <2>2 DEF ReadFields, mem
      <3>2. QED BY <3>1 DEF Inv, TypeOK
    <2>3. CASE CloseResets(p)
      <3>1. UNCHANGED snap /\ val' = [val EXCEPT ![target[p]]["traffic"] = 0] /\ pc[p] = "close"
        BY <2>3 DEF CloseResets, call
      <3>2. QED BY <1>3, <3>1 DEF Inv, TypeOK
    <2>4. QED BY <2>1, <2>2, <2>3
  <1>5. ASSUME h \notin overlapped' PROVE Alone(h)'
    <2>1. Alone(h)
      BY <1>1, <1>2, <1>5 DEF AloneInv
    <2>2. CallInv(p, h) /\ \A q \in Caller : arg[q] = h => q = p
      BY <1>2, <2>1 DEF Alone
    <2>3. CallInv(p, h)'
      BY <1>1, <1>3, <2>2 DEF CallInv
    <2>4. Promised(h)'
      BY <1>1, <2>1 DEF Alone, Promised
    <2>5. RowInv(h)'
      <3>1. \A q \in Caller : arg'[q] = h <=> q = p
        BY <1>1, <1>2, <2>2
      <3>2. QED BY <1>1, <1>3, <1>4, <3>1 DEF RowInv
    <2>6. QED BY <1>1, <2>1, <2>2, <2>3, <2>4, <2>5 DEF Alone
  <1>6. \A o \in Obj : hash'[o] # h => hash'[o] = hash[o] /\ closed'[o] = closed[o] /\ val'[o] = val[o]
    BY <1>1, <1>2, <1>4
  <1>7. QED BY <1>1, <1>2, <1>3, <1>4, <1>5, <1>6, OthersAlone

\* The lookup of DelUser.
LEMMA LoadUserAlone ==
    ASSUME Inv, Inv', AloneInv, NEW p \in Caller, LoadUser(p)
    PROVE  AloneInv'
  <1>h. PICK h \in Hash : h = arg[p] /\ h # Nil
    BY CallFacts DEF LoadUser
  <1>1. pc[p] = "load" /\ UNCHANGED <<mem, row, overlapped, faults, ack>>
    BY DEF LoadUser
  <1>2. h \in Hash /\ h # Nil /\ arg[p] = h
    BY <1>h
  <1>3. /\ \A q \in Caller : q # p => /\ arg'[q] = arg[q] /\ pc'[q] = pc[q]
                                      /\ target'[q] = target[q] /\ snap'[q] = snap[q]
        /\ \/ pc'[p] = "idle" /\ arg'[p] = Nil
           \/ pc'[p] = "close" /\ arg'[p] = h /\ target'[p] = users[h]
    <2>1. CASE Idle(p)
      BY <2>1, IdleTypes, SMT DEF Inv, TypeOK, Idle
    <2>2. CASE /\ pc' = [pc EXCEPT ![p] = "close"]
               /\ target' = [target EXCEPT ![p] = users[arg[p]]]
               /\ UNCHANGED <<arg, snap, field>>
      BY <1>2, <2>2, ZenonT(30) DEF Inv, TypeOK
    <2>3. QED BY <2>1, <2>2 DEF LoadUser
  <1>4. ASSUME h \notin overlapped' PROVE Alone(h)'
    <2>1. Alone(h)
      BY <1>1, <1>2, <1>4 DEF AloneInv
    <2>2. CallInv(p, h) /\ \A q \in Caller : arg[q] = h => q = p
      BY <1>2, <2>1 DEF Alone
    <2>3. \A q \in Caller : arg'[q] = h => q = p
      BY <1>3, <2>2
    <2>4. arg'[p] = h => CallInv(p, h)'
      BY <1>1, <1>2, <1>3, <2>2 DEF CallInv, mem
    <2>5. Promised(h)' /\ \A o \in Obj : (hash'[o] = h /\ users'[h] # o) => closed'[o]
      BY <1>1, <2>1 DEF Alone, Promised, mem
    <2>6. ASSUME faults' = 0 PROVE RowInv(h)'
      <3>1. Matches(h)
        BY <1>1, <2>1, <2>2, <2>6 DEF Alone, RowInv
      <3>2. Matches(h)'
        BY <1>1, <3>1 DEF Matches, mem
      <3>3. QED BY <1>2, <1>3, <2>3, <3>2 DEF RowInv
    <2>7. QED BY <2>3, <2>4, <2>5, <2>6 DEF Alone
  <1>5. \A o \in Obj : hash'[o] = hash[o] /\ closed'[o] = closed[o] /\ val'[o] = val[o]
    BY <1>1 DEF mem
  <1>6. \A g \in Hash : users'[g] = users[g] /\ ack'[g] = ack[g] /\ row'[g] = row[g]
    BY <1>1 DEF mem
  <1>7. QED BY <1>1, <1>2, <1>3, <1>4, <1>5, <1>6, OthersAlone, ZenonT(30)

\* Close has cancelled the context of the user of the hash.
LEMMA CloseCancelsAlone ==
    ASSUME Inv, Inv', AloneInv, NEW p \in Caller, CloseCancels(p)
    PROVE  AloneInv'
  <1>h. PICK h \in Hash : h = arg[p] /\ h # Nil
    BY CallFacts DEF CloseCancels
  <1>1. /\ pc[p] = "cancel" /\ pc' = [pc EXCEPT ![p] = "unmap"]
        /\ closed' = [closed EXCEPT ![target[p]] = TRUE]
        /\ UNCHANGED <<users, hash, val, row, arg, target, snap, overlapped, faults, ack>>
    BY DEF CloseCancels, call
  <1>2. target[p] \in Obj /\ hash[target[p]] = h /\ arg[p] = h
    BY <1>1, <1>h, CallFacts
  <1>3. /\ pc'[p] = "unmap" /\ closed'[target[p]]
        /\ \A q \in Caller : q # p => pc'[q] = pc[q]
        /\ \A o \in Obj : o # target[p] => closed'[o] = closed[o]
    BY <1>1, <1>2, ZenonT(30) DEF Inv, TypeOK
  <1>4. ASSUME h \notin overlapped' PROVE Alone(h)'
    <2>1. Alone(h)
      BY <1>1, <1>4 DEF AloneInv
    <2>2. CallInv(p, h) /\ \A q \in Caller : arg[q] = h <=> q = p
      BY <1>2, <2>1 DEF Alone
    <2>3. CallInv(p, h)'
      BY <1>1, <1>3, <2>2 DEF CallInv
    <2>4. Promised(h)' /\ \A o \in Obj : (hash'[o] = h /\ users'[h] # o) => closed'[o]
      BY <1>1, <1>3, <2>1 DEF Alone, Promised
    <2>5. RowInv(h)'
      <3>1. \A q \in Caller : arg'[q] = h <=> q = p
        BY <1>1, <2>2
      <3>2. QED BY <1>3, <3>1 DEF RowInv
    <2>6. QED BY <1>1, <2>2, <2>3, <2>4, <2>5 DEF Alone
  <1>5. \A o \in Obj : hash'[o] # h => hash'[o] = hash[o] /\ closed'[o] = closed[o] /\ val'[o] = val[o]
    BY <1>1, <1>2, <1>3
  <1>6. QED BY <1>1, <1>2, <1>3, <1>4, <1>5, OthersAlone

\* The entry that goes holds the user that this call closed.
LEMMA DeleteEntryAlone ==
    ASSUME Inv, Inv', AloneInv, NEW p \in Caller, DeleteEntry(p)
    PROVE  AloneInv'
  <1>h. PICK h \in Hash : h = arg[p] /\ h # Nil
    BY CallFacts DEF DeleteEntry
  <1>1. /\ pc[p] = "unmap" /\ pc' = [pc EXCEPT ![p] = "delete"]
        /\ users' = [users EXCEPT ![h] = Nil]
        /\ UNCHANGED <<closed, hash, val, row, arg, target, snap, overlapped, faults, ack>>
    BY <1>h DEF DeleteEntry, call
  <1>2. /\ pc'[p] = "delete" /\ users'[h] = Nil
        /\ \A q \in Caller : q # p => pc'[q] = pc[q]
        /\ \A g \in Hash : g # h => users'[g] = users[g]
    BY <1>1, SMT DEF Inv, TypeOK
  <1>3. ASSUME h \notin overlapped' PROVE Alone(h)'
    <2>1. Alone(h)
      BY <1>1, <1>3 DEF AloneInv
    <2>2. CallInv(p, h) /\ \A q \in Caller : arg[q] = h <=> q = p
      BY <1>h, <2>1 DEF Alone
    <2>3. users[h] = target[p] /\ closed[target[p]] /\ ack[h] = "unknown"
      BY <1>1, <2>2 DEF CallInv
    <2>4. CallInv(p, h)'
      BY <1>1, <1>2, <2>3 DEF CallInv
    <2>5. Promised(h)' /\ \A o \in Obj : (hash'[o] = h /\ users'[h] # o) => closed'[o]
      BY <1>1, <2>1, <2>3 DEF Alone, Promised
    <2>6. RowInv(h)'
      <3>1. \A q \in Caller : arg'[q] = h <=> q = p
        BY <1>1, <2>2
      <3>2. QED BY <1>2, <3>1 DEF RowInv
    <2>7. QED BY <1>1, <2>2, <2>4, <2>5, <2>6 DEF Alone
  <1>4. QED BY <1>h, <1>1, <1>2, <1>3, OthersAlone

\* A statement that ran, or failed, and the call returns.
LEMMA TableAlone ==
    ASSUME Inv, Inv', AloneInv, NEW p \in Caller, SaveUser(p) \/ DeleteRow(p)
    PROVE  AloneInv'
  <1>h. PICK h \in Hash : h = arg[p] /\ h # Nil
    BY CallFacts DEF SaveUser, DeleteRow
  <1>1. /\ pc[p] \in {"write", "delete"} /\ Idle(p)
        /\ UNCHANGED <<mem, overlapped>>
        /\ \/ /\ pc[p] = "write" /\ row' = [row EXCEPT ![h] = snap[p]] /\ faults' = faults
              /\ ack' = [ack EXCEPT ![h] = IF field[p] = Nil THEN "in" ELSE ack[h]]
           \/ /\ pc[p] = "delete" /\ row' = [row EXCEPT ![h] = NoRow] /\ faults' = faults
              /\ ack' = [ack EXCEPT ![h] = "out"]
           \/ faults' = faults + 1 /\ row' = row /\ ack' = ack
    BY <1>h DEF SaveUser, DeleteRow
  <1>2. /\ pc'[p] = "idle" /\ arg'[p] = Nil
        /\ \A q \in Caller : q # p => /\ arg'[q] = arg[q] /\ pc'[q] = pc[q]
                                      /\ target'[q] = target[q] /\ snap'[q] = snap[q]
    BY <1>1, IdleTypes, SMT DEF Inv, TypeOK, Idle
  <1>3. /\ \A g \in Hash : g # h => row'[g] = row[g] /\ ack'[g] = ack[g]
        /\ \/ /\ pc[p] = "write" /\ row'[h] = snap[p] /\ faults' = faults
              /\ ack'[h] = "in" \/ ack'[h] = ack[h]
           \/ pc[p] = "delete" /\ row'[h] = NoRow /\ ack'[h] = "out" /\ faults' = faults
           \/ faults' = faults + 1 /\ row' = row /\ ack' = ack
    BY <1>1, SMT DEF Inv, TypeOK
  <1>4. faults' = 0 => faults = 0
    BY <1>1, SMT DEF Inv, TypeOK
  <1>5. ASSUME h \notin overlapped' PROVE Alone(h)'
    <2>1. Alone(h)
      BY <1>1, <1>5 DEF AloneInv
    <2>2. CallInv(p, h) /\ \A q \in Caller : arg[q] = h <=> q = p
      BY <1>h, <2>1 DEF Alone
    <2>3. \A q \in Caller : arg'[q] # h
      BY <1>h, <1>2, <2>2
    <2>4. users' = users /\ hash' = hash /\ closed' = closed /\ val' = val
      BY <1>1 DEF mem
    <2>5. CASE pc[p] = "write" /\ row'[h] = snap[p] /\ faults' = faults /\ (ack'[h] = "in" \/ ack'[h] = ack[h])
      <3>1. users[h] = target[p] /\ target[p] # Nil /\ snap[p] \in [Column -> Int] /\ snap[p] # NoRow
        BY <2>2, <2>5, CallFacts, RowAssumption DEF CallInv, Inv, CallsKnowTheirHash
      <3>2. Promised(h)'
        BY <2>1, <2>4, <2>5, <3>1 DEF Alone, Promised
      <3>3. ASSUME faults = 0 PROVE RowInv(h)'
        <4>1. \A c \in {"limit", "quota"} : snap[p][c] = val[target[p]][c]
          BY <1>h, <2>1, <2>5, <3>3 DEF Alone, RowInv
        <4>2. Matches(h)'
          BY <2>4, <2>5, <3>1, <4>1 DEF Matches
        <4>3. QED BY <2>3, <4>2 DEF RowInv
      <3>4. QED BY <2>1, <2>3, <2>4, <2>5, <3>2, <3>3 DEF Alone
    <2>6. CASE pc[p] = "delete" /\ row'[h] = NoRow /\ ack'[h] = "out" /\ faults' = faults
      <3>1. users[h] = Nil
        BY <2>2, <2>6 DEF CallInv
      <3>2. Promised(h)' /\ Matches(h)'
        BY <2>4, <2>6, <3>1 DEF Promised, Matches
      <3>3. RowInv(h)'
        BY <2>3, <3>2 DEF RowInv
      <3>4. QED BY <2>1, <2>3, <2>4, <3>2, <3>3 DEF Alone
    <2>7. CASE faults' = faults + 1 /\ row' = row /\ ack' = ack
      <3>1. faults' # 0
        BY <2>7, SMT DEF Inv, TypeOK
      <3>2. Promised(h)'
        BY <2>1, <2>4, <2>7 DEF Alone, Promised
      <3>3. QED BY <2>1, <2>3, <2>4, <3>1, <3>2 DEF Alone
    <2>8. QED BY <1>3, <2>5, <2>6, <2>7
  <1>6. /\ \A o \in Obj : hash'[o] = hash[o] /\ closed'[o] = closed[o] /\ val'[o] = val[o]
        /\ users' = users /\ overlapped' = overlapped
    BY <1>1 DEF mem
  <1>7. QED BY <1>h, <1>2, <1>3, <1>4, <1>5, <1>6, OthersAlone, ZenonT(30)
-----------------------------------------------------------------------------
(***************************************************************************)
(* The theorems.                                                           *)
(***************************************************************************)

\* Inv holds when the server starts and every step of it keeps it.
LEMMA InvInductive ==
    Spec => []Inv
  <1>1. Init => Inv
    <2>1. SUFFICES ASSUME Init PROVE Inv
      OBVIOUS
    <2>2. TypeOK
      <3>1. Blank \in [Column -> Int] /\ NoRow \in Row /\ faults \in 0 .. MaxFaults
        BY <2>1, BoundsAssumption, SMT DEF Init, Blank, Row
      <3>2. val \in [Obj -> [Column -> Int]] /\ row \in [Hash -> Row] /\ snap \in [Caller -> Row]
        BY <2>1, <3>1 DEF Init
      <3>3. QED BY <2>1, <3>1, <3>2, SMT DEF Init, TypeOK
    <2>3. CallsKnowTheirHash
      BY <2>1 DEF Init, CallsKnowTheirHash
    <2>4. HashesAgree /\ ClosedNeverServed
      BY <2>1 DEF Init, HashesAgree, ClosedNeverServed
    <2>5. QED BY <2>2, <2>3, <2>4 DEF Inv
  <1>2. Inv /\ [Next]_vars => Inv'
    <2>1. SUFFICES ASSUME Inv, [Next]_vars PROVE Inv'
      OBVIOUS
    <2>2. ASSUME NEW p \in Caller, Step(p) PROVE Inv'
      <3>1. CASE \E h \in Hash : AddUser(p, h) \/ DelUser(p, h)
        BY <2>1, <3>1, StartInv
      <3>2. CASE \E o \in Obj : StoreUser(p, o)
        BY <2>1, <3>2, StoreUserInv
      <3>3. CASE \E h \in Hash, c \in Fields, v \in Values : SetUser(p, h, c, v)
        BY <2>1, <3>3, StartInv
      <3>4. CASE SetField(p) \/ ReadFields(p) \/ CloseResets(p)
        BY <2>1, <3>4, FieldInv
      <3>5. CASE SaveUser(p) \/ DeleteRow(p)
        BY <2>1, <3>5, TableInv
      <3>6. CASE LoadUser(p)
        BY <2>1, <3>6, LoadUserInv
      <3>7. CASE CloseCancels(p)
        BY <2>1, <3>7, CloseCancelsInv
      <3>8. CASE DeleteEntry(p)
        BY <2>1, <3>8, DeleteEntryInv
      <3>9. QED BY <2>2, <3>1, <3>2, <3>3, <3>4, <3>5, <3>6, <3>7, <3>8 DEF Step
    <2>3. ASSUME NEW h \in Hash, Sweep(h) PROVE Inv'
      BY <2>1, <2>3, StartInv
    <2>4. ASSUME NEW o \in Obj, Background(o) PROVE Inv'
      BY <2>1, <2>4, UpdaterInv, ForgetInv DEF Background
    <2>5. CASE Crash
      BY <2>1, <2>5, CrashInv
    <2>6. CASE UNCHANGED vars
      BY <2>1, <2>6 DEF Inv, TypeOK, CallsKnowTheirHash, HashesAgree, ClosedNeverServed, vars, mem, updater, call
    <2>7. QED BY <2>1, <2>2, <2>3, <2>4, <2>5, <2>6 DEF Next
  <1>3. QED BY <1>1, <1>2, PTL DEF Spec

\* AloneInv holds when the server starts and every step of it keeps it.
LEMMA AloneInductive ==
    Spec => []AloneInv
  <1>1. Init => AloneInv
    <2>1. SUFFICES ASSUME Init PROVE AloneInv
      OBVIOUS
    <2>2. \A p \in Caller : arg[p] = Nil
      BY <2>1 DEF Init
    <2>3. ASSUME NEW h \in Hash PROVE Alone(h)
      <3>1. users[h] = Nil /\ row[h] = NoRow /\ ack[h] = "unknown" /\ h # Nil /\ \A o \in Obj : hash[o] # h
        BY <2>1, NilAssumption DEF Init
      <3>2. Matches(h) /\ Promised(h)
        BY <3>1 DEF Matches, Promised
      <3>3. \A p \in Caller : arg[p] # h
        BY <2>2, <3>1
      <3>4. RowInv(h)
        BY <3>2, <3>3 DEF RowInv
      <3>5. QED BY <3>1, <3>2, <3>3, <3>4 DEF Alone
    <2>4. QED BY <2>2, <2>3 DEF AloneInv, IdleCalls
  <1>2. Inv /\ Inv' /\ AloneInv /\ [Next]_vars => AloneInv'
    <2>1. SUFFICES ASSUME Inv, Inv', AloneInv, [Next]_vars PROVE AloneInv'
      OBVIOUS
    <2>2. ASSUME NEW p \in Caller, Step(p) PROVE AloneInv'
      <3>1. CASE \E h \in Hash : AddUser(p, h) \/ DelUser(p, h)
        BY <2>1, <3>1, StartAlone
      <3>2. CASE \E o \in Obj : StoreUser(p, o)
        BY <2>1, <3>2, StoreUserAlone
      <3>3. CASE \E h \in Hash, c \in Fields, v \in Values : SetUser(p, h, c, v)
        BY <2>1, <3>3, StartAlone
      <3>4. CASE SetField(p) \/ ReadFields(p) \/ CloseResets(p)
        BY <2>1, <3>4, FieldAlone
      <3>5. CASE SaveUser(p) \/ DeleteRow(p)
        BY <2>1, <3>5, TableAlone
      <3>6. CASE LoadUser(p)
        BY <2>1, <3>6, LoadUserAlone
      <3>7. CASE CloseCancels(p)
        BY <2>1, <3>7, CloseCancelsAlone
      <3>8. CASE DeleteEntry(p)
        BY <2>1, <3>8, DeleteEntryAlone
      <3>9. QED BY <2>2, <3>1, <3>2, <3>3, <3>4, <3>5, <3>6, <3>7, <3>8 DEF Step
    <2>3. ASSUME NEW h \in Hash, Sweep(h) PROVE AloneInv'
      BY <2>1, <2>3, StartAlone
    <2>4. ASSUME NEW o \in Obj, Background(o) PROVE AloneInv'
      BY <2>1, <2>4, BackgroundAlone
    <2>5. CASE Crash
      BY <2>1, <2>5, CrashAlone
    <2>6. CASE UNCHANGED vars
      BY <2>1, <2>6, SMT DEF AloneInv, IdleCalls, Alone, CallInv, RowInv, Promised, Matches, vars, mem, call
    <2>7. QED BY <2>1, <2>2, <2>3, <2>4, <2>5, <2>6 DEF Next
  <1>3. QED BY <1>1, <1>2, InvInductive, PTL DEF Spec

\* The map, the objects, the rows and the calls in progress keep their types.
THEOREM TypeCorrect == Spec => []TypeOK
  BY InvInductive, PTL DEF Inv

\* However many AddUser, DelUser and SetUser calls and the sweep interleave,
\* AuthUser finds a closed User only while a DelUser of its hash is one step
\* from removing it.
THEOREM ClosedUsersLeave == Spec => []ClosedNeverServed
  BY InvInductive, PTL DEF Inv

\* What AddUser and DelUser promised when they returned holds after any number
\* of crashes: the row is there, or gone for good, whatever the updaters,
\* the setters and the sweep do, on a hash whose calls never overlapped.
THEOREM PromisesSurvive == Spec => []Durable
  <1>1. AloneInv => Durable
    BY DEF AloneInv, Alone, Promised, Durable
  <1>2. QED BY <1>1, AloneInductive, PTL

\* With no call in progress and no failure so far, the rows hold the users and
\* their limits and quotas.
THEOREM RowsMatch == Spec => []RowMatchesUser
  <1>1. Inv /\ AloneInv => RowMatchesUser
    <2>1. SUFFICES ASSUME AloneInv, Quiet, faults = 0, NEW h \in Hash \ overlapped PROVE Matches(h)
      BY DEF RowMatchesUser, Matches
    <2>2. RowInv(h) /\ \A p \in Caller : arg[p] # h
      BY <2>1, NilAssumption DEF AloneInv, Alone, IdleCalls, Quiet
    <2>3. QED BY <2>2 DEF RowInv
  <1>2. QED BY <1>1, InvInductive, AloneInductive, PTL

\* Once every call has returned, a User that is out of the map is closed.
THEOREM RemovedAreClosed == Spec => []RemovedUsersCutOff
  <1>1. AloneInv => RemovedUsersCutOff
    BY DEF AloneInv, Alone, RemovedUsersCutOff
  <1>2. QED BY <1>1, AloneInductive, PTL

=============================================================================
