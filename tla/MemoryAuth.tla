----------------------------- MODULE MemoryAuth -----------------------------
(***************************************************************************)
(* statistic/memory.Authenticator and its SQLite persistencer.             *)
(*                                                                         *)
(* API streams (operators) and the quota sweep add, change and delete      *)
(* users.  Every call works on the sync.Map of users, on a User object and *)
(* on a database row in separate steps, with no lock around them.  Each    *)
(* user's trafficUpdater writes its counters to the row on a ticker.  The  *)
(* process can crash between any two steps; NewAuthenticator rebuilds the  *)
(* map from the rows and adds the configured passwords.                    *)
(***************************************************************************)
EXTENDS Integers, FiniteSets

CONSTANTS
    Hash,       \* password hashes
    Obj,        \* User objects (bounds the users that exist at a time)
    Operator,   \* goroutines serving API streams
    Passwords,  \* hashes of the configured passwords
    Fields,     \* settings the operators change
    Values,     \* values they give them
    MaxTraffic, \* bound on a user's traffic
    MaxFaults,  \* bound on crashes and failed statements
    Nil

ASSUME PasswordsAssumption == Passwords \subseteq Hash
ASSUME FieldsAssumption == Fields \subseteq {"limit", "quota", "traffic"}
ASSUME ValuesAssumption == Values \subseteq Int
ASSUME BoundsAssumption == MaxTraffic \in Nat /\ MaxFaults \in Nat
ASSUME NilAssumption == Nil \notin Obj \cup Hash

\* The goroutine of NewAuthenticator and the one of the quota sweep.
Main == "main"
Sweeper == "sweeper"
Caller == Operator \cup {Main, Sweeper}

Column == {"limit", "quota", "traffic"}
NoRow == Nil
ASSUME RowAssumption == NoRow \notin [Column -> Int]

VARIABLES
    users,      \* the sync.Map
    hash,       \* User.Hash
    val,        \* limits, quota and counters of a User
    closed,     \* its context is cancelled
    row,        \* table users of the SQLite file
    \* trafficUpdater of each User
    upc, last, writing,
    \* the calls in progress
    pc, arg, target, snap, field,
    boot,       \* passwords NewAuthenticator has still to add
    faults,
    \* history
    ack,        \* what the last call that returned promised about a hash
    overlapped  \* hashes for which two calls were in progress at the same time

mem == <<users, hash, val, closed>>
updater == <<upc, last, writing>>
call == <<arg, target, snap, field>>
vars == <<mem, row, updater, pc, call, boot, overlapped, faults, ack>>

Row == [Column -> Int] \cup {NoRow}

TypeOK ==
    /\ users \in [Hash -> Obj \cup {Nil}]
    /\ hash \in [Obj -> Hash \cup {Nil}]
    /\ val \in [Obj -> [Column -> Int]]
    /\ closed \in [Obj -> BOOLEAN]
    /\ row \in [Hash -> Row]
    /\ upc \in [Obj -> {"off", "tick", "write"}]
    /\ last \in [Obj -> Int]
    /\ writing \in [Obj -> Int]
    /\ pc \in [Caller -> {"idle", "store", "set", "save", "write", "load", "close", "cancel", "unmap", "delete"}]
    /\ arg \in [Caller -> Hash \cup {Nil}]
    /\ target \in [Caller -> Obj \cup {Nil}]
    /\ snap \in [Caller -> Row]
    /\ field \in [Caller -> (Column \X Int) \cup {Nil}]
    /\ boot \subseteq Passwords
    /\ faults \in 0 .. MaxFaults
    /\ ack \in [Hash -> {"in", "out", "unknown"}]
    /\ overlapped \subseteq Hash

\* The fields of a User nobody has created.
Blank == [c \in Column |-> 0]

Idle(p) ==
    /\ pc' = [pc EXCEPT ![p] = "idle"]
    /\ arg' = [arg EXCEPT ![p] = Nil]
    /\ target' = [target EXCEPT ![p] = Nil]
    /\ snap' = [snap EXCEPT ![p] = NoRow]
    /\ field' = [field EXCEPT ![p] = Nil]

Init ==
    /\ users = [h \in Hash |-> Nil]
    /\ hash = [o \in Obj |-> Nil]
    /\ val = [o \in Obj |-> Blank]
    /\ closed = [o \in Obj |-> FALSE]
    /\ row = [h \in Hash |-> NoRow]
    /\ upc = [o \in Obj |-> "off"]
    /\ last = [o \in Obj |-> 0]
    /\ writing = [o \in Obj |-> 0]
    /\ pc = [p \in Caller |-> "idle"]
    /\ arg = [p \in Caller |-> Nil]
    /\ target = [p \in Caller |-> Nil]
    /\ snap = [p \in Caller |-> NoRow]
    /\ field = [p \in Caller |-> Nil]
    /\ boot = Passwords
    /\ faults = 0
    /\ ack = [h \in Hash |-> "unknown"]
    /\ overlapped = {}

Serving == boot = {} /\ pc[Main] = "idle"

\* A call starts: its hash, and what is promised about it until it returns.
Begin(p, h, next) ==
    /\ pc[p] = "idle"
    /\ pc' = [pc EXCEPT ![p] = next]
    /\ arg' = [arg EXCEPT ![p] = h]
    /\ overlapped' = IF \E q \in Caller : arg[q] = h THEN overlapped \cup {h} ELSE overlapped
-----------------------------------------------------------------------------
(***************************************************************************)
(* AddUser.                                                                *)
(***************************************************************************)

\* Bound: every AddUser past its check finds an unused object.
Room == Cardinality({p \in Caller : pc[p] = "store"}) < Cardinality({o \in Obj : hash[o] = Nil})

\* The check that the hash is free.
AddUser(p, h) ==
    /\ IF p = Main THEN h \in boot ELSE p \in Operator /\ Serving
    /\ boot' = IF p = Main THEN boot \ {h} ELSE boot
    /\ \/ /\ users[h] = Nil /\ Room
          /\ Begin(p, h, "store")
          /\ ack' = [ack EXCEPT ![h] = "unknown"]
          /\ UNCHANGED <<target, snap, field>>
       \/ /\ users[h] # Nil /\ pc[p] = "idle" /\ p = Main
          /\ UNCHANGED <<pc, call, ack, overlapped>>
    /\ UNCHANGED <<mem, row, updater, faults>>

\* The new User enters the map and its trafficUpdater starts.
StoreUser(p, o) ==
    /\ pc[p] = "store"
    /\ hash[o] = Nil
    /\ users' = [users EXCEPT ![arg[p]] = o]
    /\ hash' = [hash EXCEPT ![o] = arg[p]]
    /\ val' = [val EXCEPT ![o] = [c \in Column |-> IF c = "quota" THEN -1 ELSE 0]]
    /\ upc' = [upc EXCEPT ![o] = "tick"]
    /\ pc' = [pc EXCEPT ![p] = "save"]
    /\ target' = [target EXCEPT ![p] = o]
    /\ UNCHANGED <<closed, row, last, writing, arg, snap, field, boot, overlapped, faults, ack>>
-----------------------------------------------------------------------------
(***************************************************************************)
(* SetUserSpeedLimit, SetUserIPLimit, SetUserQuota, SetUserTraffic.        *)
(***************************************************************************)

SetUser(p, h, c, v) ==
    /\ p \in Operator /\ Serving
    /\ users[h] # Nil
    /\ Begin(p, h, "set")
    /\ target' = [target EXCEPT ![p] = users[h]]
    /\ field' = [field EXCEPT ![p] = <<c, v>>]
    /\ UNCHANGED <<mem, row, updater, snap, boot, faults, ack>>

SetField(p) ==
    /\ pc[p] = "set"
    /\ val' = [val EXCEPT ![target[p]][field[p][1]] = field[p][2]]
    /\ pc' = [pc EXCEPT ![p] = "save"]
    /\ UNCHANGED <<users, hash, closed, row, updater, call, boot, overlapped, faults, ack>>

\* SaveUser: the getters are called, then the row is inserted or replaced.
ReadFields(p) ==
    /\ pc[p] = "save"
    /\ snap' = [snap EXCEPT ![p] = val[target[p]]]
    /\ pc' = [pc EXCEPT ![p] = "write"]
    /\ UNCHANGED <<mem, row, updater, arg, target, field, boot, overlapped, faults, ack>>

\* Mutant: a row that is there is not replaced.
InsertOnly(p) ==
    /\ pc[p] = "write"
    /\ row' = [row EXCEPT ![arg[p]] = IF @ = NoRow THEN snap[p] ELSE @]
    /\ ack' = [ack EXCEPT ![arg[p]] = IF field[p] = Nil THEN "in" ELSE @]
    /\ Idle(p)
    /\ UNCHANGED <<mem, updater, boot, overlapped, faults>>

\* A failed statement is logged and the call still succeeds.
SaveUser(p) ==
    /\ pc[p] = "write"
    /\ \/ /\ row' = [row EXCEPT ![arg[p]] = snap[p]]
          /\ ack' = [ack EXCEPT ![arg[p]] = IF field[p] = Nil THEN "in" ELSE @]
          /\ UNCHANGED faults
       \/ /\ faults < MaxFaults
          /\ faults' = faults + 1
          /\ UNCHANGED <<row, ack>>
    /\ Idle(p)
    /\ UNCHANGED <<mem, updater, boot, overlapped>>
-----------------------------------------------------------------------------
(***************************************************************************)
(* DelUser, called by an operator or by the sweep.                         *)
(***************************************************************************)

DelUser(p, h) ==
    /\ p \in Operator /\ Serving
    /\ Begin(p, h, "load")
    /\ ack' = [ack EXCEPT ![h] = "unknown"]
    /\ UNCHANGED <<mem, row, updater, target, snap, field, boot, faults>>

\* One visit of the sweep's Range: the user is over a positive quota.
Sweep(h) ==
    LET o == users[h]
    IN  /\ o # Nil
        /\ val[o]["quota"] > 0
        /\ val[o]["traffic"] >= val[o]["quota"]
        /\ Begin(Sweeper, h, "load")
        /\ ack' = [ack EXCEPT ![h] = "unknown"]
        /\ UNCHANGED <<mem, row, updater, target, snap, field, boot, faults>>

\* The lookup: a hash that is not there is an error.
LoadUser(p) ==
    /\ pc[p] = "load"
    /\ \/ /\ users[arg[p]] = Nil
          /\ Idle(p)
       \/ /\ users[arg[p]] # Nil
          /\ pc' = [pc EXCEPT ![p] = "close"]
          /\ target' = [target EXCEPT ![p] = users[arg[p]]]
          /\ UNCHANGED <<arg, snap, field>>
    /\ UNCHANGED <<mem, row, updater, boot, overlapped, faults, ack>>

\* User.Close: the counters are reset, then the context is cancelled.
CloseResets(p) ==
    /\ pc[p] = "close"
    /\ pc' = [pc EXCEPT ![p] = "cancel"]
    /\ val' = [val EXCEPT ![target[p]]["traffic"] = 0]
    /\ UNCHANGED <<users, hash, closed, row, updater, call, boot, overlapped, faults, ack>>

\* Mutant: the user is removed without its tunnels being told.
SkipsCancel(p) ==
    /\ pc[p] = "cancel"
    /\ pc' = [pc EXCEPT ![p] = "unmap"]
    /\ UNCHANGED <<mem, row, updater, call, boot, overlapped, faults, ack>>

CloseCancels(p) ==
    /\ pc[p] = "cancel"
    /\ pc' = [pc EXCEPT ![p] = "unmap"]
    /\ closed' = [closed EXCEPT ![target[p]] = TRUE]
    /\ UNCHANGED <<users, hash, val, row, updater, call, boot, overlapped, faults, ack>>

\* Mutant: the closed user stays in the map.
KeepsClosed(p) ==
    /\ pc[p] = "unmap"
    /\ pc' = [pc EXCEPT ![p] = "delete"]
    /\ UNCHANGED <<mem, row, updater, call, boot, overlapped, faults, ack>>

\* The map entry of the hash goes, whichever object it holds by now.
DeleteEntry(p) ==
    /\ pc[p] = "unmap"
    /\ pc' = [pc EXCEPT ![p] = "delete"]
    /\ users' = [users EXCEPT ![arg[p]] = Nil]
    /\ UNCHANGED <<hash, val, closed, row, updater, call, boot, overlapped, faults, ack>>

\* The row goes; an error of the statement is dropped.
DeleteRow(p) ==
    /\ pc[p] = "delete"
    /\ \/ /\ row' = [row EXCEPT ![arg[p]] = NoRow]
          /\ ack' = [ack EXCEPT ![arg[p]] = "out"]
          /\ UNCHANGED faults
       \/ /\ faults < MaxFaults
          /\ faults' = faults + 1
          /\ UNCHANGED <<row, ack>>
    /\ Idle(p)
    /\ UNCHANGED <<mem, updater, boot, overlapped>>
-----------------------------------------------------------------------------
(***************************************************************************)
(* Traffic, its updater, and crashes.                                      *)
(***************************************************************************)

\* A tunnel counts a byte; it may hold a User that has left the map.
AddTraffic(o) ==
    /\ hash[o] # Nil
    /\ val[o]["traffic"] < MaxTraffic
    /\ val' = [val EXCEPT ![o]["traffic"] = @ + 1]
    /\ UNCHANGED <<users, hash, closed, row, updater, pc, call, boot, overlapped, faults, ack>>

\* A tick: select may prefer it to a context that is done.
TrafficTick(o) ==
    /\ upc[o] = "tick"
    /\ val[o]["traffic"] # last[o]
    /\ writing' = [writing EXCEPT ![o] = val[o]["traffic"]]
    /\ upc' = [upc EXCEPT ![o] = "write"]
    /\ UNCHANGED <<mem, row, last, pc, call, boot, overlapped, faults, ack>>

\* Mutant: the update inserts the row when there is none.
UpsertTraffic(o) ==
    /\ upc[o] = "write"
    /\ upc' = [upc EXCEPT ![o] = "tick"]
    /\ row' = [row EXCEPT ![hash[o]] = [val[o] EXCEPT !["traffic"] = writing[o]]]
    /\ last' = [last EXCEPT ![o] = writing[o]]
    /\ writing' = [writing EXCEPT ![o] = 0]
    /\ UNCHANGED <<mem, pc, call, boot, overlapped, faults, ack>>

\* UpdateUserTraffic changes a row that is there; after an error it is tried
\* again on a later tick.
UpdateUserTraffic(o) ==
    /\ upc[o] = "write"
    /\ upc' = [upc EXCEPT ![o] = "tick"]
    /\ \/ /\ row' = [row EXCEPT ![hash[o]] = IF @ = NoRow THEN @ ELSE [@ EXCEPT !["traffic"] = writing[o]]]
          /\ last' = [last EXCEPT ![o] = writing[o]]
          /\ UNCHANGED faults
       \/ /\ faults < MaxFaults
          /\ faults' = faults + 1
          /\ UNCHANGED <<row, last>>
    /\ writing' = [writing EXCEPT ![o] = 0]
    /\ UNCHANGED <<mem, pc, call, boot, overlapped, ack>>

UpdaterReturns(o) ==
    /\ upc[o] = "tick"
    /\ closed[o]
    /\ upc' = [upc EXCEPT ![o] = "off"]
    /\ last' = [last EXCEPT ![o] = 0]
    /\ UNCHANGED <<mem, row, writing, pc, call, boot, overlapped, faults, ack>>

\* Nothing refers to a closed User any more: the object is free again.
Forget(o) ==
    /\ hash[o] # Nil
    /\ closed[o] /\ users[hash[o]] # o
    /\ upc[o] = "off"
    /\ \A p \in Caller : target[p] # o
    /\ hash' = [hash EXCEPT ![o] = Nil]
    /\ val' = [val EXCEPT ![o] = Blank]
    /\ closed' = [closed EXCEPT ![o] = FALSE]
    /\ UNCHANGED <<users, row, updater, pc, call, boot, overlapped, faults, ack>>

\* The process dies and NewAuthenticator starts again: every row becomes a
\* User in an object of its own, with a trafficUpdater.
Crash ==
    /\ faults < MaxFaults
    /\ faults' = faults + 1
    /\ users' \in [Hash -> Obj \cup {Nil}]
    /\ \A h \in Hash : users'[h] = Nil <=> row[h] = NoRow
    /\ \A g, h \in Hash : (users'[g] = users'[h] /\ users'[g] # Nil) => g = h
    /\ hash' = [o \in Obj |-> IF \E h \in Hash : users'[h] = o
                              THEN CHOOSE h \in Hash : users'[h] = o ELSE Nil]
    /\ val' = [o \in Obj |-> IF hash'[o] # Nil THEN row[hash'[o]] ELSE Blank]
    /\ closed' = [o \in Obj |-> FALSE]
    /\ upc' = [o \in Obj |-> IF hash'[o] # Nil THEN "tick" ELSE "off"]
    /\ last' = [o \in Obj |-> 0]
    /\ writing' = [o \in Obj |-> 0]
    /\ pc' = [p \in Caller |-> "idle"]
    /\ arg' = [p \in Caller |-> Nil]
    /\ target' = [p \in Caller |-> Nil]
    /\ snap' = [p \in Caller |-> NoRow]
    /\ field' = [p \in Caller |-> Nil]
    /\ boot' = Passwords
    /\ UNCHANGED <<row, ack, overlapped>>
-----------------------------------------------------------------------------
Step(p) ==
    \/ \E h \in Hash : AddUser(p, h) \/ DelUser(p, h)
    \/ \E o \in Obj : StoreUser(p, o)
    \/ \E h \in Hash, c \in Fields, v \in Values : SetUser(p, h, c, v)
    \/ SetField(p)
    \/ ReadFields(p)
    \/ SaveUser(p)
    \/ LoadUser(p)
    \/ CloseResets(p)
    \/ CloseCancels(p)
    \/ DeleteEntry(p)
    \/ DeleteRow(p)

Background(o) ==
    \/ AddTraffic(o)
    \/ TrafficTick(o)
    \/ UpdateUserTraffic(o)
    \/ UpdaterReturns(o)
    \/ Forget(o)

Next ==
    \/ \E p \in Caller : Step(p)
    \/ \E h \in Hash : Sweep(h)
    \/ \E o \in Obj : Background(o)
    \/ Crash

Spec == Init /\ [][Next]_vars
-----------------------------------------------------------------------------
(***************************************************************************)
(* Properties.                                                             *)
(***************************************************************************)

Quiet == \A p \in Caller : pc[p] = "idle"

\* What a returned call promised survives a crash at any point: a user whose
\* AddUser wrote its row is there after every restart, and the row of a user
\* whose DelUser removed it does not come back, not through its
\* trafficUpdater either.  Calls that overlap on a hash promise nothing.
Durable ==
    \A h \in Hash \ overlapped :
        /\ ack[h] = "in" => row[h] # NoRow /\ users[h] # Nil
        /\ ack[h] = "out" => row[h] = NoRow /\ users[h] = Nil

\* When no call is in progress and no statement failed, the rows are the
\* users: the same hashes, with the limits and the quota in force, unless
\* calls overlapped on the hash.
RowMatchesUser ==
    (Quiet /\ Serving /\ faults = 0) =>
        \A h \in Hash \ overlapped :
            /\ users[h] = Nil <=> row[h] = NoRow
            /\ users[h] # Nil => \A c \in {"limit", "quota"} : row[h][c] = val[users[h]][c]

\* When no call is in progress, a User that is not in the map any more has
\* been closed: its tunnels have been told and its goroutines end.  Only
\* calls that overlap on the hash can leave one behind.
RemovedUsersCutOff ==
    Quiet => \A o \in Obj :
        (hash[o] \in Hash \ overlapped /\ users[hash[o]] # o) => closed[o]

\* A closed User is found by AuthUser only while the DelUser that closed it,
\* or another one of the same hash, is about to remove the entry.
ClosedNeverServed ==
    \A h \in Hash :
        (users[h] # Nil /\ closed[users[h]]) => \E p \in Caller : pc[p] = "unmap" /\ arg[p] = h

=============================================================================
