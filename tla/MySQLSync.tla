------------------------------ MODULE MySQLSync ------------------------------
(***************************************************************************)
(* statistic/mysql.Authenticator: the updater loop between the in-memory   *)
(* users and table users of a MySQL database.                              *)
(*                                                                         *)
(* A cycle pings the database, moves the users' counters into a pending    *)
(* buffer, writes the buffer in batches and refreshes the users from the   *)
(* table.  Any statement may fail, before or after the database applied    *)
(* it.  Tunnels count traffic, the API changes users and an administrator  *)
(* edits the table meanwhile.                                              *)
(*                                                                         *)
(* The calls of the embedded memory.Authenticator are atomic here (module  *)
(* MemoryAuth takes them apart), and a user's two counters are one.        *)
(***************************************************************************)
EXTENDS Integers, FiniteSets

CONSTANTS
    Hash,
    Nil,
    BatchSize,      \* traffic_batch_size
    Quotas,         \* quotas in the table, and those set by the API
    Limits,         \* speed and IP limits
    MaxBytes,       \* bound on the bytes a user carries
    MaxFaults,      \* bound on failed statements
    MaxChanges      \* bound on the changes made by the API and the administrator

ASSUME BatchAssumption == BatchSize \in Nat \ {0}
ASSUME ValuesAssumption == Quotas \subseteq Int /\ Limits \subseteq Int
ASSUME BoundsAssumption == MaxBytes \in Nat /\ MaxFaults \in Nat /\ MaxChanges \in Nat

VARIABLES
    db,         \* table users: quota, limit and used = download + upload
    mem,        \* the in-memory users: quota, limit, counter, cutoff fired
    pending,    \* pendingTraffic
    upc,        \* the updater
    visit,      \* users it has still to visit in the loop it is in
    rows,       \* the result set of the SELECT
    named,      \* userMap: hashes of the rows it has read
    current,    \* the row it is applying
    apc, arg,   \* an API call that has changed mem and not yet the table
    faults, changes,
    \* history, per user
    carried,    \* bytes counted
    written,    \* bytes the database was told of
    repeated,   \* bytes it was told of by a statement that reported an error
    discarded   \* bytes dropped with the counter of a removed user

updater == <<upc, visit, rows, named, current>>
api == <<apc, arg>>
bounds == <<faults, changes>>
history == <<carried, written, repeated, discarded>>
vars == <<db, mem, pending, updater, api, bounds, history>>

DbRow == [quota : Int, limit : Int, used : Nat]
MemUser == [quota : Int, limit : Int, cnt : Nat, cut : BOOLEAN]

ASSUME NilAssumption == Nil \notin MemUser \cup DbRow \cup Hash

TypeOK ==
    /\ db \in [Hash -> DbRow \cup {Nil}]
    /\ mem \in [Hash -> MemUser \cup {Nil}]
    /\ pending \in [Hash -> Nat]
    /\ upc \in {"ping", "collect", "flush", "query", "rows", "limits", "quota", "prune", "wait"}
    /\ visit \subseteq Hash
    /\ rows \in [Hash -> DbRow \cup {Nil}]
    /\ named \subseteq Hash
    /\ current \in Hash \cup {Nil}
    /\ apc \in {"idle", "quota", "limit"}
    /\ arg \in (Hash \X Int) \cup {Nil}
    /\ faults \in 0 .. MaxFaults
    /\ changes \in 0 .. MaxChanges
    /\ {carried, written, repeated, discarded} \subseteq [Hash -> Nat]

None == [h \in Hash |-> Nil]
Zero == [h \in Hash |-> 0]
Present == {h \in Hash : mem[h] # Nil}

\* NewAuthenticator: no user is known before the first refresh.
Init ==
    /\ db \in [Hash -> {Nil} \cup [quota : Quotas, limit : Limits, used : {0}]]
    /\ mem = None
    /\ pending = Zero
    /\ upc = "ping" /\ visit = {} /\ rows = None /\ named = {} /\ current = Nil
    /\ apc = "idle" /\ arg = Nil
    /\ faults = 0 /\ changes = 0
    /\ carried = Zero /\ written = Zero /\ repeated = Zero /\ discarded = Zero

Fail ==
    /\ faults < MaxFaults
    /\ faults' = faults + 1
    /\ UNCHANGED changes

Change ==
    /\ changes < MaxChanges
    /\ changes' = changes + 1
    /\ UNCHANGED faults
-----------------------------------------------------------------------------
(***************************************************************************)
(* The embedded memory.Authenticator.                                      *)
(***************************************************************************)

NewUser == [quota |-> -1, limit |-> 0, cnt |-> 0, cut |-> FALSE]

\* DelUser closes the user, which resets its counters, and drops it.
Remove(h) ==
    /\ mem' = [mem EXCEPT ![h] = Nil]
    /\ discarded' = [discarded EXCEPT ![h] = @ + (IF mem[h] = Nil THEN 0 ELSE mem[h].cnt)]

\* A tunnel counts a byte; the user is cut off when the counter has reached a
\* positive quota.
AddTraffic(h) ==
    /\ mem[h] # Nil /\ ~mem[h].cut
    /\ carried[h] < MaxBytes
    /\ carried' = [carried EXCEPT ![h] = @ + 1]
    /\ LET total == mem[h].cnt + 1
       IN  mem' = [mem EXCEPT ![h].cnt = total,
                              ![h].cut = mem[h].quota > 0 /\ total >= mem[h].quota]
    /\ UNCHANGED <<db, pending, updater, api, bounds, written, repeated, discarded>>
-----------------------------------------------------------------------------
(***************************************************************************)
(* The updater: pingDB, collectPendingTraffic, flushPendingTraffic.        *)
(***************************************************************************)

PingDB ==
    /\ upc = "ping"
    /\ \/ upc' = "collect" /\ visit' = Present /\ UNCHANGED bounds
       \/ upc' = "wait" /\ Fail /\ UNCHANGED visit
    /\ UNCHANGED <<db, mem, pending, rows, named, current, api, history>>

\* One user of ListUsers: ResetTraffic, and the delta joins the buffer.
CollectUser(h) ==
    /\ upc = "collect" /\ h \in visit
    /\ visit' = visit \ {h}
    /\ mem' = [mem EXCEPT ![h].cnt = 0]
    /\ pending' = [pending EXCEPT ![h] = @ + mem[h].cnt]
    /\ UNCHANGED <<db, upc, rows, named, current, api, bounds, history>>

Collected ==
    /\ upc = "collect" /\ visit = {}
    /\ upc' = "flush"
    /\ visit' = {h \in Hash : pending[h] # 0}
    /\ UNCHANGED <<db, mem, pending, rows, named, current, api, bounds, history>>

Batches == {b \in SUBSET visit : Cardinality(b) = BatchSize \/ (Cardinality(b) < BatchSize /\ b = visit)}

\* The database adds the deltas of a batch to the rows that exist.
Applied(b) ==
    /\ db' = [h \in Hash |-> IF h \in b /\ db[h] # Nil THEN [db[h] EXCEPT !.used = @ + pending[h]] ELSE db[h]]
    /\ written' = [h \in Hash |-> written[h] + (IF h \in b THEN pending[h] ELSE 0)]

Forget(b) == pending' = [h \in Hash |-> IF h \in b THEN 0 ELSE pending[h]]

\* Mutant: a failed batch is not kept for the next cycle.
ForgetsFailed(b) ==
    /\ upc = "flush" /\ visit # {} /\ b \in Batches
    /\ \/ Applied(b) /\ UNCHANGED bounds
       \/ Fail /\ UNCHANGED <<db, written>>
    /\ Forget(b)
    /\ visit' = visit \ b
    /\ UNCHANGED <<mem, upc, rows, named, current, api, carried, repeated, discarded>>

\* Mutant: a batch that was written stays in the buffer.
KeepsWritten(b) ==
    /\ upc = "flush" /\ visit # {} /\ b \in Batches
    /\ Applied(b)
    /\ visit' = visit \ b
    /\ UNCHANGED <<mem, pending, upc, rows, named, current, api, bounds, carried, repeated, discarded>>

\* One UPDATE.  The order of the hashes decides only which of them share a
\* batch, so a batch is any set of the right size.  An error, whether the
\* database applied the statement or not, ends the cycle.
FlushBatch(b) ==
    /\ upc = "flush" /\ visit # {} /\ b \in Batches
    /\ \/ /\ Applied(b)
          /\ Forget(b)
          /\ visit' = visit \ b
          /\ UNCHANGED <<upc, bounds, repeated>>
       \/ /\ Fail
          /\ upc' = "wait" /\ visit' = {}
          /\ UNCHANGED <<db, pending, written, repeated>>
       \/ /\ Fail
          /\ Applied(b)
          /\ upc' = "wait" /\ visit' = {}
          /\ repeated' = [h \in Hash |-> repeated[h] + (IF h \in b THEN pending[h] ELSE 0)]
          /\ UNCHANGED pending
    /\ UNCHANGED <<mem, rows, named, current, api, carried, discarded>>

Flushed ==
    /\ upc = "flush" /\ visit = {}
    /\ upc' = "query"
    /\ UNCHANGED <<db, mem, pending, visit, rows, named, current, api, bounds, history>>
-----------------------------------------------------------------------------
(***************************************************************************)
(* The updater: refreshUsers and the wait for the next cycle.              *)
(***************************************************************************)

Query ==
    /\ upc = "query"
    /\ \/ /\ upc' = "rows"
          /\ rows' = db
          /\ visit' = {h \in Hash : db[h] # Nil}
          /\ UNCHANGED bounds
       \/ upc' = "wait" /\ Fail /\ UNCHANGED <<rows, visit>>
    /\ UNCHANGED <<db, mem, pending, named, current, api, history>>

Eligible(r) == r.used < r.quota \/ r.quota < 0

\* The next row: its user is added, unless it is there, or deleted.
ApplyRow(h) ==
    /\ upc = "rows" /\ h \in visit
    /\ visit' = visit \ {h}
    /\ named' = named \cup {h}
    /\ \/ /\ Eligible(rows[h])
          /\ mem' = [mem EXCEPT ![h] = IF @ = Nil THEN NewUser ELSE @]
          /\ current' = h
          /\ upc' = "limits"
          /\ UNCHANGED discarded
       \/ /\ ~Eligible(rows[h])
          /\ Remove(h)
          /\ UNCHANGED <<upc, current>>
    /\ UNCHANGED <<db, pending, rows, api, bounds, carried, written, repeated>>

\* SetUserSpeedLimit, SetUserIPLimit, then SetUserQuota, on the user if it is
\* still there.
ApplyLimits ==
    /\ upc = "limits"
    /\ upc' = "quota"
    /\ mem' = [mem EXCEPT ![current] = IF @ = Nil THEN @ ELSE [@ EXCEPT !.limit = rows[current].limit]]
    /\ UNCHANGED <<db, pending, visit, rows, named, current, api, bounds, history>>

ApplyQuota ==
    /\ upc = "quota"
    /\ upc' = "rows"
    /\ mem' = [mem EXCEPT ![current] = IF @ = Nil THEN @ ELSE [@ EXCEPT !.quota = rows[current].quota]]
    /\ current' = Nil
    /\ UNCHANGED <<db, pending, visit, rows, named, api, bounds, history>>

\* Mutant: an error while reading is taken for the end of the rows.
ErrorIsTheEnd ==
    /\ upc = "rows"
    /\ visit = {} \/ faults < MaxFaults
    /\ upc' = "prune"
    /\ visit' = Present
    /\ UNCHANGED <<db, mem, pending, rows, named, current, api, bounds, history>>

\* All rows were read, or reading one failed.
RowsEnd ==
    /\ upc = "rows"
    /\ \/ /\ visit = {}
          /\ upc' = "prune"
          /\ visit' = Present
          /\ UNCHANGED <<rows, named, bounds>>
       \/ /\ Fail
          /\ upc' = "wait" /\ visit' = {} /\ rows' = None /\ named' = {}
    /\ UNCHANGED <<db, mem, pending, current, api, history>>

\* Mutant: users without a row are kept.
NeverPrunes(h) ==
    /\ upc = "prune" /\ h \in visit
    /\ visit' = visit \ {h}
    /\ UNCHANGED <<db, mem, pending, upc, rows, named, current, api, bounds, history>>

\* A user without a row is deleted.
PruneUser(h) ==
    /\ upc = "prune" /\ h \in visit
    /\ visit' = visit \ {h}
    /\ IF h \notin named THEN Remove(h) ELSE UNCHANGED <<mem, discarded>>
    /\ UNCHANGED <<db, pending, upc, rows, named, current, api, bounds, carried, written, repeated>>

Pruned ==
    /\ upc = "prune" /\ visit = {}
    /\ upc' = "wait" /\ rows' = None /\ named' = {}
    /\ UNCHANGED <<db, mem, pending, visit, current, api, bounds, history>>

\* waitForNextUpdate.
NextUpdate ==
    /\ upc = "wait"
    /\ upc' = "ping"
    /\ UNCHANGED <<db, mem, pending, visit, rows, named, current, api, bounds, history>>
-----------------------------------------------------------------------------
(***************************************************************************)
(* The API and the administrator.                                          *)
(***************************************************************************)

\* AddUser and DelUser are those of the memory authenticator: the table does
\* not hear of them.  A deleted user leaves the updater's list: its counter
\* is zero.
APIAddUser(h) ==
    /\ apc = "idle" /\ mem[h] = Nil /\ Change
    /\ mem' = [mem EXCEPT ![h] = NewUser]
    /\ UNCHANGED <<db, pending, updater, api, history>>

APIDelUser(h) ==
    /\ apc = "idle" /\ mem[h] # Nil /\ Change
    /\ Remove(h)
    /\ visit' = IF upc = "collect" THEN visit \ {h} ELSE visit
    /\ UNCHANGED <<db, pending, upc, rows, named, current, api, carried, written, repeated>>

\* SetUserQuota, and SetUserSpeedLimit and SetUserIPLimit: first the user,
\* then, also when there is no such user, the table.
APISet(h, c, v) ==
    /\ apc = "idle" /\ Change
    /\ mem' = [mem EXCEPT ![h] = IF @ = Nil THEN @ ELSE [@ EXCEPT ![c] = v]]
    /\ apc' = c /\ arg' = <<h, v>>
    /\ UNCHANGED <<db, pending, updater, history>>

APIUpdate ==
    LET h == arg[1]
    IN  /\ apc # "idle"
        /\ \/ /\ db' = [db EXCEPT ![h] = IF @ = Nil THEN @ ELSE [@ EXCEPT ![apc] = arg[2]]]
              /\ UNCHANGED bounds
           \/ Fail /\ UNCHANGED db
        /\ apc' = "idle" /\ arg' = Nil
        /\ UNCHANGED <<mem, pending, updater, history>>

AdminInsert(h, r) ==
    /\ db[h] = Nil /\ Change
    /\ db' = [db EXCEPT ![h] = r]
    /\ UNCHANGED <<mem, pending, updater, api, history>>

AdminDelete(h) ==
    /\ db[h] # Nil /\ Change
    /\ db' = [db EXCEPT ![h] = Nil]
    /\ UNCHANGED <<mem, pending, updater, api, history>>
-----------------------------------------------------------------------------
Updater ==
    \/ PingDB
    \/ \E h \in Hash : CollectUser(h)
    \/ Collected
    \/ \E b \in SUBSET Hash : FlushBatch(b)
    \/ Flushed
    \/ Query
    \/ \E h \in Hash : ApplyRow(h)
    \/ ApplyLimits
    \/ ApplyQuota
    \/ RowsEnd
    \/ \E h \in Hash : PruneUser(h)
    \/ Pruned
    \/ NextUpdate

Environment ==
    \/ \E h \in Hash : AddTraffic(h) \/ APIAddUser(h) \/ APIDelUser(h) \/ AdminDelete(h)
    \/ \E h \in Hash, q \in Quotas : APISet(h, "quota", q)
    \/ \E h \in Hash, l \in Limits : APISet(h, "limit", l)
    \/ APIUpdate
    \/ \E h \in Hash, q \in Quotas, l \in Limits : AdminInsert(h, [quota |-> q, limit |-> l, used |-> 0])

Next == Updater \/ Environment

Spec == Init /\ [][Next]_vars

\* The updater goroutine and an API call in progress are always scheduled.
FairSpec == Spec /\ WF_vars(Updater) /\ WF_vars(APIUpdate)
-----------------------------------------------------------------------------
(***************************************************************************)
(* Properties.                                                             *)
(***************************************************************************)

Counter(h) == IF mem[h] = Nil THEN 0 ELSE mem[h].cnt

\* The bytes a user carried are in its counter, in the pending buffer or in
\* the database, or were dropped when the user was removed.  What the
\* database has beyond that, it was told by a statement that it applied and
\* that still reported an error.
Accounted ==
    \A h \in Hash : carried[h] + repeated[h] = written[h] + pending[h] + Counter(h) + discarded[h]

\* The traffic buffer as an abstract ledger: at least once, and nothing that
\* is in the buffer is lost, whatever statement fails.
Ledger == INSTANCE TrafficLedger
    WITH counter <- [h \in Hash |-> Counter(h)], buffer <- pending, stored <- written
LedgerSpec == Ledger!Spec

\* A failed ping, flush, query or read never takes a user out of the cache:
\* besides the API, only a row over its quota or a table without the user's
\* row does.
OnlyTheTableRemoves ==
    [][\A h \in Hash :
          (mem[h] # Nil /\ mem'[h] = Nil /\ changes' = changes) =>
              rows[h] = Nil \/ ~Eligible(rows[h])]_vars

InSync ==
    \A h \in Hash :
        /\ mem[h] # Nil <=> (db[h] # Nil /\ Eligible(db[h]))
        /\ mem[h] # Nil => mem[h].quota = db[h].quota /\ mem[h].limit = db[h].limit

\* Once traffic, failures and changes have ceased, the users in memory become
\* and stay the eligible rows, with their limits: whatever a stale refresh or
\* an API call that failed half way left behind is repaired.
Converges == <>[]InSync

=============================================================================
