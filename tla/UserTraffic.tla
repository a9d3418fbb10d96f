----------------------------- MODULE UserTraffic -----------------------------
(***************************************************************************)
(* Traffic accounting and quota enforcement of one statistic/memory.User.  *)
(*                                                                         *)
(* Relay goroutines call AddSentTraffic and AddRecvTraffic: throttle, add  *)
(* atomically to one counter, load the other, load the quota, fire the     *)
(* cutoff.  No lock joins these steps.  Meanwhile ResetTraffic swaps the   *)
(* counters out (database flush, User.Close) and the operator stores a new *)
(* quota, new counters or a new speed limit.                               *)
(***************************************************************************)
EXTENDS Integers, Functions, FiniteSets

CONSTANTS
    Adder,      \* relay goroutines
    Resetter,   \* goroutines that call ResetTraffic or User.Close
    Chunks,     \* sizes of one Read or Write
    Quotas,     \* quotas the operator sets
    Bursts,     \* bursts of the limiters the operator installs
    Presets,    \* counter values the operator sets
    MaxBytes    \* bound on the bytes added in one direction

ASSUME ResetterAssumption == IsFiniteSet(Resetter)
ASSUME ChunksAssumption == Chunks \subseteq Nat
ASSUME QuotasAssumption == Quotas \subseteq Int
ASSUME BurstsAssumption == Bursts \subseteq Nat \ {0}
ASSUME PresetsAssumption == Presets \subseteq Nat
ASSUME MaxBytesAssumption == MaxBytes \in Nat

Dir == {"sent", "recv"}
Other(d) == IF d = "sent" THEN "recv" ELSE "sent"

VARIABLES
    cnt,        \* Sent and Recv
    limiter,    \* SendLimiter and RecvLimiter: the burst, 0 = nil
    quota,
    cutoff,     \* the cutoff channel is closed
    cancelled,  \* u.ctx is done
    \* the adders
    pc, dir,
    n,          \* bytes of the call
    burst,      \* burst of the limiter it snapshotted
    remaining,  \* bytes it still has to wait for
    total,      \* result of the atomic add, then the sum handed to checkQuota
    \* the resetters
    rpc, closing,
    taken,      \* what its swaps returned
    \* setTraffic
    preset,     \* the second store it still has to make, or none
    \* history
    added,      \* bytes added per direction
    preloaded,  \* sum of the values setTraffic stored
    replaced,   \* sum of the values setTraffic overwrote
    collected,  \* bytes handed to callers of ResetTraffic
    stale,      \* quota or counters were stored by the operator after the last add
    closed,     \* User.Close was called
    seen        \* quotas that were in force

None == -1
userVars == <<cnt, limiter, quota, cutoff, cancelled>>
adderVars == <<pc, dir, n, burst, remaining, total>>
resetVars == <<rpc, closing, taken>>
history == <<added, preloaded, replaced, collected, stale, closed, seen>>
vars == <<userVars, adderVars, resetVars, preset, history>>

TypeOK ==
    /\ cnt \in [Dir -> Nat]
    /\ limiter \in [Dir -> Nat]
    /\ quota \in Int
    /\ cutoff \in BOOLEAN /\ cancelled \in BOOLEAN
    /\ pc \in [Adder -> {"idle", "wait", "add", "added", "check", "fire", "cancel"}]
    /\ dir \in [Adder -> Dir]
    /\ n \in [Adder -> Nat]
    /\ burst \in [Adder -> Nat]
    /\ remaining \in [Adder -> Nat]
    /\ total \in [Adder -> Nat]
    /\ rpc \in [Resetter -> {"idle", "sent", "recv", "last", "fire", "cancel"}]
    /\ closing \in [Resetter -> BOOLEAN]
    /\ taken \in [Resetter -> [Dir -> Nat]]
    /\ preset \in Nat \cup {None}
    /\ added \in [Dir -> Nat]
    /\ preloaded \in [Dir -> Nat]
    /\ replaced \in [Dir -> Nat]
    /\ collected \in [Dir -> Nat]
    /\ stale \in BOOLEAN /\ closed \in BOOLEAN
    /\ seen \subseteq Int

Init ==
    /\ cnt = [d \in Dir |-> 0]
    /\ limiter = [d \in Dir |-> 0]
    /\ quota = -1
    /\ cutoff = FALSE /\ cancelled = FALSE
    /\ pc = [a \in Adder |-> "idle"]
    /\ dir = [a \in Adder |-> "sent"]
    /\ n = [a \in Adder |-> 0]
    /\ burst = [a \in Adder |-> 0]
    /\ remaining = [a \in Adder |-> 0]
    /\ total = [a \in Adder |-> 0]
    /\ rpc = [r \in Resetter |-> "idle"]
    /\ closing = [r \in Resetter |-> FALSE]
    /\ taken = [r \in Resetter |-> [d \in Dir |-> 0]]
    /\ preset = None
    /\ added = [d \in Dir |-> 0]
    /\ preloaded = [d \in Dir |-> 0]
    /\ replaced = [d \in Dir |-> 0]
    /\ collected = [d \in Dir |-> 0]
    /\ stale = FALSE /\ closed = FALSE
    /\ seen = {-1}
-----------------------------------------------------------------------------
(***************************************************************************)
(* AddSentTraffic and AddRecvTraffic.                                      *)
(***************************************************************************)

\* The call: the limiter of the direction is snapshotted under the read lock.
AddTraffic(a, d, k) ==
    /\ pc[a] = "idle"
    /\ pc' = [pc EXCEPT ![a] = IF limiter[d] = 0 \/ k = 0 THEN "add" ELSE "wait"]
    /\ dir' = [dir EXCEPT ![a] = d]
    /\ n' = [n EXCEPT ![a] = k]
    /\ burst' = [burst EXCEPT ![a] = limiter[d]]
    /\ remaining' = [remaining EXCEPT ![a] = k]
    /\ UNCHANGED <<userVars, total, resetVars, preset, history>>

\* Mutant: the write is not cut into pieces of at most burst bytes.
WholeWrite(a) == remaining[a]

Chunk(a) == IF remaining[a] > burst[a] THEN burst[a] ELSE remaining[a]

\* One WaitN of addLimited.  The limiter refuses at once what exceeds its
\* burst, and a done context ends the wait; either way the loop is left.
WaitN(a) ==
    /\ pc[a] = "wait"
    /\ \/ /\ Chunk(a) <= burst[a]
          /\ remaining' = [remaining EXCEPT ![a] = @ - Chunk(a)]
          /\ pc' = [pc EXCEPT ![a] = IF remaining'[a] > 0 THEN "wait" ELSE "add"]
       \/ /\ Chunk(a) > burst[a] \/ cancelled
          /\ pc' = [pc EXCEPT ![a] = "add"]
          /\ UNCHANGED remaining
    /\ UNCHANGED <<userVars, dir, n, burst, total, resetVars, preset, history>>

AtomicAdd(a) ==
    LET d == dir[a]
    IN  /\ pc[a] = "add"
        /\ added[d] + n[a] <= MaxBytes
        /\ pc' = [pc EXCEPT ![a] = "added"]
        /\ cnt' = [cnt EXCEPT ![d] = @ + n[a]]
        /\ total' = [total EXCEPT ![a] = cnt[d] + n[a]]
        /\ n' = [n EXCEPT ![a] = 0]
        /\ burst' = [burst EXCEPT ![a] = 0]
        /\ remaining' = [remaining EXCEPT ![a] = 0]
        /\ added' = [added EXCEPT ![d] = @ + n[a]]
        /\ stale' = FALSE
        /\ UNCHANGED <<limiter, quota, cutoff, cancelled, dir, resetVars, preset, preloaded, replaced,
                       collected, closed, seen>>

\* Mutant: the other direction is left out of the sum.
LoadOwnOnly(a) ==
    /\ pc[a] = "added"
    /\ pc' = [pc EXCEPT ![a] = "check"]
    /\ UNCHANGED <<userVars, dir, n, burst, remaining, total, resetVars, preset, history>>

LoadOther(a) ==
    /\ pc[a] = "added"
    /\ pc' = [pc EXCEPT ![a] = "check"]
    /\ total' = [total EXCEPT ![a] = @ + cnt[Other(dir[a])]]
    /\ UNCHANGED <<userVars, dir, n, burst, remaining, resetVars, preset, history>>

\* Mutant: a quota that means "unlimited" is enforced like a positive one.
UnlimitedIsAQuota(a) == total[a] >= quota

OverQuota(a) == quota > 0 /\ total[a] >= quota

\* checkQuota: load the quota and compare.  Locals are forgotten.
CheckQuota(a) ==
    /\ pc[a] = "check"
    /\ pc' = [pc EXCEPT ![a] = IF OverQuota(a) THEN "fire" ELSE "idle"]
    /\ total' = [total EXCEPT ![a] = 0]
    /\ dir' = [dir EXCEPT ![a] = "sent"]
    /\ UNCHANGED <<userVars, n, burst, remaining, resetVars, preset, history>>

FireCutoff(a) ==
    /\ pc[a] = "fire"
    /\ pc' = [pc EXCEPT ![a] = "cancel"]
    /\ cutoff' = TRUE
    /\ UNCHANGED <<cnt, limiter, quota, cancelled, dir, n, burst, remaining, total, resetVars, preset, history>>

CancelContext(a) ==
    /\ pc[a] = "cancel"
    /\ pc' = [pc EXCEPT ![a] = "idle"]
    /\ cancelled' = TRUE
    /\ UNCHANGED <<cnt, limiter, quota, cutoff, dir, n, burst, remaining, total, resetVars, preset, history>>
-----------------------------------------------------------------------------
(***************************************************************************)
(* ResetTraffic, alone or at the start of User.Close.                      *)
(***************************************************************************)

ResetTraffic(r, c) ==
    /\ rpc[r] = "idle"
    /\ rpc' = [rpc EXCEPT ![r] = "sent"]
    /\ closing' = [closing EXCEPT ![r] = c]
    /\ closed' = (closed \/ c)
    /\ UNCHANGED <<userVars, adderVars, taken, preset, added, preloaded, replaced, collected, stale, seen>>

\* Mutant: both swaps take the same counter.
SwapSentTwice(r) ==
    LET d == rpc[r]
    IN  /\ d \in Dir
        /\ rpc' = [rpc EXCEPT ![r] = IF d = "sent" THEN "recv" ELSE "last"]
        /\ taken' = [taken EXCEPT ![r][d] = cnt["sent"]]
        /\ cnt' = [cnt EXCEPT !["sent"] = 0]
        /\ UNCHANGED <<limiter, quota, cutoff, cancelled, adderVars, closing, preset, history>>

\* The two atomic swaps, Sent first.
Swap(r) ==
    LET d == rpc[r]
    IN  /\ d \in Dir
        /\ rpc' = [rpc EXCEPT ![r] = IF d = "sent" THEN "recv" ELSE "last"]
        /\ taken' = [taken EXCEPT ![r][d] = cnt[d]]
        /\ cnt' = [cnt EXCEPT ![d] = 0]
        /\ UNCHANGED <<limiter, quota, cutoff, cancelled, adderVars, closing, preset, history>>

\* The stores to lastSent and lastRecv and the return.
ResetReturns(r) ==
    /\ rpc[r] = "last"
    /\ rpc' = [rpc EXCEPT ![r] = IF closing[r] THEN "fire" ELSE "idle"]
    /\ collected' = [d \in Dir |-> collected[d] + taken[r][d]]
    /\ taken' = [taken EXCEPT ![r] = [d \in Dir |-> 0]]
    /\ closing' = [closing EXCEPT ![r] = FALSE]
    /\ UNCHANGED <<userVars, adderVars, preset, added, preloaded, replaced, stale, closed, seen>>

CloseFires(r) ==
    /\ rpc[r] = "fire"
    /\ rpc' = [rpc EXCEPT ![r] = "cancel"]
    /\ cutoff' = TRUE
    /\ UNCHANGED <<cnt, limiter, quota, cancelled, adderVars, closing, taken, preset, history>>

CloseCancels(r) ==
    /\ rpc[r] = "cancel"
    /\ rpc' = [rpc EXCEPT ![r] = "idle"]
    /\ cancelled' = TRUE
    /\ UNCHANGED <<cnt, limiter, quota, cutoff, adderVars, closing, taken, preset, history>>
-----------------------------------------------------------------------------
(***************************************************************************)
(* The operator.                                                           *)
(***************************************************************************)

SetQuota(q) ==
    /\ quota' = q
    /\ seen' = seen \cup {q}
    /\ stale' = TRUE
    /\ UNCHANGED <<cnt, limiter, cutoff, cancelled, adderVars, resetVars, preset, added, preloaded, replaced,
                   collected, closed>>

SetSpeedLimit(s, r) ==
    /\ limiter' = [d \in Dir |-> IF d = "sent" THEN s ELSE r]
    /\ UNCHANGED <<cnt, quota, cutoff, cancelled, adderVars, resetVars, preset, history>>

Preset(d, v) ==
    /\ cnt' = [cnt EXCEPT ![d] = v]
    /\ preloaded[d] + v <= MaxBytes
    /\ preloaded' = [preloaded EXCEPT ![d] = @ + v]
    /\ replaced' = [replaced EXCEPT ![d] = @ + cnt[d]]
    /\ stale' = TRUE
    /\ UNCHANGED <<limiter, quota, cutoff, cancelled, adderVars, resetVars, added, collected, closed, seen>>

\* setTraffic: two stores, Sent first.
SetTrafficSent(s, r) ==
    /\ preset = None
    /\ Preset("sent", s)
    /\ preset' = r

SetTrafficRecv ==
    /\ preset # None
    /\ Preset("recv", preset)
    /\ preset' = None
-----------------------------------------------------------------------------
Relay(a) ==
    \/ \E d \in Dir, k \in Chunks : AddTraffic(a, d, k)
    \/ WaitN(a)
    \/ AtomicAdd(a)
    \/ LoadOther(a)
    \/ CheckQuota(a)
    \/ FireCutoff(a)
    \/ CancelContext(a)

Flush(r) ==
    \/ \E c \in BOOLEAN : ResetTraffic(r, c)
    \/ Swap(r)
    \/ ResetReturns(r)
    \/ CloseFires(r)
    \/ CloseCancels(r)

Operator ==
    \/ \E q \in Quotas : SetQuota(q)
    \/ \E s, r \in Bursts \cup {0} : SetSpeedLimit(s, r)
    \/ \E s, r \in Presets : SetTrafficSent(s, r)
    \/ SetTrafficRecv

Next ==
    \/ \E a \in Adder : Relay(a)
    \/ \E r \in Resetter : Flush(r)
    \/ Operator

Spec == Init /\ [][Next]_vars
-----------------------------------------------------------------------------
(***************************************************************************)
(* Properties.                                                             *)
(***************************************************************************)

Quiet == \A a \in Adder : pc[a] \in {"idle", "wait", "add"}

\* Concurrent calls of AddSentTraffic and AddRecvTraffic cannot each miss the
\* other's bytes: once every call that added bytes has returned, a total at
\* or above the quota has fired the cutoff.  The comparison is made when
\* bytes are added, so it says nothing until the next add after the operator
\* stored a quota or counters.
CrossingDetected ==
    (Quiet /\ ~stale /\ quota > 0 /\ cnt["sent"] + cnt["recv"] >= quota) => cutoff

Counted == added["sent"] + preloaded["sent"] + added["recv"] + preloaded["recv"]

\* A user is cut off only by User.Close, or after the bytes counted for it
\* reached a positive quota that was in force: resets and stores between the
\* steps of checkQuota cut nobody off early, and quota 0 or -1 never does.
NoEarlyCutoff ==
    cutoff => (closed \/ \E q \in seen : q > 0 /\ Counted >= q)

Taken(d) == FoldFunction(LAMBDA t, acc : t[d] + acc, 0, taken)

\* Every byte added (or preset by setTraffic) is in the counter, was handed
\* to exactly one caller of ResetTraffic, or was overwritten by setTraffic,
\* however adds, flushes, stores and Close interleave.
NoByteLost ==
    \A d \in Dir :
        added[d] + preloaded[d] = cnt[d] + Taken(d) + collected[d] + replaced[d]

\* A write larger than the burst still waits for all of its bytes, unless the
\* user is cut off: the limiter is never silently bypassed (addLimited).
NeverBypassed ==
    \A a \in Adder : (pc[a] = "add" /\ burst[a] > 0) => (remaining[a] = 0 \/ cancelled)

=============================================================================
