------------------------- MODULE UserTraffic_proofs -------------------------
(***************************************************************************)
(* Proofs about UserTraffic, for any number of relay goroutines and        *)
(* resetters and any sizes, quotas and bursts.                             *)
(*                                                                         *)
(* A crossing of the quota cannot be missed because the last add before    *)
(* the total reached the quota has seen, or is about to see, all of it:    *)
(* while the cutoff has not fired, some call on its way through checkQuota *)
(* is a witness of the crossing.                                           *)
(***************************************************************************)
EXTENDS UserTraffic, FiniteSetTheorems, WellFoundedInduction, TLAPS

\* Zenon proves the leaves that name no prover.
USE Zenon

\* This call will fire the cutoff if nothing is stored in between.
Witness(a) ==
    \/ /\ pc[a] = "added"
       /\ total[a] >= cnt[dir[a]]
       /\ total[a] + cnt[Other(dir[a])] >= quota
    \/ pc[a] = "check" /\ total[a] >= quota
    \/ pc[a] = "fire"

Crossed == ~stale /\ ~cutoff /\ quota > 0 /\ cnt["sent"] + cnt["recv"] >= quota

CrossingWitnessed == Crossed => \E a \in Adder : Witness(a)
-----------------------------------------------------------------------------
\* Steps of the relay goroutines keep the types.
LEMMA AdderTypes ==
    ASSUME TypeOK, NEW a \in Adder, Relay(a)
    PROVE  TypeOK'
  <1> USE DEF TypeOK, userVars, adderVars, resetVars, history
  <1>1. ASSUME NEW d \in Dir, NEW k \in Chunks, AddTraffic(a, d, k) PROVE TypeOK'
    BY <1>1, ChunksAssumption DEF AddTraffic
  <1>2. CASE WaitN(a)
    <2>1. remaining[a] \in Nat /\ burst[a] \in Nat
      OBVIOUS
    <2>2. Chunk(a) \in Nat /\ remaining[a] - Chunk(a) \in Nat
      BY <2>1, SMT DEF Chunk
    <2>3. remaining' \in [Adder -> Nat]
      BY <1>2, <2>2 DEF WaitN
    <2>4. pc' \in [Adder -> {"idle", "wait", "add", "added", "check", "fire", "cancel"}]
      BY <1>2 DEF WaitN
    <2>5. UNCHANGED <<userVars, dir, n, burst, total, resetVars, preset, history>>
      BY <1>2 DEF WaitN
    <2>6. QED BY <2>3, <2>4, <2>5
  <1>3. CASE AtomicAdd(a)
    <2>1. dir[a] \in Dir /\ n[a] \in Nat /\ cnt[dir[a]] \in Nat /\ added[dir[a]] \in Nat
      OBVIOUS
    <2>2. /\ cnt' \in [Dir -> Nat] /\ total' \in [Adder -> Nat] /\ added' \in [Dir -> Nat]
          /\ n' \in [Adder -> Nat] /\ burst' \in [Adder -> Nat] /\ remaining' \in [Adder -> Nat]
      BY <1>3, <2>1, SMT DEF AtomicAdd
    <2>3. pc' \in [Adder -> {"idle", "wait", "add", "added", "check", "fire", "cancel"}]
      BY <1>3 DEF AtomicAdd
    <2>4. stale' \in BOOLEAN
      BY <1>3 DEF AtomicAdd
    <2>5. UNCHANGED <<limiter, quota, cutoff, cancelled, dir, resetVars, preset, preloaded, replaced,
                      collected, closed, seen>>
      BY <1>3 DEF AtomicAdd
    <2>6. QED BY <2>2, <2>3, <2>4, <2>5
  <1>4. CASE LoadOther(a)
    <2>1. Other(dir[a]) \in Dir
      BY DEF Other, Dir
    <2>2. total[a] + cnt[Other(dir[a])] \in Nat
      BY <2>1, SMT
    <2>3. QED BY <1>4, <2>2 DEF LoadOther
  <1>5. CASE CheckQuota(a)
    BY <1>5 DEF CheckQuota, Dir
  <1>6. CASE FireCutoff(a)
    BY <1>6 DEF FireCutoff
  <1>7. CASE CancelContext(a)
    BY <1>7 DEF CancelContext
  <1>8. QED BY <1>1, <1>2, <1>3, <1>4, <1>5, <1>6, <1>7 DEF Relay

\* Steps of ResetTraffic and User.Close keep the types.
LEMMA ResetterTypes ==
    ASSUME TypeOK, NEW r \in Resetter, Flush(r)
    PROVE  TypeOK'
  <1> USE DEF TypeOK, userVars, adderVars, resetVars, history
  <1>1. ASSUME NEW c \in BOOLEAN, ResetTraffic(r, c) PROVE TypeOK'
    BY <1>1 DEF ResetTraffic
  <1>2. CASE Swap(r)
    <2>1. PICK d \in Dir : d = rpc[r]
      BY <1>2 DEF Swap
    <2>2. [taken[r] EXCEPT ![d] = cnt[d]] \in [Dir -> Nat]
      OBVIOUS
    <2>3. taken' = [taken EXCEPT ![r] = [taken[r] EXCEPT ![d] = cnt[d]]] /\ cnt' = [cnt EXCEPT ![d] = 0]
      BY <1>2, <2>1 DEF Swap
    <2>4. taken' \in [Resetter -> [Dir -> Nat]] /\ cnt' \in [Dir -> Nat]
      BY <2>2, <2>3
    <2>5. QED BY <1>2, <2>4 DEF Swap
  <1>3. CASE ResetReturns(r)
    BY <1>3, SMT DEF ResetReturns
  <1>4. CASE CloseFires(r)
    BY <1>4 DEF CloseFires
  <1>5. CASE CloseCancels(r)
    BY <1>5 DEF CloseCancels
  <1>6. QED BY <1>1, <1>2, <1>3, <1>4, <1>5 DEF Flush

\* Stores of the operator keep the types.
LEMMA OperatorTypes ==
    ASSUME TypeOK, Operator
    PROVE  TypeOK'
  <1> USE DEF TypeOK, adderVars, resetVars, history
  <1>1. ASSUME NEW q \in Quotas, SetQuota(q) PROVE TypeOK'
    BY <1>1, QuotasAssumption DEF SetQuota
  <1>2. ASSUME NEW s \in Bursts \cup {0}, NEW r \in Bursts \cup {0}, SetSpeedLimit(s, r) PROVE TypeOK'
    BY <1>2, BurstsAssumption, SMT DEF SetSpeedLimit
  <1>3. ASSUME NEW s \in Presets, NEW r \in Presets, SetTrafficSent(s, r) PROVE TypeOK'
    BY <1>3, PresetsAssumption, SMT DEF SetTrafficSent, Preset, Dir, None
  <1>4. CASE SetTrafficRecv
    BY <1>4, SMT DEF SetTrafficRecv, Preset, Dir, None
  <1>5. QED BY <1>1, <1>2, <1>3, <1>4 DEF Operator

\* Every step keeps the types.
LEMMA TypeStep == TypeOK /\ [Next]_vars => TypeOK'
  <1> SUFFICES ASSUME TypeOK, [Next]_vars PROVE TypeOK'
    OBVIOUS
  <1>1. CASE UNCHANGED vars
    BY <1>1 DEF vars, userVars, adderVars, resetVars, history, TypeOK
  <1>2. CASE Next
    BY <1>2, AdderTypes, ResetterTypes, OperatorTypes DEF Next
  <1>3. QED BY <1>1, <1>2

\* The counters, the locals of every call and the limiter arithmetic of
\* addLimited stay within their types: no wait for a negative remainder.
THEOREM TypeCorrect == Spec => []TypeOK
  <1>1. ASSUME Init PROVE TypeOK
    <2>1. dir \in [Adder -> Dir] /\ taken \in [Resetter -> [Dir -> Nat]]
      BY <1>1 DEF Init, Dir
    <2>2. cutoff \in BOOLEAN /\ cancelled \in BOOLEAN /\ stale \in BOOLEAN /\ closed \in BOOLEAN
      BY <1>1 DEF Init
    <2>3. closing \in [Resetter -> BOOLEAN]
      BY <1>1 DEF Init
    <2>4. quota \in Int /\ preset \in Nat \cup {None} /\ seen \subseteq Int
      BY <1>1, SMT DEF Init
    <2>5. QED BY <1>1, <2>1, <2>2, <2>3, <2>4 DEF Init, TypeOK
  <1>2. QED BY <1>1, TypeStep, PTL DEF Spec

-----------------------------------------------------------------------------
(***************************************************************************)
(* A crossing is never missed.                                             *)
(***************************************************************************)

\* Two directions.
LEMMA Directions ==
    ASSUME NEW d \in Dir
    PROVE  /\ Other(d) \in Dir /\ Other(d) # d
           /\ \/ d = "sent" /\ Other(d) = "recv"
              \/ d = "recv" /\ Other(d) = "sent"
  BY DEF Other, Dir

\* The relay goroutines keep the witness: each add makes its own call one.
LEMMA RelayWitness ==
    ASSUME TypeOK, CrossingWitnessed, NEW a \in Adder, Relay(a)
    PROVE  CrossingWitnessed'
  <1> USE DEF TypeOK
  <1>1. CASE AtomicAdd(a)
    <2>1. PICK d \in Dir : d = dir[a]
      OBVIOUS
    <2>2. /\ cnt[d] \in Nat /\ cnt[Other(d)] \in Nat /\ n[a] \in Nat
          /\ dir' = dir /\ quota' = quota /\ pc'[a] = "added"
          /\ cnt'[d] = cnt[d] + n[a] /\ cnt'[Other(d)] = cnt[Other(d)] /\ total'[a] = cnt[d] + n[a]
      BY <1>1, <2>1, Directions DEF AtomicAdd
    <2>3. cnt'[d] + cnt'[Other(d)] = cnt'["sent"] + cnt'["recv"]
      BY <2>2, Directions, SMT
    <2>4. Crossed' => Witness(a)'
      BY <2>1, <2>2, <2>3, SMT DEF Crossed, Witness
    <2>5. QED BY <2>4 DEF CrossingWitnessed
  <1>2. CASE LoadOther(a)
    <2>1. Witness(a) => Witness(a)'
      BY <1>2, Directions DEF LoadOther, Witness, userVars
    <2>2. \A b \in Adder : b # a => (Witness(b) => Witness(b)')
      BY <1>2 DEF LoadOther, Witness, userVars
    <2>3. Crossed' => Crossed
      BY <1>2 DEF LoadOther, Crossed, userVars, history
    <2>4. QED BY <2>1, <2>2, <2>3 DEF CrossingWitnessed
  <1>3. CASE CheckQuota(a)
    <2>1. Crossed' => Crossed
      BY <1>3 DEF CheckQuota, Crossed, userVars, history
    <2>2. Crossed /\ Witness(a) => Witness(a)'
      BY <1>3 DEF CheckQuota, Witness, OverQuota, Crossed
    <2>3. \A b \in Adder : b # a => (Witness(b) => Witness(b)')
      BY <1>3 DEF CheckQuota, Witness, userVars
    <2>4. QED BY <2>1, <2>2, <2>3 DEF CrossingWitnessed
  <1>4. CASE FireCutoff(a)
    BY <1>4 DEF FireCutoff, CrossingWitnessed, Crossed
  <1>5. CASE CancelContext(a)
    <2>1. Crossed' => Crossed
      BY <1>5 DEF CancelContext, Crossed, history
    <2>2. \A b \in Adder : Witness(b) => Witness(b)'
      BY <1>5 DEF CancelContext, Witness
    <2>3. QED BY <2>1, <2>2 DEF CrossingWitnessed
  <1>6. CASE WaitN(a)
    <2>1. Crossed' => Crossed
      BY <1>6 DEF WaitN, Crossed, userVars, history
    <2>2. \A b \in Adder : Witness(b) => Witness(b)'
      BY <1>6 DEF WaitN, Witness, userVars
    <2>3. QED BY <2>1, <2>2 DEF CrossingWitnessed
  <1>7. ASSUME NEW d \in Dir, NEW k \in Chunks, AddTraffic(a, d, k) PROVE CrossingWitnessed'
    <2>1. Crossed' => Crossed
      BY <1>7 DEF AddTraffic, Crossed, userVars, history
    <2>2. \A b \in Adder : Witness(b) => Witness(b)'
      BY <1>7 DEF AddTraffic, Witness, userVars
    <2>3. QED BY <2>1, <2>2 DEF CrossingWitnessed
  <1>8. QED BY <1>1, <1>2, <1>3, <1>4, <1>5, <1>6, <1>7 DEF Relay

\* A reset keeps the witness: what it takes away, the witness has already
\* counted.
LEMMA FlushWitness ==
    ASSUME TypeOK, CrossingWitnessed, NEW r \in Resetter, Flush(r)
    PROVE  CrossingWitnessed'
  <1> USE DEF TypeOK
  <1>1. CASE Swap(r)
    <2>1. PICK d \in Dir : d = rpc[r]
      BY <1>1 DEF Swap
    <2>2. /\ cnt' = [cnt EXCEPT ![d] = 0] /\ UNCHANGED <<adderVars, quota, cutoff, stale>>
      BY <1>1, <2>1 DEF Swap, history
    <2>3. cnt'["sent"] + cnt'["recv"] <= cnt["sent"] + cnt["recv"]
      BY <2>2, SMT DEF Dir
    <2>4. Crossed' => Crossed
      BY <2>2, <2>3, SMT DEF Crossed, Dir
    <2>5. ASSUME NEW a \in Adder, Witness(a), Crossed' PROVE Witness(a)'
      <3>1. CASE pc[a] = "added"
        <4>1. PICK e \in Dir : e = dir[a]
          OBVIOUS
        <4>2. total[a] >= cnt[e] /\ total[a] + cnt[Other(e)] >= quota
          BY <2>5, <3>1, <4>1 DEF Witness
        <4>3. cnt'[e] + cnt'[Other(e)] >= quota
          BY <2>2, <2>5, Directions, SMT DEF Crossed
        <4>4. total[a] \in Nat /\ cnt[e] \in Nat /\ cnt[Other(e)] \in Nat
          BY Directions
        <4>5. /\ d = e => cnt'[e] = 0 /\ cnt'[Other(e)] = cnt[Other(e)]
              /\ d # e => cnt'[e] = cnt[e] /\ cnt'[Other(e)] = 0
          BY <2>2, Directions
        <4>6. total[a] >= cnt'[e] /\ total[a] + cnt'[Other(e)] >= quota
          BY <4>2, <4>3, <4>4, <4>5, SMT
        <4>7. QED BY <2>2, <3>1, <4>1, <4>6 DEF Witness, adderVars
      <3>2. CASE pc[a] # "added"
        BY <2>2, <2>5, <3>2 DEF Witness, adderVars
      <3>3. QED BY <3>1, <3>2
    <2>6. QED BY <2>4, <2>5 DEF CrossingWitnessed
  <1>2. CASE CloseFires(r)
    BY <1>2 DEF CloseFires, CrossingWitnessed, Crossed
  <1>3. CASE UNCHANGED <<cnt, quota, cutoff, adderVars, stale>>
    <2>1. Crossed' => Crossed
      BY <1>3 DEF Crossed
    <2>2. \A b \in Adder : Witness(b) => Witness(b)'
      BY <1>3 DEF Witness, adderVars
    <2>3. QED BY <2>1, <2>2 DEF CrossingWitnessed
  <1>4. QED BY <1>1, <1>2, <1>3 DEF Flush, ResetTraffic, ResetReturns, CloseCancels, userVars, history

\* Concurrent adds, resets and stores never let a crossing of the quota pass
\* unnoticed: the guarantee of checkQuota, for any number of goroutines.
THEOREM CrossingCorrect == Spec => []CrossingDetected
  <1>1. Init => CrossingWitnessed
    BY SMT DEF Init, CrossingWitnessed, Crossed, Dir
  <1>2. TypeOK /\ CrossingWitnessed /\ [Next]_vars => CrossingWitnessed'
    <2>1. SUFFICES ASSUME TypeOK, CrossingWitnessed, [Next]_vars PROVE CrossingWitnessed'
      OBVIOUS
    <2>2. CASE UNCHANGED <<cnt, quota, cutoff, adderVars, stale>>
      <3>1. Crossed' => Crossed
        BY <2>2 DEF Crossed
      <3>2. \A b \in Adder : Witness(b) => Witness(b)'
        BY <2>2 DEF Witness, adderVars
      <3>3. QED BY <2>1, <3>1, <3>2 DEF CrossingWitnessed
    <2>3. CASE Operator
      <3>1. CASE stale'
        BY <3>1 DEF CrossingWitnessed, Crossed
      <3>2. CASE \E s, r \in Bursts \cup {0} : SetSpeedLimit(s, r)
        BY <2>2, <3>2 DEF SetSpeedLimit, history
      <3>3. QED BY <2>3, <3>1, <3>2 DEF Operator, SetQuota, SetTrafficSent, SetTrafficRecv, Preset
    <2>4. QED BY <2>1, <2>2, <2>3, RelayWitness, FlushWitness DEF Next, vars, userVars, history
  <1>3. TypeOK /\ CrossingWitnessed => CrossingDetected
    BY DEF CrossingDetected, CrossingWitnessed, Crossed, Quiet, Witness
  <1>4. QED BY <1>1, <1>2, <1>3, TypeCorrect, PTL DEF Spec

\* The limiter is never silently bypassed, for any burst and any write size.
THEOREM ThrottleCorrect == Spec => []NeverBypassed
  <1>1. Init => NeverBypassed
    BY DEF Init, NeverBypassed
  <1>2. TypeOK /\ NeverBypassed /\ [Next]_vars => NeverBypassed'
    <2>1. SUFFICES ASSUME TypeOK, NeverBypassed, [Next]_vars PROVE NeverBypassed'
      OBVIOUS
    <2>2. CASE UNCHANGED <<pc, burst, remaining>> /\ (cancelled => cancelled')
      BY <2>1, <2>2 DEF NeverBypassed
    <2>3. ASSUME NEW a \in Adder, Relay(a) PROVE NeverBypassed'
      <3>1. CASE WaitN(a)
        <4>1. remaining[a] \in Nat /\ burst[a] \in Nat
          BY <2>1 DEF TypeOK
        <4>2. Chunk(a) <= burst[a] /\ Chunk(a) \in Nat
          BY <4>1, SMT DEF Chunk
        <4>3. \/ remaining'[a] = remaining[a] - Chunk(a) /\ (pc'[a] = "add" => ~(remaining'[a] > 0))
              \/ cancelled
          BY <2>1, <3>1, <4>1, <4>2, SMT DEF WaitN, TypeOK
        <4>4. remaining[a] - Chunk(a) \in Nat
          <5>1. Chunk(a) <= remaining[a]
            BY <4>1, SMT DEF Chunk
          <5>2. QED BY <4>1, <4>2, <5>1, SMT
        <4>5. QED BY <2>1, <3>1, <4>3, <4>4, SMT DEF WaitN, NeverBypassed, TypeOK, userVars
      <3>2. CASE \E d \in Dir, k \in Chunks : AddTraffic(a, d, k)
        <4>1. PICK d \in Dir, k \in Chunks : AddTraffic(a, d, k)
          BY <3>2
        <4>2. k \in Nat /\ limiter[d] \in Nat
          BY <2>1, ChunksAssumption DEF TypeOK
        <4>3. pc'[a] = "add" => burst'[a] = 0 \/ remaining'[a] = 0
          BY <2>1, <4>1, <4>2 DEF AddTraffic, TypeOK
        <4>4. burst'[a] \in Nat
          BY <2>1, <4>1, <4>2 DEF AddTraffic, TypeOK
        <4>5. QED BY <2>1, <4>1, <4>3, <4>4, SMT DEF AddTraffic, NeverBypassed, TypeOK, userVars
      <3>3. CASE AtomicAdd(a)
        BY <2>1, <3>3 DEF AtomicAdd, NeverBypassed, TypeOK
      <3>4. CASE LoadOther(a) \/ CheckQuota(a) \/ FireCutoff(a) \/ CancelContext(a)
        BY <2>1, <3>4 DEF LoadOther, CheckQuota, FireCutoff, CancelContext, NeverBypassed, TypeOK, userVars
      <3>5. QED BY <2>3, <3>1, <3>2, <3>3, <3>4 DEF Relay
    <2>4. ASSUME NEW r \in Resetter, Flush(r) PROVE UNCHANGED <<pc, burst, remaining>> /\ (cancelled => cancelled')
      BY <2>4, SMT DEF Flush, ResetTraffic, Swap, ResetReturns, CloseFires, CloseCancels, adderVars, userVars
    <2>5. ASSUME Operator PROVE UNCHANGED <<pc, burst, remaining>> /\ (cancelled => cancelled')
      <3>1. CASE \E q \in Quotas : SetQuota(q)
        BY <3>1, SMT DEF SetQuota, adderVars
      <3>2. CASE \E s, r \in Bursts \cup {0} : SetSpeedLimit(s, r)
        BY <3>2, SMT DEF SetSpeedLimit, adderVars
      <3>3. CASE (\E s, r \in Presets : SetTrafficSent(s, r)) \/ SetTrafficRecv
        BY <3>3, SMT DEF SetTrafficSent, SetTrafficRecv, Preset, adderVars
      <3>4. QED BY <2>5, <3>1, <3>2, <3>3 DEF Operator
    <2>6. QED BY <2>1, <2>2, <2>3, <2>4, <2>5, SMT DEF Next, vars, adderVars, userVars
  <1>3. QED BY <1>1, <1>2, TypeCorrect, PTL DEF Spec

-----------------------------------------------------------------------------
(***************************************************************************)
(* Nobody is cut off early: what a call sums up was really counted, so a   *)
(* sum that reaches the quota exhausts it.                                 *)
(***************************************************************************)

\* The bytes that were ever counted reached a quota that was in force.
Exhausted == \E q \in seen : q > 0 /\ Counted >= q

Ever(d) == added[d] + preloaded[d]

\* What a call has summed up so far was really counted.
SumsBounded ==
    /\ quota \in seen
    /\ \A d \in Dir : cnt[d] <= Ever(d)
    /\ \A a \in Adder : /\ pc[a] = "added" => total[a] <= Ever(dir[a])
                        /\ pc[a] = "check" => total[a] <= Counted
                        /\ pc[a] = "fire" => Exhausted
    /\ \A r \in Resetter : /\ closing[r] /\ rpc[r] # "idle" => closed
                           /\ rpc[r] \in {"fire", "cancel"} => closed
BoundedAndJust == SumsBounded /\ NoEarlyCutoff

\* What counts only grows, so a quota once exhausted stays exhausted.
LEMMA CountedGrows ==
    ASSUME TypeOK, TypeOK', seen \subseteq seen', \A d \in Dir : Ever(d) <= Ever(d)'
    PROVE  Counted <= Counted' /\ (Exhausted => Exhausted')
  <1>1. /\ Ever("sent") <= Ever("sent")' /\ Ever("recv") <= Ever("recv")'
    BY DEF Dir
  <1>2. /\ Ever("sent") \in Nat /\ Ever("recv") \in Nat /\ Ever("sent")' \in Nat /\ Ever("recv")' \in Nat
        /\ Counted = Ever("sent") + Ever("recv") /\ Counted' = Ever("sent")' + Ever("recv")'
    BY SMT DEF Ever, TypeOK, Dir, Counted
  <1>3. Counted <= Counted' /\ Counted \in Nat /\ Counted' \in Nat
    BY <1>1, <1>2, SMT
  <1>4. \A q \in seen : q \in Int /\ q \in seen'
    BY DEF TypeOK
  <1>5. QED BY <1>3, <1>4, SMT DEF Exhausted

\* Each direction is part of the total.
LEMMA EverCounted ==
    ASSUME TypeOK, NEW d \in Dir
    PROVE  /\ Ever(d) \in Nat /\ Counted \in Nat
           /\ Counted = Ever(d) + Ever(Other(d))
  BY Directions, SMT DEF Ever, Counted, TypeOK, Dir

\* Adding, summing up and comparing keep the bounds; only a call whose sum
\* was really counted fires.
LEMMA RelayBounded ==
    ASSUME TypeOK, TypeOK', BoundedAndJust, NEW a \in Adder, Relay(a)
    PROVE  BoundedAndJust'
  <1> USE DEF BoundedAndJust
  <1>1. CASE AtomicAdd(a)
    <2>1. PICK d \in Dir : d = dir[a]
      BY DEF TypeOK
    <2>2. /\ cnt[d] \in Nat /\ added[d] \in Nat /\ preloaded[d] \in Nat /\ n[a] \in Nat
          /\ cnt' = [cnt EXCEPT ![d] = @ + n[a]] /\ added' = [added EXCEPT ![d] = @ + n[a]]
          /\ total' = [total EXCEPT ![a] = cnt[d] + n[a]] /\ pc' = [pc EXCEPT ![a] = "added"]
          /\ UNCHANGED <<preloaded, dir, quota, seen, cutoff, closed, closing, rpc>>
      BY <1>1, <2>1 DEF AtomicAdd, TypeOK, resetVars
    <2>3. \A e \in Dir : Ever(e) <= Ever(e)' /\ cnt'[e] <= Ever(e)'
      BY <2>2, SMT DEF Ever, SumsBounded, TypeOK
    <2>4. Counted <= Counted' /\ (Exhausted => Exhausted')
      BY <2>2, <2>3, CountedGrows
    <2>5. total'[a] <= Ever(d)'
      BY <2>2, <2>3 DEF TypeOK
    <2>6. ASSUME NEW b \in Adder
          PROVE  /\ pc'[b] = "added" => total'[b] <= Ever(dir[b])'
                 /\ pc'[b] = "check" => total'[b] <= Counted'
                 /\ pc'[b] = "fire" => Exhausted'
      <3>1. CASE b = a
        BY <2>1, <2>2, <2>5, <3>1 DEF TypeOK
      <3>2. CASE b # a
        <4>1. pc'[b] = pc[b] /\ total'[b] = total[b] /\ total[b] \in Nat /\ dir[b] \in Dir
          BY <2>2, <3>2 DEF TypeOK
        <4>2. PICK e \in Dir : e = dir[b]
          BY <4>1
        <4>3. Ever(e) \in Nat /\ Ever(e)' \in Nat /\ Ever(e) <= Ever(e)' /\ Counted \in Nat /\ Counted' \in Nat
          BY <2>3, EverCounted, SMT DEF TypeOK, Ever, Counted, Dir
        <4>4. dir'[b] = e
          BY <2>2, <4>2
        <4>5. QED BY <2>4, <4>1, <4>2, <4>3, <4>4, SMT DEF SumsBounded
      <3>3. QED BY <3>1, <3>2
    <2>7. NoEarlyCutoff'
      BY <2>2, <2>4 DEF NoEarlyCutoff, Exhausted
    <2>8. QED BY <2>2, <2>3, <2>6, <2>7 DEF SumsBounded
  <1>2. CASE LoadOther(a)
    <2>1. PICK d \in Dir : d = dir[a]
      BY DEF TypeOK
    <2>2. /\ total' = [total EXCEPT ![a] = @ + cnt[Other(d)]] /\ pc' = [pc EXCEPT ![a] = "check"] /\ pc[a] = "added"
          /\ UNCHANGED <<cnt, added, preloaded, dir, quota, seen, cutoff, closed, closing, rpc>>
      BY <1>2, <2>1 DEF LoadOther, userVars, resetVars, history
    <2>3. total[a] \in Nat /\ cnt[Other(d)] \in Nat /\ Ever(d) \in Nat /\ Ever(Other(d)) \in Nat
      BY Directions, EverCounted DEF TypeOK
    <2>4. total[a] <= Ever(d) /\ cnt[Other(d)] <= Ever(Other(d))
      BY <2>1, <2>2, Directions DEF SumsBounded
    <2>5. total[a] + cnt[Other(d)] <= Counted
      BY <2>3, <2>4, EverCounted, SMT
    <2>6. Counted' = Counted /\ (Exhausted => Exhausted') /\ \A e \in Dir : Ever(e)' = Ever(e)
      BY <2>2 DEF Counted, Exhausted, Ever
    <2>7. total'[a] <= Counted'
      BY <2>2, <2>5, <2>6 DEF TypeOK
    <2>8. QED BY <2>2, <2>6, <2>7 DEF SumsBounded, NoEarlyCutoff, TypeOK, Ever
  <1>3. CASE CheckQuota(a)
    <2>1. /\ pc' = [pc EXCEPT ![a] = IF OverQuota(a) THEN "fire" ELSE "idle"] /\ pc[a] = "check"
          /\ total' = [total EXCEPT ![a] = 0] /\ dir' = [dir EXCEPT ![a] = "sent"]
          /\ UNCHANGED <<cnt, added, preloaded, quota, seen, cutoff, closed, closing, rpc>>
      BY <1>3 DEF CheckQuota, userVars, resetVars, history
    <2>2. total[a] <= Counted /\ total[a] \in Nat /\ Counted \in Nat /\ quota \in Int
      BY <2>1, EverCounted DEF SumsBounded, TypeOK, Dir
    <2>3. OverQuota(a) => Exhausted
      BY <2>2, SMT DEF OverQuota, Exhausted, SumsBounded
    <2>4. Counted' = Counted /\ (Exhausted => Exhausted') /\ \A e \in Dir : Ever(e)' = Ever(e)
      BY <2>1 DEF Counted, Exhausted, Ever
    <2>5. QED BY <2>1, <2>3, <2>4 DEF SumsBounded, NoEarlyCutoff, TypeOK, Ever
  <1>4. CASE FireCutoff(a)
    <2>1. Exhausted
      BY <1>4 DEF FireCutoff, SumsBounded
    <2>2. Counted' = Counted /\ (Exhausted => Exhausted') /\ \A e \in Dir : Ever(e)' = Ever(e)
      BY <1>4 DEF Counted, Exhausted, Ever, FireCutoff, history
    <2>3. NoEarlyCutoff'
      BY <2>1, <2>2 DEF NoEarlyCutoff, Exhausted
    <2>4. SumsBounded'
      BY <1>4, <2>2 DEF SumsBounded, FireCutoff, resetVars, history, TypeOK, Ever
    <2>5. QED BY <2>3, <2>4
  <1>5. CASE CancelContext(a)
    BY <1>5 DEF CancelContext, SumsBounded, NoEarlyCutoff, Exhausted, Counted, Ever, resetVars, history, TypeOK
  <1>6. CASE WaitN(a)
    BY <1>6, ZenonT(30) DEF WaitN, SumsBounded, NoEarlyCutoff, Exhausted, Counted, Ever, resetVars, userVars, history, TypeOK
  <1>7. ASSUME NEW d \in Dir, NEW k \in Chunks, AddTraffic(a, d, k) PROVE BoundedAndJust'
    BY <1>7 DEF AddTraffic, SumsBounded, NoEarlyCutoff, Exhausted, Counted, Ever, resetVars, userVars, history, TypeOK
  <1>8. QED BY <1>1, <1>2, <1>3, <1>4, <1>5, <1>6, <1>7 DEF Relay

\* A reset only lowers counters, and only Close goes on to fire.
LEMMA FlushBounded ==
    ASSUME TypeOK, TypeOK', BoundedAndJust, NEW r \in Resetter, Flush(r)
    PROVE  BoundedAndJust'
  <1> USE DEF BoundedAndJust
  <1>1. ASSUME NEW c \in BOOLEAN, ResetTraffic(r, c) PROVE BoundedAndJust'
    <2>1. /\ rpc' = [rpc EXCEPT ![r] = "sent"] /\ closing' = [closing EXCEPT ![r] = c]
          /\ closed' = (closed \/ c)
          /\ UNCHANGED <<cnt, added, preloaded, quota, seen, cutoff, adderVars>>
      BY <1>1 DEF ResetTraffic, userVars
    <2>2. Counted' = Counted /\ (Exhausted => Exhausted') /\ \A e \in Dir : Ever(e)' = Ever(e)
      BY <2>1 DEF Counted, Exhausted, Ever
    <2>3. NoEarlyCutoff'
      BY <2>1, <2>2 DEF NoEarlyCutoff, Exhausted
    <2>4. \A s \in Resetter : /\ closing'[s] /\ rpc'[s] # "idle" => closed'
                              /\ rpc'[s] \in {"fire", "cancel"} => closed'
      BY <2>1 DEF SumsBounded, TypeOK
    <2>5. QED BY <2>1, <2>2, <2>3, <2>4 DEF SumsBounded, adderVars, Ever, TypeOK
  <1>2. CASE Swap(r)
    <2>1. PICK d \in Dir : d = rpc[r]
      BY <1>2 DEF Swap
    <2>2. /\ cnt' = [cnt EXCEPT ![d] = 0] /\ rpc' = [rpc EXCEPT ![r] = IF d = "sent" THEN "recv" ELSE "last"]
          /\ UNCHANGED <<added, preloaded, quota, seen, cutoff, adderVars, closing, closed>>
      BY <1>2, <2>1 DEF Swap, history
    <2>3. \A e \in Dir : Ever(e)' = Ever(e) /\ Ever(e) \in Nat /\ cnt'[e] <= Ever(e)'
      BY <2>2, SMT DEF Ever, SumsBounded, TypeOK
    <2>4. Counted' = Counted /\ (Exhausted => Exhausted')
      BY <2>2 DEF Counted, Exhausted
    <2>5. NoEarlyCutoff'
      BY <2>2, <2>4 DEF NoEarlyCutoff, Exhausted
    <2>6. rpc[r] # "idle" /\ rpc'[r] \notin {"fire", "cancel"}
      BY <2>1, <2>2 DEF Dir, TypeOK
    <2>7. \A s \in Resetter : /\ closing'[s] /\ rpc'[s] # "idle" => closed'
                              /\ rpc'[s] \in {"fire", "cancel"} => closed'
      BY <2>2, <2>6 DEF SumsBounded, TypeOK
    <2>8. QED BY <2>2, <2>3, <2>4, <2>5, <2>7, SMT DEF SumsBounded, adderVars, TypeOK
  <1>3. CASE ResetReturns(r) \/ CloseFires(r) \/ CloseCancels(r)
    <2>1. /\ UNCHANGED <<cnt, added, preloaded, quota, seen, adderVars, closed>>
          /\ closing' = closing \/ closing' = [closing EXCEPT ![r] = FALSE]
          /\ cutoff' => cutoff \/ closed
      BY <1>3, SMT DEF ResetReturns, CloseFires, CloseCancels, SumsBounded, userVars, history
    <2>2. Counted' = Counted /\ (Exhausted => Exhausted') /\ \A e \in Dir : Ever(e)' = Ever(e)
      BY <2>1 DEF Counted, Exhausted, Ever
    <2>3. NoEarlyCutoff'
      BY <2>1, <2>2 DEF NoEarlyCutoff, Exhausted
    <2>4. \A s \in Resetter : /\ closing'[s] /\ rpc'[s] # "idle" => closed'
                              /\ rpc'[s] \in {"fire", "cancel"} => closed'
      BY <1>3, <2>1, ZenonT(30) DEF ResetReturns, CloseFires, CloseCancels, SumsBounded, TypeOK
    <2>5. QED BY <2>1, <2>2, <2>3, <2>4 DEF SumsBounded, adderVars, Ever, TypeOK
  <1>4. QED BY <1>1, <1>2, <1>3 DEF Flush

\* What setTraffic stores it also counts, and a new quota joins those seen.
LEMMA OperatorBounded ==
    ASSUME TypeOK, TypeOK', BoundedAndJust, Operator
    PROVE  BoundedAndJust'
  <1> USE DEF BoundedAndJust
  <1>1. /\ UNCHANGED <<adderVars, resetVars, added, cutoff, closed>>
        /\ seen \subseteq seen' /\ quota' \in seen'
        /\ \A d \in Dir : preloaded[d] <= preloaded'[d]
    <2>1. ASSUME NEW d \in Dir, NEW v \in Nat, Preset(d, v)
          PROVE  \A e \in Dir : preloaded[e] <= preloaded'[e]
      BY <2>1, SMT DEF Preset, TypeOK
    <2>2. ASSUME NEW s \in Presets, NEW r \in Presets, SetTrafficSent(s, r)
          PROVE  \A e \in Dir : preloaded[e] <= preloaded'[e]
      BY <2>1, <2>2, PresetsAssumption DEF SetTrafficSent, Dir
    <2>3. ASSUME SetTrafficRecv
          PROVE  \A e \in Dir : preloaded[e] <= preloaded'[e]
      BY <2>1, <2>3 DEF SetTrafficRecv, TypeOK, Dir, None
    <2>4. preloaded' = preloaded => \A e \in Dir : preloaded[e] <= preloaded'[e]
      BY SMT DEF TypeOK
    <2>5. QED BY <2>2, <2>3, <2>4
          DEF Operator, SetQuota, SetSpeedLimit, SetTrafficSent, SetTrafficRecv, Preset, SumsBounded, history
  <1>2. \A d \in Dir : Ever(d) <= Ever(d)'
    BY <1>1, SMT DEF Ever, TypeOK
  <1>3. Counted <= Counted' /\ (Exhausted => Exhausted')
    BY <1>1, <1>2, CountedGrows
  <1>4. \A d \in Dir : cnt'[d] <= Ever(d)'
    <2>1. ASSUME NEW d \in Dir, NEW v \in Nat, Preset(d, v)
          PROVE  \A e \in Dir : cnt'[e] <= Ever(e)'
      BY <2>1, SMT DEF Preset, TypeOK, Ever, SumsBounded
    <2>2. ASSUME NEW s \in Presets, NEW r \in Presets, SetTrafficSent(s, r)
          PROVE  \A e \in Dir : cnt'[e] <= Ever(e)'
      BY <2>1, <2>2, PresetsAssumption DEF SetTrafficSent, Dir
    <2>3. CASE SetTrafficRecv
      BY <2>1, <2>3 DEF SetTrafficRecv, TypeOK, Dir, None
    <2>4. UNCHANGED <<cnt, preloaded>> => \A e \in Dir : cnt'[e] <= Ever(e)'
      BY <1>1 DEF Ever, SumsBounded
    <2>5. QED BY <2>2, <2>3, <2>4 DEF Operator, SetQuota, SetSpeedLimit, history
  <1>5. ASSUME NEW a \in Adder
        PROVE  /\ pc'[a] = "added" => total'[a] <= Ever(dir[a])'
               /\ pc'[a] = "check" => total'[a] <= Counted'
               /\ pc'[a] = "fire" => Exhausted'
    <2>1. PICK e \in Dir : e = dir[a] /\ e = dir'[a]
      BY <1>1 DEF TypeOK, adderVars
    <2>2. Ever(e) \in Nat /\ Ever(e)' \in Nat /\ Counted \in Nat /\ Counted' \in Nat /\ total[a] \in Nat
      BY SMT DEF TypeOK, Ever, Counted, Dir
    <2>3. QED BY <1>1, <1>2, <1>3, <2>1, <2>2, SMT DEF SumsBounded, adderVars
  <1>6. NoEarlyCutoff'
    BY <1>1, <1>3 DEF NoEarlyCutoff, Exhausted
  <1>7. QED BY <1>1, <1>4, <1>5, <1>6 DEF SumsBounded, resetVars

\* Whatever resets, stores and adds interleave with the steps of checkQuota,
\* only Close or bytes really counted against a positive quota cut a user off.
THEOREM CutoffJust == Spec => []NoEarlyCutoff
  <1>1. Init => BoundedAndJust
    BY SMT DEF Init, BoundedAndJust, SumsBounded, NoEarlyCutoff, Ever, Dir
  <1>2. TypeOK /\ TypeOK' /\ BoundedAndJust /\ [Next]_vars => BoundedAndJust'
    <2>1. SUFFICES ASSUME TypeOK, TypeOK', BoundedAndJust, [Next]_vars PROVE BoundedAndJust'
      OBVIOUS
    <2>2. CASE UNCHANGED vars
      BY <2>1, <2>2 DEF vars, userVars, adderVars, resetVars, history, BoundedAndJust, SumsBounded,
                        NoEarlyCutoff, Exhausted, Counted, Ever
    <2>3. QED BY <2>1, <2>2, RelayBounded, FlushBounded, OperatorBounded DEF Next
  <1>3. BoundedAndJust => NoEarlyCutoff
    BY DEF BoundedAndJust
  <1>4. QED BY <1>1, <1>2, <1>3, TypeCorrect, PTL DEF Spec
-----------------------------------------------------------------------------
(***************************************************************************)
(* No byte is lost.  Taken is a sum over the goroutines in ResetTraffic,   *)
(* so the section starts with sums over finite sets, by induction.         *)
(***************************************************************************)

\* Induction on the natural numbers, for a set of them.
LEMMA Induction ==
    ASSUME NEW G \in SUBSET Nat, 0 \in G, \A k \in G : k + 1 \in G
    PROVE  G = Nat
  <1>1. SUFFICES ASSUME Nat \ G # {} PROVE FALSE
    OBVIOUS
  <1>2. PICK x \in Nat \ G : \A y \in Nat \ G : ~(<<y, x>> \in OpToRel(<, Nat))
    BY <1>1, NatLessThanWellFounded, WFMin
  <1>3. x \in Nat /\ x # 0 /\ x \notin G
    BY <1>2
  <1>4. x - 1 \in Nat /\ x - 1 + 1 = x /\ x - 1 < x
    BY <1>3, SMT
  <1>5. <<x - 1, x>> \in OpToRel(<, Nat)
    BY <1>3, <1>4 DEF OpToRel
  <1>6. x - 1 \in G
    BY <1>2, <1>4, <1>5
  <1>7. QED BY <1>3, <1>4, <1>6

\* The element a fold takes out of a set first.
One(s) == CHOOSE x \in s : TRUE

\* Taking it out makes a set of goroutines smaller.
LEMMA Smaller ==
    ASSUME NEW s \in SUBSET Resetter
    PROVE  /\ Cardinality(s) \in Nat /\ Cardinality(s) <= Cardinality(Resetter) /\ Cardinality(Resetter) \in Nat
           /\ s # {} => /\ One(s) \in s /\ One(s) \in Resetter /\ s \ {One(s)} \in SUBSET Resetter
                        /\ Cardinality(s \ {One(s)}) = Cardinality(s) - 1
           /\ Cardinality(s) = 0 => s = {}
  <1>1. IsFiniteSet(s) /\ Cardinality(s) <= Cardinality(Resetter)
    BY ResetterAssumption, FS_Subset
  <1>2. Cardinality(s) \in Nat /\ Cardinality(Resetter) \in Nat
    BY <1>1, ResetterAssumption, FS_CardinalityType
  <1>3. ASSUME s # {} PROVE One(s) \in s
    BY <1>3 DEF One
  <1>4. ASSUME s # {} PROVE Cardinality(s \ {One(s)}) = Cardinality(s) - 1
    BY <1>1, <1>3, <1>4, FS_RemoveElement
  <1>5. Cardinality(s) = 0 => s = {}
    BY <1>1, FS_EmptySet
  <1>6. QED BY <1>1, <1>2, <1>3, <1>4, <1>5

\* Induction on the sets of goroutines, in the order a fold visits them.
LEMMA SubsetInduction ==
    ASSUME NEW G, {} \in G,
           \A s \in SUBSET Resetter : s # {} /\ s \ {One(s)} \in G => s \in G
    PROVE  Resetter \in G
  <1> DEFINE N == {k \in Nat : \A s \in SUBSET Resetter : Cardinality(s) = k => s \in G}
  <1>1. 0 \in N
    <2>1. 0 \in Nat
      BY SMT
    <2>2. QED BY <2>1, Smaller
  <1>2. ASSUME NEW k \in N PROVE k + 1 \in N
    <2>1. k \in Nat
      OBVIOUS
    <2>2. k + 1 \in Nat /\ k + 1 # 0 /\ k + 1 - 1 = k
      BY <2>1, SMT
    <2>3. ASSUME NEW s \in SUBSET Resetter, Cardinality(s) = k + 1 PROVE s \in G
      <3>1. s # {}
        BY <2>2, <2>3, FS_EmptySet
      <3>2. s \ {One(s)} \in SUBSET Resetter /\ Cardinality(s \ {One(s)}) = Cardinality(s) - 1
        BY <3>1, Smaller
      <3>3. Cardinality(s \ {One(s)}) = k
        BY <2>1, <2>3, <3>2, SMT
      <3>4. QED BY <3>1, <3>2, <3>3
    <2>4. QED BY <2>2, <2>3
  <1>3. N \in SUBSET Nat
    OBVIOUS
  <1>4. N = Nat
    <2> HIDE DEF N
    <2>1. QED BY <1>1, <1>2, <1>3, Induction
  <1>5. Cardinality(Resetter) \in Nat
    BY ResetterAssumption, FS_CardinalityType
  <1>6. QED BY <1>4, <1>5

\* The sum of f[r][d] over a set of goroutines, one step of it.
SumStep(f, d, it, s) == IF s = {} THEN 0 ELSE f[One(s)][d] + it[s \ {One(s)}]

\* There is a function that is the sum of f.
LEMMA SumExists ==
    ASSUME NEW d \in Dir, NEW f \in [Resetter -> [Dir -> Nat]]
    PROVE  \E it : it = [s \in SUBSET Resetter |-> SumStep(f, d, it, s)]
  <1> DEFINE Upto(it, k) == \A s \in SUBSET Resetter : Cardinality(s) <= k => it[s] = SumStep(f, d, it, s)
             N == {k \in Nat : \E it \in [SUBSET Resetter -> Nat] : Upto(it, k)}
  <1>1. 0 \in N
    <2>1. PICK it \in [SUBSET Resetter -> Nat] : \A s \in SUBSET Resetter : it[s] = 0
      <3>1. [s \in SUBSET Resetter |-> 0] \in [SUBSET Resetter -> Nat]
        BY SMT
      <3>2. QED BY <3>1
    <2>2. ASSUME NEW s \in SUBSET Resetter, Cardinality(s) <= 0 PROVE it[s] = SumStep(f, d, it, s)
      <3>1. Cardinality(s) \in Nat
        BY Smaller
      <3>2. Cardinality(s) = 0
        BY <2>2, <3>1, SMT
      <3>3. QED BY <2>1, <3>2, Smaller DEF SumStep
    <2>3. 0 \in Nat
      BY SMT
    <2>4. QED BY <2>2, <2>3
  <1>2. ASSUME NEW k \in N PROVE k + 1 \in N
    <2>1. k \in Nat
      OBVIOUS
    <2>2. k + 1 \in Nat
      BY <2>1, SMT
    <2>3. PICK it \in [SUBSET Resetter -> Nat] : Upto(it, k)
      OBVIOUS
    <2>4. PICK jt : jt = [s \in SUBSET Resetter |-> SumStep(f, d, it, s)]
      OBVIOUS
    <2>5. ASSUME NEW s \in SUBSET Resetter PROVE SumStep(f, d, it, s) \in Nat
      <3>1. CASE s = {}
        BY <3>1, SMT DEF SumStep
      <3>2. CASE s # {}
        <4>1. One(s) \in Resetter /\ s \ {One(s)} \in SUBSET Resetter
          BY <3>2, Smaller
        <4>2. f[One(s)][d] \in Nat /\ it[s \ {One(s)}] \in Nat
          BY <4>1
        <4>3. f[One(s)][d] + it[s \ {One(s)}] \in Nat
          BY <4>2, SMT
        <4>4. QED BY <3>2, <4>3 DEF SumStep
      <3>3. QED BY <3>1, <3>2
    <2>6. jt \in [SUBSET Resetter -> Nat]
      BY <2>4, <2>5
    <2>7. ASSUME NEW s \in SUBSET Resetter, Cardinality(s) <= k + 1 PROVE jt[s] = SumStep(f, d, jt, s)
      <3>1. jt[s] = SumStep(f, d, it, s)
        BY <2>4
      <3>2. CASE s = {}
        BY <3>1, <3>2 DEF SumStep
      <3>3. CASE s # {}
        <4>1. s \ {One(s)} \in SUBSET Resetter /\ Cardinality(s \ {One(s)}) = Cardinality(s) - 1 /\ Cardinality(s) \in Nat
          BY <3>3, Smaller
        <4>2. Cardinality(s \ {One(s)}) <= k
          BY <2>1, <2>7, <4>1, SMT
        <4>3. it[s \ {One(s)}] = jt[s \ {One(s)}]
          BY <2>3, <2>4, <4>1, <4>2
        <4>4. QED BY <3>1, <3>3, <4>3 DEF SumStep
      <3>4. QED BY <3>2, <3>3
    <2>8. QED BY <2>2, <2>6, <2>7
  <1>3. N \in SUBSET Nat
    OBVIOUS
  <1>4. N = Nat
    <2> HIDE DEF N
    <2>1. QED BY <1>1, <1>2, <1>3, Induction
  <1>5. Cardinality(Resetter) \in Nat
    BY ResetterAssumption, FS_CardinalityType
  <1>6. PICK it \in [SUBSET Resetter -> Nat] : Upto(it, Cardinality(Resetter))
    BY <1>4, <1>5
  <1>7. \A s \in SUBSET Resetter : it[s] = SumStep(f, d, it, s)
    BY <1>6, Smaller
  <1>8. it = [s \in SUBSET Resetter |-> SumStep(f, d, it, s)]
    BY <1>6, <1>7
  <1>9. QED BY <1>8

\* The bytes of direction d that the goroutines hold, when f says what each holds.
TakenBy(f, d) == FoldFunction(LAMBDA t, acc : t[d] + acc, 0, f)

\* The fold computes it.
LEMMA FoldIsSum ==
    ASSUME NEW d \in Dir, NEW f \in [Resetter -> [Dir -> Nat]]
    PROVE  \E it : it = [s \in SUBSET Resetter |-> SumStep(f, d, it, s)] /\ TakenBy(f, d) = it[Resetter]
  <1>1. TakenBy(f, d) = (CHOOSE it : it = [s \in SUBSET Resetter |-> SumStep(f, d, it, s)])[Resetter]
    BY DEF TakenBy, FoldFunction, FoldFunctionOnSet, MapThenFoldSet, SumStep, One
  <1>2. \E it : it = [s \in SUBSET Resetter |-> SumStep(f, d, it, s)]
    BY SumExists
  <1>3. PICK jt : jt = CHOOSE it : it = [s \in SUBSET Resetter |-> SumStep(f, d, it, s)]
    OBVIOUS
  <1>4. jt = [s \in SUBSET Resetter |-> SumStep(f, d, jt, s)]
    BY <1>2, <1>3
  <1>5. TakenBy(f, d) = jt[Resetter]
    BY <1>1, <1>3
  <1>6. QED BY <1>4, <1>5

\* A sum of zeros is zero.
LEMMA ZeroSum ==
    ASSUME NEW d \in Dir, NEW f \in [Resetter -> [Dir -> Nat]], \A r \in Resetter : f[r][d] = 0
    PROVE  TakenBy(f, d) = 0
  <1>1. PICK it : it = [s \in SUBSET Resetter |-> SumStep(f, d, it, s)] /\ TakenBy(f, d) = it[Resetter]
    BY FoldIsSum
  <1>2. PICK G : G = {s \in SUBSET Resetter : it[s] = 0}
    OBVIOUS
  <1>3. {} \in G
    BY <1>1, <1>2 DEF SumStep
  <1>4. ASSUME NEW s \in SUBSET Resetter, s # {}, s \ {One(s)} \in G PROVE s \in G
    <2>1. it[s] = f[One(s)][d] + it[s \ {One(s)}]
      BY <1>1, <1>4 DEF SumStep
    <2>2. f[One(s)][d] = 0 /\ it[s \ {One(s)}] = 0
      BY <1>2, <1>4, Smaller
    <2>3. it[s] = 0
      BY <2>1, <2>2, SMT
    <2>4. QED BY <1>2, <2>3
  <1>5. Resetter \in G
    BY <1>3, <1>4, SubsetInduction
  <1>6. QED BY <1>1, <1>2, <1>5

\* When one goroutine's part changes, the sum changes by as much.
LEMMA SumChanges ==
    ASSUME NEW d \in Dir, NEW f \in [Resetter -> [Dir -> Nat]], NEW g \in [Resetter -> [Dir -> Nat]],
           NEW x \in Resetter, \A y \in Resetter : y # x => g[y][d] = f[y][d]
    PROVE  /\ TakenBy(f, d) \in Nat /\ TakenBy(g, d) \in Nat
           /\ TakenBy(g, d) + f[x][d] = TakenBy(f, d) + g[x][d]
  <1>1. PICK it : it = [s \in SUBSET Resetter |-> SumStep(f, d, it, s)] /\ TakenBy(f, d) = it[Resetter]
    BY FoldIsSum
  <1>2. PICK jt : jt = [s \in SUBSET Resetter |-> SumStep(g, d, jt, s)] /\ TakenBy(g, d) = jt[Resetter]
    BY FoldIsSum
  <1> DEFINE Right(s) == /\ it[s] \in Nat /\ jt[s] \in Nat
                         /\ x \notin s => jt[s] = it[s]
                         /\ x \in s => jt[s] + f[x][d] = it[s] + g[x][d]
  <1>3. PICK G : G = {s \in SUBSET Resetter : Right(s)}
    OBVIOUS
  <1>4. {} \in G
    <2>1. it[{}] = 0 /\ jt[{}] = 0
      BY <1>1, <1>2 DEF SumStep
    <2>2. 0 \in Nat
      BY SMT
    <2>3. QED BY <1>3, <2>1, <2>2
  <1>5. ASSUME NEW s \in SUBSET Resetter, s # {}, s \ {One(s)} \in G PROVE s \in G
    <2>1. PICK o : o = One(s)
      OBVIOUS
    <2>2. PICK t : t = s \ {o}
      OBVIOUS
    <2>3. o \in s /\ o \in Resetter /\ Right(t)
      BY <1>3, <1>5, <2>1, <2>2, Smaller
    <2>4. it[s] = f[o][d] + it[t] /\ jt[s] = g[o][d] + jt[t]
      BY <1>1, <1>2, <1>5, <2>1, <2>2 DEF SumStep
    <2>5. f[o][d] \in Nat /\ g[o][d] \in Nat /\ f[x][d] \in Nat /\ g[x][d] \in Nat
      BY <2>3
    <2>6. it[s] \in Nat /\ jt[s] \in Nat
      BY <2>3, <2>4, <2>5, SMT
    <2>7. CASE o = x
      <3>1. x \notin t /\ x \in s
        BY <2>2, <2>3, <2>7
      <3>2. jt[t] = it[t] /\ it[t] \in Nat
        BY <2>3, <3>1
      <3>3. jt[s] + f[x][d] = it[s] + g[x][d]
        BY <2>4, <2>5, <2>7, <3>2, SMT
      <3>4. QED BY <1>3, <2>6, <3>1, <3>3
    <2>8. CASE o # x
      <3>1. g[o][d] = f[o][d] /\ (x \in t <=> x \in s)
        BY <2>2, <2>3, <2>8
      <3>2. x \notin s => jt[s] = it[s]
        BY <2>3, <2>4, <3>1
      <3>3. ASSUME x \in s PROVE jt[s] + f[x][d] = it[s] + g[x][d]
        <4>1. jt[t] + f[x][d] = it[t] + g[x][d] /\ jt[t] \in Nat /\ it[t] \in Nat
          BY <2>3, <3>1, <3>3
        <4>2. g[o][d] = f[o][d]
          BY <3>1
        <4>3. PICK p \in Nat, q \in Nat : p = jt[t] /\ q = it[t]
          BY <4>1
        <4>4. PICK u \in Nat, v \in Nat, w \in Nat : u = f[x][d] /\ v = g[x][d] /\ w = f[o][d]
          BY <2>5
        <4>5. p + u = q + v
          BY <4>1, <4>3, <4>4
        <4>6. (w + p) + u = (w + q) + v
          BY <4>5, SMT
        <4>7. jt[s] = w + p /\ it[s] = w + q
          BY <2>4, <4>2, <4>3, <4>4
        <4>8. QED BY <4>4, <4>6, <4>7
      <3>4. QED BY <1>3, <2>6, <3>2, <3>3
    <2>9. QED BY <2>7, <2>8
  <1>6. Resetter \in G
    BY <1>4, <1>5, SubsetInduction
  <1>7. QED BY <1>1, <1>2, <1>3, <1>6

\* A goroutine has taken nothing from a counter it has not swapped yet.
NothingTaken ==
    \A r \in Resetter : \A d \in Dir :
        (rpc[r] # "last" /\ ~(rpc[r] = "recv" /\ d = "sent")) => taken[r][d] = 0

\* The equation of one direction.
Balanced(d) == added[d] + preloaded[d] = cnt[d] + Taken(d) + collected[d] + replaced[d]

\* Taken, before and after a step.
LEMMA TakenTypes ==
    ASSUME TypeOK, TypeOK', NEW d \in Dir
    PROVE  Taken(d) = TakenBy(taken, d) /\ Taken(d)' = TakenBy(taken', d) /\ Taken(d) \in Nat /\ Taken(d)' \in Nat
  <1>1. Taken(d) = TakenBy(taken, d) /\ Taken(d)' = TakenBy(taken', d)
    BY DEF Taken, TakenBy, FoldFunction, FoldFunctionOnSet, MapThenFoldSet
  <1>2. taken \in [Resetter -> [Dir -> Nat]] /\ taken' \in [Resetter -> [Dir -> Nat]]
    BY DEF TypeOK
  <1>3. CASE Resetter = {}
    <2>1. \A f \in [Resetter -> [Dir -> Nat]] : TakenBy(f, d) = 0
      BY <1>3, ZeroSum
    <2>2. 0 \in Nat
      BY SMT
    <2>3. QED BY <1>1, <1>2, <2>1, <2>2
  <1>4. CASE Resetter # {}
    <2>1. PICK r \in Resetter : TRUE
      BY <1>4
    <2>2. \A f \in [Resetter -> [Dir -> Nat]] : TakenBy(f, d) \in Nat
      BY <2>1, SumChanges
    <2>3. QED BY <1>1, <1>2, <2>2
  <1>5. QED BY <1>3, <1>4

\* A step of goroutine r changes the sum by what it changes of its own part.
LEMMA TakenChanges ==
    ASSUME TypeOK, TypeOK', NEW d \in Dir, NEW r \in Resetter, \A q \in Resetter : q # r => taken'[q] = taken[q]
    PROVE  /\ Taken(d) \in Nat /\ Taken(d)' \in Nat /\ taken[r][d] \in Nat /\ taken'[r][d] \in Nat
           /\ Taken(d)' + taken[r][d] = Taken(d) + taken'[r][d]
  <1>1. taken \in [Resetter -> [Dir -> Nat]] /\ taken' \in [Resetter -> [Dir -> Nat]]
    BY DEF TypeOK
  <1>2. PICK f \in [Resetter -> [Dir -> Nat]] : f = taken
    BY <1>1
  <1>3. PICK g \in [Resetter -> [Dir -> Nat]] : g = taken'
    BY <1>1
  <1>4. TakenBy(g, d) + f[r][d] = TakenBy(f, d) + g[r][d]
    <2>1. \A y \in Resetter : y # r => g[y][d] = f[y][d]
      BY <1>2, <1>3
    <2>2. QED BY <2>1, SumChanges
  <1>5. f[r][d] \in Nat /\ g[r][d] \in Nat
    OBVIOUS
  <1>6. QED BY <1>2, <1>3, <1>4, <1>5, TakenTypes

\* A swap moves the counter's bytes to the goroutine that swapped it.
LEMMA SwapBalanced ==
    ASSUME TypeOK, TypeOK', NothingTaken, NoByteLost, NEW r \in Resetter, Swap(r)
    PROVE  NothingTaken' /\ NoByteLost'
  <1>1. PICK e \in Dir : e = rpc[r]
    BY DEF Swap
  <1>2. /\ rpc' = [rpc EXCEPT ![r] = IF e = "sent" THEN "recv" ELSE "last"]
        /\ taken' = [taken EXCEPT ![r][e] = cnt[e]]
        /\ cnt' = [cnt EXCEPT ![e] = 0]
        /\ UNCHANGED <<added, preloaded, replaced, collected>>
    BY <1>1 DEF Swap, history
  <1>3. \A q \in Resetter : q # r => taken'[q] = taken[q]
    BY <1>2 DEF TypeOK
  <1>4. taken'[r][e] = cnt[e] /\ \A d \in Dir : d # e => taken'[r][d] = taken[r][d]
    BY <1>2, ZenonT(40) DEF TypeOK
  <1>5. taken[r][e] = 0
    BY <1>1 DEF NothingTaken, Dir
  <1>6. ASSUME NEW d \in Dir PROVE Balanced(d)'
    <2>1. /\ Taken(d) \in Nat /\ Taken(d)' \in Nat /\ taken[r][d] \in Nat /\ taken'[r][d] \in Nat
          /\ Taken(d)' + taken[r][d] = Taken(d) + taken'[r][d]
      BY <1>3, TakenChanges
    <2>2. /\ cnt[d] \in Nat /\ collected[d] \in Nat /\ replaced[d] \in Nat
          /\ added[d] + preloaded[d] = cnt[d] + Taken(d) + collected[d] + replaced[d]
      BY DEF TypeOK, NoByteLost
    <2>3. cnt'[d] = IF d = e THEN 0 ELSE cnt[d]
      BY <1>2 DEF TypeOK
    <2>4. added'[d] = added[d] /\ preloaded'[d] = preloaded[d] /\ replaced'[d] = replaced[d] /\ collected'[d] = collected[d]
      BY <1>2
    <2>5. CASE d = e
      <3>1. Taken(d)' = Taken(d) + cnt[d] /\ cnt'[d] = 0
        BY <1>4, <1>5, <2>1, <2>2, <2>3, <2>5, SMT
      <3>2. added[d] + preloaded[d] = cnt'[d] + Taken(d)' + collected[d] + replaced[d]
        BY <2>1, <2>2, <3>1, SMT
      <3>3. QED BY <2>4, <3>2 DEF Balanced
    <2>6. CASE d # e
      <3>1. Taken(d)' = Taken(d) /\ cnt'[d] = cnt[d]
        BY <1>4, <2>1, <2>3, <2>6, SMT
      <3>2. QED BY <2>2, <2>4, <3>1 DEF Balanced
    <2>7. QED BY <2>5, <2>6
  <1>7. NothingTaken'
    <2>1. SUFFICES ASSUME NEW q \in Resetter, NEW d \in Dir, rpc'[q] # "last", ~(rpc'[q] = "recv" /\ d = "sent")
                   PROVE  taken'[q][d] = 0
      BY DEF NothingTaken
    <2>2. CASE q # r
      BY <1>2, <1>3, <2>1, <2>2, ZenonT(40) DEF NothingTaken, TypeOK
    <2>3. CASE q = r
      <3>1. rpc'[r] = IF e = "sent" THEN "recv" ELSE "last"
        BY <1>2 DEF TypeOK
      <3>2. e = "sent" /\ d # "sent" /\ rpc[r] = "sent"
        BY <1>1, <2>1, <2>3, <3>1
      <3>3. QED BY <1>4, <2>3, <3>2 DEF NothingTaken
    <2>4. QED BY <2>2, <2>3
  <1>8. QED BY <1>6, <1>7 DEF NoByteLost, Balanced

\* ResetTraffic hands over what its swaps took.
LEMMA ReturnBalanced ==
    ASSUME TypeOK, TypeOK', NothingTaken, NoByteLost, NEW r \in Resetter, ResetReturns(r)
    PROVE  NothingTaken' /\ NoByteLost'
  <1>1. /\ rpc' = [rpc EXCEPT ![r] = IF closing[r] THEN "fire" ELSE "idle"]
        /\ collected' = [d \in Dir |-> collected[d] + taken[r][d]]
        /\ taken' = [taken EXCEPT ![r] = [d \in Dir |-> 0]]
        /\ UNCHANGED <<cnt, added, preloaded, replaced>>
    BY DEF ResetReturns, userVars
  <1>2. \A q \in Resetter : q # r => taken'[q] = taken[q]
    BY <1>1 DEF TypeOK
  <1>3. \A d \in Dir : taken'[r][d] = 0
    BY <1>1 DEF TypeOK
  <1>4. ASSUME NEW d \in Dir PROVE Balanced(d)'
    <2>1. /\ Taken(d) \in Nat /\ Taken(d)' \in Nat /\ taken[r][d] \in Nat /\ taken'[r][d] \in Nat
          /\ Taken(d)' + taken[r][d] = Taken(d) + taken'[r][d]
      BY <1>2, TakenChanges
    <2>2. /\ cnt[d] \in Nat /\ collected[d] \in Nat /\ replaced[d] \in Nat
          /\ added[d] + preloaded[d] = cnt[d] + Taken(d) + collected[d] + replaced[d]
      BY DEF TypeOK, NoByteLost
    <2>3. /\ added'[d] = added[d] /\ preloaded'[d] = preloaded[d] /\ replaced'[d] = replaced[d] /\ cnt'[d] = cnt[d]
          /\ collected'[d] = collected[d] + taken[r][d] /\ taken'[r][d] = 0
      BY <1>1, <1>3
    <2>4. added[d] + preloaded[d] = cnt[d] + Taken(d)' + collected'[d] + replaced[d]
      BY <2>1, <2>2, <2>3, SMT
    <2>5. QED BY <2>3, <2>4 DEF Balanced
  <1>5. NothingTaken'
    BY <1>1, <1>2, <1>3, SMT DEF NothingTaken, TypeOK
  <1>6. QED BY <1>4, <1>5 DEF NoByteLost, Balanced

\* AtomicAdd and setTraffic change a counter and the history alike.
Stored(d) ==
    cnt[d] + (added'[d] - added[d]) + (preloaded'[d] - preloaded[d]) = cnt'[d] + (replaced'[d] - replaced[d])

\* Such a step keeps the sums.
LEMMA StoreBalanced ==
    ASSUME TypeOK, TypeOK', NothingTaken, NoByteLost, UNCHANGED <<rpc, taken, collected>>,
           \A d \in Dir : Stored(d)
    PROVE  NothingTaken' /\ NoByteLost'
  <1>1. ASSUME NEW d \in Dir PROVE Balanced(d)'
    <2>1. Taken(d)' = Taken(d) /\ Taken(d) \in Nat
      BY TakenTypes
    <2>2. /\ cnt[d] \in Nat /\ collected[d] \in Nat /\ replaced[d] \in Nat /\ added[d] \in Nat /\ preloaded[d] \in Nat
          /\ added[d] + preloaded[d] = cnt[d] + Taken(d) + collected[d] + replaced[d]
      BY DEF TypeOK, NoByteLost
    <2>3. cnt'[d] \in Nat /\ replaced'[d] \in Nat /\ added'[d] \in Nat /\ preloaded'[d] \in Nat
      BY DEF TypeOK
    <2>4. added'[d] + preloaded'[d] = cnt'[d] + Taken(d) + collected[d] + replaced'[d]
      <3>1. cnt[d] + (added'[d] - added[d]) + (preloaded'[d] - preloaded[d]) = cnt'[d] + (replaced'[d] - replaced[d])
        BY DEF Stored
      <3>2. PICK u \in Nat : u = Taken(d) + collected[d]
        BY <2>1, <2>2, SMT
      <3>3. added[d] + preloaded[d] = cnt[d] + u + replaced[d]
        BY <2>1, <2>2, <3>2, SMT
      <3>4. added'[d] + preloaded'[d] = cnt'[d] + u + replaced'[d]
        BY <2>2, <2>3, <3>1, <3>3, SMT
      <3>5. QED BY <2>1, <2>2, <2>3, <3>2, <3>4, SMT
    <2>5. QED BY <2>1, <2>4 DEF Balanced
  <1>2. NothingTaken'
    BY DEF NothingTaken
  <1>3. QED BY <1>1, <1>2 DEF NoByteLost, Balanced

\* Every byte that was added is in the counter, with one caller of ResetTraffic,
\* handed over, or overwritten by setTraffic: the swaps of any number of flushes
\* and of Close, between any adds and stores, lose none and count none twice.
THEOREM NoByteLostCorrect == Spec => []NoByteLost
  <1>1. ASSUME Init, TypeOK PROVE NothingTaken /\ NoByteLost
    <2>1. \A r \in Resetter : \A d \in Dir : taken[r][d] = 0
      BY <1>1 DEF Init
    <2>2. ASSUME NEW d \in Dir PROVE Balanced(d)
      <3>1. taken \in [Resetter -> [Dir -> Nat]]
        BY <1>1 DEF TypeOK
      <3>2. TakenBy(taken, d) = 0
        BY <2>1, <3>1, ZeroSum
      <3>3. Taken(d) = 0
        BY <3>2 DEF Taken, TakenBy
      <3>4. added[d] = 0 /\ preloaded[d] = 0 /\ cnt[d] = 0 /\ collected[d] = 0 /\ replaced[d] = 0
        BY <1>1 DEF Init
      <3>5. QED BY <3>3, <3>4, SMT DEF Balanced
    <2>3. QED BY <2>1, <2>2 DEF NothingTaken, NoByteLost, Balanced
  <1>2. TypeOK /\ TypeOK' /\ NothingTaken /\ NoByteLost /\ [Next]_vars => NothingTaken' /\ NoByteLost'
    <2>1. SUFFICES ASSUME TypeOK, TypeOK', NothingTaken, NoByteLost, [Next]_vars PROVE NothingTaken' /\ NoByteLost'
      OBVIOUS
    <2>2. ASSUME UNCHANGED <<cnt, taken, added, preloaded, replaced, collected>>,
                 \A r \in Resetter : rpc'[r] \in {rpc[r], "sent", "cancel", "idle"} /\ (rpc'[r] # rpc[r] => rpc[r] \in {"idle", "fire", "cancel"})
          PROVE  NothingTaken' /\ NoByteLost'
      <3>1. NothingTaken'
        BY <2>1, <2>2 DEF NothingTaken
      <3>2. NoByteLost'
        <4>1. \A d \in Dir : Taken(d)' = Taken(d)
          BY <2>1, <2>2, TakenTypes
        <4>2. QED BY <2>1, <2>2, <4>1 DEF NoByteLost
      <3>3. QED BY <3>1, <3>2
    <2>3. ASSUME NEW a \in Adder, Relay(a) PROVE NothingTaken' /\ NoByteLost'
      <3>1. CASE AtomicAdd(a)
        <4>1. PICK e \in Dir : e = dir[a]
          BY <2>1 DEF TypeOK
        <4>2. /\ cnt' = [cnt EXCEPT ![e] = @ + n[a]] /\ added' = [added EXCEPT ![e] = @ + n[a]]
              /\ UNCHANGED <<rpc, taken, collected, preloaded, replaced>>
          BY <3>1, <4>1 DEF AtomicAdd, resetVars
        <4>3. ASSUME NEW d \in Dir
              PROVE  Stored(d)
          <5>1. cnt[d] \in Nat /\ added[d] \in Nat /\ preloaded[d] \in Nat /\ replaced[d] \in Nat /\ n[a] \in Nat
            BY <2>1 DEF TypeOK
          <5>2. /\ cnt'[d] = IF d = e THEN cnt[d] + n[a] ELSE cnt[d]
                /\ added'[d] = IF d = e THEN added[d] + n[a] ELSE added[d]
                /\ preloaded'[d] = preloaded[d] /\ replaced'[d] = replaced[d]
            BY <2>1, <4>2 DEF TypeOK
          <5>3. QED BY <5>1, <5>2, SMT DEF Stored
        <4>4. QED BY <2>1, <4>2, <4>3, StoreBalanced
      <3>2. CASE UNCHANGED <<cnt, resetVars, added, preloaded, replaced, collected>>
        BY <2>2, <3>2 DEF resetVars
      <3>3. QED BY <2>3, <3>1, <3>2 DEF Relay, AddTraffic, WaitN, LoadOther, CheckQuota, FireCutoff, CancelContext, userVars, history
    <2>4. ASSUME NEW r \in Resetter, Flush(r) PROVE NothingTaken' /\ NoByteLost'
      <3>1. CASE \E c \in BOOLEAN : ResetTraffic(r, c)
        BY <2>1, <2>2, <3>1 DEF ResetTraffic, userVars, TypeOK
      <3>2. CASE CloseFires(r)
        BY <2>1, <2>2, <3>2 DEF CloseFires, history, TypeOK
      <3>3. CASE CloseCancels(r)
        BY <2>1, <2>2, <3>3 DEF CloseCancels, history, TypeOK
      <3>4. QED BY <2>1, <2>4, <3>1, <3>2, <3>3, SwapBalanced, ReturnBalanced DEF Flush
    <2>5. ASSUME NEW e \in Dir, NEW v \in Nat, Preset(e, v) PROVE NothingTaken' /\ NoByteLost'
      <3>1. /\ cnt' = [cnt EXCEPT ![e] = v] /\ preloaded' = [preloaded EXCEPT ![e] = @ + v]
            /\ replaced' = [replaced EXCEPT ![e] = @ + cnt[e]] /\ UNCHANGED <<rpc, taken, collected, added>>
        BY <2>5 DEF Preset, resetVars
      <3>2. ASSUME NEW d \in Dir
            PROVE  Stored(d)
        <4>1. cnt[d] \in Nat /\ added[d] \in Nat /\ preloaded[d] \in Nat /\ replaced[d] \in Nat
          BY <2>1 DEF TypeOK
        <4>2. /\ cnt'[d] = IF d = e THEN v ELSE cnt[d]
              /\ preloaded'[d] = IF d = e THEN preloaded[d] + v ELSE preloaded[d]
              /\ replaced'[d] = IF d = e THEN replaced[d] + cnt[d] ELSE replaced[d]
              /\ added'[d] = added[d]
          BY <2>1, <3>1, ZenonT(30) DEF TypeOK
        <4>3. QED BY <4>1, <4>2, SMT DEF Stored
      <3>3. QED BY <2>1, <3>1, <3>2, StoreBalanced
    <2>6. ASSUME Operator PROVE NothingTaken' /\ NoByteLost'
      <3>1. CASE \E q \in Quotas : SetQuota(q)
        BY <2>2, <3>1 DEF SetQuota, resetVars
      <3>2. CASE \E s, r \in Bursts \cup {0} : SetSpeedLimit(s, r)
        BY <2>2, <3>2 DEF SetSpeedLimit, resetVars, history
      <3>3. CASE \E s, r \in Presets : SetTrafficSent(s, r)
        BY <2>5, <3>3, PresetsAssumption DEF SetTrafficSent, Dir
      <3>4. CASE SetTrafficRecv
        <4>1. preset \in Nat
          BY <2>1, <3>4 DEF SetTrafficRecv, TypeOK
        <4>2. QED BY <2>5, <3>4, <4>1 DEF SetTrafficRecv, Dir
      <3>5. QED BY <2>6, <3>1, <3>2, <3>3, <3>4 DEF Operator
    <2>7. CASE UNCHANGED vars
      BY <2>2, <2>7 DEF vars, userVars, resetVars, history
    <2>8. QED BY <2>1, <2>3, <2>4, <2>6, <2>7 DEF Next
  <1>3. QED BY <1>1, <1>2, TypeCorrect, PTL DEF Spec
=============================================================================
