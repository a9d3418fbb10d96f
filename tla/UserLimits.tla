----------------------------- MODULE UserLimits -----------------------------
(***************************************************************************)
(* The admission counters of statistic/memory.User: the table of client    *)
(* addresses (ipTable, ipNum, bounded by MaxIPNum) and the number of open  *)
(* connections (connNum, bounded by MaxConnNum).  The code updates all of  *)
(* them inside one critical section (ipLock), so each operation is one     *)
(* action.  A user object is one *User allocation: removing a user and     *)
(* adding it again gives another object.                                   *)
(***************************************************************************)
EXTENDS Integers, FiniteSets

CONSTANTS
    UserObj,    \* the *User allocations
    IP,         \* client addresses
    MaxConnNum  \* queue.max_conn_per_user, 0 = unlimited

ASSUME MaxConnNumAssumption == MaxConnNum \in Nat
ASSUME IPAssumption == IsFiniteSet(IP)

VARIABLES
    ipTable,    \* connections counted per user object and address; 0 = no entry
    ipNum,      \* entries of the table
    connNum,    \* connections counted per user object
    MaxIPNum    \* the IP limit, <= 0 = unlimited

limits == <<ipTable, ipNum, connNum, MaxIPNum>>

LimitsTypeOK ==
    /\ ipTable \in [UserObj -> [IP -> Nat]]
    /\ ipNum \in [UserObj -> Int]
    /\ connNum \in [UserObj -> Nat]
    /\ MaxIPNum \in [UserObj -> Int]

LimitsInit ==
    /\ ipTable = [u \in UserObj |-> [i \in IP |-> 0]]
    /\ ipNum = [u \in UserObj |-> 0]
    /\ connNum = [u \in UserObj |-> 0]
    /\ MaxIPNum = [u \in UserObj |-> 0]

\* The counters of a freshly allocated user: no entry, no IP limit.
FreshLimits(u) ==
    /\ ipTable' = [ipTable EXCEPT ![u] = [i \in IP |-> 0]]
    /\ ipNum' = [ipNum EXCEPT ![u] = 0]
    /\ connNum' = [connNum EXCEPT ![u] = 0]
    /\ MaxIPNum' = [MaxIPNum EXCEPT ![u] = 0]

\* Mutants: the caps are off by one.
LateConnCap(u) ==
    MaxConnNum > 0 /\ connNum[u] > MaxConnNum

LateIPCap(u, ip) ==
    /\ MaxIPNum[u] > 0
    /\ ipTable[u][ip] = 0
    /\ ipNum[u] > MaxIPNum[u]

ConnCapReached(u) ==
    MaxConnNum > 0 /\ connNum[u] + 1 > MaxConnNum

IPCapReached(u, ip) ==
    /\ MaxIPNum[u] > 0
    /\ ipTable[u][ip] = 0
    /\ ipNum[u] + 1 > MaxIPNum[u]

AddIPRefuses(u, ip) ==
    ConnCapReached(u) \/ IPCapReached(u, ip)

\* User.AddIP returning true.
AddIP(u, ip) ==
    /\ ~AddIPRefuses(u, ip)
    /\ connNum' = [connNum EXCEPT ![u] = @ + 1]
    /\ IF MaxIPNum[u] <= 0
         THEN UNCHANGED <<ipTable, ipNum>>
         ELSE /\ ipTable' = [ipTable EXCEPT ![u][ip] = @ + 1]
              /\ ipNum' = [ipNum EXCEPT ![u] = IF ipTable[u][ip] = 0 THEN @ + 1 ELSE @]
    /\ UNCHANGED MaxIPNum

ReleaseConn(u) ==
    connNum' = [connNum EXCEPT ![u] = IF @ > 0 THEN @ - 1 ELSE @]

\* Mutant: DelIP returns early when there is no IP limit.
DelIPOnlyLimited(u, ip) ==
    /\ IF MaxIPNum[u] <= 0 \/ ipTable[u][ip] = 0
         THEN UNCHANGED <<ipTable, ipNum, connNum>>
         ELSE /\ ipTable' = [ipTable EXCEPT ![u][ip] = @ - 1]
              /\ ipNum' = [ipNum EXCEPT ![u] = IF ipTable[u][ip] = 1 THEN @ - 1 ELSE @]
              /\ ReleaseConn(u)
    /\ UNCHANGED MaxIPNum

\* User.DelIP: without an IP limit only connNum moves; with one, an address
\* that has no entry changes nothing at all.
DelIP(u, ip) ==
    /\ \/ /\ MaxIPNum[u] <= 0
          /\ ReleaseConn(u)
          /\ UNCHANGED <<ipTable, ipNum>>
       \/ /\ MaxIPNum[u] > 0
          /\ ipTable[u][ip] = 0
          /\ UNCHANGED <<ipTable, ipNum, connNum>>
       \/ /\ MaxIPNum[u] > 0
          /\ ipTable[u][ip] > 0
          /\ ipTable' = [ipTable EXCEPT ![u][ip] = @ - 1]
          /\ ipNum' = [ipNum EXCEPT ![u] = IF ipTable[u][ip] = 1 THEN @ - 1 ELSE @]
          /\ ReleaseConn(u)
    /\ UNCHANGED MaxIPNum

setIPLimit(u, n) ==
    /\ MaxIPNum' = [MaxIPNum EXCEPT ![u] = n]
    /\ UNCHANGED <<ipTable, ipNum, connNum>>

=============================================================================
