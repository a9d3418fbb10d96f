---------------------------- MODULE TrafficLedger ----------------------------
(***************************************************************************)
(* What the MySQL authenticator promises about traffic: it moves from the  *)
(* users' counters to a buffer and from the buffer to the database, and    *)
(* the buffer never loses a byte.  The database may be told of buffered    *)
(* bytes more than once (an update that was applied but reported an        *)
(* error), and a removed user takes along what its counter holds.          *)
(***************************************************************************)
EXTENDS Integers

CONSTANT Hash

VARIABLES counter, buffer, stored

Init ==
    /\ counter = [h \in Hash |-> 0]
    /\ buffer = [h \in Hash |-> 0]
    /\ stored = [h \in Hash |-> 0]

Count(h) ==
    /\ counter' = [counter EXCEPT ![h] = @ + 1]
    /\ UNCHANGED <<buffer, stored>>

Move(h) ==
    /\ buffer' = [buffer EXCEPT ![h] = @ + counter[h]]
    /\ counter' = [counter EXCEPT ![h] = 0]
    /\ UNCHANGED stored

\* The database learns of all that is buffered for some users.
Store(b) ==
    /\ stored' = [h \in Hash |-> stored[h] + (IF h \in b THEN buffer[h] ELSE 0)]
    /\ buffer' = [h \in Hash |-> IF h \in b THEN 0 ELSE buffer[h]]
    /\ UNCHANGED counter

\* It does, but nobody knows.
StoreUnnoticed(b) ==
    /\ stored' = [h \in Hash |-> stored[h] + (IF h \in b THEN buffer[h] ELSE 0)]
    /\ UNCHANGED <<counter, buffer>>

Drop(h) ==
    /\ counter' = [counter EXCEPT ![h] = 0]
    /\ UNCHANGED <<buffer, stored>>

Next ==
    \/ \E h \in Hash : Count(h) \/ Move(h) \/ Drop(h)
    \/ \E b \in SUBSET Hash : Store(b) \/ StoreUnnoticed(b)

Spec == Init /\ [][Next]_<<counter, buffer, stored>>

=============================================================================
