------------------------------ MODULE Recorder ------------------------------
(***************************************************************************)
(* recorder and the GetRecords call of the API: connections add records, a *)
(* stream subscribes with filters and gets what it asked for, or less when *)
(* it is slow.  A record is its transport, its port and its payload.       *)
(***************************************************************************)
EXTENDS Naturals, Sequences

CONSTANTS Stream,       \* GetRecords calls
          Records,      \* the records that may be added
          RecordQueue   \* recorder.Capacity

\* A payload is what a copy of it is: of a nil slice, too, the copy is not nil.
ASSUME RecordAssumption ==
    Records \subseteq [transport : STRING, port : STRING, payload : STRING \ {"nil"}]

VARIABLES
    build,          \* payload capture: compiled in, and allowed by the operator
    subscribers,    \* recorder.subscribers: the option of a stream
    records,        \* recordChan of each stream
    adding          \* a broadcast: its record and the subscribers still to visit

recvars == <<build, subscribers, records, adding>>

NoStream == [on |-> FALSE]

RecInit ==
    /\ build \in [compiled : BOOLEAN, allowed : BOOLEAN]
    /\ subscribers = [u \in Stream |-> NoStream]
    /\ records = [u \in Stream |-> <<>>]
    /\ adding = [left |-> {}]

\* GetRecords: payload is stripped by default builds and refused when the operator
\* did not allow it.
GetRecords(u, o) ==
    LET asks == o.payload /\ build.compiled IN
    /\ ~subscribers[u].on
    /\ asks => build.allowed
    /\ subscribers' = [subscribers EXCEPT ![u] = [on |-> TRUE, transport |-> o.transport, port |-> o.port,
                                                 payload |-> asks, asked |-> o.payload]]
    /\ records' = [records EXCEPT ![u] = <<>>]
    /\ UNCHANGED <<build, adding>>

\* stream.Send of the next record; the call ends with its stream.
SendRecord(u) ==
    /\ subscribers[u].on /\ records[u] # <<>>
    /\ records' = [records EXCEPT ![u] = Tail(@)]
    /\ UNCHANGED <<build, subscribers, adding>>
Unsubscribe(u) ==
    /\ subscribers[u].on
    /\ subscribers' = [subscribers EXCEPT ![u] = NoStream]
    /\ UNCHANGED <<build, records, adding>>

\* Add: the broadcast visits the subscribers in any order, in steps of its own.
Add(r) ==
    /\ adding.left = {}
    /\ adding' = [record |-> r, payload |-> r.payload, left |-> Stream]
    /\ UNCHANGED <<build, subscribers, records>>

Wanted(o, r) == o.on /\ o.transport \in {"", r.transport} /\ o.port \in {"", r.port}

\* What the visits of a broadcast leave behind.
Visited(u, r) == IF adding.left = {u} THEN [left |-> {}] ELSE [adding EXCEPT !.left = @ \ {u}, !.record = r]

\* Mutant: the payload is taken from the record as the last visit left it.
BroadcastReusesRecord(u) ==
    LET r == [adding.record EXCEPT !.payload = IF subscribers[u].payload THEN @ ELSE "nil"]
        hit == Wanted(subscribers[u], adding.record)
    IN /\ u \in adding.left
       /\ adding' = Visited(u, IF hit THEN r ELSE adding.record)
       /\ records' = IF hit /\ Len(records[u]) < RecordQueue THEN [records EXCEPT ![u] = Append(@, r)] ELSE records
       /\ UNCHANGED <<build, subscribers>>

\* One subscriber of the Range: filtered, given the payload or not, and dropped
\* when its channel is full.  The record variable is shared by the visits.
Broadcast(u) ==
    LET r == [adding.record EXCEPT !.payload = IF subscribers[u].payload THEN adding.payload ELSE "nil"]
        hit == Wanted(subscribers[u], adding.record)
    IN /\ u \in adding.left
       /\ adding' = Visited(u, IF hit THEN r ELSE adding.record)
       /\ records' = IF hit /\ Len(records[u]) < RecordQueue THEN [records EXCEPT ![u] = Append(@, r)] ELSE records
       /\ UNCHANGED <<build, subscribers>>

RecNext ==
    \/ \E u \in Stream, t \in {"", "TCP"}, pl \in BOOLEAN : GetRecords(u, [transport |-> t, port |-> "", payload |-> pl])
    \/ \E u \in Stream : SendRecord(u) \/ Unsubscribe(u) \/ Broadcast(u)
    \/ \E r \in Records : Add(r)

\* Every record in a stream's queue passed the filters of that stream and carries
\* the payload exactly when the stream asked for it and the build and the
\* operator allow it, although the visits of a broadcast share one record and
\* subscribers come and go during it.
RecordsAsAsked ==
    \A u \in Stream : subscribers[u].on =>
        \A i \in DOMAIN records[u] :
            LET r == records[u][i]
                o == subscribers[u]
            IN /\ Wanted(o, r)
               /\ (r.payload # "nil") <=> (o.asked /\ build.compiled /\ build.allowed)
=============================================================================
