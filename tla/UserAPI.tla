------------------------------ MODULE UserAPI ------------------------------
(***************************************************************************)
(* SetUsers, GetUsers and ListUsers of the API: each request is a series   *)
(* of calls of the authenticator, between which other API streams change   *)
(* the same users.  A field is 0 or what a request sets it to, the number  *)
(* of its stream.                                                          *)
(***************************************************************************)
EXTENDS Naturals, FiniteSets

CONSTANTS Caller,       \* API streams
          Hash          \* users

ASSUME ApiAssumption == Caller \subseteq Nat \ {0}

VARIABLES users,        \* the authenticator's users and their fields
          call          \* the request each stream works on

uvars == <<users, call>>

\* The calls of a request, in order.  The IP limit is always set, the others when
\* the request has them.
Fields == <<"speed", "traffic", "ipLimit", "quota">>
NoUser == [exists |-> FALSE]
AddedUser == [exists |-> TRUE, speed |-> 0, traffic |-> 0, ipLimit |-> 0, quota |-> 0]
NoCall == [op |-> "none", at |-> 0, answer |-> "none", hash |-> "none", has |-> {}, before |-> NoUser, alone |-> TRUE]

ApiInit ==
    /\ users \in [Hash -> {NoUser, AddedUser}]
    /\ call = [k \in Caller |-> NoCall]

\* An answered call is kept while the user is as it left it.
Kept(r) == r.answer = "none" \/ (r.answer = "success" /\ r.op \in {"add", "modify"} /\ r.alone)

\* Stream k goes on with its call r; if it changed the user, the calls of the
\* others on that user are not alone any more.
Goes(k, r, changed) ==
    LET next(j) == IF j = k THEN r ELSE [call[j] EXCEPT !.alone = @ /\ ~(changed /\ call[j].hash = call[k].hash)]
    IN call' = [j \in Caller |-> IF Kept(next(j)) THEN next(j) ELSE NoCall]
Answer(k, a, changed) == Goes(k, [call[k] EXCEPT !.answer = a], changed)

\* stream.Recv of the next request, after the answer to the last one.
Recv(k, op, h, has) ==
    /\ call[k].op = "none" \/ call[k].answer # "none"
    /\ Goes(k, [op |-> op, at |-> IF op = "modify" THEN 1 ELSE 0, answer |-> "none", hash |-> h, has |-> has \cup {"ipLimit"},
               before |-> IF op = "modify" THEN users[h] ELSE AddedUser, alone |-> TRUE], FALSE)
    /\ UNCHANGED users

Working(k, op) == call[k].op = op /\ call[k].answer = "none"

AddUser(k) ==
    LET h == call[k].hash IN
    /\ Working(k, "add") /\ call[k].at = 0
    /\ IF users[h].exists
       THEN Answer(k, "failure", FALSE) /\ UNCHANGED users
       ELSE /\ users' = [users EXCEPT ![h] = AddedUser]
            /\ Goes(k, [call[k] EXCEPT !.at = 1], TRUE)

DelUser(k) ==
    LET h == call[k].hash IN
    /\ Working(k, "delete")
    /\ Answer(k, IF users[h].exists THEN "success" ELSE "failure", users[h].exists)
    /\ users' = [users EXCEPT ![h] = NoUser]

\* Mutant: the error of a setter does not end the request.
SetFieldGoesOn(k) ==
    LET h == call[k].hash
        f == Fields[call[k].at]
        sets == f \in call[k].has /\ users[h].exists
    IN /\ Working(k, "add") \/ Working(k, "modify")
       /\ call[k].at \in 1 .. 4
       /\ users' = IF sets THEN [users EXCEPT ![h][f] = k] ELSE users
       /\ Goes(k, [call[k] EXCEPT !.at = @ + 1], sets)

\* SetUserSpeedLimit, SetUserTraffic, SetUserIPLimit and SetUserQuota, in this
\* order; the first that does not find the user ends the request.
SetField(k) ==
    LET h == call[k].hash
        f == Fields[call[k].at]
        sets == f \in call[k].has /\ users[h].exists
    IN /\ Working(k, "add") \/ Working(k, "modify")
       /\ call[k].at \in 1 .. 4
       /\ users' = IF sets THEN [users EXCEPT ![h][f] = k] ELSE users
       /\ IF f \in call[k].has /\ ~users[h].exists
          THEN Answer(k, "failure", FALSE)
          ELSE Goes(k, [call[k] EXCEPT !.at = @ + 1], sets)

Respond(k) ==
    /\ Working(k, "add") \/ Working(k, "modify")
    /\ call[k].at = 5
    /\ Answer(k, "success", FALSE)
    /\ UNCHANGED users

\* GetUsers reads the fields of a user that may be gone by then, and refuses one
\* it does not find.
GetUser(k) ==
    /\ Working(k, "get")
    /\ Answer(k, IF users[call[k].hash].exists THEN "success" ELSE "failure", FALSE)
    /\ UNCHANGED users

\* ListUsers sends what it reads of each user there was at the start.
ListUsers(k) ==
    /\ Working(k, "list")
    /\ Answer(k, "success", FALSE)
    /\ UNCHANGED users

ApiNext ==
    \E k \in Caller :
        \/ \E op \in {"add", "modify"}, h \in Hash, has \in {{"speed"}, {"traffic", "quota"}} : Recv(k, op, h, has)
        \/ \E op \in {"delete", "get", "list"}, h \in Hash : Recv(k, op, h, {})
        \/ AddUser(k) \/ DelUser(k) \/ SetField(k) \/ Respond(k) \/ GetUser(k) \/ ListUsers(k)

\* A request that was answered with success is in force until another stream
\* changes the user: the user exists, every field the request has is set, and a
\* field it omits (the quota, say) has the value it had before.
AnsweredInForce ==
    \A k \in Caller : (call[k].op \in {"add", "modify"} /\ call[k].answer = "success" /\ call[k].alone) =>
        LET u == users[call[k].hash] IN
        /\ u.exists
        /\ \A i \in DOMAIN Fields : u[Fields[i]] = IF Fields[i] \in call[k].has THEN k ELSE call[k].before[Fields[i]]
=============================================================================
