--------------------------- MODULE Control_proofs ---------------------------
(***************************************************************************)
(* Proofs about the parts that stand by themselves, for any streams,       *)
(* users, records, rules and packets.                                      *)
(***************************************************************************)
EXTENDS Control, TLAPS

\* Zenon proves the leaves that name no prover.
USE Zenon

\* A step is a step of one part or leaves all of them as they are.
LEMMA Steps ==
    ASSUME [Next]_vars
    PROVE  /\ RecNext \/ recvars' = recvars
           /\ ApiNext \/ uvars' = uvars
           /\ PktNext \/ pvars' = pvars
           /\ OutNext \/ ovars' = ovars
           /\ RtNext \/ rrvars' = rrvars
  <1>1. CASE Next
    BY <1>1 DEF Next
  <1>2. CASE vars' = vars
    BY <1>2 DEF vars
  <1>3. QED BY <1>1, <1>2
-----------------------------------------------------------------------------
(***************************************************************************)
(* The router.  What is on record of the last packet was decided by Route  *)
(* with the tables the client still has, so it is enough to look at Route. *)
(***************************************************************************)

\* Block is the first table whenever it is among those that match.
LEMMA FirstBlock ==
    ASSUME NEW hits \in SUBSET Policies, Block \in hits
    PROVE  First(hits) = Block
  <1>1. \A q \in hits : Block <= q
    BY SMT DEF Policies, Block, Proxy
  <1>2. /\ First(hits) \in hits
        /\ \A q \in hits : First(hits) <= q
    BY <1>1 DEF First
  <1>3. First(hits) <= Block
    BY <1>2
  <1>4. \A q \in Policies : q <= Block => q = Block
    BY SMT DEF Policies, Block, Proxy
  <1>5. QED BY <1>2, <1>3, <1>4

\* NewClient accepts a configuration only with a strategy it knows.
Configured == router.started => router.strategy \in Strategies

\* Route lets an address that a block rule names pass only where the strategy
\* ranks another table first.
LEMMA RouteBlocks ==
    ASSUME NEW c, NEW a, NEW ip, c.strategy \in Strategies, Route(c, a, ip) # Block
    PROVE  /\ a.domain /\ Block \in DomainHits(c, a.name) => c.strategy = "ip_on_demand" /\ IPHits(c, ip) # {}
           /\ Block \in IPHits(c, ip) =>
                 /\ a.domain
                 /\ c.strategy = "as_is" \/ (c.strategy = "ip_if_non_match" /\ DomainHits(c, a.name) # {})
  <1>1. DomainHits(c, a.name) \in SUBSET Policies /\ IPHits(c, ip) \in SUBSET Policies
    BY DEF DomainHits, IPHits
  <1>2. /\ Block \in DomainHits(c, a.name) => First(DomainHits(c, a.name)) = Block
        /\ Block \in IPHits(c, ip) => First(IPHits(c, ip)) = Block
    BY <1>1, FirstBlock
  <1>3. ASSUME a.domain, Block \in DomainHits(c, a.name)
        PROVE  c.strategy = "ip_on_demand" /\ IPHits(c, ip) # {}
    BY <1>2, <1>3 DEF Route
  <1>4. ASSUME Block \in IPHits(c, ip)
        PROVE  a.domain
    BY <1>2, <1>4 DEF Route
  <1>5. ASSUME Block \in IPHits(c, ip)
        PROVE  c.strategy = "as_is" \/ (c.strategy = "ip_if_non_match" /\ DomainHits(c, a.name) # {})
    BY <1>2, <1>4, <1>5 DEF Route, Strategies
  <1>6. QED BY <1>3, <1>4, <1>5

\* What a block rule names never leaves (router.Client.Route, DialConn and
\* WriteWithMetadata), whatever rules, addresses and answers of the resolver.
THEOREM BlockingCorrect == Spec => []BlockedNeverLeaves
  <1>1. Init => Configured /\ BlockedNeverLeaves
    <2> SUFFICES ASSUME Init PROVE Configured /\ BlockedNeverLeaves
      OBVIOUS
    <2>1. PICK cfg \in RouterConfigs : router = NewClient(cfg)
      BY DEF Init, RtInit
    <2>2. CASE Refused(cfg)
      BY <2>1, <2>2 DEF NewClient, Configured, BlockedNeverLeaves
    <2>3. CASE ~Refused(cfg)
      <3>1. router.strategy = cfg.strategy /\ cfg.strategy # Invalid
        BY <2>1, <2>3 DEF NewClient, Refused
      <3>2. cfg.strategy \in Strategies
        BY <3>1, RouterAssumption
      <3>3. routed.left = "nowhere"
        BY DEF Init, RtInit
      <3>4. QED BY <3>1, <3>2, <3>3 DEF Configured, BlockedNeverLeaves
    <2>4. QED BY <2>2, <2>3
  <1>2. ASSUME Configured, BlockedNeverLeaves, [Next]_vars
        PROVE  Configured' /\ BlockedNeverLeaves'
    <2>1. CASE rrvars' = rrvars
      BY <1>2, <2>1 DEF rrvars, Configured, BlockedNeverLeaves
    <2>2. ASSUME NEW ip \in Answers, ResolverChanges(ip)
          PROVE  Configured' /\ BlockedNeverLeaves'
      BY <1>2, <2>2 DEF ResolverChanges, Configured, BlockedNeverLeaves
    <2>3. ASSUME NEW a \in RouteAddrs, NEW udp \in BOOLEAN, RouteTo(a, udp)
          PROVE  Configured' /\ BlockedNeverLeaves'
      <3>1. /\ router' = router /\ router.started /\ router.strategy \in Strategies
            /\ routed'.addr = a /\ routed'.ip = Resolved(a)
        BY <1>2, <2>3 DEF RouteTo, Configured
      <3>2. Route(router, a, Resolved(a)) = Block => routed'.left = "nowhere"
        <4>1. Block # Proxy /\ Block # Bypass
          BY SMT DEF Block, Bypass, Proxy
        <4>2. QED BY <2>3, <4>1 DEF RouteTo
      <3>3. CASE routed'.left = "nowhere"
        BY <3>1, <3>3 DEF Configured, BlockedNeverLeaves
      <3>4. CASE Route(router, a, Resolved(a)) # Block
        BY <3>1, <3>4, RouteBlocks DEF Configured, BlockedNeverLeaves
      <3>5. QED BY <3>2, <3>3, <3>4
    <2>4. QED BY <1>2, <2>1, <2>2, <2>3, Steps DEF RtNext
  <1>3. QED BY <1>1, <1>2, PTL DEF Spec
-----------------------------------------------------------------------------
(***************************************************************************)
(* The recorder.  A record reaches a queue with the options its stream has *)
(* at that moment; it stays right because the options of a stream do not   *)
(* change while it is subscribed.  The inductive part is about the record  *)
(* that the visits of one broadcast share: its filter fields stay those of *)
(* the record added, and its payload is restored from a copy.              *)
(***************************************************************************)

Text == {"", "TCP", "nil"} \cup UNION {{r.transport, r.port, r.payload} : r \in Records}
Rec == [transport : Text, port : Text, payload : Text]
Option == [on : {TRUE}, transport : Text, port : Text, payload : BOOLEAN, asked : BOOLEAN]

RecInv ==
    /\ subscribers \in [Stream -> {NoStream} \cup Option]
    /\ records \in [Stream -> Seq(Rec)]
    /\ adding.left # {} => adding \in [record : Rec, payload : Text \ {"nil"}, left : SUBSET Stream]
    /\ \A u \in Stream : subscribers[u].on =>
          (subscribers[u].payload <=> (subscribers[u].asked /\ build.compiled /\ build.allowed))

\* What is in a queue after a send and after a receive.
LEMMA AppendElements ==
    ASSUME NEW S, NEW s \in Seq(S), NEW e \in S
    PROVE  /\ Append(s, e) \in Seq(S)
           /\ \A i \in DOMAIN Append(s, e) :
                 (i \in DOMAIN s /\ Append(s, e)[i] = s[i]) \/ Append(s, e)[i] = e
  BY SMT

\* What Tail keeps of a queue.
LEMMA TailElements ==
    ASSUME NEW S, NEW s \in Seq(S), s # <<>>
    PROVE  /\ Tail(s) \in Seq(S)
           /\ \A i \in DOMAIN Tail(s) : \E j \in DOMAIN s : Tail(s)[i] = s[j]
  <1>1. Tail(s) \in Seq(S)
    BY SMT
  <1>2. \A i \in DOMAIN Tail(s) : i + 1 \in DOMAIN s /\ Tail(s)[i] = s[i + 1]
    BY SMT
  <1>3. QED BY <1>1, <1>2

\* The empty queue.
LEMMA EmptyIsSeq ==
    ASSUME NEW S
    PROVE  <<>> \in Seq(S)
  BY SMT

\* It has no element.
LEMMA EmptyDomain ==
    ASSUME NEW s, s = <<>>
    PROVE  DOMAIN s = {}
  BY SMT

\* The words the recorder itself uses are texts.
LEMMA Texts == "nil" \in Text /\ "" \in Text /\ "TCP" \in Text
  BY DEF Text

\* The record r is what a stream with option o should get from build b.
Right(b, o, r) ==
    /\ Wanted(o, r)
    /\ (r.payload # "nil") <=> (o.asked /\ b.compiled /\ b.allowed)

AllRight(b, ss, rs) ==
    \A u \in Stream : ss[u].on => \A i \in DOMAIN rs[u] : Right(b, ss[u], rs[u][i])

\* RecordsAsAsked, with the state as arguments.
LEMMA RightRecords == RecordsAsAsked <=> AllRight(build, subscribers, records)
  BY DEF RecordsAsAsked, AllRight, Right

\* The same in the next state.
LEMMA RightRecordsNext == RecordsAsAsked' <=> AllRight(build', subscribers', records')
  BY DEF RecordsAsAsked, AllRight, Right, Wanted

\* No stream has a record at the start.
LEMMA RecordsInit == Init => RecInv /\ RecordsAsAsked
  <1> SUFFICES ASSUME Init PROVE RecInv /\ RecordsAsAsked
    OBVIOUS
  <1>1. /\ subscribers = [u \in Stream |-> NoStream]
        /\ records = [u \in Stream |-> <<>>]
        /\ adding = [left |-> {}]
    BY DEF Init, RecInit
  <1>2. <<>> \in Seq(Rec)
    BY EmptyIsSeq
  <1>3. \A u \in Stream : ~subscribers[u].on
    BY <1>1 DEF NoStream
  <1>4. QED BY <1>1, <1>2, <1>3 DEF RecInv, RecordsAsAsked

\* The visit of one subscriber.
LEMMA BroadcastStep ==
    ASSUME RecInv, RecordsAsAsked, NEW u \in Stream, Broadcast(u)
    PROVE  RecInv' /\ RecordsAsAsked'
  <1> DEFINE p == IF subscribers[u].payload THEN adding.payload ELSE "nil"
             r == [adding.record EXCEPT !.payload = p]
             hit == Wanted(subscribers[u], adding.record)
  <1>1. /\ u \in adding.left
        /\ adding' = Visited(u, IF hit THEN r ELSE adding.record)
        /\ records' = IF hit /\ Len(records[u]) < RecordQueue THEN [records EXCEPT ![u] = Append(@, r)] ELSE records
        /\ build' = build /\ subscribers' = subscribers
    BY DEF Broadcast
  <1>2. /\ adding \in [record : Rec, payload : Text \ {"nil"}, left : SUBSET Stream]
        /\ adding.record \in Rec /\ adding.payload \in Text \ {"nil"} /\ adding.left \in SUBSET Stream
    BY <1>1 DEF RecInv
  <1>3. p \in Text
    BY <1>2, Texts
  <1>4. r \in Rec /\ r.payload = p /\ r.transport = adding.record.transport /\ r.port = adding.record.port
    BY <1>2, <1>3 DEF Rec
  <1>5. adding'.left # {} => adding' \in [record : Rec, payload : Text \ {"nil"}, left : SUBSET Stream]
    <2>1. CASE adding.left = {u}
      BY <1>1, <2>1 DEF Visited
    <2>2. CASE adding.left # {u}
      <3>1. PICK q \in Rec : adding' = [adding EXCEPT !.left = adding.left \ {u}, !.record = q]
        BY <1>1, <1>2, <1>4, <2>2 DEF Visited
      <3>2. adding.left \ {u} \in SUBSET Stream
        BY <1>2
      <3>3. QED BY <1>2, <3>1, <3>2
    <2>3. QED BY <2>1, <2>2
  <1>6. hit => Right(build, subscribers[u], r)
    <2> SUFFICES ASSUME hit PROVE Right(build, subscribers[u], r)
      OBVIOUS
    <2>1. Wanted(subscribers[u], r) /\ subscribers[u].on
      BY <1>4 DEF Wanted
    <2>2. subscribers[u].payload <=> (subscribers[u].asked /\ build.compiled /\ build.allowed)
      BY <2>1 DEF RecInv
    <2>3. (p # "nil") <=> subscribers[u].payload
      BY <1>2
    <2>4. QED BY <1>4, <2>1, <2>2, <2>3 DEF Right
  <1> HIDE DEF p, r, hit
  <1>7. records[u] \in Seq(Rec) /\ records \in [Stream -> Seq(Rec)]
    BY DEF RecInv
  <1>8. /\ records' \in [Stream -> Seq(Rec)]
        /\ \A v \in Stream : subscribers[v].on => \A i \in DOMAIN records'[v] : Right(build, subscribers[v], records'[v][i])
    <2>1. \A v \in Stream : subscribers[v].on => \A i \in DOMAIN records[v] : Right(build, subscribers[v], records[v][i])
      BY RightRecords DEF AllRight
    <2>2. CASE records' = records
      BY <1>7, <2>1, <2>2
    <2>3. CASE hit /\ records' = [records EXCEPT ![u] = Append(records[u], r)]
      <3>1. records' \in [Stream -> Seq(Rec)] /\ records'[u] = Append(records[u], r)
            /\ \A v \in Stream : v # u => records'[v] = records[v]
        BY <1>4, <1>7, <2>3, AppendElements
      <3>2. \A i \in DOMAIN records'[u] : (i \in DOMAIN records[u] /\ records'[u][i] = records[u][i]) \/ records'[u][i] = r
        <4>1. \A i \in DOMAIN Append(records[u], r) :
                 (i \in DOMAIN records[u] /\ Append(records[u], r)[i] = records[u][i]) \/ Append(records[u], r)[i] = r
          BY <1>4, <1>7, AppendElements, ZenonT(30)
        <4>2. QED BY <3>1, <4>1
      <3>3. QED BY <1>6, <2>1, <2>3, <3>1, <3>2, ZenonT(30)
    <2>4. QED BY <1>1, <2>2, <2>3
  <1>9. RecInv'
    BY <1>1, <1>5, <1>8 DEF RecInv
  <1>10. QED BY <1>1, <1>8, <1>9, RightRecordsNext DEF AllRight

\* Every record in a stream's queue is what the stream asked for and may have
\* (GetRecords, broadcast): for any streams, records and capacity.
THEOREM RecordingCorrect == Spec => []RecordsAsAsked
  <1>1. ASSUME RecInv, RecordsAsAsked, [Next]_vars
        PROVE  RecInv' /\ RecordsAsAsked'
    <2>1. CASE recvars' = recvars
      BY <1>1, <2>1, RightRecords, RightRecordsNext DEF recvars, RecInv
    <2>2. ASSUME NEW u \in Stream, NEW t \in {"", "TCP"}, NEW pl \in BOOLEAN,
                 GetRecords(u, [transport |-> t, port |-> "", payload |-> pl])
          PROVE  RecInv' /\ RecordsAsAsked'
      <3>1. PICK o : o = [on |-> TRUE, transport |-> t, port |-> "", payload |-> (pl /\ build.compiled), asked |-> pl]
        OBVIOUS
      <3>2. /\ subscribers' = [subscribers EXCEPT ![u] = o]
            /\ records' = [records EXCEPT ![u] = <<>>]
            /\ build' = build /\ adding' = adding
            /\ pl /\ build.compiled => build.allowed
        BY <2>2, <3>1 DEF GetRecords
      <3>3. o \in Option /\ <<>> \in Seq(Rec)
        <4>1. t \in Text /\ "" \in Text
          BY Texts
        <4>2. (pl /\ build.compiled) \in BOOLEAN
          OBVIOUS
        <4>3. <<>> \in Seq(Rec)
          BY EmptyIsSeq
        <4>4. QED BY <3>1, <4>1, <4>2, <4>3 DEF Option
      <3>4. o.payload <=> (o.asked /\ build.compiled /\ build.allowed)
        <4>1. o.payload <=> (pl /\ build.compiled)
          BY <3>1
        <4>2. o.asked <=> pl
          BY <3>1
        <4>3. QED BY <3>2, <4>1, <4>2
      <3>5. /\ subscribers' \in [Stream -> {NoStream} \cup Option] /\ records' \in [Stream -> Seq(Rec)]
            /\ subscribers'[u] = o /\ records'[u] = <<>>
            /\ \A v \in Stream : v # u => subscribers'[v] = subscribers[v] /\ records'[v] = records[v]
        BY <1>1, <3>2, <3>3 DEF RecInv
      <3>6. DOMAIN records'[u] = {}
        BY <3>5, EmptyDomain
      <3>7. RecInv'
        BY <1>1, <3>2, <3>4, <3>5 DEF RecInv
      <3>8. QED BY <1>1, <3>2, <3>5, <3>6, <3>7, RightRecords, RightRecordsNext DEF AllRight
    <2>3. ASSUME NEW u \in Stream, SendRecord(u)
          PROVE  RecInv' /\ RecordsAsAsked'
      <3>1. /\ records' = [records EXCEPT ![u] = Tail(records[u])] /\ records[u] # <<>>
            /\ build' = build /\ subscribers' = subscribers /\ adding' = adding
            /\ records \in [Stream -> Seq(Rec)] /\ records[u] \in Seq(Rec)
        BY <1>1, <2>3 DEF SendRecord, RecInv
      <3>2. /\ Tail(records[u]) \in Seq(Rec)
            /\ \A i \in DOMAIN Tail(records[u]) : \E j \in DOMAIN records[u] : Tail(records[u])[i] = records[u][j]
        BY <3>1, TailElements
      <3>3. /\ records' \in [Stream -> Seq(Rec)] /\ records'[u] = Tail(records[u])
            /\ \A v \in Stream : v # u => records'[v] = records[v]
        BY <3>1, <3>2
      <3>4. RecInv'
        BY <1>1, <3>1, <3>3 DEF RecInv
      <3>5. QED BY <1>1, <3>1, <3>2, <3>3, <3>4, RightRecords, RightRecordsNext, ZenonT(30) DEF AllRight
    <2>4. ASSUME NEW u \in Stream, Unsubscribe(u)
          PROVE  RecInv' /\ RecordsAsAsked'
      <3>1. /\ subscribers' = [subscribers EXCEPT ![u] = NoStream]
            /\ build' = build /\ records' = records /\ adding' = adding
        BY <2>4 DEF Unsubscribe
      <3>2. /\ subscribers' \in [Stream -> {NoStream} \cup Option] /\ ~subscribers'[u].on
            /\ \A v \in Stream : v # u => subscribers'[v] = subscribers[v]
        BY <1>1, <3>1 DEF RecInv, NoStream
      <3>3. RecInv'
        BY <1>1, <3>1, <3>2 DEF RecInv
      <3>4. QED BY <1>1, <3>1, <3>2, <3>3, RightRecords, RightRecordsNext DEF AllRight
    <2>5. ASSUME NEW r \in Records, Add(r)
          PROVE  RecInv' /\ RecordsAsAsked'
      <3>1. /\ adding' = [record |-> r, payload |-> r.payload, left |-> Stream]
            /\ build' = build /\ records' = records /\ subscribers' = subscribers
        BY <2>5 DEF Add
      <3>2. r \in Rec /\ r.payload \in Text \ {"nil"}
        <4>1. {r.transport, r.port, r.payload} \in {{q.transport, q.port, q.payload} : q \in Records}
          OBVIOUS
        <4>2. r.transport \in Text /\ r.port \in Text /\ r.payload \in Text
          BY <4>1 DEF Text
        <4>3. QED BY <4>2, RecordAssumption DEF Rec
      <3>3. RecInv'
        BY <1>1, <3>1, <3>2 DEF RecInv
      <3>4. QED BY <1>1, <3>1, <3>2, <3>3, RightRecords, RightRecordsNext DEF AllRight
    <2>6. QED BY <1>1, <2>1, <2>2, <2>3, <2>4, <2>5, BroadcastStep, Steps DEF RecNext
  <1>2. QED BY RecordsInit, <1>1, PTL DEF Spec
-----------------------------------------------------------------------------
(***************************************************************************)
(* The user API.  While no other stream changes the user of a request, the *)
(* setters that were called have set their fields, the others are as they  *)
(* were, and the user exists once the IP limit, which is always set, was.  *)
(***************************************************************************)

Field == {"speed", "traffic", "ipLimit", "quota"}
UserRec == [exists : {TRUE}, speed : Nat, traffic : Nat, ipLimit : Nat, quota : Nat]
CallRec ==
    [op : {"none", "add", "modify", "delete", "get", "list"}, at : 0 .. 5, answer : {"none", "success", "failure"},
     hash : Hash \cup {"none"}, has : SUBSET Field, before : {NoUser} \cup UserRec, alone : BOOLEAN]

ApiTypes ==
    /\ users \in [Hash -> {NoUser} \cup UserRec]
    /\ call \in [Caller -> CallRec]
    /\ \A k \in Caller : call[k].op # "none" => call[k].hash \in Hash

\* What request r of stream k has done to user u, while it is the only one.
Done(k, r, u) ==
    /\ r.op = "add" \/ r.at >= 4 => u.exists
    /\ u.exists => \A i \in 1 .. 4 :
          u[Fields[i]] = IF i < r.at /\ Fields[i] \in r.has THEN k ELSE r.before[Fields[i]]

\* Request r as far as it has come, with users us.
Under(k, r, us) ==
    r.op \in {"add", "modify"} =>
        /\ "ipLimit" \in r.has
        /\ r.op = "modify" => r.at >= 1
        /\ r.op = "add" => r.before = AddedUser
        /\ r.answer # "none" => r.at = 5
        /\ r.alone /\ r.at >= 1 => Done(k, r, us[r.hash])

ApiInv == ApiTypes /\ \A k \in Caller : Under(k, call[k], users)

\* The setters, by their place in a request.
LEMMA FieldFacts ==
    /\ DOMAIN Fields = 1 .. 4
    /\ \A i \in 1 .. 4 : Fields[i] \in Field
    /\ \A i, j \in 1 .. 4 : Fields[i] = Fields[j] => i = j
    /\ Fields[3] = "ipLimit"
  BY SMT DEF Fields, Field

\* What a request has done depends on these fields of its record only.
LEMMA DoneSame ==
    ASSUME NEW k, NEW r, NEW q, q.op = r.op, q.at = r.at, q.has = r.has, q.before = r.before, NEW u, Done(k, r, u)
    PROVE  Done(k, q, u)
  BY SMT DEF Done

\* A stored user and the absent one.
LEMMA UserFacts ==
    /\ AddedUser \in UserRec /\ AddedUser.exists
    /\ ~NoUser.exists
    /\ \A u \in UserRec : u.exists
    /\ \A u \in {NoUser} \cup UserRec : u.exists \in BOOLEAN
  <1>1. 0 \in Nat
    BY SMT
  <1>2. NoUser.exists = FALSE
    BY DEF NoUser
  <1>3. \A u \in UserRec : u.exists = TRUE
    BY DEF UserRec
  <1>4. AddedUser \in UserRec
    BY <1>1 DEF AddedUser, UserRec
  <1>5. QED BY <1>2, <1>3, <1>4

\* A caller without a request.
LEMMA NoCallFacts ==
    /\ NoCall \in CallRec
    /\ NoCall.op = "none" /\ NoCall.answer = "none"
    /\ \A k, us : Under(k, NoCall, us)
  <1>1. 0 \in 0 .. 5
    BY SMT
  <1>2. QED BY <1>1 DEF NoCall, CallRec, Under

\* What Goes does to the call of the stream that goes on.
LEMMA GoesOwn ==
    ASSUME NEW k \in Caller, NEW r, NEW changed, Goes(k, r, changed)
    PROVE  call'[k] = IF Kept(r) THEN r ELSE NoCall
  BY DEF Goes

\* And to the call of another one: dropped, or as it was but for being alone.
StillOn(j, k, changed) ==
    /\ call'[j] \in CallRec
    /\ call'[j].op = call[j].op /\ call'[j].at = call[j].at /\ call'[j].answer = call[j].answer
    /\ call'[j].hash = call[j].hash /\ call'[j].has = call[j].has /\ call'[j].before = call[j].before
    /\ call'[j].alone => call[j].alone /\ ~(changed /\ call[j].hash = call[k].hash)

\* Another caller's request stays, and is no longer alone when its user changed.
LEMMA GoesOthers ==
    ASSUME ApiInv, NEW k \in Caller, NEW r, NEW changed \in BOOLEAN, Goes(k, r, changed)
    PROVE  \A j \in Caller \ {k} : call'[j] = NoCall \/ StillOn(j, k, changed)
  <1> SUFFICES ASSUME NEW j \in Caller, j # k
               PROVE  call'[j] = NoCall \/ StillOn(j, k, changed)
    OBVIOUS
  <1>1. PICK b \in BOOLEAN : b = (call[j].alone /\ ~(changed /\ call[j].hash = call[k].hash))
    OBVIOUS
  <1>2. call'[j] = NoCall \/ call'[j] = [call[j] EXCEPT !.alone = b]
    BY <1>1 DEF Goes
  <1>3. call[j] \in CallRec
    BY DEF ApiInv, ApiTypes
  <1>4. /\ [call[j] EXCEPT !.alone = b] \in CallRec
        /\ [call[j] EXCEPT !.alone = b].op = call[j].op
        /\ [call[j] EXCEPT !.alone = b].at = call[j].at
        /\ [call[j] EXCEPT !.alone = b].answer = call[j].answer
        /\ [call[j] EXCEPT !.alone = b].hash = call[j].hash
        /\ [call[j] EXCEPT !.alone = b].has = call[j].has
        /\ [call[j] EXCEPT !.alone = b].before = call[j].before
        /\ [call[j] EXCEPT !.alone = b].alone = b
    BY <1>3 DEF CallRec
  <1>5. QED BY <1>1, <1>2, <1>4 DEF StillOn

\* It is enough to look at the stream that goes on: the calls of the others that
\* still count are on users the step leaves alone.
LEMMA ApiStep ==
    ASSUME ApiInv, NEW k \in Caller, NEW r \in CallRec, NEW changed \in BOOLEAN, Goes(k, r, changed),
           users' \in [Hash -> {NoUser} \cup UserRec],
           \A h \in Hash : users'[h] = users[h] \/ (changed /\ h = call[k].hash),
           Kept(r) => (r.op # "none" => r.hash \in Hash) /\ Under(k, r, users')
    PROVE  ApiInv'
  <1>1. \A j \in Caller \ {k} : call'[j] = NoCall \/ StillOn(j, k, changed)
    BY GoesOthers
  <1>2. call'[k] = NoCall \/ (Kept(r) /\ call'[k] = r)
    BY GoesOwn
  <1>3. call' \in [Caller -> CallRec]
    <2>1. call' = [j \in Caller |-> call'[j]]
      BY DEF Goes
    <2>2. \A j \in Caller : call'[j] \in CallRec
      BY <1>1, <1>2, NoCallFacts DEF StillOn
    <2>3. QED BY <2>1, <2>2
  <1>4. (call'[k].op # "none" => call'[k].hash \in Hash) /\ Under(k, call'[k], users')
    BY <1>2, NoCallFacts
  <1>5. ASSUME NEW j \in Caller \ {k}
        PROVE  (call'[j].op # "none" => call'[j].hash \in Hash) /\ Under(j, call'[j], users')
    <2>1. CASE call'[j] = NoCall
      BY <2>1, NoCallFacts
    <2>2. CASE StillOn(j, k, changed)
      <3>1. /\ call[j].op # "none" => call[j].hash \in Hash
            /\ Under(j, call[j], users)
        BY DEF ApiInv, ApiTypes
      <3>2. call'[j].alone /\ call[j].op # "none" => users'[call[j].hash] = users[call[j].hash]
        BY <2>2, <3>1 DEF StillOn
      <3>3. Under(j, call'[j], users')
        <4>1. \A u : Done(j, call[j], u) => Done(j, call'[j], u)
          BY <2>2, DoneSame DEF StillOn
        <4>2. QED BY <2>2, <3>1, <3>2, <4>1 DEF StillOn, Under
      <3>4. QED BY <2>2, <3>1, <3>3 DEF StillOn
    <2>3. QED BY <1>1, <2>1, <2>2
  <1>6. QED BY <1>3, <1>4, <1>5 DEF ApiInv, ApiTypes

\* Nobody has asked for anything at the start.
LEMMA ApiInitial == Init => ApiInv
  <1> SUFFICES ASSUME Init PROVE ApiInv
    OBVIOUS
  <1>1. users \in [Hash -> {NoUser, AddedUser}] /\ call = [k \in Caller |-> NoCall]
    BY DEF Init, ApiInit
  <1>2. AddedUser \in UserRec
    BY UserFacts
  <1>3. users \in [Hash -> {NoUser} \cup UserRec]
    BY <1>1, <1>2
  <1>4. QED BY <1>1, <1>3, NoCallFacts DEF ApiInv, ApiTypes

\* stream.Recv of a request.
LEMMA RecvStep ==
    ASSUME ApiInv, NEW k \in Caller, NEW op \in {"add", "modify", "delete", "get", "list"}, NEW h \in Hash,
           NEW has \in SUBSET Field, Recv(k, op, h, has)
    PROVE  ApiInv'
  <1>1. PICK b : b = IF op = "modify" THEN users[h] ELSE AddedUser
    OBVIOUS
  <1>2. b \in {NoUser} \cup UserRec
    BY <1>1, UserFacts DEF ApiInv, ApiTypes
  <1>3. PICK n \in 0 .. 5 : n = IF op = "modify" THEN 1 ELSE 0
    BY SMT
  <1>4. PICK r : r = [op |-> op, at |-> n, answer |-> "none", hash |-> h, has |-> has \cup {"ipLimit"},
                      before |-> b, alone |-> TRUE]
    OBVIOUS
  <1>5. Goes(k, r, FALSE) /\ users' = users
    BY <1>1, <1>3, <1>4 DEF Recv
  <1>6. r \in CallRec
    <2>1. has \cup {"ipLimit"} \in SUBSET Field
      BY DEF Field
    <2>2. QED BY <1>2, <1>4, <2>1 DEF CallRec
  <1> /\ r.op = op /\ r.at = n /\ r.answer = "none" /\ r.hash = h /\ r.has = has \cup {"ipLimit"}
      /\ r.before = b /\ r.alone = TRUE
    BY <1>4
  <1>7. Under(k, r, users)
    <2>1. CASE op = "modify"
      <3>1. n = 1 /\ b = users[h]
        BY <1>1, <1>3, <2>1
      <3>2. n >= 1 /\ ~(n >= 4) /\ \A i \in 1 .. 4 : ~(i < n)
        BY <3>1, SMT
      <3>3. Done(k, r, users[h])
        BY <2>1, <3>1, <3>2 DEF Done
      <3>4. QED BY <2>1, <3>2, <3>3 DEF Under
    <2>2. CASE op # "modify"
      <3>1. ~(n >= 1)
        BY <1>3, <2>2, SMT
      <3>2. QED BY <1>1, <2>2, <3>1 DEF Under
    <2>3. QED BY <2>1, <2>2
  <1>8. users' \in [Hash -> {NoUser} \cup UserRec]
    BY <1>5 DEF ApiInv, ApiTypes
  <1>9. QED BY <1>4, <1>5, <1>6, <1>7, <1>8, ApiStep

\* A request that ends without a change of the user: the call is over, or it was
\* the last of an add or a modify.
LEMMA AnswerStep ==
    ASSUME ApiInv, NEW k \in Caller, NEW a \in {"success", "failure"}, Answer(k, a, FALSE), users' = users,
           a = "success" /\ call[k].op \in {"add", "modify"} => call[k].at = 5
    PROVE  ApiInv'
  <1>1. PICK r : r = [call[k] EXCEPT !.answer = a]
    OBVIOUS
  <1>2. call[k] \in CallRec /\ Under(k, call[k], users) /\ (call[k].op # "none" => call[k].hash \in Hash)
    BY DEF ApiInv, ApiTypes
  <1>3. /\ r \in CallRec /\ r.answer = a
        /\ r.op = call[k].op /\ r.at = call[k].at /\ r.hash = call[k].hash /\ r.has = call[k].has
        /\ r.before = call[k].before /\ r.alone = call[k].alone
    BY <1>1, <1>2 DEF CallRec
  <1>4. Kept(r) => a = "success" /\ r.op \in {"add", "modify"}
    BY <1>3 DEF Kept
  <1>5. Kept(r) => Under(k, r, users')
    <2>1. \A u : Done(k, call[k], u) => Done(k, r, u)
      BY <1>3, DoneSame
    <2>2. QED BY <1>2, <1>3, <1>4, <2>1 DEF Under
  <1>6. users' \in [Hash -> {NoUser} \cup UserRec] /\ Goes(k, r, FALSE)
    BY <1>1 DEF ApiInv, ApiTypes, Answer
  <1>7. QED BY <1>2, <1>3, <1>5, <1>6, ApiStep

\* AddUser of the authenticator.
LEMMA AddUserStep ==
    ASSUME ApiInv, NEW k \in Caller, AddUser(k)
    PROVE  ApiInv'
  <1>1. PICK h : h = call[k].hash
    OBVIOUS
  <1>2. /\ h \in Hash /\ call[k] \in CallRec /\ call[k].op = "add" /\ call[k].answer = "none" /\ call[k].at = 0
        /\ Under(k, call[k], users) /\ users \in [Hash -> {NoUser} \cup UserRec]
    BY <1>1 DEF ApiInv, ApiTypes, AddUser, Working
  <1>3. CASE users[h].exists
    BY <1>1, <1>3, AnswerStep DEF AddUser
  <1>4. CASE ~users[h].exists
    <2>1. PICK r : r = [call[k] EXCEPT !.at = 1]
      OBVIOUS
    <2>2. /\ users' = [users EXCEPT ![h] = AddedUser]
          /\ Goes(k, r, TRUE)
      BY <1>1, <1>4, <2>1 DEF AddUser
    <2>3. 1 \in 0 .. 5 /\ 1 >= 1 /\ ~(1 >= 4) /\ \A i \in 1 .. 4 : ~(i < 1)
      BY SMT
    <2>4. /\ r \in CallRec /\ r.at = 1 /\ r.answer = "none" /\ r.op = "add" /\ r.hash = h /\ r.has = call[k].has
          /\ r.before = call[k].before /\ r.alone = call[k].alone
      BY <1>1, <1>2, <2>1, <2>3 DEF CallRec
    <2>5. /\ users' \in [Hash -> {NoUser} \cup UserRec] /\ users'[h] = AddedUser
          /\ \A g \in Hash : users'[g] = users[g] \/ g = h
      BY <1>2, <2>2, UserFacts
    <2>6. Under(k, r, users')
      BY <1>2, <2>3, <2>4, <2>5, UserFacts DEF Under, Done
    <2>7. QED BY <1>1, <1>2, <2>2, <2>4, <2>5, <2>6, ApiStep
  <1>5. QED BY <1>3, <1>4

\* DelUser of the authenticator.
LEMMA DelUserStep ==
    ASSUME ApiInv, NEW k \in Caller, DelUser(k)
    PROVE  ApiInv'
  <1>1. PICK h : h = call[k].hash
    OBVIOUS
  <1>2. /\ h \in Hash /\ call[k] \in CallRec /\ call[k].op = "delete"
        /\ users \in [Hash -> {NoUser} \cup UserRec] /\ users[h] \in {NoUser} \cup UserRec
    BY <1>1 DEF ApiInv, ApiTypes, DelUser, Working
  <1>3. PICK a \in {"success", "failure"} : a = IF users[h].exists THEN "success" ELSE "failure"
    OBVIOUS
  <1>4. PICK r : r = [call[k] EXCEPT !.answer = a]
    OBVIOUS
  <1>5. users' = [users EXCEPT ![h] = NoUser] /\ Goes(k, r, users[h].exists)
    BY <1>1, <1>3, <1>4 DEF DelUser, Answer
  <1>6. r \in CallRec /\ ~Kept(r)
    BY <1>2, <1>4 DEF CallRec, Kept
  <1>7. /\ users' \in [Hash -> {NoUser} \cup UserRec]
        /\ \A g \in Hash : users'[g] = users[g] \/ (users[h].exists /\ g = h)
    BY <1>2, <1>5, UserFacts
  <1>8. users[h].exists \in BOOLEAN
    BY <1>2, UserFacts
  <1>9. QED BY <1>1, <1>2, <1>5, <1>6, <1>7, <1>8, ApiStep, ZenonT(30)

\* One setter of a request.
LEMMA SetFieldStep ==
    ASSUME ApiInv, NEW k \in Caller, SetField(k)
    PROVE  ApiInv'
  <1>1. PICK h, f, n : h = call[k].hash /\ n = call[k].at /\ f = Fields[n]
    OBVIOUS
  <1>2. /\ h \in Hash /\ call[k] \in CallRec /\ call[k].op \in {"add", "modify"} /\ call[k].answer = "none"
        /\ n \in 1 .. 4 /\ f \in Field /\ call[k].has \in SUBSET Field
        /\ Under(k, call[k], users) /\ users \in [Hash -> {NoUser} \cup UserRec]
    BY <1>1, FieldFacts DEF ApiInv, ApiTypes, SetField, Working, CallRec
  <1>3. /\ n + 1 \in 0 .. 5 /\ n >= 1 /\ n + 1 >= 1 /\ n + 1 # 0
        /\ n + 1 >= 4 => n = 3 \/ n >= 4
        /\ \A i \in 1 .. 4 : i < n + 1 <=> i < n \/ i = n
        /\ ~(n < n)
    BY <1>2, SMT
  <1>4. PICK r : r = [call[k] EXCEPT !.at = n + 1]
    OBVIOUS
  <1>5. /\ r \in CallRec /\ r.at = n + 1 /\ r.answer = "none" /\ r.op = call[k].op /\ r.hash = h
        /\ r.has = call[k].has /\ r.before = call[k].before /\ r.alone = call[k].alone
    BY <1>1, <1>2, <1>3, <1>4 DEF CallRec
  <1>6. CASE f \in call[k].has /\ ~users[h].exists
    <2>1. users' = users /\ Answer(k, "failure", FALSE)
      BY <1>1, <1>6 DEF SetField
    <2>2. QED BY <2>1, AnswerStep
  <1>7. CASE f \notin call[k].has
    <2>1. users' = users /\ Goes(k, r, FALSE)
      BY <1>1, <1>4, <1>7 DEF SetField
    <2>2. r.alone => Done(k, call[k], users[h])
      BY <1>1, <1>2, <1>3, <1>5 DEF Under
    <2>3. n # 3
      BY <1>1, <1>2, <1>7, FieldFacts DEF Under
    <2>4. r.alone => Done(k, r, users[h])
      BY <1>1, <1>3, <1>5, <1>7, <2>2, <2>3 DEF Done
    <2>5. Under(k, r, users')
      BY <1>2, <1>3, <1>5, <2>1, <2>4 DEF Under
    <2>6. QED BY <1>2, <1>5, <2>1, <2>5, ApiStep
  <1>8. CASE f \in call[k].has /\ users[h].exists
    <2>1. PICK u : u = [users[h] EXCEPT ![f] = k]
      OBVIOUS
    <2>2. users' = [users EXCEPT ![h] = u] /\ Goes(k, r, TRUE)
      BY <1>1, <1>4, <1>8, <2>1 DEF SetField
    <2>3. users[h] \in UserRec
      BY <1>2, <1>8, UserFacts
    <2>4. u \in UserRec /\ u.exists /\ u[f] = k /\ \A g \in Field : g # f => u[g] = users[h][g]
      <3>1. k \in Nat
        BY ApiAssumption
      <3>2. PICK x \in UserRec : x = users[h]
        BY <2>3
      <3>3. f \in Field /\ u = [x EXCEPT ![f] = k]
        BY <1>2, <2>1, <3>2
      <3>4. u \in UserRec /\ u.exists /\ u[f] = k /\ \A g \in Field : g # f => u[g] = x[g]
        BY <3>1, <3>3 DEF UserRec, Field
      <3>5. QED BY <3>2, <3>4
    <2>5. /\ users' \in [Hash -> {NoUser} \cup UserRec] /\ users'[h] = u
          /\ \A g \in Hash : users'[g] = users[g] \/ g = h
      BY <1>2, <2>2, <2>4
    <2>6. r.alone => Done(k, call[k], users[h])
      BY <1>1, <1>2, <1>3, <1>5 DEF Under
    <2>7. r.alone => Done(k, r, u)
      <3>1. ASSUME r.alone, NEW i \in 1 .. 4
            PROVE  u[Fields[i]] = IF i < r.at /\ Fields[i] \in r.has THEN k ELSE r.before[Fields[i]]
        <4>1. CASE i = n
          BY <1>1, <1>3, <1>5, <1>8, <2>4, <4>1
        <4>2. CASE i # n
          <5>1. Fields[i] \in Field /\ Fields[i] # f
            BY <1>1, <1>2, <4>2, FieldFacts
          <5>2. users[h][Fields[i]] = IF i < n /\ Fields[i] \in call[k].has THEN k ELSE call[k].before[Fields[i]]
            BY <1>1, <1>8, <2>6, <3>1 DEF Done
          <5>3. QED BY <1>3, <1>5, <2>4, <4>2, <5>1, <5>2
        <4>3. QED BY <4>1, <4>2
      <3>2. QED BY <2>4, <3>1 DEF Done
    <2>8. Under(k, r, users')
      BY <1>2, <1>3, <1>5, <2>5, <2>7 DEF Under
    <2>9. QED BY <1>1, <1>2, <1>5, <2>2, <2>5, <2>8, ApiStep
  <1>9. QED BY <1>6, <1>7, <1>8

\* Requests answered with success are in force until another stream changes the
\* user (SetUsers of the API), for any streams and users.
THEOREM RequestsCorrect == Spec => []AnsweredInForce
  <1>1. ASSUME ApiInv, [Next]_vars
        PROVE  ApiInv'
    <2>1. CASE uvars' = uvars
      BY <1>1, <2>1 DEF uvars, ApiInv, ApiTypes
    <2>2. ASSUME NEW k \in Caller, NEW op \in {"add", "modify"}, NEW h \in Hash,
                 NEW has \in {{"speed"}, {"traffic", "quota"}}, Recv(k, op, h, has)
          PROVE  ApiInv'
      <3>1. has \in SUBSET Field
        BY DEF Field
      <3>2. QED BY <1>1, <2>2, <3>1, RecvStep
    <2>3. ASSUME NEW k \in Caller, NEW op \in {"delete", "get", "list"}, NEW h \in Hash, Recv(k, op, h, {})
          PROVE  ApiInv'
      <3>1. {} \in SUBSET Field /\ op \in {"add", "modify", "delete", "get", "list"}
        OBVIOUS
      <3>2. QED BY <1>1, <2>3, <3>1, RecvStep
    <2>4. ASSUME NEW k \in Caller, Respond(k) \/ GetUser(k) \/ ListUsers(k)
          PROVE  ApiInv'
      <3>1. PICK a \in {"success", "failure"} : Answer(k, a, FALSE) /\ (call[k].op \in {"add", "modify"} => call[k].at = 5)
        BY <2>4 DEF Respond, GetUser, ListUsers, Working
      <3>2. users' = users
        BY <2>4 DEF Respond, GetUser, ListUsers
      <3>3. QED BY <1>1, <3>1, <3>2, AnswerStep
    <2>5. QED
      BY <1>1, <2>1, <2>2, <2>3, <2>4, AddUserStep, DelUserStep, SetFieldStep, Steps DEF ApiNext
  <1>2. ApiInv => AnsweredInForce
    <2> SUFFICES ASSUME ApiInv, NEW k \in Caller,
                        call[k].op \in {"add", "modify"} /\ call[k].answer = "success" /\ call[k].alone
                 PROVE  LET u == users[call[k].hash] IN
                        /\ u.exists
                        /\ \A i \in DOMAIN Fields :
                              u[Fields[i]] = IF Fields[i] \in call[k].has THEN k ELSE call[k].before[Fields[i]]
      BY DEF AnsweredInForce
    <2>1. call[k].at = 5 /\ (call[k].at >= 1 => Done(k, call[k], users[call[k].hash]))
      BY DEF ApiInv, Under
    <2>2. 5 >= 1 /\ 5 >= 4 /\ \A i \in 1 .. 4 : i < 5
      BY SMT
    <2>3. QED BY <2>1, <2>2, FieldFacts DEF Done
  <1>3. QED BY ApiInitial, <1>1, <1>2, PTL DEF Spec
-----------------------------------------------------------------------------
(***************************************************************************)
(* Dialling out.  While the connection is not broken the number of things  *)
(* on the wire is fixed by how many payloads were begun and whether one of *)
(* them still waits for the header; the Once keeps the two writers from    *)
(* both sending the header, also when the first attempt fails.             *)
(***************************************************************************)

\* What is on the wire, numbered from the header.
Numbered(w) == w \in Seq(Nat) /\ \A i \in DOMAIN w : w[i] = i - 1

\* No writer has entered the Once.
Quiet == writers.relay = "idle" /\ writers.flusher \in {"none", "sleep"}

OutInv ==
    /\ writers \in [relay : {"idle", "header", "wait"}, flusher : {"none", "sleep", "header", "wait"}]
    /\ once \in {"no", "busy", "done"}
    /\ payload \in Nat
    /\ Numbered(wire)
    /\ broken \in BOOLEAN
    /\ ~Dialled => Quiet /\ payload = 0 /\ ~broken
    /\ Muxed => Quiet /\ once # "busy"
    /\ once = "no" => Quiet /\ wire = <<>> /\ (~broken => payload = 0) /\ (~Muxed => ~broken)
    /\ once = "busy" =>
          /\ wire = <<>> /\ ~broken
          /\ \/ writers.relay = "header" /\ writers.flusher # "header" /\ payload = 1
             \/ writers.relay = "idle" /\ writers.flusher = "header" /\ payload = 0
             \/ writers.relay = "wait" /\ writers.flusher = "header" /\ payload = 1
    /\ once = "done" =>
          /\ writers.relay # "header" /\ writers.flusher # "header"
          /\ ~broken => Len(wire) = IF writers.relay = "wait" THEN payload ELSE payload + 1

\* No write yet.
LEMMA NumberedEmpty == Numbered(<<>>)
  BY SMT DEF Numbered

\* The header is write 0.
LEMMA NumberedHeader ==
    ASSUME NEW w, w = <<Header>>
    PROVE  Numbered(w) /\ Len(w) = 1
  BY SMT DEF Numbered, Header

\* simplesocks writes the header and the payload in one call.
LEMMA NumberedFirst ==
    ASSUME NEW w, w = <<Header, 1>>
    PROVE  Numbered(w) /\ Len(w) = 2
  BY SMT DEF Numbered, Header

\* The next write takes the next number.
LEMMA NumberedNext ==
    ASSUME NEW w, Numbered(w), NEW n \in Nat, Len(w) = n, NEW v, v = w \o <<n>>
    PROVE  Numbered(v) /\ Len(v) = n + 1
  <1>1. w \in Seq(Nat) /\ \A i \in DOMAIN w : w[i] = i - 1
    BY DEF Numbered
  <1>2. DOMAIN w = 1 .. n
    BY <1>1, SMTT(30)
  <1>3. w \in Seq(Nat) /\ \A i \in 1 .. n : w[i] = i - 1
    BY <1>1, <1>2
  <1>4. v \in Seq(Nat) /\ Len(v) = n + 1
    BY <1>3, SMT
  <1>5. \A i \in 1 .. n + 1 : v[i] = i - 1
    BY <1>3, SMT
  <1>6. QED BY <1>4, <1>5, SMT DEF Numbered


\* A connection not yet dialled.
LEMMA OutInitial == Init => OutInv
  <1> SUFFICES ASSUME Init PROVE OutInv
    OBVIOUS
  <1>1. /\ writers = [relay |-> "idle", flusher |-> "none"] /\ once = "no" /\ payload = 0
        /\ wire = <<>> /\ broken = FALSE
    BY DEF Init, OutInit
  <1>2. 0 \in Nat
    BY SMT
  <1>3. QED BY <1>1, <1>2, NumberedEmpty DEF OutInv, Quiet

\* A layer of the dial: before it and after it nothing is written, but for the
\* header that simplesocks sends for packets.
LEMMA DialStep ==
    ASSUME OutInv,
           \/ TransportDial \/ TLSDial \/ WebsocketDial \/ ShadowsocksDial \/ TrojanDial \/ MuxDial
           \/ SimpleSocksDial \/ RouterDial
    PROVE  OutInv'
  <1>1. ~Dialled
    BY DEF TransportDial, TLSDial, WebsocketDial, ShadowsocksDial, TrojanDial, MuxDial, SimpleSocksDial, RouterDial, Layer
  <1>2. layers' = layers /\ payload' = payload /\ broken' = broken
    BY DEF TransportDial, TLSDial, WebsocketDial, ShadowsocksDial, TrojanDial, MuxDial, SimpleSocksDial, RouterDial
  <1>3. Quiet /\ payload = 0 /\ ~broken
    BY <1>1 DEF OutInv
  <1>4. Muxed' <=> Muxed
    BY <1>2 DEF Muxed
  <1>5. writers' \in [relay : {"idle"}, flusher : {"none", "sleep"}]
    <2>1. CASE TrojanDial
      BY <1>3, <2>1 DEF TrojanDial, Quiet, OutInv
    <2>2. CASE writers' = writers
      BY <1>3, <2>2 DEF Quiet, OutInv
    <2>3. QED BY <2>1, <2>2 DEF TransportDial, TLSDial, WebsocketDial, ShadowsocksDial, MuxDial, SimpleSocksDial, RouterDial
  <1>6. \/ once' = once /\ wire' = wire
        \/ once' = "done" /\ wire' = <<Header>>
    BY DEF TransportDial, TLSDial, WebsocketDial, ShadowsocksDial, TrojanDial, MuxDial, SimpleSocksDial, RouterDial
  <1>7. /\ writers' \in [relay : {"idle", "header", "wait"}, flusher : {"none", "sleep", "header", "wait"}]
        /\ Quiet' /\ payload' = 0 /\ ~broken' /\ broken' \in BOOLEAN /\ payload' \in Nat
    BY <1>2, <1>3, <1>5 DEF Quiet, OutInv
  <1>8. CASE once' = once /\ wire' = wire
    <2>1. once # "busy"
      BY <1>3 DEF OutInv, Quiet
    <2>2. once = "done" => Len(wire) = payload + 1
      BY <1>3 DEF OutInv, Quiet
    <2>3. QED BY <1>2, <1>3, <1>4, <1>7, <1>8, <2>1, <2>2 DEF OutInv, Quiet
  <1>9. CASE once' = "done" /\ wire' = <<Header>>
    <2>1. Numbered(wire') /\ Len(wire') = 1 /\ payload' + 1 = 1
      BY <1>7, <1>9, NumberedHeader, SMT
    <2>2. QED BY <1>4, <1>7, <1>9, <2>1 DEF OutInv, Quiet
  <1>10. QED BY <1>6, <1>8, <1>9

\* A writer enters the once.
LEMMA EnterOnceStep ==
    ASSUME OutInv, NEW w \in {"relay", "flusher"}, EnterOnce(w)
    PROVE  OutInv'
  <1>1. /\ layers' = layers /\ dial' = dial /\ wire' = wire /\ broken' = broken /\ Dialled /\ ~Muxed
        /\ writers' = [writers EXCEPT ![w] = IF once = "no" THEN "header" ELSE "wait"]
        /\ once' = IF once = "no" THEN "busy" ELSE once
    BY DEF EnterOnce, Usable
  <1>2. Dialled' /\ ~Muxed'
    BY <1>1 DEF Dialled, Muxed
  <1>3. CASE w = "relay"
    <2>1. writers.relay = "idle" /\ payload' = payload + 1
      BY <1>3 DEF EnterOnce
    <2>2. payload' \in Nat
      BY <2>1, SMT DEF OutInv
    <2>3. CASE once = "no"
      <3>1. payload' = 1
        BY <2>1, <2>3, <1>1, SMT DEF OutInv
      <3>2. /\ writers' \in [relay : {"header"}, flusher : {"none", "sleep"}] /\ once' = "busy"
        BY <1>1, <1>3, <2>3 DEF OutInv, Quiet
      <3>3. QED BY <1>1, <1>2, <2>2, <2>3, <3>1, <3>2 DEF OutInv
    <2>4. CASE once = "busy"
      <3>1. writers.flusher = "header" /\ payload = 0
        BY <2>1, <2>4 DEF OutInv
      <3>2. payload' = 1
        BY <2>1, <3>1, SMT
      <3>3. writers' \in [relay : {"wait"}, flusher : {"header"}] /\ once' = "busy"
        BY <1>1, <1>3, <2>4, <3>1 DEF OutInv
      <3>4. QED BY <1>1, <1>2, <2>2, <2>4, <3>2, <3>3 DEF OutInv
    <2>5. CASE once = "done"
      <3>1. writers' \in [relay : {"wait"}, flusher : {"none", "sleep", "wait"}] /\ once' = "done"
        BY <1>1, <1>3, <2>5 DEF OutInv
      <3>2. ~broken => Len(wire) = payload'
        BY <2>1, <2>5 DEF OutInv
      <3>3. QED BY <1>1, <1>2, <2>2, <2>5, <3>1, <3>2 DEF OutInv
    <2>6. QED BY <2>3, <2>4, <2>5 DEF OutInv
  <1>4. CASE w = "flusher"
    <2>1. writers.flusher = "sleep" /\ payload' = payload
      BY <1>4 DEF EnterOnce
    <2>2. CASE once = "no"
      <3>1. writers' \in [relay : {"idle"}, flusher : {"header"}] /\ once' = "busy" /\ payload = 0
        BY <1>1, <1>4, <2>2 DEF OutInv, Quiet
      <3>2. QED BY <1>1, <1>2, <2>1, <2>2, <3>1 DEF OutInv
    <2>3. CASE once # "no"
      <3>1. /\ writers' \in [relay : {"idle", "header", "wait"}, flusher : {"wait"}] /\ once' = once
            /\ writers'.relay = writers.relay
        BY <1>1, <1>4, <2>3 DEF OutInv
      <3>2. QED BY <1>1, <1>2, <2>1, <2>3, <3>1 DEF OutInv
    <2>4. QED BY <2>2, <2>3
  <1>5. QED BY <1>3, <1>4

\* The writer inside the once writes the header.
LEMMA WriteHeaderStep ==
    ASSUME OutInv, NEW w \in {"relay", "flusher"}, WriteHeader(w)
    PROVE  OutInv'
  <1>1. /\ layers' = layers /\ dial' = dial /\ payload' = payload /\ once' = "done"
        /\ writers' = [writers EXCEPT ![w] = After(w)] /\ writers[w] = "header"
        /\ Sends(<<Header>> \o IF w = "relay" THEN <<payload>> ELSE <<>>)
    BY DEF WriteHeader
  <1>2. once = "busy" /\ Dialled /\ ~Muxed /\ wire = <<>> /\ ~broken
    BY <1>1 DEF OutInv, Quiet
  <1>3. Dialled' /\ ~Muxed'
    BY <1>1, <1>2 DEF Dialled, Muxed
  <1>4. CASE w = "relay"
    <2>1. writers' \in [relay : {"idle"}, flusher : {"none", "sleep", "wait"}] /\ payload = 1
      BY <1>1, <1>2, <1>4 DEF OutInv, After
    <2>2. CASE broken' = TRUE /\ wire' = wire
      BY <1>1, <1>2, <1>3, <2>1, <2>2 DEF OutInv
    <2>3. CASE broken' = broken /\ wire' = wire \o (<<Header>> \o <<payload>>)
      <3>1. PICK s : s = <<Header>> \o <<payload>>
        OBVIOUS
      <3>2. s \in Seq(Nat) /\ Len(s) = 2 /\ s[1] = 0 /\ s[2] = 1
        BY <2>1, <3>1, SMT DEF Header
      <3>3. Numbered(wire') /\ Len(wire') = payload + 1
        <4>1. wire' = s
          BY <1>2, <2>3, <3>1, <3>2, SMT
        <4>2. QED BY <2>1, <3>2, <4>1, SMT DEF Numbered
      <3>4. QED BY <1>1, <1>2, <1>3, <2>1, <2>3, <3>3 DEF OutInv
    <2>4. QED BY <1>1, <1>4, <2>2, <2>3 DEF Sends
  <1>5. CASE w = "flusher"
    <2>0. (writers.relay = "idle" /\ payload = 0) \/ (writers.relay = "wait" /\ payload = 1)
      <3>1. writers.flusher = "header"
        BY <1>1, <1>5
      <3>2. \/ writers.flusher # "header"
            \/ writers.relay = "idle" /\ payload = 0
            \/ writers.relay = "wait" /\ payload = 1
        BY <1>2 DEF OutInv
      <3>3. QED BY <3>1, <3>2
    <2>1. /\ writers' \in [relay : {"idle", "wait"}, flusher : {"none"}]
          /\ writers'.relay = writers.relay
          /\ (writers.relay = "idle" /\ payload = 0) \/ (writers.relay = "wait" /\ payload = 1)
      <3>1. writers' = [writers EXCEPT !["flusher"] = "none"]
        BY <1>1, <1>5 DEF After
      <3>2. QED BY <2>0, <3>1 DEF OutInv
    <2>2. CASE broken' = TRUE /\ wire' = wire
      BY <1>1, <1>2, <1>3, <2>1, <2>2 DEF OutInv
    <2>3. CASE broken' = broken /\ wire' = wire \o (<<Header>> \o <<>>)
      <3>1. wire' = <<Header>>
        BY <1>2, <2>3, SMT
      <3>2. Numbered(wire') /\ Len(wire') = IF writers.relay = "wait" THEN payload ELSE payload + 1
        BY <2>1, <3>1, NumberedHeader, SMT
      <3>3. QED BY <1>1, <1>2, <1>3, <2>1, <2>3, <3>2 DEF OutInv
    <2>4. QED BY <1>1, <1>5, <2>2, <2>3 DEF Sends
  <1>6. QED BY <1>4, <1>5

\* A writer that found the once done writes its bytes.
LEMMA WriteAfterHeaderStep ==
    ASSUME OutInv, NEW w \in {"relay", "flusher"}, WriteAfterHeader(w)
    PROVE  OutInv'
  <1>1. /\ layers' = layers /\ dial' = dial /\ payload' = payload /\ once' = once /\ once = "done"
        /\ writers' = [writers EXCEPT ![w] = After(w)] /\ writers[w] = "wait"
        /\ w = "relay" => Sends(<<payload>>)
        /\ w = "flusher" => wire' = wire /\ broken' = broken
    BY DEF WriteAfterHeader
  <1>2. Dialled /\ ~Muxed /\ Dialled' /\ ~Muxed'
    BY <1>1 DEF OutInv, Quiet, Dialled, Muxed
  <1>3. CASE w = "relay"
    <2>1. writers' \in [relay : {"idle"}, flusher : {"none", "sleep", "wait"}]
      BY <1>1, <1>3 DEF OutInv, After
    <2>2. CASE broken' = TRUE /\ wire' = wire
      BY <1>1, <1>2, <2>1, <2>2 DEF OutInv
    <2>3. CASE ~broken /\ broken' = broken /\ wire' = wire \o <<payload>>
      <3>1. Len(wire) = payload /\ payload \in Nat /\ Numbered(wire)
        BY <1>1, <1>3, <2>3 DEF OutInv
      <3>2. Numbered(wire') /\ Len(wire') = payload + 1
        BY <2>3, <3>1, NumberedNext
      <3>3. QED BY <1>1, <1>2, <2>1, <2>3, <3>2 DEF OutInv
    <2>4. QED BY <1>1, <1>3, <2>2, <2>3 DEF Sends
  <1>4. CASE w = "flusher"
    <2>1. /\ writers' \in [relay : {"idle", "wait"}, flusher : {"none"}]
          /\ writers'.relay = writers.relay
      BY <1>1, <1>4 DEF OutInv, After
    <2>2. wire' = wire /\ broken' = broken
      BY <1>1, <1>4
    <2>3. ~broken' => Len(wire') = IF writers'.relay = "wait" THEN payload' ELSE payload' + 1
      BY <1>1, <2>1, <2>2 DEF OutInv
    <2>4. QED BY <1>1, <1>2, <2>1, <2>2, <2>3 DEF OutInv
  <1>5. QED BY <1>3, <1>4

\* simplesocks writes header and payload without a once.
LEMMA SimpleSocksWriteStep ==
    ASSUME OutInv, SimpleSocksWrite
    PROVE  OutInv'
  <1>1. /\ layers' = layers /\ dial' = dial /\ writers' = writers /\ Dialled /\ Muxed
        /\ payload' = payload + 1
        /\ Sends(IF once = "done" THEN <<payload'>> ELSE <<Header, payload'>>)
        /\ once' = IF broken' THEN once ELSE "done"
    BY DEF SimpleSocksWrite, Usable
  <1>2. Dialled' /\ Muxed' /\ Quiet /\ Quiet' /\ once \in {"no", "done"}
    BY <1>1 DEF OutInv, Quiet, Dialled, Muxed
  <1>3. payload' \in Nat
    BY <1>1, SMT DEF OutInv
  <1>4. CASE broken' = TRUE /\ wire' = wire
    BY <1>1, <1>2, <1>3, <1>4 DEF OutInv
  <1>5. CASE ~broken /\ broken' = broken /\ once = "done" /\ wire' = wire \o <<payload'>>
    <2>1. Len(wire) = payload' /\ Numbered(wire)
      BY <1>1, <1>2, <1>5 DEF OutInv, Quiet
    <2>2. Numbered(wire') /\ Len(wire') = payload' + 1
      BY <1>3, <1>5, <2>1, NumberedNext
    <2>3. QED BY <1>1, <1>2, <1>3, <1>5, <2>2 DEF OutInv, Quiet
  <1>6. CASE ~broken /\ broken' = broken /\ once = "no" /\ wire' = wire \o <<Header, payload'>>
    <2>1. wire = <<>> /\ payload = 0
      BY <1>6 DEF OutInv
    <2>2. payload' = 1
      BY <1>1, <2>1, SMT
    <2>3. wire' = <<Header, 1>>
      BY <1>6, <2>1, <2>2, SMT
    <2>4. Numbered(wire') /\ Len(wire') = payload' + 1
      BY <2>2, <2>3, NumberedFirst, SMT
    <2>5. QED BY <1>1, <1>2, <1>3, <1>6, <2>4 DEF OutInv, Quiet
  <1>7. QED BY <1>1, <1>2, <1>4, <1>5, <1>6 DEF Sends

\* The peer is sent the header first and once, then the payloads in order and each
\* once (OutboundConn.Write and its flusher, simplesocks Conn.Write), for any
\* number of writes: the safety half of HeaderFirst.
THEOREM HeaderCorrect == Spec => []HeaderOnce
  <1>1. ASSUME OutInv, [Next]_vars
        PROVE  OutInv'
    <2>1. CASE ovars' = ovars
      <3>1. /\ writers' = writers /\ once' = once /\ payload' = payload /\ wire' = wire /\ broken' = broken
            /\ dial' = dial /\ layers' = layers
        BY <2>1 DEF ovars
      <3>2. (Dialled' <=> Dialled) /\ (Muxed' <=> Muxed) /\ (Quiet' <=> Quiet)
        BY <3>1 DEF Dialled, Muxed, Quiet
      <3>3. QED BY <1>1, <3>1, <3>2 DEF OutInv
    <2>2. CASE OutNext
      BY <1>1, <2>2, DialStep, EnterOnceStep, WriteHeaderStep, WriteAfterHeaderStep, SimpleSocksWriteStep DEF OutNext
    <2>3. QED BY <1>1, <2>1, <2>2, Steps
  <1>2. OutInv => HeaderOnce
    BY DEF OutInv, Numbered, HeaderOnce
  <1>3. QED BY OutInitial, <1>1, <1>2, PTL DEF Spec
-----------------------------------------------------------------------------
(***************************************************************************)
(* Packets in a stream.  The bytes not yet read are the packets not yet    *)
(* read, one behind the other, or the beginning of that when the           *)
(* connection ended.  A read takes exactly one packet off the front.       *)
(***************************************************************************)

\* The bytes b are what is left of the bytes all.
CutOf(b, all) == Len(b) <= Len(all) /\ \A i \in 1 .. Len(b) : b[i] = all[i]

\* What two bytes hold.
Word(n) == n < 65536

Valid(a) ==
    /\ a \in [type : {IPv4, DomainName, IPv6}, host : Seq(Nat), port : Nat]
    /\ Word(a.port)
    /\ a.type = IPv4 => Len(a.host) = 4
    /\ a.type = IPv6 => Len(a.host) = 16
    /\ a.type = DomainName => Len(a.host) <= 253

\* The bytes m are the address a: its type, the length of a name, the host, the port.
Skip(a) == IF a.type = DomainName THEN 2 ELSE 1
Encodes(m, a) ==
    /\ m \in Seq(Nat) /\ Len(m) = Skip(a) + Len(a.host) + 2
    /\ m[1] = a.type
    /\ a.type = DomainName => m[2] = Len(a.host)
    /\ \A i \in 1 .. Len(a.host) : m[Skip(a) + i] = a.host[i]
    /\ m[Skip(a) + Len(a.host) + 1] * 256 + m[Skip(a) + Len(a.host) + 2] = a.port

\* Where the elements of a concatenation come from.
LEMMA ConcatAt ==
    ASSUME NEW s \in Seq(Nat), NEW t \in Seq(Nat)
    PROVE  /\ s \o t \in Seq(Nat) /\ Len(s \o t) = Len(s) + Len(t)
           /\ \A i \in 1 .. Len(s) : (s \o t)[i] = s[i]
           /\ \A i \in 1 .. Len(t) : (s \o t)[Len(s) + i] = t[i]
  <1>1. s \o t \in Seq(Nat) /\ Len(s \o t) = Len(s) + Len(t)
    BY SMT
  <1>2. ASSUME NEW i \in 1 .. Len(s) PROVE (s \o t)[i] = s[i]
    BY SMT
  <1>3. ASSUME NEW i \in 1 .. Len(t) PROVE (s \o t)[Len(s) + i] = t[i]
    BY SMT
  <1>4. QED BY <1>1, <1>2, <1>3, Zenon

\* Two bytes hold a number below 2^16.
LEMMA Uint16Kept ==
    ASSUME NEW n \in Nat, Word(n)
    PROVE  /\ PutUint16(n) \in Seq(Nat) /\ Len(PutUint16(n)) = 2
           /\ PutUint16(n)[1] * 256 + PutUint16(n)[2] = n
  <1>0. PICK q : q = PutUint16(n)
    OBVIOUS
  <1>1. n % 65536 = n
    BY SMT DEF Word
  <1>2. n \div 256 \in Nat
    BY SMT
  <1>3. n % 256 \in Nat
    BY SMT
  <1>4. (n \div 256) * 256 + (n % 256) = n
    BY SMT
  <1>5. q = <<n \div 256, n % 256>>
    BY <1>0, <1>1, SMT DEF PutUint16
  <1>6. q \in Seq(Nat) /\ Len(q) = 2 /\ q[1] * 256 + q[2] = n
    BY <1>2, <1>3, <1>4, <1>5, SMT
  <1>7. QED BY <1>0, <1>6

\* Address.Marshal writes the type, the length of a name, the host and the port.
LEMMA Marshalled ==
    ASSUME NEW a, Valid(a)
    PROVE  Encodes(MarshalAddress(a), a)
  <1>0. PICK m : m = MarshalAddress(a)
    OBVIOUS
  <1>1. PICK q : q = PutUint16(a.port)
    OBVIOUS
  <1>2. PICK h : h = a.host
    OBVIOUS
  <1>3. q \in Seq(Nat) /\ Len(q) = 2 /\ q[1] * 256 + q[2] = a.port
    <2>1. a.port \in Nat /\ Word(a.port)
      BY SMT DEF Valid
    <2>2. QED BY <1>1, <2>1, Uint16Kept
  <1>4. h \in Seq(Nat) /\ a.type \in Nat
    BY <1>2, SMT DEF Valid, IPv4, IPv6, DomainName
  <1>5. CASE a.type = DomainName
    <2>1. Len(h) % 256 = Len(h) /\ Len(h) \in Nat
      BY <1>2, <1>4, <1>5, SMT DEF Valid
    <2>2. m = <<a.type, Len(h)>> \o h \o q
      <3>1. DomainName # IPv4 /\ DomainName # IPv6
        BY SMT DEF DomainName, IPv4, IPv6
      <3>2. QED BY <1>0, <1>1, <1>2, <1>5, <2>1, <3>1, Zenon DEF MarshalAddress
    <2>3. PICK s : s = <<a.type, Len(h)>>
      OBVIOUS
    <2>4. s \in Seq(Nat) /\ Len(s) = 2 /\ s[1] = a.type /\ s[2] = Len(h)
      BY <1>4, <2>1, <2>3, SMT
    <2>5. PICK t : t = s \o h
      OBVIOUS
    <2>6. m = t \o q
      BY <2>2, <2>3, <2>5
    <2>7. /\ t \in Seq(Nat) /\ Len(t) = 2 + Len(h)
          /\ \A i \in 1 .. 2 : t[i] = s[i]
          /\ \A i \in 1 .. Len(h) : t[2 + i] = h[i]
      <3>1. /\ t \in Seq(Nat) /\ Len(t) = Len(s) + Len(h)
            /\ \A i \in 1 .. Len(s) : t[i] = s[i]
            /\ \A i \in 1 .. Len(h) : t[Len(s) + i] = h[i]
        BY <1>4, <2>4, <2>5, ConcatAt, Zenon
      <3>2. QED BY <2>4, <3>1, Zenon
    <2>8. /\ m \in Seq(Nat) /\ Len(m) = Len(t) + 2
          /\ \A i \in 1 .. Len(t) : m[i] = t[i]
          /\ \A i \in 1 .. 2 : m[Len(t) + i] = q[i]
      <3>1. t \in Seq(Nat) /\ q \in Seq(Nat) /\ Len(q) = 2
        BY <1>3, <2>7
      <3>2. /\ m \in Seq(Nat) /\ Len(m) = Len(t) + Len(q)
            /\ \A i \in 1 .. Len(t) : m[i] = t[i]
            /\ \A i \in 1 .. Len(q) : m[Len(t) + i] = q[i]
        BY <2>6, <3>1, ConcatAt, Zenon
      <3>3. QED BY <3>1, <3>2, Zenon
    <2>9. Skip(a) = 2
      BY <1>5 DEF Skip
    <2>10. m[1] = a.type /\ m[2] = Len(h)
      <3>1. Len(t) = 2 + Len(h)
        BY <2>7
      <3>2. 1 \in 1 .. 2 /\ 2 \in 1 .. 2 /\ 1 \in 1 .. Len(t) /\ 2 \in 1 .. Len(t)
        BY <2>1, <3>1, SMT
      <3>3. m[1] = t[1] /\ m[2] = t[2]
        BY <2>8, <3>2
      <3>4. t[1] = s[1] /\ t[2] = s[2]
        BY <2>7, <3>2
      <3>5. QED BY <2>4, <3>3, <3>4
    <2>11. ASSUME NEW i \in 1 .. Len(h) PROVE m[2 + i] = h[i]
      <3>1. 2 + i \in 1 .. Len(t)
        BY <2>1, <2>7, SMTT(30)
      <3>2. QED BY <2>7, <2>8, <3>1, Zenon
    <2>12. m[2 + Len(h) + 1] = q[1] /\ m[2 + Len(h) + 2] = q[2]
      BY <2>1, <2>7, <2>8, SMT
    <2>13. Len(m) = 2 + Len(h) + 2
      BY <2>7, <2>8
    <2>14. QED BY <1>0, <1>2, <1>3, <2>8, <2>9, <2>10, <2>11, <2>12, <2>13, ZenonT(30) DEF Encodes
  <1>6. CASE a.type # DomainName
    <2>1. m = <<a.type>> \o h \o q
      BY <1>0, <1>1, <1>2, <1>6 DEF MarshalAddress, Valid
    <2>2. PICK s : s = <<a.type>>
      OBVIOUS
    <2>3. s \in Seq(Nat) /\ Len(s) = 1 /\ s[1] = a.type /\ Len(h) \in Nat
      BY <1>4, <2>2, SMT
    <2>4. PICK t : t = s \o h
      OBVIOUS
    <2>5. m = t \o q
      BY <2>1, <2>2, <2>4
    <2>6. /\ t \in Seq(Nat) /\ Len(t) = 1 + Len(h)
          /\ \A i \in 1 .. 1 : t[i] = s[i]
          /\ \A i \in 1 .. Len(h) : t[1 + i] = h[i]
      <3>1. /\ t \in Seq(Nat) /\ Len(t) = Len(s) + Len(h)
            /\ \A i \in 1 .. Len(s) : t[i] = s[i]
            /\ \A i \in 1 .. Len(h) : t[Len(s) + i] = h[i]
        BY <1>4, <2>3, <2>4, ConcatAt, Zenon
      <3>2. QED BY <2>3, <3>1, Zenon
    <2>7. /\ m \in Seq(Nat) /\ Len(m) = Len(t) + 2
          /\ \A i \in 1 .. Len(t) : m[i] = t[i]
          /\ \A i \in 1 .. 2 : m[Len(t) + i] = q[i]
      <3>1. t \in Seq(Nat) /\ q \in Seq(Nat) /\ Len(q) = 2
        BY <1>3, <2>6
      <3>2. /\ m \in Seq(Nat) /\ Len(m) = Len(t) + Len(q)
            /\ \A i \in 1 .. Len(t) : m[i] = t[i]
            /\ \A i \in 1 .. Len(q) : m[Len(t) + i] = q[i]
        BY <2>5, <3>1, ConcatAt, Zenon
      <3>3. QED BY <3>1, <3>2, Zenon
    <2>8. Skip(a) = 1
      BY <1>6 DEF Skip
    <2>9. m[1] = a.type
      <3>1. Len(t) = 1 + Len(h) /\ Len(h) \in Nat
        BY <2>3, <2>6
      <3>2. 1 \in 1 .. 1 /\ 1 \in 1 .. Len(t)
        BY <3>1, SMT
      <3>3. m[1] = t[1] /\ t[1] = s[1]
        BY <2>6, <2>7, <3>2
      <3>4. QED BY <2>3, <3>3
    <2>10. ASSUME NEW i \in 1 .. Len(h) PROVE m[1 + i] = h[i]
      <3>1. 1 + i \in 1 .. Len(t)
        BY <2>3, <2>6, SMT
      <3>2. QED BY <2>6, <2>7, <3>1, Zenon
    <2>11. m[1 + Len(h) + 1] = q[1] /\ m[1 + Len(h) + 2] = q[2]
      BY <2>3, <2>6, <2>7, SMT
    <2>12. Len(m) = 1 + Len(h) + 2
      BY <2>6, <2>7
    <2>13. QED BY <1>0, <1>2, <1>3, <1>6, <2>7, <2>8, <2>9, <2>10, <2>11, <2>12, ZenonT(30) DEF Encodes
  <1>7. QED BY <1>5, <1>6

\* What Drop, Tail and SubSeq give.
LEMMA DropAt ==
    ASSUME NEW b \in Seq(Nat), NEW n \in Nat
    PROVE  /\ Drop(b, n) \in Seq(Nat)
           /\ Len(Drop(b, n)) = IF n <= Len(b) THEN Len(b) - n ELSE 0
           /\ \A i \in 1 .. Len(b) - n : Drop(b, n)[i] = b[n + i]
  <1>1. Drop(b, n) \in Seq(Nat) /\ Len(Drop(b, n)) = IF n <= Len(b) THEN Len(b) - n ELSE 0
    BY SMT DEF Drop
  <1>2. ASSUME NEW i \in 1 .. Len(b) - n PROVE Drop(b, n)[i] = b[n + i]
    BY SMTT(30) DEF Drop
  <1>3. QED BY <1>1, <1>2, Zenon

\* Nothing is left behind the last byte.
LEMMA DropAll ==
    ASSUME NEW b \in Seq(Nat), NEW n \in Nat, n >= Len(b)
    PROVE  Drop(b, n) = <<>>
  BY SMT DEF Drop

\* Dropping twice.
LEMMA DropDrop ==
    ASSUME NEW b \in Seq(Nat), NEW n \in Nat, NEW k \in Nat
    PROVE  Drop(Drop(b, n), k) = Drop(b, n + k)
  BY SMT DEF Drop

\* Tail drops one byte.
LEMMA TailDrops ==
    ASSUME NEW b \in Seq(Nat), b # <<>>
    PROVE  Tail(b) = Drop(b, 1)
  BY SMT DEF Drop

\* Two sequences with the same bytes are the same.
LEMMA SameBytes ==
    ASSUME NEW s \in Seq(Nat), NEW t \in Seq(Nat), Len(s) = Len(t), \A i \in 1 .. Len(t) : s[i] = t[i]
    PROVE  s = t
  BY SMTT(30)

\* A part of a sequence with the bytes of h is h.
LEMMA SubSeqIs ==
    ASSUME NEW b \in Seq(Nat), NEW h \in Seq(Nat), NEW j \in Nat, j + Len(h) <= Len(b),
           \A i \in 1 .. Len(h) : b[j + i] = h[i]
    PROVE  SubSeq(b, j + 1, j + Len(h)) = h
  <1>1. PICK s : s = SubSeq(b, j + 1, j + Len(h))
    OBVIOUS
  <1>2. s \in Seq(Nat) /\ Len(s) = Len(h)
    BY <1>1, SMTT(30)
  <1>3. ASSUME NEW i \in 1 .. Len(h) PROVE s[i] = b[j + i]
    BY <1>1, SMT
  <1>4. \A i \in 1 .. Len(h) : s[i] = h[i]
    BY <1>3, Zenon
  <1>5. s = h
    BY <1>2, <1>4, SameBytes, Zenon
  <1>6. QED BY <1>1, <1>5

\* Reading an IP address whose bytes may end early.
LEMMA UnmarshalledIP ==
    ASSUME NEW type, NEW h \in Seq(Nat), NEW port, NEW c \in Seq(Nat),
           \A i \in 1 .. Len(h) : i <= Len(c) => c[i] = h[i],
           Len(h) + 2 <= Len(c) => c[Len(h) + 1] * 256 + c[Len(h) + 2] = port
    PROVE  /\ Len(c) < Len(h) + 2 => UnmarshalIP(type, c, Len(h)) = Failed(<<>>)
           /\ Len(c) >= Len(h) + 2 => UnmarshalIP(type, c, Len(h)) = Received(type, h, port, Drop(c, Len(h) + 2))
  <1>1. Len(h) \in Nat /\ Len(c) \in Nat
    BY SMT
  <1>2. CASE Len(c) < Len(h) + 2
    BY <1>1, <1>2, SMT DEF UnmarshalIP
  <1>3. CASE Len(c) >= Len(h) + 2
    <2>1. 0 + Len(h) <= Len(c) /\ 0 + 1 = 1 /\ 0 + Len(h) = Len(h) /\ 0 \in Nat
      BY <1>1, <1>3, SMT
    <2>2. ASSUME NEW i \in 1 .. Len(h) PROVE c[0 + i] = h[i]
      BY <1>1, <1>3, SMT
    <2>3. SubSeq(c, 0 + 1, 0 + Len(h)) = h
      BY <2>1, <2>2, SubSeqIs, Zenon
    <2>4. SubSeq(c, 1, Len(h)) = h
      BY <2>1, <2>3, Zenon
    <2>5. Uint16(c, Len(h) + 1) = port
      BY <1>1, <1>3, SMT DEF Uint16
    <2>6. ~(Len(c) < Len(h) + 2)
      BY <1>1, <1>3, SMT
    <2>7. QED BY <2>4, <2>5, <2>6, Zenon DEF UnmarshalIP
  <1>4. QED BY <1>1, <1>2, <1>3, SMT

\* The length of a name of at most 253 bytes and its buffer.
LEMMA NameSize ==
    ASSUME NEW n \in Nat, n <= 253
    PROVE  (n + 2) % 256 = n + 2 /\ (n + 2) + 1 = n + 3 /\ ~(n + 2 < n)
  <1>1. (n + 2) % 256 = n + 2
    BY SMT
  <1>2. (n + 2) + 1 = n + 3 /\ ~(n + 2 < n)
    BY SMT
  <1>3. QED BY <1>1, <1>2

\* The buffer a name and its port are read into.
LEMMA NameBuffer ==
    ASSUME NEW c \in Seq(Nat), NEW n \in Nat, n + 3 <= Len(c)
    PROVE  /\ SubSeq(c, 2, n + 3) \in Seq(Nat)
           /\ Len(SubSeq(c, 2, n + 3)) = n + 2
           /\ \A i \in 1 .. n + 2 : SubSeq(c, 2, n + 3)[i] = c[1 + i]
  <1>1. SubSeq(c, 2, n + 3) \in Seq(Nat)
    BY SMT
  <1>2. Len(SubSeq(c, 2, n + 3)) = n + 2
    BY SMT
  <1>3. ASSUME NEW i \in 1 .. n + 2 PROVE SubSeq(c, 2, n + 3)[i] = c[1 + i]
    BY SMT
  <1>4. QED BY <1>1, <1>2, <1>3, Zenon

\* Where in it the name and the port are.
LEMMA NameRoom ==
    ASSUME NEW n \in Nat, NEW k \in Nat, k >= n + 3
    PROVE  /\ n + 3 <= k /\ ~(k < n + 3)
           /\ \A i \in 1 .. n : 0 + i = i /\ i \in 1 .. n + 2 /\ 1 + i <= k
           /\ n + 1 \in 1 .. n + 2 /\ n + 1 + 1 \in 1 .. n + 2
           /\ 1 + (n + 1) = n + 2 /\ 1 + (n + 1 + 1) = n + 3
           /\ 0 + n <= n + 2 /\ 0 + 1 = 1 /\ 0 + n = n /\ 0 \in Nat
  BY SMT

\* Reading a name: c is the stream behind the type.
LEMMA UnmarshalledDomain ==
    ASSUME NEW h \in Seq(Nat), Len(h) <= 253, NEW port, NEW c \in Seq(Nat),
           c # <<>> => c[1] = Len(h),
           \A i \in 1 .. Len(h) : 1 + i <= Len(c) => c[1 + i] = h[i],
           Len(h) + 3 <= Len(c) => c[Len(h) + 2] * 256 + c[Len(h) + 3] = port
    PROVE  /\ Len(c) < Len(h) + 3 => UnmarshalDomain(c) = Failed(<<>>)
           /\ Len(c) >= Len(h) + 3 =>
                 UnmarshalDomain(c) =
                     IF ParseIP(h) # <<>> THEN Received(TypeOfIP(ParseIP(h)), ParseIP(h), port, Drop(c, Len(h) + 3))
                     ELSE Received(DomainName, h, port, Drop(c, Len(h) + 3))
  <1>1. Len(h) \in Nat /\ Len(c) \in Nat
    BY SMT
  <1>2. CASE c = <<>>
    <2>1. Len(c) < Len(h) + 3 /\ ~(Len(c) >= Len(h) + 3)
      BY <1>1, <1>2, SMT
    <2>2. QED BY <1>2, <2>1, Zenon DEF UnmarshalDomain
  <1>3. CASE c # <<>>
    <2>1. /\ c[1] = Len(h) /\ (Len(h) + 2) % 256 = Len(h) + 2 /\ (Len(h) + 2) + 1 = Len(h) + 3
          /\ ~(Len(h) + 2 < Len(h))
      BY <1>1, <1>3, NameSize
    <2>2. CASE Len(c) < Len(h) + 3
      <3>1. ~(Len(c) >= Len(h) + 3)
        BY <1>1, <2>2, SMT
      <3>2. QED BY <2>1, <2>2, <3>1, ZenonT(30) DEF UnmarshalDomain
    <2>3. CASE Len(c) >= Len(h) + 3
      <3>1. PICK buf : buf = SubSeq(c, 2, Len(h) + 3)
        OBVIOUS
      <3>2. /\ Len(h) + 3 <= Len(c) /\ ~(Len(c) < Len(h) + 3)
            /\ \A i \in 1 .. Len(h) : 0 + i = i /\ i \in 1 .. Len(h) + 2 /\ 1 + i <= Len(c)
            /\ Len(h) + 1 \in 1 .. Len(h) + 2 /\ Len(h) + 1 + 1 \in 1 .. Len(h) + 2
            /\ 1 + (Len(h) + 1) = Len(h) + 2 /\ 1 + (Len(h) + 1 + 1) = Len(h) + 3
            /\ 0 + Len(h) <= Len(h) + 2 /\ 0 + 1 = 1 /\ 0 + Len(h) = Len(h) /\ 0 \in Nat
        BY <1>1, <2>3, NameRoom
      <3>3. /\ buf \in Seq(Nat) /\ Len(buf) = Len(h) + 2
            /\ \A i \in 1 .. Len(h) + 2 : buf[i] = c[1 + i]
        BY <1>1, <3>1, <3>2, NameBuffer
      <3>4. SubSeq(buf, 1, Len(h)) = h
        <4>1. 0 + Len(h) <= Len(buf)
          BY <3>2, <3>3
        <4>2. ASSUME NEW i \in 1 .. Len(h) PROVE buf[0 + i] = h[i]
          <5>1. 0 + i = i /\ i \in 1 .. Len(h) + 2 /\ 1 + i <= Len(c)
            BY <3>2
          <5>2. QED BY <3>3, <5>1, Zenon
        <4>3. SubSeq(buf, 0 + 1, 0 + Len(h)) = h
          BY <3>2, <3>3, <4>1, <4>2, SubSeqIs, Zenon
        <4>4. QED BY <3>2, <4>3, Zenon
      <3>5. Uint16(buf, Len(h) + 1) = port
        <4>1. buf[Len(h) + 1] = c[1 + (Len(h) + 1)] /\ buf[Len(h) + 1 + 1] = c[1 + (Len(h) + 1 + 1)]
          BY <3>2, <3>3
        <4>2. buf[Len(h) + 1] = c[Len(h) + 2] /\ buf[Len(h) + 1 + 1] = c[Len(h) + 3]
          BY <3>2, <4>1
        <4>3. c[Len(h) + 2] * 256 + c[Len(h) + 3] = port
          BY <3>2
        <4>4. QED BY <4>2, <4>3 DEF Uint16
      <3>6. SubSeq(c, 2, ((Len(h) + 2) % 256) + 1) = buf /\ Drop(c, ((Len(h) + 2) % 256) + 1) = Drop(c, Len(h) + 3)
        BY <2>1, <3>1
      <3>7. ~(c = <<>> \/ Len(c) < ((Len(h) + 2) % 256) + 1) /\ ~((Len(h) + 2) % 256 < Len(h))
        BY <1>3, <2>1, <3>2
      <3>8. UnmarshalDomain(c) =
                     IF ParseIP(h) # <<>> THEN Received(TypeOfIP(ParseIP(h)), ParseIP(h), port, Drop(c, Len(h) + 3))
                     ELSE Received(DomainName, h, port, Drop(c, Len(h) + 3))
        <4>1. ~(c = <<>> \/ Len(c) < ((c[1] + 2) % 256) + 1) /\ ~((c[1] + 2) % 256 < c[1])
          BY <2>1, <3>7
        <4>2. /\ SubSeq(SubSeq(c, 2, ((c[1] + 2) % 256) + 1), 1, c[1]) = h
              /\ Uint16(SubSeq(c, 2, ((c[1] + 2) % 256) + 1), c[1] + 1) = port
              /\ Drop(c, ((c[1] + 2) % 256) + 1) = Drop(c, Len(h) + 3)
          BY <2>1, <3>4, <3>5, <3>6, ZenonT(30)
        <4>3. CASE ParseIP(h) # <<>>
          <5>1. ParseIP(SubSeq(SubSeq(c, 2, ((c[1] + 2) % 256) + 1), 1, c[1])) # <<>>
            BY <4>2, <4>3, ZenonT(30)
          <5>2. UnmarshalDomain(c) = Received(TypeOfIP(ParseIP(SubSeq(SubSeq(c, 2, ((c[1] + 2) % 256) + 1), 1, c[1]))),
                      ParseIP(SubSeq(SubSeq(c, 2, ((c[1] + 2) % 256) + 1), 1, c[1])),
                      Uint16(SubSeq(c, 2, ((c[1] + 2) % 256) + 1), c[1] + 1), Drop(c, ((c[1] + 2) % 256) + 1))
            BY <4>1, <5>1, Zenon DEF UnmarshalDomain
          <5>3. QED BY <4>2, <4>3, <5>2, ZenonT(30)
        <4>4. CASE ParseIP(h) = <<>>
          <5>1. ParseIP(SubSeq(SubSeq(c, 2, ((c[1] + 2) % 256) + 1), 1, c[1])) = <<>>
            BY <4>2, <4>4
          <5>2. UnmarshalDomain(c) = Received(DomainName, SubSeq(SubSeq(c, 2, ((c[1] + 2) % 256) + 1), 1, c[1]),
                      Uint16(SubSeq(c, 2, ((c[1] + 2) % 256) + 1), c[1] + 1), Drop(c, ((c[1] + 2) % 256) + 1))
            BY <4>1, <5>1, ZenonT(30) DEF UnmarshalDomain
          <5>3. QED BY <4>2, <4>4, <5>2, ZenonT(30)
        <4>5. QED BY <4>3, <4>4
      <3>9. QED BY <3>2, <3>8
    <2>4. QED BY <1>1, <2>2, <2>3, SMT
  <1>4. QED BY <1>2, <1>3

\* What Tail gives.
LEMMA TailAt ==
    ASSUME NEW b \in Seq(Nat), b # <<>>
    PROVE  /\ Tail(b) \in Seq(Nat) /\ Len(Tail(b)) = Len(b) - 1 /\ Len(b) >= 1 /\ Len(b) \in Nat
           /\ \A i \in 1 .. Len(b) - 1 : Tail(b)[i] = b[1 + i]
  <1>1. Tail(b) \in Seq(Nat) /\ Len(Tail(b)) = Len(b) - 1 /\ Len(b) >= 1 /\ Len(b) \in Nat
    BY SMT
  <1>2. ASSUME NEW i \in 1 .. Len(b) - 1 PROVE Tail(b)[i] = b[1 + i]
    BY SMT
  <1>3. QED BY <1>1, <1>2, Zenon

\* Dropping behind the first byte.
LEMMA TailRest ==
    ASSUME NEW b \in Seq(Nat), b # <<>>, NEW n \in Nat
    PROVE  Drop(Tail(b), n) = Drop(b, 1 + n)
  <1>1. Drop(Drop(b, 1), n) = Drop(b, 1 + n)
    BY DropDrop
  <1>2. QED BY <1>1, TailDrops

\* An address read from a stream that starts with its bytes, or ends among them.
Arrived(a, rest) == [ok |-> TRUE, panic |-> FALSE, addr |-> Canonical(a), rest |-> rest]
Starts(b, m) == \A i \in 1 .. Len(m) : i <= Len(b) => b[i] = m[i]

\* An IPv4 or IPv6 address.
LEMMA UnmarshalledShort ==
    ASSUME NEW a, Valid(a), NEW m, Encodes(m, a), NEW b \in Seq(Nat), Starts(b, m), b # <<>>,
           a.type # DomainName
    PROVE  /\ Len(b) < Len(m) => UnmarshalAddress(b) = Failed(<<>>)
           /\ Len(b) >= Len(m) => UnmarshalAddress(b) = Arrived(a, Drop(b, Len(m)))
  <1>1. PICK h : h = a.host
    OBVIOUS
  <1>2. PICK c : c = Tail(b)
    OBVIOUS
  <1>3. h \in Seq(Nat) /\ Len(h) \in Nat /\ m \in Seq(Nat) /\ Len(m) \in Nat
    BY <1>1, SMT DEF Valid, Encodes
  <1>4. /\ c \in Seq(Nat) /\ Len(c) = Len(b) - 1 /\ Len(b) >= 1 /\ Len(b) \in Nat
        /\ \A i \in 1 .. Len(b) - 1 : c[i] = b[1 + i]
    BY <1>2, TailAt
  <1>5. Len(m) = 1 + Len(h) + 2
    BY <1>1 DEF Encodes, Skip
  <1>6. b[1] = a.type
    <2>1. 1 \in 1 .. Len(m) /\ 1 <= Len(b)
      BY <1>3, <1>4, <1>5, SMT
    <2>2. QED BY <2>1 DEF Starts, Encodes
  <1>7. ASSUME NEW i \in 1 .. Len(h), i <= Len(c) PROVE c[i] = h[i]
    <2>1. i \in 1 .. Len(b) - 1 /\ 1 + i \in 1 .. Len(m) /\ 1 + i <= Len(b)
      BY <1>3, <1>4, <1>5, <1>7, SMT
    <2>2. c[i] = b[1 + i] /\ b[1 + i] = m[1 + i]
      BY <1>4, <2>1 DEF Starts
    <2>3. m[1 + i] = h[i]
      BY <1>1 DEF Encodes, Skip
    <2>4. QED BY <2>2, <2>3
  <1>8. ASSUME Len(h) + 2 <= Len(c) PROVE c[Len(h) + 1] * 256 + c[Len(h) + 2] = a.port
    <2>1. /\ Len(h) + 1 \in 1 .. Len(b) - 1 /\ Len(h) + 2 \in 1 .. Len(b) - 1
          /\ 1 + (Len(h) + 1) \in 1 .. Len(m) /\ 1 + (Len(h) + 2) \in 1 .. Len(m)
          /\ 1 + (Len(h) + 1) <= Len(b) /\ 1 + (Len(h) + 2) <= Len(b)
          /\ 1 + (Len(h) + 1) = 1 + Len(h) + 1 /\ 1 + (Len(h) + 2) = 1 + Len(h) + 2
      BY <1>3, <1>4, <1>5, <1>8, SMTT(30)
    <2>2. c[Len(h) + 1] = b[1 + (Len(h) + 1)] /\ c[Len(h) + 2] = b[1 + (Len(h) + 2)]
      BY <1>4, <2>1
    <2>3. b[1 + (Len(h) + 1)] = m[1 + (Len(h) + 1)] /\ b[1 + (Len(h) + 2)] = m[1 + (Len(h) + 2)]
      BY <2>1 DEF Starts
    <2>4. m[1 + Len(h) + 1] * 256 + m[1 + Len(h) + 2] = a.port
      BY <1>1 DEF Encodes, Skip
    <2>5. c[Len(h) + 1] = m[1 + Len(h) + 1] /\ c[Len(h) + 2] = m[1 + Len(h) + 2]
      BY <2>1, <2>2, <2>3
    <2>6. QED BY <2>4, <2>5
  <1>9. /\ Len(c) < Len(h) + 2 => UnmarshalIP(a.type, c, Len(h)) = Failed(<<>>)
        /\ Len(c) >= Len(h) + 2 => UnmarshalIP(a.type, c, Len(h)) = Received(a.type, h, a.port, Drop(c, Len(h) + 2))
    <2>1. h \in Seq(Nat) /\ c \in Seq(Nat)
      BY <1>3, <1>4
    <2>2. QED BY <1>7, <1>8, <2>1, UnmarshalledIP, ZenonT(30)
  <1>10. UnmarshalAddress(b) = UnmarshalIP(a.type, c, Len(h))
    <2>1. IPv4 # IPv6 /\ IPv4 # DomainName /\ IPv6 # DomainName
      BY SMT DEF DomainName, IPv4, IPv6
    <2>2. a.type = IPv4 \/ a.type = IPv6
      BY SMT DEF Valid
    <2>3. CASE a.type = IPv4
      <3>1. Len(h) = 4
        BY <1>1, <2>3, SMT DEF Valid
      <3>2. QED BY <1>2, <1>6, <2>1, <2>3, <3>1 DEF UnmarshalAddress
    <2>4. CASE a.type = IPv6
      <3>1. Len(h) = 16
        BY <1>1, <2>4, SMT DEF Valid
      <3>2. QED BY <1>2, <1>6, <2>1, <2>4, <3>1 DEF UnmarshalAddress
    <2>5. QED BY <2>2, <2>3, <2>4
  <1>11. CASE Len(b) < Len(m)
    <2>1. Len(c) < Len(h) + 2 /\ ~(Len(b) >= Len(m))
      BY <1>3, <1>4, <1>5, <1>11, SMT
    <2>2. QED BY <1>9, <1>10, <2>1
  <1>12. CASE Len(b) >= Len(m)
    <2>1. Len(c) >= Len(h) + 2 /\ ~(Len(b) < Len(m)) /\ Len(h) + 2 \in Nat /\ 1 + (Len(h) + 2) = Len(m)
      BY <1>3, <1>4, <1>5, <1>12, SMTT(30)
    <2>2. Drop(c, Len(h) + 2) = Drop(b, Len(m))
      BY <1>2, <2>1, TailRest
    <2>3. a = [type |-> a.type, host |-> h, port |-> a.port]
      BY <1>1, SMT DEF Valid
    <2>4. Canonical(a) = [type |-> a.type, host |-> h, port |-> a.port]
      BY <2>3 DEF Canonical
    <2>5. UnmarshalAddress(b) = Received(a.type, h, a.port, Drop(b, Len(m)))
      BY <1>9, <1>10, <2>1, <2>2
    <2>6. QED BY <2>1, <2>4, <2>5 DEF Received, Arrived
  <1>13. QED BY <1>3, <1>4, <1>11, <1>12, SMT

\* A name, which arrives as an address when it is one.
LEMMA UnmarshalledName ==
    ASSUME NEW a, Valid(a), NEW m, Encodes(m, a), NEW b \in Seq(Nat), Starts(b, m), b # <<>>,
           a.type = DomainName
    PROVE  /\ Len(b) < Len(m) => UnmarshalAddress(b) = Failed(<<>>)
           /\ Len(b) >= Len(m) => UnmarshalAddress(b) = Arrived(a, Drop(b, Len(m)))
  <1>1. PICK h : h = a.host
    OBVIOUS
  <1>2. PICK c : c = Tail(b)
    OBVIOUS
  <1>3. h \in Seq(Nat) /\ Len(h) \in Nat /\ m \in Seq(Nat) /\ Len(m) \in Nat /\ Len(h) <= 253
    BY <1>1, SMT DEF Valid, Encodes
  <1>4. /\ c \in Seq(Nat) /\ Len(c) = Len(b) - 1 /\ Len(b) >= 1 /\ Len(b) \in Nat
        /\ \A i \in 1 .. Len(b) - 1 : c[i] = b[1 + i]
    BY <1>2, TailAt
  <1>5. Len(m) = 2 + Len(h) + 2
    BY <1>1 DEF Encodes, Skip
  <1>6. ASSUME NEW i \in 1 .. Len(b) - 1, i <= Len(h) + 3 PROVE c[i] = m[1 + i]
    <2>1. 1 + i \in 1 .. Len(m) /\ 1 + i <= Len(b)
      BY <1>3, <1>4, <1>5, <1>6, SMT
    <2>2. QED BY <1>4, <2>1 DEF Starts
  <1>7. b[1] = DomainName
    <2>1. 1 \in 1 .. Len(m) /\ 1 <= Len(b)
      BY <1>3, <1>4, <1>5, SMT
    <2>2. QED BY <2>1 DEF Starts, Encodes
  <1>8. ASSUME c # <<>> PROVE c[1] = Len(h)
    <2>1. 1 \in 1 .. Len(b) - 1 /\ 1 <= Len(h) + 3 /\ 1 + 1 = 2
      BY <1>3, <1>4, <1>8, SMT
    <2>2. c[1] = m[2]
      BY <1>6, <2>1
    <2>3. QED BY <1>1, <2>2 DEF Encodes
  <1>9. ASSUME NEW i \in 1 .. Len(h), 1 + i <= Len(c) PROVE c[1 + i] = h[i]
    <2>1. 1 + i \in 1 .. Len(b) - 1 /\ 1 + i <= Len(h) + 3 /\ 1 + (1 + i) = 2 + i
      BY <1>3, <1>4, <1>9, SMT
    <2>2. c[1 + i] = m[1 + (1 + i)]
      BY <1>6, <2>1
    <2>3. m[2 + i] = h[i]
      BY <1>1 DEF Encodes, Skip
    <2>4. QED BY <2>1, <2>2, <2>3
  <1>10. ASSUME Len(h) + 3 <= Len(c) PROVE c[Len(h) + 2] * 256 + c[Len(h) + 3] = a.port
    <2>1. /\ Len(h) + 2 \in 1 .. Len(b) - 1 /\ Len(h) + 3 \in 1 .. Len(b) - 1
          /\ Len(h) + 2 <= Len(h) + 3 /\ Len(h) + 3 <= Len(h) + 3
          /\ 1 + (Len(h) + 2) = 2 + Len(h) + 1 /\ 1 + (Len(h) + 3) = 2 + Len(h) + 2
      BY <1>3, <1>4, <1>10, SMTT(30)
    <2>2. c[Len(h) + 2] = m[1 + (Len(h) + 2)] /\ c[Len(h) + 3] = m[1 + (Len(h) + 3)]
      BY <1>6, <2>1
    <2>3. m[2 + Len(h) + 1] * 256 + m[2 + Len(h) + 2] = a.port
      BY <1>1 DEF Encodes, Skip
    <2>4. c[Len(h) + 2] = m[2 + Len(h) + 1] /\ c[Len(h) + 3] = m[2 + Len(h) + 2]
      BY <2>1, <2>2
    <2>5. QED BY <2>3, <2>4
  <1>11. /\ Len(c) < Len(h) + 3 => UnmarshalDomain(c) = Failed(<<>>)
         /\ Len(c) >= Len(h) + 3 =>
                 UnmarshalDomain(c) =
                     IF ParseIP(h) # <<>> THEN Received(TypeOfIP(ParseIP(h)), ParseIP(h), a.port, Drop(c, Len(h) + 3))
                     ELSE Received(DomainName, h, a.port, Drop(c, Len(h) + 3))
    BY <1>3, <1>4, <1>8, <1>9, <1>10, UnmarshalledDomain
  <1>12. UnmarshalAddress(b) = UnmarshalDomain(c)
    <2>1. IPv4 # IPv6 /\ IPv4 # DomainName /\ IPv6 # DomainName
      BY SMT DEF DomainName, IPv4, IPv6
    <2>2. QED BY <1>2, <1>7, <2>1 DEF UnmarshalAddress
  <1>13. CASE Len(b) < Len(m)
    <2>1. Len(c) < Len(h) + 3 /\ ~(Len(b) >= Len(m))
      BY <1>3, <1>4, <1>5, <1>13, SMTT(30)
    <2>2. QED BY <1>11, <1>12, <2>1
  <1>14. CASE Len(b) >= Len(m)
    <2>1. Len(c) >= Len(h) + 3 /\ ~(Len(b) < Len(m)) /\ Len(h) + 3 \in Nat /\ 1 + (Len(h) + 3) = Len(m)
      BY <1>3, <1>4, <1>5, <1>14, SMTT(30)
    <2>2. Drop(c, Len(h) + 3) = Drop(b, Len(m))
      BY <1>2, <2>1, TailRest
    <2>3. a = [type |-> DomainName, host |-> h, port |-> a.port]
      BY <1>1, SMT DEF Valid
    <2>4. CASE ParseIP(h) # <<>>
      <3>1. Canonical(a) = [type |-> TypeOfIP(ParseIP(h)), host |-> ParseIP(h), port |-> a.port]
        BY <1>1, <2>4 DEF Canonical
      <3>2. UnmarshalAddress(b) = Received(TypeOfIP(ParseIP(h)), ParseIP(h), a.port, Drop(b, Len(m)))
        BY <1>11, <1>12, <2>1, <2>2, <2>4
      <3>3. QED BY <2>1, <3>1, <3>2 DEF Received, Arrived
    <2>5. CASE ParseIP(h) = <<>>
      <3>1. Canonical(a) = [type |-> DomainName, host |-> h, port |-> a.port]
        BY <1>1, <2>3, <2>5 DEF Canonical
      <3>2. UnmarshalAddress(b) = Received(DomainName, h, a.port, Drop(b, Len(m)))
        BY <1>11, <1>12, <2>1, <2>2, <2>5
      <3>3. QED BY <2>1, <3>1, <3>2 DEF Received, Arrived
    <2>6. QED BY <2>4, <2>5
  <1>15. QED BY <1>3, <1>4, <1>13, <1>14, SMT

\* Any address.
LEMMA Unmarshalled ==
    ASSUME NEW a, Valid(a), NEW m, Encodes(m, a), NEW b \in Seq(Nat), Starts(b, m)
    PROVE  /\ Len(b) < Len(m) => UnmarshalAddress(b) = Failed(<<>>)
           /\ Len(b) >= Len(m) => UnmarshalAddress(b) = Arrived(a, Drop(b, Len(m)))
  <1>1. CASE b = <<>>
    <2>1. a.host \in Seq(Nat) /\ Len(a.host) \in Nat
      BY SMT DEF Valid
    <2>2. Skip(a) \in Nat
      BY SMT DEF Skip
    <2>3. ~(Len(b) >= Len(m))
      BY <1>1, <2>1, <2>2, SMT DEF Encodes
    <2>4. QED BY <1>1, <2>3 DEF UnmarshalAddress
  <1>2. CASE b # <<>> /\ a.type = DomainName
    BY <1>2, UnmarshalledName
  <1>3. CASE b # <<>> /\ a.type # DomainName
    BY <1>3, UnmarshalledShort
  <1>4. QED BY <1>1, <1>2, <1>3

\* The bytes w are the packet of address bytes m and payload p.
Carries(w, m, p) ==
    /\ w \in Seq(Nat) /\ Len(w) = Len(m) + 4 + Len(p)
    /\ \A i \in 1 .. Len(m) : w[i] = m[i]
    /\ w[Len(m) + 1] * 256 + w[Len(m) + 2] = Len(p)
    /\ \A i \in 1 .. Len(p) : w[Len(m) + 4 + i] = p[i]

\* WriteWithMetadata writes the address, the length, CRLF and the payload.
LEMMA Written ==
    ASSUME NEW a, NEW m \in Seq(Nat), m = MarshalAddress(a), NEW p \in Seq(Nat), Word(Len(p))
    PROVE  Carries(WritePacket(a, p), m, p)
  <1>1. PICK q : q = PutUint16(Len(p))
    OBVIOUS
  <1>2. PICK k : k = CRLF
    OBVIOUS
  <1>3. PICK s : s = m \o q
    OBVIOUS
  <1>4. PICK t : t = s \o k
    OBVIOUS
  <1>5. PICK w : w = t \o p
    OBVIOUS
  <1>6. WritePacket(a, p) = w
    BY <1>1, <1>2, <1>3, <1>4, <1>5 DEF WritePacket
  <1>7. Len(p) \in Nat /\ Len(m) \in Nat
    BY SMT
  <1>8. q \in Seq(Nat) /\ Len(q) = 2 /\ q[1] * 256 + q[2] = Len(p)
    BY <1>1, <1>7, Uint16Kept
  <1>9. k \in Seq(Nat) /\ Len(k) = 2
    BY <1>2, SMT DEF CRLF
  <1>10. /\ s \in Seq(Nat) /\ Len(s) = Len(m) + Len(q)
         /\ \A i \in 1 .. Len(m) : s[i] = m[i]
         /\ \A i \in 1 .. Len(q) : s[Len(m) + i] = q[i]
    <2>1. m \in Seq(Nat) /\ q \in Seq(Nat)
      BY <1>8
    <2>2. QED BY <1>3, <2>1, ConcatAt, ZenonT(30)
  <1>11. /\ t \in Seq(Nat) /\ Len(t) = Len(s) + Len(k)
         /\ \A i \in 1 .. Len(s) : t[i] = s[i]
    <2>1. s \in Seq(Nat) /\ k \in Seq(Nat)
      BY <1>9, <1>10
    <2>2. s \o k \in Seq(Nat) /\ Len(s \o k) = Len(s) + Len(k) /\ \A i \in 1 .. Len(s) : (s \o k)[i] = s[i]
      BY <2>1, ConcatAt
    <2>3. QED BY <1>4, <2>2
  <1>12. /\ w \in Seq(Nat) /\ Len(w) = Len(t) + Len(p)
         /\ \A i \in 1 .. Len(t) : w[i] = t[i]
         /\ \A i \in 1 .. Len(p) : w[Len(t) + i] = p[i]
    <2>1. t \in Seq(Nat)
      BY <1>11
    <2>2. QED BY <1>5, <2>1, ConcatAt, ZenonT(30)
  <1>13. Len(s) = Len(m) + 2 /\ Len(t) = Len(m) + 4 /\ Len(w) = Len(m) + 4 + Len(p)
    BY <1>7, <1>8, <1>9, <1>10, <1>11, <1>12, SMT
  <1>14. ASSUME NEW i \in 1 .. Len(m) PROVE w[i] = m[i]
    <2>1. i \in 1 .. Len(s) /\ i \in 1 .. Len(t)
      BY <1>7, <1>13, SMT
    <2>2. QED BY <1>10, <1>11, <1>12, <2>1
  <1>15. w[Len(m) + 1] = q[1] /\ w[Len(m) + 2] = q[2]
    <2>1. /\ Len(m) + 1 \in 1 .. Len(s) /\ Len(m) + 2 \in 1 .. Len(s)
          /\ Len(m) + 1 \in 1 .. Len(t) /\ Len(m) + 2 \in 1 .. Len(t)
          /\ 1 \in 1 .. Len(q) /\ 2 \in 1 .. Len(q)
      BY <1>7, <1>8, <1>13, SMT
    <2>2. s[Len(m) + 1] = q[1] /\ s[Len(m) + 2] = q[2]
      BY <1>10, <2>1
    <2>3. w[Len(m) + 1] = s[Len(m) + 1] /\ w[Len(m) + 2] = s[Len(m) + 2]
      BY <1>11, <1>12, <2>1
    <2>4. QED BY <2>2, <2>3
  <1>16. ASSUME NEW i \in 1 .. Len(p) PROVE w[Len(m) + 4 + i] = p[i]
    BY <1>12, <1>13
  <1>17. QED BY <1>6, <1>8, <1>12, <1>13, <1>14, <1>15, <1>16 DEF Carries

\* A read takes the bytes of one packet, all that is left of them, and returns
\* that packet or an error.
LEMMA OnePacket ==
    ASSUME NEW a, Valid(a), NEW p \in Seq(Nat), Word(Len(p)), NEW room,
           NEW b \in Seq(Nat), Starts(b, WritePacket(a, p))
    PROVE  /\ ReadPacket(b, room).rest = Drop(b, Len(WritePacket(a, p)))
           /\ ReadPacket(b, room).ok \in BOOLEAN
           /\ ReadPacket(b, room).ok =>
                 ReadPacket(b, room).addr = Canonical(a) /\ ReadPacket(b, room).payload = p
  <1>1. PICK m : m = MarshalAddress(a)
    OBVIOUS
  <1>2. PICK w : w = WritePacket(a, p)
    OBVIOUS
  <1>3. PICK u : u = UnmarshalAddress(b)
    OBVIOUS
  <1>4. Encodes(m, a) /\ m \in Seq(Nat)
    BY <1>1, Marshalled DEF Encodes
  <1>5. Carries(w, m, p)
    BY <1>1, <1>2, <1>4, Written
  <1>6. /\ Len(m) \in Nat /\ Len(p) \in Nat /\ Len(b) \in Nat /\ w \in Seq(Nat) /\ Len(w) \in Nat
        /\ Len(w) = Len(m) + 4 + Len(p)
    BY <1>4, <1>5, SMTT(30) DEF Carries
  <1>7. Starts(b, m)
    <2>1. SUFFICES ASSUME NEW i \in 1 .. Len(m), i <= Len(b) PROVE b[i] = m[i]
      BY DEF Starts
    <2>2. i \in 1 .. Len(w)
      BY <1>6, SMT
    <2>3. QED BY <1>2, <1>5, <2>1, <2>2 DEF Starts, Carries
  <1>8. /\ Len(b) < Len(m) => u = Failed(<<>>)
        /\ Len(b) >= Len(m) => u = Arrived(a, Drop(b, Len(m)))
    BY <1>3, <1>4, <1>7, Unmarshalled
  <1>9. CASE Len(b) < Len(m)
    <2>1. u.ok = FALSE /\ u.rest = <<>>
      BY <1>8, <1>9, SMT DEF Failed
    <2>2. ReadPacket(b, room) = u
      BY <1>3, <2>1 DEF ReadPacket
    <2>3. Drop(b, Len(w)) = <<>>
      <3>1. Len(w) >= Len(b)
        BY <1>6, <1>9, SMT
      <3>2. QED BY <1>6, <3>1, DropAll
    <2>4. QED BY <1>2, <2>1, <2>2, <2>3
  <1>10. CASE Len(b) >= Len(m)
    <2>1. PICK c : c = Drop(b, Len(m))
      OBVIOUS
    <2>2. u.ok = TRUE /\ u.rest = c /\ u.addr = Canonical(a)
      BY <1>8, <1>10, <2>1, SMT DEF Arrived
    <2>3. /\ c \in Seq(Nat) /\ Len(c) = Len(b) - Len(m)
          /\ \A i \in 1 .. Len(b) - Len(m) : c[i] = b[Len(m) + i]
      <3>1. Len(m) <= Len(b)
        BY <1>6, <1>10, SMTT(30)
      <3>2. QED BY <1>6, <2>1, <3>1, DropAt
    <2>4. CASE Len(c) < 4
      <3>1. ReadPacket(b, room) = Failed(<<>>)
        BY <1>3, <2>2, <2>4, ZenonT(30) DEF ReadPacket
      <3>2. Drop(b, Len(w)) = <<>>
        <4>1. Len(w) >= Len(b)
          BY <1>6, <2>3, <2>4, SMT
        <4>2. QED BY <1>6, <4>1, DropAll
      <3>3. QED BY <1>2, <3>1, <3>2, SMT DEF Failed
    <2>5. CASE ~(Len(c) < 4)
      <3>1. Uint16(c, 1) = Len(p)
        <4>1. /\ 1 \in 1 .. Len(b) - Len(m) /\ 2 \in 1 .. Len(b) - Len(m) /\ 1 + 1 = 2
              /\ Len(m) + 1 \in 1 .. Len(w) /\ Len(m) + 2 \in 1 .. Len(w)
              /\ Len(m) + 1 <= Len(b) /\ Len(m) + 2 <= Len(b)
          <5>1. Len(c) = Len(b) - Len(m)
            BY <2>3
          <5>2. QED BY <1>6, <2>5, <5>1, SMTT(30)
        <4>2. c[1] = b[Len(m) + 1] /\ c[2] = b[Len(m) + 2]
          BY <2>3, <4>1
        <4>3. b[Len(m) + 1] = w[Len(m) + 1] /\ b[Len(m) + 2] = w[Len(m) + 2]
          BY <1>2, <4>1 DEF Starts
        <4>4. w[Len(m) + 1] * 256 + w[Len(m) + 2] = Len(p)
          BY <1>5 DEF Carries
        <4>5. QED BY <4>1, <4>2, <4>3, <4>4 DEF Uint16
      <3>2. Drop(c, 4 + Len(p)) = Drop(b, Len(w))
        <4>1. Len(m) + (4 + Len(p)) = Len(w) /\ 4 + Len(p) \in Nat
          BY <1>6, SMT
        <4>2. Drop(c, 4 + Len(p)) = Drop(b, Len(m) + (4 + Len(p)))
          BY <1>6, <2>1, <4>1, DropDrop
        <4>3. QED BY <4>1, <4>2
      <3>3. CASE room < Len(p) \/ Len(p) > MaxPacketSize
        <4>1. ReadPacket(b, room) = Failed(Drop(c, 4 + Len(p)))
          BY <1>3, <2>2, <2>5, <3>1, <3>3 DEF ReadPacket
        <4>2. QED BY <1>2, <3>2, <4>1, SMT DEF Failed
      <3>4. CASE ~(room < Len(p) \/ Len(p) > MaxPacketSize) /\ Len(c) < 4 + Len(p)
        <4>1. ReadPacket(b, room) = Failed(<<>>)
          BY <1>3, <2>2, <2>5, <3>1, <3>4, ZenonT(30) DEF ReadPacket
        <4>2. Drop(b, Len(w)) = <<>>
          <5>1. Len(w) >= Len(b)
            BY <1>6, <2>3, <3>4, SMTT(30)
          <5>2. QED BY <1>6, <5>1, DropAll
        <4>3. QED BY <1>2, <4>1, <4>2, SMT DEF Failed
      <3>5. CASE ~(room < Len(p) \/ Len(p) > MaxPacketSize) /\ ~(Len(c) < 4 + Len(p))
        <4>1. ReadPacket(b, room) = [ok |-> TRUE, panic |-> FALSE, addr |-> u.addr,
                  payload |-> SubSeq(c, 5, 4 + Len(p)), rest |-> Drop(c, 4 + Len(p))]
          BY <1>3, <2>2, <2>5, <3>1, <3>5 DEF ReadPacket
        <4>2. SubSeq(c, 5, 4 + Len(p)) = p
          <5>1. 4 + Len(p) <= Len(c) /\ 4 + 1 = 5 /\ 4 \in Nat
            <6>1. ~(Len(c) < 4 + Len(p)) /\ c \in Seq(Nat)
              BY <2>3, <3>5
            <6>2. Len(c) \in Nat
              BY <6>1, SMT
            <6>3. QED BY <1>6, <6>1, <6>2, SMT
          <5>2. ASSUME NEW i \in 1 .. Len(p) PROVE c[4 + i] = p[i]
            <6>1. /\ 4 + i \in 1 .. Len(b) - Len(m) /\ Len(m) + (4 + i) \in 1 .. Len(w)
                  /\ Len(m) + (4 + i) <= Len(b) /\ Len(m) + (4 + i) = Len(m) + 4 + i
              <7>1. 4 + Len(p) <= Len(b) - Len(m)
                BY <2>3, <5>1
              <7>2. PICK x : x = Len(b)
                OBVIOUS
              <7>3. PICK y : y = Len(m)
                OBVIOUS
              <7>4. PICK z : z = Len(p)
                OBVIOUS
              <7>5. x \in Nat /\ y \in Nat /\ z \in Nat /\ i \in 1 .. z /\ 4 + z <= x - y
                BY <1>6, <7>1, <7>2, <7>3, <7>4
              <7>6. 4 + i \in 1 .. x - y /\ y + (4 + i) \in 1 .. y + 4 + z /\ y + (4 + i) <= x /\ y + (4 + i) = y + 4 + i
                BY <7>5, SMT
              <7>7. QED BY <1>6, <7>2, <7>3, <7>4, <7>6
            <6>2. c[4 + i] = b[Len(m) + (4 + i)]
              BY <2>3, <6>1
            <6>3. b[Len(m) + (4 + i)] = w[Len(m) + (4 + i)]
              BY <1>2, <6>1 DEF Starts
            <6>4. w[Len(m) + 4 + i] = p[i]
              BY <1>5 DEF Carries
            <6>5. QED BY <6>1, <6>2, <6>3, <6>4
          <5>3. SubSeq(c, 4 + 1, 4 + Len(p)) = p
            BY <2>3, <5>1, <5>2, SubSeqIs
          <5>4. QED BY <5>1, <5>3
        <4>3. QED BY <1>2, <2>2, <3>2, <4>1, <4>2, SMTT(30)
      <3>6. QED BY <3>3, <3>4, <3>5
    <2>6. QED BY <2>4, <2>5
  <1>11. QED BY <1>6, <1>9, <1>10, SMT

\* What is left of x followed by y starts with what is left of x.
LEMMA CutStarts ==
    ASSUME NEW b \in Seq(Nat), NEW x \in Seq(Nat), NEW y \in Seq(Nat), CutOf(b, x \o y)
    PROVE  Starts(b, x) /\ CutOf(Drop(b, Len(x)), y)
  <1>1. /\ Len(b) \in Nat /\ Len(x) \in Nat /\ Len(y) \in Nat
    BY SMT
  <1>2. /\ x \o y \in Seq(Nat) /\ Len(x \o y) = Len(x) + Len(y)
        /\ \A i \in 1 .. Len(x) : (x \o y)[i] = x[i]
        /\ \A i \in 1 .. Len(y) : (x \o y)[Len(x) + i] = y[i]
    BY ConcatAt
  <1>3. Len(b) <= Len(x) + Len(y)
    BY <1>2 DEF CutOf
  <1>4. Starts(b, x)
    <2>1. SUFFICES ASSUME NEW i \in 1 .. Len(x), i <= Len(b) PROVE b[i] = x[i]
      BY DEF Starts
    <2>2. i \in 1 .. Len(b)
      BY <1>1, <2>1, SMT
    <2>3. QED BY <1>2, <2>2 DEF CutOf
  <1>5. PICK d : d = Drop(b, Len(x))
    OBVIOUS
  <1>6. /\ d \in Seq(Nat) /\ Len(d) = IF Len(x) <= Len(b) THEN Len(b) - Len(x) ELSE 0
        /\ \A i \in 1 .. Len(b) - Len(x) : d[i] = b[Len(x) + i]
    BY <1>1, <1>5, DropAt
  <1>7. Len(d) <= Len(y)
    BY <1>1, <1>3, <1>6, SMT
  <1>8. ASSUME NEW i \in 1 .. Len(d) PROVE d[i] = y[i]
    <2>1. Len(d) = IF Len(x) <= Len(b) THEN Len(b) - Len(x) ELSE 0
      BY <1>6
    <2>2. i \in 1 .. Len(b) - Len(x) /\ Len(x) + i \in 1 .. Len(b) /\ i \in 1 .. Len(y)
      BY <1>1, <1>3, <1>7, <2>1, SMT
    <2>3. d[i] = b[Len(x) + i] /\ b[Len(x) + i] = (x \o y)[Len(x) + i] /\ (x \o y)[Len(x) + i] = y[i]
      BY <1>2, <1>6, <2>2 DEF CutOf
    <2>4. QED BY <2>3
  <1>9. QED BY <1>4, <1>5, <1>7, <1>8 DEF CutOf

\* Behind x there is y.
LEMMA DropFirst ==
    ASSUME NEW x \in Seq(Nat), NEW y \in Seq(Nat)
    PROVE  Drop(x \o y, Len(x)) = y
  BY SMT DEF Drop

\* Concatenation is associative.
LEMMA ConcatThree ==
    ASSUME NEW x \in Seq(Nat), NEW y \in Seq(Nat), NEW z \in Seq(Nat)
    PROVE  (x \o y) \o z = x \o (y \o z)
  BY SMTT(30)

\* The empty sequence adds nothing.
LEMMA ConcatNone ==
    ASSUME NEW x \in Seq(Nat)
    PROVE  x \o <<>> = x /\ <<>> \o x = x
  BY SMT

\* A part of what is left.
LEMMA CutMore ==
    ASSUME NEW b \in Seq(Nat), NEW x \in Seq(Nat), CutOf(b, x), NEW n \in 0 .. Len(b)
    PROVE  SubSeq(b, 1, n) \in Seq(Nat) /\ CutOf(SubSeq(b, 1, n), x)
  <1>1. SubSeq(b, 1, n) \in Seq(Nat) /\ Len(SubSeq(b, 1, n)) = n
    BY SMT
  <1>2. ASSUME NEW i \in 1 .. n PROVE SubSeq(b, 1, n)[i] = b[i]
    BY SMT
  <1>3. Len(b) <= Len(x) /\ \A i \in 1 .. Len(b) : b[i] = x[i]
    BY DEF CutOf
  <1>4. n <= Len(x)
    BY <1>3, SMT
  <1>5. ASSUME NEW i \in 1 .. n PROVE SubSeq(b, 1, n)[i] = x[i]
    <2>1. i \in 1 .. Len(b)
      BY SMT
    <2>2. QED BY <1>2, <1>3, <2>1
  <1>6. QED BY <1>1, <1>4, <1>5 DEF CutOf

\* The bytes all are the packets of ws behind the first n.
Bytes(x) == WritePacket(x.addr, x.payload)
Splits(ws, n, all) ==
    \E rest \in [n .. Len(ws) -> Seq(Nat)] :
        /\ rest[n] = all /\ rest[Len(ws)] = <<>>
        /\ \A i \in n + 1 .. Len(ws) : rest[i - 1] = Bytes(ws[i]) \o rest[i]

\* No packet, no byte.
LEMMA SplitNone == Splits(<<>>, 0, <<>>)
  <1>1. PICK rest : rest = [i \in 0 .. 0 |-> <<>>]
    OBVIOUS
  <1>2. Len(<<>>) = 0 /\ <<>> \in Seq(Nat)
    BY SMT
  <1>3. rest \in [0 .. 0 -> Seq(Nat)] /\ rest[0] = <<>>
    BY <1>1, SMT
  <1>4. \A i \in 0 + 1 .. 0 : rest[i - 1] = Bytes(<<>>[i]) \o rest[i]
    <2>1. 0 + 1 .. 0 = {}
      BY SMT
    <2>2. QED BY <2>1
  <1>5. QED BY <1>2, <1>3, <1>4 DEF Splits

\* Behind the last packet there is nothing.
LEMMA SplitEnd ==
    ASSUME NEW ws, NEW all, Splits(ws, Len(ws), all)
    PROVE  all = <<>>
  BY DEF Splits

\* Behind n packets come the bytes of the next one.
LEMMA SplitNext ==
    ASSUME NEW ws, Len(ws) \in Nat, NEW n \in Nat, n < Len(ws), NEW all, Splits(ws, n, all)
    PROVE  \E more \in Seq(Nat) : all = Bytes(ws[n + 1]) \o more /\ Splits(ws, n + 1, more)
  <1>1. PICK rest \in [n .. Len(ws) -> Seq(Nat)] :
            /\ rest[n] = all /\ rest[Len(ws)] = <<>>
            /\ \A i \in n + 1 .. Len(ws) : rest[i - 1] = Bytes(ws[i]) \o rest[i]
    BY DEF Splits
  <1>2. /\ n + 1 \in n + 1 .. Len(ws) /\ n + 1 \in n .. Len(ws) /\ n + 1 - 1 = n
        /\ Len(ws) \in n + 1 .. Len(ws)
        /\ \A i \in n + 1 .. Len(ws) : i \in n .. Len(ws)
        /\ \A i \in (n + 1) + 1 .. Len(ws) : i \in n + 1 .. Len(ws) /\ i - 1 \in n + 1 .. Len(ws)
    BY SMT
  <1>3. PICK more : more = rest[n + 1]
    OBVIOUS
  <1>4. more \in Seq(Nat) /\ all = Bytes(ws[n + 1]) \o more
    <2>1. rest[n] = Bytes(ws[n + 1]) \o rest[n + 1]
      <3>1. PICK k : k = n + 1
        OBVIOUS
      <3>2. k \in n + 1 .. Len(ws) /\ k - 1 = n
        BY <3>1, SMT
      <3>3. rest[k - 1] = Bytes(ws[k]) \o rest[k]
        BY <1>1, <3>2
      <3>4. QED BY <3>1, <3>2, <3>3
    <2>2. rest[n + 1] \in Seq(Nat)
      <3>1. n + 1 \in n .. Len(ws)
        BY <1>2
      <3>2. QED BY <3>1
    <2>3. QED BY <1>1, <1>2, <1>3, <2>1, <2>2
  <1>5. PICK tail : tail = [i \in n + 1 .. Len(ws) |-> rest[i]]
    OBVIOUS
  <1>6. /\ tail \in [n + 1 .. Len(ws) -> Seq(Nat)]
        /\ \A i \in n + 1 .. Len(ws) : tail[i] = rest[i]
    BY <1>1, <1>2, <1>5
  <1>7. tail[n + 1] = more /\ tail[Len(ws)] = <<>>
    BY <1>1, <1>2, <1>3, <1>6
  <1>8. ASSUME NEW i \in (n + 1) + 1 .. Len(ws) PROVE tail[i - 1] = Bytes(ws[i]) \o tail[i]
    <2>1. i \in n + 1 .. Len(ws) /\ i - 1 \in n + 1 .. Len(ws)
      BY <1>2
    <2>2. tail[i] = rest[i] /\ tail[i - 1] = rest[i - 1] /\ rest[i - 1] = Bytes(ws[i]) \o rest[i]
      BY <1>1, <1>6, <2>1
    <2>3. QED BY <2>2
  <1>9. Splits(ws, n + 1, more)
    BY <1>6, <1>7, <1>8 DEF Splits
  <1>10. QED BY <1>4, <1>9

\* One more packet is written behind the others.
LEMMA SplitAppend ==
    ASSUME NEW S, NEW ws \in Seq(S), NEW x \in S, Bytes(x) \in Seq(Nat),
           \A i \in 1 .. Len(ws) : Bytes(ws[i]) \in Seq(Nat),
           NEW n \in Nat, n <= Len(ws), NEW all, Splits(ws, n, all)
    PROVE  Splits(Append(ws, x), n, all \o Bytes(x))
  <1>1. PICK rest \in [n .. Len(ws) -> Seq(Nat)] :
            /\ rest[n] = all /\ rest[Len(ws)] = <<>>
            /\ \A i \in n + 1 .. Len(ws) : rest[i - 1] = Bytes(ws[i]) \o rest[i]
    BY DEF Splits
  <1>2. PICK w : w = Bytes(x)
    OBVIOUS
  <1>3. PICK vs : vs = Append(ws, x)
    OBVIOUS
  <1>4. /\ Len(vs) = Len(ws) + 1 /\ Len(ws) \in Nat
        /\ \A i \in 1 .. Len(ws) : vs[i] = ws[i]
        /\ vs[Len(ws) + 1] = x
    <2>1. Len(vs) = Len(ws) + 1 /\ Len(ws) \in Nat
      BY <1>3, SMT
    <2>2. ASSUME NEW i \in 1 .. Len(ws) PROVE vs[i] = ws[i]
      BY <1>3, SMT
    <2>3. vs[Len(ws) + 1] = x
      BY <1>3, SMT
    <2>4. QED BY <2>1, <2>2, <2>3
  <1>5. PICK L : L = Len(ws)
    OBVIOUS
  <1>6. PICK more : more = [i \in n .. L + 1 |-> IF i = L + 1 THEN <<>> ELSE rest[i] \o w]
    OBVIOUS
  <1>7. L \in Nat /\ n <= L
    BY <1>4, <1>5
  <1>8. /\ n \in n .. L + 1 /\ n # L + 1 /\ L + 1 \in n .. L + 1 /\ n \in n .. L /\ L \in n .. L
        /\ \A i \in n .. L + 1 : i # L + 1 => i \in n .. L
        /\ \A i \in n + 1 .. L + 1 : i # L + 1 => i \in n + 1 .. L /\ i - 1 \in n .. L /\ i - 1 # L + 1 /\ i \in 1 .. L
        /\ \A i \in n + 1 .. L + 1 : i \in n .. L + 1 /\ i - 1 \in n .. L + 1
        /\ (L + 1) - 1 = L /\ L # L + 1 /\ L \in n .. L + 1
    BY <1>7, SMTT(30)
  <1>9. w \in Seq(Nat) /\ <<>> \in Seq(Nat)
    BY <1>2, SMT
  <1>10. \A i \in n .. L : rest[i] \in Seq(Nat) /\ rest[i] \o w \in Seq(Nat)
    BY <1>1, <1>5, <1>9, ConcatAt
  <1>11. more \in [n .. L + 1 -> Seq(Nat)]
    BY <1>6, <1>8, <1>9, <1>10
  <1>12. /\ more[L + 1] = <<>>
         /\ \A i \in n .. L + 1 : i # L + 1 => more[i] = rest[i] \o w
    BY <1>6, <1>8
  <1>13. more[n] = all \o w
    BY <1>1, <1>8, <1>12
  <1>14. ASSUME NEW i \in n + 1 .. L + 1 PROVE more[i - 1] = Bytes(vs[i]) \o more[i]
    <2>1. CASE i = L + 1
      <3>1. more[L] = <<>> \o w
        BY <1>1, <1>5, <1>8, <1>12
      <3>2. more[L] = w /\ w \o <<>> = w
        BY <1>9, <3>1, ConcatNone
      <3>3. i - 1 = L
        BY <1>7, <2>1, SMT
      <3>4. Bytes(vs[i]) = w /\ more[i] = <<>>
        BY <1>2, <1>4, <1>5, <1>12, <2>1
      <3>5. QED BY <3>2, <3>3, <3>4
    <2>2. CASE i # L + 1
      <3>1. /\ i \in n + 1 .. L /\ i - 1 \in n .. L /\ i - 1 # L + 1 /\ i \in 1 .. L
            /\ i \in n .. L + 1 /\ i - 1 \in n .. L + 1 /\ i \in n .. L
        BY <1>8, <2>2
      <3>2. more[i - 1] = rest[i - 1] \o w /\ more[i] = rest[i] \o w
        BY <1>12, <2>2, <3>1
      <3>3. rest[i - 1] = Bytes(ws[i]) \o rest[i]
        BY <1>1, <1>5, <3>1
      <3>4. vs[i] = ws[i] /\ Bytes(ws[i]) \in Seq(Nat) /\ rest[i] \in Seq(Nat)
        BY <1>4, <1>5, <1>10, <3>1
      <3>5. (Bytes(ws[i]) \o rest[i]) \o w = Bytes(ws[i]) \o (rest[i] \o w)
        BY <1>9, <3>4, ConcatThree, ZenonT(30)
      <3>6. QED BY <3>2, <3>3, <3>4, <3>5
    <2>3. QED BY <2>1, <2>2
  <1>15. QED BY <1>2, <1>3, <1>4, <1>5, <1>11, <1>12, <1>13, <1>14 DEF Splits

\* The header of an association, and reading it.
LEMMA HeaderIs ==
    \E a : /\ Valid(a)
           /\ AssociateHeader = <<Associate>> \o MarshalAddress(a)
  <1>1. PICK a : a = [type |-> DomainName, host |-> <<85>>, port |-> 0]
    OBVIOUS
  <1>2. AssociateHeader = <<Associate>> \o MarshalAddress(a)
    BY <1>1, SMT DEF AssociateHeader, MarshalMetadata
  <1>3. a \in [type : {IPv4, DomainName, IPv6}, host : Seq(Nat), port : Nat]
    BY <1>1, SMT
  <1>4. Word(a.port)
    BY <1>1, SMT DEF Word
  <1>5. a.type = DomainName /\ Len(a.host) <= 253
    BY <1>1, SMT
  <1>6. DomainName # IPv4 /\ DomainName # IPv6
    BY SMT DEF DomainName, IPv4, IPv6
  <1>7. QED BY <1>2, <1>3, <1>4, <1>5, <1>6 DEF Valid

\* The header is a sequence of bytes.
LEMMA HeaderBytes == AssociateHeader \in Seq(Nat)
  <1>1. PICK a : Valid(a) /\ AssociateHeader = <<Associate>> \o MarshalAddress(a)
    BY HeaderIs
  <1>2. MarshalAddress(a) \in Seq(Nat)
    BY <1>1, Marshalled DEF Encodes
  <1>3. <<Associate>> \in Seq(Nat)
    BY SMT DEF Associate
  <1>4. QED BY <1>1, <1>2, <1>3, ConcatAt

\* The accept loop reads the header, or sees that the stream ends in it.
LEMMA HeaderRead ==
    ASSUME NEW b \in Seq(Nat), Starts(b, AssociateHeader)
    PROVE  /\ Len(b) < Len(AssociateHeader) => UnmarshalMetadata(b).ok = FALSE
           /\ Len(b) >= Len(AssociateHeader) =>
                 /\ UnmarshalMetadata(b).ok = TRUE
                 /\ UnmarshalMetadata(b).rest = Drop(b, Len(AssociateHeader))
                 /\ b[1] = Associate
  <1>1. PICK a : Valid(a) /\ AssociateHeader = <<Associate>> \o MarshalAddress(a)
    BY HeaderIs
  <1>2. PICK m : m = MarshalAddress(a)
    OBVIOUS
  <1>3. PICK H : H = AssociateHeader
    OBVIOUS
  <1>4. PICK k : k = <<Associate>>
    OBVIOUS
  <1>5. Encodes(m, a) /\ m \in Seq(Nat)
    BY <1>1, <1>2, Marshalled, ZenonT(30) DEF Encodes
  <1>6. k \in Seq(Nat) /\ Len(k) = 1 /\ k[1] = Associate
    BY <1>4, SMT DEF Associate
  <1>7. /\ H \in Seq(Nat) /\ Len(H) = Len(k) + Len(m)
        /\ \A i \in 1 .. Len(k) : H[i] = k[i]
        /\ \A i \in 1 .. Len(m) : H[Len(k) + i] = m[i]
    <2>1. H = k \o m
      BY <1>1, <1>2, <1>3, <1>4
    <2>2. m \in Seq(Nat) /\ k \in Seq(Nat)
      BY <1>5, <1>6
    <2>3. QED BY <2>1, <2>2, ConcatAt
  <1>8. Len(m) \in Nat /\ Len(H) = 1 + Len(m) /\ Len(H) \in Nat /\ Len(b) \in Nat
    BY <1>5, <1>6, <1>7, SMT
  <1>9. CASE b = <<>>
    <2>1. ~(Len(b) >= Len(H))
      BY <1>8, <1>9, SMT
    <2>2. UnmarshalMetadata(b).ok = FALSE
      BY <1>9, SMT DEF UnmarshalMetadata, Failed
    <2>3. QED BY <1>3, <1>7, <2>1, <2>2
  <1>10. CASE b # <<>>
    <2>1. PICK c : c = Tail(b)
      OBVIOUS
    <2>2. /\ c \in Seq(Nat) /\ Len(c) = Len(b) - 1 /\ Len(b) >= 1
          /\ \A i \in 1 .. Len(b) - 1 : c[i] = b[1 + i]
      BY <1>10, <2>1, TailAt
    <2>3. Starts(c, m)
      <3>1. SUFFICES ASSUME NEW i \in 1 .. Len(m), i <= Len(c) PROVE c[i] = m[i]
        BY DEF Starts
      <3>2. i \in 1 .. Len(b) - 1 /\ 1 + i \in 1 .. Len(H) /\ 1 + i <= Len(b)
        BY <1>8, <2>2, <3>1, SMT
      <3>3. c[i] = b[1 + i]
        BY <2>2, <3>2
      <3>4. b[1 + i] = H[1 + i]
        BY <1>3, <3>2 DEF Starts
      <3>5. H[1 + i] = m[i]
        BY <1>6, <1>7
      <3>6. QED BY <3>3, <3>4, <3>5
    <2>4. UnmarshalMetadata(b) = UnmarshalAddress(c)
      BY <1>10, <2>1 DEF UnmarshalMetadata
    <2>5. /\ Len(c) < Len(m) => UnmarshalAddress(c) = Failed(<<>>)
          /\ Len(c) >= Len(m) => UnmarshalAddress(c) = Arrived(a, Drop(c, Len(m)))
      BY <1>1, <1>5, <2>2, <2>3, Unmarshalled
    <2>6. CASE Len(b) < Len(H)
      <3>1. Len(c) < Len(m) /\ ~(Len(b) >= Len(H))
        BY <1>8, <2>2, <2>6, SMT
      <3>2. UnmarshalMetadata(b) = Failed(<<>>)
        BY <2>4, <2>5, <3>1
      <3>3. UnmarshalMetadata(b).ok = FALSE
        BY <3>2, SMT DEF Failed
      <3>4. QED BY <1>3, <1>7, <3>1, <3>3
    <2>7. CASE Len(b) >= Len(H)
      <3>1. Len(c) >= Len(m) /\ ~(Len(b) < Len(H))
        BY <1>8, <2>2, <2>7, SMT
      <3>2. UnmarshalMetadata(b) = Arrived(a, Drop(c, Len(m)))
        BY <2>4, <2>5, <3>1
      <3>3. Drop(c, Len(m)) = Drop(b, Len(H))
        BY <1>8, <1>10, <2>1, TailRest
      <3>4. UnmarshalMetadata(b).ok = TRUE /\ UnmarshalMetadata(b).rest = Drop(b, Len(H))
        BY <3>2, <3>3, SMT DEF Arrived
      <3>5. b[1] = Associate
        <4>1. 1 \in 1 .. Len(H) /\ 1 <= Len(b) /\ 1 \in 1 .. Len(k)
          BY <1>6, <1>8, <2>2, SMT
        <4>2. b[1] = H[1]
          BY <1>3, <4>1 DEF Starts
        <4>3. H[1] = k[1]
          BY <1>7, <4>1
        <4>4. QED BY <1>6, <4>2, <4>3
      <3>6. QED BY <1>3, <1>7, <3>1, <3>4, <3>5
    <2>8. Len(b) < Len(H) \/ Len(b) >= Len(H)
      BY <1>8, SMT
    <2>9. QED BY <2>6, <2>7, <2>8
  <1>11. QED BY <1>9, <1>10

Packet == [addr : PacketAddrs, payload : Payloads]
Outcome == [ok : {FALSE}] \cup [ok : {TRUE}, addr : {Canonical(a) : a \in PacketAddrs}, payload : Payloads]

\* What PacketAssumption says of a packet.
LEMMA PacketFacts ==
    ASSUME NEW x \in Packet
    PROVE  /\ x.addr \in PacketAddrs /\ x.payload \in Payloads
           /\ Valid(x.addr) /\ x.payload \in Seq(Nat) /\ Word(Len(x.payload))
           /\ Bytes(x) \in Seq(Nat)
  <1>1. x.addr \in PacketAddrs /\ x.payload \in Payloads
    BY DEF Packet
  <1>2. Valid(x.addr)
    BY <1>1, PacketAssumption, SMTT(30) DEF Valid, Word
  <1>3. x.payload \in Seq(Nat) /\ Word(Len(x.payload))
    BY <1>1, PacketAssumption, SMT DEF Word
  <1>4. PICK m : m = MarshalAddress(x.addr)
    OBVIOUS
  <1>5. m \in Seq(Nat)
    BY <1>2, <1>4, Marshalled DEF Encodes
  <1>6. PICK a : a = x.addr
    OBVIOUS
  <1>7. PICK p : p = x.payload
    OBVIOUS
  <1>8. Carries(WritePacket(a, p), m, p)
    BY <1>3, <1>4, <1>5, <1>6, <1>7, Written
  <1>9. Bytes(x) \in Seq(Nat)
    BY <1>6, <1>7, <1>8 DEF Carries, Bytes
  <1>10. QED BY <1>1, <1>2, <1>3, <1>9

\* What is left of the bytes x, all of them unless the connection ended.
Left(b, c, x) == CutOf(b, x) /\ (~c => b = x)
Flow(s, o, c, ws, n) ==
    \E all \in Seq(Nat) : Splits(ws, n, all) /\ Left(s, c, IF o THEN all ELSE AssociateHeader \o all)
Match(ws, gs) ==
    \A i \in DOMAIN gs :
        /\ i <= Len(ws)
        /\ gs[i].ok => gs[i] = [ok |-> TRUE, addr |-> Canonical(ws[i].addr), payload |-> ws[i].payload]
Opening(o, gs) == ~o => gs = <<>>

PktInv ==
    /\ written \in Seq(Packet) /\ got \in Seq(Outcome) /\ Len(got) <= Len(written)
    /\ stream \in Seq(Nat) /\ opened \in BOOLEAN /\ cut \in BOOLEAN
    /\ Opening(opened, got)
    /\ Flow(stream, opened, cut, written, Len(got))
    /\ Match(written, got)

\* Only the header is in the stream at the start.
LEMMA PktInitial == PktInit => PktInv
  <1>1. SUFFICES ASSUME PktInit PROVE PktInv
    OBVIOUS
  <1>2. AssociateHeader \in Seq(Nat)
    BY HeaderBytes
  <1>3. stream = AssociateHeader \o <<>>
    BY <1>1, <1>2, ConcatNone DEF PktInit
  <1>4. Left(stream, cut, AssociateHeader \o <<>>)
    <2>1. Len(stream) <= Len(stream)
      BY <1>1, <1>2, SMT DEF PktInit
    <2>2. QED BY <1>3, <2>1 DEF Left, CutOf
  <1>5. /\ <<>> \in Seq(Nat) /\ <<>> \in Seq(Packet) /\ <<>> \in Seq(Outcome) /\ Len(<<>>) = 0 /\ 0 <= 0
        /\ DOMAIN <<>> = {}
    BY SMT
  <1>6. Flow(stream, opened, cut, written, Len(got))
    BY <1>1, <1>4, <1>5, SplitNone DEF Flow, PktInit
  <1>7. QED BY <1>1, <1>2, <1>5, <1>6 DEF PktInv, PktInit, Opening, Match

\* A packet written behind the others.
LEMMA SendPacketStep ==
    ASSUME PktInv, NEW a \in PacketAddrs, NEW p \in Payloads, SendPacket(a, p)
    PROVE  PktInv'
  <1>1. PICK x : x = [addr |-> a, payload |-> p]
    OBVIOUS
  <1>2. x \in Packet /\ x.addr = a /\ x.payload = p
    BY <1>1 DEF Packet
  <1>3. /\ ~cut /\ written' = Append(written, x) /\ stream' = stream \o Bytes(x)
        /\ opened' = opened /\ got' = got /\ cut' = cut
    BY <1>1, <1>2 DEF SendPacket, Bytes
  <1>4. /\ written \in Seq(Packet) /\ got \in Seq(Outcome) /\ Len(got) <= Len(written)
        /\ stream \in Seq(Nat) /\ Opening(opened, got) /\ Flow(stream, opened, cut, written, Len(got)) /\ Match(written, got)
    BY DEF PktInv
  <1>5. /\ written' \in Seq(Packet) /\ Len(written') = Len(written) + 1 /\ Len(written) \in Nat /\ Len(got) \in Nat
        /\ Len(got) <= Len(written')
    BY <1>2, <1>3, <1>4, SMT
  <1>6. ASSUME NEW i \in 1 .. Len(written) PROVE written'[i] = written[i] /\ Bytes(written[i]) \in Seq(Nat)
    <2>1. written'[i] = written[i] /\ written[i] \in Packet
      BY <1>2, <1>3, <1>4, SMT
    <2>2. QED BY <2>1, PacketFacts, ZenonT(30)
  <1>7. Bytes(x) \in Seq(Nat)
    BY <1>2, PacketFacts
  <1>8. stream' \in Seq(Nat)
    BY <1>3, <1>4, <1>7, ConcatAt
  <1>9. PICK all \in Seq(Nat) :
            Splits(written, Len(got), all) /\ Left(stream, cut, IF opened THEN all ELSE AssociateHeader \o all)
    BY <1>4 DEF Flow
  <1>10. Splits(written', Len(got), all \o Bytes(x)) /\ all \o Bytes(x) \in Seq(Nat)
    <2>1. Splits(Append(written, x), Len(got), all \o Bytes(x))
      BY <1>2, <1>4, <1>5, <1>6, <1>7, <1>9, SplitAppend
    <2>2. QED BY <1>3, <1>7, <2>1, ConcatAt
  <1>11. stream' = IF opened THEN all \o Bytes(x) ELSE AssociateHeader \o (all \o Bytes(x))
    <2>1. CASE opened
      <3>1. stream = all
        BY <1>3, <1>9, <2>1 DEF Left
      <3>2. QED BY <1>3, <2>1, <3>1
    <2>2. CASE ~opened
      <3>1. stream = AssociateHeader \o all
        BY <1>3, <1>9, <2>2 DEF Left
      <3>2. AssociateHeader \in Seq(Nat)
        BY HeaderBytes
      <3>3. (AssociateHeader \o all) \o Bytes(x) = AssociateHeader \o (all \o Bytes(x))
        BY <1>7, <3>2, ConcatThree
      <3>4. QED BY <1>3, <2>2, <3>1, <3>3
    <2>3. QED BY <2>1, <2>2
  <1>12. Left(stream', cut, IF opened THEN all \o Bytes(x) ELSE AssociateHeader \o (all \o Bytes(x)))
    <2>1. Len(stream') <= Len(stream')
      BY <1>8, SMT
    <2>2. QED BY <1>11, <2>1 DEF Left, CutOf
  <1>13. Flow(stream', opened, cut, written', Len(got))
    BY <1>10, <1>12 DEF Flow
  <1>14. Match(written', got)
    <2>1. SUFFICES ASSUME NEW i \in DOMAIN got
          PROVE  /\ i <= Len(written')
                 /\ got[i].ok => got[i] = [ok |-> TRUE, addr |-> Canonical(written'[i].addr), payload |-> written'[i].payload]
      BY DEF Match
    <2>2. i \in 1 .. Len(written) /\ i <= Len(written')
      BY <1>4, <1>5, SMT
    <2>3. QED BY <1>4, <1>6, <2>2 DEF Match
  <1>15. QED BY <1>3, <1>4, <1>5, <1>8, <1>13, <1>14 DEF PktInv

\* The connection ends.
LEMMA CutStreamStep ==
    ASSUME PktInv, NEW n \in 0 .. Len(stream), CutStream(n)
    PROVE  PktInv'
  <1>1. /\ cut' = TRUE /\ stream' = SubSeq(stream, 1, n)
        /\ opened' = opened /\ written' = written /\ got' = got
    BY DEF CutStream
  <1>2. stream \in Seq(Nat) /\ Flow(stream, opened, cut, written, Len(got))
    BY DEF PktInv
  <1>3. PICK all \in Seq(Nat) :
            Splits(written, Len(got), all) /\ Left(stream, cut, IF opened THEN all ELSE AssociateHeader \o all)
    BY <1>2 DEF Flow
  <1>4. PICK whole : whole = IF opened THEN all ELSE AssociateHeader \o all
    OBVIOUS
  <1>5. whole \in Seq(Nat)
    <2>1. AssociateHeader \o all \in Seq(Nat)
      BY HeaderBytes, ConcatAt
    <2>2. QED BY <1>4, <2>1
  <1>6. CutOf(stream, whole)
    BY <1>3, <1>4 DEF Left
  <1>7. stream' \in Seq(Nat) /\ CutOf(stream', whole)
    BY <1>1, <1>2, <1>5, <1>6, CutMore
  <1>8. Flow(stream', opened, TRUE, written, Len(got))
    BY <1>3, <1>4, <1>7 DEF Flow, Left
  <1>9. QED BY <1>1, <1>7, <1>8 DEF PktInv

\* The header is read.
LEMMA ReadHeaderStep ==
    ASSUME PktInv, ReadHeader
    PROVE  PktInv'
  <1>1. PICK H : H = AssociateHeader
    OBVIOUS
  <1>2. /\ ~opened /\ written' = written /\ got' = got /\ cut' = cut
        /\ opened' = UnmarshalMetadata(stream).ok
        /\ stream' = IF UnmarshalMetadata(stream).ok /\ stream[1] = Associate
                     THEN UnmarshalMetadata(stream).rest ELSE <<>>
    BY DEF ReadHeader
  <1>3. /\ stream \in Seq(Nat) /\ got = <<>> /\ Flow(stream, opened, cut, written, Len(got))
    BY <1>2 DEF PktInv, Opening
  <1>4. PICK all \in Seq(Nat) : Splits(written, Len(got), all) /\ Left(stream, cut, H \o all)
    BY <1>1, <1>2, <1>3 DEF Flow
  <1>5. H \in Seq(Nat)
    BY <1>1, HeaderBytes
  <1>6. Starts(stream, H) /\ CutOf(Drop(stream, Len(H)), all)
    <2>1. CutOf(stream, H \o all)
      BY <1>4 DEF Left
    <2>2. QED BY <1>3, <1>5, <2>1, CutStarts
  <1>7. /\ Len(stream) < Len(H) => UnmarshalMetadata(stream).ok = FALSE
        /\ Len(stream) >= Len(H) =>
                 /\ UnmarshalMetadata(stream).ok = TRUE
                 /\ UnmarshalMetadata(stream).rest = Drop(stream, Len(H))
                 /\ stream[1] = Associate
    BY <1>1, <1>3, <1>6, HeaderRead
  <1>8. Len(stream) \in Nat /\ Len(H) \in Nat /\ Len(all) \in Nat /\ <<>> \in Seq(Nat) /\ Len(<<>>) = 0
    BY <1>3, <1>5, SMT
  <1>9. CASE Len(stream) < Len(H)
    <2>1. opened' = FALSE /\ stream' = <<>>
      BY <1>2, <1>7, <1>9
    <2>2. cut
      <3>1. Len(H \o all) = Len(H) + Len(all)
        BY <1>5, ConcatAt
      <3>2. stream # H \o all
        BY <1>8, <1>9, <3>1, SMT
      <3>3. QED BY <1>4, <3>2 DEF Left
    <2>3. CutOf(<<>>, H \o all)
      <3>1. H \o all \in Seq(Nat)
        BY <1>5, ConcatAt
      <3>2. Len(<<>>) <= Len(H \o all)
        BY <3>1, SMT
      <3>3. 1 .. Len(<<>>) = {}
        BY SMT
      <3>4. QED BY <3>2, <3>3 DEF CutOf
    <2>4. Flow(<<>>, FALSE, cut, written, Len(got))
      BY <1>1, <1>4, <2>2, <2>3 DEF Flow, Left
    <2>5. QED BY <1>2, <1>3, <1>8, <2>1, <2>4 DEF PktInv, Opening
  <1>10. CASE Len(stream) >= Len(H)
    <2>1. opened' = TRUE /\ stream' = Drop(stream, Len(H))
      BY <1>2, <1>7, <1>10
    <2>2. stream' \in Seq(Nat)
      BY <1>3, <1>8, <2>1, DropAt
    <2>3. ~cut => stream' = all
      <3>1. Drop(H \o all, Len(H)) = all
        BY <1>5, DropFirst
      <3>2. QED BY <1>4, <2>1, <3>1 DEF Left
    <2>4. Flow(stream', TRUE, cut, written, Len(got))
      BY <1>4, <1>6, <2>1, <2>3 DEF Flow, Left
    <2>5. QED BY <1>2, <1>3, <2>1, <2>2, <2>4 DEF PktInv, Opening
  <1>11. Len(stream) < Len(H) \/ Len(stream) >= Len(H)
    BY <1>8, SMT
  <1>12. QED BY <1>9, <1>10, <1>11

\* A packet is read.
LEMMA ReceivePacketStep ==
    ASSUME PktInv, NEW room, ReceivePacket(room)
    PROVE  PktInv'
  <1>1. PICK r : r = ReadPacket(stream, room)
    OBVIOUS
  <1>2. PICK e : e = IF r.ok THEN [ok |-> TRUE, addr |-> r.addr, payload |-> r.payload] ELSE [ok |-> FALSE]
    OBVIOUS
  <1>3. /\ opened /\ stream # <<>> /\ stream' = r.rest /\ got' = Append(got, e)
        /\ opened' = opened /\ written' = written /\ cut' = cut
    BY <1>1, <1>2 DEF ReceivePacket
  <1>4. /\ written \in Seq(Packet) /\ got \in Seq(Outcome) /\ Len(got) <= Len(written)
        /\ stream \in Seq(Nat) /\ Flow(stream, opened, cut, written, Len(got)) /\ Match(written, got)
    BY DEF PktInv
  <1>5. PICK all \in Seq(Nat) : Splits(written, Len(got), all) /\ Left(stream, cut, all)
    BY <1>3, <1>4 DEF Flow
  <1>6. Len(got) \in Nat /\ Len(written) \in Nat
    BY <1>4, SMT
  <1>7. Len(got) < Len(written)
    <2>1. SUFFICES ASSUME Len(got) = Len(written) PROVE FALSE
      BY <1>4, <1>6, SMT
    <2>2. all = <<>>
      BY <1>5, <2>1, SplitEnd
    <2>3. Len(stream) <= Len(<<>>)
      BY <1>5, <2>2 DEF Left, CutOf
    <2>4. stream = <<>>
      BY <1>4, <2>3, SMT
    <2>5. QED BY <1>3, <2>4
  <1>8. PICK n : n = Len(got) + 1
    OBVIOUS
  <1>9. n \in 1 .. Len(written) /\ n <= Len(written) /\ n \in Nat
    BY <1>6, <1>7, <1>8, SMT
  <1>10. PICK x : x = written[n]
    OBVIOUS
  <1>11. x \in Packet
    BY <1>4, <1>9, <1>10, SMT
  <1>12. PICK more \in Seq(Nat) : all = Bytes(x) \o more /\ Splits(written, n, more)
    BY <1>5, <1>6, <1>7, <1>8, <1>10, SplitNext
  <1>13. /\ x.addr \in PacketAddrs /\ x.payload \in Payloads
         /\ Valid(x.addr) /\ x.payload \in Seq(Nat) /\ Word(Len(x.payload))
         /\ Bytes(x) \in Seq(Nat)
    BY <1>11, PacketFacts
  <1>14. Starts(stream, Bytes(x)) /\ CutOf(Drop(stream, Len(Bytes(x))), more)
    <2>1. CutOf(stream, Bytes(x) \o more)
      BY <1>5, <1>12 DEF Left
    <2>2. QED BY <1>4, <1>13, <2>1, CutStarts
  <1>15. /\ r.rest = Drop(stream, Len(Bytes(x)))
         /\ r.ok \in BOOLEAN
         /\ r.ok => r.addr = Canonical(x.addr) /\ r.payload = x.payload
    <2>1. Starts(stream, WritePacket(x.addr, x.payload))
      BY <1>14 DEF Bytes
    <2>2. /\ ReadPacket(stream, room).rest = Drop(stream, Len(WritePacket(x.addr, x.payload)))
          /\ ReadPacket(stream, room).ok \in BOOLEAN
          /\ ReadPacket(stream, room).ok =>
                ReadPacket(stream, room).addr = Canonical(x.addr) /\ ReadPacket(stream, room).payload = x.payload
      BY <1>4, <1>13, <2>1, OnePacket
    <2>3. QED BY <1>1, <2>2 DEF Bytes
  <1>16. stream' \in Seq(Nat)
    <2>1. Len(Bytes(x)) \in Nat
      BY <1>13, SMT
    <2>2. QED BY <1>3, <1>4, <1>15, <2>1, DropAt
  <1>17. ~cut => stream' = more
    <2>1. Drop(Bytes(x) \o more, Len(Bytes(x))) = more
      BY <1>13, DropFirst
    <2>2. QED BY <1>3, <1>5, <1>12, <1>15, <2>1 DEF Left
  <1>18. CutOf(stream', more)
    BY <1>3, <1>14, <1>15
  <1>19. e \in Outcome /\ (e.ok => e = [ok |-> TRUE, addr |-> Canonical(x.addr), payload |-> x.payload])
    <2>1. CASE r.ok
      <3>1. e = [ok |-> TRUE, addr |-> Canonical(x.addr), payload |-> x.payload]
        BY <1>2, <1>15, <2>1
      <3>2. QED BY <1>13, <3>1 DEF Outcome
    <2>2. CASE ~r.ok
      <3>1. e = [ok |-> FALSE]
        BY <1>2, <2>2
      <3>2. e \in Outcome
        BY <3>1 DEF Outcome
      <3>3. ~e.ok
        BY <3>1, SMTT(30)
      <3>4. QED BY <3>2, <3>3
    <2>3. QED BY <2>1, <2>2
  <1>20. /\ got' \in Seq(Outcome) /\ Len(got') = n /\ DOMAIN got' = 1 .. n
    BY <1>3, <1>4, <1>6, <1>8, <1>19, SMTT(30)
  <1>21. Match(written, got')
    <2>1. SUFFICES ASSUME NEW i \in 1 .. n
          PROVE  /\ i <= Len(written)
                 /\ got'[i].ok => got'[i] = [ok |-> TRUE, addr |-> Canonical(written[i].addr), payload |-> written[i].payload]
      BY <1>20 DEF Match
    <2>2. CASE i = n
      <3>1. got'[i] = e
        BY <1>3, <1>4, <1>6, <1>8, <1>19, <2>2, SMTT(30)
      <3>2. QED BY <1>9, <1>10, <1>19, <2>2, <3>1, ZenonT(30)
    <2>3. CASE i # n
      <3>1. i \in DOMAIN got /\ got'[i] = got[i]
        BY <1>3, <1>4, <1>6, <1>8, <1>19, <2>3, SMTT(30)
      <3>2. QED BY <1>4, <3>1, ZenonT(30) DEF Match
    <2>4. QED BY <2>2, <2>3
  <1>22. Flow(stream', TRUE, cut, written, n)
    BY <1>12, <1>17, <1>18 DEF Flow, Left
  <1>23. opened' = TRUE /\ cut \in BOOLEAN
    BY <1>3 DEF PktInv
  <1>24. QED BY <1>3, <1>4, <1>9, <1>16, <1>20, <1>21, <1>22, <1>23 DEF PktInv, Opening

\* The n-th read is the n-th packet as it was written, or an error, however the
\* connection ends (WriteWithMetadata, ReadWithMetadata): for any addresses with
\* names of up to 253 bytes, any payloads below 2^16 bytes and any bound on the
\* packet size.
THEOREM AlignmentCorrect == Spec => []PacketsStayAligned
  <1>1. ASSUME PktInv, [Next]_vars
        PROVE  PktInv'
    <2>1. CASE pvars' = pvars
      BY <1>1, <2>1 DEF pvars, PktInv
    <2>2. CASE PktNext
      BY <1>1, <2>2, SendPacketStep, ReadHeaderStep, CutStreamStep, ReceivePacketStep DEF PktNext
    <2>3. QED BY <1>1, <2>1, <2>2, Steps
  <1>2. Init => PktInv
    BY PktInitial DEF Init
  <1>3. PktInv => PacketsStayAligned
    BY DEF PktInv, Match, PacketsStayAligned
  <1>4. QED BY <1>1, <1>2, <1>3, PTL DEF Spec
=============================================================================
