--------------------------- MODULE Inbound_proofs ---------------------------
(***************************************************************************)
(* Proofs about Inbound, for any number of connections, any peers, any     *)
(* configurations and any queue size.                                      *)
(*                                                                         *)
(* The inductive invariant has two halves.  Fit says of one connection     *)
(* what its position implies for its reader, its deadline, its session and *)
(* its chain of wrappers; a handler that moves the connection has to       *)
(* establish it for the record it stores.  Owned says that the queues hold *)
(* the connections whose record says so, and each once.                    *)
(***************************************************************************)
EXTENDS Inbound, SequenceTheorems, WellFoundedInduction, TLAPS

USE Zenon
-----------------------------------------------------------------------------
(***************************************************************************)
(* The inductive invariant.                                                *)
(***************************************************************************)

IsReader(r) ==
    /\ DOMAIN r = {"src", "buf", "idx", "rewound", "buffering", "size"}
    /\ r.src \in Seq(Nat) /\ r.buf \in Seq(Nat) /\ r.idx \in Nat /\ r.rewound \in BOOLEAN

\* A reader that a layer has just put around a connection that delivers a.
Buffer(a, n) == SetBufferSize(NewRewindConn(a), n)

\* A record of a connection, whatever its fields hold.
Shape(s) ==
    DOMAIN s = {"at", "peer", "rr", "armed", "cut", "via", "by", "chain", "target", "sess", "requests"}

\* Where a layer has consumed a header, and where one has only looked.
Consumed == {"wsShake", "wsStored", "wsLate", "wsFailed", "httpSend", "http.conn", "reqWrite", "respRead",
             "respWrite", "nextRequest", "socksSend", "socks.conn", "associated", "ssSend", "ss.conn", "ss.packet"}
Peeking == {"sniff", "shake", "tlsSniff", "ws", "ssRead", "detect"}

Left(s) == IF s.at \in Consumed \/ s.via = "ws" THEN Tail(Stream) ELSE Stream

\* What is still to be read, and that a reader that looks keeps what it reads.
ReaderFits(s) ==
    /\ IsReader(s.rr)
    /\ Ahead(s.rr) = Left(s)
    /\ s.at \in Peeking => \E n \in Nat : s.rr = Buffer(Left(s), n)
    /\ s.via = "ws" => s.at \in {"ssRead", "trojan", "redirect"}

\* A deadline is armed only inside tls, or on what was not TLS at all.
DeadlineFits(s) ==
    s.armed # FALSE => \/ s.at \in {"shake", "tlsSniff"}
                       \/ s.at = "redirect" /\ s.peer.proto = "plain"

\* A session waits in the queue while its request is to be written, and it is
\* used only by the goroutine of its request.
SessionFits(s) ==
    /\ s.sess \in {"none", "queued", "open", "closed"}
    /\ s.sess = "queued" => s.at = "reqWrite"
    /\ s.sess = "open" => s.at \in {"reqWrite", "respRead", "respWrite"} \cup Gone

\* The positions that lead to a lost connection are those of the client tree.
TreeFits(s, k, x) ==
    /\ s.at \in {"detect", "to socks", "to http", "adapter.socks", "adapter.http", "httpRequest", "socksShake"} =>
          k = "client"
    /\ s.at = "lost" /\ k \in {"tls", "plain"} => x

\* What the peer says, where the layers have looked at it.
PeerFits(s) ==
    /\ s.at \in {"transport.ws", "tls.ws", "ws", "wsShake"} => s.peer.app \in {"ws", "http"} /\ ~s.cut
    /\ s.at = "tls.conn" /\ s.peer.app \in {"ws", "http"} => s.cut
    /\ s.at = "tlsSniff" => s.peer.proto = "tls"
    /\ s.at \in {"detect", "to socks", "adapter.socks", "socksShake"} /\ s.peer.app = "socks" =>
          s.peer.cmd \in {"connect", "associate", "unknown"}
    /\ s.at \in {"to socks", "adapter.socks", "socksShake"} => s.peer.app = "socks"

\* Before a connection is redirected nothing on its chain carries a rule.
Links == [name : {"tcp", "rewind", "transport", "tls", "websocket", "shadowsocks"}, rule : {NoRule}]
ChainFits(s) ==
    /\ s.at # "redirect" => s.chain \in Seq(Links)
    /\ s.at \in {"tcp", "sniff", "transport.conn", "shake", "tlsSniff"} => s.chain # <<>>

\* RulesGovern, for a record.
Ruled(s, k, cf) ==
    LET known == s.peer.proto = "tls"
        sni == IF known THEN s.peer.sni ELSE None
        alpn == IF known THEN s.peer.alpn ELSE None
        asks == {i \in DOMAIN cf.rules : /\ cf.rules[i].default => \E j \in 1 .. i - 1 : cf.rules[j].default
                                         /\ Satisfies(cf.rules[i], sni, alpn)}
        rule == s.chain[1].rule
    IN (s.at = "redirect" /\ k = "tls" /\ s.target # cf.remote) =>
          IF s.chain[1].name = "rule"
          THEN IF asks = {} THEN rule.default
               ELSE rule = cf.rules[CHOOSE i \in asks : \A j \in asks : i <= j]
          ELSE asks = {} /\ s.target = cf.addr

\* In tree k, with the configuration cf, and closed or not (x).
Fit(s, k, cf, x) ==
    /\ Shape(s)
    /\ ReaderFits(s)
    /\ DeadlineFits(s)
    /\ SessionFits(s)
    /\ TreeFits(s, k, x)
    /\ PeerFits(s)
    /\ ChainFits(s)
    /\ Ruled(s, k, cf)

\* What makes a list of rules usable.
Usable(rules) ==
    /\ \E n \in Nat : DOMAIN rules = 1 .. n
    /\ \A i \in DOMAIN rules : rules[i] # NoRule

\* Record s is that of a connection in queue q.
Queued(s, q) == s.at = q \/ (q = "http.conn" /\ s.sess = "queued")

Places(ch, c) == {i \in DOMAIN ch : ch[i] = c}

Owned(cn, ch) ==
    \A c \in Conn : \A q \in Channels :
        IF Queued(cn[c], q) THEN \E i \in Places(ch[q], c) : Places(ch[q], c) = {i}
        ELSE Places(ch[q], c) = {}

Inv ==
    /\ Usable(conf.rules)
    /\ DOMAIN conn = Conn /\ conn = [c \in Conn |-> conn[c]]
    /\ chan \in [Channels -> Seq(Conn)]
    /\ \A c \in Conn : Fit(conn[c], stack, conf, ctx)
    /\ Owned(conn, chan)
-----------------------------------------------------------------------------
(***************************************************************************)
(* Readers: a peek gives back what it read, and a read of one consumes it. *)
(***************************************************************************)

\* The stream, and what is left of it behind a header.
LEMMA StreamParts == Stream \in Seq(Nat) /\ Tail(Stream) \in Seq(Nat) /\ Stream # <<>>
  BY SMT DEF Stream

\* A layer's wrapper delivers what the wrapped connection would have.
LEMMA BufferAhead ==
    ASSUME NEW a \in Seq(Nat), NEW n \in Nat, NEW r, r = Buffer(a, n)
    PROVE  /\ IsReader(r) /\ Ahead(r) = a
           /\ r.src = a /\ r.buf = <<>> /\ r.idx = 0 /\ r.rewound = FALSE /\ r.buffering = TRUE
  <1>1. /\ r.src = a /\ r.buf = <<>> /\ r.idx = 0 /\ r.rewound = FALSE /\ r.buffering = TRUE
        /\ DOMAIN r = {"src", "buf", "idx", "rewound", "buffering", "size"}
    BY DEF Buffer, SetBufferSize, NewRewindConn
  <1>2. <<>> \in Seq(Nat) /\ 0 \in Nat
    BY SMT
  <1>3. Ahead(r) = <<>> \o a
    BY <1>1 DEF Ahead
  <1>4. QED BY <1>1, <1>2, <1>3, ConcatEmptySeq DEF IsReader

\* However much of it a peek reads, the next reader gets all of it.
LEMMA PeekedAhead ==
    ASSUME NEW a \in Seq(Nat), NEW n \in Nat, NEW m \in Nat
    PROVE  IsReader(Peeked(Buffer(a, n), m)) /\ Ahead(Peeked(Buffer(a, n), m)) = a
  <1>1. PICK k \in 0 .. Len(a) : k = IF m < Len(a) THEN m ELSE Len(a)
    BY SMT
  <1>2. PICK r : /\ r = Buffer(a, n) /\ IsReader(r)
                 /\ r.src = a /\ r.buf = <<>> /\ r.idx = 0 /\ r.rewound = FALSE /\ r.buffering = TRUE
    BY BufferAhead
  <1>3. SubSeq(a, 1, k) \in Seq(Nat) /\ SubSeq(a, k + 1, Len(a)) \in Seq(Nat) /\ Len(SubSeq(a, 1, k)) = k
    BY SMT
  <1>4. <<>> \o SubSeq(a, 1, k) = SubSeq(a, 1, k)
    BY <1>3, ConcatEmptySeq
  <1>5. PICK s : s = [r EXCEPT !.rewound = FALSE, !.src = SubSeq(a, k + 1, Len(a)), !.buf = SubSeq(a, 1, k)]
    OBVIOUS
  <1>6. Read(r, m) = s
    BY <1>1, <1>2, <1>4, <1>5 DEF Read, FromBuffer
  <1>7. /\ DOMAIN s = {"src", "buf", "idx", "rewound", "buffering", "size"}
        /\ s.src = SubSeq(a, k + 1, Len(a)) /\ s.buf = SubSeq(a, 1, k)
    BY <1>2, <1>5 DEF IsReader
  <1>8. PICK t : t = StopBuffering(Rewind(s))
    OBVIOUS
  <1>9. /\ DOMAIN t = {"src", "buf", "idx", "rewound", "buffering", "size"}
        /\ t.src = s.src /\ t.buf = s.buf /\ t.idx = 0 /\ t.rewound = TRUE
    BY <1>7, <1>8 DEF StopBuffering, Rewind
  <1>10. 0 \in Nat /\ 0 + 1 = 1
    BY SMT
  <1>11. Ahead(t) = SubSeq(SubSeq(a, 1, k), 1, k) \o SubSeq(a, k + 1, Len(a))
    BY <1>3, <1>7, <1>9, <1>10 DEF Ahead
  <1>12. SubSeq(SubSeq(a, 1, k), 1, k) = SubSeq(a, 1, k)
    BY <1>3, SubSeqFull
  <1>13. SubSeq(a, 1, k) \o SubSeq(a, k + 1, Len(a)) = a
    <2>1. 1 \in 1 .. Len(a) + 1 /\ k \in 1 - 1 .. Len(a) /\ Len(a) \in k .. Len(a)
      BY SMT
    <2>2. SubSeq(a, 1, k) \o SubSeq(a, k + 1, Len(a)) = SubSeq(a, 1, Len(a))
      BY <2>1, ConcatAdjacentSubSeq
    <2>3. QED BY <2>2, SubSeqFull
  <1>14. IsReader(t)
    BY <1>3, <1>7, <1>9, <1>10 DEF IsReader
  <1>15. QED BY <1>2, <1>6, <1>8, <1>11, <1>12, <1>13, <1>14 DEF Peeked

\* A read of one byte takes the first of what is ahead, from the buffer or behind it.
LEMMA ReadOne ==
    ASSUME NEW r, IsReader(r), Ahead(r) # <<>>
    PROVE  IsReader(Read(r, 1)) /\ Ahead(Read(r, 1)) = Tail(Ahead(r))
  <1>1. PICK a \in Seq(Nat), b \in Seq(Nat), i \in Nat : a = r.src /\ b = r.buf /\ i = r.idx
    BY DEF IsReader
  <1>2. Len(a) \in Nat /\ Len(b) \in Nat /\ i + 1 \in Nat
    BY SMT
  <1>3. CASE r.rewound /\ Len(b) > i
    <2>1. Read(r, 1) = [r EXCEPT !.idx = i + 1]
      <3>1. (IF i + 1 < Len(b) THEN i + 1 ELSE Len(b)) = i + 1
        BY <1>2, <1>3, SMT
      <3>2. QED BY <1>1, <1>3, <3>1 DEF Read, FromBuffer
    <2>2. PICK s : s = Read(r, 1)
      OBVIOUS
    <2>3. s.src = a /\ s.buf = b /\ s.idx = i + 1 /\ s.rewound = r.rewound /\ DOMAIN s = DOMAIN r
      BY <1>1, <2>1, <2>2 DEF IsReader
    <2>4. Ahead(r) = SubSeq(b, i + 1, Len(b)) \o a /\ Ahead(s) = SubSeq(b, (i + 1) + 1, Len(b)) \o a
      BY <1>1, <1>3, <2>3 DEF Ahead
    <2>5. i + 1 \in 1 .. Len(b) /\ Len(b) \in i + 1 .. Len(b)
      BY <1>2, <1>3, SMT
    <2>6. SubSeq(b, i + 1, Len(b)) = <<b[i + 1]>> \o SubSeq(b, (i + 1) + 1, Len(b))
      BY <2>5, SubSeqRecursiveFirst
    <2>7. SubSeq(b, (i + 1) + 1, Len(b)) \in Seq(Nat) /\ b[i + 1] \in Nat
      BY <2>5, SMT
    <2>8. PICK t \in Seq(Nat), e \in Nat : t = SubSeq(b, (i + 1) + 1, Len(b)) /\ e = b[i + 1]
      BY <2>7
    <2>9. Tail((<<e>> \o t) \o a) = t \o a
      <3>1. <<e>> \in Seq(Nat)
        BY SMT
      <3>2. (<<e>> \o t) \o a = <<e>> \o (t \o a)
        BY <3>1, ConcatAssociative, SMT
      <3>3. t \o a \in Seq(Nat)
        BY ConcatProperties
      <3>4. PICK v \in Seq(Nat) : v = t \o a
        BY <3>3
      <3>5. Tail(<<e>> \o v) = v
        BY SMTT(30)
      <3>6. QED BY <3>1, <3>2, <3>4, <3>5
    <2>10. IsReader(s)
      BY <1>1, <1>2, <2>3 DEF IsReader
    <2>11. QED BY <2>2, <2>4, <2>6, <2>8, <2>9, <2>10
  <1>4. CASE ~(r.rewound /\ Len(b) > i)
    <2>1. Ahead(r) = a
      <3>1. CASE r.rewound
        <4>1. SubSeq(b, i + 1, Len(b)) = <<>>
          BY <1>2, <1>4, <3>1, SMT
        <4>2. Ahead(r) = <<>> \o a
          BY <1>1, <3>1, <4>1 DEF Ahead
        <4>3. QED BY <4>2, ConcatEmptySeq
      <3>2. CASE ~r.rewound
        <4>1. Ahead(r) = <<>> \o a
          BY <1>1, <3>2 DEF Ahead
        <4>2. QED BY <4>1, ConcatEmptySeq
      <3>3. QED BY <3>1, <3>2
    <2>2. a # <<>>
      BY <2>1
    <2>3. Len(a) >= 1
      BY <1>2, <2>2, SMT
    <2>4. SubSeq(a, 1, 1) \in Seq(Nat) /\ SubSeq(a, 2, Len(a)) = Tail(a) /\ Tail(a) \in Seq(Nat)
      BY <1>2, <2>2, <2>3, SMTT(30)
    <2>5. PICK e \in Seq(Nat) : e = IF r.buffering THEN b \o SubSeq(a, 1, 1) ELSE b
      <3>1. b \o SubSeq(a, 1, 1) \in Seq(Nat)
        BY <2>4, ConcatProperties
      <3>2. QED BY <3>1
    <2>6. PICK s : s = [r EXCEPT !.rewound = FALSE, !.src = Tail(a), !.buf = e]
      OBVIOUS
    <2>7. Read(r, 1) = s
      <3>1. PICK n \in Nat : n = Len(a)
        BY <1>2
      <3>2. n >= 1
        BY <2>3, <3>1
      <3>3. (IF 1 < n THEN 1 ELSE n) = 1
        BY <3>2, SMT
      <3>4. 1 + 1 = 2
        BY SMT
      <3>5. QED BY <1>1, <1>4, <2>4, <2>5, <2>6, <3>1, <3>3, <3>4 DEF Read, FromBuffer
    <2>8. s.src = Tail(a) /\ s.rewound = FALSE /\ s.buf = e /\ s.idx = i /\ DOMAIN s = DOMAIN r
      BY <1>1, <2>6 DEF IsReader
    <2>9. IsReader(s)
      BY <2>4, <2>8 DEF IsReader
    <2>10. Ahead(s) = <<>> \o Tail(a)
      BY <2>8 DEF Ahead
    <2>11. QED BY <2>1, <2>4, <2>7, <2>9, <2>10, ConcatEmptySeq
  <1>5. QED BY <1>3, <1>4

\* To stop buffering changes nothing for the readers to come.
LEMMA StopAhead ==
    ASSUME NEW r, IsReader(r)
    PROVE  IsReader(StopBuffering(r)) /\ Ahead(StopBuffering(r)) = Ahead(r)
  <1>1. PICK s : s = StopBuffering(r)
    OBVIOUS
  <1>2. s.src = r.src /\ s.buf = r.buf /\ s.idx = r.idx /\ s.rewound = r.rewound /\ DOMAIN s = DOMAIN r
    BY <1>1 DEF StopBuffering, IsReader
  <1>3. IsReader(s)
    BY <1>2 DEF IsReader
  <1>4. QED BY <1>1, <1>2, <1>3 DEF Ahead
-----------------------------------------------------------------------------
(***************************************************************************)
(* Fallback rules: what NewServer keeps of them, and what Match returns.   *)
(***************************************************************************)

\* A set of naturals that is not empty has a least element.
LEMMA Least ==
    ASSUME NEW S \in SUBSET Nat, S # {}
    PROVE  \E i \in S : \A j \in S : i <= j
  <1>1. PICK i \in S : \A j \in S : ~(<<j, i>> \in OpToRel(<, Nat))
    BY NatLessThanWellFounded, WFMin
  <1>2. ASSUME NEW j \in S PROVE i <= j
    <2>1. ~(j < i)
      BY <1>1 DEF OpToRel
    <2>2. i \in Nat /\ j \in Nat
      OBVIOUS
    <2>3. QED BY <2>1, <2>2, SMT
  <1>3. QED BY <1>2

\* Induction on the natural numbers, for a set of them.
LEMMA Induction ==
    ASSUME NEW G \in SUBSET Nat, 0 \in G, \A k \in G : k + 1 \in G
    PROVE  G = Nat
  <1>1. SUFFICES ASSUME Nat \ G # {} PROVE FALSE
    OBVIOUS
  <1>2. PICK x \in Nat \ G : \A y \in Nat \ G : x <= y
    BY <1>1, Least
  <1>3. x \in Nat /\ x # 0 /\ x \notin G
    BY <1>2
  <1>4. x - 1 \in Nat /\ x - 1 + 1 = x /\ ~(x <= x - 1)
    BY <1>3, SMT
  <1>5. x - 1 \in G
    BY <1>2, <1>4
  <1>6. QED BY <1>3, <1>4, <1>5

\* One round of the loop of RulesFromConfig.
OutStep(in, out, i) ==
    IF i = 0 THEN <<>> ELSE IF ValidRule(in[i]) THEN Append(out[i - 1], in[i]) ELSE out[i - 1]

\* The loop computes something.
LEMMA LoopExists ==
    ASSUME NEW in, Len(in) \in Nat
    PROVE  \E out : out = [i \in 0 .. Len(in) |-> OutStep(in, out, i)]
  <1>1. PICK D : D = 0 .. Len(in)
    OBVIOUS
  <1>2. \A i \in D : i \in Nat /\ i <= Len(in) /\ (i # 0 => i - 1 \in D)
    BY <1>1, SMT
  <1> DEFINE Upto(out, k) == \A i \in D : i <= k => out[i] = OutStep(in, out, i)
             N == {k \in Nat : \E out : out = [i \in D |-> out[i]] /\ Upto(out, k)}
  <1>3. 0 \in N
    <2>1. PICK out : out = [i \in D |-> <<>>]
      OBVIOUS
    <2>2. ASSUME NEW i \in D, i <= 0 PROVE out[i] = OutStep(in, out, i)
      <3>1. i \in Nat
        BY <1>2
      <3>2. i = 0
        BY <2>2, <3>1, SMT
      <3>3. QED BY <2>1, <3>2 DEF OutStep
    <2>3. out = [i \in D |-> out[i]]
      BY <2>1
    <2>4. 0 \in Nat
      BY SMT
    <2>5. QED BY <2>2, <2>3, <2>4
  <1>4. ASSUME NEW k \in N PROVE k + 1 \in N
    <2>1. k \in Nat
      OBVIOUS
    <2>2. k + 1 \in Nat
      BY <2>1, SMT
    <2>3. PICK a : a = [i \in D |-> a[i]] /\ Upto(a, k)
      OBVIOUS
    <2>4. PICK b : b = [i \in D |-> OutStep(in, a, i)]
      OBVIOUS
    <2>5. ASSUME NEW i \in D, i <= k + 1 PROVE b[i] = OutStep(in, b, i)
      <3>1. b[i] = OutStep(in, a, i)
        BY <2>4
      <3>2. CASE i = 0
        BY <3>1, <3>2 DEF OutStep
      <3>3. CASE i # 0
        <4>1. i \in Nat /\ i - 1 \in D
          BY <1>2, <3>3
        <4>2. i - 1 <= k
          BY <2>1, <2>5, <4>1, SMT
        <4>3. a[i - 1] = b[i - 1]
          BY <2>3, <2>4, <4>1, <4>2
        <4>4. QED BY <3>1, <3>3, <4>3 DEF OutStep
      <3>4. QED BY <3>2, <3>3
    <2>6. b = [i \in D |-> b[i]]
      BY <2>4
    <2>7. QED BY <2>2, <2>5, <2>6
  <1>5. N \in SUBSET Nat
    OBVIOUS
  <1>6. N = Nat
    <2> HIDE DEF N
    <2>1. QED BY <1>3, <1>4, <1>5, Induction
  <1>7. PICK out : out = [i \in D |-> out[i]] /\ Upto(out, Len(in))
    BY <1>6
  <1>8. \A i \in D : out[i] = OutStep(in, out, i)
    BY <1>2, <1>7
  <1>9. out = [i \in D |-> OutStep(in, out, i)]
    BY <1>7, <1>8
  <1>10. QED BY <1>1, <1>9

\* What it computes: a list of entries that are valid.
LEMMA RulesValid ==
    ASSUME NEW in, Len(in) \in Nat
    PROVE  RulesFromConfig(in) \in Seq({in[i] : i \in {j \in 1 .. Len(in) : ValidRule(in[j])}})
  <1>1. PICK V : V = {in[i] : i \in {j \in 1 .. Len(in) : ValidRule(in[j])}}
    OBVIOUS
  <1>2. PICK out : out = CHOOSE o : o = [i \in 0 .. Len(in) |-> OutStep(in, o, i)]
    OBVIOUS
  <1>3. RulesFromConfig(in) = out[Len(in)]
    BY <1>2 DEF RulesFromConfig, OutStep
  <1>4. out = [i \in 0 .. Len(in) |-> OutStep(in, out, i)]
    <2>1. \E o : o = [i \in 0 .. Len(in) |-> OutStep(in, o, i)]
      BY LoopExists
    <2>2. QED BY <1>2, <2>1
  <1>5. PICK N : N = {k \in Nat : k <= Len(in) => out[k] \in Seq(V)}
    OBVIOUS
  <1>6. 0 \in N
    <2>1. 0 \in Nat /\ 0 \in 0 .. Len(in)
      BY SMT
    <2>2. out[0] = <<>>
      BY <1>4, <2>1 DEF OutStep
    <2>3. <<>> \in Seq(V)
      BY EmptySeq
    <2>4. QED BY <1>5, <2>1, <2>2, <2>3
  <1>7. ASSUME NEW k \in N PROVE k + 1 \in N
    <2>1. k \in Nat
      BY <1>5
    <2>2. k + 1 \in Nat /\ k + 1 # 0 /\ k + 1 - 1 = k
      BY <2>1, SMT
    <2>3. ASSUME k + 1 <= Len(in) PROVE out[k + 1] \in Seq(V)
      <3>1. k + 1 \in 0 .. Len(in) /\ k + 1 \in 1 .. Len(in) /\ k <= Len(in)
        BY <2>1, <2>3, SMT
      <3>2. out[k + 1] = IF ValidRule(in[k + 1]) THEN Append(out[k], in[k + 1]) ELSE out[k]
        <4>1. PICK i \in 0 .. Len(in) : i = k + 1
          BY <3>1
        <4>2. i # 0 /\ i - 1 = k
          BY <2>1, <4>1, SMT
        <4>3. out[i] = OutStep(in, out, i)
          BY <1>4
        <4>4. QED BY <4>1, <4>2, <4>3 DEF OutStep
      <3>3. out[k] \in Seq(V)
        BY <1>5, <3>1
      <3>4. CASE ValidRule(in[k + 1])
        <4>1. PICK e \in V : e = in[k + 1]
          BY <1>1, <3>1, <3>4
        <4>2. Append(out[k], e) \in Seq(V)
          BY <3>3, AppendProperties
        <4>3. QED BY <3>2, <3>4, <4>1, <4>2
      <3>5. CASE ~ValidRule(in[k + 1])
        BY <3>2, <3>3, <3>5
      <3>6. QED BY <3>4, <3>5
    <2>4. QED BY <1>5, <2>2, <2>3
  <1>8. N \in SUBSET Nat
    BY <1>5
  <1>9. N = Nat
    BY <1>6, <1>7, <1>8, Induction
  <1>10. Len(in) <= Len(in)
    BY SMT
  <1>11. QED BY <1>1, <1>3, <1>5, <1>9, <1>10

\* The rules of a configuration can be told from "no rule".
LEMMA RulesUsable ==
    ASSUME NEW cfg \in Configs
    PROVE  Usable(TLSNewServer(cfg).rules)
  <1>1. PICK rules : rules = MergeRules(RulesFromConfig(cfg.fallback), cfg.host, cfg.port)
    OBVIOUS
  <1>2. SUFFICES Usable(rules)
    BY <1>1 DEF TLSNewServer
  <1>3. CASE rules = RulesFromConfig(cfg.fallback)
    <2>1. Len(cfg.fallback) \in Nat
      BY ConfigsAssumption
    <2>2. PICK V : V = {cfg.fallback[i] : i \in {j \in 1 .. Len(cfg.fallback) : ValidRule(cfg.fallback[j])}}
      OBVIOUS
    <2>3. rules \in Seq(V)
      BY <1>3, <2>1, <2>2, RulesValid
    <2>4. Len(rules) \in Nat /\ DOMAIN rules = 1 .. Len(rules) /\ \A i \in DOMAIN rules : rules[i] \in V
      BY <2>3, LenProperties
    <2>5. ASSUME NEW e \in V PROVE e # NoRule
      <3>1. PICK i : e = cfg.fallback[i] /\ ValidRule(cfg.fallback[i])
        BY <2>2
      <3>2. e.addr # None
        BY <3>1 DEF ValidRule
      <3>3. NoRule.addr = None
        BY DEF NoRule
      <3>4. QED BY <3>2, <3>3
    <2>6. QED BY <2>4, <2>5 DEF Usable
  <1>4. CASE rules = RulesFromLegacy(cfg.host, cfg.port)
    <2>1. CASE rules = <<>>
      <3>1. DOMAIN rules = 1 .. 0 /\ 0 \in Nat /\ DOMAIN rules = {}
        BY <2>1, SMT
      <3>2. QED BY <3>1 DEF Usable
    <2>2. CASE rules # <<>>
      <3>1. PICK e : e = [sni |-> None, alpn |-> {}, addr |-> cfg.host, port |-> cfg.port, proxy |-> 0, default |-> TRUE]
        OBVIOUS
      <3>2. rules = <<e>>
        BY <1>4, <2>2, <3>1 DEF RulesFromLegacy
      <3>3. DOMAIN e # DOMAIN NoRule
        <4>1. "sni" \in DOMAIN e /\ "sni" \notin DOMAIN NoRule
          BY <3>1 DEF NoRule
        <4>2. QED BY <4>1
      <3>4. DOMAIN rules = 1 .. 1 /\ 1 \in Nat /\ \A i \in DOMAIN rules : rules[i] = e
        BY <3>2, SMT
      <3>5. QED BY <3>3, <3>4 DEF Usable
    <2>3. QED BY <2>1, <2>2
  <1>5. QED BY <1>1, <1>3, <1>4 DEF MergeRules

\* The rules that ask for a client, as RulesGovern has them.
Asks(rules, sni, alpn) ==
    {i \in DOMAIN rules : /\ rules[i].default => \E j \in 1 .. i - 1 : rules[j].default
                          /\ Satisfies(rules[i], sni, alpn)}
First(S) == CHOOSE i \in S : \A j \in S : i <= j

\* Match finds the first rule that asks, and without one a default rule or none.
LEMMA MatchGoverned ==
    ASSUME NEW rules, Usable(rules), NEW sni, NEW alpn
    PROVE  LET m == Match(rules, sni, alpn)
               asks == Asks(rules, sni, alpn)
           IN IF asks = {} THEN m # NoRule => m.default ELSE m = rules[First(asks)] /\ m # NoRule
  <1>1. PICK n \in Nat : DOMAIN rules = 1 .. n
    BY DEF Usable
  <1>2. PICK asks : asks = Asks(rules, sni, alpn)
    OBVIOUS
  <1>3. PICK defaults : defaults = {i \in DOMAIN rules : rules[i].default}
    OBVIOUS
  <1>4. PICK hits : hits = {i \in DOMAIN rules : /\ defaults # {} => i # First(defaults)
                                                /\ Satisfies(rules[i], sni, alpn)}
    OBVIOUS
  <1>5. Match(rules, sni, alpn) = CASE hits # {} -> rules[First(hits)]
                                    [] hits = {} /\ defaults # {} -> rules[First(defaults)]
                                    [] OTHER -> NoRule
    BY <1>3, <1>4 DEF Match, First
  <1>6. \A i \in DOMAIN rules : i \in Nat
    BY <1>1, SMT
  <1>7. defaults # {} => First(defaults) \in defaults /\ \A j \in defaults : First(defaults) <= j
    BY <1>3, <1>6, Least DEF First
  <1>8. hits = asks
    <2>1. ASSUME NEW i \in DOMAIN rules, i \in hits PROVE i \in asks
      <3>1. ASSUME rules[i].default PROVE \E j \in 1 .. i - 1 : rules[j].default
        <4>1. PICK d : d = First(defaults)
          OBVIOUS
        <4>2. d \in DOMAIN rules /\ rules[d].default /\ d # i /\ d <= i
          BY <1>3, <1>4, <1>7, <2>1, <3>1, <4>1
        <4>3. d \in 1 .. n /\ i \in 1 .. n
          BY <1>1, <4>2
        <4>4. d \in 1 .. i - 1
          BY <4>2, <4>3, SMT
        <4>5. QED BY <4>2, <4>4
      <3>2. QED BY <1>2, <1>4, <2>1, <3>1 DEF Asks
    <2>2. ASSUME NEW i \in DOMAIN rules, i \in asks PROVE i \in hits
      <3>1. ASSUME defaults # {}, i = First(defaults) PROVE FALSE
        <4>1. rules[i].default /\ \A j \in defaults : i <= j
          BY <1>3, <1>7, <3>1
        <4>2. PICK j \in 1 .. i - 1 : rules[j].default
          BY <1>2, <2>2, <4>1 DEF Asks
        <4>3. i \in 1 .. n
          BY <1>1
        <4>4. j \in 1 .. n /\ ~(i <= j)
          BY <4>3, SMT
        <4>5. j \in defaults
          BY <1>1, <1>3, <4>2, <4>4
        <4>6. QED BY <4>1, <4>4, <4>5
      <3>2. QED BY <1>2, <1>4, <2>2, <3>1 DEF Asks
    <2>3. QED BY <1>2, <1>4, <2>1, <2>2 DEF Asks
  <1>9. asks # {} => First(asks) \in asks
    BY <1>2, <1>6, Least DEF First, Asks
  <1>10. asks # {} => rules[First(asks)] # NoRule
    BY <1>2, <1>9 DEF Usable, Asks
  <1>11. QED BY <1>2, <1>3, <1>5, <1>7, <1>8, <1>10
-----------------------------------------------------------------------------
(***************************************************************************)
(* Queues: what a send and a receive do to the places of a connection.     *)
(***************************************************************************)

InQueue(s) == s.at \in Channels \/ s.sess = "queued"

\* The connection at the head of a queue is one that belongs there.
LEMMA HeadQueued ==
    ASSUME NEW cn, NEW ch \in [Channels -> Seq(Conn)], Owned(cn, ch), NEW q \in Channels, ch[q] # <<>>
    PROVE  Head(ch[q]) \in Conn /\ Queued(cn[Head(ch[q])], q)
  <1>1. PICK s \in Seq(Conn) : s = ch[q]
    OBVIOUS
  <1>2. 1 \in DOMAIN s /\ s[1] = Head(s) /\ Head(s) \in Conn
    BY <1>1, SMT
  <1>3. 1 \in Places(s, Head(s))
    BY <1>2 DEF Places
  <1>4. QED BY <1>1, <1>2, <1>3 DEF Owned

\* A connection that is in no queue before and after leaves the queues right.
LEMMA StayOwned ==
    ASSUME NEW cn, NEW ch, Owned(cn, ch), NEW c \in Conn, NEW dn,
           \A d \in Conn : d # c => dn[d] = cn[d], ~InQueue(cn[c]), ~InQueue(dn[c])
    PROVE  Owned(dn, ch)
  <1>1. \A q \in Channels : ~Queued(cn[c], q) /\ ~Queued(dn[c], q)
    BY DEF InQueue, Queued
  <1>2. QED BY <1>1 DEF Owned

\* dh is ch with c sent to q, or with the head of q received.
Sent(ch, q, c, dh) == dh = [ch EXCEPT ![q] = Append(@, c)]
Received(ch, q, c, dh) == ch[q] # <<>> /\ c = Head(ch[q]) /\ dh = [ch EXCEPT ![q] = Tail(@)]

\* Only the record of c changes from cn to dn.
Changes(cn, c, dn) == \A d \in Conn : d # c => dn[d] = cn[d]

\* A record is that of a connection in q and in no other queue, or in none but q.
QueuedIn(s, q) == \A p \in Channels : Queued(s, p) <=> p = q
QueuedAtMost(s, q) == \A p \in Channels : Queued(s, p) => p = q

\* A send.
LEMMA PutOwned ==
    ASSUME NEW cn, NEW ch \in [Channels -> Seq(Conn)], Owned(cn, ch), NEW c \in Conn, NEW dn, NEW q \in Channels, NEW dh,
           Changes(cn, c, dn), ~InQueue(cn[c]), QueuedIn(dn[c], q), Sent(ch, q, c, dh)
    PROVE  dh \in [Channels -> Seq(Conn)] /\ Owned(dn, dh)
  <1>0. (\A d \in Conn : d # c => dn[d] = cn[d]) /\ \A p \in Channels : Queued(dn[c], p) <=> p = q
    BY DEF Changes, QueuedIn
  <1>1. PICK s \in Seq(Conn) : s = ch[q]
    OBVIOUS
  <1>2. PICK t \in Seq(Conn) : t = Append(s, c)
    BY AppendProperties
  <1>3. dh[q] = t /\ \A p \in Channels : p # q => dh[p] = ch[p]
    BY <1>1, <1>2 DEF Sent
  <1>4. dh \in [Channels -> Seq(Conn)]
    BY <1>1, <1>2 DEF Sent
  <1>5. PICK n \in Nat : n = Len(s) /\ DOMAIN s = 1 .. n
    BY LenProperties
  <1>6. DOMAIN t = 1 .. (n + 1) /\ t[n + 1] = c /\ \A i \in 1 .. n : t[i] = s[i]
    BY <1>2, <1>5, SMT
  <1>7. \A i : i \in 1 .. (n + 1) <=> i \in 1 .. n \/ i = n + 1
    BY SMT
  <1>8. ~Queued(cn[c], q)
    BY DEF InQueue, Queued
  <1>9. Places(s, c) = {}
    BY <1>1, <1>8 DEF Owned
  <1>10. Places(t, c) = {n + 1}
    BY <1>5, <1>6, <1>7, <1>9 DEF Places
  <1>11. \A d \in Conn : d # c => Places(t, d) = Places(s, d)
    BY <1>5, <1>6, <1>7 DEF Places
  <1>12. ASSUME NEW d \in Conn, NEW p \in Channels
         PROVE  IF Queued(dn[d], p) THEN \E i \in Places(dh[p], d) : Places(dh[p], d) = {i} ELSE Places(dh[p], d) = {}
    <2>1. CASE d = c /\ p = q
      BY <1>0, <1>3, <1>10, <2>1
    <2>2. CASE d = c /\ p # q
      <3>1. ~Queued(cn[c], p)
        BY DEF InQueue, Queued
      <3>2. QED BY <1>0, <1>3, <2>2, <3>1 DEF Owned
    <2>3. CASE d # c /\ p = q
      <3>1. Places(dh[p], d) = Places(ch[p], d) /\ dn[d] = cn[d]
        BY <1>0, <1>1, <1>3, <1>11, <2>3
      <3>2. QED BY <3>1 DEF Owned
    <2>4. CASE d # c /\ p # q
      BY <1>0, <1>3, <2>4 DEF Owned
    <2>5. QED BY <2>1, <2>2, <2>3, <2>4
  <1>13. QED BY <1>4, <1>12 DEF Owned

\* A receive.
LEMMA TakeOwned ==
    ASSUME NEW cn, NEW ch \in [Channels -> Seq(Conn)], Owned(cn, ch), NEW c \in Conn, NEW dn, NEW q \in Channels, NEW dh,
           QueuedAtMost(cn[c], q), Changes(cn, c, dn), ~InQueue(dn[c]), Received(ch, q, c, dh)
    PROVE  dh \in [Channels -> Seq(Conn)] /\ Owned(dn, dh)
  <1>0. /\ (\A d \in Conn : d # c => dn[d] = cn[d]) /\ \A p \in Channels : Queued(cn[c], p) => p = q
        /\ ch[q] # <<>> /\ c = Head(ch[q])
    BY DEF Changes, QueuedAtMost, Received
  <1>1. PICK s \in Seq(Conn) : s = ch[q]
    OBVIOUS
  <1>2. PICK t \in Seq(Conn) : t = Tail(s)
    BY <1>0, <1>1, HeadTailProperties
  <1>3. dh[q] = t /\ \A p \in Channels : p # q => dh[p] = ch[p]
    BY <1>1, <1>2 DEF Received
  <1>4. dh \in [Channels -> Seq(Conn)]
    BY <1>1, <1>2 DEF Received
  <1>5. PICK n \in Nat : n = Len(t) /\ DOMAIN t = 1 .. n
    BY LenProperties
  <1>6. DOMAIN s = 1 .. (n + 1) /\ s[1] = c /\ \A i \in 1 .. n : t[i] = s[i + 1]
    BY <1>1, <1>2, <1>5, <1>0, SMT
  <1>7. \A i \in 1 .. n : i + 1 \in 1 .. (n + 1) /\ i + 1 # 1
    BY SMT
  <1>8. 1 \in 1 .. (n + 1)
    BY SMT
  <1>9. Queued(cn[c], q)
    BY <1>0, HeadQueued
  <1>10. Places(t, c) = {}
    <2>1. PICK i : Places(s, c) = {i}
      BY <1>1, <1>9 DEF Owned
    <2>2. 1 \in Places(s, c)
      BY <1>6, <1>8 DEF Places
    <2>3. ASSUME NEW j \in Places(t, c) PROVE FALSE
      <3>1. j \in 1 .. n /\ t[j] = c
        BY <1>5 DEF Places
      <3>2. j + 1 \in Places(s, c) /\ j + 1 # 1
        BY <1>6, <1>7, <3>1 DEF Places
      <3>3. QED BY <2>1, <2>2, <3>2
    <2>4. QED BY <2>3
  <1>11. ASSUME NEW d \in Conn, d # c PROVE
            /\ Places(s, d) = {} => Places(t, d) = {}
            /\ (\E i \in Places(s, d) : Places(s, d) = {i}) => \E i \in Places(t, d) : Places(t, d) = {i}
    <2>1. \A j \in Places(t, d) : j \in 1 .. n /\ j + 1 \in Places(s, d)
      BY <1>5, <1>6, <1>7 DEF Places
    <2>2. ASSUME NEW i \in Places(s, d), Places(s, d) = {i} PROVE \E j \in Places(t, d) : Places(t, d) = {j}
      <3>1. i \in 1 .. (n + 1) /\ s[i] = d
        BY <1>6 DEF Places
      <3>2. i # 1
        BY <1>6, <1>11, <3>1
      <3>3. i - 1 \in 1 .. n /\ (i - 1) + 1 = i
        BY <3>1, <3>2, SMT
      <3>4. t[i - 1] = d
        BY <1>6, <3>1, <3>3
      <3>5. i - 1 \in Places(t, d)
        BY <1>5, <3>3, <3>4 DEF Places
      <3>6. ASSUME NEW j \in Places(t, d) PROVE j = i - 1
        <4>1. j \in 1 .. n /\ j + 1 = i
          BY <2>1, <2>2
        <4>2. QED BY <4>1, SMT
      <3>7. QED BY <3>5, <3>6
    <2>3. QED BY <2>1, <2>2
  <1>12. ASSUME NEW d \in Conn, NEW p \in Channels
         PROVE  IF Queued(dn[d], p) THEN \E i \in Places(dh[p], d) : Places(dh[p], d) = {i} ELSE Places(dh[p], d) = {}
    <2>1. ~Queued(dn[c], p)
      BY DEF InQueue, Queued
    <2>2. CASE d = c /\ p = q
      BY <1>0, <1>3, <1>10, <2>1, <2>2
    <2>3. CASE d = c /\ p # q
      BY <1>0, <1>3, <2>1, <2>3 DEF Owned
    <2>4. CASE d # c /\ p = q
      BY <1>0, <1>1, <1>3, <1>11, <2>4 DEF Owned
    <2>5. CASE d # c /\ p # q
      BY <1>0, <1>3, <2>5 DEF Owned
    <2>6. QED BY <2>2, <2>3, <2>4, <2>5
  <1>13. QED BY <1>4, <1>12 DEF Owned
-----------------------------------------------------------------------------
(***************************************************************************)
(* From the record a handler stores to the invariant.                      *)
(***************************************************************************)

\* What Set stores.
Settled(r) == IF r.at \in Gone THEN [Fresh EXCEPT !.at = r.at, !.sess = r.sess] ELSE r

\* Set keeps the position and the session.
LEMMA SettledAt == ASSUME NEW r PROVE Settled(r).at = r.at /\ Settled(r).sess = r.sess
  BY DEF Settled, Fresh

\* The reader of a connection that nobody has touched.
LEMMA FreshReader == IsReader(NewRewindConn(Stream)) /\ Ahead(NewRewindConn(Stream)) = Stream
  <1>1. PICK b : b = NewRewindConn(Stream)
    OBVIOUS
  <1>2. /\ b.src = Stream /\ b.buf = <<>> /\ b.idx = 0 /\ b.rewound = FALSE
        /\ DOMAIN b = {"src", "buf", "idx", "rewound", "buffering", "size"}
    BY <1>1 DEF NewRewindConn
  <1>3. <<>> \in Seq(Nat) /\ 0 \in Nat
    BY SMT
  <1>4. IsReader(b)
    BY <1>2, <1>3, StreamParts DEF IsReader
  <1>5. Ahead(b) = <<>> \o Stream
    BY <1>2 DEF Ahead
  <1>6. Ahead(b) = Stream
    BY <1>5, StreamParts, ConcatEmptySeq
  <1>7. QED BY <1>1, <1>4, <1>6

\* Nothing is asked of a record that is gone but how it went.
LEMMA GoneFits ==
    ASSUME NEW r, NEW k, NEW cf, NEW x, r.at \in Gone, r.sess \in {"none", "open", "closed"},
           r.at = "lost" /\ k \in {"tls", "plain"} => x
    PROVE  Fit(Settled(r), k, cf, x)
  <1>1. PICK s : s = Settled(r)
    OBVIOUS
  <1>2. /\ Shape(s) /\ s.at = r.at /\ s.sess = r.sess /\ s.rr = NewRewindConn(Stream) /\ s.armed = FALSE
        /\ s.via = "conn" /\ s.chain = <<>>
    BY <1>1 DEF Settled, Fresh, Shape
  <1>3. ReaderFits(s)
    <2>1. IsReader(s.rr) /\ Ahead(s.rr) = Stream
      BY <1>2, FreshReader
    <2>2. s.at \notin Consumed /\ s.at \notin Peeking
      BY <1>2 DEF Gone, Consumed, Peeking
    <2>3. QED BY <1>2, <2>1, <2>2 DEF ReaderFits, Left
  <1>4. SessionFits(s)
    BY <1>2 DEF SessionFits
  <1>5. <<>> \in Seq(Links)
    BY EmptySeq
  <1>6. QED BY <1>1, <1>2, <1>3, <1>4, <1>5 DEF Fit, DeadlineFits, TreeFits, PeerFits, ChainFits, Ruled, Gone

\* A position of which the invariant asks nothing but what it asks of all.
Quiet == {"trojan", "ssRead", "wsStored", "wsLate", "wsFailed", "httpSend", "http.conn", "nextRequest", "socksSend",
          "socks.conn", "associated", "mux.conn", "header", "ssSend", "ss.conn", "ss.packet"}

\* Such a record fits once its reader does.
LEMMA QuietFits ==
    ASSUME NEW r, NEW k, NEW cf, NEW x, Shape(r), r.at \in Quiet, r.armed = FALSE, r.sess \in {"none", "closed"},
           ReaderFits(r), r.chain \in Seq(Links)
    PROVE  Fit(r, k, cf, x) /\ Settled(r) = r
  BY DEF Fit, DeadlineFits, SessionFits, TreeFits, PeerFits, ChainFits, Ruled, Quiet, Settled, Gone

\* A position has no session outside of the http loop, and no deadline outside of tls.
LEMMA Unused ==
    ASSUME NEW s, NEW k, NEW cf, NEW x, Fit(s, k, cf, x)
    PROVE  /\ s.at \notin {"reqWrite", "respRead", "respWrite"} \cup Gone => s.sess \in {"none", "closed"}
           /\ s.at \notin {"shake", "tlsSniff", "redirect"} => s.armed = FALSE
           /\ s.at # "redirect" => s.chain \in Seq(Links)
           /\ s.at \notin {"ssRead", "trojan", "redirect"} => s.via # "ws"
           /\ s.sess = "queued" => s.at = "reqWrite"
           /\ Shape(s) /\ IsReader(s.rr) /\ Ahead(s.rr) = Left(s)
  BY DEF Fit, SessionFits, DeadlineFits, ChainFits, ReaderFits

\* A layer that has the connection passes it on as it is.
LEMMA PassFits ==
    ASSUME NEW s, NEW k, NEW cf, NEW x, Fit(s, k, cf, x), NEW p, NEW r, r = [s EXCEPT !.at = p],
           p \in Quiet \ {"ssRead"}, p \in Consumed <=> s.at \in Consumed, s.via = "ws" => p = "trojan",
           s.at \notin {"reqWrite", "respRead", "respWrite", "shake", "tlsSniff", "redirect"} \cup Gone
    PROVE  Fit(r, k, cf, x) /\ Settled(r) = r
  <1>1. /\ Shape(r) /\ r.at = p /\ r.rr = s.rr /\ r.armed = FALSE /\ r.via = s.via /\ r.chain \in Seq(Links)
        /\ r.sess \in {"none", "closed"}
    <2>1. Shape(s) /\ s.armed = FALSE /\ s.chain \in Seq(Links) /\ s.sess \in {"none", "closed"}
      BY Unused
    <2>2. QED BY <2>1 DEF Shape
  <1>2. Left(r) = Left(s)
    BY <1>1 DEF Left
  <1>3. p \notin Peeking
    BY DEF Quiet, Peeking
  <1>4. ReaderFits(r)
    BY <1>1, <1>2, <1>3, Unused DEF ReaderFits
  <1>5. QED BY <1>1, <1>4, QuietFits
-----------------------------------------------------------------------------
\* A step that stores one record.
LEMMA SetStep ==
    ASSUME Inv, NEW c \in Conn, NEW r, Set(c, r), UNCHANGED <<stack, conf, ctx>>, Fit(Settled(r), stack, conf, ctx)
    PROVE  /\ DOMAIN conn' = Conn /\ conn' = [d \in Conn |-> conn'[d]]
           /\ conn'[c] = Settled(r) /\ \A d \in Conn : d # c => conn'[d] = conn[d]
           /\ \A d \in Conn : Fit(conn'[d], stack', conf', ctx')
  <1>1. conn' = [conn EXCEPT ![c] = Settled(r)]
    BY DEF Set, Settled
  <1>2. DOMAIN conn' = Conn /\ conn' = [d \in Conn |-> conn'[d]]
    BY <1>1 DEF Inv
  <1>3. conn'[c] = Settled(r) /\ \A d \in Conn : d # c => conn'[d] = conn[d]
    BY <1>1 DEF Inv
  <1>4. \A d \in Conn : Fit(conn'[d], stack', conf', ctx')
    BY <1>3 DEF Inv
  <1>5. QED BY <1>2, <1>3, <1>4

\* A handler that touches no queue.
LEMMA StayStep ==
    ASSUME Inv, NEW c \in Conn, NEW r, Set(c, r), UNCHANGED <<stack, conf, ctx, chan>>, Fit(Settled(r), stack, conf, ctx),
           ~InQueue(conn[c]), ~InQueue(r)
    PROVE  Inv'
  <1>1. ~InQueue(Settled(r))
    BY SettledAt DEF InQueue
  <1>2. conn'[c] = Settled(r) /\ \A d \in Conn : d # c => conn'[d] = conn[d]
    BY SetStep
  <1>3. Owned(conn, chan)
    BY DEF Inv
  <1>4. Owned(conn', chan)
    BY <1>1, <1>2, <1>3, StayOwned
  <1>5. QED BY <1>4, SetStep DEF Inv

\* A handler that sends to a queue.
LEMMA PutStep ==
    ASSUME Inv, NEW c \in Conn, NEW r, Set(c, r), UNCHANGED <<stack, conf, ctx>>, Fit(Settled(r), stack, conf, ctx),
           NEW q \in Channels, Sent(chan, q, c, chan'), ~InQueue(conn[c]), QueuedIn(r, q)
    PROVE  Inv'
  <1>1. QueuedIn(conn'[c], q) /\ Changes(conn, c, conn')
    <2>1. conn'[c] = Settled(r) /\ Changes(conn, c, conn')
      BY SetStep DEF Changes
    <2>2. QueuedIn(Settled(r), q)
      BY SettledAt DEF QueuedIn, Queued
    <2>3. QED BY <2>1, <2>2
  <1>2. Owned(conn, chan) /\ chan \in [Channels -> Seq(Conn)]
    BY DEF Inv
  <1>3. chan' \in [Channels -> Seq(Conn)] /\ Owned(conn', chan')
    BY <1>1, <1>2, PutOwned
  <1>4. QED BY <1>3, SetStep DEF Inv

\* Whose a connection is that a handler receives.
LEMMA TakenAt ==
    ASSUME Inv, NEW c \in Conn, NEW q \in Channels, Takes(c, q)
    PROVE  /\ conn[c].at = q \/ (q = "http.conn" /\ conn[c].sess = "queued" /\ conn[c].at = "reqWrite")
           /\ QueuedAtMost(conn[c], q)
           /\ Fit(conn[c], stack, conf, ctx)
  <1>1. Queued(conn[c], q)
    BY HeadQueued DEF Inv, Takes
  <1>2. Fit(conn[c], stack, conf, ctx)
    BY DEF Inv
  <1>3. conn[c].sess = "queued" => conn[c].at = "reqWrite"
    BY <1>2, Unused
  <1>4. "reqWrite" \notin Channels
    BY DEF Channels
  <1>5. QED BY <1>1, <1>2, <1>3, <1>4 DEF Queued, QueuedAtMost

\* A handler that receives from a queue.
LEMMA TakeStep ==
    ASSUME Inv, NEW c \in Conn, NEW r, Set(c, r), UNCHANGED <<stack, conf, ctx>>, Fit(Settled(r), stack, conf, ctx),
           NEW q \in Channels, Takes(c, q), ~InQueue(r)
    PROVE  Inv'
  <1>1. ~InQueue(conn'[c]) /\ Changes(conn, c, conn')
    <2>1. conn'[c] = Settled(r) /\ Changes(conn, c, conn')
      BY SetStep DEF Changes
    <2>2. ~InQueue(Settled(r))
      BY SettledAt DEF InQueue
    <2>3. QED BY <2>1, <2>2
  <1>2. Owned(conn, chan) /\ chan \in [Channels -> Seq(Conn)]
    BY DEF Inv
  <1>3. QueuedAtMost(conn[c], q)
    BY TakenAt
  <1>4. Received(chan, q, c, chan')
    BY DEF Received, Takes
  <1>5. chan' \in [Channels -> Seq(Conn)] /\ Owned(conn', chan')
    BY <1>1, <1>2, <1>3, <1>4, TakeOwned
  <1>6. QED BY <1>5, SetStep DEF Inv

(***************************************************************************)
(* The same by position.                                                   *)
(***************************************************************************)

\* Where a connection is, or may be, in a queue.
Waiting == Channels \cup {"reqWrite"}

\* A connection that is not waiting is in no queue, one at a queue is in that queue.
LEMMA Loose ==
    ASSUME NEW s, NEW k, NEW cf, NEW x, Fit(s, k, cf, x)
    PROVE  /\ s.at \notin Waiting => ~InQueue(s)
           /\ \A q \in Channels : s.at = q => QueuedIn(s, q)
  <1>1. s.sess = "queued" => s.at = "reqWrite"
    BY Unused
  <1>2. "reqWrite" \notin Channels
    BY DEF Channels
  <1>3. QED BY <1>1, <1>2 DEF InQueue, Queued, QueuedIn, Waiting

\* The same for the record that a handler stores.
LEMMA SettledLoose ==
    ASSUME NEW r, NEW k, NEW cf, NEW x, Fit(Settled(r), k, cf, x)
    PROVE  /\ r.at \notin Waiting => ~InQueue(r)
           /\ \A q \in Channels : r.at = q => QueuedIn(r, q)
  <1>1. PICK s : s = Settled(r)
    OBVIOUS
  <1>2. r.at = s.at /\ r.sess = s.sess
    BY <1>1, SettledAt
  <1>3. s.sess = "queued" => s.at = "reqWrite"
    BY <1>1, Unused
  <1>4. "reqWrite" \notin Channels
    BY DEF Channels
  <1>5. QED BY <1>2, <1>3, <1>4 DEF InQueue, Queued, QueuedIn, Waiting

\* The invariant, for one connection.
LEMMA FitNow == ASSUME Inv, NEW c \in Conn PROVE Fit(conn[c], stack, conf, ctx)
  BY DEF Inv

\* A handler keeps its connection to itself.
LEMMA Stays ==
    ASSUME Inv, NEW c \in Conn, NEW r, Set(c, r), UNCHANGED <<fixed, chan>>, Fit(Settled(r), stack, conf, ctx),
           conn[c].at \notin Waiting, r.at \notin Waiting
    PROVE  Inv'
  <1>1. UNCHANGED <<stack, conf, ctx, chan>>
    BY DEF fixed
  <1>2. ~InQueue(conn[c]) /\ ~InQueue(r)
    BY FitNow, Loose, SettledLoose
  <1>3. QED BY <1>1, <1>2, StayStep

\* A handler puts its connection in queue q.
LEMMA Sends ==
    ASSUME Inv, NEW c \in Conn, NEW r, Set(c, r), UNCHANGED <<stack, conf, ctx>>, Fit(Settled(r), stack, conf, ctx),
           NEW q \in Channels, Sent(chan, q, c, chan'), conn[c].at \notin Waiting, r.at = q
    PROVE  Inv'
  <1>1. ~InQueue(conn[c]) /\ QueuedIn(r, q)
    BY FitNow, Loose, SettledLoose
  <1>2. QED BY <1>1, PutStep

\* A layer takes a connection from queue q.
LEMMA Receives ==
    ASSUME Inv, NEW c \in Conn, NEW r, Set(c, r), UNCHANGED fixed, Fit(Settled(r), stack, conf, ctx),
           NEW q \in Channels, Takes(c, q), r.at \notin Waiting
    PROVE  Inv'
  <1>1. UNCHANGED <<stack, conf, ctx>>
    BY DEF fixed
  <1>2. ~InQueue(r)
    BY SettledLoose
  <1>3. QED BY <1>1, <1>2, TakeStep

\* A connection comes to an end.
LEMMA Ends ==
    ASSUME Inv, NEW c \in Conn, NEW r, Set(c, r), UNCHANGED <<stack, conf, ctx, chan>>, r.at \in Gone, r.sess = conn[c].sess,
           conn[c].at \notin Waiting, r.at = "lost" => stack = "client" \/ ctx
    PROVE  Inv'
  <1>1. conn[c].sess \in {"none", "open", "closed"}
    <2>1. conn[c].sess \in {"none", "queued", "open", "closed"} /\ (conn[c].sess = "queued" => conn[c].at = "reqWrite")
      BY FitNow DEF Fit, SessionFits
    <2>2. QED BY <2>1 DEF Waiting
  <1>2. Fit(Settled(r), stack, conf, ctx)
    BY <1>1, GoneFits
  <1>3. Gone \cap Waiting = {}
    BY DEF Gone, Waiting, Channels
  <1>4. ~InQueue(conn[c]) /\ ~InQueue(r)
    BY <1>2, <1>3, FitNow, Loose, SettledLoose
  <1>5. QED BY <1>2, <1>4, StayStep

\* The same for a handler that only moves the connection.
LEMMA GotoEnds ==
    ASSUME Inv, NEW c \in Conn, NEW p \in Gone, Goto(c, p), UNCHANGED <<fixed, chan>>,
           conn[c].at \notin Waiting, p = "lost" => stack = "client" \/ ctx
    PROVE  Inv'
  <1>1. PICK r : r = [conn[c] EXCEPT !.at = p]
    OBVIOUS
  <1>2. r.at = p /\ r.sess = conn[c].sess
    <2>1. Shape(conn[c])
      BY FitNow, Unused
    <2>2. QED BY <1>1, <2>1 DEF Shape
  <1>3. Set(c, r)
    BY <1>1 DEF Goto
  <1>4. UNCHANGED <<stack, conf, ctx, chan>>
    BY DEF fixed
  <1>5. QED BY <1>2, <1>3, <1>4, Ends

\* offer, and the select of the mux session.
LEMMA Offers ==
    ASSUME Inv, NEW c \in Conn, NEW s, NEW q \in Channels, OfferOrClose(c, s, q), UNCHANGED <<stack, conf, ctx>>,
           conn[c].at \notin Waiting, Shape(s), s.sess = conn[c].sess,
           Fit([s EXCEPT !.at = q], stack, conf, ctx)
    PROVE  Inv'
  <1>1. CASE chan' = [chan EXCEPT ![q] = Append(@, c)] /\ Set(c, [s EXCEPT !.at = q])
    <2>1. PICK r : r = [s EXCEPT !.at = q]
      OBVIOUS
    <2>2. r.at = q
      BY <2>1 DEF Shape
    <2>3. Settled(r) = r
      BY <2>2 DEF Settled, Gone, Channels
    <2>4. Sent(chan, q, c, chan')
      BY <1>1 DEF Sent
    <2>5. QED BY <1>1, <2>1, <2>2, <2>3, <2>4, Sends
  <1>2. CASE Set(c, [s EXCEPT !.at = "closed"]) /\ UNCHANGED chan
    <2>1. PICK r : r = [s EXCEPT !.at = "closed"]
      OBVIOUS
    <2>2. r.at = "closed" /\ r.sess = conn[c].sess
      BY <2>1 DEF Shape
    <2>3. r.at \in Gone /\ r.at # "lost"
      BY <2>2 DEF Gone
    <2>4. QED BY <1>2, <2>1, <2>2, <2>3, Ends
  <1>3. QED BY <1>1, <1>2 DEF OfferOrClose

\* The readers of a record whose position lets it be peeked at, wrapped or read.
LEMMA LeftParts == ASSUME NEW s PROVE Left(s) \in Seq(Nat)
  BY StreamParts DEF Left

\* Peeking at a connection consumes nothing of it.
LEMMA Peeks ==
    ASSUME NEW s, NEW k, NEW cf, NEW x, Fit(s, k, cf, x), s.at \in Peeking, NEW m \in Nat
    PROVE  IsReader(Peeked(s.rr, m)) /\ Ahead(Peeked(s.rr, m)) = Left(s)
  <1>1. PICK n \in Nat : s.rr = Buffer(Left(s), n)
    BY DEF Fit, ReaderFits
  <1>2. QED BY <1>1, LeftParts, PeekedAhead

\* A new reader around a connection delivers what the old one had left.
LEMMA Wraps ==
    ASSUME NEW s, NEW k, NEW cf, NEW x, Fit(s, k, cf, x), NEW n \in Nat, NEW w, w = Wrapped(s, n)
    PROVE  /\ w = [s EXCEPT !.rr = Buffer(Left(s), n)]
           /\ IsReader(Buffer(Left(s), n)) /\ Ahead(Buffer(Left(s), n)) = Left(s)
  <1>1. Ahead(s.rr) = Left(s)
    BY Unused
  <1>2. w = [s EXCEPT !.rr = Buffer(Left(s), n)]
    BY <1>1 DEF Wrapped, Buffer
  <1>3. PICK b : b = Buffer(Left(s), n)
    OBVIOUS
  <1>4. IsReader(b) /\ Ahead(b) = Left(s)
    BY <1>3, LeftParts, BufferAhead, ZenonT(30)
  <1>5. QED BY <1>2, <1>3, <1>4

\* Reading the header leaves what follows it.
LEMMA Reads ==
    ASSUME NEW s, NEW k, NEW cf, NEW x, Fit(s, k, cf, x), Left(s) = Stream
    PROVE  IsReader(Read(s.rr, 1)) /\ Ahead(Read(s.rr, 1)) = Tail(Stream)
  BY Unused, ReadOne, StreamParts

\* A wrapper carries no rule.
LEMMA WrapperLinks ==
    \A n \in {"tcp", "rewind", "transport", "tls", "websocket", "shadowsocks"} : Wrapper(n) \in Links
  BY DEF Wrapper, Links

\* One wrapper around a chain,
LEMMA OneLink ==
    ASSUME NEW l \in Links, NEW ch \in Seq(Links)
    PROVE  <<l>> \o ch \in Seq(Links) /\ <<l>> \o ch # <<>> /\ (<<l>> \o ch)[1] = l
  BY SMT

\* two,
LEMMA TwoLinks ==
    ASSUME NEW l \in Links, NEW m \in Links, NEW ch \in Seq(Links)
    PROVE  <<l, m>> \o ch \in Seq(Links) /\ <<l, m>> \o ch # <<>>
  BY SMT

\* and three.
LEMMA ThreeLinks ==
    ASSUME NEW l \in Links, NEW m \in Links, NEW n \in Links, NEW ch \in Seq(Links)
    PROVE  <<l, m, n>> \o ch \in Seq(Links) /\ <<l, m, n>> \o ch # <<>>
  BY SMT

\* The chains that the handlers build.
Chained(ch) == ch \in Seq(Links) /\ ch # <<>>

\* They are chains of wrappers.
LEMMA Chains ==
    ASSUME NEW ch \in Seq(Links)
    PROVE  /\ Chained(<<Wrapper("transport")>> \o ch)
           /\ Chained(<<Wrapper("rewind")>> \o ch)
           /\ Chained(<<Wrapper("websocket")>> \o ch)
           /\ Chained(<<Wrapper("shadowsocks")>> \o ch)
           /\ Chained(<<Wrapper("transport"), Wrapper("rewind")>> \o ch)
           /\ Chained(<<Wrapper("rewind"), Wrapper("tls"), Wrapper("rewind")>> \o ch)
  <1>1. PICK tr \in Links, re \in Links, ws \in Links, ss \in Links, tl \in Links :
          /\ tr = Wrapper("transport") /\ re = Wrapper("rewind") /\ ws = Wrapper("websocket")
          /\ ss = Wrapper("shadowsocks") /\ tl = Wrapper("tls")
    BY WrapperLinks
  <1>2. Chained(<<tr>> \o ch) /\ Chained(<<re>> \o ch) /\ Chained(<<ws>> \o ch) /\ Chained(<<ss>> \o ch)
    BY OneLink DEF Chained
  <1>3. Chained(<<tr, re>> \o ch) /\ Chained(<<re, tl, re>> \o ch)
    BY TwoLinks, ThreeLinks DEF Chained
  <1>4. QED BY <1>1, <1>2, <1>3
-----------------------------------------------------------------------------
(***************************************************************************)
(* transport                                                               *)
(***************************************************************************)

\* The reader of a record whose layer has put a new wrapper around it.
LEMMA WrappedReader ==
    ASSUME NEW s, NEW r, NEW n \in Nat, r.rr = Buffer(Left(s), n), Left(r) = Left(s),
           r.via = "ws" => r.at \in {"ssRead", "trojan", "redirect"}
    PROVE  ReaderFits(r)
  <1>1. PICK b : b = Buffer(Left(s), n)
    OBVIOUS
  <1>2. IsReader(b) /\ Ahead(b) = Left(s)
    BY <1>1, LeftParts, BufferAhead, ZenonT(30)
  <1>3. QED BY <1>1, <1>2 DEF ReaderFits

\* TransportAccept: the transport server accepts a connection.
LEMMA TransportAcceptInv == ASSUME Inv, NEW c \in Conn, TransportAccept(c) PROVE Inv'
  <1>1. PICK s : s = conn[c] /\ s.at = "new" /\ Fit(s, stack, conf, ctx)
    BY FitNow DEF TransportAccept, At
  <1>2. PICK p, r : r = [s EXCEPT !.at = "tcp", !.peer = p, !.chain = <<Wrapper("tcp")>>] /\ Set(c, r)
    BY <1>1 DEF TransportAccept
  <1>3. /\ Shape(s) /\ s.armed = FALSE /\ s.sess \in {"none", "closed"} /\ s.via # "ws"
        /\ IsReader(s.rr) /\ Ahead(s.rr) = Left(s)
    BY <1>1, Unused DEF Gone
  <1>4. /\ Shape(r) /\ r.at = "tcp" /\ r.chain = <<Wrapper("tcp")>> /\ r.armed = FALSE /\ r.sess \in {"none", "closed"}
        /\ r.via # "ws" /\ r.rr = s.rr
    BY <1>2, <1>3 DEF Shape
  <1>5. ReaderFits(r)
    BY <1>1, <1>3, <1>4 DEF ReaderFits, Left, Consumed, Peeking
  <1>6. r.chain \in Seq(Links) /\ r.chain # <<>>
    <2>1. PICK l \in Links : l = Wrapper("tcp")
      BY WrapperLinks
    <2>2. <<l>> \in Seq(Links) /\ <<l>> # <<>>
      BY SMT
    <2>3. QED BY <1>4, <2>1, <2>2
  <1>7. Fit(r, stack, conf, ctx) /\ Settled(r) = r
    BY <1>4, <1>5, <1>6
       DEF Fit, DeadlineFits, SessionFits, TreeFits, PeerFits, ChainFits, Ruled, Settled, Gone
  <1>8. conn[c].at \notin Waiting /\ r.at \notin Waiting
    BY <1>1, <1>4 DEF Waiting, Channels
  <1>9. UNCHANGED <<fixed, chan>>
    BY DEF TransportAccept
  <1>10. QED BY <1>2, <1>7, <1>8, <1>9, Stays

\* TransportDispatch: its goroutine looks for an overlay that takes HTTP.
LEMMA TransportDispatchInv == ASSUME Inv, NEW c \in Conn, TransportDispatch(c) PROVE Inv'
  <1>1. PICK s : s = conn[c] /\ s.at = "tcp" /\ Fit(s, stack, conf, ctx)
    BY FitNow DEF TransportDispatch, At
  <1>2. /\ Shape(s) /\ s.armed = FALSE /\ s.sess \in {"none", "closed"} /\ s.via # "ws"
        /\ IsReader(s.rr) /\ Ahead(s.rr) = Left(s) /\ s.chain \in Seq(Links)
    BY <1>1, Unused DEF Gone
  <1>3. s.chain # <<>>
    BY <1>1 DEF Fit, ChainFits
  <1>4. conn[c].at \notin Waiting
    BY <1>1 DEF Waiting, Channels
  <1>5. CASE "transport" \in next
    <2>1. PICK n \in Nat : n = 512
      BY SMT
    <2>2. PICK r : r = [Wrapped(s, n) EXCEPT !.at = "sniff"] /\ Set(c, r)
      BY <1>1, <1>5, <2>1 DEF TransportDispatch
    <2>3. r = [[s EXCEPT !.rr = Buffer(Left(s), n)] EXCEPT !.at = "sniff"]
      BY <1>1, <2>2, Wraps
    <2>4. /\ Shape(r) /\ r.at = "sniff" /\ r.chain = s.chain /\ r.armed = FALSE /\ r.sess \in {"none", "closed"}
          /\ r.via # "ws" /\ r.rr = Buffer(Left(s), n)
      BY <1>2, <2>3 DEF Shape
    <2>5. Left(r) = Left(s)
      BY <1>1, <1>2, <2>4 DEF Left, Consumed
    <2>6. ReaderFits(r)
      BY <2>4, <2>5, WrappedReader
    <2>7. Fit(r, stack, conf, ctx) /\ Settled(r) = r
      BY <1>2, <1>3, <2>4, <2>6
         DEF Fit, DeadlineFits, SessionFits, TreeFits, PeerFits, ChainFits, Ruled, Settled, Gone
    <2>8. r.at \notin Waiting
      BY <2>4 DEF Waiting, Channels
    <2>9. UNCHANGED <<fixed, chan>>
      BY <1>5 DEF TransportDispatch
    <2>10. QED BY <1>4, <2>2, <2>7, <2>8, <2>9, Stays
  <1>6. CASE "transport" \notin next
    <2>1. PICK t : t = [s EXCEPT !.chain = <<Wrapper("transport")>> \o @] /\ OfferOrClose(c, t, "transport.conn")
      BY <1>1, <1>6 DEF TransportDispatch
    <2>2. PICK r : r = [t EXCEPT !.at = "transport.conn"]
      OBVIOUS
    <2>3. /\ Shape(t) /\ t.chain = <<Wrapper("transport")>> \o s.chain /\ t.armed = FALSE /\ t.sess = s.sess
          /\ t.via = s.via /\ t.rr = s.rr
      BY <1>2, <2>1 DEF Shape
    <2>4. /\ Shape(r) /\ r.at = "transport.conn" /\ r.chain = t.chain /\ r.armed = FALSE /\ r.sess \in {"none", "closed"}
          /\ r.via # "ws" /\ r.rr = s.rr
      BY <1>2, <2>2, <2>3 DEF Shape
    <2>5. ReaderFits(r)
      BY <1>1, <1>2, <2>4 DEF ReaderFits, Left, Consumed, Peeking
    <2>6. r.chain \in Seq(Links) /\ r.chain # <<>>
      BY <1>2, <2>3, <2>4, Chains, ZenonT(30) DEF Chained
    <2>7. Fit(r, stack, conf, ctx)
      BY <2>4, <2>5, <2>6 DEF Fit, DeadlineFits, SessionFits, TreeFits, PeerFits, ChainFits, Ruled
    <2>8. "transport.conn" \in Channels /\ UNCHANGED <<stack, conf, ctx>>
      BY DEF Channels, TransportDispatch, fixed
    <2>9. QED BY <1>1, <1>4, <2>1, <2>2, <2>3, <2>7, <2>8, Offers
  <1>7. QED BY <1>5, <1>6

\* TransportSniff: the first bytes are or are not an HTTP request.
LEMMA TransportSniffInv == ASSUME Inv, NEW c \in Conn, TransportSniff(c) PROVE Inv'
  <1>1. PICK s : s = conn[c] /\ s.at = "sniff" /\ Fit(s, stack, conf, ctx)
    BY FitNow DEF TransportSniff, At
  <1>2. /\ Shape(s) /\ s.armed = FALSE /\ s.sess \in {"none", "closed"} /\ s.via # "ws" /\ s.chain \in Seq(Links)
    BY <1>1, Unused DEF Gone
  <1>3. PICK n \in 0 .. 2, cut \in BOOLEAN, q \in {"transport.ws", "transport.conn"} :
          /\ OfferOrClose(c, [s EXCEPT !.rr = Peeked(@, n), !.cut = cut,
                                       !.chain = <<Wrapper("transport"), Wrapper("rewind")>> \o @], q)
          /\ q = IF s.peer.app \in {"ws", "http"} /\ ~cut THEN "transport.ws" ELSE "transport.conn"
    BY <1>1 DEF TransportSniff, IsHTTP
  <1>4. PICK t : t = [s EXCEPT !.rr = Peeked(@, n), !.cut = cut,
                               !.chain = <<Wrapper("transport"), Wrapper("rewind")>> \o @]
    OBVIOUS
  <1>5. PICK r : r = [t EXCEPT !.at = q]
    OBVIOUS
  <1>6. /\ Shape(t) /\ t.chain = <<Wrapper("transport"), Wrapper("rewind")>> \o s.chain /\ t.armed = FALSE
        /\ t.sess = s.sess /\ t.via = s.via /\ t.rr = Peeked(s.rr, n) /\ t.cut = cut /\ t.peer = s.peer
    BY <1>2, <1>4 DEF Shape
  <1>7. /\ Shape(r) /\ r.at = q /\ r.chain = t.chain /\ r.armed = FALSE /\ r.sess \in {"none", "closed"}
        /\ r.via # "ws" /\ r.rr = Peeked(s.rr, n) /\ r.cut = cut /\ r.peer = s.peer
    BY <1>2, <1>5, <1>6 DEF Shape
  <1>8. n \in Nat
    BY SMT
  <1>9. IsReader(r.rr) /\ Ahead(r.rr) = Left(s)
    <2>1. s.at \in Peeking
      BY <1>1 DEF Peeking
    <2>2. QED BY <1>1, <1>7, <1>8, <2>1, Peeks
  <1>10. ReaderFits(r)
    BY <1>1, <1>2, <1>3, <1>7, <1>9 DEF ReaderFits, Left, Consumed, Peeking
  <1>11. r.chain \in Seq(Links) /\ r.chain # <<>>
    BY <1>2, <1>6, <1>7, Chains, ZenonT(30) DEF Chained
  <1>12. Fit(r, stack, conf, ctx)
    BY <1>3, <1>7, <1>10, <1>11 DEF Fit, DeadlineFits, SessionFits, TreeFits, PeerFits, ChainFits, Ruled
  <1>13. q \in Channels /\ UNCHANGED <<stack, conf, ctx>> /\ conn[c].at \notin Waiting
    BY <1>1, <1>3 DEF Channels, TransportSniff, fixed, Waiting
  <1>14. QED BY <1>1, <1>3, <1>4, <1>5, <1>6, <1>12, <1>13, Offers
-----------------------------------------------------------------------------
(***************************************************************************)
(* tls                                                                     *)
(***************************************************************************)

\* TLSTake: the tls server takes a connection and arms its deadline.
LEMMA TLSTakeInv == ASSUME Inv, NEW c \in Conn, TLSTake(c) PROVE Inv'
  <1>1. "transport.conn" \in Channels /\ "transport.conn" # "http.conn"
    BY DEF Channels
  <1>2. Takes(c, "transport.conn") /\ UNCHANGED fixed
    BY SMT DEF TLSTake
  <1>3. PICK s : s = conn[c] /\ s.at = "transport.conn" /\ Fit(s, stack, conf, ctx)
    BY <1>1, <1>2, TakenAt
  <1>4. /\ Shape(s) /\ s.sess \in {"none", "closed"} /\ s.via # "ws" /\ s.chain \in Seq(Links)
    BY <1>3, Unused DEF Gone
  <1>5. s.chain # <<>>
    BY <1>3 DEF Fit, ChainFits
  <1>6. PICK n \in Nat : n = 2048
    BY SMT
  <1>7. PICK r : r = [Wrapped(s, n) EXCEPT !.at = "shake", !.armed = conf.timed] /\ Set(c, r)
    <2>1. Set(c, [Wrapped(s, n) EXCEPT !.at = "shake", !.armed = conf.timed])
      BY <1>3, <1>6, SMT DEF TLSTake
    <2>2. QED BY <2>1
  <1>8. r = [[s EXCEPT !.rr = Buffer(Left(s), n)] EXCEPT !.at = "shake", !.armed = conf.timed]
    <2>1. Wrapped(s, n) = [s EXCEPT !.rr = Buffer(Left(s), n)]
      BY <1>3, Wraps
    <2>2. QED BY <1>7, <2>1
  <1>9. /\ Shape(r) /\ r.at = "shake" /\ r.chain = s.chain /\ r.sess \in {"none", "closed"}
        /\ r.via # "ws" /\ r.rr = Buffer(Left(s), n)
    BY <1>4, <1>8 DEF Shape
  <1>10. Left(r) = Left(s)
    BY <1>3, <1>4, <1>9 DEF Left, Consumed
  <1>11. ReaderFits(r)
    BY <1>9, <1>10, WrappedReader
  <1>12. Fit(r, stack, conf, ctx) /\ Settled(r) = r
    BY <1>4, <1>5, <1>9, <1>11
       DEF Fit, DeadlineFits, SessionFits, TreeFits, PeerFits, ChainFits, Ruled, Settled, Gone
  <1>13. r.at \notin Waiting
    BY <1>9 DEF Waiting, Channels
  <1>14. QED BY <1>1, <1>2, <1>7, <1>12, <1>13, Receives

\* The first link of a chain is the one put around it last.
LEMMA FrontOf == ASSUME NEW l, NEW ch \in Seq(Links) PROVE (<<l>> \o ch)[1] = l
  BY SMT

\* No wrapper is a rule.
LEMMA HeadLink == ASSUME NEW ch \in Seq(Links), ch # <<>> PROVE ch[1].name # "rule"
  <1>1. ch[1] \in Links
    BY SMT
  <1>2. QED BY <1>1 DEF Links

\* The names that the client hello of peer p gave, and the rule that they ask for.
Named(p, sni, alpn) ==
    /\ sni = IF p.proto = "tls" THEN p.sni ELSE None
    /\ alpn = IF p.proto = "tls" THEN p.alpn ELSE None
Governed(rule, rules, sni, alpn) ==
    LET asks == Asks(rules, sni, alpn) IN
    IF asks = {} THEN rule.default ELSE rule = rules[First(asks)]

\* A connection that such a rule redirects.
LEMMA RuledBy ==
    ASSUME NEW r, NEW k, NEW cf, NEW sni, NEW alpn, Named(r.peer, sni, alpn), r.chain[1].name = "rule",
           Governed(r.chain[1].rule, cf.rules, sni, alpn)
    PROVE  Ruled(r, k, cf)
  BY DEF Ruled, Asks, First, Named, Governed

\* What dispatchFallback makes of a connection that was given back.
LEMMA FallbackFits ==
    ASSUME Usable(conf.rules), NEW k, NEW x, NEW s, Shape(s), IsReader(s.rr), Ahead(s.rr) = Stream, s.via # "ws",
           s.armed # FALSE => s.peer.proto = "plain", s.sess \in {"none", "closed"}, Chained(s.chain),
           NEW sni, NEW alpn,
           sni = IF s.peer.proto = "tls" THEN s.peer.sni ELSE None,
           alpn = IF s.peer.proto = "tls" THEN s.peer.alpn ELSE None,
           NEW r, r = DispatchFallback(s, sni, alpn)
    PROVE  Fit(Settled(r), k, conf, x) /\ r.at \notin Waiting
  <1>1. PICK m : m = Match(conf.rules, sni, alpn)
    OBVIOUS
  <1>2. PICK asks : asks = Asks(conf.rules, sni, alpn)
    OBVIOUS
  <1>3. IF asks = {} THEN m # NoRule => m.default ELSE m = conf.rules[First(asks)] /\ m # NoRule
    BY <1>1, <1>2, MatchGoverned, ZenonT(30)
  <1>4. \A q \in {"redirect", "closed"} : q \notin Waiting
    BY DEF Waiting, Channels
  <1>5. ASSUME r.at = "redirect", Shape(r), r.rr = s.rr, r.via = s.via, r.armed = s.armed, r.peer = s.peer,
               r.sess = s.sess, Ruled(r, k, conf)
        PROVE  Fit(Settled(r), k, conf, x) /\ r.at \notin Waiting
    <2>1. ReaderFits(r)
      BY <1>5 DEF ReaderFits, Left, Consumed, Peeking
    <2>2. Fit(r, k, conf, x) /\ Settled(r) = r
      BY <1>5, <2>1 DEF Fit, DeadlineFits, SessionFits, TreeFits, PeerFits, ChainFits, Settled, Gone
    <2>3. QED BY <1>4, <1>5, <2>2
  <1>6. CASE m # NoRule
    <2>1. PICK l : l = [name |-> "rule", rule |-> m]
      OBVIOUS
    <2>2. PICK to : to = [addr |-> m.addr, port |-> m.port]
      OBVIOUS
    <2>3. PICK t : t = [s EXCEPT !.chain = <<l>> \o @]
      OBVIOUS
    <2>4. r = [t EXCEPT !.at = "redirect", !.target = to]
      BY <1>1, <1>6, <2>1, <2>2, <2>3 DEF DispatchFallback, Redirected
    <2>5. /\ Shape(t) /\ t.rr = s.rr /\ t.via = s.via /\ t.armed = s.armed /\ t.peer = s.peer /\ t.sess = s.sess
          /\ t.chain = <<l>> \o s.chain
      BY <2>3 DEF Shape
    <2>6. /\ Shape(r) /\ r.rr = s.rr /\ r.via = s.via /\ r.armed = s.armed /\ r.peer = s.peer /\ r.sess = s.sess
          /\ r.chain = <<l>> \o s.chain /\ r.at = "redirect"
      BY <2>4, <2>5 DEF Shape
    <2>7. r.chain[1] = l
      <3>1. (<<l>> \o s.chain)[1] = l
        BY FrontOf DEF Chained
      <3>2. QED BY <2>6, <3>1
    <2>8. r.chain[1].name = "rule" /\ r.chain[1].rule = m
      <3>1. l.name = "rule" /\ l.rule = m
        BY <2>1
      <3>2. QED BY <2>7, <3>1
    <2>9. Ruled(r, k, conf)
      <3>1. Governed(r.chain[1].rule, conf.rules, sni, alpn)
        BY <1>2, <1>3, <1>6, <2>8 DEF Governed
      <3>2. Named(r.peer, sni, alpn)
        BY <2>6 DEF Named
      <3>3. r.chain[1].name = "rule"
        BY <2>8
      <3>4. QED BY <3>1, <3>2, <3>3, RuledBy
    <2>10. QED BY <1>5, <2>6, <2>9
  <1>7. CASE m = NoRule /\ conf.addr # NoRule
    <2>1. r = [s EXCEPT !.at = "redirect", !.target = conf.addr]
      BY <1>1, <1>7 DEF DispatchFallback, Redirected
    <2>2. /\ Shape(r) /\ r.rr = s.rr /\ r.via = s.via /\ r.armed = s.armed /\ r.peer = s.peer /\ r.sess = s.sess
          /\ r.chain = s.chain /\ r.at = "redirect" /\ r.target = conf.addr
      BY <2>1 DEF Shape
    <2>3. r.chain[1].name # "rule"
      BY <2>2, HeadLink DEF Chained
    <2>4. Ruled(r, k, conf)
      BY <1>2, <1>3, <1>7, <2>2, <2>3 DEF Ruled, Asks
    <2>5. QED BY <1>5, <2>2, <2>4
  <1>8. CASE m = NoRule /\ conf.addr = NoRule
    <2>1. r = [s EXCEPT !.at = "closed"]
      BY <1>1, <1>8 DEF DispatchFallback
    <2>2. r.at = "closed" /\ r.sess = s.sess
      BY <2>1 DEF Shape
    <2>3. Fit(Settled(r), k, conf, x)
      <3>1. r.at \in Gone /\ r.at # "lost" /\ r.sess \in {"none", "open", "closed"}
        BY <2>2 DEF Gone
      <3>2. QED BY <3>1, GoneFits
    <2>4. QED BY <1>4, <2>2, <2>3
  <1>9. QED BY <1>6, <1>7, <1>8

\* TLSHandshake: what is not TLS falls back; a finished handshake gets a new deadline.
LEMMA TLSHandshakeInv == ASSUME Inv, NEW c \in Conn, TLSHandshake(c) PROVE Inv'
  <1>1. PICK s : s = conn[c] /\ s.at = "shake" /\ Fit(s, stack, conf, ctx)
    BY FitNow DEF TLSHandshake, At
  <1>2. UNCHANGED <<fixed, chan>> /\ conn[c].at \notin Waiting
    BY <1>1 DEF TLSHandshake, Waiting, Channels
  <1>3. UNCHANGED <<stack, conf, ctx, chan>>
    BY <1>2 DEF fixed
  <1>4. /\ Shape(s) /\ s.sess \in {"none", "closed"} /\ s.via # "ws" /\ s.chain \in Seq(Links)
    BY <1>1, Unused DEF Gone
  <1>5. ASSUME NEW p \in {"answered", "closed"}, Set(c, [s EXCEPT !.at = p]) PROVE Inv'
    <2>1. PICK r : r = [s EXCEPT !.at = p]
      OBVIOUS
    <2>2. r.at = p /\ r.sess = s.sess
      BY <1>4, <2>1 DEF Shape
    <2>3. r.at \in Gone /\ r.at # "lost"
      BY <2>2 DEF Gone
    <2>4. QED BY <1>1, <1>2, <1>3, <1>5, <2>1, <2>2, <2>3, Ends
  <1>6. ASSUME s.peer.proto = "plain",
               Set(c, DispatchFallback([s EXCEPT !.rr = Peeked(@, 1), !.chain = <<Wrapper("rewind")>> \o @], None, None))
        PROVE  Inv'
    <2>1. PICK t : t = [s EXCEPT !.rr = Peeked(@, 1), !.chain = <<Wrapper("rewind")>> \o @]
      OBVIOUS
    <2>2. PICK r : r = DispatchFallback(t, None, None)
      OBVIOUS
    <2>3. /\ Shape(t) /\ t.rr = Peeked(s.rr, 1) /\ t.via # "ws" /\ t.peer = s.peer /\ t.sess = s.sess
          /\ t.chain = <<Wrapper("rewind")>> \o s.chain
      BY <1>4, <2>1 DEF Shape
    <2>4. 1 \in Nat /\ s.at \in Peeking
      BY <1>1, SMT DEF Peeking
    <2>5. IsReader(t.rr) /\ Ahead(t.rr) = Stream
      BY <1>1, <1>4, <2>3, <2>4, Peeks DEF Left, Consumed
    <2>6. Chained(t.chain)
      BY <1>4, <2>3, Chains
    <2>7. Usable(conf.rules)
      BY DEF Inv
    <2>8. Fit(Settled(r), stack, conf, ctx) /\ r.at \notin Waiting
      BY <1>4, <1>6, <2>2, <2>3, <2>5, <2>6, <2>7, FallbackFits
    <2>9. QED BY <1>2, <1>6, <2>1, <2>2, <2>8, Stays
  <1>7. ASSUME s.peer.proto = "tls",
               Set(c, [s EXCEPT !.rr = SetBufferSize(NewRewindConn(Stream), 1024), !.armed = conf.timed, !.at = "tlsSniff",
                                !.chain = <<Wrapper("rewind"), Wrapper("tls"), Wrapper("rewind")>> \o @])
        PROVE  Inv'
    <2>1. PICK n \in Nat : n = 1024
      BY SMT
    <2>2. PICK r : /\ Set(c, r)
                   /\ r = [s EXCEPT !.rr = SetBufferSize(NewRewindConn(Stream), n), !.armed = conf.timed, !.at = "tlsSniff",
                                    !.chain = <<Wrapper("rewind"), Wrapper("tls"), Wrapper("rewind")>> \o @]
      BY <1>7, <2>1, ZenonT(60)
    <2>3. /\ Shape(r) /\ r.rr = Buffer(Stream, n) /\ r.via # "ws" /\ r.peer = s.peer /\ r.sess = s.sess
          /\ r.chain = <<Wrapper("rewind"), Wrapper("tls"), Wrapper("rewind")>> \o s.chain /\ r.at = "tlsSniff"
      BY <1>4, <2>2 DEF Shape, Buffer
    <2>4. Left(s) = Stream /\ Left(r) = Stream
      BY <1>1, <1>4, <2>3 DEF Left, Consumed
    <2>5. ReaderFits(r)
      BY <2>3, <2>4, WrappedReader
    <2>6. Chained(r.chain)
      BY <1>4, <2>3, Chains
    <2>7. Fit(r, stack, conf, ctx) /\ Settled(r) = r
      BY <1>4, <1>7, <2>3, <2>5, <2>6
         DEF Chained, Fit, DeadlineFits, SessionFits, TreeFits, PeerFits, ChainFits, Ruled, Settled, Gone
    <2>8. r.at \notin Waiting
      BY <2>3 DEF Waiting, Channels
    <2>9. QED BY <1>2, <2>2, <2>7, <2>8, Stays
  <1>8. CASE Set(c, [s EXCEPT !.at = IF conf.resp THEN "answered" ELSE "closed"])
    <2>1. PICK p \in {"answered", "closed"} : p = IF conf.resp THEN "answered" ELSE "closed"
      OBVIOUS
    <2>2. QED BY <1>5, <1>8, <2>1
  <1>9. CASE Set(c, [s EXCEPT !.at = "closed"])
    BY <1>5, <1>9
  <1>10. QED BY <1>1, <1>6, <1>7, <1>8, <1>9, ZenonT(60) DEF TLSHandshake

\* TLSSniff: tls looks for an HTTP request and hands the connection on.
LEMMA TLSSniffInv ==
    ASSUME Inv, NEW c \in Conn, NEW n \in Nat, NEW cut \in BOOLEAN, TLSSniff(c, n, cut) PROVE Inv'
  <1>1. PICK s : s = conn[c] /\ s.at = "tlsSniff" /\ Fit(s, stack, conf, ctx)
    BY FitNow DEF TLSSniff, At
  <1>2. UNCHANGED fixed /\ UNCHANGED <<stack, conf, ctx>> /\ conn[c].at \notin Waiting
    BY <1>1 DEF TLSSniff, fixed, Waiting, Channels
  <1>3. /\ Shape(s) /\ s.sess \in {"none", "closed"} /\ s.via # "ws" /\ s.chain \in Seq(Links)
    BY <1>1, Unused DEF Gone
  <1>4. s.peer.proto = "tls" /\ s.chain # <<>>
    BY <1>1 DEF Fit, PeerFits, ChainFits
  <1>5. PICK t : t = [s EXCEPT !.rr = Peeked(@, n), !.cut = cut, !.armed = FALSE]
    OBVIOUS
  <1>6. PICK o : o = [t EXCEPT !.chain = <<Wrapper("transport")>> \o @]
    OBVIOUS
  <1>7. /\ Shape(t) /\ t.rr = Peeked(s.rr, n) /\ t.cut = cut /\ t.armed = FALSE /\ t.via # "ws" /\ t.peer = s.peer
        /\ t.sess = s.sess /\ t.chain = s.chain
    BY <1>3, <1>5 DEF Shape
  <1>8. /\ Shape(o) /\ o.rr = t.rr /\ o.cut = cut /\ o.armed = FALSE /\ o.via # "ws" /\ o.peer = s.peer
        /\ o.sess = s.sess /\ o.chain = <<Wrapper("transport")>> \o s.chain
    BY <1>6, <1>7 DEF Shape
  <1>9. IsReader(t.rr) /\ Ahead(t.rr) = Stream
    <2>1. s.at \in Peeking /\ Left(s) = Stream
      BY <1>1, <1>3 DEF Peeking, Left, Consumed
    <2>2. QED BY <1>1, <1>7, <2>1, Peeks
  <1>10. ASSUME NEW q \in {"tls.conn", "tls.ws"}, OfferOrClose(c, o, q),
                q = "tls.ws" <=> s.peer.app \in {"ws", "http"} /\ ~cut
         PROVE  Inv'
    <2>1. PICK r : r = [o EXCEPT !.at = q]
      OBVIOUS
    <2>2. /\ Shape(r) /\ r.at = q /\ r.rr = t.rr /\ r.cut = cut /\ r.armed = FALSE /\ r.via # "ws" /\ r.peer = s.peer
          /\ r.sess = s.sess /\ r.chain = o.chain
      BY <1>8, <2>1 DEF Shape
    <2>3. ReaderFits(r)
      BY <1>9, <1>10, <2>2 DEF ReaderFits, Left, Consumed, Peeking
    <2>4. r.chain \in Seq(Links)
      BY <1>3, <1>8, <2>2, Chains DEF Chained
    <2>5. DeadlineFits(r) /\ SessionFits(r) /\ TreeFits(r, stack, ctx) /\ ChainFits(r) /\ Ruled(r, stack, conf)
      BY <1>3, <1>10, <2>2, <2>4 DEF DeadlineFits, SessionFits, TreeFits, ChainFits, Ruled
    <2>6. PeerFits(r)
      BY <1>10, <2>2 DEF PeerFits
    <2>7. Fit(r, stack, conf, ctx)
      BY <2>2, <2>3, <2>5, <2>6 DEF Fit
    <2>8. q \in Channels
      BY <1>10 DEF Channels
    <2>9. QED BY <1>1, <1>2, <1>8, <1>10, <2>1, <2>7, <2>8, Offers, ZenonT(30)
  <1>11. ASSUME Set(c, DispatchFallback(t, t.peer.sni, t.peer.alpn)), UNCHANGED chan PROVE Inv'
    <2>1. PICK r : r = DispatchFallback(t, t.peer.sni, t.peer.alpn)
      OBVIOUS
    <2>2. Usable(conf.rules)
      BY DEF Inv
    <2>3. Chained(t.chain)
      BY <1>3, <1>4, <1>7 DEF Chained
    <2>4. Fit(Settled(r), stack, conf, ctx) /\ r.at \notin Waiting
      BY <1>3, <1>4, <1>7, <1>9, <2>1, <2>2, <2>3, FallbackFits
    <2>5. QED BY <1>2, <1>11, <2>1, <2>4, Stays
  <1>12. \/ OfferOrClose(c, o, "tls.conn") /\ ~(s.peer.app \in {"ws", "http"} /\ ~cut)
         \/ OfferOrClose(c, o, "tls.ws") /\ s.peer.app \in {"ws", "http"} /\ ~cut
         \/ Set(c, DispatchFallback(t, t.peer.sni, t.peer.alpn)) /\ UNCHANGED chan
    BY <1>1, <1>5, <1>6 DEF TLSSniff, IsHTTP
  <1>13. QED BY <1>10, <1>11, <1>12

\* TLSRequest: ReadRequest returns.
LEMMA TLSRequestInv == ASSUME Inv, NEW c \in Conn, TLSRequest(c) PROVE Inv'
  <1>1. PICK n \in 0 .. 2, cut \in BOOLEAN : TLSSniff(c, n, cut)
    BY DEF TLSRequest
  <1>2. n \in Nat
    BY SMT
  <1>3. QED BY <1>1, <1>2, TLSSniffInv

\* TLSDeadline: the deadline of the handshake or of the first request passes.
LEMMA TLSDeadlineInv == ASSUME Inv, NEW c \in Conn, TLSDeadline(c) PROVE Inv'
  <1>1. CASE At(c, "shake") /\ Goto(c, "closed") /\ UNCHANGED <<fixed, chan, next, busy>>
    <2>1. conn[c].at \notin Waiting /\ "closed" \in Gone /\ UNCHANGED <<fixed, chan>>
      BY <1>1 DEF At, Waiting, Channels, Gone
    <2>2. QED BY <1>1, <2>1, GotoEnds
  <1>2. ASSUME NEW n \in 0 .. 1, TLSSniff(c, n, TRUE) PROVE Inv'
    <2>1. n \in Nat
      BY SMT
    <2>2. QED BY <1>2, <2>1, TLSSniffInv
  <1>3. QED BY <1>1, <1>2 DEF TLSDeadline

\* RedirectorTakes: the redirector has the connection, or at shutdown nobody.
LEMMA RedirectorTakesInv == ASSUME Inv, NEW c \in Conn, RedirectorTakes(c) PROVE Inv'
  <1>1. conn[c].at \notin Waiting /\ UNCHANGED <<fixed, chan>>
    BY DEF RedirectorTakes, At, Waiting, Channels
  <1>2. PICK p \in Gone : Goto(c, p) /\ (p = "lost" => ctx)
    BY DEF RedirectorTakes, Gone
  <1>3. QED BY <1>1, <1>2, GotoEnds
-----------------------------------------------------------------------------
(***************************************************************************)
(* websocket, shadowsocks and trojan                                       *)
(***************************************************************************)

\* A connection on its way to remote_addr.
LEMMA RemoteFits ==
    ASSUME NEW r, NEW k, NEW cf, NEW x, Shape(r), r.at = "redirect", r.armed = FALSE, r.sess \in {"none", "closed"},
           ReaderFits(r), r.target = cf.remote
    PROVE  Fit(r, k, cf, x) /\ Settled(r) = r /\ r.at \notin Waiting
  BY DEF Fit, DeadlineFits, SessionFits, TreeFits, PeerFits, ChainFits, Ruled, Settled, Gone, Waiting, Channels

\* The queues of the layer below trojan and websocket.
LEMMA Roots ==
    /\ RootConn \in Channels /\ RootConn \in {"tls.conn", "transport.conn"} /\ RootConn # "http.conn"
    /\ RootWS \in Channels /\ RootWS \in {"tls.ws", "transport.ws"} /\ RootWS # "http.conn"
  BY DEF RootConn, RootWS, Channels

\* WebsocketTake: AcceptConn takes a connection, or redirects it when websocket is off.
LEMMA WebsocketTakeInv == ASSUME Inv, NEW c \in Conn, WebsocketTake(c) PROVE Inv'
  <1>1. PICK q \in Channels : q = RootWS /\ q \in {"tls.ws", "transport.ws"} /\ q # "http.conn"
    BY Roots
  <1>2. Takes(c, q) /\ UNCHANGED fixed
    BY <1>1 DEF WebsocketTake
  <1>3. PICK s : s = conn[c] /\ s.at = q /\ Fit(s, stack, conf, ctx)
    BY <1>1, <1>2, TakenAt
  <1>4. /\ Shape(s) /\ s.sess \in {"none", "closed"} /\ s.via # "ws" /\ s.chain \in Seq(Links) /\ s.armed = FALSE
        /\ IsReader(s.rr) /\ Ahead(s.rr) = Left(s)
    BY <1>1, <1>3, Unused DEF Gone
  <1>5. s.peer.app \in {"ws", "http"} /\ ~s.cut
    BY <1>1, <1>3 DEF Fit, PeerFits
  <1>6. ASSUME Set(c, [Wrapped(s, 512) EXCEPT !.at = "ws"]) PROVE Inv'
    <2>1. PICK n \in Nat : n = 512
      BY SMT
    <2>2. PICK r : r = [Wrapped(s, n) EXCEPT !.at = "ws"] /\ Set(c, r)
      BY <1>6, <2>1, ZenonT(30)
    <2>3. r = [[s EXCEPT !.rr = Buffer(Left(s), n)] EXCEPT !.at = "ws"]
      <3>1. Wrapped(s, n) = [s EXCEPT !.rr = Buffer(Left(s), n)]
        BY <1>3, Wraps
      <3>2. QED BY <2>2, <3>1
    <2>4. /\ Shape(r) /\ r.at = "ws" /\ r.chain = s.chain /\ r.sess = s.sess /\ r.armed = FALSE
          /\ r.via # "ws" /\ r.rr = Buffer(Left(s), n) /\ r.peer = s.peer /\ r.cut = s.cut
      BY <1>4, <2>3 DEF Shape
    <2>5. Left(r) = Left(s)
      BY <1>1, <1>3, <1>4, <2>4 DEF Left, Consumed
    <2>6. ReaderFits(r)
      BY <2>4, <2>5, WrappedReader
    <2>7. Fit(r, stack, conf, ctx) /\ Settled(r) = r
      BY <1>4, <1>5, <2>4, <2>6
         DEF Fit, DeadlineFits, SessionFits, TreeFits, PeerFits, ChainFits, Ruled, Settled, Gone
    <2>8. r.at \notin Waiting
      BY <2>4 DEF Waiting, Channels
    <2>9. QED BY <1>2, <2>2, <2>7, <2>8, Receives
  <1>7. ASSUME Set(c, Redirected(s, conf.remote)) PROVE Inv'
    <2>1. PICK r : r = [s EXCEPT !.at = "redirect", !.target = conf.remote] /\ Set(c, r)
      BY <1>7 DEF Redirected
    <2>2. /\ Shape(r) /\ r.at = "redirect" /\ r.target = conf.remote /\ r.sess \in {"none", "closed"} /\ r.armed = FALSE
          /\ r.via # "ws" /\ r.rr = s.rr
      BY <1>4, <2>1 DEF Shape
    <2>3. ReaderFits(r)
      BY <1>1, <1>3, <1>4, <2>2 DEF ReaderFits, Left, Consumed, Peeking
    <2>4. Fit(r, stack, conf, ctx) /\ Settled(r) = r /\ r.at \notin Waiting
      BY <2>2, <2>3, RemoteFits
    <2>5. QED BY <1>2, <2>1, <2>4, Receives
  <1>8. QED BY <1>3, <1>6, <1>7 DEF WebsocketTake

\* WebsocketRequest: an upgrade starts; anything else goes to remote_addr.
LEMMA WebsocketRequestInv == ASSUME Inv, NEW c \in Conn, WebsocketRequest(c) PROVE Inv'
  <1>1. PICK s : s = conn[c] /\ s.at = "ws" /\ Fit(s, stack, conf, ctx)
    BY FitNow DEF WebsocketRequest, At
  <1>2. UNCHANGED <<fixed, chan>> /\ conn[c].at \notin Waiting
    BY <1>1 DEF WebsocketRequest, Waiting, Channels
  <1>3. /\ Shape(s) /\ s.sess \in {"none", "closed"} /\ s.via # "ws" /\ s.chain \in Seq(Links) /\ s.armed = FALSE
    BY <1>1, Unused DEF Gone
  <1>4. s.peer.app \in {"ws", "http"} /\ ~s.cut
    BY <1>1 DEF Fit, PeerFits
  <1>5. PICK t : t = [s EXCEPT !.rr = Read(@, 1)]
    OBVIOUS
  <1>6. /\ Shape(t) /\ t.rr = Read(s.rr, 1) /\ t.sess = s.sess /\ t.via = s.via /\ t.chain = s.chain /\ t.armed = s.armed
        /\ t.peer = s.peer /\ t.cut = s.cut
    BY <1>3, <1>5 DEF Shape
  <1>7. Left(s) = Stream /\ s.at \in Peeking
    BY <1>1, <1>3 DEF Left, Consumed, Peeking
  <1>8. ASSUME Set(c, [t EXCEPT !.at = "wsShake"]) PROVE Inv'
    <2>1. PICK r : r = [t EXCEPT !.at = "wsShake"] /\ Set(c, r)
      BY <1>8
    <2>2. /\ Shape(r) /\ r.at = "wsShake" /\ r.rr = Read(s.rr, 1) /\ r.sess = s.sess /\ r.via # "ws" /\ r.chain = s.chain
          /\ r.armed = FALSE /\ r.peer = s.peer /\ r.cut = s.cut
      BY <1>3, <1>6, <2>1 DEF Shape
    <2>3. IsReader(r.rr) /\ Ahead(r.rr) = Tail(Stream)
      BY <1>1, <1>7, <2>2, Reads
    <2>4. ReaderFits(r)
      BY <2>2, <2>3 DEF ReaderFits, Left, Consumed, Peeking
    <2>5. Fit(r, stack, conf, ctx) /\ Settled(r) = r
      BY <1>3, <1>4, <2>2, <2>4
         DEF Fit, DeadlineFits, SessionFits, TreeFits, PeerFits, ChainFits, Ruled, Settled, Gone
    <2>6. r.at \notin Waiting
      BY <2>2 DEF Waiting, Channels
    <2>7. QED BY <1>2, <2>1, <2>5, <2>6, Stays
  <1>9. ASSUME Set(c, Redirected([t EXCEPT !.rr = StopBuffering(Rewind(@)), !.chain = <<Wrapper("rewind")>> \o @], conf.remote))
        PROVE  Inv'
    <2>1. PICK u : u = [t EXCEPT !.rr = StopBuffering(Rewind(@)), !.chain = <<Wrapper("rewind")>> \o @]
      OBVIOUS
    <2>2. PICK r : r = [u EXCEPT !.at = "redirect", !.target = conf.remote] /\ Set(c, r)
      BY <1>9, <2>1 DEF Redirected
    <2>3. /\ Shape(u) /\ u.rr = StopBuffering(Rewind(t.rr)) /\ u.sess = s.sess /\ u.via = s.via /\ u.armed = s.armed
      BY <1>6, <2>1 DEF Shape
    <2>4. /\ Shape(r) /\ r.rr = u.rr /\ r.sess \in {"none", "closed"} /\ r.via # "ws" /\ r.armed = FALSE
          /\ r.at = "redirect" /\ r.target = conf.remote
      BY <1>3, <2>2, <2>3 DEF Shape
    <2>5. r.rr = Peeked(s.rr, 1)
      BY <1>6, <2>3, <2>4 DEF Peeked
    <2>6. 1 \in Nat
      BY SMT
    <2>7. IsReader(r.rr) /\ Ahead(r.rr) = Stream
      BY <1>1, <1>7, <2>5, <2>6, Peeks
    <2>8. ReaderFits(r)
      BY <2>4, <2>7 DEF ReaderFits, Left, Consumed, Peeking
    <2>9. Fit(r, stack, conf, ctx) /\ Settled(r) = r /\ r.at \notin Waiting
      BY <2>4, <2>8, RemoteFits
    <2>10. QED BY <1>2, <2>2, <2>9, Stays
  <1>10. QED BY <1>1, <1>5, <1>8, <1>9 DEF WebsocketRequest

\* A step that only moves a connection on.
LEMMA Passes ==
    ASSUME Inv, NEW c \in Conn, NEW p, Goto(c, p), UNCHANGED <<fixed, chan>>, conn[c].at \notin Waiting, p \notin Waiting,
           p \in Quiet \ {"ssRead"}, p \in Consumed <=> conn[c].at \in Consumed, conn[c].via = "ws" => p = "trojan",
           conn[c].at \notin {"reqWrite", "respRead", "respWrite", "shake", "tlsSniff", "redirect"} \cup Gone
    PROVE  Inv'
  <1>1. PICK s : s = conn[c] /\ Fit(s, stack, conf, ctx)
    BY FitNow
  <1>2. PICK r : r = [s EXCEPT !.at = p] /\ Set(c, r)
    BY <1>1 DEF Goto
  <1>3. Fit(r, stack, conf, ctx) /\ Settled(r) = r
    BY <1>1, <1>2, PassFits
  <1>4. r.at = p
    <2>1. Shape(s)
      BY <1>1, Unused
    <2>2. QED BY <1>2, <2>1 DEF Shape
  <1>5. QED BY <1>2, <1>3, <1>4, Stays

\* WebsocketHandler: ServeHTTP stores the connection, fails, or is too late.
LEMMA WebsocketHandlerInv == ASSUME Inv, NEW c \in Conn, WebsocketHandler(c) PROVE Inv'
  <1>1. UNCHANGED <<fixed, chan>>
    BY DEF WebsocketHandler
  <1>2. ASSUME At(c, "wsShake"), NEW p \in {"wsStored", "wsFailed"}, Goto(c, p) PROVE Inv'
    <2>1. /\ conn[c].at \notin Waiting /\ p \notin Waiting /\ p \in Quiet \ {"ssRead"}
          /\ p \in Consumed /\ conn[c].at \in Consumed
          /\ conn[c].at \notin {"reqWrite", "respRead", "respWrite", "shake", "tlsSniff", "redirect"} \cup Gone
      BY <1>2 DEF At, Waiting, Channels, Quiet, Consumed, Gone
    <2>2. conn[c].via # "ws"
      <3>1. conn[c].at \notin {"ssRead", "trojan", "redirect"}
        BY <1>2 DEF At
      <3>2. QED BY <3>1, FitNow, Unused
    <2>3. QED BY <1>1, <1>2, <2>1, <2>2, Passes
  <1>3. ASSUME At(c, "wsLate"), NEW p \in {"parked", "closed"}, Goto(c, p) PROVE Inv'
    <2>1. conn[c].at \notin Waiting /\ p \in Gone /\ p # "lost"
      BY <1>3 DEF At, Waiting, Channels, Gone
    <2>2. QED BY <1>1, <1>3, <2>1, GotoEnds
  <1>4. QED BY <1>2, <1>3 DEF WebsocketHandler

\* WebsocketDelivers: the upgraded connection is passed on.
LEMMA WebsocketDeliversInv ==
    ASSUME Inv, NEW c \in Conn, At(c, "wsStored"), WebsocketDelivers(c), UNCHANGED <<fixed, chan>> PROVE Inv'
  <1>1. PICK s : s = conn[c] /\ s.at = "wsStored" /\ Fit(s, stack, conf, ctx)
    BY FitNow DEF At
  <1>2. conn[c].at \notin Waiting
    BY <1>1 DEF Waiting, Channels
  <1>3. /\ Shape(s) /\ s.sess \in {"none", "closed"} /\ s.chain \in Seq(Links) /\ s.armed = FALSE
        /\ IsReader(s.rr) /\ Ahead(s.rr) = Left(s)
    BY <1>1, Unused DEF Gone
  <1>4. PICK t : t = [s EXCEPT !.via = "ws", !.chain = <<Wrapper("websocket")>> \o @, !.rr = StopBuffering(@)]
    OBVIOUS
  <1>5. /\ Shape(t) /\ t.rr = StopBuffering(s.rr) /\ t.via = "ws" /\ t.sess \in {"none", "closed"} /\ t.armed = FALSE
        /\ t.chain = <<Wrapper("websocket")>> \o s.chain
    BY <1>3, <1>4 DEF Shape
  <1>6. t.chain \in Seq(Links)
    BY <1>3, <1>5, Chains DEF Chained
  <1>7. IsReader(t.rr) /\ Ahead(t.rr) = Tail(Stream)
    <2>1. Left(s) = Tail(Stream)
      BY <1>1 DEF Left, Consumed
    <2>2. QED BY <1>3, <1>5, <2>1, StopAhead
  <1>8. ASSUME Set(c, [Wrapped(t, 1024) EXCEPT !.at = "ssRead"]) PROVE Inv'
    <2>1. PICK n \in Nat : n = 1024
      BY SMT
    <2>2. PICK r : r = [Wrapped(t, n) EXCEPT !.at = "ssRead"] /\ Set(c, r)
      BY <1>8, <2>1, ZenonT(60)
    <2>3. Wrapped(t, n) = [t EXCEPT !.rr = Buffer(Tail(Stream), n)]
      BY <1>7 DEF Wrapped, Buffer
    <2>4. /\ Shape(r) /\ r.rr = Buffer(Tail(Stream), n) /\ r.via = "ws" /\ r.sess \in {"none", "closed"}
          /\ r.armed = FALSE /\ r.chain = t.chain /\ r.at = "ssRead"
      BY <1>5, <2>2, <2>3 DEF Shape
    <2>5. Left(r) = Tail(Stream)
      BY <2>4 DEF Left
    <2>6. ReaderFits(r)
      BY <2>4, <2>5, WrappedReader
    <2>7. r.at \in Quiet /\ r.at \notin Waiting
      BY <2>4 DEF Quiet, Waiting, Channels
    <2>8. Fit(r, stack, conf, ctx) /\ Settled(r) = r
      BY <1>6, <2>4, <2>6, <2>7, QuietFits
    <2>9. QED BY <1>2, <2>2, <2>7, <2>8, Stays
  <1>9. ASSUME Set(c, [t EXCEPT !.at = "trojan"]) PROVE Inv'
    <2>1. PICK r : r = [t EXCEPT !.at = "trojan"] /\ Set(c, r)
      BY <1>9
    <2>2. /\ Shape(r) /\ r.rr = t.rr /\ r.via = "ws" /\ r.sess \in {"none", "closed"}
          /\ r.armed = FALSE /\ r.chain = t.chain /\ r.at = "trojan"
      BY <1>5, <2>1 DEF Shape
    <2>3. ReaderFits(r)
      BY <1>7, <2>2 DEF ReaderFits, Left, Peeking
    <2>4. r.at \in Quiet /\ r.at \notin Waiting
      BY <2>2 DEF Quiet, Waiting, Channels
    <2>5. Fit(r, stack, conf, ctx) /\ Settled(r) = r
      BY <1>6, <2>2, <2>3, <2>4, QuietFits
    <2>6. QED BY <1>2, <2>1, <2>4, <2>5, Stays
  <1>10. QED BY <1>1, <1>4, <1>8, <1>9, ZenonT(30) DEF WebsocketDelivers

\* WebsocketReturns: AcceptConn receives the upgraded connection.
LEMMA WebsocketReturnsInv == ASSUME Inv, NEW c \in Conn, WebsocketReturns(c) PROVE Inv'
  <1>1. At(c, "wsStored") /\ WebsocketDelivers(c) /\ UNCHANGED <<fixed, chan>>
    BY DEF WebsocketReturns
  <1>2. QED BY <1>1, WebsocketDeliversInv

\* WebsocketTimeout: the upgrade takes too long.
LEMMA WebsocketTimeoutInv == ASSUME Inv, NEW c \in Conn, WebsocketTimeout(c) PROVE Inv'
  <1>1. UNCHANGED <<fixed, chan>>
    BY DEF WebsocketTimeout
  <1>2. CASE At(c, "wsStored") /\ WebsocketDelivers(c)
    BY <1>1, <1>2, WebsocketDeliversInv
  <1>3. CASE At(c, "wsShake") /\ Goto(c, "wsLate")
    <2>1. /\ conn[c].at \notin Waiting /\ "wsLate" \notin Waiting /\ "wsLate" \in Quiet \ {"ssRead"}
          /\ "wsLate" \in Consumed /\ conn[c].at \in Consumed
          /\ conn[c].at \notin {"reqWrite", "respRead", "respWrite", "shake", "tlsSniff", "redirect"} \cup Gone
      BY <1>3 DEF At, Waiting, Channels, Quiet, Consumed, Gone
    <2>2. conn[c].via # "ws"
      <3>1. conn[c].at \notin {"ssRead", "trojan", "redirect"}
        BY <1>3 DEF At
      <3>2. QED BY <3>1, FitNow, Unused
    <2>3. QED BY <1>1, <1>3, <2>1, <2>2, Passes
  <1>4. ASSUME conn[c].at \in {"wsStored", "wsFailed"}, NEW p \in {"parked", "closed"}, Goto(c, p) PROVE Inv'
    <2>1. conn[c].at \notin Waiting /\ p \in Gone /\ p # "lost"
      BY <1>4 DEF Waiting, Channels, Gone
    <2>2. QED BY <1>1, <1>4, <2>1, GotoEnds
  <1>5. QED BY <1>2, <1>3, <1>4 DEF WebsocketTimeout, At

\* ShadowsocksTake: the shadowsocks server takes a connection.
LEMMA ShadowsocksTakeInv == ASSUME Inv, NEW c \in Conn, ShadowsocksTake(c) PROVE Inv'
  <1>1. PICK q \in Channels : q = RootConn /\ q \in {"tls.conn", "transport.conn"} /\ q # "http.conn"
    BY Roots
  <1>2. Takes(c, q) /\ UNCHANGED fixed
    BY <1>1, SMT DEF ShadowsocksTake
  <1>3. PICK s : s = conn[c] /\ s.at = q /\ Fit(s, stack, conf, ctx)
    BY <1>1, <1>2, TakenAt
  <1>4. /\ Shape(s) /\ s.sess \in {"none", "closed"} /\ s.via # "ws" /\ s.chain \in Seq(Links) /\ s.armed = FALSE
    BY <1>1, <1>3, Unused DEF Gone
  <1>5. PICK n \in Nat : n = 1024
    BY SMT
  <1>6. PICK r : r = [Wrapped(s, n) EXCEPT !.at = "ssRead"] /\ Set(c, r)
    <2>1. Set(c, [Wrapped(s, n) EXCEPT !.at = "ssRead"])
      BY <1>3, <1>5, SMTT(30) DEF ShadowsocksTake
    <2>2. QED BY <2>1
  <1>7. Wrapped(s, n) = [s EXCEPT !.rr = Buffer(Left(s), n)]
    BY <1>3, Wraps
  <1>8. /\ Shape(r) /\ r.rr = Buffer(Left(s), n) /\ r.via # "ws" /\ r.sess \in {"none", "closed"}
        /\ r.armed = FALSE /\ r.chain = s.chain /\ r.at = "ssRead"
    BY <1>4, <1>6, <1>7 DEF Shape
  <1>9. Left(r) = Left(s)
    BY <1>1, <1>3, <1>4, <1>8 DEF Left, Consumed
  <1>10. ReaderFits(r)
    BY <1>8, <1>9, WrappedReader
  <1>11. r.at \in Quiet /\ r.at \notin Waiting
    BY <1>8 DEF Quiet, Waiting, Channels
  <1>12. Fit(r, stack, conf, ctx) /\ Settled(r) = r
    BY <1>4, <1>8, <1>10, <1>11, QuietFits
  <1>13. QED BY <1>2, <1>6, <1>11, <1>12, Receives

\* ShadowsocksRead: the trial read decrypts, or the connection is redirected.
LEMMA ShadowsocksReadInv == ASSUME Inv, NEW c \in Conn, ShadowsocksRead(c) PROVE Inv'
  <1>1. PICK s : s = conn[c] /\ s.at = "ssRead" /\ Fit(s, stack, conf, ctx)
    BY FitNow DEF ShadowsocksRead, At
  <1>2. UNCHANGED <<fixed, chan>> /\ conn[c].at \notin Waiting
    BY <1>1 DEF ShadowsocksRead, Waiting, Channels
  <1>3. /\ Shape(s) /\ s.sess \in {"none", "closed"} /\ s.chain \in Seq(Links) /\ s.armed = FALSE
    BY <1>1, Unused DEF Gone
  <1>4a. PICK n \in 0 .. 2 : \E t :
          /\ t = [s EXCEPT !.rr = Peeked(@, n)]
          /\ \/ Set(c, [t EXCEPT !.at = "trojan", !.chain = <<Wrapper("shadowsocks")>> \o @])
             \/ Set(c, Redirected([t EXCEPT !.chain = <<Wrapper("rewind")>> \o @], conf.remote))
    BY <1>1 DEF ShadowsocksRead
  <1>4. PICK t :
          /\ t = [s EXCEPT !.rr = Peeked(@, n)]
          /\ \/ Set(c, [t EXCEPT !.at = "trojan", !.chain = <<Wrapper("shadowsocks")>> \o @])
             \/ Set(c, Redirected([t EXCEPT !.chain = <<Wrapper("rewind")>> \o @], conf.remote))
    BY <1>4a
  <1>5. n \in Nat
    BY SMT
  <1>6. /\ Shape(t) /\ t.rr = Peeked(s.rr, n) /\ t.sess \in {"none", "closed"} /\ t.chain = s.chain /\ t.armed = FALSE
        /\ t.via = s.via
    BY <1>3, <1>4 DEF Shape
  <1>7. IsReader(t.rr) /\ Ahead(t.rr) = Left(s)
    <2>1. s.at \in Peeking
      BY <1>1 DEF Peeking
    <2>2. QED BY <1>1, <1>5, <1>6, <2>1, Peeks
  <1>8. ASSUME Set(c, [t EXCEPT !.at = "trojan", !.chain = <<Wrapper("shadowsocks")>> \o @]) PROVE Inv'
    <2>1. PICK r : r = [t EXCEPT !.at = "trojan", !.chain = <<Wrapper("shadowsocks")>> \o @] /\ Set(c, r)
      BY <1>8
    <2>2. /\ Shape(r) /\ r.rr = t.rr /\ r.sess \in {"none", "closed"} /\ r.armed = FALSE /\ r.via = s.via /\ r.at = "trojan"
          /\ r.chain = <<Wrapper("shadowsocks")>> \o s.chain
      BY <1>6, <2>1 DEF Shape
    <2>3. ReaderFits(r)
      BY <1>1, <1>7, <2>2 DEF ReaderFits, Left, Consumed, Peeking
    <2>4. r.chain \in Seq(Links)
      BY <1>3, <2>2, Chains DEF Chained
    <2>5. r.at \in Quiet /\ r.at \notin Waiting
      BY <2>2 DEF Quiet, Waiting, Channels
    <2>6. Fit(r, stack, conf, ctx) /\ Settled(r) = r
      BY <2>2, <2>3, <2>4, <2>5, QuietFits
    <2>7. QED BY <1>2, <2>1, <2>5, <2>6, Stays
  <1>9. ASSUME Set(c, Redirected([t EXCEPT !.chain = <<Wrapper("rewind")>> \o @], conf.remote)) PROVE Inv'
    <2>1. PICK u : u = [t EXCEPT !.chain = <<Wrapper("rewind")>> \o @]
      OBVIOUS
    <2>2. PICK r : r = [u EXCEPT !.at = "redirect", !.target = conf.remote] /\ Set(c, r)
      BY <1>9, <2>1 DEF Redirected
    <2>3. Shape(u) /\ u.rr = t.rr /\ u.sess \in {"none", "closed"} /\ u.armed = FALSE /\ u.via = s.via
      BY <1>6, <2>1 DEF Shape
    <2>4. /\ Shape(r) /\ r.rr = t.rr /\ r.sess \in {"none", "closed"} /\ r.armed = FALSE /\ r.via = s.via
          /\ r.at = "redirect" /\ r.target = conf.remote
      BY <2>2, <2>3 DEF Shape
    <2>5. ReaderFits(r)
      BY <1>1, <1>7, <2>4 DEF ReaderFits, Left, Consumed, Peeking
    <2>6. Fit(r, stack, conf, ctx) /\ Settled(r) = r /\ r.at \notin Waiting
      BY <2>4, <2>5, RemoteFits
    <2>7. QED BY <1>2, <2>2, <2>6, Stays
  <1>10. QED BY <1>4, <1>8, <1>9

\* A move out of a queue.
LEMMA PassesFrom ==
    ASSUME Inv, NEW c \in Conn, NEW q \in Channels, Takes(c, q), q # "http.conn", NEW p, Goto(c, p), UNCHANGED fixed,
           p \notin Waiting, p \in Quiet \ {"ssRead"}, p \notin Consumed, q \notin Consumed
    PROVE  Inv'
  <1>1. PICK s : s = conn[c] /\ s.at = q /\ Fit(s, stack, conf, ctx)
    BY TakenAt
  <1>2. PICK r : r = [s EXCEPT !.at = p] /\ Set(c, r)
    BY <1>1 DEF Goto
  <1>3. s.at \notin {"reqWrite", "respRead", "respWrite", "shake", "tlsSniff", "redirect", "ssRead", "trojan"} \cup Gone
    BY <1>1 DEF Gone, Channels
  <1>4. s.via # "ws"
    BY <1>1, <1>3, Unused
  <1>5. Fit(r, stack, conf, ctx) /\ Settled(r) = r
    BY <1>1, <1>2, <1>3, <1>4, PassFits
  <1>6. r.at = p
    <2>1. Shape(s)
      BY <1>1, Unused
    <2>2. QED BY <1>2, <2>1 DEF Shape
  <1>7. QED BY <1>2, <1>5, <1>6, Receives

\* TrojanTake: the trojan server takes a connection.
LEMMA TrojanTakeInv == ASSUME Inv, NEW c \in Conn, TrojanTake(c) PROVE Inv'
  <1>1. PICK q \in Channels : q = RootConn /\ q \in {"tls.conn", "transport.conn"} /\ q # "http.conn"
    BY Roots
  <1>2. Takes(c, q) /\ Goto(c, "trojan") /\ UNCHANGED fixed
    BY <1>1 DEF TrojanTake
  <1>3. /\ "trojan" \notin Waiting /\ "trojan" \in Quiet \ {"ssRead"} /\ "trojan" \notin Consumed /\ q \notin Consumed
    BY <1>1 DEF Waiting, Channels, Quiet, Consumed
  <1>4. QED BY <1>1, <1>2, <1>3, PassesFrom

\* No layer of the tree below trojan puts a wrapper with a rule on the chain.
LEMMA NothingUnwrapped == ASSUME NEW ch \in Seq(Links) PROVE Unwrap(ch) = NoRule
  <1>1. \A i \in DOMAIN ch : ch[i] \in Links
    BY SMT
  <1>2. \A i \in DOMAIN ch : ch[i].name # "rule"
    BY <1>1 DEF Links
  <1>3. QED BY <1>2 DEF Unwrap

\* TrojanAuth: the connection is served, or redirected.
LEMMA TrojanAuthInv == ASSUME Inv, NEW c \in Conn, TrojanAuth(c) PROVE Inv'
  <1>1. PICK s : s = conn[c] /\ s.at = "trojan" /\ Fit(s, stack, conf, ctx)
    BY FitNow DEF TrojanAuth, At
  <1>2. UNCHANGED <<fixed, chan>> /\ conn[c].at \notin Waiting
    BY <1>1 DEF TrojanAuth, Waiting, Channels
  <1>3. /\ Shape(s) /\ s.sess \in {"none", "closed"} /\ s.chain \in Seq(Links) /\ s.armed = FALSE
        /\ IsReader(s.rr) /\ Ahead(s.rr) = Left(s)
    BY <1>1, Unused DEF Gone
  <1>4. Unwrap(<<Wrapper("rewind")>> \o s.chain) = NoRule
    BY <1>3, Chains, NothingUnwrapped DEF Chained
  <1>5. CASE Goto(c, "served")
    <2>1. "served" \in Gone
      BY DEF Gone
    <2>2. QED BY <1>2, <1>5, <2>1, GotoEnds
  <1>6. ASSUME Set(c, Redirected([s EXCEPT !.by = "trojan"], conf.remote)) PROVE Inv'
    <2>1. PICK u : u = [s EXCEPT !.by = "trojan"]
      OBVIOUS
    <2>2. PICK r : r = [u EXCEPT !.at = "redirect", !.target = conf.remote] /\ Set(c, r)
      BY <1>6, <2>1 DEF Redirected
    <2>3. Shape(u) /\ u.rr = s.rr /\ u.sess = s.sess /\ u.armed = FALSE /\ u.via = s.via
      BY <1>3, <2>1 DEF Shape
    <2>4. /\ Shape(r) /\ r.rr = s.rr /\ r.sess \in {"none", "closed"} /\ r.armed = FALSE /\ r.via = s.via
          /\ r.at = "redirect" /\ r.target = conf.remote
      BY <1>3, <2>2, <2>3 DEF Shape
    <2>5. ReaderFits(r)
      BY <1>1, <1>3, <2>4 DEF ReaderFits, Left, Consumed, Peeking
    <2>6. Fit(r, stack, conf, ctx) /\ Settled(r) = r /\ r.at \notin Waiting
      BY <2>4, <2>5, RemoteFits
    <2>7. QED BY <1>2, <2>2, <2>6, Stays
  <1>7. QED BY <1>1, <1>4, <1>5, <1>6 DEF TrojanAuth
-----------------------------------------------------------------------------
(***************************************************************************)
(* The client tree                                                         *)
(***************************************************************************)

Commands == {"connect", "associate", "unknown"}

\* Where a socks server is to have the connection.
ForSocks == {"to socks", "adapter.socks", "socksShake"}

\* Where a connection of the client tree has been looked at but not yet read.
Unread == {"detect", "to socks", "to http", "adapter.socks", "adapter.http", "httpRequest", "socksShake"}

\* A record there fits when its reader does and it asks a socks server for a command.
LEMMA UnreadFits ==
    ASSUME NEW r, NEW cf, NEW x, Shape(r), r.at \in Unread, r.armed = FALSE, r.sess \in {"none", "closed"},
           ReaderFits(r), r.chain \in Seq(Links),
           r.at \in {"detect", "to socks", "adapter.socks", "socksShake"} /\ r.peer.app = "socks" => r.peer.cmd \in Commands,
           r.at \in {"to socks", "adapter.socks", "socksShake"} => r.peer.app = "socks"
    PROVE  Fit(r, "client", cf, x) /\ Settled(r) = r
  <1>1. DeadlineFits(r) /\ SessionFits(r) /\ TreeFits(r, "client", x)
    BY DEF Unread, DeadlineFits, SessionFits, TreeFits
  <1>2. PeerFits(r)
    BY DEF Unread, PeerFits, Commands
  <1>3. ChainFits(r) /\ Ruled(r, "client", cf) /\ Settled(r) = r
    BY DEF Unread, ChainFits, Ruled, Settled, Gone
  <1>4. QED BY <1>1, <1>2, <1>3 DEF Fit

\* What is known of a connection there.
LEMMA UnreadFacts ==
    ASSUME NEW s, NEW k, NEW cf, NEW x, Fit(s, k, cf, x), s.at \in Unread
    PROVE  /\ Shape(s) /\ s.sess \in {"none", "closed"} /\ s.via # "ws" /\ s.chain \in Seq(Links) /\ s.armed = FALSE
           /\ IsReader(s.rr) /\ Ahead(s.rr) = Stream /\ Left(s) = Stream /\ k = "client"
           /\ s.at \in {"detect", "to socks", "adapter.socks", "socksShake"} /\ s.peer.app = "socks" => s.peer.cmd \in Commands
           /\ s.at \in {"to socks", "adapter.socks", "socksShake"} => s.peer.app = "socks"
  <1>1. s.at \notin {"reqWrite", "respRead", "respWrite", "shake", "tlsSniff", "redirect", "ssRead", "trojan"} \cup Gone
    BY DEF Unread, Gone
  <1>2. /\ Shape(s) /\ s.sess \in {"none", "closed"} /\ s.via # "ws" /\ s.chain \in Seq(Links) /\ s.armed = FALSE
        /\ IsReader(s.rr) /\ Ahead(s.rr) = Left(s)
    BY <1>1, Unused
  <1>3. Left(s) = Stream
    BY <1>2 DEF Left, Unread, Consumed
  <1>4. k = "client"
    BY DEF Fit, TreeFits, Unread
  <1>5. PeerFits(s)
    BY DEF Fit
  <1>6. QED BY <1>2, <1>3, <1>4, <1>5 DEF PeerFits, Commands

\* AdapterAccept: the adapter accepts a connection.
LEMMA AdapterAcceptInv == ASSUME Inv, NEW c \in Conn, AdapterAccept(c) PROVE Inv'
  <1>1. PICK s : s = conn[c] /\ s.at = "new" /\ Fit(s, stack, conf, ctx)
    BY FitNow DEF AdapterAccept, At
  <1>2. stack = "client" /\ UNCHANGED <<fixed, chan>>
    BY DEF AdapterAccept, Local
  <1>3. PICK p \in Peers["client"] : Set(c, [Wrapped([s EXCEPT !.peer = p], 16) EXCEPT !.at = "detect"])
    BY <1>1, <1>2 DEF AdapterAccept
  <1>4. PICK n \in Nat : n = 16
    BY SMT
  <1>5. PICK t : t = [s EXCEPT !.peer = p]
    OBVIOUS
  <1>6. /\ Shape(s) /\ s.sess \in {"none", "closed"} /\ s.via # "ws" /\ s.chain \in Seq(Links) /\ s.armed = FALSE
        /\ Ahead(s.rr) = Left(s)
    BY <1>1, Unused DEF Gone
  <1>7. /\ Shape(t) /\ t.sess = s.sess /\ t.via = s.via /\ t.chain = s.chain /\ t.armed = FALSE /\ t.rr = s.rr /\ t.peer = p
    BY <1>5, <1>6 DEF Shape
  <1>8. Left(s) = Stream
    BY <1>1, <1>6 DEF Left, Consumed
  <1>9. Wrapped(t, n) = [t EXCEPT !.rr = Buffer(Stream, n)]
    BY <1>6, <1>7, <1>8 DEF Wrapped, Buffer
  <1>10. PICK r : r = [Wrapped(t, n) EXCEPT !.at = "detect"] /\ Set(c, r)
    BY <1>3, <1>4, <1>5
  <1>11. /\ Shape(r) /\ r.at = "detect" /\ r.sess \in {"none", "closed"} /\ r.via # "ws" /\ r.chain = s.chain
         /\ r.armed = FALSE /\ r.rr = Buffer(Stream, n) /\ r.peer = p
    BY <1>6, <1>7, <1>9, <1>10 DEF Shape
  <1>12. Left(r) = Stream
    BY <1>11 DEF Left, Consumed
  <1>13. ReaderFits(r)
    BY <1>11, <1>12, WrappedReader
  <1>14. r.peer.app = "socks" => r.peer.cmd \in Commands
    BY <1>3, <1>11, PeersAssumption DEF Commands
  <1>15. r.at \in Unread /\ r.at \notin Waiting /\ conn[c].at \notin Waiting
         /\ r.at \notin {"to socks", "adapter.socks", "socksShake"}
    BY <1>1, <1>11 DEF Unread, Waiting, Channels
  <1>16. Fit(r, stack, conf, ctx) /\ Settled(r) = r
    BY <1>2, <1>6, <1>11, <1>13, <1>14, <1>15, UnreadFits, ZenonT(30)
  <1>17. QED BY <1>2, <1>10, <1>15, <1>16, Stays

\* AdapterDetect: its first byte says socks or HTTP.
LEMMA AdapterDetectInv == ASSUME Inv, NEW c \in Conn, AdapterDetect(c) PROVE Inv'
  <1>1. PICK s : s = conn[c] /\ s.at = "detect" /\ Fit(s, stack, conf, ctx)
    BY FitNow DEF AdapterDetect, At
  <1>2. UNCHANGED <<fixed, chan>> /\ conn[c].at \notin Waiting /\ s.at \in Unread /\ s.at \in Peeking
    BY <1>1 DEF AdapterDetect, Waiting, Channels, Unread, Peeking
  <1>3. /\ Shape(s) /\ s.sess \in {"none", "closed"} /\ s.via # "ws" /\ s.chain \in Seq(Links) /\ s.armed = FALSE
        /\ Left(s) = Stream /\ stack = "client"
    BY <1>1, <1>2, UnreadFacts
  <1>4. s.peer.app = "socks" => s.peer.cmd \in Commands
    BY <1>1, <1>2, UnreadFacts
  <1>5. PICK t : t = [s EXCEPT !.rr = Peeked(@, 1)]
    OBVIOUS
  <1>6. /\ Shape(t) /\ t.sess = s.sess /\ t.via = s.via /\ t.chain = s.chain /\ t.armed = FALSE /\ t.rr = Peeked(s.rr, 1)
        /\ t.peer = s.peer
    BY <1>3, <1>5 DEF Shape
  <1>7. 1 \in Nat
    BY SMT
  <1>8. IsReader(t.rr) /\ Ahead(t.rr) = Stream
    BY <1>1, <1>2, <1>3, <1>6, <1>7, Peeks
  <1>9. CASE Goto(c, "lost")
    <2>1. "lost" \in Gone
      BY DEF Gone
    <2>2. QED BY <1>2, <1>3, <1>9, <2>1, GotoEnds
  <1>10. ASSUME NEW p \in {"to socks", "to http"}, p = "to socks" => t.peer.app = "socks", Set(c, [t EXCEPT !.at = p])
         PROVE  Inv'
    <2>1. PICK r : r = [t EXCEPT !.at = p] /\ Set(c, r)
      BY <1>10
    <2>2. /\ Shape(r) /\ r.at = p /\ r.sess \in {"none", "closed"} /\ r.via # "ws" /\ r.chain = s.chain
          /\ r.armed = FALSE /\ r.rr = t.rr /\ r.peer = s.peer
      BY <1>3, <1>6, <2>1 DEF Shape
    <2>3. ReaderFits(r)
      BY <1>8, <1>10, <2>2 DEF ReaderFits, Left, Consumed, Peeking
    <2>4. /\ r.at \in Unread /\ r.at \notin Waiting
          /\ r.at \in {"to socks", "adapter.socks", "socksShake"} => r.peer.app = "socks"
      BY <1>6, <1>10, <2>2 DEF Unread, Waiting, Channels
    <2>5. Fit(r, stack, conf, ctx) /\ Settled(r) = r
      BY <1>3, <1>4, <2>2, <2>3, <2>4, UnreadFits
    <2>6. QED BY <1>2, <2>1, <2>4, <2>5, Stays
  <1>11. CASE Set(c, [t EXCEPT !.at = IF t.peer.app = "socks" /\ "adapter" \in next THEN "to socks" ELSE "to http"])
    <2>1. PICK p \in {"to socks", "to http"} : p = IF t.peer.app = "socks" /\ "adapter" \in next THEN "to socks" ELSE "to http"
      OBVIOUS
    <2>2. QED BY <1>10, <1>11, <2>1
  <1>12. QED BY <1>1, <1>5, <1>9, <1>11 DEF AdapterDetect

\* The record is moved on inside the tree, unread.
Moves(s, p, r) == r = [s EXCEPT !.at = p]

\* It fits where it is moved to.
LEMMA UnreadMoves ==
    ASSUME NEW s, NEW k, NEW cf, NEW x, Fit(s, k, cf, x), s.at \in Unread, NEW p \in Unread,
           NEW r, Moves(s, p, r), p # "detect",
           p \in ForSocks <=> s.at \in ForSocks
    PROVE  Fit(r, k, cf, x) /\ Settled(r) = r /\ r.at = p
  <1>1. /\ Shape(s) /\ s.sess \in {"none", "closed"} /\ s.via # "ws" /\ s.chain \in Seq(Links) /\ s.armed = FALSE
        /\ IsReader(s.rr) /\ Ahead(s.rr) = Stream /\ k = "client"
        /\ s.at \in ForSocks => s.peer.app = "socks"
        /\ s.at \in ForSocks => s.peer.cmd \in Commands
    BY UnreadFacts DEF ForSocks
  <1>2. /\ Shape(r) /\ r.at = p /\ r.sess = s.sess /\ r.via # "ws" /\ r.chain = s.chain /\ r.armed = FALSE
        /\ r.rr = s.rr /\ r.peer = s.peer
    BY <1>1 DEF Shape, Moves
  <1>3. ReaderFits(r)
    <2>1. p \notin Consumed /\ p \notin Peeking
      BY DEF Consumed, Peeking, Unread
    <2>2. Left(r) = Stream
      BY <1>2, <2>1 DEF Left
    <2>3. QED BY <1>1, <1>2, <2>1, <2>2 DEF ReaderFits
  <1>4. r.at \in Unread /\ r.at # "detect"
    BY <1>2
  <1>5. r.at \in ForSocks => r.peer.app = "socks" /\ r.peer.cmd \in Commands
    BY <1>1, <1>2
  <1>6. QED BY <1>1, <1>2, <1>3, <1>4, <1>5, UnreadFits DEF ForSocks

\* AdapterSend: the adapter queues it for that server.
LEMMA AdapterSendInv == ASSUME Inv, NEW c \in Conn, AdapterSend(c) PROVE Inv'
  <1>1. PICK s : s = conn[c] /\ s.at \in {"to socks", "to http"} /\ Fit(s, stack, conf, ctx)
    BY FitNow DEF AdapterSend, At
  <1>2. PICK q \in Channels : /\ Put(c, [s EXCEPT !.at = q], q)
                              /\ q = IF s.at = "to socks" THEN "adapter.socks" ELSE "adapter.http"
    BY <1>1 DEF AdapterSend, At, Channels
  <1>3. PICK r : r = [s EXCEPT !.at = q]
    OBVIOUS
  <1>4. s.at \in Unread /\ q \in Unread /\ q # "detect" /\ conn[c].at \notin Waiting
    BY <1>1, <1>2 DEF Unread, Waiting, Channels
  <1>5. q \in ForSocks <=> s.at \in ForSocks
    BY <1>1, <1>2 DEF ForSocks
  <1>6. Fit(r, stack, conf, ctx) /\ Settled(r) = r /\ r.at = q
    <2>1. Moves(s, q, r)
      BY <1>3 DEF Moves
    <2>2. Fit(s, stack, conf, ctx)
      BY <1>1
    <2>3. QED BY <1>4, <1>5, <2>1, <2>2, UnreadMoves
  <1>7. Set(c, r) /\ Sent(chan, q, c, chan')
    BY <1>2, <1>3 DEF Put, Sent
  <1>8. UNCHANGED <<stack, conf, ctx>>
    BY DEF AdapterSend, fixed
  <1>9. QED BY <1>4, <1>6, <1>7, <1>8, Sends

\* HTTPTake: the http server takes a connection.
LEMMA HTTPTakeInv == ASSUME Inv, NEW c \in Conn, HTTPTake(c) PROVE Inv'
  <1>1. "adapter.http" \in Channels /\ "adapter.http" # "http.conn"
    BY DEF Channels
  <1>2. Takes(c, "adapter.http") /\ UNCHANGED fixed
    BY DEF HTTPTake
  <1>3. PICK s : s = conn[c] /\ s.at = "adapter.http" /\ Fit(s, stack, conf, ctx)
    BY <1>1, <1>2, TakenAt
  <1>4. PICK r : r = [s EXCEPT !.at = "httpRequest"] /\ Set(c, r)
    BY <1>3 DEF HTTPTake, Goto
  <1>5. s.at \in Unread /\ "httpRequest" \in Unread /\ "httpRequest" \notin Waiting
    BY <1>3 DEF Unread, Waiting, Channels
  <1>6. "httpRequest" \notin ForSocks /\ s.at \notin ForSocks
    BY <1>3 DEF ForSocks
  <1>7. Fit(r, stack, conf, ctx) /\ Settled(r) = r /\ r.at = "httpRequest"
    <2>1. Moves(s, "httpRequest", r)
      BY <1>4 DEF Moves
    <2>2. QED BY <1>3, <1>5, <1>6, <2>1, UnreadMoves, ZenonT(30)
  <1>8. QED BY <1>1, <1>2, <1>4, <1>5, <1>7, Receives

\* SocksTake: the socks server takes a connection.
LEMMA SocksTakeInv == ASSUME Inv, NEW c \in Conn, SocksTake(c) PROVE Inv'
  <1>1. "adapter.socks" \in Channels /\ "adapter.socks" # "http.conn"
    BY DEF Channels
  <1>2. Takes(c, "adapter.socks") /\ UNCHANGED fixed
    BY DEF SocksTake
  <1>3. PICK s : s = conn[c] /\ s.at = "adapter.socks" /\ Fit(s, stack, conf, ctx)
    BY <1>1, <1>2, TakenAt
  <1>4. PICK r : r = [s EXCEPT !.at = "socksShake"] /\ Set(c, r)
    BY <1>3 DEF SocksTake, Goto
  <1>5. s.at \in Unread /\ "socksShake" \in Unread /\ "socksShake" \notin Waiting
    BY <1>3 DEF Unread, Waiting, Channels
  <1>6. "socksShake" \in ForSocks /\ s.at \in ForSocks
    BY <1>3 DEF ForSocks
  <1>7. Fit(r, stack, conf, ctx) /\ Settled(r) = r /\ r.at = "socksShake"
    <2>1. Moves(s, "socksShake", r)
      BY <1>4 DEF Moves
    <2>2. QED BY <1>3, <1>5, <1>6, <2>1, UnreadMoves, ZenonT(30)
  <1>8. QED BY <1>1, <1>2, <1>4, <1>5, <1>7, Receives

\* A record whose header has been read.
LEMMA ReadFits ==
    ASSUME NEW s, NEW k, NEW cf, NEW x, Fit(s, k, cf, x), NEW r, Shape(r), r.at \in Quiet \cap Consumed, r.armed = FALSE,
           r.sess \in {"none", "closed"}, r.chain \in Seq(Links), r.via # "ws", Left(s) = Stream, r.rr = Read(s.rr, 1)
    PROVE  Fit(r, k, cf, x) /\ Settled(r) = r
  <1>1. IsReader(r.rr) /\ Ahead(r.rr) = Tail(Stream)
    BY Reads
  <1>2. r.at \notin Peeking /\ Left(r) = Tail(Stream)
    <2>1. r.at \in Consumed
      OBVIOUS
    <2>2. \A p \in Consumed : p \notin Peeking
      BY DEF Consumed, Peeking
    <2>3. Left(r) = Tail(Stream)
      BY <2>1 DEF Left
    <2>4. QED BY <2>1, <2>2, <2>3
  <1>3. ReaderFits(r)
    BY <1>1, <1>2 DEF ReaderFits
  <1>4. QED BY <1>3, QuietFits

\* HTTPRequest: the first request is read, or the connection left or closed.
LEMMA HTTPRequestInv == ASSUME Inv, NEW c \in Conn, HTTPRequest(c) PROVE Inv'
  <1>1. PICK s : s = conn[c] /\ s.at = "httpRequest" /\ Fit(s, stack, conf, ctx)
    BY FitNow DEF HTTPRequest, At
  <1>2. UNCHANGED <<fixed, chan>> /\ conn[c].at \notin Waiting /\ s.at \in Unread
    BY <1>1 DEF HTTPRequest, Waiting, Channels, Unread
  <1>3. /\ Shape(s) /\ s.sess \in {"none", "closed"} /\ s.via # "ws" /\ s.chain \in Seq(Links) /\ s.armed = FALSE
        /\ Left(s) = Stream /\ stack = "client"
    BY <1>1, <1>2, UnreadFacts
  <1>4. ASSUME NEW p \in {"lost", "closed"}, Goto(c, p) PROVE Inv'
    <2>1. p \in Gone
      BY DEF Gone
    <2>2. QED BY <1>2, <1>3, <1>4, <2>1, GotoEnds
  <1>5. ASSUME Set(c, [s EXCEPT !.at = "httpSend", !.rr = Read(@, 1), !.requests = 1]) PROVE Inv'
    <2>1. PICK r : r = [s EXCEPT !.at = "httpSend", !.rr = Read(@, 1), !.requests = 1] /\ Set(c, r)
      BY <1>5
    <2>2. /\ Shape(r) /\ r.at = "httpSend" /\ r.sess \in {"none", "closed"} /\ r.via # "ws" /\ r.chain \in Seq(Links)
          /\ r.armed = FALSE /\ r.rr = Read(s.rr, 1)
      BY <1>3, <2>1 DEF Shape
    <2>3. r.at \in Quiet \cap Consumed /\ r.at \notin Waiting
      BY <2>2 DEF Quiet, Consumed, Waiting, Channels
    <2>4. Fit(r, stack, conf, ctx) /\ Settled(r) = r
      BY <1>1, <1>3, <2>2, <2>3, ReadFits
    <2>5. QED BY <1>2, <2>1, <2>3, <2>4, Stays
  <1>6. QED BY <1>1, <1>4, <1>5 DEF HTTPRequest

\* SocksHandshake: the handshake, and the command asked for.
LEMMA SocksHandshakeInv == ASSUME Inv, NEW c \in Conn, SocksHandshake(c) PROVE Inv'
  <1>1. PICK s : s = conn[c] /\ s.at = "socksShake" /\ Fit(s, stack, conf, ctx)
    BY FitNow DEF SocksHandshake, At
  <1>2. UNCHANGED <<fixed, chan>> /\ UNCHANGED <<stack, conf, ctx, chan>> /\ conn[c].at \notin Waiting /\ s.at \in Unread
    BY <1>1 DEF SocksHandshake, fixed, Waiting, Channels, Unread
  <1>3. /\ Shape(s) /\ s.sess \in {"none", "closed"} /\ s.via # "ws" /\ s.chain \in Seq(Links) /\ s.armed = FALSE
        /\ Left(s) = Stream /\ stack = "client"
    BY <1>1, <1>2, UnreadFacts
  <1>4. s.peer.cmd \in Commands
    <2>1. s.at \in {"to socks", "adapter.socks", "socksShake"} /\ s.at \in {"detect", "to socks", "adapter.socks", "socksShake"}
      BY <1>1
    <2>2. QED BY <1>1, <1>2, <2>1, UnreadFacts
  <1>5. ASSUME NEW p \in {"lost", "closed"}, Goto(c, p) PROVE Inv'
    <2>1. p \in Gone
      BY DEF Gone
    <2>2. QED BY <1>2, <1>3, <1>5, <2>1, GotoEnds
  <1>6. ASSUME NEW p \in {"socksSend", "associated", "closed"}, Set(c, [s EXCEPT !.at = p, !.rr = Read(@, 1)]) PROVE Inv'
    <2>1. PICK r : r = [s EXCEPT !.at = p, !.rr = Read(@, 1)] /\ Set(c, r)
      BY <1>6
    <2>2. /\ Shape(r) /\ r.at = p /\ r.sess = s.sess /\ r.via # "ws" /\ r.chain \in Seq(Links)
          /\ r.armed = FALSE /\ r.rr = Read(s.rr, 1)
      BY <1>3, <2>1 DEF Shape
    <2>3. CASE p = "closed"
      <3>1. r.at \in Gone /\ r.at # "lost" /\ r.sess = conn[c].sess
        BY <1>1, <2>2, <2>3 DEF Gone
      <3>2. QED BY <1>2, <2>1, <3>1, Ends
    <2>4. CASE p # "closed"
      <3>1. r.at \in Quiet \cap Consumed /\ r.at \notin Waiting
        BY <1>6, <2>2, <2>4 DEF Quiet, Consumed, Waiting, Channels
      <3>2. Fit(r, stack, conf, ctx) /\ Settled(r) = r
        BY <1>1, <1>3, <2>2, <3>1, ReadFits
      <3>3. QED BY <1>2, <2>1, <3>1, <3>2, Stays
    <2>5. QED BY <2>3, <2>4
  <1>7. CASE Set(c, [s EXCEPT !.at = [connect |-> "socksSend", associate |-> "associated", unknown |-> "closed"][s.peer.cmd],
                              !.rr = Read(@, 1)])
    <2>1. PICK p \in {"socksSend", "associated", "closed"} :
             p = [connect |-> "socksSend", associate |-> "associated", unknown |-> "closed"][s.peer.cmd]
      BY <1>4, SMT DEF Commands
    <2>2. QED BY <1>6, <1>7, <2>1
  <1>8. QED BY <1>1, <1>5, <1>7 DEF SocksHandshake

\* A move into a queue.
LEMMA PassesTo ==
    ASSUME Inv, NEW c \in Conn, NEW q \in Channels, Put(c, [conn[c] EXCEPT !.at = q], q), UNCHANGED fixed,
           conn[c].at \notin Waiting, q \in Quiet \ {"ssRead"}, q \in Consumed, conn[c].at \in Consumed, conn[c].via # "ws",
           conn[c].at \notin {"reqWrite", "respRead", "respWrite", "shake", "tlsSniff", "redirect"} \cup Gone
    PROVE  Inv'
  <1>1. PICK s : s = conn[c] /\ Fit(s, stack, conf, ctx)
    BY FitNow
  <1>2. PICK r : r = [s EXCEPT !.at = q] /\ Set(c, r)
    BY <1>1 DEF Put
  <1>3. Fit(r, stack, conf, ctx) /\ Settled(r) = r
    BY <1>1, <1>2, PassFits
  <1>4. r.at = q
    <2>1. Shape(s)
      BY <1>1, Unused
    <2>2. QED BY <1>2, <2>1 DEF Shape
  <1>5. Sent(chan, q, c, chan') /\ UNCHANGED <<stack, conf, ctx>>
    BY DEF Put, Sent, fixed
  <1>6. QED BY <1>2, <1>3, <1>4, <1>5, Sends

\* SocksSend: the socks server queues a connection for the proxy.
LEMMA SocksSendInv == ASSUME Inv, NEW c \in Conn, SocksSend(c) PROVE Inv'
  <1>1. /\ conn[c].at = "socksSend" /\ Put(c, [conn[c] EXCEPT !.at = "socks.conn"], "socks.conn") /\ UNCHANGED fixed
    BY DEF SocksSend, At
  <1>2. /\ "socks.conn" \in Channels /\ "socks.conn" \in Quiet \ {"ssRead"} /\ "socks.conn" \in Consumed
        /\ conn[c].at \notin Waiting /\ conn[c].at \in Consumed /\ conn[c].at \notin {"ssRead", "trojan", "redirect"}
        /\ conn[c].at \notin {"reqWrite", "respRead", "respWrite", "shake", "tlsSniff", "redirect"} \cup Gone
    BY <1>1 DEF Channels, Quiet, Consumed, Waiting, Gone
  <1>3. conn[c].via # "ws"
    BY <1>2, FitNow, Unused
  <1>4. QED BY <1>1, <1>2, <1>3, PassesTo

\* SocksAssociateEnds: a UDP association ends.
LEMMA SocksAssociateEndsInv == ASSUME Inv, NEW c \in Conn, SocksAssociateEnds(c) PROVE Inv'
  <1>1. conn[c].at \notin Waiting /\ "closed" \in Gone /\ Goto(c, "closed") /\ UNCHANGED <<fixed, chan>>
    BY DEF SocksAssociateEnds, At, Waiting, Channels, Gone
  <1>2. QED BY <1>1, GotoEnds

\* HTTPSend: the http server queues a tunnel, or a session for its request.
LEMMA HTTPSendInv == ASSUME Inv, NEW c \in Conn, HTTPSend(c) PROVE Inv'
  <1>1. PICK s : s = conn[c] /\ s.at = "httpSend" /\ Fit(s, stack, conf, ctx)
    BY FitNow DEF HTTPSend, At
  <1>2. UNCHANGED fixed /\ "http.conn" \in Channels
    BY DEF HTTPSend, Channels
  <1>3. /\ conn[c].at \notin Waiting /\ conn[c].at \in Consumed /\ conn[c].at \notin {"ssRead", "trojan", "redirect"}
        /\ conn[c].at \notin {"reqWrite", "respRead", "respWrite", "shake", "tlsSniff", "redirect"} \cup Gone
    BY <1>1 DEF Waiting, Channels, Consumed, Gone
  <1>4. /\ Shape(s) /\ s.via # "ws" /\ s.chain \in Seq(Links) /\ s.armed = FALSE /\ IsReader(s.rr) /\ Ahead(s.rr) = Left(s)
    BY <1>1, Unused
  <1>5. CASE Put(c, [s EXCEPT !.at = "http.conn"], "http.conn")
    <2>1. "http.conn" \in Quiet \ {"ssRead"} /\ "http.conn" \in Consumed
      BY DEF Quiet, Consumed
    <2>2. QED BY <1>1, <1>2, <1>3, <1>4, <1>5, <2>1, PassesTo
  <1>6. CASE Put(c, [s EXCEPT !.at = "reqWrite", !.sess = "queued"], "http.conn")
    <2>1. PICK r : r = [s EXCEPT !.at = "reqWrite", !.sess = "queued"] /\ Set(c, r)
      BY <1>6 DEF Put
    <2>2. /\ Shape(r) /\ r.at = "reqWrite" /\ r.sess = "queued" /\ r.via # "ws" /\ r.chain \in Seq(Links)
          /\ r.armed = FALSE /\ r.rr = s.rr
      BY <1>4, <2>1 DEF Shape
    <2>3. ReaderFits(r)
      BY <1>1, <1>4, <2>2 DEF ReaderFits, Left, Consumed, Peeking
    <2>4. Fit(r, stack, conf, ctx) /\ Settled(r) = r
      BY <2>2, <2>3 DEF Fit, DeadlineFits, SessionFits, TreeFits, PeerFits, ChainFits, Ruled, Settled, Gone
    <2>5. QueuedIn(r, "http.conn")
      BY <2>2 DEF QueuedIn, Queued, Channels
    <2>6. Sent(chan, "http.conn", c, chan') /\ UNCHANGED <<stack, conf, ctx>>
      BY <1>2, <1>6 DEF Put, Sent, fixed
    <2>7. ~InQueue(conn[c])
      BY <1>3, FitNow, Loose
    <2>8. QED BY <1>2, <2>1, <2>4, <2>5, <2>6, <2>7, PutStep
  <1>7. QED BY <1>1, <1>5, <1>6 DEF HTTPSend

\* A record in the middle of a round.
LEMMA RoundFits ==
    ASSUME NEW r, NEW k, NEW cf, NEW x, Shape(r), r.at \in {"reqWrite", "respRead", "respWrite"}, r.armed = FALSE,
           r.sess \in {"open", "closed"}, r.via # "ws", r.chain \in Seq(Links), IsReader(r.rr), Ahead(r.rr) = Tail(Stream)
    PROVE  Fit(r, k, cf, x) /\ Settled(r) = r /\ ~InQueue(r)
  <1>1. ReaderFits(r)
    BY DEF ReaderFits, Left, Consumed, Peeking
  <1>2. DeadlineFits(r) /\ SessionFits(r) /\ TreeFits(r, k, x) /\ ChainFits(r) /\ Ruled(r, k, cf)
    BY DEF DeadlineFits, SessionFits, TreeFits, ChainFits, Ruled
  <1>3. PeerFits(r)
    BY DEF PeerFits
  <1>4. Settled(r) = r /\ ~InQueue(r)
    BY DEF Settled, Gone, InQueue, Channels
  <1>5. QED BY <1>1, <1>2, <1>3, <1>4 DEF Fit

\* HTTPStep: the goroutine of a request goes on.
LEMMA HTTPStepInv == ASSUME Inv, NEW c \in Conn, HTTPStep(c) PROVE Inv'
  <1>1. PICK s : s = conn[c] /\ Fit(s, stack, conf, ctx)
    BY FitNow
  <1>2. UNCHANGED <<fixed, chan>> /\ UNCHANGED <<stack, conf, ctx, chan>>
    BY DEF HTTPStep, fixed
  <1>3. s.at \in {"reqWrite", "respRead", "respWrite", "nextRequest"}
    BY <1>1 DEF HTTPStep, At
  <1>4. /\ Shape(s) /\ s.via # "ws" /\ s.chain \in Seq(Links) /\ s.armed = FALSE /\ IsReader(s.rr) /\ Ahead(s.rr) = Tail(Stream)
    <2>1. s.at \notin {"shake", "tlsSniff", "redirect", "ssRead", "trojan"} /\ s.at \in Consumed
      BY <1>3 DEF Consumed
    <2>2. Left(s) = Tail(Stream)
      BY <2>1 DEF Left
    <2>3. QED BY <1>1, <2>1, <2>2, Unused
  <1>5. ASSUME s.sess = "open", s.at \in {"reqWrite", "respRead"}, NEW p \in {"respRead", "respWrite"}, Goto(c, p) PROVE Inv'
    <2>1. PICK r : r = [s EXCEPT !.at = p] /\ Set(c, r)
      BY <1>1, <1>5 DEF Goto
    <2>2. /\ Shape(r) /\ r.at = p /\ r.sess = "open" /\ r.via # "ws" /\ r.chain \in Seq(Links)
          /\ r.armed = FALSE /\ r.rr = s.rr
      BY <1>4, <1>5, <2>1 DEF Shape
    <2>3. r.at \in {"reqWrite", "respRead", "respWrite"} /\ r.sess \in {"open", "closed"}
      BY <1>5, <2>2
    <2>4. Fit(r, stack, conf, ctx) /\ Settled(r) = r /\ ~InQueue(r)
      BY <1>4, <2>2, <2>3, RoundFits
    <2>5. ~InQueue(conn[c])
      BY <1>1, <1>5 DEF InQueue, Channels
    <2>6. QED BY <1>2, <2>1, <2>4, <2>5, StayStep
  <1>6. ASSUME NEW r, Set(c, r), Shape(r), r.at \in {"nextRequest", "httpSend"}, s.at \in {"respWrite", "nextRequest"},
               r.sess \in {"none", "closed"}, r.via # "ws", r.chain \in Seq(Links), r.armed = FALSE, r.rr = s.rr
        PROVE  Inv'
    <2>1. ReaderFits(r)
      BY <1>4, <1>6 DEF ReaderFits, Left, Consumed, Peeking
    <2>2. r.at \in Quiet /\ r.at \notin Waiting /\ conn[c].at \notin Waiting
      BY <1>1, <1>6 DEF Quiet, Waiting, Channels
    <2>3. Fit(r, stack, conf, ctx) /\ Settled(r) = r
      BY <1>6, <2>1, <2>2, QuietFits
    <2>4. QED BY <1>2, <1>6, <2>2, <2>3, Stays
  <1>7. CASE s.at = "respWrite" /\ Set(c, [s EXCEPT !.at = "nextRequest", !.sess = "closed"])
    <2>1. PICK r : r = [s EXCEPT !.at = "nextRequest", !.sess = "closed"] /\ Set(c, r)
      BY <1>7
    <2>2. /\ Shape(r) /\ r.at = "nextRequest" /\ r.sess = "closed" /\ r.via # "ws" /\ r.chain \in Seq(Links)
          /\ r.armed = FALSE /\ r.rr = s.rr
      BY <1>4, <2>1 DEF Shape
    <2>3. QED BY <1>6, <1>7, <2>1, <2>2
  <1>8. CASE s.at = "nextRequest" /\ Set(c, [s EXCEPT !.at = "httpSend", !.requests = @ + 1])
    <2>1. PICK r : r = [s EXCEPT !.at = "httpSend", !.requests = @ + 1] /\ Set(c, r)
      BY <1>8
    <2>2. s.sess \in {"none", "closed"}
      BY <1>1, <1>8, Unused DEF Gone
    <2>3. /\ Shape(r) /\ r.at = "httpSend" /\ r.sess = s.sess /\ r.via # "ws" /\ r.chain \in Seq(Links)
          /\ r.armed = FALSE /\ r.rr = s.rr
      BY <1>4, <2>1 DEF Shape
    <2>4. QED BY <1>6, <1>8, <2>1, <2>2, <2>3
  <1>9. CASE s.at = "reqWrite" /\ s.sess = "closed" /\ Goto(c, "closed")
    <2>1. PICK r : r = [s EXCEPT !.at = "closed"] /\ Set(c, r)
      BY <1>1, <1>9 DEF Goto
    <2>2. r.at = "closed" /\ r.sess = "closed"
      BY <1>4, <1>9, <2>1 DEF Shape
    <2>3. r.at \in Gone /\ r.at # "lost" /\ r.sess \in {"none", "open", "closed"}
      BY <2>2 DEF Gone
    <2>4. Fit(Settled(r), stack, conf, ctx)
      BY <2>3, GoneFits
    <2>5. ~InQueue(conn[c]) /\ ~InQueue(r)
      BY <1>1, <1>9, <2>2 DEF InQueue, Channels
    <2>6. QED BY <1>2, <2>1, <2>4, <2>5, StayStep
  <1>10. CASE s.at \in {"respRead", "respWrite", "nextRequest"} /\ Goto(c, "closed")
    <2>1. conn[c].at \notin Waiting /\ "closed" \in Gone
      BY <1>1, <1>10 DEF Waiting, Channels, Gone
    <2>2. QED BY <1>2, <1>10, <2>1, GotoEnds
  <1>11. QED BY <1>1, <1>5, <1>7, <1>8, <1>9, <1>10 DEF HTTPStep, At

\* HTTPSessionClosed: the relay closes the session of a request.
LEMMA HTTPSessionClosedInv == ASSUME Inv, NEW c \in Conn, HTTPSessionClosed(c) PROVE Inv'
  <1>1. PICK s : s = conn[c] /\ Fit(s, stack, conf, ctx) /\ s.sess = "open"
    BY FitNow DEF HTTPSessionClosed
  <1>2. UNCHANGED <<stack, conf, ctx, chan>>
    BY DEF HTTPSessionClosed, fixed
  <1>3. s.at \in {"reqWrite", "respRead", "respWrite"} \cup Gone
    BY <1>1 DEF Fit, SessionFits
  <1>4. PICK r : r = [s EXCEPT !.sess = "closed"] /\ Set(c, r)
    BY <1>1 DEF HTTPSessionClosed
  <1>5. Shape(s)
    BY <1>1, Unused
  <1>6. /\ Shape(r) /\ r.at = s.at /\ r.sess = "closed" /\ r.via = s.via /\ r.chain = s.chain
        /\ r.armed = s.armed /\ r.rr = s.rr
    BY <1>4, <1>5 DEF Shape
  <1>7. ~InQueue(conn[c]) /\ ~InQueue(r)
    BY <1>1, <1>3, <1>6 DEF InQueue, Channels, Gone
  <1>8. CASE s.at \in Gone
    <2>1. r.at \in Gone /\ r.sess \in {"none", "open", "closed"}
      BY <1>6, <1>8
    <2>2. r.at = "lost" /\ stack \in {"tls", "plain"} => ctx
      BY <1>1, <1>6 DEF Fit, TreeFits
    <2>3. Fit(Settled(r), stack, conf, ctx)
      BY <2>1, <2>2, GoneFits
    <2>4. QED BY <1>2, <1>4, <1>7, <2>3, StayStep, ZenonT(30)
  <1>9. CASE s.at \in {"reqWrite", "respRead", "respWrite"}
    <2>1. s.at \notin {"shake", "tlsSniff", "redirect", "ssRead", "trojan"} /\ s.at \in Consumed
      BY <1>9 DEF Consumed
    <2>2. Left(s) = Tail(Stream)
      BY <2>1 DEF Left
    <2>3. s.via # "ws" /\ s.chain \in Seq(Links) /\ s.armed = FALSE /\ IsReader(s.rr) /\ Ahead(s.rr) = Tail(Stream)
      BY <1>1, <2>1, <2>2, Unused
    <2>4. r.at \in {"reqWrite", "respRead", "respWrite"} /\ r.sess \in {"open", "closed"}
      BY <1>6, <1>9
    <2>5. Fit(r, stack, conf, ctx) /\ Settled(r) = r
      BY <1>6, <2>3, <2>4, RoundFits
    <2>6. QED BY <1>2, <1>4, <1>7, <2>5, StayStep, ZenonT(30)
  <1>10. QED BY <1>3, <1>8, <1>9
-----------------------------------------------------------------------------
(***************************************************************************)
(* The mux tree, and the proxy                                             *)
(***************************************************************************)

\* MuxAcceptStream: a stream of a multiplexed connection is accepted.
LEMMA MuxAcceptStreamInv == ASSUME Inv, NEW c \in Conn, MuxAcceptStream(c) PROVE Inv'
  <1>1. PICK s : s = conn[c] /\ s.at = "new" /\ Fit(s, stack, conf, ctx)
    BY FitNow DEF MuxAcceptStream, At
  <1>2. UNCHANGED <<stack, conf, ctx>> /\ conn[c].at \notin Waiting /\ "mux.conn" \in Channels
    BY <1>1 DEF MuxAcceptStream, Waiting, Channels
  <1>3. /\ Shape(s) /\ s.sess \in {"none", "closed"} /\ s.via # "ws" /\ s.chain \in Seq(Links) /\ s.armed = FALSE
        /\ IsReader(s.rr) /\ Ahead(s.rr) = Left(s)
    BY <1>1, Unused DEF Gone
  <1>4. PICK t : /\ \E p : t = [s EXCEPT !.peer = p]
                 /\ \/ OfferOrClose(c, t, "mux.conn")
                    \/ Set(c, [t EXCEPT !.at = "closed"]) /\ UNCHANGED chan
    BY <1>1 DEF MuxAcceptStream
  <1>5. /\ Shape(t) /\ t.sess = s.sess /\ t.via # "ws" /\ t.chain \in Seq(Links) /\ t.armed = FALSE /\ t.rr = s.rr
    BY <1>3, <1>4 DEF Shape
  <1>6. CASE OfferOrClose(c, t, "mux.conn")
    <2>1. PICK r : r = [t EXCEPT !.at = "mux.conn"]
      OBVIOUS
    <2>2. /\ Shape(r) /\ r.at = "mux.conn" /\ r.sess \in {"none", "closed"} /\ r.via # "ws" /\ r.chain \in Seq(Links)
          /\ r.armed = FALSE /\ r.rr = s.rr
      BY <1>3, <1>5, <2>1 DEF Shape
    <2>3. ReaderFits(r)
      BY <1>1, <1>3, <2>2 DEF ReaderFits, Left, Consumed, Peeking
    <2>4. r.at \in Quiet
      BY <2>2 DEF Quiet
    <2>5. Fit(r, stack, conf, ctx)
      BY <2>2, <2>3, <2>4, QuietFits
    <2>6. QED BY <1>1, <1>2, <1>5, <1>6, <2>1, <2>5, Offers, ZenonT(30)
  <1>7. CASE Set(c, [t EXCEPT !.at = "closed"]) /\ UNCHANGED chan
    <2>1. PICK r : r = [t EXCEPT !.at = "closed"] /\ Set(c, r)
      BY <1>7
    <2>2. r.at = "closed" /\ r.sess = conn[c].sess
      BY <1>1, <1>5, <2>1 DEF Shape
    <2>3. r.at \in Gone /\ r.at # "lost"
      BY <2>2 DEF Gone
    <2>4. QED BY <1>2, <1>7, <2>1, <2>2, <2>3, Ends
  <1>8. QED BY <1>4, <1>6, <1>7

\* SimpleSocksTake: the simplesocks server takes a stream.
LEMMA SimpleSocksTakeInv == ASSUME Inv, NEW c \in Conn, SimpleSocksTake(c) PROVE Inv'
  <1>1. Takes(c, "mux.conn") /\ Goto(c, "header") /\ UNCHANGED fixed
    BY DEF SimpleSocksTake
  <1>2. /\ "mux.conn" \in Channels /\ "mux.conn" # "http.conn" /\ "mux.conn" \notin Consumed
        /\ "header" \notin Waiting /\ "header" \in Quiet \ {"ssRead"} /\ "header" \notin Consumed
    BY DEF Waiting, Channels, Quiet, Consumed
  <1>3. QED BY <1>1, <1>2, PassesFrom

\* SimpleSocksHeader: it reads the header.
LEMMA SimpleSocksHeaderInv == ASSUME Inv, NEW c \in Conn, SimpleSocksHeader(c) PROVE Inv'
  <1>1. PICK s : s = conn[c] /\ s.at = "header" /\ Fit(s, stack, conf, ctx)
    BY FitNow DEF SimpleSocksHeader, At
  <1>2. UNCHANGED <<fixed, chan>> /\ conn[c].at \notin Waiting
    BY <1>1 DEF SimpleSocksHeader, Waiting, Channels
  <1>3. /\ Shape(s) /\ s.sess \in {"none", "closed"} /\ s.via # "ws" /\ s.chain \in Seq(Links) /\ s.armed = FALSE
    BY <1>1, Unused DEF Gone
  <1>4. Left(s) = Stream
    BY <1>1, <1>3 DEF Left, Consumed
  <1>5. CASE Goto(c, "closed")
    <2>1. "closed" \in Gone
      BY DEF Gone
    <2>2. QED BY <1>2, <1>5, <2>1, GotoEnds
  <1>6. CASE Set(c, [s EXCEPT !.at = "ssSend", !.rr = Read(@, 1)])
    <2>1. PICK r : r = [s EXCEPT !.at = "ssSend", !.rr = Read(@, 1)] /\ Set(c, r)
      BY <1>6
    <2>2. /\ Shape(r) /\ r.at = "ssSend" /\ r.sess \in {"none", "closed"} /\ r.via # "ws" /\ r.chain \in Seq(Links)
          /\ r.armed = FALSE /\ r.rr = Read(s.rr, 1)
      BY <1>3, <2>1 DEF Shape
    <2>3. r.at \in Quiet \cap Consumed /\ r.at \notin Waiting
      BY <2>2 DEF Quiet, Consumed, Waiting, Channels
    <2>4. Fit(r, stack, conf, ctx) /\ Settled(r) = r
      BY <1>1, <1>4, <2>2, <2>3, ReadFits
    <2>5. QED BY <1>2, <2>1, <2>3, <2>4, Stays
  <1>7. QED BY <1>1, <1>5, <1>6 DEF SimpleSocksHeader

\* SimpleSocksSend: it queues the stream by its command.
LEMMA SimpleSocksSendInv == ASSUME Inv, NEW c \in Conn, SimpleSocksSend(c) PROVE Inv'
  <1>1. PICK q \in {"ss.conn", "ss.packet"} : Put(c, [conn[c] EXCEPT !.at = q], q)
    BY DEF SimpleSocksSend
  <1>2. conn[c].at = "ssSend" /\ UNCHANGED fixed
    BY DEF SimpleSocksSend, At
  <1>3. q \in Channels /\ q \in Quiet \ {"ssRead"} /\ q \in Consumed
    BY <1>1 DEF Channels, Quiet, Consumed
  <1>4. /\ conn[c].at \notin Waiting /\ conn[c].at \in Consumed /\ conn[c].at \notin {"ssRead", "trojan", "redirect"}
        /\ conn[c].at \notin {"reqWrite", "respRead", "respWrite", "shake", "tlsSniff", "redirect"} \cup Gone
    BY <1>2 DEF Channels, Consumed, Waiting, Gone
  <1>5. conn[c].via # "ws"
    BY <1>4, FitNow, Unused
  <1>6. QED BY <1>1, <1>2, <1>3, <1>4, <1>5, PassesTo, ZenonT(30)

\* ProxyTake: the proxy takes a connection.
LEMMA ProxyTakeInv == ASSUME Inv, NEW c \in Conn, ProxyTake(c) PROVE Inv'
  <1>1. PICK q \in Channels : Takes(c, q)
    <2>1. \A q \in {"http.conn", "socks.conn", "ss.conn", "ss.packet"} : q \in Channels
      BY DEF Channels
    <2>2. QED BY <2>1 DEF ProxyTake
  <1>2. UNCHANGED <<stack, conf, ctx>>
    BY DEF ProxyTake, fixed
  <1>3. PICK s : s = conn[c] /\ Fit(s, stack, conf, ctx)
    BY FitNow
  <1>4. Shape(s) /\ s.sess \in {"none", "queued", "open", "closed"} /\ (s.sess = "queued" => s.at = "reqWrite")
    BY <1>3 DEF Fit, SessionFits
  <1>5. CASE s.sess = "queued" /\ Set(c, [s EXCEPT !.sess = "open"])
    <2>1. PICK r : r = [s EXCEPT !.sess = "open"] /\ Set(c, r)
      BY <1>5
    <2>2. /\ Shape(r) /\ r.at = "reqWrite" /\ r.sess = "open" /\ r.via = s.via /\ r.chain = s.chain
          /\ r.armed = s.armed /\ r.rr = s.rr
      BY <1>4, <1>5, <2>1 DEF Shape
    <2>3. s.at \notin {"shake", "tlsSniff", "redirect", "ssRead", "trojan"} /\ s.at \in Consumed
      BY <1>4, <1>5 DEF Consumed
    <2>4. Left(s) = Tail(Stream)
      BY <2>3 DEF Left
    <2>5. s.via # "ws" /\ s.chain \in Seq(Links) /\ s.armed = FALSE /\ IsReader(s.rr) /\ Ahead(s.rr) = Tail(Stream)
      BY <1>3, <2>3, <2>4, Unused
    <2>6. r.at \in {"reqWrite", "respRead", "respWrite"} /\ r.sess \in {"open", "closed"}
      BY <2>2
    <2>7. Fit(r, stack, conf, ctx) /\ Settled(r) = r /\ ~InQueue(r)
      BY <2>2, <2>5, <2>6, RoundFits
    <2>8. QED BY <1>1, <1>2, <2>1, <2>7, TakeStep
  <1>6. CASE s.sess # "queued" /\ Set(c, [s EXCEPT !.at = "served"])
    <2>1. PICK r : r = [s EXCEPT !.at = "served"] /\ Set(c, r)
      BY <1>6
    <2>2. r.at = "served" /\ r.sess = s.sess
      BY <1>4, <2>1 DEF Shape
    <2>3. r.at \in Gone /\ r.at # "lost" /\ r.sess \in {"none", "open", "closed"}
      BY <1>4, <1>6, <2>2 DEF Gone
    <2>4. Fit(Settled(r), stack, conf, ctx)
      BY <2>3, GoneFits
    <2>5. ~InQueue(r)
      BY <1>6, <2>2 DEF InQueue, Channels
    <2>6. QED BY <1>1, <1>2, <2>1, <2>4, <2>5, TakeStep
  <1>7. QED BY <1>3, <1>5, <1>6 DEF ProxyTake
-----------------------------------------------------------------------------
(***************************************************************************)
(* The invariant holds, and with it the properties.                        *)
(***************************************************************************)

\* Close only makes more connections losable.
LEMMA CloseInv == ASSUME Inv, Close PROVE Inv'
  <1>1. UNCHANGED <<stack, conf, conn, chan>> /\ ctx' = TRUE
    BY DEF Close
  <1>2. ASSUME NEW c \in Conn PROVE Fit(conn[c], stack, conf, TRUE)
    <2>1. Fit(conn[c], stack, conf, ctx)
      BY FitNow
    <2>2. TreeFits(conn[c], stack, TRUE)
      BY <2>1 DEF Fit, TreeFits
    <2>3. QED BY <2>1, <2>2 DEF Fit
  <1>3. QED BY <1>1, <1>2 DEF Inv

\* A step that changes no connection, no queue and no configuration.
LEMMA AsideInv == ASSUME Inv, UNCHANGED <<stack, conf, conn, chan, ctx>> PROVE Inv'
  BY DEF Inv

\* A connection that is not accepted yet fits.
LEMMA FreshFits == ASSUME NEW k, NEW cf, NEW x PROVE Fit(Fresh, k, cf, x)
  <1>1. PICK s : s = Fresh
    OBVIOUS
  <1>2. /\ Shape(s) /\ s.at = "new" /\ s.sess = "none" /\ s.rr = NewRewindConn(Stream) /\ s.armed = FALSE
        /\ s.via = "conn" /\ s.chain = <<>>
    BY <1>1 DEF Fresh, Shape
  <1>3. ReaderFits(s)
    <2>1. IsReader(s.rr) /\ Ahead(s.rr) = Stream
      BY <1>2, FreshReader
    <2>2. s.at \notin Consumed /\ s.at \notin Peeking
      BY <1>2 DEF Consumed, Peeking
    <2>3. QED BY <1>2, <2>1, <2>2 DEF ReaderFits, Left
  <1>4. <<>> \in Seq(Links)
    BY EmptySeq
  <1>5. QED BY <1>1, <1>2, <1>3, <1>4, ZenonT(30)
           DEF Fit, DeadlineFits, SessionFits, TreeFits, PeerFits, ChainFits, Ruled

\* Init: no connection is accepted and the rules come from a configuration.
LEMMA InitInv == Init => Inv
  <1> SUFFICES ASSUME Init PROVE Inv
    OBVIOUS
  <1>1. Usable(conf.rules)
    <2>1. PICK cfg \in Configs : conf = TLSNewServer(cfg)
      BY DEF Init
    <2>2. QED BY <2>1, RulesUsable
  <1>2. DOMAIN conn = Conn /\ conn = [c \in Conn |-> conn[c]] /\ \A c \in Conn : conn[c] = Fresh
    BY DEF Init
  <1>3. \A q \in Channels : chan[q] = <<>>
    BY DEF Init
  <1>4. chan \in [Channels -> Seq(Conn)]
    <2>1. <<>> \in Seq(Conn)
      BY EmptySeq
    <2>2. QED BY <2>1 DEF Init
  <1>5. \A c \in Conn : Fit(conn[c], stack, conf, ctx)
    BY <1>2, FreshFits
  <1>6. Owned(conn, chan)
    <2>1. DOMAIN <<>> = {}
      BY SMT
    <2>2. ASSUME NEW c \in Conn, NEW q \in Channels PROVE ~Queued(conn[c], q) /\ Places(chan[q], c) = {}
      <3>1. conn[c].at = "new" /\ conn[c].sess = "none"
        <4>1. Fresh.at = "new" /\ Fresh.sess = "none"
          BY DEF Fresh
        <4>2. QED BY <1>2, <4>1
      <3>2. q # "new"
        BY DEF Channels
      <3>3. QED BY <1>3, <2>1, <3>1, <3>2 DEF Queued, Places
    <2>3. QED BY <2>2 DEF Owned
  <1>7. QED BY <1>1, <1>2, <1>4, <1>5, <1>6, ZenonT(30) DEF Inv

\* Every step of Inbound is one of the above.
LEMMA StepInv == Inv /\ [Next]_vars => Inv'
  <1> SUFFICES ASSUME Inv, [Next]_vars PROVE Inv'
    OBVIOUS
  <1>1. CASE UNCHANGED vars
    BY <1>1, AsideInv DEF vars
  <1>2. CASE \E c \in Conn : TransportAccept(c) \/ TransportDispatch(c) \/ TransportSniff(c)
    BY <1>2, TransportAcceptInv, TransportDispatchInv, TransportSniffInv
  <1>3. CASE \E c \in Conn : TLSTake(c) \/ TLSHandshake(c) \/ TLSRequest(c) \/ TLSDeadline(c) \/ RedirectorTakes(c)
    BY <1>3, TLSTakeInv, TLSHandshakeInv, TLSRequestInv, TLSDeadlineInv, RedirectorTakesInv, ZenonT(30)
  <1>4. CASE \E c \in Conn : WebsocketTake(c) \/ WebsocketRequest(c) \/ WebsocketHandler(c)
                             \/ WebsocketReturns(c) \/ WebsocketTimeout(c)
    BY <1>4, WebsocketTakeInv, WebsocketRequestInv, WebsocketHandlerInv, WebsocketReturnsInv, WebsocketTimeoutInv, ZenonT(30)
  <1>5. CASE \E c \in Conn : ShadowsocksTake(c) \/ ShadowsocksRead(c) \/ TrojanTake(c) \/ TrojanAuth(c)
    BY <1>5, ShadowsocksTakeInv, ShadowsocksReadInv, TrojanTakeInv, TrojanAuthInv, ZenonT(30)
  <1>6. CASE \E c \in Conn : AdapterAccept(c) \/ AdapterDetect(c) \/ AdapterSend(c)
    BY <1>6, AdapterAcceptInv, AdapterDetectInv, AdapterSendInv
  <1>7. CASE \E c \in Conn : HTTPTake(c) \/ HTTPRequest(c) \/ HTTPSend(c) \/ HTTPStep(c) \/ HTTPSessionClosed(c)
    BY <1>7, HTTPTakeInv, HTTPRequestInv, HTTPSendInv, HTTPStepInv, HTTPSessionClosedInv
  <1>8. CASE \E c \in Conn : SocksTake(c) \/ SocksHandshake(c) \/ SocksSend(c) \/ SocksAssociateEnds(c)
    BY <1>8, SocksTakeInv, SocksHandshakeInv, SocksSendInv, SocksAssociateEndsInv
  <1>9. CASE \E c \in Conn : MuxAcceptStream(c) \/ SimpleSocksTake(c) \/ SimpleSocksHeader(c) \/ SimpleSocksSend(c)
    BY <1>9, MuxAcceptStreamInv, SimpleSocksTakeInv, SimpleSocksHeaderInv, SimpleSocksSendInv
  <1>10. CASE \E c \in Conn : ProxyTake(c)
    BY <1>10, ProxyTakeInv
  <1>11. CASE TransportAcceptFails \/ WebsocketRegisters \/ SocksRegisters \/ MuxSession \/ MuxSessionEnds
    <2>1. UNCHANGED <<stack, conf, conn, chan, ctx>>
      BY <1>11 DEF TransportAcceptFails, WebsocketRegisters, SocksRegisters, MuxSession, MuxSessionEnds, fixed
    <2>2. QED BY <2>1, AsideInv
  <1>12. CASE Close
    BY <1>12, CloseInv
  <1>13. QED BY <1>1, <1>2, <1>3, <1>4, <1>5, <1>6, <1>7, <1>8, <1>9, <1>10, <1>11, <1>12, ZenonT(30) DEF Next

\* So the invariant always holds.
LEMMA InvHolds == Spec => []Inv
  BY InitInv, StepInv, PTL DEF Spec

\* The reader and the deadline that fit a position are those of HandedOnClean.
LEMMA FitIsClean == Inv => HandedOnClean
  <1> SUFFICES ASSUME Inv, NEW c \in Conn
      PROVE /\ HandedOn(c) =>
                  Ahead(conn[c].rr) =
                      IF conn[c].via = "ws" \/ conn[c].at \in {"http.conn", "socks.conn", "ss.conn", "ss.packet"}
                      THEN Tail(Stream) ELSE Stream
            /\ conn[c].at \in Channels \cup {"ws", "trojan"} => ~conn[c].armed
            /\ conn[c].at = "redirect" /\ conn[c].peer.proto = "tls" => ~conn[c].armed
    BY DEF HandedOnClean
  <1>1. Ahead(conn[c].rr) = Left(conn[c]) /\ DeadlineFits(conn[c])
    BY FitNow, Unused DEF Fit
  <1>2. ASSUME HandedOn(c)
        PROVE  conn[c].at \in Consumed <=> conn[c].at \in {"http.conn", "socks.conn", "ss.conn", "ss.packet"}
    BY <1>2 DEF HandedOn, Channels, Consumed
  <1>3. HandedOn(c) => Left(conn[c]) =
            IF conn[c].via = "ws" \/ conn[c].at \in {"http.conn", "socks.conn", "ss.conn", "ss.packet"}
            THEN Tail(Stream) ELSE Stream
    BY <1>2 DEF Left
  <1>4. conn[c].at \in Channels \cup {"ws", "trojan"} => ~conn[c].armed
    BY <1>1 DEF DeadlineFits, Channels
  <1>5. conn[c].at = "redirect" /\ conn[c].peer.proto = "tls" => ~conn[c].armed
    BY <1>1 DEF DeadlineFits
  <1>6. QED BY <1>1, <1>3, <1>4, <1>5

\* Queues that hold the connections whose records say so give each one owner.
LEMMA OwnedIsOne == Inv => OneOwner
  <1> SUFFICES ASSUME Inv, NEW c \in Conn
      PROVE /\ \A q \in Channels :
                  LET places == {i \in DOMAIN chan[q] : chan[q][i] = c} IN
                  IF conn[c].at = q \/ (q = "http.conn" /\ conn[c].sess = "queued")
                  THEN \E i \in places : places = {i}
                  ELSE places = {}
            /\ conn[c].at \in {"httpSend", "nextRequest"} => conn[c].sess \in {"none", "closed"}
            /\ Serving /\ At(c, "lost") => ctx
    BY DEF OneOwner
  <1>1. ASSUME NEW q \in Channels
        PROVE  LET places == {i \in DOMAIN chan[q] : chan[q][i] = c} IN
               IF conn[c].at = q \/ (q = "http.conn" /\ conn[c].sess = "queued")
               THEN \E i \in places : places = {i}
               ELSE places = {}
    <2>1. IF Queued(conn[c], q) THEN \E i \in Places(chan[q], c) : Places(chan[q], c) = {i} ELSE Places(chan[q], c) = {}
      BY DEF Inv, Owned
    <2>2. QED BY <2>1 DEF Queued, Places
  <1>2. conn[c].at \in {"httpSend", "nextRequest"} => conn[c].sess \in {"none", "closed"}
    BY FitNow, Unused DEF Gone
  <1>3. Serving /\ At(c, "lost") => ctx
    BY FitNow DEF Fit, TreeFits, Serving, At
  <1>4. QED BY <1>1, <1>2, <1>3

\* What fits where a connection is handed on or redirected is RightDestination.
LEMMA FitIsRight == Inv => RightDestination
  <1> SUFFICES ASSUME Inv, NEW c \in Conn
      PROVE /\ RulesGovern(c)
            /\ conn[c].at \in {"transport.ws", "tls.ws", "ws", "wsShake"} => IsHTTP(c) /\ ~conn[c].cut
            /\ (conn[c].at = "tls.conn" /\ IsHTTP(c)) => conn[c].cut
    BY DEF RightDestination
  <1>1. Ruled(conn[c], stack, conf) /\ PeerFits(conn[c])
    BY FitNow DEF Fit
  <1>2. RulesGovern(c)
    BY <1>1 DEF Ruled, RulesGovern, OnTLS
  <1>3. QED BY <1>1, <1>2 DEF PeerFits, IsHTTP

\* However a connection climbs through the layers of the three trees, what peeked at it gave everything back, and what
\* armed a deadline took it off: RewindConn, SetReadDeadline and SetDeadline in the handlers of transport, tls,
\* websocket, shadowsocks, adapter, http, socks and simplesocks.
THEOREM HandedOnCleanCorrect == Spec => []HandedOnClean
  BY InvHolds, FitIsClean, PTL

\* The queues hold each connection at most once and only while its layer has handed it on, the http server never has two
\* sessions of a client open, and the servers of the server tree drop no connection before Close: the channel sends and
\* receives of the accept loops.
THEOREM OneOwnerCorrect == Spec => []OneOwner
  BY InvHolds, OwnedIsOne, PTL

\* dispatchFallback and the redirects of websocket, shadowsocks and trojan send a connection where the rules say, whatever
\* the rules are, and only requests that are HTTP reach websocket.
THEOREM RightDestinationCorrect == Spec => []RightDestination
  BY InvHolds, FitIsRight, PTL
=============================================================================
