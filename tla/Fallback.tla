------------------------------ MODULE Fallback ------------------------------
(***************************************************************************)
(* Package fallback: the rules that decide where a connection that is not  *)
(* trojan's is redirected.  Names, protocols and addresses are values;     *)
(* None is the empty string.                                               *)
(***************************************************************************)
EXTENDS Naturals, Sequences

CONSTANT None

\* containsString(r.ALPN, alpn), and the comparisons of Match for one rule.
Satisfies(r, sni, alpn) ==
    /\ r.sni # None => r.sni = sni
    /\ r.alpn # {} => alpn \in r.alpn

NoRule == [addr |-> None, port |-> 0]

\* Mutant: the loop returns the default rule where it meets it.
MatchDefaultEarly(rules, sni, alpn) ==
    LET hits == {i \in DOMAIN rules : rules[i].default \/ Satisfies(rules[i], sni, alpn)}
    IN IF hits = {} THEN NoRule ELSE rules[CHOOSE i \in hits : \A j \in hits : i <= j]

\* Match: the loop skips the first default rule it meets and returns the first
\* other rule that is satisfied; without one it returns the default.  A second
\* default rule is compared like any other.
Match(rules, sni, alpn) ==
    LET defaults == {i \in DOMAIN rules : rules[i].default}
        First(S) == CHOOSE i \in S : \A j \in S : i <= j
        hits == {i \in DOMAIN rules : /\ defaults # {} => i # First(defaults)
                                      /\ Satisfies(rules[i], sni, alpn)}
    IN CASE hits # {} -> rules[First(hits)]
         [] hits = {} /\ defaults # {} -> rules[First(defaults)]
         [] OTHER -> NoRule

\* RulesFromConfig: malformed entries are dropped.
ValidPort(port) == port \in 1 .. 65535
ValidRule(c) ==
    /\ c.addr # None
    /\ ValidPort(c.port)
    /\ c.proxy \in 0 .. 2
RulesFromConfig(in) ==
    LET out[i \in 0 .. Len(in)] ==
            IF i = 0 THEN <<>> ELSE IF ValidRule(in[i]) THEN Append(out[i - 1], in[i]) ELSE out[i - 1]
    IN out[Len(in)]

RulesFromLegacy(addr, port) ==
    IF ~ValidPort(port)
    THEN <<>>
    ELSE <<[sni |-> None, alpn |-> {}, addr |-> addr, port |-> port, proxy |-> 0, default |-> TRUE]>>

MergeRules(structured, addr, port) ==
    IF structured # <<>> THEN structured ELSE RulesFromLegacy(addr, port)

\* Unwrap: the walk from the outermost wrapper inwards, eight wrappers at most;
\* wrappers without NetConn stop it.  A wrapper that carries a rule is the pair
\* of its name and the rule.
Transparent == {"rewind", "transport", "tls", "rule"}
Unwrap(chain) ==
    LET Reaches(i) == i <= 8 /\ \A j \in 1 .. i - 1 : chain[j].name \in Transparent
        hits == {i \in DOMAIN chain : Reaches(i) /\ chain[i].name = "rule"}
    IN IF hits = {} THEN NoRule ELSE chain[CHOOSE i \in hits : \A j \in hits : i <= j].rule
=============================================================================
