---------------------------- MODULE RouterRules ----------------------------
(***************************************************************************)
(* The rules of tunnel/router: how the configured lists become the three   *)
(* tables of the client, and which policy an address gets from them while  *)
(* the answers of the resolver change.  Names are sequences of characters  *)
(* of a small alphabet because the rules are about suffixes of them; a     *)
(* regular expression is the set of names it matches.                      *)
(***************************************************************************)
EXTENDS Naturals, Sequences

CONSTANTS
    RouteAddrs,     \* addresses to route: [domain, name, ip]
    Answers,        \* what the resolver may answer, NoIP included
    NoIP,           \* not resolved
    InNet(_, _),    \* external: net.IPNet.Contains
    GeoIP(_),       \* external: networks of a country code, {} when it cannot be loaded
    GeoSite(_),     \* external: rules of a site code, with their attributes
    NoAttr,         \* a geosite rule without @attribute
    EmptyCode,      \* what is left of a rule such as "domain:"
    Invalid,        \* a value that cannot be parsed
    RouterConfigs   \* configurations a client is built from

Strategies == {"as_is", "ip_if_non_match", "ip_on_demand"}

\* What is not one of the strategies cannot be parsed.
ASSUME RouterAssumption == \A cfg \in RouterConfigs : cfg.strategy \in Strategies \cup {Invalid}

VARIABLES router,   \* the client; started is FALSE when NewClient failed
          answer,   \* what the resolver answers now
          routed    \* the address routed last, what it resolved to, its policy

rrvars == <<router, answer, routed>>

Block == 0
Bypass == 1
Proxy == 2
Policies == Block .. Proxy
-----------------------------------------------------------------------------
(***************************************************************************)
(* Matching                                                                *)
(***************************************************************************)

\* strings.Contains and strings.Index.
Occurs(s, v, i) == i + Len(v) <= Len(s) + 1 /\ SubSeq(s, i, i + Len(v) - 1) = v
IndexOf(s, v) == CHOOSE i \in 1 .. Len(s) : Occurs(s, v, i) /\ \A j \in 1 .. i - 1 : ~Occurs(s, v, j)

\* A root domain must be a suffix, and its first occurrence must begin the name
\* or follow a dot.
HitsRoot(v, target) ==
    /\ Len(v) <= Len(target) /\ Occurs(target, v, Len(target) - Len(v) + 1)
    /\ LET i == IndexOf(target, v) IN i = 1 \/ target[i - 1] = "."

MatchDomain(list, target) ==
    \/ target \in list.full
    \/ \E v \in list.root : HitsRoot(v, target)
    \/ \E v \in list.plain : \E i \in 1 .. Len(target) : Occurs(target, v, i)
    \/ \E re \in list.regex : target \in re

\* Only networks of the address's own family are compared.
MatchIP(list, ip) == \E n \in list : n.v6 = ip.v6 /\ InNet(ip, n)
-----------------------------------------------------------------------------
(***************************************************************************)
(* NewClient                                                               *)
(***************************************************************************)

\* The codes of one prefix in one of the lists; empty ones are skipped.
LoadCode(cfg, p, prefix) == cfg.rules[p][prefix] \ {EmptyCode}

\* geosite:code@attribute takes the rules with that attribute.
LoadSite(cfg, p, type) ==
    UNION {{d.value : d \in {x \in GeoSite(c.code) : x.type = type /\ (c.attr = NoAttr \/ c.attr \in x.attrs)}} :
              c \in LoadCode(cfg, p, "geosite")}

Domains(cfg, p) ==
    [full  |-> LoadCode(cfg, p, "full") \cup LoadSite(cfg, p, "full"),
     root  |-> LoadCode(cfg, p, "domain") \cup LoadSite(cfg, p, "root"),
     plain |-> LoadCode(cfg, p, "keyword") \cup LoadSite(cfg, p, "plain"),
     regex |-> LoadCode(cfg, p, "regex") \cup LoadCode(cfg, p, "regexp") \cup LoadSite(cfg, p, "regex")]

Cidrs(cfg, p) == LoadCode(cfg, p, "cidr") \cup UNION {GeoIP(c) : c \in LoadCode(cfg, p, "geoip")}

\* A strategy, a default policy, a regular expression or a CIDR that cannot be
\* parsed refuses the configuration; geodata that cannot be loaded does not.
Refused(cfg) ==
    \/ cfg.strategy = Invalid \/ cfg.default = Invalid
    \/ \E p \in Policies : \E k \in {"regex", "regexp", "cidr"} : Invalid \in cfg.rules[p][k]

NewClient(cfg) ==
    IF Refused(cfg) THEN [started |-> FALSE]
    ELSE [started  |-> TRUE, strategy |-> cfg.strategy, default |-> cfg.default,
          domains  |-> [p \in Policies |-> Domains(cfg, p)],
          cidrs    |-> [p \in Policies |-> Cidrs(cfg, p)]]
-----------------------------------------------------------------------------
(***************************************************************************)
(* Route                                                                   *)
(***************************************************************************)

\* The first table in the order block, bypass, proxy.
First(hits) == CHOOSE p \in hits : \A q \in hits : p <= q
DomainHits(c, name) == {p \in Policies : MatchDomain(c.domains[p], name)}
IPHits(c, ip) == IF ip = NoIP THEN {} ELSE {p \in Policies : MatchIP(c.cidrs[p], ip)}

\* Mutant: the names are consulted first although IPs are wanted on demand.
RouteNamesFirst(c, a, ip) ==
    LET names == IF a.domain THEN DomainHits(c, a.name) ELSE {}
        late  == IF ~a.domain \/ c.strategy # "as_is" THEN IPHits(c, ip) ELSE {}
    IN IF names # {} THEN First(names) ELSE IF late # {} THEN First(late) ELSE c.default

Route(c, a, ip) ==
    LET early == IF a.domain /\ c.strategy = "ip_on_demand" THEN IPHits(c, ip) ELSE {}
        names == IF a.domain THEN DomainHits(c, a.name) ELSE {}
        late  == IF ~a.domain \/ c.strategy = "ip_if_non_match" THEN IPHits(c, ip) ELSE {}
    IN IF early # {} THEN First(early)
       ELSE IF names # {} THEN First(names)
       ELSE IF late # {} THEN First(late)
       ELSE c.default

RtInit ==
    /\ \E cfg \in RouterConfigs : router = NewClient(cfg)
    /\ answer = NoIP
    /\ routed = [addr |-> CHOOSE a \in RouteAddrs : TRUE, ip |-> NoIP, policy |-> Block, left |-> "nowhere"]

ResolverChanges(ip) ==
    /\ answer' = ip
    /\ UNCHANGED <<router, routed>>

\* The IP Route uses: the address's own, or ResolveIP's.
Resolved(a) == IF a.domain THEN answer ELSE a.ip

\* WriteWithMetadata and DialConn: refused, through the proxy, or direct, where a
\* datagram needs an address (the one Route resolved is kept in the metadata) and
\* a dial takes the name.
RouteTo(a, udp) ==
    LET p == Route(router, a, Resolved(a)) IN
    /\ router.started
    /\ routed' = [addr |-> a, ip |-> Resolved(a), policy |-> p,
                  left |-> CASE p = Block -> "nowhere"
                             [] p = Proxy -> "proxy"
                             [] p = Bypass -> IF udp /\ Resolved(a) = NoIP THEN "nowhere" ELSE "direct"]
    /\ UNCHANGED <<router, answer>>

RtNext == \/ \E ip \in Answers : ResolverChanges(ip)
          \/ \E a \in RouteAddrs, udp \in BOOLEAN : RouteTo(a, udp)

\* What a block rule names never leaves, whatever the resolver answers between two
\* packets, except where the strategy ranks another table first: on demand an
\* address with a rule for its network goes by that rule, not by its name; as_is
\* never looks at the network of a name, and if_non_match only when no rule knows
\* the name.
BlockedNeverLeaves ==
    LET a == routed.addr
        c == router
        byName == a.domain /\ DomainHits(c, a.name) # {}
        byNet == IPHits(c, routed.ip) # {}
    IN c.started /\ routed.left # "nowhere" =>
        /\ a.domain /\ Block \in DomainHits(c, a.name) => c.strategy = "ip_on_demand" /\ byNet
        /\ Block \in IPHits(c, routed.ip) =>
              /\ a.domain
              /\ c.strategy = "as_is" \/ (c.strategy = "ip_if_non_match" /\ byName)
=============================================================================
