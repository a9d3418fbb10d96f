----------------------------- MODULE MCControl -----------------------------
(* A small instance of Control. *)
EXTENDS Control

MCRecords == {[transport |-> "TCP", port |-> "80", payload |-> "empty"],
              [transport |-> "UDP", port |-> "53", payload |-> "data"]}

\* Names of one byte, one that is an IP address, and one of the greatest length.
MCParseIP(host) == IF host = <<49>> THEN <<1, 1, 1, 1>> ELSE <<>>
MCPacketAddrs ==
    {[type |-> IPv4, host |-> <<3, 1, 4, 3>>, port |-> 259],
     [type |-> DomainName, host |-> <<49>>, port |-> 65535],
     [type |-> DomainName, host |-> [i \in 1 .. 253 |-> 3], port |-> 0]}
MCPayloads == {<<>>, <<1, 0, 0>>, <<1, 2, 3, 4, 5>>}

\* "a", "x.a", "xa", "a.xa"
A == <<"a">>
XA == <<"x", ".", "a">>
NotXA == <<"x", "a">>
MCRouteAddrs ==
    {[domain |-> TRUE, name |-> n, ip |-> NoIP] : n \in {A, XA, NotXA, <<"a", ".", "x", "a">>}} \cup
    {[domain |-> FALSE, name |-> <<>>, ip |-> [v6 |-> FALSE, host |-> 1]]}
MCAnswers == {NoIP, [v6 |-> FALSE, host |-> 1], [v6 |-> TRUE, host |-> 2]}
Net4 == [v6 |-> FALSE, hosts |-> {1}]
Net6 == [v6 |-> TRUE, hosts |-> {1, 2}]
MCInNet(ip, n) == ip.host \in n.hosts
MCGeoIP(c) == IF c = "four" THEN {Net4} ELSE {}
MCGeoSite(c) == {[type |-> "root", value |-> A, attrs |-> {"ads"}], [type |-> "full", value |-> NotXA, attrs |-> {}]}

Empty == [k \in {"full", "domain", "keyword", "regex", "regexp", "cidr", "geoip", "geosite"} |-> {}]
MCRouterConfigs ==
    {[strategy |-> s, default |-> d, rules |-> r] :
        s \in Strategies, d \in Policies,
        r \in {<<[Empty EXCEPT !["domain"] = {A}], [Empty EXCEPT !["geoip"] = {"four"}], Empty>>,
               <<[Empty EXCEPT !["cidr"] = {Net4}], [Empty EXCEPT !["full"] = {XA}], [Empty EXCEPT !["keyword"] = {A}]>>,
               <<[Empty EXCEPT !["cidr"] = {Net6}, !["geosite"] = {[code |-> "site", attr |-> "ads"]}],
                 [Empty EXCEPT !["regex"] = {{NotXA}}],
                 [Empty EXCEPT !["geosite"] = {[code |-> "site", attr |-> NoAttr]}, !["domain"] = {EmptyCode}]>>}}
Shifted == {[c EXCEPT !.rules = [p \in Policies |-> c.rules[p + 1]]] : c \in MCRouterConfigs}
MCConfigs == Shifted \cup {[c EXCEPT !.strategy = Invalid] : c \in Shifted}
=============================================================================
