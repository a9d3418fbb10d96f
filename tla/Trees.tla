------------------------------- MODULE Trees -------------------------------
(***************************************************************************)
(* The trees of servers the proxy modes build.  A node is the path of      *)
(* names from the bottom layer to it, and a tree is given by the nodes     *)
(* that were marked as endpoints.                                          *)
(***************************************************************************)
EXTENDS Naturals, Sequences

\* Node.BuildNext, applied along a list of names: nodes that exist are shared, so
\* the tree is the set of the paths' prefixes.
BuildNext(ends) == UNION {{SubSeq(p, 1, i) : i \in DOMAIN p} : p \in ends}

\* The nodes the proxy accepts connections from: marked ones and leaves.
FindAllEndpoints(ends) ==
    {n \in BuildNext(ends) : n \in ends \/ ~\E m \in BuildNext(ends) : Len(m) = Len(n) + 1 /\ SubSeq(m, 1, Len(n)) = n}

\* proxy/server: trojan and websocket on tls, or on transport when a plugin does
\* the work of tls; shadowsocks below each trojan; mux on each.
ServerTree(plugin, ss) ==
    LET root == IF plugin THEN <<"transport">> ELSE <<"transport", "tls">>
        trojan(n) == (IF ss THEN Append(n, "shadowsocks") ELSE n) \o <<"trojan">>
        marked(n) == {trojan(n), trojan(n) \o <<"mux", "simplesocks">>}
    IN marked(root) \cup marked(Append(root, "websocket"))

\* proxy/client: http and socks share the port of the adapter.
ClientTree == {<<"adapter", "http">>, <<"adapter", "socks">>}

\* The layers that stand directly on layer l.
Above(ends, l) == {n[Len(n)] : n \in {m \in BuildNext(ends) : Len(m) > 1 /\ m[Len(m) - 1] = l}}
=============================================================================
