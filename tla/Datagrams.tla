----------------------------- MODULE Datagrams -----------------------------
(***************************************************************************)
(* UDP on the client: the sessions of the dispatchers, the deadlines of a  *)
(* socks packet connection and the router's packet connection.  A          *)
(* behaviour is one of the part chosen at the start; the others rest.      *)
(***************************************************************************)
EXTENDS UDPSessions, PacketDeadlines

VARIABLE part

dgvars == <<part, svars, dlvars, rvars>>

DgInit ==
    /\ part \in {"sessions", "deadline", "router"}
    /\ SessInit /\ (part # "sessions" => server = "socks")
    /\ DlInit
    /\ RcInit

DgNext ==
    /\ UNCHANGED part
    /\ \/ part = "sessions" /\ SessNext /\ UNCHANGED <<dlvars, rvars>>
       \/ part = "deadline" /\ DlNext /\ UNCHANGED <<svars, rvars>>
       \/ part = "router" /\ RcNext /\ UNCHANGED <<svars, dlvars>>

\* The dispatch loop runs, the proxy keeps accepting, the timers of quiet sessions
\* fire and their daemons finish; the goroutines of the router's connection run.
DgFairness ==
    /\ WF_svars(part = "sessions" /\ Announce)
    /\ WF_svars(part = "sessions" /\ Input)
    /\ WF_svars(part = "sessions" /\ UDPAcceptPacket)
    /\ \A k \in UDPSession :
          /\ WF_svars(part = "sessions" /\ DaemonQuiet(k))
          /\ WF_svars(part = "sessions" /\ DaemonEnds(k))
    /\ \A l \in Sides :
          /\ WF_rvars(part = "router" /\ LoopRead(l))
          /\ WF_rvars(part = "router" /\ LoopPut(l))
    /\ WF_rvars(part = "router" /\ RouterReadReturn)

DgSpec == DgInit /\ [][DgNext]_dgvars /\ DgFairness
=============================================================================
