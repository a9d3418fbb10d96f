------------------------------ MODULE Control ------------------------------
(***************************************************************************)
(* The parts that stand by themselves, side by side: key pair reload, the  *)
(* recorder, the user API, the packet format, dialling out and the router  *)
(* rules.  A behaviour is one of the part chosen at the start; the others  *)
(* stay in one initial state.                                              *)
(***************************************************************************)
EXTENDS KeyPairReload, Recorder, UserAPI, PacketStream, Outbound, RouterRules

VARIABLE part

vars == <<part, kvars, recvars, uvars, pvars, ovars, rrvars>>

Init ==
    /\ part \in {"keys", "records", "api", "packets", "dial", "router"}
    /\ KeyInit /\ (part # "keys" => ~password)
    /\ RecInit /\ (part # "records" => ~build.compiled /\ ~build.allowed)
    /\ ApiInit /\ (part # "api" => \A h \in Hash : users[h] = NoUser)
    /\ PktInit
    /\ OutInit /\ (part # "dial" => packet /\ Len(layers) = 2 /\ layers[1] = "transport")
    /\ RtInit /\ (part # "router" => ~router.started)

Next ==
    /\ UNCHANGED part
    /\ \/ part = "keys" /\ KeyNext /\ UNCHANGED <<recvars, uvars, pvars, ovars, rrvars>>
       \/ part = "records" /\ RecNext /\ UNCHANGED <<kvars, uvars, pvars, ovars, rrvars>>
       \/ part = "api" /\ ApiNext /\ UNCHANGED <<kvars, recvars, pvars, ovars, rrvars>>
       \/ part = "packets" /\ PktNext /\ UNCHANGED <<kvars, recvars, uvars, ovars, rrvars>>
       \/ part = "dial" /\ OutNext /\ UNCHANGED <<kvars, recvars, uvars, pvars, rrvars>>
       \/ part = "router" /\ RtNext /\ UNCHANGED <<kvars, recvars, uvars, pvars, ovars>>

\* The key pair loop and its ticker run; a dialled connection's writers run and
\* the sleep of the flusher ends.
Fairness ==
    /\ WF_kvars(part = "keys" /\ WatchStep)
    /\ WF_ovars(part = "dial" /\ EnterOnce("flusher"))
    /\ \A w \in {"relay", "flusher"} :
          WF_ovars(part = "dial" /\ WriteHeader(w)) /\ WF_ovars(part = "dial" /\ WriteAfterHeader(w))

Spec == Init /\ [][Next]_vars /\ Fairness
=============================================================================
