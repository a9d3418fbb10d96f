------------------------------ MODULE MCRelay ------------------------------
(***************************************************************************)
(* Relay on two sessions.  Sessions meet only in the redirection channel,  *)
(* so the pairs are two redirections, which compete for its one place, and *)
(* a connection with a packet association.                                 *)
(***************************************************************************)
EXTENDS Relay

Pairs ==
    { [s \in Session |-> "redirect"],
      CHOOSE k \in [Session -> {"conn", "packet"}] : \A s, t \in Session : k[s] = k[t] => s = t }
=============================================================================
