---------------------------- MODULE MCMuxClient ----------------------------
(***************************************************************************)
(* Two streams over up to two sessions of one stream at a time, with room  *)
(* for one held back header in each queue.                                 *)
(***************************************************************************)
EXTENDS MuxClient
=============================================================================
