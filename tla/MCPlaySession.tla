---------------------------- MODULE MCPlaySession -----------------------------
(***************************************************************************)
(* Two output buffers, a channel of two captures, three presented frames.   *)
(***************************************************************************)
EXTENDS PlaySession
=============================================================================
