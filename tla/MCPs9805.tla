------------------------------- MODULE MCPs9805 -------------------------------
(***************************************************************************)
(* Five sound cycles in seven main cycles, three frames in five sound      *)
(* cycles; quanta of three, two of them in a tick, eight cycles pending.   *)
(***************************************************************************)
EXTENDS Ps9805
=============================================================================
