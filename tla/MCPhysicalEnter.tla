--------------------------- MODULE MCPhysicalEnter ----------------------------
(***************************************************************************)
(* Two attempts of each kind, a gap longer than a pulse, two slices a frame*)
(* (so that a slice can start with a sample Quartz had no part in).  Two   *)
(* setups: a common slot that a coin of player 2 does not fill far enough  *)
(* for player 1, and which is not ready at first, so that coins pile up and*)
(* a check may take them; and a slot for each player.                      *)
(***************************************************************************)
EXTENDS PhysicalEnter

TwoSetups ==
  {[price |-> <<2, 1>>, freeplay |-> FALSE, split |-> FALSE, ready |-> FALSE],
   [price |-> <<2, 2>>, freeplay |-> FALSE, split |-> TRUE, ready |-> TRUE]}
=============================================================================
