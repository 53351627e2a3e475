----------------------------- MODULE MCGymServer ------------------------------
(***************************************************************************)
(* Two connections, two characters, health bars of one unit, an episode of *)
(* three frames and requests of at most four.                              *)
(***************************************************************************)
EXTENDS GymServer, TLC

Press(n) == [buttons |-> "attack", frames |-> n]

MCRequest ==
  {[kind |-> "health"], [kind |-> "screenshot"],
   [kind |-> "reset", chars |-> <<"same", "same">>, shot |-> FALSE],
   [kind |-> "reset", chars |-> <<"yugo", "same">>, shot |-> TRUE],
   [kind |-> "step", buttons |-> "attack", frames |-> 2, shot |-> FALSE],
   [kind |-> "action", player |-> 1, character |-> "gado", name |-> "tap", shot |-> TRUE],
   [kind |-> "action", player |-> 1, character |-> "yugo", name |-> "double_tap", shot |-> FALSE],
   [kind |-> "sequence", segments |-> <<Press(2), Press(1)>>, shot |-> TRUE],
   [kind |-> "sequence", segments |-> <<Press(4), Press(1)>>, shot |-> FALSE]}

Symmetry == Permutations(Thread)
=============================================================================
