------------------------- MODULE MCSharedStereoQueue -------------------------
(* Instance of the shared sound queue for TLC. *)
EXTENDS SharedStereoQueue
=============================================================================
