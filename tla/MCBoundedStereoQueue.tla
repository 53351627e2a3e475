------------------------ MODULE MCBoundedStereoQueue ------------------------
(* Instance of the sound queue for TLC. *)
EXTENDS BoundedStereoQueue
=============================================================================
