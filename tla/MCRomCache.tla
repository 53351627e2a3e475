------------------------------ MODULE MCRomCache ------------------------------
(* Instance of the ROM cache for TLC. *)
EXTENDS RomCache, TLC

Processes == Permutations(Process)
=============================================================================
