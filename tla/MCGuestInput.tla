---------------------------- MODULE MCGuestInput ----------------------------
(* The packets of the board in two modes; the analog packet is cut to two    *)
(* data bytes, so that a packet has a middle.                                *)
EXTENDS GuestInput
MCDataBytes == [digital |-> 1, analog |-> 2]
=============================================================================
