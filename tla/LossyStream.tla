----------------------------- MODULE LossyStream -----------------------------
(***************************************************************************)
(* What the sound path promises, whatever its buffers and locks do: frames *)
(* are sent in order, each is heard at most once or lost, and nothing is   *)
(* heard that was not sent.  Order is not promised.                        *)
(***************************************************************************)
EXTENDS Integers, Sequences

VARIABLES
  sent,     \* number of frames sent, named 1..sent
  transit,  \* the frames neither heard nor lost yet
  heard     \* the frames heard, in order

vars == <<sent, transit, heard>>

Init == sent = 0 /\ transit = {} /\ heard = <<>>

\* A burst of frames enters; old frames may be displaced by it at once.
Send ==
  /\ sent' \in Nat /\ sent' > sent
  /\ transit' \in SUBSET (transit \cup (sent + 1)..sent')
  /\ UNCHANGED heard

Hear ==
  \E f \in transit :
    /\ heard' = Append(heard, f)
    /\ transit' = transit \ {f}
    /\ UNCHANGED sent

Lose ==
  /\ transit' \in SUBSET transit
  /\ UNCHANGED <<sent, heard>>

Next == Send \/ Hear \/ Lose

Spec == Init /\ [][Next]_vars
=============================================================================
