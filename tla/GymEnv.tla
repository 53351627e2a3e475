-------------------------------- MODULE GymEnv --------------------------------
(***************************************************************************)
(* The Gym environment over the native backend: BloodyRoar2Env<B> in       *)
(* src/env.rs with NativeBackend of src/native/backend.rs as B, as         *)
(* operators on one record.  A call that may end in several ways is given  *)
(* the outcome of the emulated machine as an argument.                     *)
(*                                                                         *)
(* The machine is seen through what the two modules read of it: the vblanks*)
(* it reaches, whether it has halted, whether its picture counts as a      *)
(* match (only then are the health bars read) and what the bars show.      *)
(* Health is in whole units of a bar, frames in vblanks.  Beast meters,    *)
(* checksums and timing are left out: nothing branches on them.            *)
(***************************************************************************)
EXTENDS Integers, Sequences

CONSTANTS
  Character,  \* the roster
  Boot,       \* the character both players have when the backend is created
  FullHealth, \* units in a full health bar
  MaxFrames,  \* max_frames: an episode is truncated from this frame on
  MaxStep,    \* MAX_STEP_FRAMES: frames one request may ask for
  MaxSegments \* MAX_ACTION_SEQUENCE_SEGMENTS

ASSUME GymConstants ==
  /\ Boot \in Character
  /\ FullHealth \in Nat \ {0} /\ MaxFrames \in Nat \ {0} /\ MaxStep \in Nat \ {0}
  /\ MaxSegments \in Nat \ {0}

Player == {1, 2}
Bars == [Player -> 0..FullHealth]
Buttons == {"none", "attack"}
Segment == [buttons : Buttons, frames : Nat]
-----------------------------------------------------------------------------
(***************************************************************************)
(* State.                                                                  *)
(***************************************************************************)

Observation ==
  [known : BOOLEAN, frame : Nat, health : Bars, terminal : BOOLEAN, shot : BOOLEAN]

EnvType ==
  [frame : Nat,           \* frames since the last reset
   bars : Bars,           \* what the health bars on the screen show
   readable : BOOLEAN,    \* does the picture count as a match?
   halted : BOOLEAN,      \* has the emulated machine stopped?
   held : Buttons,        \* the buttons the guest sees
   health : Bars,         \* the health last read
   requiresReset : BOOLEAN,
   chars : [Player -> Character],
   shot : BOOLEAN,        \* include_screenshot
   last : Observation]    \* last_observation, None when not known

Full == [p \in Player |-> FullHealth]

NoObservation ==
  [known |-> FALSE, frame |-> 0, health |-> Full, terminal |-> FALSE, shot |-> FALSE]

NewEnv ==
  [frame |-> 0, bars |-> Full, readable |-> TRUE, halted |-> FALSE,
   held |-> "none", health |-> Full, requiresReset |-> FALSE,
   chars |-> [p \in Player |-> Boot], shot |-> FALSE, last |-> NoObservation]
-----------------------------------------------------------------------------
(***************************************************************************)
(* The native backend.                                                     *)
(***************************************************************************)

SetScreenshot(e, on) == [e EXCEPT !.shot = on]

\* make_observation reads the bars of a match and keeps the old health otherwise.
ReadHud(e) == IF e.readable THEN [e EXCEPT !.health = e.bars] ELSE e

MakeObservation(e) ==
  [known |-> TRUE, frame |-> e.frame, health |-> e.health,
   terminal |-> e.halted \/ \E p \in Player : e.health[p] = 0,
   shot |-> e.shot]

\* The observation a call returns is the one the environment keeps.
Observed(e) ==
  LET read == ReadHud(e) IN [read EXCEPT !.last = MakeObservation(read)]

\* NativeBackend::reset restores the checkpoint of the match, which releases all
\* buttons.
BackendReset(e) ==
  [e EXCEPT !.frame = 0, !.bars = Full, !.readable = TRUE, !.halted = FALSE,
            !.held = "none", !.health = Full, !.requiresReset = FALSE]

ResetEnv(e) == Observed(BackendReset(e))

\* A new match is prepared on a copy: one that fails changes nothing.
ResetMatch(e, chars) == ResetEnv([e EXCEPT !.chars = chars])

\* What the machine may do with `frames` vblanks: reach them all, halt on one of
\* them, or stall before the next.
Outcome(e, frames) ==
  {o \in [vblanks : 0..frames, stalled : BOOLEAN, halted : BOOLEAN,
          bars : Bars, readable : BOOLEAN] :
     /\ e.halted => o.halted /\ o.stalled /\ o.vblanks = 0
     /\ o.stalled => o.vblanks < frames
     /\ ~o.stalled => o.vblanks = frames \/ (o.halted /\ o.vblanks > 0)
     /\ o.vblanks = 0 => o.bars = e.bars /\ o.readable = e.readable}

\* NativeBackend::step up to the vblanks reached; a stall asks for a reset.
BackendStep(e, buttons, o) ==
  [e EXCEPT !.held = buttons, !.frame = @ + o.vblanks, !.bars = o.bars,
            !.readable = o.readable, !.halted = o.halted,
            !.requiresReset = o.stalled]
-----------------------------------------------------------------------------
(***************************************************************************)
(* The environment.                                                        *)
(***************************************************************************)

\* step_buttons starts an episode by itself when nothing was observed yet.
Started(e) == IF e.last.known THEN e ELSE BackendReset(e)

\* The observation a step's reward is measured from.
Previous(e) == IF e.last.known THEN e.last ELSE MakeObservation(ReadHud(BackendReset(e)))

\* Variant: the backend steps on after a stall.
StepRefusedNever(e) == FALSE

\* After a stall the backend takes no step until it is reset.
StepRefused(e) == Started(e).requiresReset

\* step_buttons, when the backend takes the step and comes back.
StepButtons(e, buttons, o) == Observed(BackendStep(Started(e), buttons, o))

\* ... and when it stalls: what was reached stays, nothing is observed.
StepStalled(e, buttons, o) == BackendStep(Started(e), buttons, o)

Reward(previous, current) ==
    10 * (previous.health[2] - current.health[2])
  - 8 * (previous.health[1] - current.health[1])

Truncated(obs) == obs.frame >= MaxFrames
Finished(obs) == obs.terminal \/ Truncated(obs)

TotalFrames(segments) ==
  LET sum[i \in 0..Len(segments)] ==
        IF i = 0 THEN 0 ELSE sum[i - 1] + segments[i].frames
  IN  sum[Len(segments)]

\* Variant: the segments are counted, their frames are not.
SequenceAllowedAnyLength(segments) ==
  /\ segments # <<>> /\ Len(segments) <= MaxSegments
  /\ \A i \in DOMAIN segments : segments[i].frames > 0

\* The checks step_sequence makes before it touches the backend.
SequenceAllowed(segments) ==
  /\ segments # <<>> /\ Len(segments) <= MaxSegments
  /\ \A i \in DOMAIN segments : segments[i].frames > 0
  /\ TotalFrames(segments) <= MaxStep
=============================================================================
