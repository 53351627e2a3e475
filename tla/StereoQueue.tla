----------------------------- MODULE StereoQueue -----------------------------
(***************************************************************************)
(* The bounded PCM queue of the sound output, as operators on its state    *)
(* (BoundedStereoQueue in src/native/sound/queue.rs).                      *)
(*                                                                         *)
(* A stereo frame is named by its ordinal in the order the emulator        *)
(* rendered it (1, 2, 3, ...): the code never looks at a sample to decide  *)
(* anything.  0 stands for the default (silent) sample.  The counters are  *)
(* u64 and only ever saturate, so they are natural numbers here.           *)
(***************************************************************************)
EXTENDS Integers, Sequences

CONSTANTS
  Capacity,             \* capacity_frames of the queue (44100 in the program)
  RecoveryMinCapacity,  \* REALTIME_RECOVERY_MIN_CAPACITY_FRAMES (4096)
  MaxConcealment,       \* MAX_CONCEALMENT_FRAMES (128)
  SmallCapacity,        \* below this capacity the watermarks have no floor (1024)
  LowFloor,             \* floor of the low watermark (512)
  CriticalFloor         \* floor of the critical watermark (128)

ASSUME QueueConstants ==
  /\ Capacity \in Nat \ {0}
  /\ RecoveryMinCapacity \in Nat
  /\ MaxConcealment \in Nat
  /\ SmallCapacity \in Nat /\ LowFloor \in Nat /\ CriticalFloor \in Nat
  /\ CriticalFloor <= LowFloor /\ LowFloor <= SmallCapacity

Silence == 0
Frame == Nat \ {0}

\* The fixed-point playout rates, 16 fractional bits.
RateOne == 65536
RateEmergency == 32768
RateCritical == 43690
RateLow == 49152
RateGuard == 57344

Least(a, b) == IF a <= b THEN a ELSE b
Greatest(a, b) == IF a >= b THEN a ELSE b
Clamp(x, lo, hi) == Greatest(lo, Least(x, hi))

\* The last n elements of s, or all of s when it is shorter.
LastN(s, n) == SubSeq(s, Greatest(1, Len(s) - n + 1), Len(s))

QueueType ==
  [frames : Seq(Frame), pushed : Nat, popped : Nat, dropped : Nat,
   underflow : Nat, output : Nat, repeated : Nat, concealed : Nat,
   starvation : Nat, peak : 0..Capacity, prepared : BOOLEAN, low : Nat,
   critical : Nat, last : Frame \cup {Silence}, lastValid : BOOLEAN,
   starved : BOOLEAN, phase : 0..RateOne, conceal : 0..MaxConcealment,
   stretch : Nat]

NewQueue ==
  [frames |-> <<>>, pushed |-> 0, popped |-> 0, dropped |-> 0,
   underflow |-> 0, output |-> 0, repeated |-> 0, concealed |-> 0,
   starvation |-> 0, peak |-> 0, prepared |-> FALSE, low |-> 0,
   critical |-> 0, last |-> Silence, lastValid |-> FALSE,
   starved |-> FALSE, phase |-> RateOne, conceal |-> 0, stretch |-> 0]
-----------------------------------------------------------------------------
(***************************************************************************)
(* Filling the queue.                                                      *)
(***************************************************************************)

\* Length from which a refill re-arms the stretch run.
StretchRecovery(q) ==
  Greatest(Least(q.low + q.critical \div 2, Capacity), Greatest(q.low, 1))

\* Variant: any refill re-arms both runs.
ResetRunsAlways(q) == [q EXCEPT !.conceal = 0, !.stretch = 0]

\* A refill to the critical watermark re-arms concealment, one to the
\* stretch recovery length re-arms stretching.
ResetRecoveryRuns(q) ==
  LET n == Len(q.frames) IN
  [q EXCEPT
    !.conceal = IF q.prepared /\ n >= Greatest(q.critical, 1) THEN 0 ELSE @,
    !.stretch = IF q.prepared /\ n >= StretchRecovery(q) THEN 0 ELSE @]

\* Variant: keeps the oldest frames and drops the new ones that do not fit.
PushSliceKeepingOldest(q, fs) ==
  LET kept == SubSeq(q.frames \o fs, 1, Least(Capacity, Len(q.frames) + Len(fs))) IN
  ResetRecoveryRuns(
    [q EXCEPT !.frames = kept,
              !.pushed = @ + Len(fs),
              !.dropped = @ + (Len(q.frames) + Len(fs) - Len(kept)),
              !.peak = Greatest(@, Len(kept))])

\* push_slice: append and drop the oldest frames that no longer fit.
PushSlice(q, fs) ==
  IF fs = <<>> THEN q
  ELSE LET kept == LastN(q.frames \o fs, Capacity) IN
       ResetRecoveryRuns(
         [q EXCEPT !.frames = kept,
                   !.pushed = @ + Len(fs),
                   !.dropped = @ + (Len(q.frames) + Len(fs) - Len(kept)),
                   !.peak = Greatest(@, Len(kept))])

\* Variant: the displaced frame is not counted.
PushUncounted(q, f) ==
  LET kept == Append(IF Len(q.frames) = Capacity THEN Tail(q.frames) ELSE q.frames, f) IN
  ResetRecoveryRuns(
    [q EXCEPT !.frames = kept, !.pushed = @ + 1, !.peak = Greatest(@, Len(kept))])

\* push: one frame, dropping the oldest one when the queue is full.
Push(q, f) ==
  LET full == Len(q.frames) = Capacity
      kept == Append(IF full THEN Tail(q.frames) ELSE q.frames, f) IN
  ResetRecoveryRuns(
    [q EXCEPT !.frames = kept,
              !.pushed = @ + 1,
              !.dropped = IF full THEN @ + 1 ELSE @,
              !.peak = Greatest(@, Len(kept))])
-----------------------------------------------------------------------------
(***************************************************************************)
(* Starting playback.                                                      *)
(***************************************************************************)

LowWatermark(target) ==
  IF target = 0 THEN 0
  ELSE IF Capacity < SmallCapacity THEN Greatest(target \div 2, 1)
  ELSE Clamp(target \div 2, LowFloor, Capacity)

CriticalWatermark(target) ==
  LET low == LowWatermark(target) IN
  IF target = 0 THEN 0
  ELSE IF Capacity < SmallCapacity THEN Least(Greatest(low \div 4, 1), low)
  ELSE Least(Clamp(low \div 2, CriticalFloor, low), low)

\* prepare_for_playback: keep the newest prebuffer frames, restart the counters.
Prepare(q, prebuffer) ==
  LET keep == Least(prebuffer, Capacity)
      kept == LastN(q.frames, keep) IN
  [NewQueue EXCEPT
    !.frames = kept,
    !.peak = Len(kept),
    !.prepared = TRUE,
    !.low = LowWatermark(keep),
    !.critical = CriticalWatermark(keep),
    !.last = IF kept = <<>> THEN Silence ELSE Head(kept),
    !.lastValid = kept # <<>>]
-----------------------------------------------------------------------------
(***************************************************************************)
(* Draining the queue.                                                     *)
(***************************************************************************)

CanRecover(q) == q.prepared /\ Capacity >= RecoveryMinCapacity

BelowLowWater(q) ==
  /\ CanRecover(q)
  /\ q.lastValid
  /\ q.frames # <<>>
  /\ Len(q.frames) < q.low

\* Variant: the emergency rate is a third.
PlayoutRateSlower(q) ==
  IF Len(q.frames) <= Greatest(q.critical, 1) \div 2 THEN 21845
  ELSE IF Len(q.frames) <= q.critical THEN RateCritical
  ELSE RateLow

\* low_water_playout_rate, where it is defined (BelowLowWater).
PlayoutRate(q) ==
  LET n == Len(q.frames)
      critical == Greatest(q.critical, 1) IN
  IF n <= critical \div 2 THEN RateEmergency
  ELSE IF n <= critical THEN RateCritical
  ELSE IF n <= 2 * critical THEN RateLow
  ELSE RateGuard

\* Variant: tests the ratio before the repeat instead of after it.
CanStretchBefore(q) == 3 * q.repeated <= q.output

\* can_emit_adaptive_stretch_frame: repeats stay within a third of the output.
CanStretch(q) == 3 * (q.repeated + 1) <= q.output + 1

Stretches(q) ==
  /\ BelowLowWater(q)
  /\ q.phase + PlayoutRate(q) < RateOne
  /\ CanStretch(q)

\* Emit an interpolated frame and leave the queue as it is.
Stretch(q) ==
  [q EXCEPT !.phase = @ + PlayoutRate(q),
            !.output = @ + 1,
            !.repeated = @ + 1,
            !.stretch = @ + 1,
            !.starved = FALSE]

\* Variant: a refused stretch does not restart the phase.
PhaseAfterTakeUnchecked(q) ==
  IF ~BelowLowWater(q) THEN RateOne ELSE q.phase + PlayoutRate(q) - RateOne

\* The phase after a real frame is taken: below the low watermark the rate is
\* added and a whole frame subtracted; a stretch refused restarts it at zero.
PhaseAfterTake(q) ==
  IF ~BelowLowWater(q) THEN RateOne
  ELSE Greatest(q.phase + PlayoutRate(q), RateOne) - RateOne

TakeFrame(q) ==
  [q EXCEPT !.frames = Tail(@),
            !.popped = @ + 1,
            !.output = @ + 1,
            !.last = Head(q.frames),
            !.lastValid = TRUE,
            !.starved = FALSE]

\* conceal_starved_frame: a fading repeat of the last output, while it lasts.
Conceals(q) == CanRecover(q) /\ q.lastValid /\ q.conceal < MaxConcealment

\* Variant: counts a starvation for every empty pop.
StarveEveryPop(q) ==
  [q EXCEPT !.phase = RateOne,
            !.output = @ + 1,
            !.starvation = IF q.prepared THEN @ + 1 ELSE @,
            !.conceal = IF Conceals(q) THEN @ + 1 ELSE @,
            !.concealed = IF Conceals(q) THEN @ + 1 ELSE @,
            !.underflow = IF Conceals(q) THEN @ ELSE @ + 1]

\* Nothing queued: count one starvation per empty spell, conceal or be silent.
Starve(q) ==
  [q EXCEPT !.phase = RateOne,
            !.output = @ + 1,
            !.starvation = IF q.prepared /\ ~q.starved THEN @ + 1 ELSE @,
            !.starved = @ \/ q.prepared,
            !.conceal = IF Conceals(q) THEN @ + 1 ELSE @,
            !.concealed = IF Conceals(q) THEN @ + 1 ELSE @,
            !.underflow = IF Conceals(q) THEN @ ELSE @ + 1]

\* pop_for_playback.
Pop(q) ==
  IF q.frames = <<>> THEN Starve(q)
  ELSE IF Stretches(q) THEN Stretch(q)
  ELSE [TakeFrame(q) EXCEPT !.phase = PhaseAfterTake(q)]

\* pop_or_silence: the plain pop, with neither stretching nor concealment.
PopOrSilence(q) ==
  IF q.frames # <<>> THEN TakeFrame(q)
  ELSE [q EXCEPT !.underflow = @ + 1, !.output = @ + 1]

\* Does Pop take a real frame out of the queue?
TakesFrame(q) == q.frames # <<>> /\ ~Stretches(q)
=============================================================================
