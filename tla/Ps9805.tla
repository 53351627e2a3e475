-------------------------------- MODULE Ps9805 --------------------------------
(***************************************************************************)
(* The sound board: the time of the main CPU turned into time of the sound *)
(* CPU and into rendered frames, and the latch by which the main CPU sends *)
(* commands (Ps9805SoundBoard and Ps9805Bus in src/native/sound/ps9805.rs).*)
(* The 68000 reads the latch whenever it likes while it runs. The shared   *)
(* queue it renders into is SharedStereoQueue; here it may hold any number *)
(* of frames. The interrupt line is left out.                              *)
(***************************************************************************)
EXTENDS Integers, Sequences

CONSTANTS
  SoundClock, MainClock, SampleRate, \* frequencies
  Quantum,        \* PS9805_EXECUTION_QUANTUM_CYCLES
  MaxQuanta,      \* PS9805_MAX_EXECUTION_QUANTA_PER_MAIN_TICK
  MaxPending,     \* PS9805_MAX_PENDING_SOUND_CYCLES
  Threshold,      \* PS9805_MAIN_CYCLE_BATCH_THRESHOLD
  CatchupTarget, CatchupMin, CatchupMax, \* PS9805_REALTIME_CATCHUP_*
  LatchCapacity,  \* PS9805_LATCH_QUEUE_CAPACITY
  TickLengths,    \* main cycles a tick may bring
  MaxMain,        \* bound: main cycles seen
  MaxCommands     \* bound: commands written

ASSUME BoardConstants ==
  /\ {SoundClock, MainClock, SampleRate, Quantum, MaxQuanta, Threshold, LatchCapacity}
       \subseteq Nat \ {0}
  /\ {MaxPending, CatchupTarget, CatchupMin, CatchupMax, MaxMain, MaxCommands} \subseteq Nat
  /\ TickLengths \subseteq Nat

VARIABLES
  batched,   \* main cycles not yet turned into sound cycles
  clock,     \* what carries fractions over: main (main_cycle_accumulator), frame
             \* (audio_frame_accumulator), and the sound cycles pending
  latch,     \* the latch: its last value, its flag and its queue of commands
  started,   \* stats.coreaudio_started
  job,       \* the call under way
  seen,      \* main_cycles_seen
  dropped,   \* audio_cpu_dropped_cycles
  ran,       \* history: sound cycles run and rendered
  frames,    \* history: frames rendered
  written,   \* history: commands written, which are numbered
  lost,      \* history: commands the full latch gave up
  reads      \* history: commands read, and the last of them

vars == <<batched, clock, latch, started, job, seen, dropped, ran, frames, written, lost,
          reads>>
history == <<ran, frames, written, lost, reads>>

Idle == [stage |-> "idle", left |-> 0, cycles |-> 0, catching |-> FALSE, next |-> "return"]

Init ==
  /\ batched = 0
  /\ clock = [main |-> 0, frame |-> 0, pending |-> 0]
  /\ latch = [value |-> 0, pending |-> FALSE, queue |-> <<>>]
  /\ started = FALSE
  /\ job = Idle
  /\ seen = 0 /\ dropped = 0
  /\ ran = 0 /\ frames = 0 /\ written = 0 /\ lost = 0
  /\ reads = [count |-> 0, last |-> 0, repeated |-> FALSE]

Least(a, b) == IF a <= b THEN a ELSE b
Excess(a, b) == IF a > b THEN a - b ELSE 0

\* Variant: the whole part forgets to scale.
ScaledTicksUnscaled(ticks, numerator, denominator, remainder) ==
  (ticks \div denominator) + ((ticks % denominator) * numerator + remainder) \div denominator

\* scaled_ticks_with_remainder: the ticks and, below, the remainder.
ScaledTicks(ticks, numerator, denominator, remainder) ==
  (ticks \div denominator) * numerator
    + ((ticks % denominator) * numerator + remainder) \div denominator

\* Variant: the fraction is carried on with the whole ticks still in it.
ScaledRemainderWhole(ticks, numerator, denominator, remainder) ==
  (ticks % denominator) * numerator + remainder

ScaledRemainder(ticks, numerator, denominator, remainder) ==
  ((ticks % denominator) * numerator + remainder) % denominator

SoundCycles(frameCount) == (frameCount * SoundClock) \div SampleRate

-----------------------------------------------------------------------------
(* Calls of the main CPU. Each first flushes the batched cycles, which may *)
(* run the sound CPU; what the call is for comes after (job.next).         *)

\* flush_batched_main_cycles of n cycles up to the choice of what to run.
Flush(n, next) ==
  LET arrived == clock.pending + ScaledTicks(n, SoundClock, MainClock, clock.main)
      pending == Least(arrived, MaxPending)
      quanta == IF n = 0 THEN 0 ELSE Least(pending \div Quantum, MaxQuanta)
  IN  /\ batched' = 0
      /\ clock' = [clock EXCEPT !.main = ScaledRemainder(n, SoundClock, MainClock, @),
                                !.pending = pending]
      /\ dropped' = dropped + Excess(arrived, MaxPending)
      /\ job' = [Idle EXCEPT !.stage = IF quanta = 0 THEN "then" ELSE "cpu",
                             !.left = quanta, !.cycles = Quantum, !.next = next]

TickMainCycles ==
  /\ job.stage = "idle"
  /\ \E n \in TickLengths :
       /\ seen + n <= MaxMain
       /\ seen' = seen + n
       /\ IF batched + n < Threshold
          THEN /\ batched' = batched + n
               /\ UNCHANGED <<clock, dropped, job>>
          ELSE Flush(batched + n, "return")
  /\ UNCHANGED <<latch, started, history>>

Call(next) ==
  /\ job.stage = "idle"
  /\ Flush(batched, next)
  /\ UNCHANGED <<latch, started, seen, history>>

\* write_latch, assert_irq2 and start_coreaudio.
WriteLatch == written < MaxCommands /\ Call("latch")
AssertIrq2 == Call("return")
StartCoreAudio == ~started /\ Call("start")

\* A clone has a new CPU, a new chip and a new queue, and goes on with the rest.
CloneBoard ==
  /\ job.stage = "idle" /\ started
  /\ started' = FALSE
  /\ UNCHANGED <<batched, clock, latch, job, seen, dropped, history>>

-----------------------------------------------------------------------------
(* The sound CPU, the renderer and the catch-up.                           *)

\* Variant: an empty queue leaves the flag of the latch alone.
ReadLatchStillPending ==
  /\ job.stage = "cpu"
  /\ LET value == IF latch.queue # <<>> THEN Head(latch.queue)
                  ELSE IF latch.pending THEN latch.value ELSE 0
     IN  /\ latch' = [latch EXCEPT !.queue = IF @ = <<>> THEN @ ELSE Tail(@)]
         /\ reads' = IF value = 0 THEN reads
                     ELSE [count |-> reads.count + 1, last |-> value,
                           repeated |-> reads.repeated \/ value <= reads.last]
  /\ UNCHANGED <<batched, clock, started, job, seen, dropped, ran, frames, written, lost>>

\* The sound CPU reads PS9805_LATCH_READ.
ReadLatch ==
  /\ job.stage = "cpu"
  /\ LET value == IF latch.queue # <<>> THEN Head(latch.queue)
                  ELSE IF latch.pending THEN latch.value ELSE 0
         rest == IF latch.queue = <<>> THEN <<>> ELSE Tail(latch.queue)
     IN  /\ latch' = [latch EXCEPT !.queue = rest, !.pending = rest # <<>>]
         /\ reads' = IF value = 0 THEN reads
                     ELSE [count |-> reads.count + 1, last |-> value,
                           repeated |-> reads.repeated \/ value <= reads.last]
  /\ UNCHANGED <<batched, clock, started, job, seen, dropped, ran, frames, written, lost>>

\* The CPU has had its cycles, also when it stopped before; they are rendered.
RunAndRender ==
  /\ job.stage = "cpu"
  /\ clock' = [clock EXCEPT !.frame = ScaledRemainder(job.cycles, SampleRate, SoundClock, @),
                            !.pending = Excess(@, job.cycles)]
  /\ frames' = frames + ScaledTicks(job.cycles, SampleRate, SoundClock, clock.frame)
  /\ ran' = ran + job.cycles
  /\ job' = IF job.left > 1 THEN [job EXCEPT !.left = @ - 1]
            ELSE [job EXCEPT !.left = 0,
                             !.stage = IF started /\ ~job.catching THEN "top_up" ELSE "then"]
  /\ UNCHANGED <<batched, latch, started, seen, dropped, written, lost, reads>>

\* top_up_realtime_audio for what the queue may hold, or when it is taken.
TopUp ==
  /\ job.stage = "top_up"
  /\ \/ job' = [job EXCEPT !.stage = "then"]
     \/ \E deficit \in CatchupMin..CatchupTarget :
          LET cycles == Least(SoundCycles(Least(deficit, CatchupMax)), clock.pending)
          IN  /\ cycles > 0
              /\ job' = [job EXCEPT !.stage = "cpu", !.left = 1, !.cycles = cycles,
                                    !.catching = TRUE]
  /\ UNCHANGED <<batched, clock, latch, started, seen, dropped, history>>

\* The latch after command c: a full queue gives up its oldest.
Accept(c) ==
  [value |-> c, pending |-> TRUE,
   queue |-> Append(IF Len(latch.queue) = LatchCapacity THEN Tail(latch.queue)
                    ELSE latch.queue, c)]

\* The rest of the call that flushed. The start of the output may fail.
Then ==
  /\ job.stage = "then"
  /\ job' = Idle
  /\ IF job.next = "latch"
     THEN /\ written' = written + 1
          /\ lost' = IF Len(latch.queue) = LatchCapacity THEN lost + 1 ELSE lost
          /\ latch' = Accept(written + 1)
     ELSE UNCHANGED <<written, lost, latch>>
  /\ started' \in IF job.next = "start" THEN BOOLEAN ELSE {started}
  /\ UNCHANGED <<batched, clock, seen, dropped, ran, frames, reads>>

Next ==
  \/ TickMainCycles \/ WriteLatch \/ AssertIrq2 \/ StartCoreAudio \/ CloneBoard
  \/ ReadLatch \/ RunAndRender \/ TopUp \/ Then

Spec == Init /\ [][Next]_vars

-----------------------------------------------------------------------------
TypeOK ==
  /\ batched \in Nat
  /\ clock \in [main : 0..(MainClock - 1), frame : 0..(SoundClock - 1), pending : 0..MaxPending]
  /\ latch \in [value : Nat, pending : BOOLEAN, queue : Seq(Nat)]
  /\ started \in BOOLEAN
  /\ job \in [stage : {"idle", "cpu", "top_up", "then"}, left : Nat, cycles : Nat,
              catching : BOOLEAN, next : {"return", "latch", "start"}]
  /\ seen \in Nat /\ dropped \in Nat /\ ran \in Nat /\ frames \in Nat
  /\ written \in Nat /\ lost \in Nat
  /\ reads \in [count : Nat, last : Nat, repeated : BOOLEAN]

\* No time is lost or made twice on its way from the main CPU to the frames:
\* the cycles seen, scaled, are those run, pending, dropped by the clamp
\* (ps9805.rs:506) and batched, with the fraction carried over batches, flushes
\* out of turn, catch-up and clones; and the frames are those of the cycles run.
TimeConserved ==
  /\ seen * SoundClock =
       (ran + clock.pending + dropped) * MainClock + clock.main + batched * SoundClock
  /\ ran * SampleRate = frames * SoundClock + clock.frame

\* A command is read once and in order, or given up for LatchCapacity newer ones,
\* or still queued, and the flag of the latch tells whether one is
\* (ps9805.rs:212-229 and 568-576).
CommandsKept ==
  /\ latch.queue = [i \in 1..Len(latch.queue) |-> written - Len(latch.queue) + i]
  /\ Len(latch.queue) <= LatchCapacity
  /\ latch.pending = (latch.queue # <<>>)
  /\ reads.count + lost + Len(latch.queue) = written
  /\ ~reads.repeated
=============================================================================
