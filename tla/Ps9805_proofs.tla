---------------------------- MODULE Ps9805_proofs ----------------------------
(***************************************************************************)
(* The sound board for every clock, quantum, bound and capacity.           *)
(***************************************************************************)
EXTENDS Ps9805, SequenceTheorems, TLAPS

(***************************************************************************)
(* Arithmetic.                                                             *)
(***************************************************************************)

\* Division with remainder.
LEMMA DivMod ==
  ASSUME NEW a \in Nat, NEW d \in Nat \ {0}
  PROVE  /\ a \div d \in Nat
         /\ (a % d) \in 0..(d - 1)
         /\ a = (a \div d) * d + (a % d)
  BY Z3

\* Scaling the whole part and the rest apart loses nothing.
LEMMA Rescale ==
  ASSUME NEW n \in Nat, NEW u \in Nat, NEW d \in Nat, NEW r \in Nat,
         NEW q1 \in Nat, NEW r1 \in Nat, NEW q2 \in Nat, NEW r2 \in Nat,
         n = q1 * d + r1, r1 * u + r = q2 * d + r2
  PROVE  (q1 * u + q2) * d + r2 = n * u + r
<1>1. n * u = q1 * u * d + r1 * u
  OBVIOUS
<1>2. (q1 * u + q2) * d = q1 * u * d + q2 * d
  OBVIOUS
<1> QED BY <1>1, <1>2

\* scaled_ticks_with_remainder: the ticks and the new remainder are the scaled
\* ticks and the old remainder, and the new remainder is a fraction of a tick.
LEMMA ScaledExact ==
  ASSUME NEW n \in Nat, NEW u \in Nat, NEW d \in Nat \ {0}, NEW r \in Nat
  PROVE  /\ ScaledTicks(n, u, d, r) \in Nat
         /\ ScaledRemainder(n, u, d, r) \in 0..(d - 1)
         /\ ScaledTicks(n, u, d, r) * d + ScaledRemainder(n, u, d, r) = n * u + r
<1> DEFINE q1 == n \div d
           r1 == n % d
           m == r1 * u + r
           q2 == m \div d
           r2 == m % d
<1>1. q1 \in Nat /\ r1 \in Nat /\ n = q1 * d + r1
  BY DivMod
<1>2. m \in Nat
  BY <1>1
<1>3. q2 \in Nat /\ r2 \in 0..(d - 1) /\ m = q2 * d + r2
  BY <1>2, DivMod
<1>4. ScaledTicks(n, u, d, r) = q1 * u + q2 /\ ScaledRemainder(n, u, d, r) = r2
  BY DEF ScaledTicks, ScaledRemainder
<1> HIDE DEF q1, r1, q2, r2
<1>5. (q1 * u + q2) * d + r2 = n * u + r
  BY <1>1, <1>3, Rescale
<1>6. q1 * u + q2 \in Nat
  BY <1>1, <1>3
<1> QED BY <1>3, <1>4, <1>5, <1>6

\* The quanta of a flush fit into the cycles pending.
LEMMA QuantaFit ==
  ASSUME NEW p \in Nat, NEW q \in Nat \ {0}, NEW k \in Nat, k <= p \div q
  PROVE  k * q <= p
<1> DEFINE d == p \div q
           r == p % q
<1>1. d \in Nat /\ r \in Nat /\ p = d * q + r
  BY DivMod
<1>2. k <= d
  OBVIOUS
<1> HIDE DEF d, r
<1>3. PICK e \in Nat : d = k + e
  BY <1>1, <1>2
<1>4. d * q = k * q + e * q /\ e * q \in Nat /\ k * q \in Nat
  BY <1>3
<1> QED BY <1>1, <1>4

\* One quantum less leaves room for the others.
LEMMA QuantumLess ==
  ASSUME NEW k \in Nat, k > 1, NEW c \in Nat, NEW p \in Nat, k * c <= p
  PROVE  c <= p /\ (k - 1) * c <= p - c
<1>1. k - 1 \in Nat /\ (k - 1) * c \in Nat
  OBVIOUS
<1>2. k * c = (k - 1) * c + c
  OBVIOUS
<1> QED BY <1>1, <1>2

\* The clamp divides what arrived into what it keeps and what it drops.
LEMMA Clamp ==
  ASSUME NEW a \in Nat, NEW b \in Nat
  PROVE  /\ Least(a, b) \in 0..b /\ Least(a, b) <= a
         /\ Excess(a, b) \in Nat
         /\ Least(a, b) + Excess(a, b) = a
         /\ b <= a => Excess(a, b) = a - b
         /\ Excess(a, b) <= a
  BY DEF Least, Excess

(***************************************************************************)
(* Types.                                                                  *)
(***************************************************************************)

JobType == [stage : {"idle", "cpu", "top_up", "then"}, left : Nat, cycles : Nat,
            catching : BOOLEAN, next : {"return", "latch", "start"}]

\* A call under way has its next quanta among the cycles pending.
Budget ==
  job.stage = "cpu" => job.left # 0 /\ job.left * job.cycles <= clock.pending

Inv == TypeOK /\ Budget

\* The constants, one by one.
LEMMA Constants ==
  /\ SoundClock \in Nat /\ SoundClock # 0
  /\ MainClock \in Nat /\ MainClock # 0
  /\ SampleRate \in Nat /\ SampleRate # 0
  /\ Quantum \in Nat /\ Quantum # 0
  /\ MaxQuanta \in Nat /\ MaxQuanta # 0
  /\ LatchCapacity \in Nat /\ LatchCapacity # 0
  /\ MaxPending \in Nat /\ CatchupMin \in Nat /\ CatchupTarget \in Nat /\ CatchupMax \in Nat
  /\ TickLengths \subseteq Nat
  BY BoardConstants

\* The initial state has the types, and no call is under way.
LEMMA InitInv == Init => Inv
<1> SUFFICES ASSUME Init PROVE Inv
  OBVIOUS
<1>1. clock \in [main : 0..(MainClock - 1), frame : 0..(SoundClock - 1), pending : 0..MaxPending]
  BY Constants DEF Init
<1>2. latch \in [value : Nat, pending : BOOLEAN, queue : Seq(Nat)]
  BY DEF Init
<1>3. job \in JobType /\ job.stage # "cpu"
  BY DEF Init, Idle, JobType
<1>4. /\ batched \in Nat /\ started \in BOOLEAN
      /\ seen \in Nat /\ dropped \in Nat /\ ran \in Nat /\ frames \in Nat
      /\ written \in Nat /\ lost \in Nat
      /\ reads \in [count : Nat, last : Nat, repeated : BOOLEAN]
  BY DEF Init
<1> QED BY <1>1, <1>2, <1>3, <1>4 DEF Inv, TypeOK, Budget, JobType

\* What a flush leaves behind: nothing batched, all else of the types, the quanta
\* within the pending cycles, and the clocks in step with the cycles flushed.
LEMMA FlushFacts ==
  ASSUME Inv, NEW n \in Nat, NEW next \in {"return", "latch", "start"}, Flush(n, next)
  PROVE  /\ batched' = 0 /\ dropped' \in Nat
         /\ clock' \in [main : 0..(MainClock - 1), frame : 0..(SoundClock - 1),
                        pending : 0..MaxPending]
         /\ clock'.frame = clock.frame
         /\ job' \in JobType /\ Budget'
         /\ (clock'.pending + dropped') * MainClock + clock'.main
              = (clock.pending + dropped) * MainClock + clock.main + n * SoundClock
<1> DEFINE ticks == ScaledTicks(n, SoundClock, MainClock, clock.main)
           rest == ScaledRemainder(n, SoundClock, MainClock, clock.main)
           arrived == clock.pending + ticks
           pending == Least(arrived, MaxPending)
           over == Excess(arrived, MaxPending)
           quanta == IF n = 0 THEN 0 ELSE Least(pending \div Quantum, MaxQuanta)
<1>1. /\ SoundClock \in Nat \ {0} /\ MainClock \in Nat \ {0} /\ MaxPending \in Nat
      /\ Quantum \in Nat \ {0} /\ MaxQuanta \in Nat \ {0}
  BY BoardConstants
<1>2. /\ clock \in [main : 0..(MainClock - 1), frame : 0..(SoundClock - 1),
                    pending : 0..MaxPending]
      /\ dropped \in Nat
  BY DEF Inv, TypeOK
<1>3. clock.main \in Nat /\ clock.pending \in Nat /\ clock.frame \in 0..(SoundClock - 1)
  BY <1>1, <1>2
<1>4. /\ ticks \in Nat /\ rest \in 0..(MainClock - 1)
      /\ ticks * MainClock + rest = n * SoundClock + clock.main
  <2>1. clock.main \in Nat /\ MainClock \in Nat \ {0} /\ SoundClock \in Nat
    BY <1>1, <1>3
  <2>2. \A r \in Nat :
          /\ ScaledTicks(n, SoundClock, MainClock, r) \in Nat
          /\ ScaledRemainder(n, SoundClock, MainClock, r) \in 0..(MainClock - 1)
          /\ ScaledTicks(n, SoundClock, MainClock, r) * MainClock
               + ScaledRemainder(n, SoundClock, MainClock, r) = n * SoundClock + r
    BY <2>1, ScaledExact
  <2> QED BY <2>1, <2>2, Zenon
<1>5. /\ batched' = 0
      /\ clock' = [clock EXCEPT !.main = rest, !.pending = pending]
      /\ dropped' = dropped + over
      /\ job' = [stage |-> IF quanta = 0 THEN "then" ELSE "cpu", left |-> quanta,
                 cycles |-> Quantum, catching |-> FALSE, next |-> next]
  BY DEF Flush, Idle
<1> HIDE DEF ticks, rest
<1>6. arrived \in Nat
  BY <1>3, <1>4
<1> HIDE DEF arrived
<1>7. /\ pending \in 0..MaxPending /\ over \in Nat /\ pending + over = arrived
  BY <1>1, <1>6, Clamp
<1> HIDE DEF pending, over
<1>8. pending \div Quantum \in Nat
  <2>1. pending \in Nat
    BY <1>1, <1>7
  <2> QED BY <1>1, <2>1, DivMod, Zenon
<1>9. quanta \in Nat /\ (quanta # 0 => quanta <= pending \div Quantum)
  <2>1. MaxQuanta \in Nat
    BY <1>1
  <2>2. /\ Least(pending \div Quantum, MaxQuanta) \in 0..MaxQuanta
        /\ Least(pending \div Quantum, MaxQuanta) <= pending \div Quantum
    BY <1>8, <2>1, Clamp, Zenon
  <2>3. Least(pending \div Quantum, MaxQuanta) \in Nat
    BY <2>1, <2>2
  <2> QED BY <2>2, <2>3
<1> HIDE DEF quanta
<1>10. quanta # 0 => quanta * Quantum <= pending
  BY <1>1, <1>7, <1>9, QuantaFit
<1>11. /\ clock'.main = rest /\ clock'.pending = pending /\ clock'.frame = clock.frame
       /\ clock' \in [main : 0..(MainClock - 1), frame : 0..(SoundClock - 1),
                      pending : 0..MaxPending]
  BY <1>2, <1>4, <1>5, <1>7
<1>12. job' \in JobType
  BY <1>1, <1>5, <1>9 DEF JobType
<1>13. Budget'
  BY <1>5, <1>10, <1>11 DEF Budget
<1>14. (pending + (dropped + over)) * MainClock + rest
         = (clock.pending + dropped) * MainClock + clock.main + n * SoundClock
  <2>1. pending + (dropped + over) = (clock.pending + dropped) + ticks
    BY <1>2, <1>3, <1>4, <1>7, <1>6 DEF arrived
  <2>2. ((clock.pending + dropped) + ticks) * MainClock
          = (clock.pending + dropped) * MainClock + ticks * MainClock
    BY <1>1, <1>2, <1>3, <1>4
  <2>3. /\ (clock.pending + dropped) * MainClock \in Nat /\ ticks * MainClock \in Nat
        /\ n * SoundClock \in Nat
    BY <1>1, <1>2, <1>3, <1>4
  <2> QED BY <2>1, <2>2, <2>3, <1>3, <1>4
<1> QED BY <1>2, <1>5, <1>7, <1>11, <1>12, <1>13, <1>14

-----------------------------------------------------------------------------
(***************************************************************************)
(* Every step keeps the types and the budget.                              *)
(***************************************************************************)

\* A tick is batched or flushed.
LEMMA TickInv == Inv /\ TickMainCycles => Inv'
<1> SUFFICES ASSUME Inv, TickMainCycles PROVE Inv'
  OBVIOUS
<1> USE DEF Inv, TypeOK
<1>1. PICK n \in TickLengths :
        /\ seen' = seen + n
        /\ \/ batched' = batched + n /\ UNCHANGED <<clock, dropped, job>>
           \/ Flush(batched + n, "return")
  BY DEF TickMainCycles
<1>2. n \in Nat /\ batched + n \in Nat /\ seen' \in Nat
  BY <1>1, Constants
<1>3. UNCHANGED <<latch, started, ran, frames, written, lost, reads>>
  BY DEF TickMainCycles, history
<1>4. CASE batched' = batched + n /\ UNCHANGED <<clock, dropped, job>>
  <2>1. Budget'
    BY <1>4 DEF Budget
  <2> QED BY <1>2, <1>3, <1>4, <2>1
<1>5. CASE Flush(batched + n, "return")
  <2> HIDE DEF Inv, TypeOK
  <2>1. /\ batched' = 0 /\ dropped' \in Nat /\ job' \in JobType /\ Budget'
        /\ clock' \in [main : 0..(MainClock - 1), frame : 0..(SoundClock - 1),
                       pending : 0..MaxPending]
    BY <1>2, <1>5, FlushFacts
  <2> QED BY <1>2, <1>3, <2>1 DEF Inv, TypeOK, JobType
<1> QED BY <1>1, <1>4, <1>5

\* The other calls begin with a flush of what is batched.
LEMMA CallInv ==
  ASSUME Inv, NEW next \in {"return", "latch", "start"}, Call(next)
  PROVE  Inv'
<1>1. batched \in Nat /\ Flush(batched, next)
  BY DEF Inv, TypeOK, Call
<1>2. /\ batched' = 0 /\ dropped' \in Nat /\ job' \in JobType /\ Budget'
      /\ clock' \in [main : 0..(MainClock - 1), frame : 0..(SoundClock - 1),
                     pending : 0..MaxPending]
  BY <1>1, FlushFacts
<1>3. UNCHANGED <<latch, started, seen, ran, frames, written, lost, reads>>
  BY DEF Call, history
<1> QED BY <1>2, <1>3 DEF Inv, TypeOK, JobType

\* A read takes a command off the latch.
LEMMA ReadInv == Inv /\ ReadLatch => Inv'
<1> SUFFICES ASSUME Inv, ReadLatch PROVE Inv'
  OBVIOUS
<1> DEFINE value == IF latch.queue # <<>> THEN Head(latch.queue)
                    ELSE IF latch.pending THEN latch.value ELSE 0
           rest == IF latch.queue = <<>> THEN <<>> ELSE Tail(latch.queue)
<1>1. /\ latch \in [value : Nat, pending : BOOLEAN, queue : Seq(Nat)]
      /\ reads \in [count : Nat, last : Nat, repeated : BOOLEAN]
  BY DEF Inv, TypeOK
<1>2. /\ latch' = [latch EXCEPT !.queue = rest, !.pending = rest # <<>>]
      /\ reads' = IF value = 0 THEN reads
                  ELSE [count |-> reads.count + 1, last |-> value,
                        repeated |-> reads.repeated \/ value <= reads.last]
      /\ UNCHANGED <<batched, clock, started, job, seen, dropped, ran, frames, written, lost>>
  BY DEF ReadLatch
<1>3. value \in Nat /\ rest \in Seq(Nat)
  BY <1>1
<1> HIDE DEF value, rest
<1>4. latch' \in [value : Nat, pending : BOOLEAN, queue : Seq(Nat)]
  BY <1>1, <1>2, <1>3
<1>5. reads' \in [count : Nat, last : Nat, repeated : BOOLEAN]
  BY <1>1, <1>2, <1>3
<1> QED BY <1>2, <1>4, <1>5 DEF Inv, TypeOK, Budget

\* What a run and its rendering do to the clocks, while the call has its budget.
LEMMA RunFacts ==
  ASSUME Inv, RunAndRender
  PROVE  /\ clock' \in [main : 0..(MainClock - 1), frame : 0..(SoundClock - 1),
                        pending : 0..MaxPending]
         /\ clock'.main = clock.main
         /\ job.cycles \in Nat /\ ran' = ran + job.cycles
         /\ clock.pending \in Nat /\ clock'.pending \in Nat
         /\ ran' + clock'.pending = ran + clock.pending
         /\ frames' \in Nat /\ ran' \in Nat
         /\ frames' * SoundClock + clock'.frame
              = frames * SoundClock + clock.frame + job.cycles * SampleRate
         /\ job' \in JobType /\ Budget'
<1> DEFINE ticks == ScaledTicks(job.cycles, SampleRate, SoundClock, clock.frame)
           rest == ScaledRemainder(job.cycles, SampleRate, SoundClock, clock.frame)
           pending == Excess(clock.pending, job.cycles)
<1>1. /\ clock \in [main : 0..(MainClock - 1), frame : 0..(SoundClock - 1),
                    pending : 0..MaxPending]
      /\ job \in JobType /\ frames \in Nat /\ ran \in Nat
  BY DEF Inv, TypeOK, JobType
<1>2. /\ job.cycles \in Nat /\ job.left \in Nat /\ clock.frame \in Nat
      /\ clock.pending \in Nat /\ clock.pending <= MaxPending
  BY <1>1, Constants DEF JobType
<1>3. /\ job.stage = "cpu"
      /\ clock' = [clock EXCEPT !.frame = rest, !.pending = pending]
      /\ frames' = frames + ticks
      /\ ran' = ran + job.cycles
      /\ job' = IF job.left > 1 THEN [job EXCEPT !.left = job.left - 1]
                ELSE [job EXCEPT !.left = 0,
                        !.stage = IF started /\ ~job.catching THEN "top_up" ELSE "then"]
  BY DEF RunAndRender
<1>4. /\ ticks \in Nat /\ rest \in 0..(SoundClock - 1)
      /\ ticks * SoundClock + rest = job.cycles * SampleRate + clock.frame
  <2>1. SoundClock \in Nat \ {0} /\ SampleRate \in Nat
    BY Constants
  <2>2. \A c \in Nat, r \in Nat :
          /\ ScaledTicks(c, SampleRate, SoundClock, r) \in Nat
          /\ ScaledRemainder(c, SampleRate, SoundClock, r) \in 0..(SoundClock - 1)
          /\ ScaledTicks(c, SampleRate, SoundClock, r) * SoundClock
               + ScaledRemainder(c, SampleRate, SoundClock, r) = c * SampleRate + r
    BY <2>1, ScaledExact
  <2> QED BY <1>2, <2>2, Zenon
<1>5. job.left # 0 /\ job.left * job.cycles <= clock.pending
  BY <1>3 DEF Inv, Budget
<1>6. /\ job.cycles <= clock.pending
      /\ job.left > 1 => (job.left - 1) * job.cycles <= clock.pending - job.cycles
  <2>1. CASE job.left > 1
    BY <1>2, <1>5, <2>1, QuantumLess
  <2>2. CASE job.left = 1
    <3>1. job.left * job.cycles = job.cycles
      BY <1>2, <2>2
    <3> QED BY <1>5, <2>2, <3>1
  <2> QED BY <1>2, <1>5, <2>1, <2>2
<1>7. pending = clock.pending - job.cycles /\ pending \in 0..MaxPending
  BY <1>2, <1>6, Constants DEF Excess
<1> HIDE DEF ticks, rest, pending
<1>8. /\ clock'.main = clock.main /\ clock'.frame = rest /\ clock'.pending = pending
      /\ clock' \in [main : 0..(MainClock - 1), frame : 0..(SoundClock - 1),
                     pending : 0..MaxPending]
  BY <1>1, <1>3, <1>4, <1>7
<1>9. job' \in JobType
  <2>1. CASE job.left > 1
    <3>1. job.left - 1 \in Nat /\ job' = [job EXCEPT !.left = job.left - 1]
      BY <1>2, <1>3, <2>1
    <3> QED BY <1>1, <3>1 DEF JobType
  <2>2. CASE ~(job.left > 1)
    <3>1. PICK stage \in {"top_up", "then"} :
            job' = [job EXCEPT !.left = 0, !.stage = stage]
      BY <1>3, <2>2
    <3> QED BY <1>1, <3>1 DEF JobType
  <2> QED BY <2>1, <2>2
<1>10. Budget'
  <2>1. CASE job.left > 1
    <3>1. job'.left = job.left - 1 /\ job'.cycles = job.cycles
      BY <1>1, <1>3, <2>1 DEF JobType
    <3> QED BY <1>2, <1>6, <1>7, <1>8, <2>1, <3>1 DEF Budget
  <2>2. CASE ~(job.left > 1)
    <3>1. job'.stage # "cpu"
      BY <1>1, <1>3, <2>2 DEF JobType
    <3> QED BY <3>1 DEF Budget
  <2> QED BY <2>1, <2>2
<1>11. frames' * SoundClock = frames * SoundClock + ticks * SoundClock
  BY <1>1, <1>3, <1>4, Constants
<1>12. /\ frames * SoundClock \in Nat /\ ticks * SoundClock \in Nat
       /\ job.cycles * SampleRate \in Nat
  BY <1>1, <1>2, <1>4, Constants
<1>13. frames' * SoundClock + clock'.frame
         = frames * SoundClock + clock.frame + job.cycles * SampleRate
  BY <1>2, <1>4, <1>8, <1>11, <1>12, Constants
<1>14. /\ frames' \in Nat /\ ran' \in Nat /\ clock'.pending \in Nat
       /\ ran' + clock'.pending = ran + clock.pending
  BY <1>1, <1>2, <1>3, <1>4, <1>6, <1>7, <1>8, Constants
<1> QED BY <1>2, <1>3, <1>8, <1>9, <1>10, <1>13, <1>14

LEMMA RunInv == Inv /\ RunAndRender => Inv'
<1> SUFFICES ASSUME Inv, RunAndRender PROVE Inv'
  OBVIOUS
<1>1. /\ clock' \in [main : 0..(MainClock - 1), frame : 0..(SoundClock - 1),
                     pending : 0..MaxPending]
      /\ frames' \in Nat /\ ran' \in Nat /\ job' \in JobType /\ Budget'
  BY RunFacts
<1>2. UNCHANGED <<batched, latch, started, seen, dropped, written, lost, reads>>
  BY DEF RunAndRender
<1> QED BY <1>1, <1>2 DEF Inv, TypeOK, JobType

\* A catch-up takes no more than is pending.
LEMMA TopUpInv == Inv /\ TopUp => Inv'
<1> SUFFICES ASSUME Inv, TopUp PROVE Inv'
  OBVIOUS
<1>1. /\ clock \in [main : 0..(MainClock - 1), frame : 0..(SoundClock - 1),
                    pending : 0..MaxPending]
      /\ job \in JobType
  BY DEF Inv, TypeOK, JobType
<1>2. UNCHANGED <<batched, clock, latch, started, seen, dropped, ran, frames, written, lost,
                  reads>>
  BY DEF TopUp, history
<1>3. CASE job' = [job EXCEPT !.stage = "then"]
  <2>1. job' \in JobType /\ job'.stage = "then"
    BY <1>1, <1>3 DEF JobType
  <2> QED BY <1>2, <2>1 DEF Inv, TypeOK, Budget, JobType
<1>4. CASE ~(job' = [job EXCEPT !.stage = "then"])
  <2>1. PICK deficit \in CatchupMin..CatchupTarget :
          LET cycles == Least(SoundCycles(Least(deficit, CatchupMax)), clock.pending)
          IN  /\ cycles > 0
              /\ job' = [job EXCEPT !.stage = "cpu", !.left = 1, !.cycles = cycles,
                                    !.catching = TRUE]
    BY <1>4 DEF TopUp
  <2> DEFINE wanted == SoundCycles(Least(deficit, CatchupMax))
             cycles == Least(wanted, clock.pending)
  <2>2. deficit \in Nat /\ CatchupMax \in Nat /\ clock.pending \in Nat
    BY <1>1, Constants
  <2>3. Least(deficit, CatchupMax) * SoundClock \in Nat /\ SampleRate \in Nat \ {0}
    BY <2>2, Constants DEF Least
  <2>4. wanted \in Nat
    BY <2>3, DivMod DEF SoundCycles
  <2> HIDE DEF wanted
  <2>5. cycles \in Nat /\ cycles <= clock.pending
    BY <2>2, <2>4 DEF Least
  <2>6. job' = [job EXCEPT !.stage = "cpu", !.left = 1, !.cycles = cycles, !.catching = TRUE]
    BY <2>1 DEF wanted
  <2> HIDE DEF cycles
  <2>7. job' \in JobType /\ job'.left = 1 /\ job'.cycles = cycles
    BY <1>1, <2>5, <2>6 DEF JobType
  <2>8. job'.left * job'.cycles = cycles
    BY <2>5, <2>7
  <2>9. Budget'
    BY <1>2, <2>5, <2>7, <2>8 DEF Budget
  <2> QED BY <1>2, <2>7, <2>9 DEF Inv, TypeOK, JobType
<1> QED BY <1>3, <1>4

\* The end of a call: its command, or the start of the output.
LEMMA ThenInv == Inv /\ Then => Inv'
<1> SUFFICES ASSUME Inv, Then PROVE Inv'
  OBVIOUS
<1> DEFINE kept == IF Len(latch.queue) = LatchCapacity THEN Tail(latch.queue)
                   ELSE latch.queue
<1>1. /\ latch \in [value : Nat, pending : BOOLEAN, queue : Seq(Nat)]
      /\ written \in Nat /\ lost \in Nat /\ started \in BOOLEAN
  BY DEF Inv, TypeOK
<1>2. /\ job' = Idle
      /\ UNCHANGED <<batched, clock, seen, dropped, ran, frames, reads>>
      /\ started' \in BOOLEAN
  BY <1>1 DEF Then
<1>3. kept \in Seq(Nat)
  <2>1. CASE Len(latch.queue) = LatchCapacity
    <3>1. latch.queue # <<>>
      BY <1>1, <2>1, Constants
    <3> QED BY <1>1, <2>1, <3>1
  <2>2. CASE Len(latch.queue) # LatchCapacity
    BY <1>1, <2>2
  <2> QED BY <2>1, <2>2
<1>4. /\ written' \in Nat /\ lost' \in Nat
      /\ latch' \in [value : Nat, pending : BOOLEAN, queue : Seq(Nat)]
  <2>1. CASE job.next = "latch"
    <3>1. /\ written' = written + 1 /\ lost' \in {lost, lost + 1}
          /\ latch' = [value |-> written + 1, pending |-> TRUE,
                       queue |-> Append(kept, written + 1)]
      BY <2>1 DEF Then, Accept
    <3> HIDE DEF kept
    <3> QED BY <1>1, <1>3, <3>1
  <2>2. CASE job.next # "latch"
    BY <1>1, <2>2 DEF Then
  <2> QED BY <2>1, <2>2
<1>5. job' \in JobType /\ Budget'
  BY <1>2 DEF Idle, JobType, Budget
<1> QED BY <1>2, <1>4, <1>5 DEF Inv, TypeOK, JobType

\* Types and budget are kept by every step.
LEMMA NextInv == Inv /\ [Next]_vars => Inv'
<1> SUFFICES ASSUME Inv, [Next]_vars PROVE Inv'
  OBVIOUS
<1>1. CASE TickMainCycles BY <1>1, TickInv
<1>2. CASE WriteLatch BY <1>2, CallInv DEF WriteLatch
<1>3. CASE AssertIrq2 BY <1>3, CallInv DEF AssertIrq2
<1>4. CASE StartCoreAudio BY <1>4, CallInv DEF StartCoreAudio
<1>5. CASE CloneBoard
  BY <1>5 DEF CloneBoard, history, Inv, TypeOK, Budget
<1>6. CASE ReadLatch BY <1>6, ReadInv
<1>7. CASE RunAndRender BY <1>7, RunInv
<1>8. CASE TopUp BY <1>8, TopUpInv
<1>9. CASE Then BY <1>9, ThenInv
<1>10. CASE UNCHANGED vars
  BY <1>10 DEF vars, Inv, TypeOK, Budget
<1> QED BY <1>1, <1>2, <1>3, <1>4, <1>5, <1>6, <1>7, <1>8, <1>9, <1>10 DEF Next

\* The types, and the budget they need.
LEMMA Invariance == Spec => []Inv
<1> QED BY InitInv, NextInv, PTL DEF Spec

\* Every value has its type; above all the clocks keep fractions smaller than a
\* tick, and never more than MaxPending cycles are pending.
THEOREM TypeCorrect == Spec => []TypeOK
<1>1. Inv => TypeOK
  BY DEF Inv
<1> QED BY <1>1, Invariance, PTL

-----------------------------------------------------------------------------
(***************************************************************************)
(* Time is conserved.                                                      *)
(***************************************************************************)

\* A flush of the b cycles batched and of k new ones keeps the account of time.
LEMMA FlushedTime ==
  ASSUME NEW S \in Nat, NEW M \in Nat, NEW cycles \in Nat, NEW done \in Nat,
         NEW p \in Nat, NEW m \in Nat, NEW b \in Nat, NEW k \in Nat,
         NEW p2 \in Nat, NEW m2 \in Nat,
         cycles * S = (done + p) * M + m + b * S,
         p2 * M + m2 = p * M + m + (b + k) * S
  PROVE  (cycles + k) * S = (done + p2) * M + m2
<1>1. /\ (done + p) * M = done * M + p * M
      /\ (done + p2) * M = done * M + p2 * M
      /\ (cycles + k) * S = cycles * S + k * S
      /\ (b + k) * S = b * S + k * S
  OBVIOUS
<1> QED BY <1>1

\* After a flush the account of time is that of before and of the k new cycles.
LEMMA FlushTime ==
  ASSUME Inv, TimeConserved, NEW k \in Nat, NEW next \in {"return", "latch", "start"},
         Flush(batched + k, next), seen' = seen + k, UNCHANGED <<ran, frames>>
  PROVE  TimeConserved'
<1> DEFINE p == clock.pending + dropped
           p2 == clock'.pending + dropped'
<1>1. /\ clock \in [main : 0..(MainClock - 1), frame : 0..(SoundClock - 1),
                    pending : 0..MaxPending]
      /\ batched \in Nat /\ seen \in Nat /\ dropped \in Nat /\ ran \in Nat
  BY DEF Inv, TypeOK
<1>2. /\ p \in Nat /\ clock.main \in Nat /\ batched + k \in Nat
  BY <1>1, Constants
<1>3. /\ batched' = 0 /\ dropped' \in Nat /\ clock'.frame = clock.frame
      /\ clock' \in [main : 0..(MainClock - 1), frame : 0..(SoundClock - 1),
                     pending : 0..MaxPending]
      /\ p2 * MainClock + clock'.main
           = p * MainClock + clock.main + (batched + k) * SoundClock
  BY <1>2, FlushFacts
<1>4. p2 \in Nat /\ clock'.main \in Nat
  BY <1>3, Constants
<1>5. /\ seen * SoundClock = (ran + p) * MainClock + clock.main + batched * SoundClock
      /\ ran * SampleRate = frames * SoundClock + clock.frame
  <2>1. ran + clock.pending + dropped = ran + p
    BY <1>1, Constants
  <2> QED BY <2>1 DEF TimeConserved
<1>6. ran' + clock'.pending + dropped' = ran + p2
  BY <1>1, <1>3, Constants
<1> DEFINE m == clock.main
           m2 == clock'.main
<1> HIDE DEF p, p2, m, m2
<1>7. (seen + k) * SoundClock = (ran + p2) * MainClock + m2
  <2>1. m \in Nat /\ m2 \in Nat
    BY <1>2, <1>4 DEF m, m2
  <2>2. seen * SoundClock = (ran + p) * MainClock + m + batched * SoundClock
    BY <1>5 DEF m
  <2>3. p2 * MainClock + m2 = p * MainClock + m + (batched + k) * SoundClock
    BY <1>3 DEF m, m2
  <2> QED BY <1>1, <1>2, <1>4, <2>1, <2>2, <2>3, FlushedTime, Constants
<1>8. batched' * SoundClock = 0
  BY <1>3, Constants
<1>9. (ran + p2) * MainClock \in Nat
  BY <1>1, <1>4, Constants
<1>10. seen' * SoundClock
         = (ran' + clock'.pending + dropped') * MainClock + clock'.main + batched' * SoundClock
  BY <1>4, <1>6, <1>7, <1>8, <1>9 DEF m2
<1> QED BY <1>3, <1>5, <1>10 DEF TimeConserved

\* Every step keeps the account of time.
LEMMA NextTime == Inv /\ TimeConserved /\ [Next]_vars => TimeConserved'
<1> SUFFICES ASSUME Inv, TimeConserved, [Next]_vars PROVE TimeConserved'
  OBVIOUS
<1>1. /\ clock \in [main : 0..(MainClock - 1), frame : 0..(SoundClock - 1),
                    pending : 0..MaxPending]
      /\ batched \in Nat /\ seen \in Nat /\ dropped \in Nat /\ ran \in Nat /\ frames \in Nat
  BY DEF Inv, TypeOK
<1>2. ASSUME UNCHANGED <<batched, clock, seen, dropped, ran, frames>> PROVE TimeConserved'
  BY <1>2 DEF TimeConserved
<1>3. ASSUME NEW next \in {"return", "latch", "start"}, Call(next) PROVE TimeConserved'
  <2>1. batched = batched + 0 /\ seen = seen + 0
    BY <1>1
  <2>2. Flush(batched + 0, next) /\ seen' = seen + 0 /\ UNCHANGED <<ran, frames>>
    BY <1>3, <2>1 DEF Call, history
  <2> QED BY <2>2, FlushTime
<1>4. CASE TickMainCycles
  <2>1. PICK k \in TickLengths :
          /\ seen' = seen + k
          /\ \/ batched' = batched + k /\ UNCHANGED <<clock, dropped, job>>
             \/ Flush(batched + k, "return")
    BY <1>4 DEF TickMainCycles
  <2>2. k \in Nat /\ UNCHANGED <<ran, frames>>
    BY <1>4, Constants DEF TickMainCycles, history
  <2>3. CASE batched' = batched + k /\ UNCHANGED <<clock, dropped, job>>
    <3> DEFINE rest == (ran + clock.pending + dropped) * MainClock + clock.main
    <3>1. rest \in Nat
      BY <1>1, Constants
    <3>2. seen * SoundClock = rest + batched * SoundClock
      BY DEF TimeConserved
    <3> HIDE DEF rest
    <3>3. /\ (seen + k) * SoundClock = seen * SoundClock + k * SoundClock
          /\ (batched + k) * SoundClock = batched * SoundClock + k * SoundClock
          /\ k * SoundClock \in Nat /\ batched * SoundClock \in Nat
      BY <1>1, <2>2, Constants
    <3>4. (seen + k) * SoundClock = rest + (batched + k) * SoundClock
      BY <3>1, <3>2, <3>3
    <3> QED BY <2>1, <2>2, <2>3, <3>4 DEF TimeConserved, rest
  <2>4. CASE Flush(batched + k, "return")
    BY <2>1, <2>2, <2>4, FlushTime
  <2> QED BY <2>1, <2>3, <2>4
<1>5. CASE RunAndRender
  <2>1. /\ clock'.main = clock.main /\ job.cycles \in Nat /\ ran' = ran + job.cycles
        /\ clock.pending \in Nat /\ clock'.pending \in Nat /\ ran' \in Nat
        /\ ran' + clock'.pending = ran + clock.pending
        /\ frames' * SoundClock + clock'.frame
             = frames * SoundClock + clock.frame + job.cycles * SampleRate
    BY <1>5, RunFacts
  <2>2. UNCHANGED <<batched, seen, dropped>>
    BY <1>5 DEF RunAndRender
  <2>3. ran' + clock'.pending + dropped' = ran + clock.pending + dropped
    BY <1>1, <2>1, <2>2
  <2>4. ran' * SampleRate = ran * SampleRate + job.cycles * SampleRate
    BY <1>1, <2>1, Constants
  <2>5. ran * SampleRate = frames * SoundClock + clock.frame
    BY DEF TimeConserved
  <2>6. ran' * SampleRate = frames' * SoundClock + clock'.frame
    BY <2>1, <2>4, <2>5
  <2> QED BY <2>1, <2>2, <2>3, <2>6 DEF TimeConserved
<1>6. CASE WriteLatch BY <1>3, <1>6 DEF WriteLatch
<1>7. CASE AssertIrq2 BY <1>3, <1>7 DEF AssertIrq2
<1>8. CASE StartCoreAudio BY <1>3, <1>8 DEF StartCoreAudio
<1>9. CASE CloneBoard BY <1>2, <1>9 DEF CloneBoard, history
<1>10. CASE ReadLatch BY <1>2, <1>10 DEF ReadLatch
<1>11. CASE TopUp BY <1>2, <1>11 DEF TopUp, history
<1>12. CASE Then BY <1>2, <1>12 DEF Then
<1>13. CASE UNCHANGED vars BY <1>2, <1>13 DEF vars
<1> QED BY <1>4, <1>5, <1>6, <1>7, <1>8, <1>9, <1>10, <1>11, <1>12, <1>13 DEF Next

\* The cycles of the main CPU, scaled, are always those run, pending, dropped and
\* batched, to the last fraction, and the frames those of the cycles run, for every
\* ratio of the clocks, quantum and bound.
THEOREM TimeIsConserved == Spec => []TimeConserved
<1>1. Init => TimeConserved
  BY Constants DEF Init, TimeConserved
<1> QED BY <1>1, Invariance, NextTime, PTL DEF Spec

-----------------------------------------------------------------------------
(***************************************************************************)
(* Commands are kept.                                                      *)
(***************************************************************************)

\* The n commands up to number w.
Numbered(w, n) == [i \in 1..n |-> w - n + i]

\* What a read takes off is the oldest command, and the rest goes on from it.
LEMMA NumberedTail ==
  ASSUME NEW s \in Seq(Nat), s # <<>>, NEW w \in Nat, s = Numbered(w, Len(s))
  PROVE  /\ Len(Tail(s)) \in Nat /\ Len(Tail(s)) = Len(s) - 1
         /\ Tail(s) = Numbered(w, Len(Tail(s)))
         /\ Head(s) = w - Len(s) + 1
<1>1. /\ Len(s) \in Nat /\ Len(s) > 0 /\ Len(Tail(s)) = Len(s) - 1 /\ Head(s) = s[1]
      /\ Tail(s) = [i \in 1..(Len(s) - 1) |-> s[i + 1]]
  <2>1. Len(s) \in Nat /\ Len(s) > 0 /\ Head(s) = s[1]
    BY EmptySeq
  <2>2. /\ Tail(s) \in Seq(Nat) /\ Len(Tail(s)) = Len(s) - 1
        /\ \A i \in 1..Len(Tail(s)) : Tail(s)[i] = s[i + 1]
    BY HeadTailProperties
  <2>3. Tail(s) \in [1..Len(Tail(s)) -> Nat]
    BY <2>2, LenProperties
  <2>4. Tail(s) = [i \in 1..Len(Tail(s)) |-> s[i + 1]]
    BY <2>2, <2>3
  <2> QED BY <2>1, <2>2, <2>4
<1>2. ASSUME NEW i \in 1..(Len(s) - 1) PROVE s[i + 1] = w - (Len(s) - 1) + i
  BY <1>1 DEF Numbered
<1>3. s[1] = w - Len(s) + 1
  BY <1>1 DEF Numbered
<1> QED BY <1>1, <1>2, <1>3 DEF Numbered

\* What a write appends is the newest.
LEMMA NumberedAppend ==
  ASSUME NEW s \in Seq(Nat), NEW w \in Nat, s = Numbered(w, Len(s))
  PROVE  /\ Len(Append(s, w + 1)) = Len(s) + 1
         /\ Append(s, w + 1) = Numbered(w + 1, Len(s) + 1)
<1>1. /\ Len(s) \in Nat /\ Len(Append(s, w + 1)) = Len(s) + 1
      /\ Append(s, w + 1) = [i \in 1..(Len(s) + 1) |-> IF i <= Len(s) THEN s[i] ELSE w + 1]
  OBVIOUS
<1>2. ASSUME NEW i \in 1..(Len(s) + 1)
      PROVE (IF i <= Len(s) THEN s[i] ELSE w + 1) = w + 1 - (Len(s) + 1) + i
  BY <1>1 DEF Numbered
<1> QED BY <1>1, <1>2 DEF Numbered

\* The commands read are older than the queued ones, which is what keeps one from
\* being read twice.
Fresh == reads.last + Len(latch.queue) <= written

CInv == CommandsKept /\ Fresh

\* A read delivers the oldest command, which no read has delivered before, or, with
\* nothing queued, none.
LEMMA ReadCommands == Inv /\ CInv /\ ReadLatch => CInv'
<1> SUFFICES ASSUME Inv, CInv, ReadLatch PROVE CInv'
  OBVIOUS
<1> DEFINE queue == latch.queue
<1>1. /\ latch \in [value : Nat, pending : BOOLEAN, queue : Seq(Nat)]
      /\ reads \in [count : Nat, last : Nat, repeated : BOOLEAN]
      /\ written \in Nat /\ lost \in Nat
  BY DEF Inv, TypeOK
<1>2. /\ queue = Numbered(written, Len(queue)) /\ Len(queue) <= LatchCapacity
      /\ latch.pending = (queue # <<>>)
      /\ reads.count + lost + Len(queue) = written /\ ~reads.repeated
      /\ reads.last + Len(queue) <= written
  BY DEF CInv, CommandsKept, Fresh, Numbered
<1>3. UNCHANGED <<written, lost>>
  BY DEF ReadLatch
<1>4. CASE queue = <<>>
  <2>1. reads' = reads /\ latch' = [latch EXCEPT !.queue = <<>>, !.pending = FALSE]
    BY <1>2, <1>4 DEF ReadLatch
  <2>2. latch'.queue = queue /\ latch'.pending = FALSE
    BY <1>1, <1>4, <2>1
  <2> QED BY <1>2, <1>3, <1>4, <2>1, <2>2, ZenonT(40) DEF CInv, CommandsKept, Fresh, Numbered
<1>5. CASE queue # <<>>
  <2> DEFINE rest == Tail(queue)
             value == Head(queue)
  <2>1. queue \in Seq(Nat)
    BY <1>1
  <2>2. /\ Len(rest) \in Nat /\ Len(rest) = Len(queue) - 1
        /\ rest = Numbered(written, Len(rest))
        /\ value = written - Len(queue) + 1
    BY <1>1, <1>2, <1>5, <2>1, NumberedTail
  <2>3. /\ reads' = IF value = 0 THEN reads
                    ELSE [count |-> reads.count + 1, last |-> value,
                          repeated |-> reads.repeated \/ value <= reads.last]
        /\ latch' = [latch EXCEPT !.queue = rest, !.pending = rest # <<>>]
    BY <1>5 DEF ReadLatch
  <2>4. Len(queue) \in Nat /\ Len(queue) <= written /\ rest \in Seq(Nat)
    BY <1>1, <1>2, <1>5, <2>1
  <2> HIDE DEF rest, value, queue
  <2>5. value # 0 /\ ~(value <= reads.last)
    BY <1>1, <1>2, <2>2, <2>4, SMTT(30)
  <2>6. /\ reads'.count = reads.count + 1 /\ reads'.last = value /\ ~reads'.repeated
    BY <1>1, <1>2, <2>3, <2>5
  <2>7. latch'.queue = rest /\ latch'.pending = (rest # <<>>)
    BY <1>1, <2>3
  <2>8. /\ reads'.count + lost + Len(rest) = written
        /\ reads'.last + Len(rest) <= written
        /\ Len(rest) <= LatchCapacity
    <3>1. reads.count \in Nat /\ reads.last \in Nat /\ written \in Nat /\ lost \in Nat
      BY <1>1
    <3>2. /\ reads.count + lost + Len(queue) = written /\ reads.last + Len(queue) <= written
          /\ Len(queue) <= LatchCapacity
      BY <1>2
    <3> DEFINE c == reads.count
               l == reads.last
               n == Len(queue)
               m == Len(rest)
    <3>3. /\ c \in Nat /\ l \in Nat /\ n \in Nat /\ m \in Nat /\ m = n - 1
          /\ c + lost + n = written /\ n <= LatchCapacity
          /\ reads'.count = c + 1 /\ reads'.last = value /\ value = written - n + 1
      BY <2>2, <2>4, <2>6, <3>1, <3>2
    <3> HIDE DEF c, l, n, m
    <3>4. /\ c + 1 + lost + m = written /\ value + m <= written /\ m <= LatchCapacity
      BY <3>1, <3>3, Constants
    <3> QED BY <3>3, <3>4 DEF m
  <2> QED BY <1>3, <2>2, <2>6, <2>7, <2>8 DEF CInv, CommandsKept, Fresh, Numbered
<1> QED BY <1>4, <1>5

\* A write appends the next number, in place of the oldest command when the queue
\* is full.
LEMMA ThenCommands == Inv /\ CInv /\ Then => CInv'
<1> SUFFICES ASSUME Inv, CInv, Then PROVE CInv'
  OBVIOUS
<1> DEFINE queue == latch.queue
<1>1. /\ latch \in [value : Nat, pending : BOOLEAN, queue : Seq(Nat)]
      /\ reads \in [count : Nat, last : Nat, repeated : BOOLEAN]
      /\ written \in Nat /\ lost \in Nat
  BY DEF Inv, TypeOK
<1>2. /\ queue = Numbered(written, Len(queue)) /\ Len(queue) <= LatchCapacity
      /\ latch.pending = (queue # <<>>)
      /\ reads.count + lost + Len(queue) = written /\ ~reads.repeated
      /\ reads.last + Len(queue) <= written
  BY DEF CInv, CommandsKept, Fresh, Numbered
<1>3. reads' = reads
  BY DEF Then
<1>4. CASE job.next # "latch"
  <2>1. UNCHANGED <<written, lost, latch>>
    BY <1>4 DEF Then
  <2> QED BY <1>3, <2>1 DEF CInv, CommandsKept, Fresh
<1>5. CASE job.next = "latch"
  <2> DEFINE full == Len(queue) = LatchCapacity
             kept == IF full THEN Tail(queue) ELSE queue
             gone == IF full THEN 1 ELSE 0
  <2>1. queue \in Seq(Nat) /\ Len(queue) \in Nat
    BY <1>1
  <2>2. /\ written' = written + 1 /\ lost' = lost + gone
        /\ latch' = [value |-> written + 1, pending |-> TRUE,
                     queue |-> Append(kept, written + 1)]
    BY <1>1, <1>5 DEF Then, Accept
  <2>3. /\ kept \in Seq(Nat) /\ Len(kept) = Len(queue) - gone /\ Len(kept) < LatchCapacity
        /\ kept = Numbered(written, Len(kept))
    <3>1. CASE full
      <4>1. queue # <<>>
        BY <2>1, <3>1, Constants
      <4>2. kept \in Seq(Nat)
        BY <2>1, <3>1, <4>1
      <4>3. Len(Tail(queue)) = Len(queue) - 1 /\ Tail(queue) = Numbered(written, Len(Tail(queue)))
        BY <1>1, <1>2, <2>1, <4>1, NumberedTail
      <4> QED BY <2>1, <3>1, <4>2, <4>3, Constants
    <3>2. CASE ~full
      BY <1>2, <2>1, <3>2, Constants
    <3> QED BY <3>1, <3>2
  <2>4. gone \in Nat /\ Len(kept) \in Nat
    BY <2>3
  <2> HIDE DEF full, kept, gone, queue
  <2>5. /\ Len(Append(kept, written + 1)) = Len(kept) + 1
        /\ Append(kept, written + 1) = Numbered(written + 1, Len(kept) + 1)
    BY <1>1, <2>3, NumberedAppend
  <2>6. latch'.queue = Append(kept, written + 1) /\ latch'.pending = TRUE
    BY <2>2
  <2>7. Append(kept, written + 1) # <<>>
    BY <2>3, <2>4, <2>5
  <2>8. /\ reads.count + (lost + gone) + (Len(kept) + 1) = written + 1
        /\ reads.last + (Len(kept) + 1) <= written + 1
        /\ Len(kept) + 1 <= LatchCapacity
    <3>1. reads.count \in Nat /\ reads.last \in Nat /\ written \in Nat /\ lost \in Nat
      BY <1>1
    <3>2. reads.count + lost + Len(queue) = written /\ reads.last + Len(queue) <= written
      BY <1>2
    <3>3. Len(kept) = Len(queue) - gone /\ Len(kept) < LatchCapacity
      BY <2>3
    <3> DEFINE c == reads.count
               l == reads.last
               n == Len(queue)
               m == Len(kept)
    <3>4. /\ c \in Nat /\ l \in Nat /\ n \in Nat /\ m \in Nat /\ m = n - gone
          /\ c + lost + n = written /\ l + n <= written /\ m < LatchCapacity
      BY <2>1, <2>4, <3>1, <3>2, <3>3
    <3> HIDE DEF c, l, n, m
    <3>5. /\ c + (lost + gone) + (m + 1) = written + 1 /\ l + (m + 1) <= written + 1
          /\ m + 1 <= LatchCapacity
      BY <2>4, <3>1, <3>4, Constants
    <3> QED BY <3>5 DEF c, l, m
  <2> QED BY <1>2, <1>3, <2>2, <2>5, <2>6, <2>7, <2>8 DEF CInv, CommandsKept, Fresh, Numbered
<1> QED BY <1>4, <1>5

\* No other step touches the latch.
LEMMA NextCommands == Inv /\ CInv /\ [Next]_vars => CInv'
<1> SUFFICES ASSUME Inv, CInv, [Next]_vars PROVE CInv'
  OBVIOUS
<1>1. ASSUME UNCHANGED <<latch, written, lost, reads>> PROVE CInv'
  BY <1>1 DEF CInv, CommandsKept, Fresh
<1>2. CASE TickMainCycles BY <1>1, <1>2 DEF TickMainCycles, history
<1>3. CASE WriteLatch BY <1>1, <1>3 DEF WriteLatch, Call, history
<1>4. CASE AssertIrq2 BY <1>1, <1>4 DEF AssertIrq2, Call, history
<1>5. CASE StartCoreAudio BY <1>1, <1>5 DEF StartCoreAudio, Call, history
<1>6. CASE CloneBoard BY <1>1, <1>6 DEF CloneBoard, history
<1>7. CASE ReadLatch BY <1>7, ReadCommands
<1>8. CASE RunAndRender BY <1>1, <1>8 DEF RunAndRender
<1>9. CASE TopUp BY <1>1, <1>9 DEF TopUp, history
<1>10. CASE Then BY <1>10, ThenCommands
<1>11. CASE UNCHANGED vars BY <1>1, <1>11 DEF vars
<1> QED BY <1>2, <1>3, <1>4, <1>5, <1>6, <1>7, <1>8, <1>9, <1>10, <1>11 DEF Next

\* A command is read once and in order, or given up for newer ones, or queued, for
\* every capacity of the latch and however the sound CPU reads.
THEOREM CommandsAreKept == Spec => []CommandsKept
<1>1. Init => CInv
  <2> SUFFICES ASSUME Init PROVE CInv
    OBVIOUS
  <2>1. /\ latch.queue = <<>> /\ latch.pending = FALSE /\ written = 0 /\ lost = 0
        /\ reads.count = 0 /\ reads.last = 0 /\ reads.repeated = FALSE
    BY DEF Init
  <2>2. Len(latch.queue) = 0 /\ 0 <= LatchCapacity
    BY <2>1, Constants
  <2>3. latch.queue = [i \in 1..Len(latch.queue) |-> written - Len(latch.queue) + i]
    <3>1. [i \in 1..0 |-> 0 - 0 + i] = <<>>
      OBVIOUS
    <3> QED BY <2>1, <2>2, <3>1
  <2>4. 0 + 0 + 0 = 0 /\ 0 + 0 <= 0
    OBVIOUS
  <2>5. CommandsKept
    BY <2>1, <2>2, <2>3, <2>4 DEF CommandsKept
  <2>6. Fresh
    BY <2>1, <2>2, <2>4 DEF Fresh
  <2> QED BY <2>5, <2>6 DEF CInv
<1>2. CInv => CommandsKept
  BY DEF CInv
<1> QED BY <1>1, <1>2, Invariance, NextCommands, PTL DEF Spec
=============================================================================
