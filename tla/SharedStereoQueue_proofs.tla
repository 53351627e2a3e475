----------------------- MODULE SharedStereoQueue_proofs -----------------------
(***************************************************************************)
(* The shared queue for every capacity, slice length and limit: types, who *)
(* holds which mutex, the accounts of frames and of misses, the stream it  *)
(* implements and the order in which frames are heard.                     *)
(***************************************************************************)
EXTENDS SharedStereoQueue, BoundedStereoQueue_proofs

\* The constants, one by one.
LEMMA Constants ==
  /\ \A n \in SliceLengths : n \in Nat /\ n > 0
  /\ Prebuffer \in Nat /\ PrimeFrames \in Nat
  /\ CallbackFrames \in Nat /\ CallbackFrames > 0
  /\ MissConcealment \in Nat /\ RescueMax \in Nat
  /\ DeferredMax \in Nat /\ FlushMax \in Nat /\ FlushExtra \in Nat
  /\ CallbackFrames <= FlushMax
  BY SharedConstants
-----------------------------------------------------------------------------
(***************************************************************************)
(* Who holds what.                                                         *)
(***************************************************************************)

\* The mutexes are held where the program counters say; the callback exists once
\* the device is started; and when the emulator defers a slice, the callback has
\* not lost the race: the one that holds the queue cannot have missed it.
Locks ==
  /\ innerOwner \in {"emulator", "callback", "free"}
  /\ pendOwner \in {"emulator", "callback", "free"}
  /\ epc \in EmuPc /\ cpc \in CbPc
  /\ LockDiscipline
  /\ epc \in {"boot", "prime"} <=> cpc = "off"
  /\ epc \in {"defer", "deferring"} => cpc \notin {"tryRescue", "rescue", "gap"}

LEMMA EmulatorLocks == Locks /\ Emulator => Locks'
<1> SUFFICES ASSUME Locks, Emulator PROVE Locks'
  OBVIOUS
<1> USE DEF Locks, LockDiscipline, EmuPc, CbPc, emuVars, cbVars
<1>1. CASE BootPush
  BY <1>1 DEF BootPush
<1>2. CASE PrepareForPlayback
  BY <1>2 DEF PrepareForPlayback
<1>3. CASE PrimeOne
  BY <1>3 DEF PrimeOne
<1>4. CASE StartDevice
  BY <1>4 DEF StartDevice
<1>5. CASE Push_Begin
  BY <1>5 DEF Push_Begin
<1>6. CASE Push_TryInner
  BY <1>6 DEF Push_TryInner
<1>7. CASE Push_TryFlush
  BY <1>7 DEF Push_TryFlush
<1>8. CASE Push_Flush
  BY <1>8 DEF Push_Flush
<1>9. CASE Push_EndFlush
  BY <1>9 DEF Push_EndFlush
<1>10. CASE Push_Store
  BY <1>10 DEF Push_Store
<1>11. CASE Push_TryDefer
  BY <1>11 DEF Push_TryDefer
<1>12. CASE Push_Defer
  BY <1>12 DEF Push_Defer
<1>13. CASE Observe_TryInner
  BY <1>13 DEF Observe_TryInner
<1>14. CASE Observe_EndInner
  BY <1>14 DEF Observe_EndInner
<1>15. CASE Observe_TryPending
  BY <1>15 DEF Observe_TryPending
<1>16. CASE Observe_EndPending
  BY <1>16 DEF Observe_EndPending
<1>17. CASE Push_Cache
  BY <1>17 DEF Push_Cache
<1> QED
  BY <1>1, <1>2, <1>3, <1>4, <1>5, <1>6, <1>7, <1>8, <1>9, <1>10, <1>11, <1>12, <1>13,
     <1>14, <1>15, <1>16, <1>17 DEF Emulator

LEMMA CallbackLocks == Locks /\ Callback => Locks'
<1> SUFFICES ASSUME Locks, Callback PROVE Locks'
  OBVIOUS
<1> USE DEF Locks, LockDiscipline, EmuPc, CbPc, emuVars, cbVars
<1>1. CASE Callback_Begin
  BY <1>1 DEF Callback_Begin
<1>2. CASE Callback_TryInner
  BY <1>2 DEF Callback_TryInner
<1>3. CASE Callback_TryFlush
  BY <1>3 DEF Callback_TryFlush
<1>4. CASE Callback_Flush
  BY <1>4 DEF Callback_Flush
<1>5. CASE Callback_EndFlush
  BY <1>5 DEF Callback_EndFlush
<1>6. CASE Callback_Pop
  BY <1>6 DEF Callback_Pop
<1>7. CASE Callback_EndPop
  BY <1>7 DEF Callback_EndPop
<1>8. CASE Callback_TryRescue
  BY <1>8 DEF Callback_TryRescue
<1>9. CASE Callback_Rescue
  BY <1>9 DEF Callback_Rescue
<1>10. CASE Callback_EndRescue
  BY <1>10 DEF Callback_EndRescue
<1>11. CASE Callback_Gap
  BY <1>11 DEF Callback_Gap
<1> QED
  BY <1>1, <1>2, <1>3, <1>4, <1>5, <1>6, <1>7, <1>8, <1>9, <1>10, <1>11 DEF Callback

LEMMA LocksInvariant == Spec => []Locks
<1>1. Init => Locks
  BY DEF Init, Locks, LockDiscipline, EmuPc, CbPc
<1>2. Locks /\ [Next]_vars => Locks'
  <2> SUFFICES ASSUME Locks, [Next]_vars PROVE Locks'
    OBVIOUS
  <2>1. CASE UNCHANGED vars
    BY <2>1 DEF vars, emuVars, cbVars, Locks, LockDiscipline
  <2> QED BY <2>1, EmulatorLocks, CallbackLocks DEF Next, Finished
<1> QED BY <1>1, <1>2, PTL DEF Spec
-----------------------------------------------------------------------------
(***************************************************************************)
(* Types.                                                                  *)
(***************************************************************************)

\* Slices are frames, as many as rendered.
LEMMA RenderingFrames ==
  ASSUME rendered \in Nat, NEW n \in Nat
  PROVE  Rendering(n) \in Seq(Frame) /\ Len(Rendering(n)) = n
<1>1. \A i \in 1..n : rendered + i \in Frame
  BY DEF Frame
<1> QED BY <1>1 DEF Rendering

\* One counter or two set to a number.
LEMMA StatsOne ==
  ASSUME NEW s \in StatsType, NEW x \in Nat
  PROVE  /\ [s EXCEPT !.pushed = x] \in StatsType
         /\ [s EXCEPT !.rescueFrames = x] \in StatsType
         /\ [s EXCEPT !.producerMiss = x] \in StatsType
  BY DEF StatsType

LEMMA StatsTwo ==
  ASSUME NEW s \in StatsType, NEW x \in Nat, NEW y \in Nat
  PROVE  /\ [s EXCEPT !.missFrames = x, !.missEvents = y] \in StatsType
         /\ [s EXCEPT !.fallback = x, !.silence = y] \in StatsType
<1>1. [s EXCEPT !.missFrames = x, !.missEvents = y] \in StatsType
  BY DEF StatsType
<1>2. [s EXCEPT !.fallback = x, !.silence = y] \in StatsType
  BY DEF StatsType
<1> QED BY <1>1, <1>2

LEMMA StatsThree ==
  ASSUME NEW s \in StatsType, NEW x \in Nat, NEW y \in Nat, NEW z \in Nat
  PROVE  [s EXCEPT !.producerMiss = x, !.deferred = y, !.deferredDropped = z] \in StatsType
  BY DEF StatsType

\* What a deferral keeps, misses and drops.
LEMMA DeferFacts ==
  ASSUME TypeOK
  PROVE  LET retained == LastN(slice, DeferredMax)
             kept == LastN(pending \o retained, DeferredMax) IN
         /\ retained \in Seq(Frame) /\ kept \in Seq(Frame)
         /\ Len(kept) <= DeferredMax /\ Len(kept) \in Nat
         /\ Len(retained) \in Nat /\ Len(slice) - Len(retained) \in Nat
         /\ Len(pending) + Len(retained) - Len(kept) \in Nat
         /\ Len(slice) > Len(retained) => Len(slice) > DeferredMax
<1> DEFINE retained == LastN(slice, DeferredMax)
           both == pending \o retained
           kept == LastN(both, DeferredMax)
<1>1. slice \in Seq(Frame) /\ pending \in Seq(Frame) /\ DeferredMax \in Nat
  BY Constants DEF TypeOK
<1>2. retained \in Seq(Frame) /\ Len(retained) = Least(DeferredMax, Len(slice))
  BY <1>1, LastNSuffix
<1>3. both \in Seq(Frame) /\ Len(both) = Len(pending) + Len(retained)
  BY <1>1, <1>2, ConcatProperties
<1> HIDE DEF both, retained
<1>4. kept \in Seq(Frame) /\ Len(kept) = Least(DeferredMax, Len(both))
  BY <1>1, <1>3, LastNSuffix
<1>5. Len(slice) \in Nat /\ Len(pending) \in Nat
  BY <1>1, LenProperties
<1> HIDE DEF kept
<1>6. /\ Len(retained) \in Nat /\ Len(slice) - Len(retained) \in Nat
      /\ Len(slice) > Len(retained) => Len(slice) > DeferredMax
  BY <1>1, <1>2, <1>5 DEF Least
<1>7. /\ Len(kept) <= DeferredMax /\ Len(kept) \in Nat
      /\ Len(pending) + Len(retained) - Len(kept) \in Nat
  BY <1>1, <1>3, <1>4, <1>5, <1>6 DEF Least
<1> QED BY <1>2, <1>4, <1>6, <1>7 DEF kept, both, retained

\* One flushed frame.
LEMMA FlushTypes ==
  ASSUME TypeOK, NEW t \in Threads, FlushOne(t)
  PROVE  /\ Queue(inner') /\ inner'.pushed = inner.pushed + 1
         /\ pending' \in Seq(Frame) /\ Len(pending') = Len(pending) - 1
         /\ Len(pending) \in Nat /\ Len(pending') <= DeferredMax
         /\ budget' \in [Threads -> 0..FlushMax]
<1>1. pending \in Seq(Frame) /\ pending # <<>> /\ Len(pending) \in Nat
  BY LenProperties DEF TypeOK, FlushOne
<1>2. /\ Head(pending) \in Frame /\ Tail(pending) \in Seq(Frame)
      /\ Len(Tail(pending)) = Len(pending) - 1
  BY <1>1, HeadTailProperties
<1>3. Filled(inner', inner, <<Head(pending)>>)
  BY <1>2, PushEffect DEF FlushOne, TypeOK, Queue
<1>4. Len(<<Head(pending)>>) = 1
  OBVIOUS
<1>5. Queue(inner') /\ inner'.pushed = inner.pushed + 1
  BY <1>3, <1>4 DEF Filled
<1>6. budget[t] - 1 \in 0..FlushMax
  BY Constants DEF TypeOK, FlushOne
<1>7. budget' \in [Threads -> 0..FlushMax]
  BY <1>6 DEF TypeOK, FlushOne
<1>8. pending' = Tail(pending) /\ Len(pending) <= DeferredMax /\ DeferredMax \in Nat
  BY Constants DEF FlushOne, TypeOK
<1>9. Len(pending') = Len(pending) - 1 /\ Len(pending') <= DeferredMax
  BY <1>1, <1>2, <1>8
<1> QED BY <1>1, <1>2, <1>5, <1>7, <1>8, <1>9

\* One frame popped.
LEMMA PopTypes ==
  ASSUME TypeOK
  PROVE  /\ Queue(Pop(inner)) /\ Pop(inner).pushed = inner.pushed
         /\ Hearing(inner) \in Seq(Frame)
<1>1. Drained(Pop(inner), inner)
  BY PopEffect DEF TypeOK, Queue
<1>2. TakesFrame(inner) => Head(inner.frames) \in Frame
  BY HeadTailProperties DEF TypeOK, QueueType, TakesFrame
<1>3. Hearing(inner) \in Seq(Frame)
  BY <1>2 DEF Hearing, TypeOK
<1> QED BY <1>1, <1>3 DEF Drained

\* Which queue a thread may leave behind: the others of its variables are flat.
Flat ==
  /\ innerOwner \in Threads \cup {"free"} /\ pendOwner \in Threads \cup {"free"}
  /\ epc \in EmuPc /\ cpc \in CbPc
  /\ budget \in [Threads -> 0..FlushMax]
  /\ left \in 0..CallbackFrames /\ rescued \in 0..RescueMax
  /\ cachedValid \in BOOLEAN /\ missRun \in 0..MissConcealment
  /\ rendered \in Nat /\ carried \in Nat
  /\ deepest \in Nat /\ callbacks \in Nat /\ observations \in Nat

Deep ==
  /\ Queue(inner)
  /\ pending \in Seq(Frame) /\ Len(pending) <= DeferredMax
  /\ slice \in Seq(Frame) /\ stats \in StatsType /\ heard \in Seq(Frame)

LEMMA TypesParted == TypeOK <=> Flat /\ Deep
  BY DEF TypeOK, Flat, Deep, Queue

LEMMA TypesPartedNext == Flat' /\ Deep' => TypeOK'
  BY DEF TypeOK, Flat, Deep, Queue

\* The counters by themselves.
LEMMA StatsNat ==
  ASSUME stats \in StatsType
  PROVE  /\ stats.pushed \in Nat /\ stats.missFrames \in Nat /\ stats.missEvents \in Nat
         /\ stats.rescueFrames \in Nat /\ stats.fallback \in Nat /\ stats.silence \in Nat
         /\ stats.producerMiss \in Nat /\ stats.deferred \in Nat
         /\ stats.deferredDropped \in Nat
  BY DEF StatsType

\* A step that only moves program counters and locks.
LEMMA DeepSame ==
  ASSUME Deep, UNCHANGED <<inner, pending, slice, stats, heard>>
  PROVE  Deep'
  BY DEF Deep

LEMMA BootTypes == TypeOK /\ (BootPush \/ PrepareForPlayback \/ PrimeOne \/ StartDevice) => TypeOK'
<1> SUFFICES ASSUME TypeOK, BootPush \/ PrepareForPlayback \/ PrimeOne \/ StartDevice
             PROVE  Flat' /\ Deep'
  BY TypesPartedNext
<1>0. Flat /\ Deep
  BY TypesParted
<1>1. CASE BootPush
  <2>1. PICK n \in SliceLengths :
          /\ inner' = PushSlice(PushSlice(inner, pending), Rendering(n))
          /\ stats' = [stats EXCEPT !.pushed = @ + n]
          /\ rendered' = rendered + n
    BY <1>1 DEF BootPush
  <2>2. n \in Nat /\ rendered \in Nat /\ stats \in StatsType
    BY <1>0, Constants DEF Flat, Deep
  <2>3. Queue(PushSlice(inner, pending))
    BY <1>0, PushSliceEffect DEF Deep, Filled
  <2>4. Queue(inner')
    BY <2>1, <2>2, <2>3, RenderingFrames, PushSliceEffect DEF Filled
  <2>5. rendered + n \in Nat /\ stats.pushed + n \in Nat
    BY <2>2, StatsNat
  <2>6. stats' \in StatsType
    BY <2>1, <2>2, <2>5, StatsOne
  <2>7. pending' \in Seq(Frame) /\ Len(pending') <= DeferredMax
    BY <1>1, Constants, EmptySeq DEF BootPush
  <2>8. UNCHANGED <<innerOwner, pendOwner, budget, epc, slice, carried, deepest, observations,
                   cbVars>> /\ cachedValid'
    BY <1>1 DEF BootPush
  <2>9. Flat'
    BY <1>0, <1>1, <2>1, <2>5 DEF BootPush, Flat, cbVars
  <2> QED BY <1>0, <2>4, <2>6, <2>7, <2>8, <2>9 DEF Deep, cbVars
<1>2. CASE PrepareForPlayback
  <2>1. Queue(PushSlice(inner, pending))
    BY <1>0, PushSliceEffect DEF Deep, Filled
  <2>2. Queue(inner')
    BY <1>2, <2>1, PrepareEffect, Constants DEF PrepareForPlayback
  <2>3. Len(inner'.frames) \in Nat /\ inner'.lastValid \in BOOLEAN
    BY <2>2, LenProperties DEF Queue, QueueType
  <2>4. Flat'
    BY <1>0, <1>2, <2>3 DEF PrepareForPlayback, Flat, EmuPc, cbVars
  <2>5. stats' \in StatsType
    BY <1>0, <1>2, StatsOne DEF PrepareForPlayback, Deep
  <2>6. pending' \in Seq(Frame) /\ Len(pending') <= DeferredMax
    BY <1>2, Constants, EmptySeq DEF PrepareForPlayback
  <2>7. slice' = slice /\ heard' = heard
    BY <1>2 DEF PrepareForPlayback, cbVars
  <2> QED BY <1>0, <2>2, <2>4, <2>5, <2>6, <2>7 DEF Deep
<1>3. CASE PrimeOne
  <2>1. Queue(inner') /\ heard' \in Seq(Frame)
    BY <1>3, PopTypes DEF PrimeOne
  <2>2. UNCHANGED <<pending, slice, stats>>
    BY <1>3 DEF PrimeOne, emuVars
  <2>3. Flat'
    BY <1>0, <1>3 DEF PrimeOne, Flat, emuVars
  <2> QED BY <1>0, <2>1, <2>2, <2>3 DEF Deep
<1>4. CASE StartDevice
  <2>1. Flat'
    BY <1>0, <1>4 DEF StartDevice, Flat, EmuPc, CbPc
  <2> QED BY <1>0, <1>4, <2>1, DeepSame DEF StartDevice
<1> QED BY <1>1, <1>2, <1>3, <1>4

LEMMA PushTypes ==
  TypeOK /\ (Push_Begin \/ Push_Flush \/ Push_Store \/ Push_TryDefer \/ Push_Defer) => TypeOK'
<1> SUFFICES ASSUME TypeOK, Push_Begin \/ Push_Flush \/ Push_Store \/ Push_TryDefer \/ Push_Defer
             PROVE  Flat' /\ Deep'
  BY TypesPartedNext
<1>0. Flat /\ Deep
  BY TypesParted
<1>1. CASE Push_Begin
  <2>1. PICK n \in SliceLengths :
          /\ slice' = Rendering(n) /\ rendered' = rendered + n
          /\ stats' = [stats EXCEPT !.pushed = @ + n]
    BY <1>1 DEF Push_Begin
  <2>2. n \in Nat /\ rendered \in Nat /\ stats \in StatsType
    BY <1>0, Constants DEF Flat, Deep
  <2>3. rendered + n \in Nat /\ stats.pushed + n \in Nat
    BY <2>2, StatsNat
  <2>4. stats' \in StatsType /\ slice' \in Seq(Frame)
    BY <2>1, <2>2, <2>3, StatsOne, RenderingFrames
  <2>5. Flat'
    BY <1>0, <1>1, <2>1, <2>3 DEF Push_Begin, Flat, EmuPc, cbVars
  <2> QED BY <1>0, <1>1, <2>4, <2>5 DEF Push_Begin, Deep, cbVars
<1>2. CASE Push_Flush
  <2>1. /\ Queue(inner') /\ pending' \in Seq(Frame) /\ Len(pending') <= DeferredMax
        /\ budget' \in [Threads -> 0..FlushMax]
    BY <1>2, FlushTypes DEF Push_Flush, Threads
  <2>2. UNCHANGED <<slice, stats, heard>>
    BY <1>2 DEF Push_Flush, emuVars, cbVars
  <2>3. Flat'
    BY <1>0, <1>2, <2>1 DEF Push_Flush, Flat, emuVars, cbVars
  <2> QED BY <1>0, <2>1, <2>2, <2>3 DEF Deep
<1>3. CASE Push_Store
  <2>1. Queue(inner')
    BY <1>0, <1>3, PushSliceEffect DEF Push_Store, Deep, Filled
  <2>2. slice' \in Seq(Frame)
    BY <1>3, EmptySeq DEF Push_Store
  <2>3. Flat'
    BY <1>0, <1>3 DEF Push_Store, Flat, EmuPc, cbVars
  <2> QED BY <1>0, <1>3, <2>1, <2>2, <2>3 DEF Push_Store, Deep, cbVars
<1>4. CASE Push_TryDefer
  <2>1. Len(slice) \in Nat /\ <<>> \in Seq(Frame)
    BY <1>0, LenProperties DEF Deep
  <2>2. stats.producerMiss + Len(slice) \in Nat /\ stats \in StatsType
    BY <1>0, <2>1, StatsNat DEF Deep
  <2>3. stats' \in StatsType /\ slice' \in Seq(Frame)
    BY <1>0, <1>4, <2>1, <2>2, StatsOne DEF Push_TryDefer, Deep
  <2>4. Flat'
    BY <1>0, <1>4 DEF Push_TryDefer, Flat, EmuPc, Threads, cbVars
  <2> QED BY <1>0, <1>4, <2>3, <2>4 DEF Push_TryDefer, Deep, cbVars
<1>5. CASE Push_Defer
  <2> DEFINE retained == LastN(slice, DeferredMax)
             kept == LastN(pending \o retained, DeferredMax)
             x == Len(slice) - Len(retained)
             y == Len(retained)
             z == Len(pending) + Len(retained) - Len(kept)
  <2>1. /\ kept \in Seq(Frame) /\ Len(kept) <= DeferredMax /\ Len(kept) \in Nat
        /\ x \in Nat /\ y \in Nat /\ z \in Nat
    BY DeferFacts
  <2>2. /\ pending' = kept /\ deepest' = Greatest(deepest, Len(kept))
        /\ stats' = [stats EXCEPT !.producerMiss = @ + x, !.deferred = @ + y,
                                  !.deferredDropped = @ + z]
    BY <1>5 DEF Push_Defer
  <2> HIDE DEF kept, retained, x, y, z
  <2>3. stats \in StatsType
    BY <1>0 DEF Deep
  <2>4. stats' \in StatsType
    <3>1. /\ stats.producerMiss + x \in Nat /\ stats.deferred + y \in Nat
          /\ stats.deferredDropped + z \in Nat
      <4>1. stats.producerMiss \in Nat /\ stats.deferred \in Nat /\ stats.deferredDropped \in Nat
        BY <2>3, StatsNat
      <4>2. x \in Nat /\ y \in Nat /\ z \in Nat
        BY <2>1
      <4> DEFINE a == stats.producerMiss
                 b == stats.deferred
                 c == stats.deferredDropped
      <4>3. a \in Nat /\ b \in Nat /\ c \in Nat
        BY <4>1
      <4> HIDE DEF a, b, c
      <4>4. a + x \in Nat /\ b + y \in Nat /\ c + z \in Nat
        BY <4>2, <4>3
      <4> QED BY <4>4 DEF a, b, c
    <3> QED BY <2>2, <2>3, <3>1, StatsThree
  <2>5. deepest' \in Nat
    BY <1>0, <2>1, <2>2 DEF Flat, Greatest
  <2>6. Flat'
    BY <1>0, <1>5, <2>5 DEF Push_Defer, Flat, EmuPc, cbVars
  <2>7. slice' \in Seq(Frame) /\ UNCHANGED <<inner, heard>>
    BY <1>5, EmptySeq DEF Push_Defer, cbVars
  <2>8. pending' \in Seq(Frame) /\ Len(pending') <= DeferredMax
    BY <2>1, <2>2
  <2> QED BY <1>0, <2>4, <2>6, <2>7, <2>8 DEF Deep
<1> QED BY <1>1, <1>2, <1>3, <1>4, <1>5

LEMMA QuietTypes ==
  TypeOK /\ (\/ Push_Cache \/ Push_TryInner \/ Push_TryFlush \/ Push_EndFlush
             \/ Observe_TryInner \/ Observe_EndInner \/ Observe_TryPending \/ Observe_EndPending
             \/ Callback_Begin \/ Callback_TryFlush \/ Callback_EndFlush \/ Callback_EndPop
             \/ Callback_TryRescue) => TypeOK'
<1> SUFFICES ASSUME TypeOK,
               \/ Push_Cache \/ Push_TryInner \/ Push_TryFlush \/ Push_EndFlush
               \/ Observe_TryInner \/ Observe_EndInner \/ Observe_TryPending \/ Observe_EndPending
               \/ Callback_Begin \/ Callback_TryFlush \/ Callback_EndFlush \/ Callback_EndPop
               \/ Callback_TryRescue
             PROVE  Flat' /\ Deep'
  BY TypesPartedNext
<1>0. Flat /\ Deep
  BY TypesParted
<1>1. Deep'
  BY <1>0, DeepSame DEF Push_Cache, Push_TryInner, Push_TryFlush, Push_EndFlush,
     Observe_TryInner, Observe_EndInner, Observe_TryPending, Observe_EndPending, Callback_Begin,
     Callback_TryFlush, Callback_EndFlush, Callback_EndPop, Callback_TryRescue, emuVars, cbVars
<1>2. RealtimeFlushLimit \in 0..FlushMax /\ FlushMax \in 0..FlushMax
  BY Constants DEF RealtimeFlushLimit, Clamp, Greatest, Least
<1>3. inner.lastValid \in BOOLEAN
  BY <1>0 DEF Deep, Queue, QueueType
<1> USE DEF Flat, EmuPc, CbPc, Threads, emuVars, cbVars
<1>4. CASE Push_Cache \/ Push_TryInner \/ Push_EndFlush
  BY <1>0, <1>1, <1>4 DEF Push_Cache, Push_TryInner, Push_EndFlush
<1>5. CASE Push_TryFlush \/ Callback_TryFlush
  <2>1. budget' \in [Threads -> 0..FlushMax]
    BY <1>0, <1>2, <1>5 DEF Push_TryFlush, Callback_TryFlush
  <2> QED BY <1>0, <1>1, <1>5, <2>1 DEF Push_TryFlush, Callback_TryFlush
<1>6. CASE Observe_TryInner \/ Observe_EndInner \/ Observe_TryPending \/ Observe_EndPending
  BY <1>0, <1>1, <1>6 DEF Observe_TryInner, Observe_EndInner, Observe_TryPending,
     Observe_EndPending
<1>7. CASE Callback_Begin
  BY <1>0, <1>1, <1>7, Constants, SMTT(30) DEF Callback_Begin
<1>8. CASE Callback_EndFlush \/ Callback_EndPop \/ Callback_TryRescue
  BY <1>0, <1>1, <1>3, <1>8 DEF Callback_EndFlush, Callback_EndPop, Callback_TryRescue
<1> QED BY <1>4, <1>5, <1>6, <1>7, <1>8

LEMMA CallbackTypes ==
  TypeOK /\ (\/ Callback_TryInner \/ Callback_Flush \/ Callback_Pop \/ Callback_Rescue
             \/ Callback_EndRescue \/ Callback_Gap) => TypeOK'
<1> SUFFICES ASSUME TypeOK,
               \/ Callback_TryInner \/ Callback_Flush \/ Callback_Pop \/ Callback_Rescue
               \/ Callback_EndRescue \/ Callback_Gap
             PROVE  Flat' /\ Deep'
  BY TypesPartedNext
<1>0. Flat /\ Deep /\ stats \in StatsType
  BY TypesParted DEF Deep
<1>1. /\ left \in Nat /\ left <= CallbackFrames /\ rescued \in Nat /\ rescued <= RescueMax
      /\ missRun \in Nat /\ missRun <= MissConcealment
      /\ CallbackFrames \in Nat /\ RescueMax \in Nat /\ MissConcealment \in Nat
  BY <1>0, Constants DEF Flat
<1>2. CASE Callback_TryInner
  <2>1. stats.missFrames + left \in Nat /\ stats.missEvents + 1 \in Nat
    BY <1>0, <1>1, StatsNat
  <2>2. stats' \in StatsType
    BY <1>0, <1>2, <2>1, StatsTwo, ZenonT(40) DEF Callback_TryInner
  <2>3. Flat'
    BY <1>0, <1>1, <1>2 DEF Callback_TryInner, Flat, CbPc, Threads, emuVars
  <2> QED BY <1>0, <1>2, <2>2, <2>3 DEF Callback_TryInner, Deep, emuVars
<1>3. CASE Callback_Flush
  <2>1. /\ Queue(inner') /\ pending' \in Seq(Frame) /\ Len(pending') <= DeferredMax
        /\ budget' \in [Threads -> 0..FlushMax]
    BY <1>3, FlushTypes DEF Callback_Flush, Threads
  <2>2. UNCHANGED <<slice, stats, heard>>
    BY <1>3 DEF Callback_Flush, emuVars, cbVars
  <2>3. Flat'
    BY <1>0, <1>3, <2>1 DEF Callback_Flush, Flat, emuVars, cbVars
  <2> QED BY <1>0, <2>1, <2>2, <2>3 DEF Deep
<1>4. CASE Callback_Pop
  <2>1. Queue(inner') /\ heard' \in Seq(Frame)
    BY <1>4, PopTypes DEF Callback_Pop
  <2>2. left' \in 0..CallbackFrames
    BY <1>1, <1>4 DEF Callback_Pop
  <2>3. Flat'
    BY <1>0, <1>4, <2>2 DEF Callback_Pop, Flat, emuVars
  <2> QED BY <1>0, <1>4, <2>1, <2>3 DEF Callback_Pop, Deep, emuVars
<1>5. CASE Callback_Rescue
  <2>1. pending \in Seq(Frame) /\ pending # <<>> /\ Len(pending) \in Nat
        /\ Len(pending) <= DeferredMax
    BY <1>0, <1>5, LenProperties DEF Deep, Callback_Rescue
  <2>2. /\ Head(pending) \in Frame /\ Tail(pending) \in Seq(Frame)
        /\ Len(Tail(pending)) = Len(pending) - 1
    BY <2>1, HeadTailProperties
  <2>3. heard' \in Seq(Frame)
    BY <1>0, <1>5, <2>2 DEF Callback_Rescue, Deep
  <2>4. pending' \in Seq(Frame) /\ Len(pending') <= DeferredMax
    BY <1>5, <2>1, <2>2, Constants DEF Callback_Rescue
  <2>5. left' \in 0..CallbackFrames /\ rescued' \in 0..RescueMax
    BY <1>1, <1>5 DEF Callback_Rescue
  <2>6. Flat'
    BY <1>0, <1>5, <2>5 DEF Callback_Rescue, Flat, emuVars
  <2> QED BY <1>0, <1>5, <2>3, <2>4, <2>6 DEF Callback_Rescue, Deep, emuVars
<1>6. CASE Callback_EndRescue
  <2>1. stats.rescueFrames + rescued \in Nat
    BY <1>0, <1>1, StatsNat
  <2>2. stats' \in StatsType
    BY <1>0, <1>6, <2>1, StatsOne DEF Callback_EndRescue
  <2>3. Flat'
    BY <1>0, <1>1, <1>6 DEF Callback_EndRescue, Flat, CbPc, emuVars
  <2> QED BY <1>0, <1>6, <2>2, <2>3 DEF Callback_EndRescue, Deep, emuVars
<1>7. CASE Callback_Gap
  <2> DEFINE faded == IF cachedValid THEN Least(left, MissConcealment - missRun) ELSE 0
  <2>1. faded \in Nat /\ left - faded \in Nat
    BY <1>1 DEF Least
  <2>2. stats' = [stats EXCEPT !.fallback = @ + faded, !.silence = @ + (left - faded)]
    BY <1>7 DEF Callback_Gap
  <2> HIDE DEF faded
  <2>3. stats.fallback + faded \in Nat /\ stats.silence + (left - faded) \in Nat
    BY <1>0, <2>1, StatsNat
  <2>4. stats' \in StatsType
    BY <1>0, <2>2, <2>3, StatsTwo
  <2>5. missRun' \in 0..MissConcealment
    BY <1>1, <1>7 DEF Callback_Gap, Least
  <2>6. left' \in 0..CallbackFrames
    BY <1>1, <1>7 DEF Callback_Gap
  <2>7. Flat'
    BY <1>0, <1>7, <2>5, <2>6 DEF Callback_Gap, Flat, CbPc, emuVars
  <2> QED BY <1>0, <1>7, <2>4, <2>7 DEF Callback_Gap, Deep, emuVars
<1> QED BY <1>2, <1>3, <1>4, <1>5, <1>6, <1>7

\* Whatever the two threads do, every value has its type, and neither list exceeds
\* its limit.
THEOREM TypeCorrect == Spec => []TypeOK
<1>1. Init => TypeOK
  <2> SUFFICES ASSUME Init PROVE Flat /\ Deep
    BY TypesParted
  <2>1. Deep
    <3>1. NoStats \in StatsType
      BY DEF NoStats, StatsType
    <3>2. <<>> \in Seq(Frame) /\ Len(<<>>) = 0
      BY EmptySeq
    <3> QED BY <3>1, <3>2, NewQueueOK, Constants DEF Init, Deep
  <2>2. [t \in Threads |-> 0] \in [Threads -> 0..FlushMax]
    BY Constants
  <2>3. 0 \in 0..CallbackFrames /\ 0 \in 0..RescueMax /\ 0 \in 0..MissConcealment
    BY Constants
  <2>4. Flat
    BY <2>2, <2>3 DEF Init, Flat, EmuPc, CbPc
  <2> QED BY <2>1, <2>4
<1>2. TypeOK /\ [Next]_vars => TypeOK'
  <2> SUFFICES ASSUME TypeOK, [Next]_vars PROVE TypeOK'
    OBVIOUS
  <2>1. CASE UNCHANGED vars
    BY <2>1 DEF vars, emuVars, cbVars, TypeOK
  <2> QED BY <2>1, BootTypes, PushTypes, QuietTypes, CallbackTypes
          DEF Next, Emulator, Callback, Finished
<1> QED BY <1>1, <1>2, PTL DEF Spec
-----------------------------------------------------------------------------
(***************************************************************************)
(* The accounts of frames and of misses.                                   *)
(***************************************************************************)

Rescuing == IF cpc = "rescue" THEN rescued ELSE 0
Missing == IF cpc \in {"tryRescue", "rescue", "gap"} THEN left ELSE 0

\* Where every pushed frame is, from hidden boot on.
FrameAccount ==
  /\ stats.pushed = inner.pushed + Len(pending) + Len(slice) + stats.producerMiss
                    + stats.deferredDropped + stats.rescueFrames + Rescuing
  /\ epc \in {"boot", "prime", "idle", "observe", "tryPending", "observePending"}
       => slice = <<>>
  /\ epc = "boot" =>
       stats.producerMiss = 0 /\ stats.deferredDropped = 0 /\ stats.rescueFrames = 0
  /\ cpc \in {"tryInner", "tryRescue"} => rescued = 0

\* What became of every missed frame, and that there is a sample once there was audio.
MissAccount ==
  /\ stats.missFrames = stats.rescueFrames + stats.fallback + stats.silence
                        + Missing + Rescuing
  /\ cachedValid \/ (stats.pushed = Uncached /\ carried = 0)
  /\ epc = "boot" => carried = 0

\* The queue's own account.
QueueAccount ==
  /\ QueueConservation
  /\ epc = "boot" => carried = 0

Numbers ==
  /\ stats \in StatsType
  /\ inner.pushed \in Nat /\ inner.popped \in Nat /\ inner.dropped \in Nat
  /\ Len(inner.frames) \in Nat /\ Len(pending) \in Nat /\ Len(slice) \in Nat
  /\ left \in Nat /\ rescued \in Nat /\ carried \in Nat /\ missRun \in Nat

LEMMA NumbersOK == TypeOK => Numbers
<1> SUFFICES ASSUME TypeOK PROVE Numbers
  OBVIOUS
<1>1. Flat /\ Deep
  BY TypesParted
<1>2. inner.frames \in Seq(Frame) /\ pending \in Seq(Frame) /\ slice \in Seq(Frame)
  BY <1>1 DEF Deep, Queue, QueueType
<1>3. Len(inner.frames) \in Nat /\ Len(pending) \in Nat /\ Len(slice) \in Nat
  BY <1>2, LenProperties
<1>4. inner.pushed \in Nat /\ inner.popped \in Nat /\ inner.dropped \in Nat
  BY <1>1 DEF Deep, Queue, QueueType
<1>5. left \in Nat /\ rescued \in Nat /\ carried \in Nat /\ missRun \in Nat
  BY <1>1, Constants DEF Flat
<1> QED BY <1>1, <1>3, <1>4, <1>5 DEF Numbers, Deep

LEMMA NumbersNext == TypeOK' => Numbers'
  BY NumbersOK, PTL

\* The queue took k frames in, and let out or dropped what it no longer has.
Balance(r) == r.popped + r.dropped + Len(r.frames)
Grown(p, r, k) == p.pushed = r.pushed + k /\ Balance(p) = Balance(r) + k

LEMMA QueueNat ==
  ASSUME NEW r, Queue(r)
  PROVE  /\ r.pushed \in Nat /\ r.popped \in Nat /\ r.dropped \in Nat
         /\ r.frames \in Seq(Frame) /\ Len(r.frames) \in Nat /\ Balance(r) \in Nat
<1>1. /\ r.pushed \in Nat /\ r.popped \in Nat /\ r.dropped \in Nat
      /\ r.frames \in Seq(Frame) /\ Len(r.frames) \in Nat
  BY LenProperties DEF Queue, QueueType
<1> QED BY <1>1 DEF Balance

LEMMA FilledGrown ==
  ASSUME NEW p, NEW r, NEW fs \in Seq(Frame), Queue(r), Filled(p, r, fs)
  PROVE  Queue(p) /\ Grown(p, r, Len(fs))
<1> DEFINE a == r.popped
           b == r.dropped
           c == Len(r.frames)
           x == p.dropped
           y == Len(p.frames)
           n == Len(fs)
<1>1. Queue(p) /\ p.pushed = r.pushed + n /\ p.popped = a /\ x + y = b + c + n
  BY DEF Filled, SameOutput
<1>2. a \in Nat /\ b \in Nat /\ c \in Nat /\ x \in Nat /\ y \in Nat /\ n \in Nat
  BY <1>1, QueueNat, LenProperties
<1> HIDE DEF a, b, c, x, y, n
<1>3. a + x + y = a + b + c + n
  BY <1>1, <1>2
<1> QED BY <1>1, <1>3 DEF Grown, Balance, a, b, c, x, y, n

LEMMA DrainedGrown ==
  ASSUME NEW p, NEW r, Queue(r), Drained(p, r)
  PROVE  Queue(p) /\ Grown(p, r, 0)
<1> DEFINE a == r.popped
           b == r.dropped
           k == Len(r.frames)
<1>1. a \in Nat /\ b \in Nat /\ k \in Nat /\ r.frames \in Seq(Frame) /\ r.pushed \in Nat
  BY QueueNat
<1>2. Queue(p) /\ p.pushed = r.pushed /\ p.dropped = b
  BY DEF Drained
<1>3. \/ p.popped = a + 1 /\ Len(p.frames) = k - 1
      \/ p.popped = a /\ Len(p.frames) = k
  BY <1>1, HeadTailProperties DEF Drained, Taken, Stretched, Starved
<1> HIDE DEF a, b, k
<1>4. p.popped + p.dropped + Len(p.frames) = a + b + k + 0
  BY <1>1, <1>2, <1>3
<1>5. p.pushed = r.pushed + 0
  BY <1>1, <1>2
<1> QED BY <1>2, <1>4, <1>5 DEF Grown, Balance, a, b, k

LEMMA GrownTwice ==
  ASSUME NEW p, NEW q, NEW r, NEW j \in Nat, NEW k \in Nat,
         Queue(q), Queue(r), Grown(q, r, j), Grown(p, q, k)
  PROVE  Grown(p, r, j + k)
<1> DEFINE a == r.pushed
           b == Balance(r)
<1>1. a \in Nat /\ b \in Nat
  BY QueueNat
<1>2. p.pushed = (a + j) + k /\ Balance(p) = (b + j) + k
  BY DEF Grown
<1> HIDE DEF a, b
<1>3. p.pushed = a + (j + k) /\ Balance(p) = b + (j + k)
  BY <1>1, <1>2
<1> QED BY <1>3 DEF Grown, a, b

\* The counters a step adds to, one by one.
LEMMA StatsFields ==
  ASSUME NEW s \in StatsType, NEW x, NEW y, NEW z
  PROVE  /\ LET t == [s EXCEPT !.pushed = x] IN
              /\ t.pushed = x /\ t.producerMiss = s.producerMiss
              /\ t.deferredDropped = s.deferredDropped /\ t.rescueFrames = s.rescueFrames
              /\ t.missFrames = s.missFrames /\ t.fallback = s.fallback
              /\ t.silence = s.silence
         /\ LET t == [s EXCEPT !.producerMiss = x] IN
              /\ t.pushed = s.pushed /\ t.producerMiss = x
              /\ t.deferredDropped = s.deferredDropped /\ t.rescueFrames = s.rescueFrames
              /\ t.missFrames = s.missFrames /\ t.fallback = s.fallback
              /\ t.silence = s.silence
         /\ LET t == [s EXCEPT !.rescueFrames = x] IN
              /\ t.pushed = s.pushed /\ t.producerMiss = s.producerMiss
              /\ t.deferredDropped = s.deferredDropped /\ t.rescueFrames = x
              /\ t.missFrames = s.missFrames /\ t.fallback = s.fallback
              /\ t.silence = s.silence
         /\ LET t == [s EXCEPT !.missFrames = x, !.missEvents = y] IN
              /\ t.pushed = s.pushed /\ t.producerMiss = s.producerMiss
              /\ t.deferredDropped = s.deferredDropped /\ t.rescueFrames = s.rescueFrames
              /\ t.missFrames = x /\ t.fallback = s.fallback /\ t.silence = s.silence
         /\ LET t == [s EXCEPT !.fallback = x, !.silence = y] IN
              /\ t.pushed = s.pushed /\ t.producerMiss = s.producerMiss
              /\ t.deferredDropped = s.deferredDropped /\ t.rescueFrames = s.rescueFrames
              /\ t.missFrames = s.missFrames /\ t.fallback = x /\ t.silence = y
         /\ LET t == [s EXCEPT !.producerMiss = x, !.deferred = y, !.deferredDropped = z] IN
              /\ t.pushed = s.pushed /\ t.producerMiss = x
              /\ t.deferredDropped = z /\ t.rescueFrames = s.rescueFrames
              /\ t.missFrames = s.missFrames /\ t.fallback = s.fallback
              /\ t.silence = s.silence
  BY DEF StatsType

\* How the steps of the two threads grow the queue.
LEMMA BootGrown ==
  ASSUME TypeOK, NEW n \in Nat, inner' = PushSlice(PushSlice(inner, pending), Rendering(n))
  PROVE  Grown(inner', inner, Len(pending) + n)
<1> DEFINE q == PushSlice(inner, pending)
           fs == Rendering(n)
<1>1. /\ Queue(inner) /\ pending \in Seq(Frame) /\ rendered \in Nat
      /\ Len(pending) \in Nat
  BY TypesParted, LenProperties DEF Deep, Flat
<1>2. Queue(q) /\ Grown(q, inner, Len(pending))
  BY <1>1, PushSliceEffect, FilledGrown
<1>3. fs \in Seq(Frame) /\ Len(fs) = n
  BY <1>1, RenderingFrames
<1> HIDE DEF q, fs
<1>4. Grown(PushSlice(q, fs), q, n)
  BY <1>2, <1>3, PushSliceEffect, FilledGrown
<1>5. inner' = PushSlice(q, fs)
  BY DEF q, fs
<1> QED BY <1>1, <1>2, <1>4, <1>5, GrownTwice

LEMMA FlushGrown ==
  ASSUME TypeOK, NEW t \in Threads, FlushOne(t)
  PROVE  Grown(inner', inner, 1) /\ Len(pending') = Len(pending) - 1
<1>1. pending \in Seq(Frame) /\ pending # <<>> /\ Queue(inner)
  BY TypesParted DEF Deep, FlushOne
<1>2. Head(pending) \in Frame /\ <<Head(pending)>> \in Seq(Frame)
      /\ Len(<<Head(pending)>>) = 1
  BY <1>1, HeadTailProperties
<1>3. Filled(inner', inner, <<Head(pending)>>)
  BY <1>1, <1>2, PushEffect DEF FlushOne
<1>4. Len(pending') = Len(pending) - 1
  BY FlushTypes
<1>5. Grown(inner', inner, Len(<<Head(pending)>>))
  BY <1>1, <1>2, <1>3, FilledGrown
<1> QED BY <1>2, <1>4, <1>5

LEMMA StoreGrown ==
  ASSUME TypeOK, Push_Store
  PROVE  Grown(inner', inner, Len(slice))
<1>1. slice \in Seq(Frame) /\ Queue(inner) /\ inner' = PushSlice(inner, slice)
  BY TypesParted DEF Deep, Push_Store
<1> QED BY <1>1, PushSliceEffect, FilledGrown

LEMMA PopGrown ==
  ASSUME TypeOK, inner' = Pop(inner)
  PROVE  Grown(inner', inner, 0)
<1>1. Queue(inner)
  BY TypesParted DEF Deep
<1> QED BY <1>1, PopEffect, DrainedGrown

LEMMA Prepared ==
  ASSUME TypeOK, PrepareForPlayback
  PROVE  /\ inner'.pushed = 0 /\ inner'.popped = 0 /\ inner'.dropped = 0
         /\ Len(inner'.frames) \in Nat /\ carried' = Len(inner'.frames)
         /\ inner'.lastValid \/ carried' = 0
<1> DEFINE q == PushSlice(inner, pending)
<1>1. Queue(q) /\ Prebuffer \in Nat
  BY PushSliceEffect, TypesParted, Constants DEF Deep, Filled
<1>2. inner' = Prepare(q, Prebuffer) /\ carried' = Len(inner'.frames)
  BY DEF PrepareForPlayback
<1> HIDE DEF q
<1>3. Queue(inner') /\ inner'.pushed = 0 /\ inner'.popped = 0 /\ inner'.dropped = 0
  BY <1>1, <1>2, PrepareEffect
<1>4. Len(inner'.frames) \in Nat
  BY <1>3, QueueNat
<1>5. inner'.lastValid = (inner'.frames # <<>>)
  BY <1>2 DEF Prepare, NewQueue
<1> QED BY <1>2, <1>3, <1>4, <1>5, EmptySeq

\* A growing queue keeps its account.
LEMMA AccountKept ==
  ASSUME TypeOK, QueueConservation, NEW k \in Nat, Grown(inner', inner, k),
         carried' = carried
  PROVE  QueueConservation'
<1> DEFINE a == inner.popped
           b == inner.dropped
           c == Len(inner.frames)
           p == inner.pushed
           d == carried
<1>1. a \in Nat /\ b \in Nat /\ c \in Nat /\ p \in Nat /\ d \in Nat
  BY NumbersOK DEF Numbers
<1>2. d + p = a + b + c
  BY DEF QueueConservation
<1>3. /\ inner'.pushed = p + k
      /\ inner'.popped + inner'.dropped + Len(inner'.frames) = (a + b + c) + k
  BY DEF Grown, Balance
<1> HIDE DEF a, b, c, p
<1>4. d + inner'.pushed = inner'.popped + inner'.dropped + Len(inner'.frames)
  <2> HIDE DEF d
  <2> QED BY <1>1, <1>2, <1>3
<1> QED BY <1>4 DEF QueueConservation
-----------------------------------------------------------------------------
LEMMA QueueAccountStep ==
  TypeOK /\ QueueAccount /\ [Next]_vars => QueueAccount'
<1> SUFFICES ASSUME TypeOK, QueueAccount, [Next]_vars PROVE QueueAccount'
  OBVIOUS
<1>0. QueueConservation /\ Len(pending) \in Nat /\ Len(slice) \in Nat
  BY NumbersOK DEF QueueAccount, Numbers
<1>1. CASE BootPush
  <2>1. PICK n \in SliceLengths :
          inner' = PushSlice(PushSlice(inner, pending), Rendering(n))
    BY <1>1 DEF BootPush
  <2>2. n \in Nat /\ Len(pending) + n \in Nat
    BY <1>0, Constants
  <2>3. epc' = epc /\ carried' = carried
    BY <1>1 DEF BootPush
  <2>4. QueueConservation'
    BY <1>0, <2>1, <2>2, <2>3, BootGrown, AccountKept
  <2> QED BY <2>3, <2>4 DEF QueueAccount
<1>2. CASE PrepareForPlayback
  <2> DEFINE k == Len(inner'.frames)
  <2>1. /\ inner'.pushed = 0 /\ inner'.popped = 0 /\ inner'.dropped = 0
        /\ k \in Nat /\ carried' = k /\ epc' = "prime"
    BY <1>2, Prepared DEF PrepareForPlayback
  <2> HIDE DEF k
  <2>2. carried' + inner'.pushed = inner'.popped + inner'.dropped + k
    BY <2>1
  <2> QED BY <2>1, <2>2 DEF QueueAccount, QueueConservation, k
<1>3. CASE PrimeOne \/ Callback_Pop
  <2>1. inner' = Pop(inner) /\ UNCHANGED <<carried, epc>>
    BY <1>3 DEF PrimeOne, Callback_Pop, emuVars
  <2>2. QueueConservation'
    BY <1>0, <2>1, PopGrown, AccountKept
  <2> QED BY <2>1, <2>2 DEF QueueAccount
<1>4. CASE Push_Flush \/ Callback_Flush
  <2>1. PICK t \in Threads : FlushOne(t)
    BY <1>4 DEF Push_Flush, Callback_Flush, Threads
  <2>2. UNCHANGED <<carried, epc>>
    BY <1>4 DEF Push_Flush, Callback_Flush, emuVars
  <2>3. QueueConservation'
    BY <1>0, <2>1, <2>2, FlushGrown, AccountKept
  <2> QED BY <2>2, <2>3 DEF QueueAccount
<1>5. CASE Push_Store
  <2>1. carried' = carried /\ epc' = "idle"
    BY <1>5 DEF Push_Store
  <2>2. QueueConservation'
    BY <1>0, <1>5, <2>1, StoreGrown, AccountKept
  <2> QED BY <2>1, <2>2 DEF QueueAccount
<1>6. CASE UNCHANGED <<inner, carried>> /\ (epc' = "boot" => epc = "boot")
  BY <1>6 DEF QueueAccount, QueueConservation
<1>7. \/ BootPush \/ PrepareForPlayback \/ PrimeOne \/ Push_Flush \/ Callback_Flush
      \/ Push_Store \/ Callback_Pop
      \/ UNCHANGED <<inner, carried>> /\ (epc' = "boot" => epc = "boot")
  BY DEF Next, Emulator, Callback, Finished, vars, emuVars, cbVars,
     StartDevice, Push_Begin, Push_Cache, Push_TryInner, Push_TryFlush, Push_EndFlush,
     Push_TryDefer, Push_Defer, Observe_TryInner, Observe_EndInner, Observe_TryPending, Observe_EndPending,
     Callback_Begin, Callback_TryInner, Callback_TryFlush, Callback_EndFlush, Callback_EndPop,
     Callback_TryRescue, Callback_Rescue, Callback_EndRescue, Callback_Gap
<1> QED BY <1>1, <1>2, <1>3, <1>4, <1>5, <1>6, <1>7

\* What a deferral does to the counters: the slice is kept, missed or displaces.
LEMMA DeferCounts ==
  ASSUME TypeOK, Push_Defer
  PROVE  /\ stats'.missFrames = stats.missFrames /\ stats'.rescueFrames = stats.rescueFrames
         /\ stats'.fallback = stats.fallback /\ stats'.silence = stats.silence
         /\ stats'.pushed = stats.pushed
         /\ stats'.producerMiss \in Nat /\ stats'.deferredDropped \in Nat
         /\ stats'.producerMiss >= stats.producerMiss
         /\ stats'.producerMiss > stats.producerMiss => Len(slice) > DeferredMax
         /\ Len(pending') + stats'.producerMiss + stats'.deferredDropped
              = Len(pending) + Len(slice) + stats.producerMiss + stats.deferredDropped
<1> DEFINE retained == LastN(slice, DeferredMax)
           kept == LastN(pending \o retained, DeferredMax)
           a == Len(slice)
           b == Len(retained)
           c == Len(pending)
           d == Len(kept)
           x == a - b
           z == c + b - d
           pm == stats.producerMiss
           dd == stats.deferredDropped
           y == stats.deferred + b
<1>1. /\ a \in Nat /\ b \in Nat /\ c \in Nat /\ d \in Nat /\ x \in Nat /\ z \in Nat
      /\ a > b => a > DeferredMax
  BY DeferFacts, NumbersOK DEF Numbers
<1>2. stats \in StatsType /\ pm \in Nat /\ dd \in Nat
  BY NumbersOK, StatsNat DEF Numbers
<1>3. /\ stats' = [stats EXCEPT !.producerMiss = pm + x, !.deferred = y,
                                !.deferredDropped = dd + z]
      /\ Len(pending') = d
  BY DEF Push_Defer
<1> HIDE DEF retained, kept, x, y, z
<1>4. /\ stats'.missFrames = stats.missFrames /\ stats'.rescueFrames = stats.rescueFrames
      /\ stats'.fallback = stats.fallback /\ stats'.silence = stats.silence
      /\ stats'.pushed = stats.pushed
      /\ stats'.producerMiss = pm + x /\ stats'.deferredDropped = dd + z
  BY <1>2, <1>3, StatsFields
<1> HIDE DEF a, b, c, d, pm, dd
<1>5. /\ pm + x \in Nat /\ dd + z \in Nat /\ pm + x >= pm
      /\ pm + x > pm => a > DeferredMax
      /\ d + (pm + x) + (dd + z) = c + a + pm + dd
  BY <1>1, <1>2 DEF x, z
<1> QED BY <1>3, <1>4, <1>5 DEF a, c, pm, dd

\* What leaves the account of misses alone.
LEMMA MissKept ==
  ASSUME MissAccount,
         stats'.missFrames = stats.missFrames, stats'.rescueFrames = stats.rescueFrames,
         stats'.fallback = stats.fallback, stats'.silence = stats.silence,
         Missing' = Missing, Rescuing' = Rescuing,
         cachedValid' \/ (stats'.pushed = Uncached' /\ carried' = 0),
         epc' = "boot" => carried' = 0
  PROVE  MissAccount'
  BY DEF MissAccount

LEMMA MissAccountStep ==
  TypeOK /\ Locks /\ FrameAccount /\ MissAccount /\ [Next]_vars => MissAccount'
<1> SUFFICES ASSUME TypeOK, Locks, FrameAccount, MissAccount, [Next]_vars
             PROVE  MissAccount'
  OBVIOUS
<1>0. /\ Numbers /\ stats \in StatsType
      /\ cachedValid \/ (stats.pushed = Uncached /\ carried = 0)
      /\ epc = "boot" => carried = 0
  BY NumbersOK DEF Numbers, MissAccount
<1> DEFINE m == stats.missFrames
           r == stats.rescueFrames
           f == stats.fallback
           s == stats.silence
           l == left
           w == rescued
<1>1. /\ m \in Nat /\ r \in Nat /\ f \in Nat /\ s \in Nat /\ l \in Nat /\ w \in Nat
      /\ missRun \in Nat
  BY <1>0, StatsNat DEF Numbers
<1>2. m = r + f + s + Missing + Rescuing
  BY DEF MissAccount
<1>3. CASE BootPush \/ PrepareForPlayback \/ Push_Begin
  <2>1. PICK x : stats' = [stats EXCEPT !.pushed = x]
    BY <1>3 DEF BootPush, PrepareForPlayback, Push_Begin
  <2>2. /\ stats'.missFrames = m /\ stats'.rescueFrames = r /\ stats'.fallback = f
        /\ stats'.silence = s
    BY <1>0, <2>1, StatsFields
  <2>3. UNCHANGED <<cpc, left, rescued>>
    BY <1>3 DEF BootPush, PrepareForPlayback, Push_Begin, cbVars
  <2>4. cachedValid' \/ (stats'.pushed = Uncached' /\ carried' = 0)
    <3>1. CASE PrepareForPlayback
      <4>1. stats' = [stats EXCEPT !.pushed = 0] /\ cachedValid' = inner'.lastValid
        BY <3>1 DEF PrepareForPlayback
      <4>2. stats'.pushed = 0
        BY <1>0, <4>1, StatsFields
      <4>3. epc' # "cache"
        BY <3>1 DEF PrepareForPlayback
      <4> QED BY <3>1, <4>1, <4>2, <4>3, Prepared DEF Uncached
    <3>2. CASE Push_Begin /\ ~cachedValid
      <4>1. PICK n \in SliceLengths :
              slice' = Rendering(n) /\ stats' = [stats EXCEPT !.pushed = @ + n]
        BY <3>2 DEF Push_Begin
      <4>2. n \in Nat /\ Len(slice') = n
        BY <4>1, Constants, RenderingFrames DEF TypeOK
      <4>3. /\ UNCHANGED <<cachedValid, carried>> /\ epc' = "cache"
            /\ stats.pushed = 0 /\ carried = 0
        BY <1>0, <3>2 DEF Push_Begin, Uncached
      <4>4. stats'.pushed = 0 + n
        BY <1>0, <4>1, <4>3, StatsFields
      <4> QED BY <4>2, <4>3, <4>4 DEF Uncached
    <3>3. CASE BootPush \/ (Push_Begin /\ cachedValid)
      BY <3>3 DEF BootPush, Push_Begin
    <3> QED BY <1>3, <3>1, <3>2, <3>3
  <2>5. epc' = "boot" => carried' = 0
    BY <1>0, <1>3 DEF BootPush, PrepareForPlayback, Push_Begin
  <2> QED BY <2>2, <2>3, <2>4, <2>5, MissKept DEF Missing, Rescuing
<1>4. CASE Push_TryDefer \/ Push_Defer
  <2>1. /\ stats'.missFrames = m /\ stats'.rescueFrames = r /\ stats'.fallback = f
        /\ stats'.silence = s /\ stats'.pushed = stats.pushed
    <3>1. CASE Push_TryDefer
      <4> DEFINE y == stats.producerMiss + Len(slice)
      <4>1. stats' = stats \/ stats' = [stats EXCEPT !.producerMiss = y]
        BY <3>1 DEF Push_TryDefer
      <4> HIDE DEF y
      <4>2. CASE stats' = stats
        BY <4>2
      <4>3. CASE stats' = [stats EXCEPT !.producerMiss = y]
        BY <1>0, <4>3, StatsFields
      <4> QED BY <4>1, <4>2, <4>3
    <3>2. CASE Push_Defer
      BY <1>0, <3>2, DeferCounts
    <3> QED BY <1>4, <3>1, <3>2
  <2>3. /\ UNCHANGED <<cpc, left, rescued, cachedValid, carried>> /\ epc' # "boot"
        /\ Uncached = 0 /\ Uncached' = 0
    BY <1>4 DEF Push_TryDefer, Push_Defer, cbVars, Uncached
  <2> QED BY <1>0, <2>1, <2>3, MissKept DEF Missing, Rescuing
<1>5. CASE Callback_TryInner
  <2>1. /\ UNCHANGED <<cachedValid, carried, epc, Uncached, left, rescued>>
        /\ Missing = 0 /\ Rescuing = 0
    BY <1>5 DEF Callback_TryInner, emuVars, Missing, Rescuing, Uncached
  <2>2. CASE stats' = stats /\ cpc' = "tryFlush"
    BY <1>0, <2>1, <2>2, MissKept DEF Missing, Rescuing
  <2>3. CASE /\ cpc' = "tryRescue"
             /\ stats' = [stats EXCEPT !.missFrames = m + l, !.missEvents = @ + 1]
    <3>1. /\ stats'.missFrames = m + l /\ stats'.rescueFrames = r /\ stats'.fallback = f
          /\ stats'.silence = s /\ stats'.pushed = stats.pushed
      BY <1>0, <2>3, StatsFields
    <3>2. Missing' = l /\ Rescuing' = 0
      BY <2>1, <2>3 DEF Missing, Rescuing
    <3> HIDE DEF m, r, f, s, l
    <3>3. stats'.missFrames = stats'.rescueFrames + stats'.fallback + stats'.silence
                              + Missing' + Rescuing'
      BY <1>1, <1>2, <2>1, <3>1, <3>2
    <3> QED BY <1>0, <2>1, <3>1, <3>3 DEF MissAccount
  <2> QED BY <1>5, <2>2, <2>3 DEF Callback_TryInner
<1>6. CASE Callback_TryRescue
  <2>1. UNCHANGED <<stats, cachedValid, carried, epc, Uncached>> /\ Missing' = Missing
    BY <1>6 DEF Callback_TryRescue, emuVars, Missing, Uncached
  <2>2. Rescuing = 0 /\ Rescuing' = 0
    BY <1>6 DEF Callback_TryRescue, FrameAccount, Rescuing
  <2> QED BY <1>0, <2>1, <2>2, MissKept
<1>7. CASE Callback_Rescue
  <2>1. /\ UNCHANGED <<stats, cachedValid, carried, epc, Uncached>>
        /\ Missing = l /\ Rescuing = w /\ Missing' = l - 1 /\ Rescuing' = w + 1
    BY <1>7 DEF Callback_Rescue, emuVars, Missing, Rescuing, Uncached
  <2> HIDE DEF m, r, f, s, l, w
  <2>2. m = r + f + s + Missing' + Rescuing'
    BY <1>1, <1>2, <2>1
  <2> QED BY <1>0, <2>1, <2>2 DEF MissAccount, m, r, f, s
<1>8. CASE Callback_EndRescue
  <2>1. /\ UNCHANGED <<carried, epc, Uncached>> /\ (cachedValid => cachedValid')
        /\ Missing = l /\ Rescuing = w /\ Missing' = l /\ Rescuing' = 0
        /\ stats' = [stats EXCEPT !.rescueFrames = r + w]
    BY <1>1, <1>8 DEF Callback_EndRescue, emuVars, Missing, Rescuing, Uncached
  <2>2. /\ stats'.missFrames = m /\ stats'.rescueFrames = r + w /\ stats'.fallback = f
        /\ stats'.silence = s /\ stats'.pushed = stats.pushed
    BY <1>0, <2>1, StatsFields
  <2> HIDE DEF m, r, f, s, l, w
  <2>3. stats'.missFrames = stats'.rescueFrames + stats'.fallback + stats'.silence
                            + Missing' + Rescuing'
    BY <1>1, <1>2, <2>1, <2>2
  <2> QED BY <1>0, <2>1, <2>2, <2>3 DEF MissAccount
<1>9. CASE Callback_Gap
  <2> DEFINE x == IF cachedValid THEN Least(left, MissConcealment - missRun) ELSE 0
  <2>1. x \in Nat /\ x <= l
    BY <1>1, TypesParted, Constants DEF Flat, Least
  <2>2. /\ UNCHANGED <<carried, epc, Uncached, cachedValid>>
        /\ Missing = l /\ Rescuing = 0 /\ Missing' = 0 /\ Rescuing' = 0
        /\ stats' = [stats EXCEPT !.fallback = f + x, !.silence = s + (l - x)]
    BY <1>9 DEF Callback_Gap, emuVars, Missing, Rescuing, Uncached
  <2> HIDE DEF x
  <2>3. /\ stats'.missFrames = m /\ stats'.rescueFrames = r /\ stats'.fallback = f + x
        /\ stats'.silence = s + (l - x) /\ stats'.pushed = stats.pushed
    BY <1>0, <2>2, StatsFields
  <2> HIDE DEF m, r, f, s, l
  <2>4. stats'.missFrames = stats'.rescueFrames + stats'.fallback + stats'.silence
                            + Missing' + Rescuing'
    BY <1>1, <1>2, <2>1, <2>2, <2>3
  <2> QED BY <1>0, <2>2, <2>3, <2>4 DEF MissAccount
<1>10. CASE /\ UNCHANGED <<stats, carried, Uncached>> /\ (cachedValid => cachedValid')
            /\ epc' = "boot" => epc = "boot"
            /\ Missing' = Missing /\ Rescuing' = Rescuing
  BY <1>0, <1>10, MissKept
<1>11. \/ BootPush \/ PrepareForPlayback \/ Push_Begin \/ Push_TryDefer \/ Push_Defer
       \/ Callback_TryInner \/ Callback_TryRescue \/ Callback_Rescue \/ Callback_EndRescue
       \/ Callback_Gap
       \/ Push_Cache
       \/ /\ UNCHANGED <<stats, carried, Uncached>> /\ (cachedValid => cachedValid')
          /\ epc' = "boot" => epc = "boot"
          /\ Missing' = Missing /\ Rescuing' = Rescuing
  BY DEF Next, Emulator, Callback, Finished, vars, emuVars, cbVars, Missing, Rescuing,
     Uncached, StartDevice, PrimeOne, Push_TryInner, Push_TryFlush, Push_Flush, Push_EndFlush,
     Push_Store, Observe_TryInner, Observe_EndInner, Observe_TryPending, Observe_EndPending,
     Callback_Begin, Callback_TryFlush, Callback_Flush, Callback_EndFlush, Callback_Pop,
     Callback_EndPop, Locks
<1>12. CASE Push_Cache
  <2>1. /\ UNCHANGED <<stats, carried, Missing, Rescuing>>
        /\ cachedValid' /\ epc' # "boot"
    BY <1>12 DEF Push_Cache, cbVars, Missing, Rescuing
  <2> QED BY <2>1, MissKept
<1> QED BY <1>3, <1>4, <1>5, <1>6, <1>7, <1>8, <1>9, <1>10, <1>11, <1>12

\* What leaves the account of frames alone.
Quiet == {"boot", "prime", "idle", "observe", "tryPending", "observePending"}
FrameSame ==
  /\ inner'.pushed = inner.pushed /\ Len(pending') = Len(pending) /\ slice' = slice
  /\ stats'.pushed = stats.pushed /\ stats'.producerMiss = stats.producerMiss
  /\ stats'.deferredDropped = stats.deferredDropped
  /\ stats'.rescueFrames = stats.rescueFrames
  /\ Rescuing' = Rescuing
  /\ epc' \in Quiet => epc \in Quiet
  /\ epc' = "boot" => epc = "boot"
  /\ cpc' \in {"tryInner", "tryRescue"} => rescued' = 0

LEMMA FrameKept == FrameAccount /\ FrameSame => FrameAccount'
  BY DEF FrameAccount, FrameSame, Quiet

LEMMA FrameAccountStep ==
  TypeOK /\ Locks /\ FrameAccount /\ [Next]_vars => FrameAccount'
<1> SUFFICES ASSUME TypeOK, Locks, FrameAccount, [Next]_vars
             PROVE  FrameAccount'
  OBVIOUS
<1> DEFINE p == stats.pushed
           q == inner.pushed
           l == Len(pending)
           s == Len(slice)
           m == stats.producerMiss
           d == stats.deferredDropped
           r == stats.rescueFrames
           w == rescued
           Helpers == /\ epc \in Quiet => slice = <<>>
                      /\ epc = "boot" => m = 0 /\ d = 0 /\ r = 0
                      /\ cpc \in {"tryInner", "tryRescue"} => rescued = 0
<1>0. /\ stats \in StatsType /\ q \in Nat /\ l \in Nat /\ s \in Nat /\ w \in Nat
      /\ p \in Nat /\ m \in Nat /\ d \in Nat /\ r \in Nat /\ Len(<<>>) = 0
  BY NumbersOK, StatsNat DEF Numbers
<1>1. p = q + l + s + m + d + r + Rescuing
  BY DEF FrameAccount
<1>2. Helpers
  BY DEF FrameAccount, Quiet
<1>3. ASSUME stats'.pushed = inner'.pushed + Len(pending') + Len(slice') + stats'.producerMiss
               + stats'.deferredDropped + stats'.rescueFrames + Rescuing',
             Helpers'
      PROVE  FrameAccount'
  BY <1>3 DEF FrameAccount, Quiet
<1>4. cpc = "rescue" => Rescuing = w
  BY DEF Rescuing
<1>5. cpc # "rescue" => Rescuing = 0
  BY DEF Rescuing
<1>6. CASE BootPush
  <2>1. PICK n \in SliceLengths :
          /\ inner' = PushSlice(PushSlice(inner, pending), Rendering(n))
          /\ stats' = [stats EXCEPT !.pushed = p + n]
    BY <1>6 DEF BootPush
  <2>2. n \in Nat
    BY Constants
  <2>3. /\ pending' = <<>> /\ UNCHANGED <<slice, epc, cpc, rescued>>
        /\ cpc = "off" /\ slice = <<>>
    BY <1>2, <1>6 DEF BootPush, cbVars, Locks, Quiet
  <2>4. /\ stats'.pushed = p + n /\ stats'.producerMiss = m /\ stats'.deferredDropped = d
        /\ stats'.rescueFrames = r
    BY <1>0, <2>1, StatsFields
  <2>5. inner'.pushed = q + (l + n)
    BY <2>1, <2>2, BootGrown DEF Grown
  <2>6. Rescuing' = 0 /\ Rescuing = 0 /\ s = 0 /\ Len(slice') = 0 /\ Len(pending') = 0
    BY <1>0, <2>3 DEF Rescuing
  <2>7. Helpers'
    BY <1>2, <2>3, <2>4
  <2> HIDE DEF p, q, l, s, m, d, r
  <2>8. stats'.pushed = inner'.pushed + Len(pending') + Len(slice') + stats'.producerMiss
                        + stats'.deferredDropped + stats'.rescueFrames + Rescuing'
    BY <1>0, <1>1, <2>2, <2>4, <2>5, <2>6
  <2> QED BY <1>3, <2>7, <2>8
<1>7. CASE PrepareForPlayback
  <2>1. /\ stats' = [stats EXCEPT !.pushed = 0] /\ pending' = <<>> /\ slice' = slice
        /\ epc = "boot" /\ epc' = "prime" /\ cpc = "off" /\ cpc' = "off"
    BY <1>7 DEF PrepareForPlayback, cbVars, Locks
  <2>2. slice = <<>> /\ m = 0 /\ d = 0 /\ r = 0
    BY <1>2, <2>1 DEF Quiet
  <2>3. /\ stats'.pushed = 0 /\ stats'.producerMiss = 0 /\ stats'.deferredDropped = 0
        /\ stats'.rescueFrames = 0
    BY <1>0, <2>1, <2>2, StatsFields
  <2>4. inner'.pushed = 0 /\ Len(pending') = 0 /\ Len(slice') = 0 /\ Rescuing' = 0
    BY <1>0, <1>7, <2>1, <2>2, Prepared DEF Rescuing
  <2>5. Helpers'
    BY <2>1, <2>2
  <2>6. stats'.pushed = inner'.pushed + Len(pending') + Len(slice') + stats'.producerMiss
                        + stats'.deferredDropped + stats'.rescueFrames + Rescuing'
    BY <2>3, <2>4
  <2> QED BY <1>3, <2>5, <2>6
<1>8. CASE PrimeOne \/ Callback_Pop
  <2>1. /\ inner' = Pop(inner) /\ UNCHANGED <<pending, slice, stats, epc, cpc, rescued>>
    BY <1>8 DEF PrimeOne, Callback_Pop, emuVars
  <2>2. inner'.pushed = q + 0
    BY <2>1, PopGrown DEF Grown
  <2> QED BY <1>0, <1>2, <2>1, <2>2, FrameKept DEF FrameSame, Rescuing
<1>9. CASE Push_Begin
  <2>1. PICK n \in SliceLengths :
          slice' = Rendering(n) /\ stats' = [stats EXCEPT !.pushed = p + n]
    BY <1>9 DEF Push_Begin
  <2>2. n \in Nat /\ Len(slice') = n
    BY <2>1, Constants, RenderingFrames DEF TypeOK
  <2>3. /\ UNCHANGED <<inner, pending, cpc, rescued>> /\ epc' = "cache"
        /\ slice = <<>>
    BY <1>2, <1>9 DEF Push_Begin, cbVars, Quiet
  <2>4. /\ stats'.pushed = p + n /\ stats'.producerMiss = m /\ stats'.deferredDropped = d
        /\ stats'.rescueFrames = r
    BY <1>0, <2>1, StatsFields
  <2>5. Helpers' /\ Rescuing' = Rescuing /\ s = 0 /\ inner'.pushed = q /\ Len(pending') = l
    BY <1>0, <1>2, <2>3 DEF Rescuing, Quiet
  <2>6. Rescuing \in Nat
    BY <1>0 DEF Rescuing
  <2> HIDE DEF p, q, l, s, m, d, r, Helpers
  <2>7. stats'.pushed = inner'.pushed + Len(pending') + Len(slice') + stats'.producerMiss
                        + stats'.deferredDropped + stats'.rescueFrames + Rescuing'
    BY <1>0, <1>1, <2>2, <2>4, <2>5, <2>6
  <2> QED BY <1>3, <2>5, <2>7
<1>10. CASE Push_Flush \/ Callback_Flush
  <2>1. PICK t \in Threads : FlushOne(t)
    BY <1>10 DEF Push_Flush, Callback_Flush, Threads
  <2>2. UNCHANGED <<slice, stats, epc, cpc, rescued>> /\ Rescuing' = Rescuing
    BY <1>10 DEF Push_Flush, Callback_Flush, emuVars, cbVars, Rescuing
  <2>3. inner'.pushed = q + 1 /\ Len(pending') = l - 1
    BY <2>1, FlushGrown DEF Grown
  <2>4. Helpers' /\ stats'.pushed = p /\ Len(slice') = s /\ stats'.producerMiss = m
        /\ stats'.deferredDropped = d /\ stats'.rescueFrames = r
    BY <1>2, <2>2
  <2>5. Rescuing \in Nat
    BY <1>0 DEF Rescuing
  <2> HIDE DEF p, q, l, s, m, d, r, Helpers
  <2>6. stats'.pushed = inner'.pushed + Len(pending') + Len(slice') + stats'.producerMiss
                        + stats'.deferredDropped + stats'.rescueFrames + Rescuing'
    BY <1>0, <1>1, <2>2, <2>3, <2>4, <2>5
  <2> QED BY <1>3, <2>4, <2>6
<1>11. CASE Push_Store
  <2>1. /\ UNCHANGED <<pending, stats, cpc, rescued>> /\ slice' = <<>> /\ epc' = "idle"
    BY <1>11 DEF Push_Store, cbVars
  <2>2. inner'.pushed = q + s
    BY <1>11, StoreGrown DEF Grown
  <2>3. /\ Helpers' /\ Rescuing' = Rescuing /\ Len(slice') = 0 /\ Len(pending') = l
        /\ stats'.pushed = p /\ stats'.producerMiss = m /\ stats'.deferredDropped = d
        /\ stats'.rescueFrames = r
    BY <1>0, <1>2, <2>1 DEF Rescuing
  <2>4. Rescuing \in Nat
    BY <1>0 DEF Rescuing
  <2> HIDE DEF p, q, l, s, m, d, r, Helpers
  <2>5. stats'.pushed = inner'.pushed + Len(pending') + Len(slice') + stats'.producerMiss
                        + stats'.deferredDropped + stats'.rescueFrames + Rescuing'
    BY <1>0, <1>1, <2>2, <2>3, <2>4
  <2> QED BY <1>3, <2>3, <2>5
<1>12. CASE Push_TryDefer
  <2>1. UNCHANGED <<inner, pending, cpc, rescued>> /\ epc = "defer"
    BY <1>12 DEF Push_TryDefer, cbVars
  <2>2. CASE epc' = "deferring" /\ UNCHANGED <<slice, stats>>
    BY <1>2, <2>1, <2>2, FrameKept DEF FrameSame, Rescuing, Quiet
  <2>3. CASE /\ stats' = [stats EXCEPT !.producerMiss = m + s]
             /\ slice' = <<>> /\ epc' = "idle"
    <3>1. /\ stats'.pushed = p /\ stats'.producerMiss = m + s /\ stats'.deferredDropped = d
          /\ stats'.rescueFrames = r
      BY <1>0, <2>3, StatsFields
    <3>2. /\ Helpers' /\ Rescuing' = Rescuing /\ Len(slice') = 0 /\ Len(pending') = l
          /\ inner'.pushed = q
      BY <1>0, <1>2, <2>1, <2>3 DEF Rescuing
    <3>3. Rescuing \in Nat
      BY <1>0 DEF Rescuing
    <3> HIDE DEF p, q, l, s, m, d, r, Helpers
    <3>4. stats'.pushed = inner'.pushed + Len(pending') + Len(slice') + stats'.producerMiss
                          + stats'.deferredDropped + stats'.rescueFrames + Rescuing'
      BY <1>0, <1>1, <3>1, <3>2, <3>3
    <3> QED BY <1>3, <3>2, <3>4
  <2> QED BY <1>12, <2>2, <2>3 DEF Push_TryDefer
<1>13. CASE Push_Defer
  <2> DEFINE mm == stats'.producerMiss
             dd == stats'.deferredDropped
             ll == Len(pending')
  <2>1. /\ UNCHANGED <<inner, cpc, rescued>> /\ slice' = <<>> /\ epc' = "idle"
    BY <1>13 DEF Push_Defer, cbVars
  <2>2. /\ stats'.pushed = p /\ stats'.rescueFrames = r /\ mm \in Nat /\ dd \in Nat
        /\ ll + mm + dd = l + s + m + d
    BY <1>13, DeferCounts
  <2>3. /\ Helpers' /\ Rescuing' = Rescuing /\ Len(slice') = 0 /\ inner'.pushed = q
    BY <1>0, <1>2, <2>1 DEF Rescuing
  <2>4. Rescuing \in Nat
    BY <1>0 DEF Rescuing
  <2>5. ll \in Nat
    BY <1>13, DeferFacts DEF Push_Defer
  <2> HIDE DEF p, q, l, s, m, d, r, Helpers, mm, dd, ll
  <2>6. p = q + ll + 0 + mm + dd + r + Rescuing
    BY <1>0, <1>1, <2>2, <2>4, <2>5
  <2>7. stats'.pushed = inner'.pushed + Len(pending') + Len(slice') + stats'.producerMiss
                        + stats'.deferredDropped + stats'.rescueFrames + Rescuing'
    BY <2>2, <2>3, <2>6 DEF mm, dd, ll
  <2> QED BY <1>3, <2>3, <2>7
<1>14. CASE Callback_Rescue
  <2>1. /\ UNCHANGED <<inner, slice, stats, epc, cpc>> /\ cpc = "rescue"
        /\ rescued' = w + 1 /\ pending' = Tail(pending)
    BY <1>14 DEF Callback_Rescue, emuVars
  <2>2. Len(pending') = l - 1
    BY <1>14, <2>1, HeadTailProperties DEF Callback_Rescue, TypeOK
  <2>3. /\ Helpers' /\ Rescuing = w /\ Rescuing' = w + 1 /\ Len(slice') = s
        /\ inner'.pushed = q /\ stats'.pushed = p /\ stats'.producerMiss = m
        /\ stats'.deferredDropped = d /\ stats'.rescueFrames = r
    BY <1>2, <2>1 DEF Rescuing
  <2> HIDE DEF p, q, l, s, m, d, r, w, Helpers
  <2>4. stats'.pushed = inner'.pushed + Len(pending') + Len(slice') + stats'.producerMiss
                        + stats'.deferredDropped + stats'.rescueFrames + Rescuing'
    BY <1>0, <1>1, <2>2, <2>3
  <2> QED BY <1>3, <2>3, <2>4
<1>15. CASE Callback_EndRescue
  <2>1. /\ UNCHANGED <<inner, pending, slice, epc>> /\ cpc = "rescue"
        /\ cpc' \in {"idle", "gap"} /\ stats' = [stats EXCEPT !.rescueFrames = r + w]
    BY <1>15 DEF Callback_EndRescue, emuVars
  <2>2. /\ stats'.pushed = p /\ stats'.producerMiss = m /\ stats'.deferredDropped = d
        /\ stats'.rescueFrames = r + w
    BY <1>0, <2>1, StatsFields
  <2>3. /\ Rescuing = w /\ Rescuing' = 0 /\ Len(slice') = s /\ Len(pending') = l
        /\ inner'.pushed = q
    BY <2>1 DEF Rescuing
  <2>4. epc # "boot"
    BY <2>1 DEF Locks
  <2>5. Helpers'
    BY <1>2, <2>1, <2>4
  <2> HIDE DEF p, q, l, s, m, d, r, w, Helpers
  <2>6. stats'.pushed = inner'.pushed + Len(pending') + Len(slice') + stats'.producerMiss
                        + stats'.deferredDropped + stats'.rescueFrames + Rescuing'
    BY <1>0, <1>1, <2>2, <2>3
  <2> QED BY <1>3, <2>5, <2>6
<1>16. CASE Callback_TryInner \/ Callback_Gap
  <2>1. /\ UNCHANGED <<inner, pending, slice, epc, rescued>> /\ Rescuing' = Rescuing
        /\ cpc' \in {"tryInner", "tryRescue"} => cpc = "tryInner"
    BY <1>16 DEF Callback_TryInner, Callback_Gap, emuVars, Rescuing
  <2>2. /\ stats'.pushed = p /\ stats'.producerMiss = m /\ stats'.deferredDropped = d
        /\ stats'.rescueFrames = r
    <3>1. CASE Callback_TryInner
      <4>1. \/ stats' = stats
            \/ stats' = [stats EXCEPT !.missFrames = @ + left, !.missEvents = @ + 1]
        BY <3>1 DEF Callback_TryInner
      <4>2. CASE stats' = stats
        BY <4>2
      <4>3. CASE stats' = [stats EXCEPT !.missFrames = @ + left, !.missEvents = @ + 1]
        BY <1>0, <4>3, StatsFields
      <4> QED BY <4>1, <4>2, <4>3
    <3>2. CASE Callback_Gap
      <4>1. PICK x, y : stats' = [stats EXCEPT !.fallback = x, !.silence = y]
        BY <3>2 DEF Callback_Gap
      <4> QED BY <1>0, <4>1, StatsFields
    <3> QED BY <1>16, <3>1, <3>2
  <2> QED BY <1>2, <2>1, <2>2, FrameKept DEF FrameSame
<1>17. CASE /\ UNCHANGED <<inner, pending, slice, stats>> /\ Rescuing' = Rescuing
            /\ epc' \in Quiet => epc \in Quiet \/ slice = <<>>
            /\ epc' = "boot" => epc = "boot"
            /\ cpc' \in {"tryInner", "tryRescue"} => rescued' = 0
  BY <1>17 DEF FrameAccount, Quiet
<1>18. \/ BootPush \/ PrepareForPlayback \/ PrimeOne \/ Callback_Pop \/ Push_Begin
       \/ Push_Flush \/ Callback_Flush \/ Push_Store \/ Push_TryDefer \/ Push_Defer
       \/ Callback_Rescue \/ Callback_EndRescue \/ Callback_TryInner \/ Callback_Gap
       \/ /\ UNCHANGED <<inner, pending, slice, stats>> /\ Rescuing' = Rescuing
          /\ epc' \in Quiet => epc \in Quiet \/ slice = <<>>
          /\ epc' = "boot" => epc = "boot"
          /\ cpc' \in {"tryInner", "tryRescue"} => rescued' = 0
  BY <1>2 DEF Next, Emulator, Callback, Finished, vars, emuVars, cbVars, Rescuing, Quiet,
     StartDevice, Push_Cache, Push_TryInner, Push_TryFlush, Push_EndFlush,
     Observe_TryInner, Observe_EndInner, Observe_TryPending, Observe_EndPending,
     Callback_Begin, Callback_TryFlush, Callback_EndFlush, Callback_EndPop,
     Callback_TryRescue, Locks
<1> QED BY <1>6, <1>7, <1>8, <1>9, <1>10, <1>11, <1>12, <1>13, <1>14, <1>15, <1>16, <1>17,
           <1>18
Accounts == FrameAccount /\ MissAccount /\ QueueAccount

LEMMA AccountsInvariant == Spec => []Accounts
<1>1. Init => Accounts
  <2> SUFFICES ASSUME Init PROVE Accounts
    OBVIOUS
  <2>1. /\ Len(inner.frames) = 0 /\ Len(pending) = 0 /\ Len(slice) = 0
        /\ inner.pushed = 0 /\ inner.popped = 0 /\ inner.dropped = 0
    BY EmptySeq DEF Init, NewQueue
  <2>2. /\ stats.pushed = 0 /\ stats.producerMiss = 0 /\ stats.deferredDropped = 0
        /\ stats.rescueFrames = 0 /\ stats.missFrames = 0 /\ stats.fallback = 0
        /\ stats.silence = 0
    BY DEF Init, NoStats
  <2>3. slice = <<>> /\ cpc = "off" /\ rescued = 0 /\ carried = 0
    BY DEF Init
  <2>4. FrameAccount
    BY <2>1, <2>2, <2>3 DEF FrameAccount, Rescuing
  <2>5. MissAccount
    BY <2>1, <2>2, <2>3 DEF MissAccount, Missing, Rescuing, Uncached
  <2>6. QueueAccount
    BY <2>1, <2>3 DEF QueueAccount, QueueConservation
  <2> QED BY <2>4, <2>5, <2>6 DEF Accounts
<1>2. TypeOK /\ Locks /\ Accounts /\ [Next]_vars => Accounts'
  BY FrameAccountStep, MissAccountStep, QueueAccountStep DEF Accounts
<1> QED BY <1>1, <1>2, TypeCorrect, LocksInvariant, PTL DEF Spec

\* Every frame counted as pushed is in the queue, in the pending list, in the
\* producer's hand, played by a rescue or counted as lost, at every step of the
\* two threads.
THEOREM FramesConserved == Spec => []FrameConservation
<1>1. FrameAccount => FrameConservation
  BY DEF FrameAccount, FrameConservation, Rescuing
<1> QED BY <1>1, AccountsInvariant, PTL DEF Accounts

\* Every frame the device missed is made up for once, and a callback that fills a
\* gap has a sample to fade unless no audio was rendered, or none but a first slice
\* that the emulator has counted and not cached yet.
THEOREM MissesAccounted == Spec => []MissAccounting
<1>1. MissAccount => MissAccounting
  BY DEF MissAccount, MissAccounting, Missing, Rescuing
<1> QED BY <1>1, AccountsInvariant, PTL DEF Accounts

\* The queue's own account holds although two threads fill and drain it.
THEOREM QueueConserved == Spec => []QueueConservation
<1>1. QueueAccount => QueueConservation
  BY DEF QueueAccount
<1> QED BY <1>1, AccountsInvariant, PTL DEF Accounts

\* A producer miss grows only when the slice exceeds the pending list or while the
\* callback holds both mutexes.
THEOREM LossesNeedTheFlush == Spec => LossOnlyDuringFlush
<1> DEFINE Only == stats'.producerMiss > stats.producerMiss =>
                     \/ Len(slice) > DeferredMax
                     \/ innerOwner = "callback" /\ pendOwner = "callback"
<1>1. TypeOK /\ Locks /\ [Next]_vars => [Only]_vars
  <2> SUFFICES ASSUME TypeOK, Locks, [Next]_vars,
                      stats'.producerMiss > stats.producerMiss
               PROVE  \/ Len(slice) > DeferredMax
                      \/ innerOwner = "callback" /\ pendOwner = "callback"
    OBVIOUS
  <2>0. stats \in StatsType /\ stats.producerMiss \in Nat
    BY NumbersOK, StatsNat DEF Numbers
  <2>1. CASE Push_TryDefer
    <3>1. epc = "defer" /\ (pendOwner = "free" => stats' = stats)
      BY <2>1 DEF Push_TryDefer
    <3>2. pendOwner # "free"
      BY <2>0, <3>1
    <3> QED BY <3>1, <3>2 DEF Locks, LockDiscipline
  <2>2. CASE Push_Defer
    BY <2>2, DeferCounts
  <2>3. CASE stats'.producerMiss = stats.producerMiss
    BY <2>0, <2>3
  <2>4. \/ Push_TryDefer \/ Push_Defer \/ UNCHANGED stats
        \/ \E x : \/ stats' = [stats EXCEPT !.pushed = x]
                  \/ stats' = [stats EXCEPT !.rescueFrames = x]
        \/ Callback_TryInner \/ Callback_Gap
    BY DEF Next, Emulator, Callback, Finished, vars, emuVars, cbVars,
       BootPush, PrepareForPlayback, PrimeOne, StartDevice, Push_Begin,
       Push_Cache, Push_TryInner, Push_TryFlush, Push_Flush, Push_EndFlush, Push_Store,
       Observe_TryInner, Observe_EndInner, Observe_TryPending, Observe_EndPending,
       Callback_Begin, Callback_TryFlush, Callback_Flush, Callback_EndFlush, Callback_Pop,
       Callback_EndPop, Callback_TryRescue, Callback_Rescue, Callback_EndRescue
  <2>5. CASE \E x : \/ stats' = [stats EXCEPT !.pushed = x]
                    \/ stats' = [stats EXCEPT !.rescueFrames = x]
    <3>1. PICK x : \/ stats' = [stats EXCEPT !.pushed = x]
                   \/ stats' = [stats EXCEPT !.rescueFrames = x]
      BY <2>5
    <3>2. stats'.producerMiss = stats.producerMiss
      BY <2>0, <3>1 DEF StatsType
    <3> QED BY <2>3, <3>2
  <2>6. CASE Callback_TryInner
    <3>1. \/ stats' = stats
          \/ stats' = [stats EXCEPT !.missFrames = @ + left, !.missEvents = @ + 1]
      BY <2>6 DEF Callback_TryInner
    <3>2. CASE stats' = [stats EXCEPT !.missFrames = @ + left, !.missEvents = @ + 1]
      BY <2>0, <2>3, <3>2, StatsFields
    <3> QED BY <2>3, <3>1, <3>2
  <2>7. CASE Callback_Gap
    <3>1. PICK x, y : stats' = [stats EXCEPT !.fallback = x, !.silence = y]
      BY <2>7 DEF Callback_Gap
    <3> QED BY <2>0, <2>3, <3>1, StatsFields
  <2> QED BY <2>1, <2>2, <2>3, <2>4, <2>5, <2>6, <2>7
<1> QED BY <1>1, TypeCorrect, LocksInvariant, PTL DEF Spec, LossOnlyDuringFlush
-----------------------------------------------------------------------------
(***************************************************************************)
(* The refinement: no frame is ever in two places.                         *)
(***************************************************************************)

Inject(s) == \A i, j \in 1..Len(s) : s[i] = s[j] => i = j
SuffixOf(p, s) ==
  /\ Len(p) <= Len(s)
  /\ \A i \in 1..Len(p) : p[i] = s[Len(s) - Len(p) + i]

LEMMA EmptyRange == RangeOf(<<>>) = {} /\ Inject(<<>>)
  BY DEF RangeOf, Inject

LEMMA SingleRange ==
  ASSUME NEW f \in Frame
  PROVE  RangeOf(<<f>>) = {f} /\ Inject(<<f>>) /\ <<f>> \in Seq(Frame)
<1>1. <<f>> \in Seq(Frame) /\ Len(<<f>>) = 1 /\ DOMAIN <<f>> = 1..1 /\ <<f>>[1] = f
  OBVIOUS
<1>2. RangeOf(<<f>>) = {f}
  BY <1>1 DEF RangeOf
<1> QED BY <1>1, <1>2 DEF Inject

LEMMA SuffixRange ==
  ASSUME NEW p \in Seq(Frame), NEW s \in Seq(Frame), SuffixOf(p, s)
  PROVE  RangeOf(p) \subseteq RangeOf(s) /\ (Inject(s) => Inject(p))
<1> DEFINE n == Len(p)
           k == Len(s)
<1>1. n \in Nat /\ k \in Nat /\ DOMAIN p = 1..n /\ DOMAIN s = 1..k /\ n <= k
  BY LenProperties DEF SuffixOf
<1>2. \A i \in 1..n : p[i] = s[k - n + i]
  BY DEF SuffixOf
<1> HIDE DEF n, k
<1>3. \A i \in 1..n : k - n + i \in 1..k
  BY <1>1
<1>4. RangeOf(p) \subseteq RangeOf(s)
  BY <1>1, <1>2, <1>3 DEF RangeOf
<1>5. ASSUME Inject(s), NEW i \in 1..n, NEW j \in 1..n, p[i] = p[j]
      PROVE  i = j
  <2>1. s[k - n + i] = s[k - n + j]
    BY <1>2, <1>5
  <2>2. k - n + i = k - n + j
    BY <1>3, <1>5, <2>1 DEF Inject, k
  <2> QED BY <1>1, <2>2
<1> QED BY <1>4, <1>5 DEF Inject, n

LEMMA ConcatRange ==
  ASSUME NEW a \in Seq(Frame), NEW b \in Seq(Frame)
  PROVE  /\ a \o b \in Seq(Frame)
         /\ RangeOf(a \o b) \subseteq RangeOf(a) \cup RangeOf(b)
         /\ Inject(a) /\ Inject(b) /\ RangeOf(a) \cap RangeOf(b) = {} => Inject(a \o b)
<1> DEFINE s == a \o b
           m == Len(a)
           n == Len(b)
<1>1. /\ s \in Seq(Frame) /\ Len(s) = m + n /\ m \in Nat /\ n \in Nat
      /\ DOMAIN a = 1..m /\ DOMAIN b = 1..n /\ DOMAIN s = 1..(m + n)
  BY ConcatProperties, LenProperties
<1>2. \A i \in 1..(m + n) : s[i] = IF i <= m THEN a[i] ELSE b[i - m]
  BY ConcatProperties
<1> HIDE DEF s
<1>3. \A i \in 1..(m + n) : \/ i \in 1..m /\ s[i] = a[i] /\ a[i] \in RangeOf(a)
                            \/ i - m \in 1..n /\ s[i] = b[i - m] /\ b[i - m] \in RangeOf(b)
  <2> HIDE DEF m, n
  <2>1. \A i \in 1..m : a[i] \in RangeOf(a)
    BY <1>1 DEF RangeOf
  <2>2. \A i \in 1..n : b[i] \in RangeOf(b)
    BY <1>1 DEF RangeOf
  <2> SUFFICES ASSUME NEW i \in 1..(m + n)
               PROVE  \/ i \in 1..m /\ s[i] = a[i] /\ a[i] \in RangeOf(a)
                      \/ i - m \in 1..n /\ s[i] = b[i - m] /\ b[i - m] \in RangeOf(b)
    OBVIOUS
  <2>3. CASE i <= m
    <3>1. i \in 1..m /\ s[i] = a[i]
      BY <1>1, <1>2, <2>3
    <3> QED BY <2>1, <3>1
  <2>4. CASE ~(i <= m)
    <3>1. i - m \in 1..n /\ s[i] = b[i - m]
      BY <1>1, <1>2, <2>4
    <3> QED BY <2>2, <3>1
  <2> QED BY <2>3, <2>4
<1>4. RangeOf(s) \subseteq RangeOf(a) \cup RangeOf(b)
  BY <1>1, <1>3 DEF RangeOf
<1>5. ASSUME Inject(a), Inject(b), RangeOf(a) \cap RangeOf(b) = {},
             NEW i \in 1..(m + n), NEW j \in 1..(m + n), s[i] = s[j]
      PROVE  i = j
  <2>1. CASE /\ i \in 1..m /\ s[i] = a[i] /\ a[i] \in RangeOf(a)
             /\ j \in 1..m /\ s[j] = a[j]
    BY <1>5, <2>1 DEF Inject
  <2>2. CASE /\ i - m \in 1..n /\ s[i] = b[i - m] /\ j - m \in 1..n /\ s[j] = b[j - m]
    <3>1. i - m = j - m
      BY <1>5, <2>2 DEF Inject
    <3> HIDE DEF m, n
    <3> QED BY <1>1, <3>1
  <2> QED BY <1>3, <1>5, <2>1, <2>2
<1> QED BY <1>1, <1>4, <1>5 DEF Inject, s

LEMMA TailRange ==
  ASSUME NEW s \in Seq(Frame), s # <<>>, Inject(s)
  PROVE  /\ Head(s) \in RangeOf(s) /\ RangeOf(Tail(s)) = RangeOf(s) \ {Head(s)}
         /\ Inject(Tail(s))
<1> DEFINE t == Tail(s)
           n == Len(s)
<1>1. /\ n \in Nat /\ n >= 1 /\ DOMAIN s = 1..n /\ Head(s) = s[1]
      /\ t \in Seq(Frame) /\ Len(t) = n - 1 /\ DOMAIN t = 1..(n - 1)
      /\ \A i \in 1..(n - 1) : t[i] = s[i + 1]
  BY HeadTailProperties, LenProperties
<1>2. \A i, j \in 1..n : s[i] = s[j] => i = j
  BY DEF Inject
<1> HIDE DEF t, n
<1>3. Head(s) \in RangeOf(s)
  BY <1>1 DEF RangeOf
<1>4. ASSUME NEW i \in 1..(n - 1) PROVE t[i] \in RangeOf(s) /\ t[i] # s[1]
  <2>1. 1 \in 1..n /\ i + 1 \in 1..n /\ i + 1 # 1 /\ t[i] = s[i + 1]
    BY <1>1
  <2>2. s[i + 1] # s[1]
    BY <1>2, <2>1
  <2> QED BY <1>1, <2>1, <2>2 DEF RangeOf
<1>5. ASSUME NEW i \in 1..n, s[i] # s[1]
      PROVE  i - 1 \in 1..(n - 1) /\ t[i - 1] = s[i]
  <2>1. i # 1
    BY <1>5
  <2>2. i - 1 \in 1..(n - 1) /\ (i - 1) + 1 = i
    BY <1>1, <2>1
  <2> QED BY <1>1, <2>2
<1>6. RangeOf(t) = RangeOf(s) \ {s[1]}
  <2>1. ASSUME NEW x \in RangeOf(t) PROVE x \in RangeOf(s) \ {s[1]}
    BY <1>1, <1>4, <2>1 DEF RangeOf
  <2>2. ASSUME NEW x \in RangeOf(s), x # s[1] PROVE x \in RangeOf(t)
    <3>1. PICK i \in 1..n : s[i] = x
      BY <1>1, <2>2 DEF RangeOf
    <3>2. i - 1 \in DOMAIN t /\ t[i - 1] = x
      BY <1>1, <1>5, <2>2, <3>1
    <3> QED BY <3>2 DEF RangeOf
  <2> QED BY <2>1, <2>2
<1>7. Inject(t)
  BY <1>1, <1>2 DEF Inject
<1> QED BY <1>1, <1>3, <1>6, <1>7 DEF t

LEMMA RenderingRange ==
  ASSUME rendered \in Nat, NEW n \in Nat
  PROVE  /\ RangeOf(Rendering(n)) \subseteq (rendered + 1)..(rendered + n)
         /\ Inject(Rendering(n))
<1>1. DOMAIN Rendering(n) = 1..n /\ \A i \in 1..n : Rendering(n)[i] = rendered + i
  BY DEF Rendering
<1>2. Len(Rendering(n)) = n
  BY RenderingFrames
<1> QED BY <1>1, <1>2 DEF RangeOf, Inject

LEMMA FilledSuffix ==
  ASSUME NEW p, NEW r, NEW fs \in Seq(Frame), Queue(r), Filled(p, r, fs)
  PROVE  SuffixOf(p.frames, r.frames \o fs)
<1> DEFINE s == r.frames \o fs
<1>1. r.frames \in Seq(Frame) /\ p.frames \in Seq(Frame)
  BY QueueNat DEF Filled
<1>2. s \in Seq(Frame) /\ Len(s) = Len(r.frames) + Len(fs)
  BY <1>1, ConcatProperties
<1>3. /\ Len(p.frames) <= Len(r.frames) + Len(fs)
      /\ \A i \in 1..Len(p.frames) :
           p.frames[i] = s[Len(r.frames) + Len(fs) - Len(p.frames) + i]
  BY DEF Filled
<1>4. SuffixOf(p.frames, s)
  <2> DEFINE k == Len(r.frames) + Len(fs)
             v == p.frames
  <2>1. Len(s) = k
    BY <1>2
  <2>3. Len(v) <= k
    BY <1>3
  <2>4. \A i \in 1..Len(v) : v[i] = s[k - Len(v) + i]
    <3> DEFINE a == Len(r.frames)
               b == Len(fs)
               c == Len(v)
    <3>1. a \in Nat /\ b \in Nat /\ c \in Nat
      BY <1>1, LenProperties
    <3>2. \A i \in 1..c : v[i] = s[a + b - c + i]
      BY <1>3
    <3> HIDE DEF a, b, c, s, v
    <3>3. \A i \in 1..c : v[i] = s[(a + b) - c + i]
      <4> SUFFICES ASSUME NEW i \in 1..c PROVE v[i] = s[(a + b) - c + i]
        OBVIOUS
      <4>1. (a + b) - c + i = a + b - c + i
        BY <3>1
      <4> QED BY <3>2, <4>1
    <3> QED BY <3>3 DEF a, b, c
  <2> HIDE DEF k, v, s
  <2>2. SuffixOf(v, s)
    BY <2>1, <2>3, <2>4 DEF SuffixOf
  <2> QED BY <2>2 DEF v
<1> QED BY <1>4

LEMMA FilledRange ==
  ASSUME NEW p, NEW r, NEW fs \in Seq(Frame), Queue(r), Filled(p, r, fs)
  PROVE  /\ RangeOf(p.frames) \subseteq RangeOf(r.frames) \cup RangeOf(fs)
         /\ Inject(r.frames) /\ Inject(fs) /\ RangeOf(r.frames) \cap RangeOf(fs) = {}
              => Inject(p.frames)
<1> DEFINE s == r.frames \o fs
<1>1. r.frames \in Seq(Frame) /\ p.frames \in Seq(Frame)
  BY QueueNat DEF Filled
<1>2. s \in Seq(Frame) /\ Len(s) = Len(r.frames) + Len(fs)
  BY <1>1, ConcatProperties
<1>3. SuffixOf(p.frames, s)
  BY FilledSuffix
<1> HIDE DEF s
<1>4. RangeOf(p.frames) \subseteq RangeOf(s) /\ (Inject(s) => Inject(p.frames))
  BY <1>1, <1>2, <1>3, SuffixRange
<1>5. /\ RangeOf(s) \subseteq RangeOf(r.frames) \cup RangeOf(fs)
      /\ Inject(r.frames) /\ Inject(fs) /\ RangeOf(r.frames) \cap RangeOf(fs) = {}
           => Inject(s)
  BY <1>1, ConcatRange DEF s
<1> QED BY <1>4, <1>5

LEMMA LastNOf ==
  ASSUME NEW s \in Seq(Frame), NEW n \in Nat
  PROVE  LastN(s, n) \in Seq(Frame) /\ SuffixOf(LastN(s, n), s)
<1> DEFINE t == LastN(s, n)
           k == Least(n, Len(s))
<1>1. t \in Seq(Frame) /\ Len(t) = k /\ Len(s) \in Nat
  BY LastNSuffix, LenProperties
<1>2. \A i \in 1..k : t[i] = s[Len(s) - k + i]
  BY LastNSuffix
<1>3. k <= Len(s)
  BY <1>1 DEF Least
<1> HIDE DEF t, k
<1>4. t \in Seq(Frame) /\ SuffixOf(t, s)
  BY <1>1, <1>2, <1>3 DEF SuffixOf
<1> QED BY <1>4 DEF t

LEMMA LastNRange ==
  ASSUME NEW s \in Seq(Frame), NEW n \in Nat
  PROVE  /\ LastN(s, n) \in Seq(Frame)
         /\ RangeOf(LastN(s, n)) \subseteq RangeOf(s) /\ (Inject(s) => Inject(LastN(s, n)))
  BY LastNOf, SuffixRange

\* Where the frames in transit are: nowhere twice, and none before it is rendered.
InHand == RangeOf(slice)
Deferred == RangeOf(pending)
Queued == RangeOf(inner.frames)
Transit == InHand \cup Deferred \cup Queued
Unique ==
  /\ Inject(slice) /\ Inject(pending) /\ Inject(inner.frames)
  /\ InHand \cap Deferred = {} /\ InHand \cap Queued = {} /\ Deferred \cap Queued = {}
  /\ Transit \subseteq 1..rendered

LEMMA LoseStep ==
  ASSUME Transit' \subseteq Transit, rendered' = rendered, heard' = heard
  PROVE  Stream!Next
  BY DEF Stream!Next, Stream!Lose, Transit, InHand, Deferred, Queued

LEMMA HearStep ==
  ASSUME NEW f \in Transit, Transit' = Transit \ {f}, heard' = Append(heard, f),
         rendered' = rendered
  PROVE  Stream!Next
<1>1. Stream!Hear
  BY DEF Stream!Hear, Transit, InHand, Deferred, Queued
<1> QED BY <1>1 DEF Stream!Next

LEMMA SendStep ==
  ASSUME rendered \in Nat, NEW n \in Nat, n > 0, rendered' = rendered + n,
         Transit' \subseteq Transit \cup (rendered + 1)..(rendered + n), heard' = heard
  PROVE  Stream!Next
<1>1. rendered' \in Nat /\ rendered' > rendered
  OBVIOUS
<1>2. Stream!Send
  BY <1>1 DEF Stream!Send, Transit, InHand, Deferred, Queued
<1> QED BY <1>2 DEF Stream!Next

\* One frame leaves the queue for the output, or the queue keeps what it has.
LEMMA PopMoves ==
  ASSUME TypeOK, Unique, inner' = Pop(inner), heard' = Hearing(inner)
  PROVE  \/ /\ Queued' = Queued /\ inner'.frames = inner.frames /\ heard' = heard
         \/ \E f \in Queued : /\ Queued' = Queued \ {f} /\ Inject(inner'.frames)
                              /\ heard' = Append(heard, f)
<1>1. inner.frames \in Seq(Frame) /\ inner \in QueueType
  BY TypesParted, QueueNat DEF Deep, Queue
<1>2. CASE TakesFrame(inner)
  <2>1. inner.frames # <<>> /\ ~Stretches(inner)
    BY <1>2 DEF TakesFrame
  <2>2. inner'.frames = Tail(inner.frames)
    <3>1. TakeFrame(inner).frames = Tail(inner.frames)
      BY <1>1 DEF TakeFrame, QueueType
    <3>2. Queue(inner)
      BY TypesParted DEF Deep
    <3>3. TakeFrame(inner) \in QueueType
      BY <2>1, <3>2, TakeFrameEffect DEF Drained, Queue
    <3>4. inner' = [TakeFrame(inner) EXCEPT !.phase = PhaseAfterTake(inner)]
      BY <2>1 DEF Pop
    <3> QED BY <3>1, <3>3, <3>4 DEF QueueType
  <2>3. heard' = Append(heard, Head(inner.frames))
    BY <1>2 DEF Hearing
  <2> QED BY <1>1, <2>1, <2>2, <2>3, TailRange DEF Unique, Queued
<1>3. CASE ~TakesFrame(inner)
  <2>1. heard' = heard
    BY <1>3 DEF Hearing
  <2>2. inner'.frames = inner.frames
    BY <1>1, <1>3 DEF TakesFrame, Pop, Starve, Stretch, QueueType
  <2> QED BY <2>1, <2>2 DEF Queued
<1> QED BY <1>2, <1>3

\* Start-up flushes the whole pending list at once.
LEMMA FlushedRange ==
  ASSUME TypeOK, Unique
  PROVE  LET q == PushSlice(inner, pending) IN
         /\ Queue(q) /\ RangeOf(q.frames) \subseteq Queued \cup Deferred /\ Inject(q.frames)
<1> DEFINE q == PushSlice(inner, pending)
<1>1. pending \in Seq(Frame) /\ Queue(inner)
  BY TypesParted DEF Deep
<1>2. Filled(q, inner, pending)
  BY <1>1, PushSliceEffect
<1> HIDE DEF q
<1>3. /\ Inject(inner.frames) /\ Inject(pending)
      /\ RangeOf(inner.frames) \cap RangeOf(pending) = {}
  BY DEF Unique, Queued, Deferred
<1>4. /\ RangeOf(q.frames) \subseteq RangeOf(inner.frames) \cup RangeOf(pending)
      /\ Inject(q.frames)
  BY <1>1, <1>2, <1>3, FilledRange
<1>5. Queue(q)
  BY <1>2 DEF Filled
<1> QED BY <1>4, <1>5 DEF Queued, Deferred, q

\* Every step of the two threads sends, hears or loses, and keeps frames unique.
LEMMA StreamStep ==
  TypeOK /\ Unique /\ [Next]_vars =>
    Unique' /\ (Stream!Next \/ UNCHANGED Stream!vars)
<1> SUFFICES ASSUME TypeOK, Unique, [Next]_vars
             PROVE  Unique' /\ (Stream!Next \/ UNCHANGED Stream!vars)
  OBVIOUS
<1>0. /\ slice \in Seq(Frame) /\ pending \in Seq(Frame) /\ Queue(inner)
      /\ inner.frames \in Seq(Frame) /\ rendered \in Nat
  BY TypesParted, QueueNat DEF Deep, Flat
<1>1. CASE BootPush
  <2> DEFINE q == PushSlice(inner, pending)
  <2>1. PICK n \in SliceLengths :
          /\ inner' = PushSlice(q, Rendering(n))
          /\ rendered' = rendered + n
    BY <1>1 DEF BootPush
  <2>2. n \in Nat /\ n > 0
    BY Constants
  <2> DEFINE fs == Rendering(n)
             New == (rendered + 1)..(rendered + n)
  <2>3. fs \in Seq(Frame) /\ RangeOf(fs) \subseteq New /\ Inject(fs)
    BY <1>0, <2>2, RenderingFrames, RenderingRange
  <2>4. New \cap 1..rendered = {} /\ New \subseteq 1..rendered' /\ 1..rendered \subseteq 1..rendered'
    BY <1>0, <2>1, <2>2
  <2>5. /\ Queue(q) /\ RangeOf(q.frames) \subseteq Queued \cup Deferred /\ Inject(q.frames)
    BY FlushedRange
  <2>6. inner' = PushSlice(q, fs)
    BY <2>1
  <2> HIDE DEF q, fs, New
  <2>7. RangeOf(q.frames) \cap RangeOf(fs) = {}
    BY <2>3, <2>4, <2>5 DEF Unique, Transit
  <2>8. Queued' \subseteq Queued \cup Deferred \cup New /\ Inject(inner'.frames)
    <3>1. Filled(inner', q, fs)
      BY <2>3, <2>5, <2>6, PushSliceEffect
    <3> QED BY <2>3, <2>5, <2>7, <3>1, FilledRange DEF Queued
  <2>9. pending' = <<>> /\ slice' = slice /\ heard' = heard
    BY <1>1 DEF BootPush, cbVars
  <2>10. Deferred' = {} /\ InHand' = InHand /\ Inject(pending') /\ Inject(slice')
    BY <2>9, EmptyRange DEF Deferred, InHand, Unique
  <2>11. Unique'
    BY <2>4, <2>8, <2>10 DEF Unique, Transit
  <2>12. Transit' \subseteq Transit \cup (rendered + 1)..(rendered + n)
    BY <2>8, <2>10 DEF Transit, New
  <2> QED BY <1>0, <2>1, <2>2, <2>9, <2>11, <2>12, SendStep
<1>2. CASE PrepareForPlayback
  <2> DEFINE q == PushSlice(inner, pending)
  <2>1. /\ inner' = Prepare(q, Prebuffer) /\ pending' = <<>>
        /\ UNCHANGED <<slice, rendered, heard>>
    BY <1>2 DEF PrepareForPlayback, cbVars
  <2>2. /\ Queue(q) /\ RangeOf(q.frames) \subseteq Queued \cup Deferred /\ Inject(q.frames)
    BY FlushedRange
  <2> HIDE DEF q
  <2>3. Queue(inner') /\ SuffixOf(inner'.frames, q.frames)
    BY <2>1, <2>2, Constants, PrepareEffect, ZenonT(40) DEF SuffixOf
  <2>4. Queued' \subseteq Queued \cup Deferred /\ Inject(inner'.frames)
    BY <2>2, <2>3, SuffixRange, QueueNat DEF Queued
  <2>5. Deferred' = {} /\ InHand' = InHand /\ Inject(pending') /\ Inject(slice')
    BY <2>1, EmptyRange DEF Deferred, InHand, Unique
  <2>6. Unique' /\ Transit' \subseteq Transit
    BY <2>1, <2>4, <2>5 DEF Unique, Transit
  <2> QED BY <2>1, <2>6, LoseStep
<1>3. CASE PrimeOne \/ Callback_Pop
  <2>1. /\ inner' = Pop(inner) /\ heard' = Hearing(inner)
        /\ UNCHANGED <<slice, pending, rendered>>
    BY <1>3 DEF PrimeOne, Callback_Pop, emuVars
  <2>2. Deferred' = Deferred /\ InHand' = InHand /\ Inject(pending') /\ Inject(slice')
    BY <2>1 DEF Deferred, InHand, Unique
  <2>3. CASE Queued' = Queued /\ inner'.frames = inner.frames /\ heard' = heard
    <3>1. Unique' /\ Transit' = Transit
      BY <2>1, <2>2, <2>3 DEF Unique, Transit
    <3> QED BY <2>1, <2>3, <3>1, LoseStep
  <2>4. CASE \E f \in Queued : /\ Queued' = Queued \ {f} /\ Inject(inner'.frames)
                               /\ heard' = Append(heard, f)
    <3>1. PICK f \in Queued : /\ Queued' = Queued \ {f} /\ Inject(inner'.frames)
                              /\ heard' = Append(heard, f)
      BY <2>4
    <3>2. Unique' /\ f \in Transit /\ Transit' = Transit \ {f}
      BY <2>1, <2>2, <3>1 DEF Unique, Transit
    <3> QED BY <2>1, <3>1, <3>2, HearStep
  <2> QED BY <2>1, <2>3, <2>4, PopMoves
<1>4. CASE Push_Begin
  <2>1. PICK n \in SliceLengths : slice' = Rendering(n) /\ rendered' = rendered + n
    BY <1>4 DEF Push_Begin
  <2>2. n \in Nat /\ n > 0 /\ UNCHANGED <<pending, inner, heard>>
    BY <1>4, Constants DEF Push_Begin, cbVars
  <2> DEFINE New == (rendered + 1)..(rendered + n)
  <2>3. InHand' \subseteq New /\ Inject(slice')
    BY <1>0, <2>1, <2>2, RenderingRange DEF InHand
  <2>4. New \cap 1..rendered = {} /\ New \subseteq 1..rendered' /\ 1..rendered \subseteq 1..rendered'
    BY <1>0, <2>1, <2>2
  <2>5. Deferred' = Deferred /\ Queued' = Queued /\ Inject(pending') /\ Inject(inner'.frames)
    BY <2>2 DEF Deferred, Queued, Unique
  <2> HIDE DEF New
  <2>6. Unique' /\ Transit' \subseteq Transit \cup New
    BY <2>3, <2>4, <2>5 DEF Unique, Transit
  <2> QED BY <1>0, <2>1, <2>2, <2>6, SendStep DEF New
<1>5. CASE Push_Flush \/ Callback_Flush
  <2>1. PICK t \in Threads : FlushOne(t)
    BY <1>5 DEF Push_Flush, Callback_Flush, Threads
  <2>2. UNCHANGED <<slice, rendered, heard>>
    BY <1>5 DEF Push_Flush, Callback_Flush, emuVars, cbVars
  <2> DEFINE f == Head(pending)
  <2>3. /\ pending # <<>> /\ pending' = Tail(pending) /\ inner' = Push(inner, f)
        /\ f \in Frame
    BY <1>0, <2>1, HeadTailProperties DEF FlushOne
  <2>4. f \in Deferred /\ Deferred' = Deferred \ {f} /\ Inject(pending')
    BY <1>0, <2>3, TailRange DEF Deferred, Unique
  <2> HIDE DEF f
  <2>5. Queued' \subseteq Queued \cup {f} /\ Inject(inner'.frames)
    <3>1. Filled(inner', inner, <<f>>)
      BY <1>0, <2>3, PushEffect
    <3>2. RangeOf(<<f>>) = {f} /\ Inject(<<f>>) /\ <<f>> \in Seq(Frame)
      BY <2>3, SingleRange
    <3>3. RangeOf(inner.frames) \cap RangeOf(<<f>>) = {} /\ Inject(inner.frames)
      BY <2>4, <3>2 DEF Unique, Queued
    <3> QED BY <1>0, <3>1, <3>2, <3>3, FilledRange DEF Queued
  <2>6. InHand' = InHand /\ Inject(slice')
    BY <2>2 DEF InHand, Unique
  <2>7. Unique' /\ Transit' \subseteq Transit
    BY <2>2, <2>4, <2>5, <2>6 DEF Unique, Transit
  <2> QED BY <2>2, <2>7, LoseStep
<1>6. CASE Push_Store
  <2>1. /\ inner' = PushSlice(inner, slice) /\ slice' = <<>>
        /\ UNCHANGED <<pending, rendered, heard>>
    BY <1>6 DEF Push_Store, cbVars
  <2>2. Queued' \subseteq Queued \cup InHand /\ Inject(inner'.frames)
    <3>1. Filled(inner', inner, slice)
      BY <1>0, <2>1, PushSliceEffect
    <3> QED BY <1>0, <3>1, FilledRange DEF Unique, Queued, InHand
  <2>3. InHand' = {} /\ Deferred' = Deferred /\ Inject(slice') /\ Inject(pending')
    BY <2>1, EmptyRange DEF InHand, Deferred, Unique
  <2>4. Unique' /\ Transit' \subseteq Transit
    BY <2>1, <2>2, <2>3 DEF Unique, Transit
  <2> QED BY <2>1, <2>4, LoseStep
<1>7. CASE Push_TryDefer
  <2>1. (slice' = slice \/ slice' = <<>>) /\ UNCHANGED <<inner, pending, rendered, heard>>
    BY <1>7 DEF Push_TryDefer, cbVars
  <2>2. InHand' \subseteq InHand /\ Inject(slice')
    BY <2>1, EmptyRange DEF InHand, Unique
  <2>3. Deferred' = Deferred /\ Queued' = Queued /\ Inject(pending') /\ Inject(inner'.frames)
    BY <2>1 DEF Deferred, Queued, Unique
  <2>4. Unique' /\ Transit' \subseteq Transit
    BY <2>1, <2>2, <2>3 DEF Unique, Transit
  <2> QED BY <2>1, <2>4, LoseStep
<1>8. CASE Push_Defer
  <2> DEFINE retained == LastN(slice, DeferredMax)
             both == pending \o retained
  <2>1. /\ pending' = LastN(both, DeferredMax) /\ slice' = <<>>
        /\ UNCHANGED <<inner, rendered, heard>>
    BY <1>8 DEF Push_Defer, cbVars
  <2>2. DeferredMax \in Nat
    BY Constants
  <2>3. /\ retained \in Seq(Frame) /\ RangeOf(retained) \subseteq InHand
        /\ Inject(retained)
    BY <1>0, <2>2, LastNRange DEF InHand, Unique
  <2> HIDE DEF retained
  <2>4. /\ both \in Seq(Frame) /\ RangeOf(both) \subseteq Deferred \cup InHand
        /\ Inject(both)
    <3>1. RangeOf(pending) \cap RangeOf(retained) = {} /\ Inject(pending)
      BY <2>3 DEF Unique, Deferred
    <3> QED BY <1>0, <2>3, <3>1, ConcatRange DEF Deferred
  <2> HIDE DEF both
  <2>5. Deferred' \subseteq Deferred \cup InHand /\ Inject(pending')
    BY <2>1, <2>2, <2>4, LastNRange DEF Deferred
  <2>6. InHand' = {} /\ Queued' = Queued /\ Inject(slice') /\ Inject(inner'.frames)
    BY <2>1, EmptyRange DEF InHand, Queued, Unique
  <2>7. Unique' /\ Transit' \subseteq Transit
    BY <2>1, <2>5, <2>6 DEF Unique, Transit
  <2> QED BY <2>1, <2>7, LoseStep
<1>9. CASE Callback_Rescue
  <2> DEFINE f == Head(pending)
  <2>1. /\ pending # <<>> /\ pending' = Tail(pending) /\ heard' = Append(heard, f)
        /\ UNCHANGED <<inner, slice, rendered>>
    BY <1>9 DEF Callback_Rescue, emuVars
  <2>2. f \in Deferred /\ Deferred' = Deferred \ {f} /\ Inject(pending')
    BY <1>0, <2>1, TailRange DEF Deferred, Unique
  <2> HIDE DEF f
  <2>3. InHand' = InHand /\ Queued' = Queued /\ Inject(slice') /\ Inject(inner'.frames)
    BY <2>1 DEF InHand, Queued, Unique
  <2>4. Unique' /\ f \in Transit /\ Transit' = Transit \ {f}
    BY <2>1, <2>2, <2>3 DEF Unique, Transit
  <2> QED BY <2>1, <2>4, HearStep
<1>10. CASE UNCHANGED <<slice, pending, inner, rendered, heard>>
  <2>1. Unique' /\ Transit' = Transit
    BY <1>10 DEF Unique, Transit, InHand, Deferred, Queued, Inject
  <2> QED BY <1>10, <2>1, LoseStep
<1>11. \/ BootPush \/ PrepareForPlayback \/ PrimeOne \/ Callback_Pop \/ Push_Begin
       \/ Push_Flush \/ Callback_Flush \/ Push_Store \/ Push_TryDefer \/ Push_Defer
       \/ Callback_Rescue \/ UNCHANGED <<slice, pending, inner, rendered, heard>>
  BY DEF Next, Emulator, Callback, Finished, vars, emuVars, cbVars,
     StartDevice, Push_Cache, Push_TryInner, Push_TryFlush, Push_EndFlush,
     Observe_TryInner, Observe_EndInner, Observe_TryPending, Observe_EndPending,
     Callback_Begin, Callback_TryInner, Callback_TryFlush, Callback_EndFlush,
     Callback_EndPop, Callback_TryRescue, Callback_EndRescue, Callback_Gap
<1> QED BY <1>1, <1>2, <1>3, <1>4, <1>5, <1>6, <1>7, <1>8, <1>9, <1>10, <1>11

\* Whatever the interleaving, the limits and the capacity, the sound path sends,
\* plays and loses like the lossy stream: no frame is heard twice, and none after
\* it was lost.
THEOREM Refinement == Spec => ImplementsStream
<1>1. Init => Unique /\ Stream!Init
  <2> SUFFICES ASSUME Init PROVE Unique /\ Stream!Init
    OBVIOUS
  <2>1. inner.frames = <<>> /\ pending = <<>> /\ slice = <<>> /\ rendered = 0 /\ heard = <<>>
    BY DEF Init, NewQueue
  <2>2. InHand = {} /\ Deferred = {} /\ Queued = {}
    BY <2>1, EmptyRange DEF InHand, Deferred, Queued
  <2>3. Unique
    BY <2>1, <2>2, EmptyRange DEF Unique, Transit
  <2>4. Stream!Init
    BY <2>1, <2>2 DEF Stream!Init, InHand, Deferred, Queued
  <2> QED BY <2>3, <2>4
<1>2. TypeOK /\ Unique /\ [Next]_vars => Unique' /\ [Stream!Next]_(Stream!vars)
  BY StreamStep
<1> QED BY <1>1, <1>2, TypeCorrect, PTL DEF Spec, ImplementsStream, Stream!Spec
-----------------------------------------------------------------------------
(***************************************************************************)
(* The order of the frames: played, queued, deferred, in the producer's    *)
(* hand, from the oldest to the newest, until a callback rescues a frame   *)
(* or more was deferred than one push may flush.                           *)
(***************************************************************************)

Rising(s) == \A i, j \in 1..Len(s) : i < j => s[i] < s[j]
Below(S, T) == \A x \in S, y \in T : x < y

LEMMA SuffixRising ==
  ASSUME NEW p \in Seq(Frame), NEW s \in Seq(Frame), SuffixOf(p, s), Rising(s)
  PROVE  Rising(p)
<1> DEFINE n == Len(p)
           k == Len(s)
<1>1. n \in Nat /\ k \in Nat /\ n <= k /\ \A i \in 1..n : p[i] = s[k - n + i]
  BY LenProperties DEF SuffixOf
<1>2. \A i, j \in 1..k : i < j => s[i] < s[j]
  BY DEF Rising
<1> HIDE DEF n, k
<1>3. \A i, j \in 1..n : i < j =>
        k - n + i \in 1..k /\ k - n + j \in 1..k /\ k - n + i < k - n + j
  BY <1>1
<1>4. \A i, j \in 1..n : i < j => p[i] < p[j]
  BY <1>1, <1>2, <1>3
<1> QED BY <1>4 DEF Rising, n

LEMMA ConcatRising ==
  ASSUME NEW a \in Seq(Frame), NEW b \in Seq(Frame), Rising(a), Rising(b),
         Below(RangeOf(a), RangeOf(b))
  PROVE  Rising(a \o b)
<1> DEFINE s == a \o b
           m == Len(a)
           n == Len(b)
<1>1. /\ Len(s) = m + n /\ m \in Nat /\ n \in Nat
      /\ DOMAIN a = 1..m /\ DOMAIN b = 1..n
  BY ConcatProperties, LenProperties
<1>2. \A i \in 1..(m + n) : s[i] = IF i <= m THEN a[i] ELSE b[i - m]
  BY ConcatProperties
<1>3. /\ \A i, j \in 1..m : i < j => a[i] < a[j]
      /\ \A i, j \in 1..n : i < j => b[i] < b[j]
  BY DEF Rising
<1>4. \A i \in 1..m, j \in 1..n : a[i] < b[j]
  BY <1>1 DEF Below, RangeOf
<1> HIDE DEF s, m, n
<1>5. ASSUME NEW i \in 1..(m + n), NEW j \in 1..(m + n), i < j
      PROVE  s[i] < s[j]
  <2>1. CASE j <= m
    <3>1. i \in 1..m /\ j \in 1..m /\ s[i] = a[i] /\ s[j] = a[j]
      BY <1>1, <1>2, <1>5, <2>1
    <3> QED BY <1>3, <1>5, <3>1
  <2>2. CASE i <= m /\ ~(j <= m)
    <3>1. i \in 1..m /\ j - m \in 1..n /\ s[i] = a[i] /\ s[j] = b[j - m]
      BY <1>1, <1>2, <2>2
    <3> QED BY <1>4, <3>1
  <2>3. CASE ~(i <= m)
    <3>1. /\ i - m \in 1..n /\ j - m \in 1..n /\ i - m < j - m
          /\ s[i] = b[i - m] /\ s[j] = b[j - m]
      BY <1>1, <1>2, <1>5, <2>3
    <3> QED BY <1>3, <3>1
  <2> QED BY <1>1, <1>5, <2>1, <2>2, <2>3
<1> QED BY <1>1, <1>5 DEF Rising, s

LEMMA TailRising ==
  ASSUME NEW s \in Seq(Frame), s # <<>>, Rising(s)
  PROVE  /\ Head(s) \in RangeOf(s) /\ RangeOf(Tail(s)) \subseteq RangeOf(s)
         /\ Rising(Tail(s)) /\ Below({Head(s)}, RangeOf(Tail(s)))
<1> DEFINE t == Tail(s)
           n == Len(s)
<1>1. /\ n \in Nat /\ n >= 1 /\ DOMAIN s = 1..n /\ Head(s) = s[1]
      /\ t \in Seq(Frame) /\ Len(t) = n - 1 /\ DOMAIN t = 1..(n - 1)
      /\ \A i \in 1..(n - 1) : t[i] = s[i + 1]
  BY HeadTailProperties, LenProperties
<1>2. \A i, j \in 1..n : i < j => s[i] < s[j]
  BY DEF Rising
<1> HIDE DEF t, n
<1>3. Head(s) \in RangeOf(s)
  BY <1>1 DEF RangeOf
<1>4. \A i \in 1..(n - 1) : t[i] \in RangeOf(s) /\ s[1] < t[i]
  BY <1>1, <1>2 DEF RangeOf
<1>5. RangeOf(t) \subseteq RangeOf(s) /\ Below({s[1]}, RangeOf(t))
  BY <1>1, <1>4 DEF RangeOf, Below
<1>6. Rising(t)
  BY <1>1, <1>2 DEF Rising
<1> QED BY <1>1, <1>3, <1>5, <1>6 DEF t

LEMMA SingleRising == ASSUME NEW f \in Frame PROVE Rising(<<f>>)
<1>1. Len(<<f>>) = 1
  OBVIOUS
<1> QED BY <1>1 DEF Rising

LEMMA AppendRising ==
  ASSUME NEW s \in Seq(Frame), NEW f \in Frame, Rising(s), Below(RangeOf(s), {f})
  PROVE  /\ Append(s, f) \in Seq(Frame) /\ Rising(Append(s, f))
         /\ RangeOf(Append(s, f)) \subseteq RangeOf(s) \cup {f}
<1>1. <<f>> \in Seq(Frame) /\ RangeOf(<<f>>) = {f} /\ Rising(<<f>>)
  BY SingleRange, SingleRising
<1>2. Append(s, f) = s \o <<f>>
  OBVIOUS
<1>3. s \o <<f>> \in Seq(Frame) /\ RangeOf(s \o <<f>>) \subseteq RangeOf(s) \cup {f}
  BY <1>1, ConcatRange
<1>4. Rising(s \o <<f>>)
  BY <1>1, ConcatRising
<1> QED BY <1>2, <1>3, <1>4

LEMMA EmptyRising == Rising(<<>>) /\ RangeOf(<<>>) = {}
  BY EmptyRange DEF Rising

LEMMA RenderingRising ==
  ASSUME rendered \in Nat, NEW n \in Nat
  PROVE  Rising(Rendering(n)) /\ RangeOf(Rendering(n)) \subseteq (rendered + 1)..(rendered + n)
<1>1. \A i \in 1..n : Rendering(n)[i] = rendered + i
  BY DEF Rendering
<1>2. Len(Rendering(n)) = n
  BY RenderingFrames
<1> QED BY <1>1, <1>2, RenderingRange DEF Rising

LEMMA FilledRising ==
  ASSUME NEW p, NEW r, NEW fs \in Seq(Frame), Queue(r), Filled(p, r, fs),
         Rising(r.frames), Rising(fs), Below(RangeOf(r.frames), RangeOf(fs))
  PROVE  Rising(p.frames) /\ RangeOf(p.frames) \subseteq RangeOf(r.frames) \cup RangeOf(fs)
<1>1. r.frames \in Seq(Frame) /\ p.frames \in Seq(Frame)
  BY QueueNat DEF Filled
<1>2. r.frames \o fs \in Seq(Frame) /\ Rising(r.frames \o fs)
  BY <1>1, ConcatRange, ConcatRising
<1>3. SuffixOf(p.frames, r.frames \o fs)
  BY FilledSuffix
<1>4. Rising(p.frames)
  BY <1>1, <1>2, <1>3, SuffixRising
<1> QED BY <1>4, FilledRange

LEMMA LastNRising ==
  ASSUME NEW s \in Seq(Frame), NEW n \in Nat, Rising(s)
  PROVE  /\ LastN(s, n) \in Seq(Frame) /\ Rising(LastN(s, n))
         /\ RangeOf(LastN(s, n)) \subseteq RangeOf(s)
  BY LastNOf, SuffixRising, LastNRange

\* Nothing was rescued so far, and what was deferred fits in the flush of one push.
Calm == stats.rescueFrames = 0 /\ rescued = 0 /\ deepest <= FlushMax

\* What the record knows: the longest the pending list was, whether anything was
\* rescued, that a rescue begins with something left to write, and that the flush
\* of a push can take the whole pending list.
Record ==
  /\ Len(pending) <= deepest
  /\ rescued > 0 /\ cpc # "rescue" => stats.rescueFrames > 0
  /\ cpc \in {"tryInner", "tryRescue"} => left > 0
  /\ cpc = "rescue" /\ rescued = 0 => left > 0
  /\ epc = "flush" /\ deepest <= FlushMax => Len(pending) <= budget["emulator"]

LEMMA RecordStep ==
  ASSUME TypeOK, Locks, Record, [Next]_vars
  PROVE  Record'
<1>0. /\ pending \in Seq(Frame) /\ Len(pending) \in Nat /\ deepest \in Nat
      /\ stats \in StatsType /\ stats.rescueFrames \in Nat
      /\ left \in Nat /\ rescued \in Nat
      /\ budget \in [Threads -> 0..FlushMax] /\ FlushMax \in Nat
  <2>1. Deep /\ Flat
    BY TypesParted
  <2> QED BY <2>1, Constants, StatsNat, LenProperties DEF Deep, Flat
<1>1. CASE BootPush \/ PrepareForPlayback
  <2>1. /\ pending' = <<>> /\ UNCHANGED <<deepest, budget, rescued, cpc, left>>
        /\ stats'.rescueFrames = stats.rescueFrames /\ epc' # "flush"
    BY <1>0, <1>1 DEF BootPush, PrepareForPlayback, cbVars, StatsType
  <2>2. Len(pending') = 0
    BY <2>1
  <2> QED BY <1>0, <2>1, <2>2 DEF Record
<1>2. CASE Push_Begin \/ Push_Store \/ Push_TryDefer
  <2>1. UNCHANGED <<pending, deepest, budget, rescued, cpc, left>> /\ epc' # "flush"
    BY <1>2 DEF Push_Begin, Push_Store, Push_TryDefer, cbVars
  <2>2. stats'.rescueFrames = stats.rescueFrames
    BY <1>0, <1>2 DEF Push_Begin, Push_Store, Push_TryDefer, StatsType
  <2> QED BY <2>1, <2>2 DEF Record
<1>3. CASE Push_TryFlush
  <2>1. UNCHANGED <<pending, deepest, rescued, cpc, left, stats>>
    BY <1>3 DEF Push_TryFlush, cbVars
  <2>2. epc' = "flush" => budget'["emulator"] = FlushMax
    BY <1>0, <1>3 DEF Push_TryFlush, Threads
  <2> QED BY <1>0, <2>1, <2>2 DEF Record
<1>4. CASE Push_Flush \/ Callback_Flush
  <2>1. PICK t \in Threads : FlushOne(t) /\ (t = "emulator" <=> Push_Flush)
    BY <1>4 DEF Push_Flush, Callback_Flush, Threads, Locks, LockDiscipline
  <2>2. Len(pending') = Len(pending) - 1
    BY <2>1, FlushTypes
  <2>3. UNCHANGED <<deepest, rescued, cpc, left, stats, epc>>
    BY <1>4 DEF Push_Flush, Callback_Flush, emuVars, cbVars
  <2>4. epc = "flush" => budget'["emulator"] = budget["emulator"] - 1
    <3>1. epc = "flush" => Push_Flush
      BY <1>4 DEF Callback_Flush, Locks, LockDiscipline
    <3>2. budget' = [budget EXCEPT ![t] = @ - 1]
      BY <2>1 DEF FlushOne
    <3> QED BY <1>0, <2>1, <3>1, <3>2 DEF Threads
  <2>5. budget["emulator"] \in Int
    BY <1>0 DEF Threads
  <2> QED BY <1>0, <2>2, <2>3, <2>4, <2>5 DEF Record
<1>5. CASE Push_Defer
  <2> DEFINE kept == LastN(pending \o LastN(slice, DeferredMax), DeferredMax)
  <2>1. /\ pending' = kept /\ deepest' = Greatest(deepest, Len(kept))
        /\ UNCHANGED <<rescued, cpc, left>> /\ epc' # "flush"
    BY <1>5 DEF Push_Defer, cbVars
  <2>2. stats'.rescueFrames = stats.rescueFrames
    BY <1>0, <1>5 DEF Push_Defer, StatsType
  <2>3. Len(kept) \in Nat
    BY DeferFacts
  <2> HIDE DEF kept
  <2>4. Len(pending') <= deepest'
    BY <1>0, <2>1, <2>3 DEF Greatest
  <2> QED BY <2>1, <2>2, <2>4 DEF Record
<1>6. CASE Callback_Begin
  <2>1. /\ UNCHANGED <<pending, deepest, budget, epc, stats>> /\ rescued' = 0
        /\ left' = CallbackFrames /\ cpc' = "tryInner"
    BY <1>6 DEF Callback_Begin, emuVars
  <2> QED BY <2>1, Constants DEF Record
<1>7. CASE Callback_TryInner
  <2>1. /\ UNCHANGED <<pending, deepest, budget, epc, rescued, left>>
        /\ cpc = "tryInner" /\ cpc' \in {"tryFlush", "tryRescue"}
    BY <1>7 DEF Callback_TryInner, emuVars
  <2>2. stats'.rescueFrames = stats.rescueFrames
    BY <1>0, <1>7 DEF Callback_TryInner, StatsType
  <2> QED BY <2>1, <2>2 DEF Record
<1>8. CASE Callback_TryRescue
  <2>1. /\ UNCHANGED <<pending, deepest, budget, epc, rescued, left, stats>>
        /\ cpc = "tryRescue" /\ cpc' \in {"rescue", "gap"}
    BY <1>8 DEF Callback_TryRescue, emuVars
  <2> QED BY <2>1 DEF Record
<1>9. CASE Callback_Rescue
  <2>1. /\ UNCHANGED <<deepest, budget, epc, stats, cpc>> /\ pending' = Tail(pending)
        /\ pending # <<>> /\ rescued' = rescued + 1 /\ cpc = "rescue"
    BY <1>9 DEF Callback_Rescue, emuVars
  <2>2. Len(pending') = Len(pending) - 1
    BY <1>0, <2>1, HeadTailProperties
  <2>3. epc # "flush"
    BY <2>1 DEF Locks, LockDiscipline
  <2> QED BY <1>0, <2>1, <2>2, <2>3 DEF Record
<1>10. CASE Callback_EndRescue
  <2>1. /\ UNCHANGED <<pending, deepest, budget, epc, rescued>>
        /\ cpc' \in {"idle", "gap"}
    BY <1>10 DEF Callback_EndRescue, emuVars
  <2>2. stats'.rescueFrames = stats.rescueFrames + rescued
    BY <1>0, <1>10 DEF Callback_EndRescue, StatsType
  <2> QED BY <1>0, <2>1, <2>2 DEF Record
<1>11. CASE Callback_Gap
  <2>1. UNCHANGED <<pending, deepest, budget, epc, rescued>> /\ cpc' = "idle" /\ cpc = "gap"
    BY <1>11 DEF Callback_Gap, emuVars
  <2>2. stats'.rescueFrames = stats.rescueFrames
    BY <1>0, <1>11 DEF Callback_Gap, StatsType
  <2> QED BY <2>1, <2>2 DEF Record
<1>12. CASE Callback_TryFlush
  <2>1. /\ UNCHANGED <<pending, deepest, rescued, epc, stats>>
        /\ cpc = "tryFlush" /\ cpc' \in {"flush", "pop"}
    BY <1>12 DEF Callback_TryFlush, emuVars
  <2>2. epc # "flush"
    BY <2>1 DEF Locks, LockDiscipline
  <2> QED BY <2>1, <2>2 DEF Record
<1>13. CASE Callback_EndFlush \/ Callback_Pop \/ Callback_EndPop
  <2>1. /\ UNCHANGED <<pending, deepest, budget, rescued, epc, stats>>
        /\ cpc \in {"flush", "pop"} /\ cpc' \in {"pop", "idle"}
    BY <1>13 DEF Callback_EndFlush, Callback_Pop, Callback_EndPop, emuVars
  <2> QED BY <2>1 DEF Record
<1>14. CASE /\ UNCHANGED <<pending, deepest, budget, rescued, left, stats>>
            /\ cpc' = cpc \/ (cpc' = "idle" /\ cpc # "rescue")
            /\ epc' \in {epc, "store", "idle", "tryInner", "tryFlush", "defer", "observe",
                         "tryPending", "observePending"}
  BY <1>14 DEF Record
<1>15. CASE PrimeOne \/ StartDevice
  <2>1. /\ UNCHANGED <<pending, deepest, budget, rescued, left, stats>>
        /\ epc' \in {"prime", "idle"} /\ cpc' \in {cpc, "idle"} /\ cpc = "off"
    BY <1>15 DEF PrimeOne, StartDevice, emuVars, Locks
  <2> QED BY <2>1 DEF Record
<1>16. CASE Push_Cache \/ Push_TryInner \/ Push_EndFlush \/ Observe_TryInner
            \/ Observe_EndInner \/ Observe_TryPending \/ Observe_EndPending \/ UNCHANGED vars
  BY <1>14, <1>16 DEF Push_Cache, Push_TryInner, Push_EndFlush, Observe_TryInner,
     Observe_EndInner, Observe_TryPending, Observe_EndPending, vars, emuVars, cbVars
<1> QED
  BY <1>1, <1>2, <1>3, <1>4, <1>5, <1>6, <1>7, <1>8, <1>9, <1>10, <1>11, <1>12, <1>13,
     <1>15, <1>16 DEF Next, Emulator, Callback, Finished

\* Calm is lost for good.
LEMMA CalmBefore ==
  ASSUME TypeOK, Record, [Next]_vars, Calm'
  PROVE  /\ Calm /\ (Callback_EndRescue => pending = <<>>)
         /\ ~Callback_Rescue
<1>0. /\ pending \in Seq(Frame) /\ deepest \in Nat
      /\ stats \in StatsType /\ stats.rescueFrames \in Nat
      /\ rescued \in Nat /\ FlushMax \in Nat
  <2>1. Deep /\ Flat
    BY TypesParted
  <2> QED BY <2>1, Constants, StatsNat DEF Deep, Flat
<1>1. CASE Push_Defer
  <2> DEFINE kept == LastN(pending \o LastN(slice, DeferredMax), DeferredMax)
  <2>1. deepest' = Greatest(deepest, Len(kept)) /\ rescued' = rescued
    BY <1>1 DEF Push_Defer, cbVars
  <2>2. stats'.rescueFrames = stats.rescueFrames
    BY <1>0, <1>1 DEF Push_Defer, StatsType
  <2>3. Len(kept) \in Nat
    BY DeferFacts
  <2>4. epc # epc' /\ UNCHANGED cpc
    BY <1>1 DEF Push_Defer, cbVars
  <2>5. ~Callback_Rescue /\ ~Callback_EndRescue
    BY <2>4 DEF Callback_Rescue, Callback_EndRescue, emuVars
  <2> HIDE DEF kept
  <2> QED BY <1>0, <2>1, <2>2, <2>3, <2>5 DEF Calm, Greatest
<1>2. CASE Callback_EndRescue
  <2>1. stats'.rescueFrames = stats.rescueFrames + rescued
    BY <1>0, <1>2 DEF Callback_EndRescue, StatsType
  <2>2. UNCHANGED <<deepest, rescued, left>> /\ cpc = "rescue" /\ cpc' # "rescue"
    BY <1>2 DEF Callback_EndRescue, emuVars
  <2>3. Calm
    BY <1>0, <2>1, <2>2 DEF Calm
  <2>4. pending = <<>>
    BY <1>2, <2>2, <2>3, SharedConstants DEF Callback_EndRescue, Record, Calm
  <2> QED BY <2>2, <2>3, <2>4 DEF Callback_Rescue
<1>3. CASE Callback_Begin
  <2>1. UNCHANGED <<deepest, stats>> /\ cpc = "idle"
    BY <1>3 DEF Callback_Begin, emuVars
  <2>2. Calm
    BY <1>0, <2>1 DEF Calm, Record
  <2> QED BY <2>1, <2>2 DEF Callback_Rescue, Callback_EndRescue
<1>4. CASE Callback_Rescue
  <2>1. rescued' = rescued + 1
    BY <1>4 DEF Callback_Rescue
  <2> QED BY <1>0, <2>1 DEF Calm
<1>5. CASE ~Callback_EndRescue /\ ~Callback_Rescue
           /\ UNCHANGED <<deepest, rescued>> /\ stats'.rescueFrames = stats.rescueFrames
  BY <1>5 DEF Calm
<1>6. ASSUME ~Push_Defer, ~Callback_EndRescue, ~Callback_Begin, ~Callback_Rescue
      PROVE  UNCHANGED <<deepest, rescued>> /\ stats'.rescueFrames = stats.rescueFrames
  <2>1. UNCHANGED <<deepest, rescued>>
    BY <1>6 DEF Next, Emulator, Callback, Finished, vars, emuVars, cbVars, BootPush,
       PrepareForPlayback, PrimeOne, StartDevice, Push_Begin, Push_Cache, Push_TryInner,
       Push_TryFlush, Push_Flush, Push_EndFlush, Push_Store, Push_TryDefer, Observe_TryInner,
       Observe_EndInner, Observe_TryPending, Observe_EndPending, Callback_TryInner,
       Callback_TryFlush, Callback_Flush, Callback_EndFlush, Callback_Pop, Callback_EndPop,
       Callback_TryRescue, Callback_Gap
  <2>2. CASE BootPush \/ PrepareForPlayback \/ Push_Begin \/ Push_TryDefer
             \/ Callback_TryInner \/ Callback_Gap
    <3>1. CASE BootPush \/ PrepareForPlayback
      BY <1>0, <2>1, <3>1 DEF BootPush, PrepareForPlayback, StatsType
    <3>2. CASE Push_Begin
      BY <1>0, <2>1, <3>2 DEF Push_Begin, StatsType
    <3>3. CASE Push_TryDefer
      BY <1>0, <2>1, <3>3 DEF Push_TryDefer, StatsType
    <3>4. CASE Callback_TryInner
      BY <1>0, <2>1, <3>4 DEF Callback_TryInner, StatsType
    <3>5. CASE Callback_Gap
      BY <1>0, <2>1, <3>5 DEF Callback_Gap, StatsType
    <3> QED BY <2>2, <3>1, <3>2, <3>3, <3>4, <3>5
  <2>3. ASSUME ~(BootPush \/ PrepareForPlayback \/ Push_Begin \/ Push_TryDefer
                 \/ Callback_TryInner \/ Callback_Gap)
        PROVE  stats' = stats
    BY <1>6, <2>3 DEF Next, Emulator, Callback, Finished, vars, emuVars, cbVars, PrimeOne,
       StartDevice, Push_Cache, Push_TryInner, Push_TryFlush, Push_Flush, Push_EndFlush,
       Push_Store,
       Observe_TryInner, Observe_EndInner, Observe_TryPending, Observe_EndPending,
       Callback_TryFlush, Callback_Flush, Callback_EndFlush, Callback_Pop, Callback_EndPop,
       Callback_TryRescue
  <2> QED BY <2>1, <2>2, <2>3
<1> QED BY <1>1, <1>2, <1>3, <1>4, <1>5, <1>6

\* The frames in order: played before queued, queued before deferred, all of them
\* before those in the producer's hand.  Frames may overtake the deferred ones only
\* while the callback holds the pending list to rescue from it.
Heard == RangeOf(heard)
Chain ==
  /\ Rising(heard) /\ Rising(inner.frames) /\ Rising(pending) /\ Rising(slice)
  /\ Below(Heard, Queued) /\ Below(Heard, Deferred) /\ Below(Heard, InHand)
  /\ Below(Queued, InHand) /\ Below(Deferred, InHand)
  /\ cpc # "rescue" => Below(Queued, Deferred)
  /\ Heard \cup Transit \subseteq 1..rendered
  /\ epc = "store" => pending = <<>> \/ cpc = "rescue"

\* Relations between smaller sets.
LEMMA BelowSmaller ==
  ASSUME NEW S, NEW T, NEW U, NEW V, Below(S, T), U \subseteq S, V \subseteq T
  PROVE  Below(U, V)
  BY DEF Below

LEMMA BelowUnion ==
  ASSUME NEW S, NEW T, NEW U
  PROVE  /\ Below(S, U) /\ Below(T, U) => Below(S \cup T, U)
         /\ Below(U, S) /\ Below(U, T) => Below(U, S \cup T)
         /\ Below({}, U) /\ Below(U, {})
  BY DEF Below

LEMMA BelowNew ==
  ASSUME NEW r \in Nat, NEW n \in Nat, NEW S \in SUBSET (1..r)
  PROVE  Below(S, (r + 1)..(r + n))
  BY DEF Below

\* The pending list moves into the queue in order.
LEMMA FlushedRising ==
  ASSUME TypeOK, Chain, cpc # "rescue"
  PROVE  LET q == PushSlice(inner, pending) IN
         Queue(q) /\ Rising(q.frames) /\ RangeOf(q.frames) \subseteq Queued \cup Deferred
<1> DEFINE q == PushSlice(inner, pending)
<1>1. Queue(inner) /\ pending \in Seq(Frame)
  BY TypesParted DEF Deep
<1>2. Filled(q, inner, pending) /\ Queue(q)
  BY <1>1, PushSliceEffect DEF Filled
<1> HIDE DEF q
<1>3. Below(RangeOf(inner.frames), RangeOf(pending)) /\ Rising(inner.frames) /\ Rising(pending)
  BY DEF Chain, Queued, Deferred
<1>4. Rising(q.frames) /\ RangeOf(q.frames) \subseteq Queued \cup Deferred
  BY <1>1, <1>2, <1>3, FilledRising DEF Queued, Deferred
<1> QED BY <1>2, <1>4 DEF q

\* The frame a pop makes heard is older than all that stay in the queue.
LEMMA PopRising ==
  ASSUME TypeOK, Chain, inner' = Pop(inner), heard' = Hearing(inner)
  PROVE  \/ inner'.frames = inner.frames /\ heard' = heard
         \/ \E f \in Queued : /\ Rising(inner'.frames) /\ Queued' \subseteq Queued
                              /\ Below({f}, Queued') /\ heard' = Append(heard, f)
<1>1. inner.frames \in Seq(Frame) /\ inner \in QueueType
  BY TypesParted, QueueNat DEF Deep, Queue
<1>2. CASE TakesFrame(inner)
  <2>1. inner.frames # <<>> /\ ~Stretches(inner)
    BY <1>2 DEF TakesFrame
  <2>2. inner'.frames = Tail(inner.frames)
    <3>1. TakeFrame(inner).frames = Tail(inner.frames)
      BY <1>1 DEF TakeFrame, QueueType
    <3>2. Queue(inner)
      BY TypesParted DEF Deep
    <3>3. TakeFrame(inner) \in QueueType
      BY <2>1, <3>2, TakeFrameEffect DEF Drained, Queue
    <3>4. inner' = [TakeFrame(inner) EXCEPT !.phase = PhaseAfterTake(inner)]
      BY <2>1 DEF Pop
    <3> QED BY <3>1, <3>3, <3>4 DEF QueueType
  <2>3. heard' = Append(heard, Head(inner.frames))
    BY <1>2 DEF Hearing
  <2>4. Rising(inner.frames)
    BY DEF Chain
  <2>5. /\ Head(inner.frames) \in Queued /\ Queued' \subseteq Queued
        /\ Rising(inner'.frames) /\ Below({Head(inner.frames)}, Queued')
    BY <1>1, <2>1, <2>2, <2>4, TailRising DEF Queued
  <2> QED BY <2>3, <2>5
<1>3. CASE ~TakesFrame(inner)
  <2>1. heard' = heard
    BY <1>3 DEF Hearing
  <2>2. inner'.frames = inner.frames
    BY <1>1, <1>3 DEF TakesFrame, Pop, Starve, Stretch, QueueType
  <2> QED BY <2>1, <2>2
<1> QED BY <1>2, <1>3

LEMMA ChainStep ==
  ASSUME TypeOK, Locks, FrameAccount, Record, Chain, [Next]_vars, Calm'
  PROVE  Chain'
<1>0. /\ Queue(inner) /\ pending \in Seq(Frame) /\ slice \in Seq(Frame)
      /\ heard \in Seq(Frame) /\ rendered \in Nat
  BY TypesParted DEF Deep, Flat
<1>c. Calm /\ (Callback_EndRescue => pending = <<>>) /\ ~Callback_Rescue
  BY CalmBefore
<1>1. CASE BootPush
  <2>1. PICK n \in SliceLengths :
          /\ rendered' = rendered + n
          /\ inner' = PushSlice(PushSlice(inner, pending), Rendering(n))
    BY <1>1 DEF BootPush
  <2>2. n \in Nat
    BY Constants
  <2>3. /\ pending' = <<>> /\ UNCHANGED <<slice, heard, cpc, epc>> /\ epc = "boot"
        /\ cpc = "off" /\ slice = <<>>
    BY <1>1 DEF BootPush, cbVars, Locks, FrameAccount
  <2> DEFINE q == PushSlice(inner, pending)
             fs == Rendering(n)
             New == (rendered + 1)..(rendered + n)
  <2>4. Queue(q) /\ Rising(q.frames) /\ RangeOf(q.frames) \subseteq Queued \cup Deferred
    BY <2>3, FlushedRising
  <2>5. fs \in Seq(Frame) /\ Rising(fs) /\ RangeOf(fs) \subseteq New
    BY <1>0, <2>2, RenderingFrames, RenderingRising
  <2>6. Filled(inner', q, fs)
    BY <2>1, <2>4, <2>5, PushSliceEffect
  <2>7. Below(Heard \cup Transit, New)
    BY <1>0, <2>2, BelowNew DEF Chain
  <2>8. New \cup 1..rendered \subseteq 1..rendered'
    BY <1>0, <2>1, <2>2
  <2> HIDE DEF q, fs, New
  <2>9. Below(RangeOf(q.frames), RangeOf(fs))
    BY <2>4, <2>5, <2>7, BelowSmaller DEF Transit
  <2>10. Rising(inner'.frames) /\ Queued' \subseteq Queued \cup Deferred \cup New
    BY <2>4, <2>5, <2>6, <2>9, FilledRising DEF Queued
  <2>11. Below(Heard, Queued')
    BY <2>7, <2>10 DEF Below, Chain
  <2>12. Heard' = Heard /\ Deferred' = {} /\ InHand' = {} /\ Rising(pending') /\ Rising(slice')
    BY <2>3, EmptyRising DEF Heard, Deferred, InHand
  <2>13. Heard' \cup Transit' \subseteq 1..rendered'
    BY <2>8, <2>10, <2>12 DEF Transit, Chain
  <2> QED BY <2>3, <2>10, <2>11, <2>12, <2>13, BelowUnion DEF Chain
<1>2. CASE PrepareForPlayback
  <2> DEFINE q == PushSlice(inner, pending)
  <2>1. /\ inner' = Prepare(q, Prebuffer) /\ pending' = <<>> /\ epc' = "prime"
        /\ UNCHANGED <<slice, rendered, heard, cpc>> /\ cpc = "off" /\ slice = <<>>
    BY <1>2 DEF PrepareForPlayback, cbVars, Locks, FrameAccount
  <2>2. Queue(q) /\ Rising(q.frames) /\ RangeOf(q.frames) \subseteq Queued \cup Deferred
    BY <2>1, FlushedRising
  <2> HIDE DEF q
  <2>3. Queue(inner') /\ SuffixOf(inner'.frames, q.frames)
    BY <2>1, <2>2, Constants, PrepareEffect, ZenonT(40) DEF SuffixOf
  <2>4. Queued' \subseteq Queued \cup Deferred /\ Rising(inner'.frames)
    BY <2>2, <2>3, SuffixRange, SuffixRising, QueueNat DEF Queued
  <2>5. Heard' = Heard /\ Deferred' = {} /\ InHand' = {} /\ Rising(pending') /\ Rising(slice')
    BY <2>1, EmptyRising DEF Heard, Deferred, InHand
  <2>6. Below(Heard, Queued')
    BY <2>4 DEF Chain, Below
  <2>7. Heard' \cup Transit' \subseteq 1..rendered'
    BY <2>1, <2>4, <2>5 DEF Transit, Chain
  <2> QED BY <2>1, <2>4, <2>5, <2>6, <2>7, BelowUnion DEF Chain
<1>3. CASE PrimeOne \/ Callback_Pop
  <2>1. /\ inner' = Pop(inner) /\ heard' = Hearing(inner)
        /\ UNCHANGED <<slice, pending, rendered, cpc, epc>> /\ cpc # "rescue"
    BY <1>3 DEF PrimeOne, Callback_Pop, emuVars, Locks
  <2>2. Deferred' = Deferred /\ InHand' = InHand /\ Rising(pending') /\ Rising(slice')
    BY <2>1 DEF Deferred, InHand, Chain
  <2>3. CASE inner'.frames = inner.frames /\ heard' = heard
    BY <2>1, <2>3 DEF Chain, Heard, Deferred, InHand, Queued, Transit
  <2>4. CASE \E f \in Queued : /\ Rising(inner'.frames) /\ Queued' \subseteq Queued
                               /\ Below({f}, Queued') /\ heard' = Append(heard, f)
    <3>1. PICK f \in Queued : /\ Rising(inner'.frames) /\ Queued' \subseteq Queued
                              /\ Below({f}, Queued') /\ heard' = Append(heard, f)
      BY <2>4
    <3>2. f \in Frame /\ f \in 1..rendered
      BY <1>0 DEF Chain, Transit, Frame
    <3>3. Below(Heard, {f}) /\ Below({f}, Deferred) /\ Below({f}, InHand)
      BY <2>1 DEF Chain, Below
    <3>4. Rising(heard') /\ Heard' \subseteq Heard \cup {f}
      BY <1>0, <3>1, <3>2, <3>3, AppendRising DEF Chain, Heard
    <3>5. Below(Heard \cup {f}, Queued') /\ Below(Heard \cup {f}, Deferred)
          /\ Below(Heard \cup {f}, InHand)
      BY <3>1, <3>3 DEF Chain, Below
    <3>6. Below(Heard', Queued') /\ Below(Heard', Deferred') /\ Below(Heard', InHand')
      BY <2>2, <3>4, <3>5, BelowSmaller
    <3>7. Below(Queued', InHand') /\ Below(Queued', Deferred')
      BY <2>1, <2>2, <3>1 DEF Chain, Below
    <3>8. Heard' \cup Transit' \subseteq 1..rendered'
      BY <2>1, <2>2, <3>1, <3>2, <3>4 DEF Transit, Chain
    <3> QED BY <2>1, <2>2, <3>1, <3>4, <3>6, <3>7, <3>8 DEF Chain
  <2> QED BY <2>1, <2>3, <2>4, PopRising
<1>4. CASE Push_Begin
  <2>1. PICK n \in SliceLengths : slice' = Rendering(n) /\ rendered' = rendered + n
    BY <1>4 DEF Push_Begin
  <2>2. n \in Nat /\ UNCHANGED <<pending, inner, heard, cpc>> /\ epc' = "cache"
    BY <1>4, Constants DEF Push_Begin, cbVars
  <2> DEFINE New == (rendered + 1)..(rendered + n)
  <2>3. InHand' \subseteq New /\ Rising(slice')
    BY <1>0, <2>1, <2>2, RenderingRising DEF InHand
  <2>4. Below(Heard \cup Transit, New) /\ New \cup 1..rendered \subseteq 1..rendered'
    <3>1. Heard \cup Transit \subseteq 1..rendered
      BY DEF Chain
    <3>2. Below(Heard \cup Transit, New)
      BY <1>0, <2>2, <3>1, BelowNew
    <3>3. New \cup 1..rendered \subseteq 1..rendered'
      BY <1>0, <2>1, <2>2
    <3> QED BY <3>2, <3>3
  <2>5. Deferred' = Deferred /\ Queued' = Queued /\ Heard' = Heard
    BY <2>2 DEF Deferred, Queued, Heard
  <2> HIDE DEF New
  <2>6. Below(Heard', InHand') /\ Below(Queued', InHand') /\ Below(Deferred', InHand')
    BY <2>3, <2>4, <2>5, BelowSmaller DEF Transit
  <2>7. Heard' \cup Transit' \subseteq 1..rendered'
    BY <2>3, <2>4, <2>5 DEF Transit, Chain
  <2> QED BY <2>2, <2>3, <2>5, <2>6, <2>7 DEF Chain
<1>5. CASE Push_Flush \/ Callback_Flush
  <2>1. PICK t \in Threads : FlushOne(t)
    BY <1>5 DEF Push_Flush, Callback_Flush, Threads
  <2>2. UNCHANGED <<slice, rendered, heard, cpc, epc>> /\ cpc # "rescue" /\ epc # "store"
    BY <1>5 DEF Push_Flush, Callback_Flush, emuVars, cbVars, Locks, LockDiscipline
  <2> DEFINE f == Head(pending)
  <2>3. /\ pending # <<>> /\ pending' = Tail(pending) /\ inner' = Push(inner, f)
        /\ f \in Frame
    BY <1>0, <2>1, HeadTailProperties DEF FlushOne
  <2>4. f \in Deferred /\ Deferred' \subseteq Deferred /\ Rising(pending')
        /\ Below({f}, Deferred')
    BY <1>0, <2>3, TailRising DEF Deferred, Chain
  <2> HIDE DEF f
  <2>5. Queued' \subseteq Queued \cup {f} /\ Rising(inner'.frames)
    <3>1. Filled(inner', inner, <<f>>)
      BY <1>0, <2>3, PushEffect
    <3>2. RangeOf(<<f>>) = {f} /\ Rising(<<f>>) /\ <<f>> \in Seq(Frame)
      BY <2>3, SingleRange, SingleRising
    <3>3. Below(RangeOf(inner.frames), RangeOf(<<f>>)) /\ Rising(inner.frames)
      BY <2>2, <2>4, <3>2 DEF Chain, Queued, Below
    <3> QED BY <1>0, <3>1, <3>2, <3>3, FilledRising DEF Queued
  <2>6. InHand' = InHand /\ Heard' = Heard /\ Rising(slice') /\ Rising(heard')
    BY <2>2 DEF InHand, Heard, Chain
  <2>7. Below(Heard', Queued') /\ Below(Heard', Deferred')
    BY <2>4, <2>5, <2>6 DEF Chain, Below
  <2>8. Below(Queued', InHand') /\ Below(Deferred', InHand')
    BY <2>4, <2>5, <2>6 DEF Chain, Below
  <2>9. Below(Queued', Deferred')
    BY <2>2, <2>4, <2>5 DEF Chain, Below
  <2>10. Heard' \cup Transit' \subseteq 1..rendered'
    BY <2>2, <2>4, <2>5, <2>6 DEF Transit, Chain
  <2> QED BY <2>2, <2>4, <2>5, <2>6, <2>7, <2>8, <2>9, <2>10 DEF Chain
<1>6. CASE Push_Store
  <2>1. /\ inner' = PushSlice(inner, slice) /\ slice' = <<>> /\ epc = "store"
        /\ UNCHANGED <<pending, rendered, heard, cpc>> /\ epc' = "idle"
    BY <1>6 DEF Push_Store, cbVars
  <2>2. Queued' \subseteq Queued \cup InHand /\ Rising(inner'.frames)
    <3>1. Filled(inner', inner, slice)
      BY <1>0, <2>1, PushSliceEffect
    <3>2. Below(RangeOf(inner.frames), RangeOf(slice)) /\ Rising(inner.frames) /\ Rising(slice)
      BY DEF Chain, Queued, InHand
    <3> QED BY <1>0, <3>1, <3>2, FilledRising DEF Queued, InHand
  <2>3. InHand' = {} /\ Deferred' = Deferred /\ Heard' = Heard /\ Rising(slice')
    BY <2>1, EmptyRising DEF InHand, Deferred, Heard
  <2>4. Below(Heard', Queued')
    BY <2>2, <2>3 DEF Chain, Below
  <2>5. cpc' # "rescue" => Below(Queued', Deferred')
    <3>1. cpc' # "rescue" => pending = <<>>
      BY <2>1 DEF Chain
    <3>2. pending = <<>> => Deferred' = {}
      BY <2>3, EmptyRising DEF Deferred
    <3> QED BY <3>1, <3>2, BelowUnion
  <2>6. Heard' \cup Transit' \subseteq 1..rendered'
    BY <2>1, <2>2, <2>3 DEF Transit, Chain
  <2> QED BY <2>1, <2>2, <2>3, <2>4, <2>5, <2>6, BelowUnion DEF Chain
<1>7. CASE Push_TryDefer
  <2>1. /\ (slice' = slice \/ slice' = <<>>) /\ UNCHANGED <<inner, pending, rendered, heard, cpc>>
        /\ epc' # "store"
    BY <1>7 DEF Push_TryDefer, cbVars
  <2>2. InHand' \subseteq InHand /\ Rising(slice')
    BY <2>1, EmptyRising DEF InHand, Chain
  <2>3. Deferred' = Deferred /\ Queued' = Queued /\ Heard' = Heard
    BY <2>1 DEF Deferred, Queued, Heard
  <2>4. Below(Heard', InHand') /\ Below(Queued', InHand') /\ Below(Deferred', InHand')
    BY <2>2, <2>3, BelowSmaller DEF Chain
  <2>5. Heard' \cup Transit' \subseteq 1..rendered'
    BY <2>1, <2>2, <2>3 DEF Transit, Chain
  <2> QED BY <2>1, <2>2, <2>3, <2>4, <2>5 DEF Chain
<1>8. CASE Push_Defer
  <2> DEFINE retained == LastN(slice, DeferredMax)
             both == pending \o retained
  <2>1. /\ pending' = LastN(both, DeferredMax) /\ slice' = <<>> /\ epc' = "idle"
        /\ UNCHANGED <<inner, rendered, heard, cpc>>
    BY <1>8 DEF Push_Defer, cbVars
  <2>2. DeferredMax \in Nat /\ cpc # "rescue"
    BY <1>8, Constants DEF Locks, Push_Defer
  <2>3. /\ retained \in Seq(Frame) /\ RangeOf(retained) \subseteq InHand
        /\ Rising(retained)
    BY <1>0, <2>2, LastNRising DEF InHand, Chain
  <2> HIDE DEF retained
  <2>4. /\ both \in Seq(Frame) /\ RangeOf(both) \subseteq Deferred \cup InHand
        /\ Rising(both)
    <3>1. Below(RangeOf(pending), RangeOf(retained)) /\ Rising(pending)
      BY <2>3, BelowSmaller DEF Chain, Deferred
    <3> QED BY <1>0, <2>3, <3>1, ConcatRange, ConcatRising DEF Deferred
  <2> HIDE DEF both
  <2>5. Deferred' \subseteq Deferred \cup InHand /\ Rising(pending')
    BY <2>1, <2>2, <2>4, LastNRising DEF Deferred
  <2>6. InHand' = {} /\ Queued' = Queued /\ Heard' = Heard /\ Rising(slice')
    BY <2>1, EmptyRising DEF InHand, Queued, Heard
  <2>7. Below(Heard', Deferred') /\ Below(Queued', Deferred')
    BY <2>2, <2>5, <2>6 DEF Chain, Below
  <2>8. Heard' \cup Transit' \subseteq 1..rendered'
    BY <2>1, <2>5, <2>6 DEF Transit, Chain
  <2> QED BY <2>1, <2>5, <2>6, <2>7, <2>8, BelowUnion DEF Chain
<1>9. ASSUME UNCHANGED <<slice, pending, inner, rendered, heard>>,
             cpc # "rescue" \/ cpc' = cpc \/ pending = <<>>,
             epc' = "store" => pending = <<>> \/ cpc' = "rescue"
      PROVE  Chain'
  <2>1. /\ InHand' = InHand /\ Deferred' = Deferred /\ Queued' = Queued /\ Heard' = Heard
        /\ Transit' = Transit
    BY <1>9 DEF InHand, Deferred, Queued, Heard, Transit
  <2>2. cpc' # "rescue" => Below(Queued, Deferred)
    BY <1>9, EmptyRising, BelowUnion DEF Chain, Deferred
  <2> QED BY <1>9, <2>1, <2>2 DEF Chain
<1>10. CASE Push_TryFlush
  <2>1. epc' = "store" => cpc' = "rescue"
    BY <1>10 DEF Push_TryFlush, Locks, LockDiscipline, cbVars
  <2> QED BY <1>9, <1>10, <2>1 DEF Push_TryFlush, cbVars
<1>11. CASE Push_EndFlush
  <2>1. pending = <<>>
    <3>1. Len(pending) <= budget["emulator"]
      BY <1>11, <1>c DEF Push_EndFlush, Record, Calm
    <3>2. Len(pending) \in Nat /\ (Len(pending) = 0 => pending = <<>>)
      BY <1>0, LenProperties
    <3> QED BY <1>11, <3>1, <3>2 DEF Push_EndFlush, FlushOver
  <2> QED BY <1>9, <1>11, <2>1 DEF Push_EndFlush, cbVars
<1>12. CASE Callback_EndRescue
  BY <1>9, <1>12, <1>c DEF Callback_EndRescue, emuVars
<1>13. CASE \/ StartDevice \/ Push_Cache \/ Push_TryInner
            \/ Observe_TryInner \/ Observe_EndInner \/ Observe_TryPending
            \/ Observe_EndPending \/ UNCHANGED vars
  <2>1. /\ UNCHANGED <<slice, pending, inner, rendered, heard>>
        /\ cpc # "rescue" \/ cpc' = cpc
        /\ epc' = "store" => epc = "store" /\ cpc' = cpc
    BY <1>13 DEF vars, emuVars, cbVars, StartDevice, Push_Cache, Push_TryInner,
       Observe_TryInner,
       Observe_EndInner, Observe_TryPending, Observe_EndPending, Locks
  <2> QED BY <1>9, <2>1 DEF Chain
<1>14. CASE \/ Callback_Begin \/ Callback_TryInner \/ Callback_TryFlush \/ Callback_EndFlush
            \/ Callback_EndPop \/ Callback_TryRescue \/ Callback_Gap
  <2>1. /\ UNCHANGED <<slice, pending, inner, rendered, heard, epc>>
        /\ cpc # "rescue"
    BY <1>14 DEF emuVars, Callback_Begin, Callback_TryInner, Callback_TryFlush,
       Callback_EndFlush, Callback_EndPop, Callback_TryRescue, Callback_Gap
  <2>2. epc' = "store" => pending = <<>>
    BY <2>1 DEF Chain
  <2> QED BY <1>9, <2>1, <2>2
<1> QED
  BY <1>1, <1>2, <1>3, <1>4, <1>5, <1>6, <1>7, <1>8, <1>10, <1>11, <1>12, <1>13, <1>14, <1>c
  DEF Next, Emulator, Callback, Finished

\* While nothing was rescued and no more deferred than one push may flush, the
\* output hears the frames in the order the emulator rendered them.
THEOREM OrderKept == Spec => []OrderUnlessRescued
<1> DEFINE Ordered == Calm => Chain
<1>1. Init => Record /\ Ordered
  <2> SUFFICES ASSUME Init PROVE Record /\ Chain
    OBVIOUS
  <2>1. /\ inner.frames = <<>> /\ pending = <<>> /\ slice = <<>> /\ rendered = 0
        /\ heard = <<>> /\ epc = "boot" /\ cpc = "off" /\ deepest = 0 /\ rescued = 0
    BY DEF Init, NewQueue
  <2>2. InHand = {} /\ Deferred = {} /\ Queued = {} /\ Heard = {}
    BY <2>1, EmptyRange DEF InHand, Deferred, Queued, Heard
  <2>3. Len(pending) = 0
    BY <2>1
  <2>4. Record
    BY <2>1, <2>3 DEF Record
  <2>5. Chain
    BY <2>1, <2>2, EmptyRising, BelowUnion DEF Chain, Transit
  <2> QED BY <2>4, <2>5
<1>2. TypeOK /\ Locks /\ Accounts /\ Record /\ Ordered /\ [Next]_vars => Record' /\ Ordered'
  BY RecordStep, ChainStep, CalmBefore DEF Accounts
<1>3. TypeOK /\ Ordered => OrderUnlessRescued
  <2> SUFFICES ASSUME TypeOK, Calm, Chain
               PROVE  \A i \in 1..Len(heard) - 1 : heard[i] < heard[i + 1]
    BY DEF OrderUnlessRescued, Calm
  <2>1. Len(heard) \in Nat
    BY TypesParted, LenProperties DEF Deep
  <2>2. \A i \in 1..Len(heard) - 1 : i \in 1..Len(heard) /\ i + 1 \in 1..Len(heard) /\ i < i + 1
    BY <2>1
  <2> QED BY <2>2 DEF Chain, Rising
<1> HIDE DEF Ordered
<1> QED BY <1>1, <1>2, <1>3, TypeCorrect, LocksInvariant, AccountsInvariant, PTL DEF Spec
=============================================================================
