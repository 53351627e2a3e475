-------------------------- MODULE SharedStereoQueue --------------------------
(***************************************************************************)
(* The sound queue between its two threads (SharedStereoQueue in           *)
(* src/native/sound/queue.rs): the emulator thread renders audio, pushes   *)
(* it and reads statistics; the CoreAudio thread calls back for output.    *)
(* Both take the two mutexes with try_lock only, so whoever loses a race   *)
(* goes another way: the emulator defers its frames to the pending list,   *)
(* the callback plays from the pending list or conceals.                   *)
(*                                                                         *)
(* Start-up happens on the emulator thread before the callback exists:     *)
(* boot audio, prepare_for_playback, priming of the device buffers, start. *)
(***************************************************************************)
EXTENDS StereoQueue

CONSTANTS
  SliceLengths,     \* lengths of the rendered slices
  Prebuffer,        \* prebuffer of prepare_for_playback (16384 in the program)
  PrimeFrames,      \* frames popped to prime the device buffers (6 * 512)
  CallbackFrames,   \* frames of one device buffer (512)
  MissConcealment,  \* CALLBACK_MISS_CONCEALMENT_FRAMES (32)
  RescueMax,        \* CALLBACK_PENDING_RESCUE_MAX_FRAMES (1024)
  DeferredMax,      \* PRODUCER_DEFERRED_MAX_FRAMES (32768)
  FlushMax,         \* PRODUCER_PENDING_FLUSH_MAX_FRAMES (4096)
  FlushExtra,       \* REALTIME_PENDING_FLUSH_EXTRA_FRAMES (512)
  MaxRendered,      \* bound: frames rendered in a behaviour
  MaxCallbacks,     \* bound: callbacks while the emulator still renders
  DrainCallbacks,   \* bound: further callbacks to play out what is left then
  MaxObservations   \* bound: statistics reads in a behaviour

ASSUME SharedConstants ==
  /\ SliceLengths \subseteq Nat \ {0}
  /\ Prebuffer \in Nat /\ PrimeFrames \in Nat
  /\ CallbackFrames \in Nat \ {0}
  /\ MissConcealment \in Nat /\ RescueMax \in Nat \ {0}
  /\ DeferredMax \in Nat \ {0} /\ FlushMax \in Nat \ {0} /\ FlushExtra \in Nat
  /\ CallbackFrames <= FlushMax  \* the clamp in realtime_pending_flush_limit
  /\ MaxRendered \in Nat /\ MaxObservations \in Nat
  /\ MaxCallbacks \in Nat /\ DrainCallbacks \in Nat

VARIABLES
  inner,       \* the queue behind the `inner` mutex
  pending,     \* the frames behind the `producer_pending` mutex
  innerOwner,  \* who holds `inner`
  pendOwner,   \* who holds `producer_pending`
  epc,         \* where the emulator thread is
  cpc,         \* where the callback thread is
  slice,       \* the frames of the push in progress
  budget,      \* frames each thread may still flush in its critical section
  left,        \* frames the callback still has to write to its buffer
  rescued,     \* frames this callback took from the pending list
  cachedValid, \* callback_cached_sample_valid
  missRun,     \* callback_miss_run_frames
  stats,       \* the lock-free counters
  rendered,    \* history: frames rendered so far, named 1..rendered
  carried,     \* history: frames prepare_for_playback found and kept
  heard,       \* history: the frames output so far, in order
  deepest,     \* history: the longest the pending list has been
  callbacks,   \* history: callbacks begun
  observations \* history: statistics reads

emuVars == <<epc, slice, rendered, carried, deepest, observations>>
cbVars == <<cpc, left, rescued, missRun, heard, callbacks>>
vars == <<inner, pending, innerOwner, pendOwner, budget, cachedValid, stats,
          emuVars, cbVars>>

Threads == {"emulator", "callback"}
NoStats ==
  [pushed |-> 0, missFrames |-> 0, missEvents |-> 0, rescueFrames |-> 0,
   fallback |-> 0, silence |-> 0, producerMiss |-> 0, deferred |-> 0,
   deferredDropped |-> 0]
StatsType ==
  [pushed : Nat, missFrames : Nat, missEvents : Nat, rescueFrames : Nat,
   fallback : Nat, silence : Nat, producerMiss : Nat, deferred : Nat,
   deferredDropped : Nat]

EmuPc == {"boot", "prime", "idle", "cache", "tryInner", "tryFlush", "flush",
          "store", "defer", "deferring", "observe", "tryPending",
          "observePending"}
CbPc == {"off", "idle", "tryInner", "tryFlush", "flush", "pop", "tryRescue",
         "rescue", "gap"}

TypeOK ==
  /\ inner \in QueueType /\ Len(inner.frames) <= Capacity
  /\ pending \in Seq(Frame) /\ Len(pending) <= DeferredMax
  /\ innerOwner \in Threads \cup {"free"}
  /\ pendOwner \in Threads \cup {"free"}
  /\ epc \in EmuPc /\ cpc \in CbPc
  /\ slice \in Seq(Frame)
  /\ budget \in [Threads -> 0..FlushMax]
  /\ left \in 0..CallbackFrames
  /\ rescued \in 0..RescueMax
  /\ cachedValid \in BOOLEAN
  /\ missRun \in 0..MissConcealment
  /\ stats \in StatsType
  /\ rendered \in Nat /\ carried \in Nat
  /\ heard \in Seq(Frame)
  /\ deepest \in Nat /\ callbacks \in Nat /\ observations \in Nat

Init ==
  /\ inner = NewQueue
  /\ pending = <<>>
  /\ innerOwner = "free" /\ pendOwner = "free"
  /\ epc = "boot" /\ cpc = "off"
  /\ slice = <<>>
  /\ budget = [t \in Threads |-> 0]
  /\ left = 0 /\ rescued = 0
  /\ cachedValid = FALSE
  /\ missRun = 0
  /\ stats = NoStats
  /\ rendered = 0 /\ carried = 0
  /\ heard = <<>>
  /\ deepest = 0 /\ callbacks = 0 /\ observations = 0
-----------------------------------------------------------------------------
(***************************************************************************)
(* The emulator thread: start-up.                                          *)
(***************************************************************************)

Rendering(n) == [i \in 1..n |-> rendered + i]

\* Hidden boot: no other thread, so the push finds both mutexes free.
BootPush ==
  \E n \in SliceLengths :
    /\ epc = "boot"
    /\ rendered + n <= MaxRendered
    /\ rendered' = rendered + n
    /\ inner' = PushSlice(PushSlice(inner, pending), Rendering(n))
    /\ pending' = <<>>
    /\ stats' = [stats EXCEPT !.pushed = @ + n]
    /\ cachedValid' = TRUE
    /\ UNCHANGED <<innerOwner, pendOwner, budget, epc, slice, carried, deepest,
                   observations, cbVars>>

\* start_coreaudio: restart the lock-free push count, flush, prepare.
PrepareForPlayback ==
  /\ epc = "boot"
  /\ stats' = [stats EXCEPT !.pushed = 0]
  /\ inner' = Prepare(PushSlice(inner, pending), Prebuffer)
  /\ pending' = <<>>
  /\ carried' = Len(inner'.frames)
  /\ cachedValid' = inner'.lastValid
  /\ epc' = "prime"
  /\ UNCHANGED <<innerOwner, pendOwner, budget, slice, rendered, deepest,
                 observations, cbVars>>

\* What the output hears when q is popped once.
Hearing(q) == IF TakesFrame(q) THEN Append(heard, Head(q.frames)) ELSE heard

\* CoreAudioOutput::start fills the device buffers before the device runs.
PrimeOne ==
  /\ epc = "prime"
  /\ inner.output < PrimeFrames
  /\ inner' = Pop(inner)
  /\ heard' = Hearing(inner)
  /\ cachedValid' = (cachedValid \/ inner'.lastValid)
  /\ UNCHANGED <<pending, innerOwner, pendOwner, budget, stats, emuVars, cpc,
                 left, rescued, missRun, callbacks>>

StartDevice ==
  /\ epc = "prime"
  /\ inner.output >= PrimeFrames
  /\ epc' = "idle"
  /\ cpc' = "idle"
  /\ UNCHANGED <<inner, pending, innerOwner, pendOwner, budget, cachedValid,
                 stats, slice, rendered, carried, deepest, observations, left, rescued,
                 missRun, heard, callbacks>>
-----------------------------------------------------------------------------
(***************************************************************************)
(* The emulator thread: pushing.                                           *)
(***************************************************************************)

\* push_slice first counts the frames...
Push_Begin ==
  /\ epc = "idle"
  /\ \E n \in SliceLengths :
       /\ rendered + n <= MaxRendered
       /\ slice' = Rendering(n)
       /\ rendered' = rendered + n
       /\ stats' = [stats EXCEPT !.pushed = @ + n]
  /\ epc' = "cache"
  /\ UNCHANGED <<inner, pending, innerOwner, pendOwner, budget, cachedValid,
                 carried, deepest, observations, cbVars>>

\* Variant: the newest sample is not cached before the try_lock.
Push_CacheNothing ==
  /\ epc = "cache"
  /\ epc' = "tryInner"
  /\ UNCHANGED <<inner, pending, innerOwner, pendOwner, budget, cachedValid,
                 stats, slice, rendered, carried, deepest, observations, cbVars>>

\* ...then caches the newest one for a callback that loses the race: the callback
\* may reach its gap between the two.
Push_Cache ==
  /\ epc = "cache"
  /\ cachedValid' = TRUE
  /\ epc' = "tryInner"
  /\ UNCHANGED <<inner, pending, innerOwner, pendOwner, budget, stats, slice,
                 rendered, carried, deepest, observations, cbVars>>

Push_TryInner ==
  /\ epc = "tryInner"
  /\ IF innerOwner = "free"
     THEN innerOwner' = "emulator" /\ epc' = "tryFlush"
     ELSE epc' = "defer" /\ UNCHANGED innerOwner
  /\ UNCHANGED <<inner, pending, pendOwner, budget, cachedValid, stats, slice,
                 rendered, carried, deepest, observations, cbVars>>

\* Variant: the push never flushes what was deferred before it.
Push_TryFlushNever ==
  /\ epc = "tryFlush"
  /\ epc' = "store"
  /\ UNCHANGED <<inner, pending, innerOwner, pendOwner, budget, cachedValid,
                 stats, slice, rendered, carried, deepest, observations, cbVars>>

\* flush_pending_into_limited: skipped when the pending list is busy.
Push_TryFlush ==
  /\ epc = "tryFlush"
  /\ IF pendOwner = "free"
     THEN /\ pendOwner' = "emulator"
          /\ budget' = [budget EXCEPT !["emulator"] = FlushMax]
          /\ epc' = "flush"
     ELSE epc' = "store" /\ UNCHANGED <<pendOwner, budget>>
  /\ UNCHANGED <<inner, pending, innerOwner, cachedValid, stats, slice,
                 rendered, carried, deepest, observations, cbVars>>

\* One iteration of the flush loop, by the thread that holds both mutexes.
FlushOne(t) ==
  /\ pending # <<>>
  /\ budget[t] > 0
  /\ inner' = Push(inner, Head(pending))
  /\ pending' = Tail(pending)
  /\ budget' = [budget EXCEPT ![t] = @ - 1]

FlushOver(t) == pending = <<>> \/ budget[t] = 0

Push_Flush ==
  /\ epc = "flush"
  /\ FlushOne("emulator")
  /\ UNCHANGED <<innerOwner, pendOwner, cachedValid, stats, emuVars, cbVars>>

Push_EndFlush ==
  /\ epc = "flush"
  /\ FlushOver("emulator")
  /\ pendOwner' = "free"
  /\ epc' = "store"
  /\ UNCHANGED <<inner, pending, innerOwner, budget, cachedValid, stats, slice,
                 rendered, carried, deepest, observations, cbVars>>

Push_Store ==
  /\ epc = "store"
  /\ inner' = PushSlice(inner, slice)
  /\ slice' = <<>>
  /\ innerOwner' = "free"
  /\ epc' = "idle"
  /\ UNCHANGED <<pending, pendOwner, budget, cachedValid, stats, rendered,
                 carried, deepest, observations, cbVars>>

\* Variant: a slice is deferred onto an empty pending list only, else lost.
Push_TryDeferOnce ==
  /\ epc = "defer"
  /\ IF pendOwner = "free" /\ pending = <<>>
     THEN /\ pendOwner' = "emulator"
          /\ epc' = "deferring"
          /\ UNCHANGED <<slice, stats>>
     ELSE /\ stats' = [stats EXCEPT !.producerMiss = @ + Len(slice)]
          /\ slice' = <<>>
          /\ epc' = "idle"
          /\ UNCHANGED pendOwner
  /\ UNCHANGED <<inner, pending, innerOwner, budget, cachedValid, rendered,
                 carried, deepest, observations, cbVars>>

\* defer_producer_frames: with the pending list busy too, the slice is lost.
Push_TryDefer ==
  /\ epc = "defer"
  /\ IF pendOwner = "free"
     THEN /\ pendOwner' = "emulator"
          /\ epc' = "deferring"
          /\ UNCHANGED <<slice, stats>>
     ELSE /\ stats' = [stats EXCEPT !.producerMiss = @ + Len(slice)]
          /\ slice' = <<>>
          /\ epc' = "idle"
          /\ UNCHANGED pendOwner
  /\ UNCHANGED <<inner, pending, innerOwner, budget, cachedValid, rendered,
                 carried, deepest, observations, cbVars>>

\* Variant: the pending list is not bounded.
Push_DeferUnbounded ==
  /\ epc = "deferring"
  /\ pending' = pending \o slice
  /\ deepest' = Greatest(deepest, Len(pending'))
  /\ stats' = [stats EXCEPT !.deferred = @ + Len(slice)]
  /\ slice' = <<>>
  /\ pendOwner' = "free"
  /\ epc' = "idle"
  /\ UNCHANGED <<inner, innerOwner, budget, cachedValid, rendered, carried,
                 observations, cbVars>>

\* The pending list keeps the newest DeferredMax frames: what the slice itself
\* overflows is a miss, the older frames it displaces are dropped deferrals.
Push_Defer ==
  /\ epc = "deferring"
  /\ LET retained == LastN(slice, DeferredMax)
         kept == LastN(pending \o retained, DeferredMax) IN
     /\ pending' = kept
     /\ deepest' = Greatest(deepest, Len(kept))
     /\ stats' = [stats EXCEPT
          !.producerMiss = @ + (Len(slice) - Len(retained)),
          !.deferred = @ + Len(retained),
          !.deferredDropped = @ + (Len(pending) + Len(retained) - Len(kept))]
  /\ slice' = <<>>
  /\ pendOwner' = "free"
  /\ epc' = "idle"
  /\ UNCHANGED <<inner, innerOwner, budget, cachedValid, rendered, carried,
                 observations, cbVars>>
-----------------------------------------------------------------------------
(***************************************************************************)
(* The emulator thread: stats(), queued_frames(), snapshot_latest_frames() *)
(* hold `inner` while they copy; stats() then holds the pending list.      *)
(***************************************************************************)

Observe_TryInner ==
  /\ epc = "idle"
  /\ observations < MaxObservations
  /\ observations' = observations + 1
  /\ IF innerOwner = "free"
     THEN innerOwner' = "emulator" /\ epc' = "observe"
     ELSE epc' \in {"tryPending", "idle"} /\ UNCHANGED innerOwner
  /\ UNCHANGED <<inner, pending, pendOwner, budget, cachedValid, stats, slice,
                 rendered, carried, deepest, cbVars>>

Observe_EndInner ==
  /\ epc = "observe"
  /\ innerOwner' = "free"
  /\ epc' \in {"tryPending", "idle"}  \* only stats() reads the pending list
  /\ UNCHANGED <<inner, pending, pendOwner, budget, cachedValid, stats, slice,
                 rendered, carried, deepest, observations, cbVars>>

Observe_TryPending ==
  /\ epc = "tryPending"
  /\ IF pendOwner = "free"
     THEN pendOwner' = "emulator" /\ epc' = "observePending"
     ELSE epc' = "idle" /\ UNCHANGED pendOwner
  /\ UNCHANGED <<inner, pending, innerOwner, budget, cachedValid, stats, slice,
                 rendered, carried, deepest, observations, cbVars>>

Observe_EndPending ==
  /\ epc = "observePending"
  /\ pendOwner' = "free"
  /\ epc' = "idle"
  /\ UNCHANGED <<inner, pending, innerOwner, budget, cachedValid, stats, slice,
                 rendered, carried, deepest, observations, cbVars>>
-----------------------------------------------------------------------------
(***************************************************************************)
(* The callback thread: pop_interleaved_i16_realtime.                      *)
(***************************************************************************)

\* The emulator has rendered its last frame and is between operations.
EmulatorDone == epc = "idle" /\ \A n \in SliceLengths : rendered + n > MaxRendered

\* The device asks for a buffer.  (Bounds: MaxCallbacks, and DrainCallbacks more
\* while audio is queued after the emulator is done.)
Callback_Begin ==
  /\ cpc = "idle"
  /\ \/ callbacks < MaxCallbacks
     \/ /\ EmulatorDone /\ (pending # <<>> \/ inner.frames # <<>>)
        /\ callbacks < MaxCallbacks + DrainCallbacks
  /\ callbacks' = callbacks + 1
  /\ left' = CallbackFrames
  /\ rescued' = 0
  /\ cpc' = "tryInner"
  /\ UNCHANGED <<inner, pending, innerOwner, pendOwner, budget, cachedValid,
                 stats, emuVars, missRun, heard>>

\* Mutex won: the miss run ends.  Mutex lost: count the miss.
Callback_TryInner ==
  /\ cpc = "tryInner"
  /\ \/ /\ innerOwner = "free"
        /\ innerOwner' = "callback"
        /\ missRun' = 0
        /\ cpc' = "tryFlush"
        /\ UNCHANGED stats
     \/ /\ innerOwner # "free"
        /\ stats' = [stats EXCEPT !.missFrames = @ + left, !.missEvents = @ + 1]
        /\ cpc' = "tryRescue"
        /\ UNCHANGED <<innerOwner, missRun>>
  /\ UNCHANGED <<inner, pending, pendOwner, budget, cachedValid, emuVars, left,
                 rescued, heard, callbacks>>

\* Variant: the callback may not flush at all.
RealtimeFlushNothing == 0

\* realtime_pending_flush_limit.
RealtimeFlushLimit == Clamp(CallbackFrames + FlushExtra, CallbackFrames, FlushMax)

Callback_TryFlush ==
  /\ cpc = "tryFlush"
  /\ IF pendOwner = "free"
     THEN /\ pendOwner' = "callback"
          /\ budget' = [budget EXCEPT !["callback"] = RealtimeFlushLimit]
          /\ cpc' = "flush"
     ELSE cpc' = "pop" /\ UNCHANGED <<pendOwner, budget>>
  /\ UNCHANGED <<inner, pending, innerOwner, cachedValid, stats, emuVars, left,
                 rescued, missRun, heard, callbacks>>

Callback_Flush ==
  /\ cpc = "flush"
  /\ FlushOne("callback")
  /\ UNCHANGED <<innerOwner, pendOwner, cachedValid, stats, emuVars, cbVars>>

Callback_EndFlush ==
  /\ cpc = "flush"
  /\ FlushOver("callback")
  /\ pendOwner' = "free"
  /\ cpc' = "pop"
  /\ UNCHANGED <<inner, pending, innerOwner, budget, cachedValid, stats, emuVars,
                 left, rescued, missRun, heard, callbacks>>

Callback_Pop ==
  /\ cpc = "pop"
  /\ left > 0
  /\ inner' = Pop(inner)
  /\ heard' = Hearing(inner)
  /\ left' = left - 1
  /\ UNCHANGED <<pending, innerOwner, pendOwner, budget, cachedValid, stats,
                 emuVars, cpc, rescued, missRun, callbacks>>

Callback_EndPop ==
  /\ cpc = "pop"
  /\ left = 0
  /\ cachedValid' = (cachedValid \/ inner.lastValid)
  /\ innerOwner' = "free"
  /\ cpc' = "idle"
  /\ UNCHANGED <<inner, pending, pendOwner, budget, stats, emuVars, left,
                 rescued, missRun, heard, callbacks>>

\* fill_from_pending_producer: play deferred frames although the older frames
\* of the queue cannot be reached.
Callback_TryRescue ==
  /\ cpc = "tryRescue"
  /\ IF pendOwner = "free"
     THEN pendOwner' = "callback" /\ cpc' = "rescue"
     ELSE cpc' = "gap" /\ UNCHANGED pendOwner
  /\ UNCHANGED <<inner, pending, innerOwner, budget, cachedValid, stats, emuVars,
                 left, rescued, missRun, heard, callbacks>>

\* Variant: the rescued frame stays in the pending list.
Callback_RescueCopy ==
  /\ cpc = "rescue"
  /\ left > 0 /\ rescued < RescueMax /\ pending # <<>>
  /\ heard' = Append(heard, Head(pending))
  /\ left' = left - 1
  /\ rescued' = rescued + 1
  /\ UNCHANGED <<inner, pending, innerOwner, pendOwner, budget, cachedValid,
                 stats, emuVars, cpc, missRun, callbacks>>


Callback_Rescue ==
  /\ cpc = "rescue"
  /\ left > 0 /\ rescued < RescueMax /\ pending # <<>>
  /\ heard' = Append(heard, Head(pending))
  /\ pending' = Tail(pending)
  /\ left' = left - 1
  /\ rescued' = rescued + 1
  /\ UNCHANGED <<inner, innerOwner, pendOwner, budget, cachedValid, stats,
                 emuVars, cpc, missRun, callbacks>>

\* Variant: a rescue that fills the buffer returns before it is counted.
Callback_EndRescueEarly ==
  /\ cpc = "rescue"
  /\ left = 0 \/ rescued = RescueMax \/ pending = <<>>
  /\ stats' = IF left = 0 THEN stats ELSE [stats EXCEPT !.rescueFrames = @ + rescued]
  /\ missRun' = IF rescued > 0 THEN 0 ELSE missRun
  /\ cachedValid' = (cachedValid \/ rescued > 0)
  /\ pendOwner' = "free"
  /\ cpc' = IF left = 0 THEN "idle" ELSE "gap"
  /\ UNCHANGED <<inner, pending, innerOwner, budget, emuVars, left, rescued,
                 heard, callbacks>>


Callback_EndRescue ==
  /\ cpc = "rescue"
  /\ left = 0 \/ rescued = RescueMax \/ pending = <<>>
  /\ stats' = [stats EXCEPT !.rescueFrames = @ + rescued]
  /\ missRun' = IF rescued > 0 THEN 0 ELSE missRun
  /\ cachedValid' = (cachedValid \/ rescued > 0)
  /\ pendOwner' = "free"
  /\ cpc' = IF left = 0 THEN "idle" ELSE "gap"
  /\ UNCHANGED <<inner, pending, innerOwner, budget, emuVars, left, rescued,
                 heard, callbacks>>

\* Variant: the whole gap is counted as silence although part of it faded.
Callback_GapAllSilent ==
  /\ cpc = "gap"
  /\ LET faded == IF cachedValid THEN Least(left, MissConcealment - missRun)
                  ELSE 0 IN
     stats' = [stats EXCEPT !.fallback = @ + faded, !.silence = @ + left]
  /\ missRun' = IF cachedValid THEN Least(missRun + left, MissConcealment)
                ELSE missRun
  /\ left' = 0
  /\ cpc' = "idle"
  /\ UNCHANGED <<inner, pending, innerOwner, pendOwner, budget, cachedValid,
                 emuVars, rescued, heard, callbacks>>

\* fill_callback_gap: fade the cached sample out over what is left of the miss
\* run's allowance, then silence.
Callback_Gap ==
  /\ cpc = "gap"
  /\ LET faded == IF cachedValid THEN Least(left, MissConcealment - missRun)
                  ELSE 0 IN
     stats' = [stats EXCEPT !.fallback = @ + faded,
                            !.silence = @ + (left - faded)]
  /\ missRun' = IF cachedValid THEN Least(missRun + left, MissConcealment)
                ELSE missRun
  /\ left' = 0
  /\ cpc' = "idle"
  /\ UNCHANGED <<inner, pending, innerOwner, pendOwner, budget, cachedValid,
                 emuVars, rescued, heard, callbacks>>
-----------------------------------------------------------------------------
Emulator ==
  \/ BootPush \/ PrepareForPlayback \/ PrimeOne \/ StartDevice
  \/ Push_Begin \/ Push_Cache \/ Push_TryInner \/ Push_TryFlush
  \/ Push_Flush \/ Push_EndFlush \/ Push_Store \/ Push_TryDefer \/ Push_Defer
  \/ Observe_TryInner \/ Observe_EndInner \/ Observe_TryPending
  \/ Observe_EndPending

Callback ==
  \/ Callback_Begin \/ Callback_TryInner \/ Callback_TryFlush
  \/ Callback_Flush \/ Callback_EndFlush \/ Callback_Pop \/ Callback_EndPop
  \/ Callback_TryRescue \/ Callback_Rescue \/ Callback_EndRescue
  \/ Callback_Gap

\* The bounds are used up and everything has been played.
Finished ==
  /\ EmulatorDone /\ cpc = "idle"
  /\ callbacks >= MaxCallbacks
  /\ pending = <<>> /\ inner.frames = <<>>
  /\ UNCHANGED vars

Next == Emulator \/ Callback \/ Finished

Spec == Init /\ [][Next]_vars

\* The operating system schedules both threads, and the device keeps asking for
\* buffers while it runs.
FairSpec == Spec /\ WF_vars(Emulator) /\ WF_vars(Callback)
-----------------------------------------------------------------------------
(***************************************************************************)
(* Properties.                                                             *)
(***************************************************************************)

RangeOf(s) == {s[i] : i \in DOMAIN s}

\* The two mutexes are held exactly by the thread whose program counter is in
\* the critical section: no path forgets to release or enters without a lock.
LockDiscipline ==
  /\ innerOwner = "emulator" <=> epc \in {"tryFlush", "flush", "store", "observe"}
  /\ innerOwner = "callback" <=> cpc \in {"tryFlush", "flush", "pop"}
  /\ pendOwner = "emulator" <=> epc \in {"flush", "deferring", "observePending"}
  /\ pendOwner = "callback" <=> cpc \in {"flush", "rescue"}

\* The lock-free push counter always equals where the frames went: into the
\* queue, the pending list, the output by rescue, the producer's own hand, or
\* one of the two loss counters.  Frames in transit between the two mutexes are
\* never counted twice or not at all.
FrameConservation ==
  epc \notin {"boot"} =>
    stats.pushed = inner.pushed + Len(pending) + Len(slice) + stats.producerMiss
                   + stats.deferredDropped + stats.rescueFrames
                   + (IF cpc = "rescue" THEN rescued ELSE 0)

\* The queue's own account, while pushes, flushes and pops of two threads
\* interleave.
QueueConservation ==
  carried + inner.pushed = inner.popped + inner.dropped + Len(inner.frames)

\* The frames of a slice that is counted as pushed before its sample is cached.
Uncached == IF epc = "cache" THEN Len(slice) ELSE 0

\* Each frame the device missed is made up for exactly once: by a rescued frame,
\* a faded repeat or silence (the health report divides by these).  A callback
\* that loses the race has a sample to fade, unless no audio was rendered before,
\* or none but a first slice that is counted and about to be cached: the emulator
\* caches a sample before it takes the mutex.
MissAccounting ==
  /\ stats.missFrames = stats.rescueFrames + stats.fallback + stats.silence
       + (IF cpc \in {"tryRescue", "rescue", "gap"} THEN left ELSE 0)
       + (IF cpc = "rescue" THEN rescued ELSE 0)
  /\ cpc = "gap" => cachedValid \/ (stats.pushed = Uncached /\ carried = 0)

\* A whole slice is lost only while the callback holds both mutexes to flush.
LossOnlyDuringFlush ==
  [][stats'.producerMiss > stats.producerMiss =>
       \/ Len(slice) > DeferredMax
       \/ innerOwner = "callback" /\ pendOwner = "callback"]_vars

\* Audio is heard in the order it was rendered unless a callback had to rescue
\* deferred frames or more was deferred than one push may flush.
OrderUnlessRescued ==
  (stats.rescueFrames = 0 /\ rescued = 0 /\ deepest <= FlushMax)
    => \A i \in 1..Len(heard) - 1 : heard[i] < heard[i + 1]

\* Once the emulator stops rendering, everything not lost is played out.
PlayedOut == <>[](pending = <<>> /\ inner.frames = <<>> /\ slice = <<>>)

\* Refinement: frames are in transit while in the producer's hand, in the
\* pending list or in the queue.
Stream == INSTANCE LossyStream WITH
  sent <- rendered,
  transit <- RangeOf(slice) \cup RangeOf(pending) \cup RangeOf(inner.frames)

\* The shared queue implements the lossy stream: no interleaving duplicates a
\* frame or brings a lost one back.
ImplementsStream == Stream!Spec
=============================================================================
