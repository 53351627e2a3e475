-------------------------- MODULE BoundedStereoQueue --------------------------
(***************************************************************************)
(* The sound queue on its own: every public operation, in any order, by    *)
(* one caller (BoundedStereoQueue in src/native/sound/queue.rs).           *)
(***************************************************************************)
EXTENDS StereoQueue

CONSTANTS
  Prebuffers,   \* the prebuffer lengths prepare_for_playback is called with
  PushLengths,  \* the lengths of the slices handed to push_slice
  MaxFrames,    \* bound: frames rendered in a behaviour
  MaxOutput     \* bound: frames output since playback was last prepared

ASSUME CallerConstants ==
  /\ Prebuffers \subseteq Nat
  /\ PushLengths \subseteq Nat
  /\ MaxFrames \in Nat /\ MaxOutput \in Nat

VARIABLES
  queue,     \* the queue
  produced,  \* history: frames rendered so far, named 1..rendered
  held,      \* history: frames the last Prepare found queued and kept
  lastHeard, \* history: the last frame taken out of the queue
  emitted    \* history: what the last output frame was

queueVars == <<queue, produced, held, lastHeard, emitted>>

Kinds == {"none", "frame", "stretch", "conceal", "silence"}

QueueTypeOK ==
  /\ queue \in QueueType
  /\ Len(queue.frames) <= Capacity
  /\ produced \in Nat
  /\ held \in Nat
  /\ lastHeard \in Nat
  /\ emitted \in Kinds

QueueInit ==
  /\ queue = NewQueue
  /\ produced = 0
  /\ held = 0
  /\ lastHeard = 0
  /\ emitted = "none"

\* The next n frames the sound board renders.
Produced(n) == [i \in 1..n |-> produced + i]

PushOne ==
  /\ produced + 1 <= MaxFrames
  /\ queue' = Push(queue, produced + 1)
  /\ produced' = produced + 1
  /\ UNCHANGED <<held, lastHeard, emitted>>

PushMany ==
  \E n \in PushLengths :
    /\ produced + n <= MaxFrames
    /\ queue' = PushSlice(queue, Produced(n))
    /\ produced' = produced + n
    /\ UNCHANGED <<held, lastHeard, emitted>>

PrepareQueue ==
  \E prebuffer \in Prebuffers :
    /\ queue' = Prepare(queue, prebuffer)
    /\ held' = Len(queue'.frames)
    /\ UNCHANGED <<produced, lastHeard, emitted>>

\* What the pop that turns q into p hands to the output.
Emission(p) ==
  IF p.popped = queue.popped + 1 THEN "frame"
  ELSE IF p.repeated = queue.repeated + 1 THEN "stretch"
  ELSE IF p.concealed = queue.concealed + 1 THEN "conceal"
  ELSE "silence"

Popping(p) ==
  /\ queue.output < MaxOutput
  /\ queue' = p
  /\ lastHeard' = IF p.popped = queue.popped + 1 THEN Head(queue.frames) ELSE lastHeard
  /\ emitted' = Emission(p)
  /\ UNCHANGED <<produced, held>>

PopForPlayback == Popping(Pop(queue))

PopPlain == Popping(PopOrSilence(queue))

QueueNext ==
  \/ PushOne
  \/ PushMany
  \/ PrepareQueue
  \/ PopForPlayback
  \/ PopPlain

QueueSpec == QueueInit /\ [][QueueNext]_queueVars
-----------------------------------------------------------------------------
(***************************************************************************)
(* Properties.                                                             *)
(***************************************************************************)

\* Every frame that entered since playback was prepared, or was kept then, is
\* accounted for exactly once: taken out, dropped as too old, or still queued.
Conservation ==
  held + queue.pushed = queue.popped + queue.dropped + Len(queue.frames)

\* Dropping the oldest never punches a hole: the queue holds consecutive frames
\* up to the newest rendered one, all of them later than anything heard before.
Contiguous ==
  /\ \A i \in 1..Len(queue.frames) : queue.frames[i] = produced - Len(queue.frames) + i
  /\ lastHeard + Len(queue.frames) <= produced

\* Adaptive stretching never makes up more than a third of what was output,
\* whatever mixture of refills, starvation and plain pops precedes it.
StretchWithinThird == 3 * queue.repeated <= queue.output

\* One starvation event per empty spell: there is at most one more event than
\* real frames taken, and no more than those while frames are queued unless
\* the next one taken makes up for it.
StarvationPerSpell ==
  queue.starvation <= queue.popped + (IF queue.starved \/ queue.frames # <<>> THEN 1 ELSE 0)

\* No rate the controller picks, in any order of refills and drains, repeats
\* twice in a row: at least every second output from a filled queue is real.
NoDoubleStretch ==
  [][~(emitted = "stretch" /\ queue'.repeated = queue.repeated + 1)]_queueVars

\* Concealment is paid for with audio: each fade of MaxConcealment frames beyond
\* the first needs a refill to the critical watermark that was then played, so
\* trickles of frames below the watermark never keep a fade alive.
ConcealmentPaidFor ==
  LET refill == Greatest(queue.critical, 1) IN
  queue.concealed * refill <= MaxConcealment * (queue.popped + refill)
=============================================================================
