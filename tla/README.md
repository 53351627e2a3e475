# BloodyRoar2-rust: specifications and proofs

TLA+ modules for the concurrent and stateful parts of `bloodyroar2-gym`, checked
with TLC, with proofs checked by TLAPS. `PROJECT.json` maps every definition to
the lines it models and lists runs, mutants, hazards, findings and theorems.
Line numbers below are those of the repository under `src/`.

## 1. Inventory

| Part | State | Operations | Talks to | What makes it correct |
|---|---|---|---|---|
| Bounded PCM queue (`native/sound/queue.rs`, `BoundedStereoQueue`) | frames, watermarks, playout phase, stretch and concealment runs, counters | push, push_slice, prepare_for_playback, pop_interleaved_i16, pop_or_silence | owned by the shared queue | no frame lost or repeated uncounted; bounded interpolation and concealment; one starvation event per empty spell |
| Shared queue (same file, `SharedStereoQueue`) | two mutexes (queue, pending list), atomics | push_slice, prepare, prime, pop for the callback, stats | emulator thread and CoreAudio thread, `try_lock` only | frame conservation across threads, miss accounting, order, everything is eventually played |
| CoreAudio output (`native/sound/coreaudio.rs`, `health.rs`) | device queue, buffers, `running`, `realtime_started`, gauges | start, callback, drop, report | shared queue, operating system | no callback after the state is freed; a broken chain of buffers is reported |
| Sound board (`ps9805.rs`, `ymf271.rs`, `spu_adpcm.rs`) | command latch, batched and pending cycles, two remainders, synthesis state | latch writes, ticks, quanta, catch-up | guest bus, shared queue | commands in order, no time lost or made |
| ROM cache (`native/romset.rs`) | directories and marker files on disk | scan_cached_with_report, prepare, LATEST_ROM_DIR | every command line process | no run works on a partial set; stops leave a usable cache |
| Gym environment (`env.rs`, `native/backend.rs`) | last observation, screenshot flag, episode frame, requires_reset, health | reset, reset_match, step, step_sequence, observe | HTTP and MCP servers, emulator | full frame counts or an error, rewards that telescope |
| HTTP server (`server.rs`, `moves.rs`) | one environment behind a mutex | one thread per connection | environment | a request is one atomic step of the environment |
| MCP server (`mcp.rs`) | environment created on first use | stdio loop | environment | as above, one client |
| Enter sequencer and poll loop (`main.rs`, with credits in `native/bus.rs`, `native/cpu.rs`) | phase, attempts, credit_ready, key sample | poll, slice, frame | keyboard (minifb, Quartz), guest | one press, one sequence; coins only without a credit; Start only on one; it ends |
| Way of the input (`main.rs`, `native/bus.rs`, `native/io.rs`) | `NativeInputLatch`, the guest's buttons, MCU and pad transfers | poll, frame, select lines, serial bytes | keyboard, guest | a short press reaches the guest, packets are whole |
| Rest of the window (`main.rs`) | capture worker and its channel, scripts | present, capture, probes | threads, files | a good end has every capture; the session ends |
| Emulation (`cpu.rs`, `bus.rs`, `io.rs`, `framebuffer.rs`, `emulator.rs`, `platform.rs`, `playable.rs`) | the guest machine | step | everything | equality with hardware |
| Launchers (`zinc.rs`, `mame.rs`), scripts, example client | none of their own | run external programs | | |

What is hard here:

* **Interleaving.** The two audio threads never block on each other; whoever
  loses a `try_lock` takes another path. Between an atomic counter and the mutex
  that decides where frames go, between the two mutexes of a flush, and inside a
  rescue, the other thread may run.
* **Crash and replacement on disk.** The cache is shared by processes that know
  nothing of each other and may be killed at any call.
* **Requests and shared state.** The screenshot flag, the selected characters and
  the episode belong to all clients of one environment; sequences may break off.
* **Sampled input against asynchronous feedback.** The sequencer learns what the
  guest accepted only at its polls, and of the key only what a sample saw. The guest reads
  its controls rarely and byte by byte, while the loop goes on changing them.
* **Threads that end.** A callback of the operating system may run until its queue is
  disposed of; a capture worker may stop at any write while captures are queued.
* **Arithmetic with remainders.** Two fractions are carried through batches, clamps and
  catch-up in the sound board.

`PROJECT.json` lists each hazard with its line and the properties aimed at it.

## 2. Modules

```
StereoQueue            operators on one queue record
 +- BoundedStereoQueue          the queue alone           -> MCBoundedStereoQueue
 |   +- BoundedStereoQueue_proofs                            (TLAPS)
 +- SharedStereoQueue           two threads               -> MCSharedStereoQueue
      implements LossyStream    what is promised
     +- SharedStereoQueue_proofs, on BoundedStereoQueue_proofs (TLAPS)
RomCache               processes and a file system        -> MCRomCache
 +- RomCache_proofs                                          (TLAPS)
GymEnv                 operators on one environment record
 +- GymServer                   connections and a mutex   -> MCGymServer
     +- GymServer_proofs                                     (TLAPS)
PhysicalEnter          sequencer, poll loop, credits      -> MCPhysicalEnter
 +- PhysicalEnter_proofs                                     (TLAPS)
GuestInput             latch, poll loop, serial port      -> MCGuestInput
 +- GuestInput_proofs                                        (TLAPS)
Ps9805                 sound board: time and commands     -> MCPs9805
 +- Ps9805_proofs                                            (TLAPS)
PlaySession            output, callback, capture worker   -> MCPlaySession
 +- PlaySession_proofs                                       (TLAPS)
```

**StereoQueue / BoundedStereoQueue.** A queue is a record with the fields of the
Rust struct. A frame is its ordinal among the rendered ones; the value of a
sample is never looked at by the control, so what an output frame *is* (a frame,
a stretch, a faded repeat, silence) stands for the values. Playout rates keep
their 16.16 values from the source, `RATE_ONE` = 65536. One action per public
operation; an output buffer is popped one frame at a time, as the loop of
`pop_interleaved_i16` does.

**SharedStereoQueue.** A program counter for each thread. A push counts its slice
(`queue.rs:533`), then caches its last sample for the callback (535), then takes the
queue with `try_lock`; further steps are trying the pending list, each flushed frame, the store
or pop, the deferral, the rescue and the gap. Between the count and the sample a callback may
reach its gap, and `MissAccounting` says what it may find there. A counter that
one thread writes and the other never acts on is written with the step next to it.
The statistics are read with the same locks, and so can make a callback miss.
Start-up (boot audio, preparation, priming) happens before the callback exists,
since `start_coreaudio` is called once, after them (`main.rs:4440`). The record
of lock owners is the mutex state; a failed `try_lock` is the other branch.

**LossyStream** is the promise: frames are sent in order, each is heard at most
once or lost. It does not promise order, because the code does not: a rescue
plays deferred frames before older queued ones, and a push flushes a bounded
part of the pending list. `OrderUnlessRescued` says when order does hold.

**RomCache.** A step is one file-system call. A directory is a record of its
marker, its `roms` directory, the entries in it and an identity that names it as an inode
would, so that `remove_dir_all` goes on removing what it opened. A key is
the fingerprint of a source; a run pointed at a cache directory itself takes the
direct branch of `Begin` (`romset.rs:894`).
A process may be killed between any two calls (`Stop`); it may come back with the same
process id, and finds its own temporary directory, which is named by it (`romset.rs:1460`).
A call may also fail on its own account, and what follows is what the code does with it:
in the hit check (1011, 1015) every failure is a miss, and the run goes on to make the directory
anew and to remove the one it could not read (`Misread`); an entry beside the manifest
that cannot be read is passed over (1665, `PassOver`, for the entries in `Optional`);
`Path::exists` answers no (`Overlook`); any other failure is the error of the run
(`Break`). `misread`, `failed` and `unread` are the histories that tell them apart.

**GymEnv / GymServer.** The environment with its backend is one record; its calls
are operators given the outcome of the emulated machine (vblanks reached, halt,
readable health, health shown). The server adds connection threads and the mutex
that a handler takes once and holds until its answer is complete; a sequence is
one step per segment under the mutex. `reset_match` works on a copy, so a
failure leaves the environment alone. `MAX_STEP_FRAMES` is 600,
`MAX_ACTION_SEQUENCE_SEGMENTS` 64 and the truncation frame 5940 in the code; they
are constants here.

**PhysicalEnter.** The loop of `step_native_play_window_frame_checked`: polls with
the last keyboard sample, then a slice of the guest, until its vblank or the
end of the instruction budget, then the frame's clock. Both players are there: each has a
coin line, pending coins and a price, and their coins go to a slot each or to a common one. The
sequencer presses for player 1; the other coin keys and the scripts press any line at any poll.
The guest may at any slice check the credits of either player (which takes the pending coins of
that player, always at player 1's price, `cpu.rs:9097`), let the input adapter inject those of both,
or set up its credit state. Free play, the prices and the slots are a `Setup` the
guest is taken to have made before the window opens and to leave alone. The two counters of acceptances are raised by both
players. They only grow, and
are compared with their value at the last poll and at the poll that began the
sequence, which was not larger; what matters of them is one bit each. The window
enables the sequencer before every frame (`main.rs:4539`). The code's 12, 24, 18
and 24 frames and its 4 coin and 8 Start attempts are constants.

**GuestInput** composes three parts a key press passes: the poll loop with its idle fast
path, `NativeInputLatch`, and the serial port at which the guest reads the MCU or a pad
one byte at a time. A button is a bit; `Levels` are its groups that are reported while
down, `Edge` those reported as a press. The loop may poll between any two bytes, and the guest
may reset, reselect or change mode at any. The variables `sampled`, `due`, `unseen` and
`packet` are history: what a press is still owed, and the bytes read of each packet. The
session is a manual one with the focus, in which the two latches of the loop see the same.

**Ps9805** keeps the arithmetic of the board as it is (`ScaledTicks`, `ScaledRemainder`) and
splits a call of the main CPU into its flush, the quanta of the sound CPU and what the call
is for. In a quantum the 68000 may read the latch any number of times; it may also stop, and
the quantum is rendered all the same. Commands are numbered by when they were written.

**PlaySession** is a native window session from `start_coreaudio_output` to its drops: one
program counter for the window thread, one for the callback and one for the capture worker.
Each call of the operating system may fail, and each write. The callback fails as
`record_coreaudio_error` does it, one atomic after the other, so that the start and the report may
read in between. Leaving the function by an error drops the writer without joining it, and
then the output, in this order, as the declarations have it.

## 3. Runs

| Run | What it shows |
|---|---|
| `bounded_queue` | The queue alone, capacity 8, up to 10 frames rendered and 11 output between preparations: frame accounting (`Conservation`), no holes (`Contiguous`), at most a third stretched (`StretchWithinThird`), never two stretches in a row (`NoDoubleStretch`), starvation events (`StarvationPerSpell`) and concealment (`ConcealmentPaidFor`). |
| `shared_queue` | Five frames, three callbacks of two frames against the emulator, one statistics read, then play-out: `FrameConservation`, `MissAccounting`, `OrderUnlessRescued`, `LossOnlyDuringFlush`, the refinement `ImplementsStream`, and `PlayedOut`: when the emulator stops, what was not lost is played. |
| `rom_cache` | Two processes, two keys, two entries, three runs, one kill, one failing call: an activated cache has every entry its run could read and is what `LATEST_ROM_DIR` names (`ActivatedWhole`); a run comes back short only of entries some run could not read, or by a removal under way or cut short, and a valid cache is removed only where two runs overlap or a hit check could not read (`PartialNeedsOverlap`); a lone run none of whose calls after the hit check fails succeeds (`LoneRunSucceeds`). |
| `rom_cache_hit` | Violated by two runs that overlap and a kill, see findings. |
| `gym_server` | Two connections, three requests out of nine kinds, an episode of three frames: rewards telescope, no partial frame counts, an action plays in a match with its character, a screenshot exactly for who asked. |
| `gym_release` | Violated, see findings. |
| `physical_enter` | The sequencer with two attempts of each kind and two slices a frame, every sample, two players and every order of their coins and sessions: coins only without credit, Start only on one that is there for player 1 (`StartIsPaid`, with the two exceptions it names), one press one sequence, no early end, `SequenceEnds`. |
| `physical_enter_hold` | Violated, see findings. |
| `play_session` | With and without board and captures, two buffers, a channel of two, three frames, every call and write failing or not: no callback after the free (`NoCallbackAfterFree`), the report counts a broken chain and nothing else (`HealthSeesFailure`), captures are written in order and a good end has them all (`CapturesKept`), the session never hangs (`SessionEnds`). |
| `sound_board` | Ticks from one cycle to more than may be pending, commands into a latch of two, catch-up and clones: `TimeConserved` and `CommandsKept`. |
| `guest_input` | A group of two punches, one for each player, and Start; any keys at any poll, any transfer at the port: `PressReachesGuest` and `PacketWhole`. |
| `guest_input_press` | Violated, see findings. |

Every checked property has a mutant: a variant of a mapped definition as a
plausible slip would have it (a guard dropped, a counter not kept, an order
swapped), under which TLC finds the property violated.

### Bounds and why they are enough

* *Queue.* Capacity 8 with watermarks in the proportions of the code gives the
  emergency, the critical and the low rate of the controller (the guard rate is for lengths above
  twice the critical watermark and below the low one, which the watermarks leave none of), slices longer than the queue, overflow by one and many,
  and preparation with nothing, half and all queued. `MaxConcealment` 2 lets a fade
  be cut short and be re-armed. The theorems cover all values for all seven
  properties.
* *Shared queue.* Capacity 4, `DeferredMax` 3 and slices of up to 2 frames let the
  pending list overflow; `FlushMax` 2 lets a flush leave something behind;
  `RescueMax` 3 exceeds a callback, which therefore is the limit, as in
  the code (1024 against 512). `CallbackFrames <= FlushMax` is a precondition of the
  `clamp` in `realtime_pending_flush_limit`. Five frames fill the queue and leave one to
  overflow or defer. `MaxRendered`, `MaxCallbacks`,
  `DrainCallbacks` and `MaxObservations` bound histories only.
* *ROM cache.* Two processes suffice for every overlap of two runs; three runs let two
  overlap, or one be killed or fail, and be followed by a lone run. One kill and one failing call
  are enough for each kind of damage and for one on top of the other. The theorems cover any
  number of runs, kills and failures.
* *Gym.* Two connections give every order at the mutex. An episode of three
  frames and requests of one to four let a request end before, at and after
  the truncation, also in the middle of a sequence.
* *Enter.* Two attempts distinguish the first from the last; a gap longer than a
  pulse distinguishes restarting it from not; two slices a frame are the least at
  which a slice starts with a sample taken inside the frame. The guest has
  one of two setups: a common slot not ready at first, prices 2 and 1, so that coins pile up before
  they go in, a check takes coins it inserted itself, and a coin of player 2 is worth less than
  player 1 has to pay; and a slot each at price 2. Two credits fill a slot, so that coins cover a
  price exactly, in part or with a rest that saturates. Free play is left to the proofs: it
  tells the sequencer nothing that a priced setup cannot tell it. The code has prices up to 9 and
  slots up to 255; the theorems cover every setup.
* *Session.* Two buffers let one be lost while the other goes on; three frames and a channel
  of two fill it while the worker writes, so that a frame is dropped, refused and accepted. The
  theorems cover all values for all its safety properties.
* *Sound board.* Frequencies 5, 7 and 3 share no factor, as the remainders need; ticks of 1, 2, 5
  and 15 cycles stay below the batch, reach it, pass it, and exceed the clamp at once; two quanta
  a tick leave cycles pending for the catch-up. `MaxMain` and `MaxCommands` bound histories.
* *Input.* One group of two buttons lets one replace the other, one Start lets it be pressed anew;
  the latch holds for two frames (four in `guest_input_press`, the value of the code), the
  analog packet has two data bytes, so that it has a middle. `BiosAnswers` is FALSE for a BIOS
  without a security response, which lets a packet start without its address.

`CHECK_DEADLOCK FALSE` is set for `RomCache` and `GymServer`, whose histories are
bounded: once no run or request is left, they stop. Elsewhere deadlock is checked: the
shared queue and the session end in an explicit step `Finished`, the loops of Enter and of the input
never end, the board can always assert an interrupt, and the bounded queue can always be
prepared again.

### Fairness

* `SharedStereoQueue!FairSpec` assumes weak fairness of each thread: the operating
  system schedules both, and the device keeps asking for buffers while it runs.
  No fairness of locks is assumed: `try_lock` never waits.
* `PlaySession!FairSpec` assumes weak fairness of the window thread, the callback and the worker:
  the operating system runs all three, and each call it makes returns. How long the user stays in
  the loop is not assumed, so `SessionEnds` is about everything outside it.
* `PhysicalEnter!Spec` assumes weak fairness of the loop, which runs while the window
  is open. Nothing is assumed of the guest; `SequenceEnds` excepts guests that accept
  credits for ever, because each acceptance starts the gap anew
  (`main.rs:20037-20044`).

## 4. Findings

* **A cache whose replacement was cut short is a hit** (`rom_cache_hit`).
  `remove_dir_all` may leave READY with part of the entries, and the next run, alone,
  uses those; the README (96) says entries are materialized once.
  `PartialNeedsOverlap` shows that it takes two overlapping runs to get there, or a hit check
  that could not read a valid cache.
* **A named action may not release** (`gym_release`). `step_sequence` breaks off at the
  end of an episode, before the release segment; README (355-357) says one is always
  included and `env.rs:289` answers `released: true` as a constant.
* **A held Enter can insert a second coin** (`physical_enter_hold`). A sample without the
  platform fallback (`main.rs:20789`) shows a key only Quartz sees as up. The helper whose
  comment promises otherwise (`main.rs:19661-19675`) is compiled for tests only.

* **A press of Start can get lost** (`guest_input_press`). `NativeInputLatch::is_empty`
  (`main.rs:19884`) does not ask for `previous_edge_buttons`, so the idle fast path
  (`main.rs:13958`) skips the poll that would show it the release of a key held longer than the
  latch; the next press is no edge, and the guest never gets it. `main.rs:181-182` and the
  assertion at 196-199 say brief presses survive. `PressReachesGuest` shows that all others do.

Remarks without a run. When the callback holds both mutexes to flush, `defer_producer_frames`
(`queue.rs:796`) loses a slice without an overflow, while the test at `queue.rs:1768` is named for
overflow only; `LossOnlyDuringFlush` shows that this is the only other window. A credit check
that takes a coin it inserted itself does not count as a session (`cpu.rs:9098` compares with
the credits before), so the sequencer goes on to count on a spent credit. The coins of player 2
raise the count of accepted credits the sequencer reads (`bus.rs:965`, `7544`) even when they
go to player 2's own slot or are worth less than player 1 has to pay: after one, the first press of
Enter inserts nothing and presses Start without a credit of player 1, while `README.md` (147-148)
says the first press inserts one. `StartIsPaid` excepts these two cases (`borrowed`) and shows
that there is no other. An entry beside the manifest that cannot be read is passed over
(`romset.rs:1665`), the directory is activated without it, and every later run of that source
takes it as a hit; with `MaxFaults` 1 in `MCRomCacheHit.cfg` TLC shows this instead of the
removal cut short. After a callback
that fails during start the gauge may say "running" for good (`coreaudio.rs:249`,
`queue.rs:651`); the report still sees the counted error. A write error of the capture worker is
returned by `finish` only, otherwise the loop reports that the worker stopped
(`main.rs:5923`). Within the frames of the latch another punch replaces a punch, also of
the other player (`main.rs:19900`). `README.md` (109-112) says pulses repeat until the guest
accepts, the code gives up after 4 coins and 8 Starts; and `README.md` (147-148) asks for
two presses where 109-112 describe one.

## 5. Proofs

Every safety invariant and action property of the passing runs, and the refinement of
`LossyStream`, is stated by a theorem, for all values of the constants that satisfy the
named assumptions, which TLC evaluates on the runs' values.

**BoundedStereoQueue_proofs** proves, for every capacity, watermark floor,
prebuffer and slice length satisfying the assumptions of `StereoQueue` and
`BoundedStereoQueue`. It starts with the lemmas on the operators of `StereoQueue`, which the
proofs of the shared queue extend and use; the names of the module (`QueueNext`, `QueueTypeOK`)
leave those of the shared queue free.

* `QueueTypeCorrect` (`[]QueueTypeOK`). Each operator of `StereoQueue` has a typing lemma; every
  step is one of a few shapes (`StepShape`: filling, preparing, draining, nothing).
* `FramesConservedAlone` (`[]Conservation`): inductive given the types; each lemma on an
  operator states by how much it changes pushed, popped, dropped and the length.
* `QueueContiguous` (`[]Contiguous`): a step leaves a suffix of the old queue followed by new
  frames.
* `StretchBounded` (`[]StretchWithinThird`): a stretch is emitted only if the counts including it
  satisfy the limit, and every other output only raises the right-hand side.
* `StarvationCounted` (`[]StarvationPerSpell`): as stated it is inductive with the types, because
  it records that a pending spell is paid for by the frame that will end it.
* `FadesPaidFor` (`[]ConcealmentPaidFor`) from `Fades`: with `c` the greater of the critical
  watermark and 1, while a fade is unfinished `(concealed - conceal) * c <= MaxConcealment * popped`,
  otherwise `concealed * c <= MaxConcealment * (popped + min(length, c))`: a fade in progress
  is paid for in full, and what is queued pays towards the next.
* `StretchesApart` (the action property `NoDoubleStretch`) from `StretchPhase`: a stretch needs
  phase and rate together to stay below one frame and leaves the phase at the least rate or above,
  and two such rates make a frame.

**SharedStereoQueue_proofs** proves, for every capacity, bound of the pending list, of a flush
and of a rescue, slice and callback length satisfying the assumptions of `SharedStereoQueue`:

* `TypeCorrect`. The base is `LockDiscipline`: a mutex is held exactly by the thread whose program
  counter says so, so that what a thread has read under a lock is still so when it writes.
* `FramesConserved` (`[]FrameConservation`) and `MissesAccounted` (`[]MissAccounting`), each from an
  account with a term for what every program counter holds in its hands. `QueueConserved` is the account of
  the inner queue.
* `LossesNeedTheFlush` (the action property `LossOnlyDuringFlush`), from the same invariant.
* `Refinement` (`Spec => ImplementsStream`). The mapping needs `Unique`: no frame is in two
  places (queue, pending list, slice in flight, played, lost) or twice in one. Then each step of either
  thread submits, plays or loses frames of `LossyStream`, or stutters.
* `OrderKept` (`[]OrderUnlessRescued`) from `Chain`: played, queued, deferred and pushed frames are in
  order as long as the history is `Calm` (nothing rescued, never more deferred than one push may
  flush). Two facts carry it: a push that stores its slice has emptied the pending list, or the
  callback holds the list to rescue from it; and a rescue that takes nothing found the list
  empty (`Record`), so a frame that overtook the list is a frame rescued.

**RomCache_proofs** proves, for every set of processes, keys and entries, and any number of
runs, kills and failing calls:

* `TypeCorrect` and `Invariance`, the inductive invariant `IInv`, whose parts need each other:
  `Staged` (what a run makes aside is named after it and is whole before it looks at what it
  replaces), `Placed` (what is on the disk was put there by a rename, what a run removes is known to be
  dismantled), `Complete` (while nothing is dismantled a scan misses nothing that could be
  read), `Owned` (a directory, in place, being made or being removed, belongs to one key, so
  that a removal never reaches another key's), `Unrivalled` and `Sole` (what a run without rivals
  has just seen or put in place is still there) and `Undisturbed` (with neither an overlap nor a
  hit check that failed to read, a run that makes the directory finds none, so that nothing is
  dismantled).
* `WholeOnceActivated` (`[]ActivatedWhole`) by `Staged` and `Placed`; `PartialOnlyByRemoval`
  (`[]PartialNeedsOverlap`) by `Complete` and `Undisturbed`; `LoneRunsSucceed`
  (`[]LoneRunSucceeds`) by `Sole`, which needs `Owned`: a rival is a run with the same key, and
  no other can disturb.

**GymServer_proofs** proves, for every number of connections, roster, set of requests satisfying
`ServerConstants` and length of an episode:

* `ActionsInTheirMatch`, `ScreenshotsAsAsked`: `Control` (one thread has the environment) with the two
  properties themselves is inductive; each operator of `GymEnv` has a lemma saying which
  fields it leaves alone.
* `RewardsAddUp` (`[]RewardsTelescope`). As stated it says nothing of the middle of a sequence;
  `Telescope` adds the reward collected and not yet answered (`Pending`), and that nothing
  happened to the machine since the observation that is kept (`Settled`), so that the next reward starts
  where the last one ended.
* `FramesAsAsked` (`[]NoPartialFrames`) and `TypeCorrect` (`[]TypeOK`), from `Counted`. The frames
  a sequence has reached and the total of the segments it has left make up what was asked
  (`CountsInv`), and the observation that is kept has the machine's frame until a stall
  (`FramesInv`); the bound on the answered frames follows only with this sum. `TotalFrames` is
  recursive on the length of the segments: that its recursive function exists, and that taking
  the first segment away takes away its frames (`Totals`), is proved by induction in the form of
  the least counterexample (`Induction`, from the library's `WFMin`, which takes no operator).
  `ServerConstants` says that a named action asks for no more than `MaxStep` frames: the longest
  in the code has 24 (`moves.rs`), a step may have 600.

**PhysicalEnter_proofs** proves, for all lengths of the phases, attempts, slices and
credit limits above zero, and for every set of setups:

* `TypeCorrect` and `CoinRule` (`[]TypeOK`, `[]CoinOnlyWithoutCredit`), together inductive: a
  lemma for each operator of the sequencer shows that it keeps it *sound* (typed, the clock
  running exactly in the phases that have one, no coin on a credit).
* `StartPaid` (`[]StartIsPaid`). Not inductive as stated: `Paid` adds the credits the guest
  has accepted and the sequencer will be told of at its next poll (`creditNew`). Lemmas on the
  guest's operators say that coins never make a slot poorer and that one coin covers any price it
  is worth (`CoinsAdd`), that the coins of one player do not touch those of the other
  (`InsertKeeps`), and that an injection leaves player 1's price in player 1's slot or lends
  (`InjectKeeps`). Then one lemma per action, the credit check for either player. The history
  `borrowed` marks the credits the property excepts, until the sequencer stops counting on one.
* `OnePress` (the action property `OnePressOneSequence`) from `Held`: while the window itself sees
  the key, a key that has begun its sequence keeps the sequencer from going back to idle.
* `NoEarlyEnd` (the action property `EndsForCause`) from `Earned`: the pulses made are at least
  those the sequencer counts (`Tried`), so a clock that ends a sequence ends it at its limit, and
  a session the next poll will be told of was accepted since the sequence began.

**Ps9805_proofs** proves, for all frequencies, quanta, batches, bounds and latch capacities that
satisfy `BoardConstants`:

* `TypeCorrect` and `TimeIsConserved`. Two arithmetic lemmas say that `ScaledTicks` and
  `ScaledRemainder` split `ticks * numerator + remainder` by the denominator. The inductive
  invariant `Inv` adds `Budget` to the types: the quanta that a call has still to run are pending,
  without which a quantum could take more than there is and the excess would vanish.
* `CommandsAreKept`. The numbers of the queued commands are consecutive up to the last written;
  what makes it inductive is `Fresh`: the last command read is older than every queued one.

**GuestInput_proofs** proves, for every set of buttons, number of latched frames and packet length
that satisfy `InputConstants`:

* `TypeCorrect`, `PressesReachGuest`, `PacketsAreWhole`, from one invariant of two parts. `Loop`:
  the guest has what the latch holds, a press that is due is held for at least the frames it is
  due (`Backed`), and the latch's presses are those of the last poll or of polls it was not shown.
  `Port`: how far each packet is agrees with the index of the device, and its payload is
  that of its first byte.

**PlaySession_proofs** proves, for every number of buffers, channel capacity and number of frames:

* `TypeCorrect`; `CallbacksEndFirst` from `PhaseInv`, which says for each place of the window thread what there
  is of the queue and the state, and that callbacks are over once it is disposed of.
* `ReportIsRight` from `HealthInv`, in which a lost buffer, the count of errors, the flag
  `running` and the gauge explain each other in the order in which they are written: a
  failing callback loses its buffer, counts, and only then clears the gauge and the flag.
* `AcceptedAreWritten` (`[]CapturesKept`) from `WorkerInv` and `WindowInv`. What is written,
  what the worker has in its hand and what is queued are, in this order, what was accepted, with
  `Finish` after it or not; a worker that is done has an empty channel and has written all.
  Because `Finish` is the last thing sent (`FinishIsLast`), the worker cannot stop before it, and
  the window gets to its report of success only by joining a worker that is done.

Model-checked only: the liveness properties `PlayedOut`, `SequenceEnds` and `SessionEnds`, because
the installed provers reason neither about fairness nor about `ENABLED`; and the four runs with an
expected violation, which a counterexample settles. Induction by the library's theorems that take an
operator is out of reach too; where a proof needs induction (`TotalFrames`) it takes the least
counterexample instead, and elsewhere the models avoid recursive definitions.

## 6. Not modelled

The emulation of CPU, GPU, sound chips and framebuffer is a function of the guest program
and its data, mostly arithmetic on pixels and samples. Parsing (ZIP, PSF, JSON,
HTTP), reports, probes, snapshots and argument handling are pure input and output.
The ZiNc and MAME launchers run external programs. `NullBackend`, the stub used
without assets, keeps no promises.

## 7. Plan

Done: the queue, the shared queue with its refinement, the ROM cache, the Gym server, the Enter
sequencer, the way of the input, the sound board and the session, each with proofs of all its safety
properties. Next, in this order:

1. `McpSession`, one stdio loop over the same environment.
2. The interrupt controller and the timers of `io.rs`.
