----------------------------- MODULE PlaySession ------------------------------
(***************************************************************************)
(* The threads around the window loop: the CoreAudio output from its start *)
(* to its drop, whose callback runs on a thread of the operating system,   *)
(* and the capture worker behind a bounded channel                         *)
(* (src/native/sound/coreaudio.rs, NativePlayGuiCaptureWriter and the loop *)
(* of src/main.rs, the gauges of src/native/sound/queue.rs).               *)
(***************************************************************************)
EXTENDS Naturals, Sequences, FiniteSets

CONSTANTS
  Buffer,     \* the output buffers (BUFFER_COUNT of them)
  Capacity,   \* NATIVE_PLAY_GUI_CAPTURE_QUEUE_CAPACITY
  MaxFrames   \* bound: frames presented by the loop

ASSUME SessionConstants ==
  /\ IsFiniteSet(Buffer) /\ Buffer # {}
  /\ Capacity \in Nat \ {0}
  /\ MaxFrames \in Nat

VARIABLES
  pc,        \* where the window thread is
  session,   \* what it knows: its settings, frames, errors and the report
  state,     \* CallbackState: two flags and whether its box is allocated
  device,    \* the audio queue of the operating system and its buffers
  callback,  \* the thread that runs output_callback
  gauge,     \* the recorded CoreAudio counters of SharedStereoQueue
  channel,   \* commands sent and not yet received, and whether it has a sender
  worker,    \* the capture worker and the capture in its hand
  captured   \* history: captures accepted, captures written, and failures

vars == <<pc, session, state, device, callback, gauge, channel, worker, captured>>
audio == <<state, device, callback, gauge>>
capture == <<channel, worker, captured>>

\* Captures are numbered by their frame; the command to finish has the next number.
Initial == 0
Final == MaxFrames + 1
Capture == 0..Final
Finish == Final + 1

Init ==
  /\ pc = "new_output"
  /\ session \in [board : BOOLEAN, capturing : BOOLEAN, frames : {0}, dropped : {0},
                  soundStarted : {FALSE}, result : {"running"},
                  report : {[asked |-> FALSE, broken |-> FALSE, running |-> TRUE, failed |-> FALSE]}]
  /\ state = [allocated |-> FALSE, running |-> FALSE, realtime |-> FALSE]
  /\ device = [phase |-> "none", buffer |-> [b \in Buffer |-> "none"]]
  /\ callback = "idle"
  /\ gauge = [started |-> FALSE, running |-> FALSE, errors |-> 0, status |-> "ok", callbacks |-> 0]
  /\ channel = [queue |-> <<>>, sender |-> FALSE]
  /\ worker = [at |-> "none", hand |-> <<>>]
  /\ captured = [accepted |-> <<>>, written |-> <<>>, failed |-> FALSE]

Holding(b, s) == device.buffer[b] = s
Move(b, s) == [device EXCEPT !.buffer[b] = s]

RecordError(g) == [g EXCEPT !.errors = @ + 1, !.status = "error", !.running = FALSE]

-----------------------------------------------------------------------------
(* CoreAudioOutput::start, called by the window thread.                    *)

\* A failing call of start: the error is recorded, running is cleared and the
\* rest is taken down.
StartFails(next) ==
  /\ gauge' = RecordError(gauge)
  /\ state' = [state EXCEPT !.running = FALSE, !.realtime = FALSE]
  /\ session' = [session EXCEPT !.result = "error"]
  /\ pc' = next

NewOutput ==
  /\ pc = "new_output" /\ session.board
  /\ \/ /\ device' = [device EXCEPT !.phase = "open"]
        /\ state' = [allocated |-> TRUE, running |-> TRUE, realtime |-> FALSE]
        /\ pc' = "allocate"
        /\ UNCHANGED <<gauge, session>>
     \/ /\ StartFails("done")
        /\ UNCHANGED device
  /\ UNCHANGED <<callback, channel, worker, captured>>

\* start_coreaudio_output without a sound board.
NoBoard ==
  /\ pc = "new_output" /\ ~session.board
  /\ pc' = "create_writer"
  /\ UNCHANGED <<session, audio, capture>>

AllocateBuffer ==
  /\ pc = "allocate"
  /\ \/ \E b \in Buffer : /\ Holding(b, "none")
                          /\ device' = Move(b, "filled")
                          /\ pc' = "enqueue"
                          /\ UNCHANGED <<gauge, state, session>>
     \/ /\ \E b \in Buffer : Holding(b, "none")
        /\ StartFails("dispose")
        /\ UNCHANGED device
     \/ /\ \A b \in Buffer : ~Holding(b, "none")
        /\ pc' = "arm"
        /\ UNCHANGED <<device, gauge, state, session>>
  /\ UNCHANGED <<callback, channel, worker, captured>>

EnqueuePrimed ==
  /\ pc = "enqueue"
  /\ \/ \E b \in Buffer : /\ Holding(b, "filled")
                          /\ device' = Move(b, "queued")
                          /\ pc' = "allocate"
                          /\ UNCHANGED <<gauge, state, session>>
     \/ /\ StartFails("dispose")
        /\ UNCHANGED device
  /\ UNCHANGED <<callback, channel, worker, captured>>

Arm ==
  /\ pc = "arm"
  /\ state' = [state EXCEPT !.realtime = TRUE]
  /\ pc' = "start"
  /\ UNCHANGED <<session, device, callback, gauge, channel, worker, captured>>

\* AudioQueueStart: from here on callbacks run.
StartQueue ==
  /\ pc = "start"
  /\ \/ /\ device' = [device EXCEPT !.phase = "started"]
        /\ pc' = "check"
        /\ UNCHANGED <<gauge, state, session>>
     \/ /\ StartFails("dispose")
        /\ UNCHANGED device
  /\ UNCHANGED <<callback, channel, worker, captured>>

\* Variant: a failed start frees the state and leaves the queue to itself.
CheckRunningFreesOnly ==
  /\ pc = "check"
  /\ pc' = IF state.running THEN "record_started" ELSE "free"
  /\ session' = IF state.running THEN session ELSE [session EXCEPT !.result = "error"]
  /\ UNCHANGED <<audio, channel, worker, captured>>

\* A callback that failed while the queue was starting fails the start.
CheckRunning ==
  /\ pc = "check"
  /\ IF state.running
     THEN /\ pc' = "record_started"
          /\ UNCHANGED <<state, session>>
     ELSE /\ state' = [state EXCEPT !.realtime = FALSE]
          /\ session' = [session EXCEPT !.result = "error"]
          /\ pc' = "stop"
  /\ UNCHANGED <<device, callback, gauge, channel, worker, captured>>

\* Variant: a recorded start resets the counters as well.
RecordStartClearsErrors ==
  /\ pc = "record_started"
  /\ gauge' = [started |-> TRUE, running |-> TRUE, errors |-> 0, status |-> "ok", callbacks |-> 0]
  /\ session' = [session EXCEPT !.soundStarted = TRUE]
  /\ pc' = "create_writer"
  /\ UNCHANGED <<state, device, callback, channel, worker, captured>>

\* record_coreaudio_start, one atomic at a time.
RecordStart ==
  /\ \/ /\ pc = "record_started"
        /\ gauge' = [gauge EXCEPT !.started = TRUE]
        /\ pc' = "record_running"
        /\ UNCHANGED session
     \/ /\ pc = "record_running"
        /\ gauge' = [gauge EXCEPT !.running = TRUE]
        /\ pc' = "record_status"
        /\ UNCHANGED session
     \/ /\ pc = "record_status"
        /\ gauge' = [gauge EXCEPT !.status = "ok"]
        /\ session' = [session EXCEPT !.soundStarted = TRUE]
        /\ pc' = "create_writer"
  /\ UNCHANGED <<state, device, callback, channel, worker, captured>>

-----------------------------------------------------------------------------
(* output_callback, on the thread of the audio queue. The buffer in its    *)
(* hand is "returned" until it is enqueued again; without that it is lost. *)

At(from, to) == callback = from /\ callback' = to

\* Callbacks run one at a time from the start of the queue until it is disposed.
Deliver ==
  /\ At("idle", "check")
  /\ device.phase \in {"started", "stopped"}
  /\ \E b \in Buffer : Holding(b, "queued") /\ device' = Move(b, "returned")
  /\ UNCHANGED <<pc, session, state, gauge, capture>>

Returned(s) == \E b \in Buffer : Holding(b, "returned") /\ device' = Move(b, s)

CallbackRunning ==
  /\ \/ /\ state.running
        /\ At("check", "record")
        /\ UNCHANGED device
     \/ /\ ~state.running
        /\ At("check", "idle")
        /\ Returned("lost")
  /\ UNCHANGED <<pc, session, state, gauge, capture>>

\* Pops its samples (see SharedStereoQueue), then counts the callback.
CallbackRecord ==
  /\ At("record", "enqueue")
  /\ gauge' = IF state.realtime THEN [gauge EXCEPT !.callbacks = 1] ELSE gauge
  /\ UNCHANGED <<pc, session, state, device, capture>>

CallbackEnqueue ==
  /\ \/ At("enqueue", "idle") /\ Returned("queued")
     \/ At("enqueue", "count") /\ Returned("lost")
  /\ UNCHANGED <<pc, session, state, gauge, capture>>

\* record_coreaudio_error, one atomic at a time, and the end of the chain.
CallbackFails ==
  /\ \/ /\ At("count", "status")
        /\ gauge' = [gauge EXCEPT !.errors = @ + 1]
        /\ UNCHANGED state
     \/ /\ At("status", "gauge")
        /\ gauge' = [gauge EXCEPT !.status = "error"]
        /\ UNCHANGED state
     \/ /\ At("gauge", "halt")
        /\ gauge' = [gauge EXCEPT !.running = FALSE]
        /\ UNCHANGED state
     \/ /\ At("halt", "idle")
        /\ state' = [state EXCEPT !.running = FALSE]
        /\ UNCHANGED gauge
  /\ UNCHANGED <<pc, session, device, capture>>

-----------------------------------------------------------------------------
(* The capture worker and its channel.                                     *)

Receiving == worker.at \in {"receive", "write"}

CreateWriter ==
  /\ pc = "create_writer"
  /\ IF session.capturing
     THEN /\ channel' = [queue |-> <<>>, sender |-> TRUE]
          /\ worker' = [at |-> "receive", hand |-> <<>>]
          /\ pc' = "initial"
     ELSE /\ pc' = "loop"
          /\ UNCHANGED <<channel, worker>>
  /\ UNCHANGED <<session, audio, captured>>

\* The function returns an error: its locals are dropped, the writer first.
ReturnError ==
  /\ session' = [session EXCEPT !.result = "error"]
  /\ pc' = "drop_writer"

Sent(c) ==
  /\ channel' = [channel EXCEPT !.queue = Append(@, c)]
  /\ captured' = IF c = Finish THEN captured ELSE [captured EXCEPT !.accepted = Append(@, c)]

\* A blocking send: refused once the worker has ended, waiting while it is full.
Send(c, next) ==
  /\ \/ /\ Receiving /\ Len(channel.queue) < Capacity
        /\ Sent(c)
        /\ pc' = next
        /\ UNCHANGED session
     \/ /\ ~Receiving
        /\ ReturnError
        /\ UNCHANGED <<channel, captured>>
  /\ UNCHANGED <<audio, worker>>

CaptureInitial == pc = "initial" /\ Send(Initial, "loop")

CaptureFinal == pc = "final" /\ session.capturing /\ Send(Final, "finish")

\* Variant: finish waits for the worker while it still holds the sender.
SendFinishNot == pc = "finish" /\ pc' = "join" /\ UNCHANGED <<session, audio, capture>>

SendFinish == pc = "finish" /\ Send(Finish, "join")

\* Variant: a full channel makes room by giving up its oldest capture.
TrySendMakesRoom(c) ==
  /\ channel' = [channel EXCEPT !.queue = IF Len(@) = Capacity THEN Append(Tail(@), c)
                                          ELSE Append(@, c)]
  /\ captured' = [captured EXCEPT !.accepted = Append(@, c)]
  /\ session' = [session EXCEPT !.frames = c]
  /\ pc' = pc

\* A frame is presented and offered to the writer, which never waits for it.
TrySend(c) ==
  \/ /\ Receiving /\ Len(channel.queue) < Capacity
     /\ Sent(c)
     /\ session' = [session EXCEPT !.frames = c]
     /\ pc' = pc
  \/ /\ Receiving /\ Len(channel.queue) = Capacity
     /\ session' = [session EXCEPT !.frames = c, !.dropped = @ + 1]
     /\ pc' = pc
     /\ UNCHANGED <<channel, captured>>
  \/ /\ ~Receiving
     /\ ReturnError
     /\ UNCHANGED <<channel, captured>>

PresentCaptured ==
  /\ pc = "loop" /\ session.capturing /\ session.frames < MaxFrames
  /\ TrySend(session.frames + 1)
  /\ UNCHANGED <<audio, worker>>

Present ==
  /\ pc = "loop" /\ session.frames < MaxFrames
  /\ session' = [session EXCEPT !.frames = @ + 1]
  /\ UNCHANGED <<pc, audio, capture>>

StepFails ==
  /\ pc = "loop"
  /\ ReturnError
  /\ UNCHANGED <<audio, capture>>

LoopEnds ==
  /\ pc = "loop"
  /\ pc' = IF session.capturing THEN "final" ELSE "report"
  /\ UNCHANGED <<session, audio, capture>>

\* Variant: the worker takes the command to finish for one more capture.
ReceiveWritesFinish ==
  /\ worker.at = "receive" /\ channel.queue # <<>>
  /\ channel' = [channel EXCEPT !.queue = Tail(@)]
  /\ worker' = [at |-> "write", hand |-> <<Head(channel.queue)>>]
  /\ UNCHANGED <<pc, session, audio, captured>>

\* recv: a command, or the end once the sender is gone and nothing is queued.
Receive ==
  /\ worker.at = "receive"
  /\ \/ /\ channel.queue # <<>>
        /\ channel' = [channel EXCEPT !.queue = Tail(@)]
        /\ worker' = IF Head(channel.queue) = Finish
                     THEN [at |-> "done", hand |-> <<>>]
                     ELSE [at |-> "write", hand |-> <<Head(channel.queue)>>]
     \/ /\ channel.queue = <<>> /\ ~channel.sender
        /\ worker' = [worker EXCEPT !.at = "done"]
        /\ UNCHANGED channel
  /\ UNCHANGED <<pc, session, audio, captured>>

\* write_native_play_gui_capture_task; an error ends the worker and with it
\* the receiver, and what is queued is gone.
Write ==
  /\ worker.at = "write"
  /\ \/ /\ captured' = [captured EXCEPT !.written = @ \o worker.hand]
        /\ worker' = [at |-> "receive", hand |-> <<>>]
        /\ UNCHANGED channel
     \/ /\ captured' = [captured EXCEPT !.failed = TRUE]
        /\ worker' = [at |-> "failed", hand |-> <<>>]
        /\ channel' = [channel EXCEPT !.queue = <<>>]
  /\ UNCHANGED <<pc, session, audio>>

\* Variant: the result of the joined worker is not looked at.
JoinIgnoresResult ==
  /\ pc = "join" /\ ~Receiving
  /\ pc' = "report"
  /\ channel' = [channel EXCEPT !.sender = FALSE]
  /\ UNCHANGED <<session, audio, worker, captured>>

\* The rest of finish: the result of the worker is the result of the call.
Join ==
  /\ pc = "join" /\ ~Receiving
  /\ channel' = [channel EXCEPT !.sender = FALSE]
  /\ IF worker.at = "failed"
     THEN ReturnError
     ELSE /\ pc' = "report"
          /\ UNCHANGED session
  /\ UNCHANGED <<audio, worker, captured>>

-----------------------------------------------------------------------------
(* The health report of the session and the drops.                         *)

\* A buffer is out of circulation and the callback that lost it has counted it.
ChainBroken == callback # "count" /\ \E b \in Buffer : Holding(b, "lost")

\* The statistics read the gauges one after the other: running, then errors.
ReportRunning ==
  /\ pc = "report"
  /\ IF session.board
     THEN /\ session' = [session EXCEPT !.report = [asked |-> FALSE, broken |-> ChainBroken,
                                           running |-> gauge.running, failed |-> FALSE]]
          /\ pc' = "report_errors"
     ELSE /\ session' = [session EXCEPT !.result = "ok"]
          /\ pc' = "drop_writer"
  /\ UNCHANGED <<audio, capture>>

\* callback_failed of AudioHealth::from_stats.
CallbackFailed(running) ==
  gauge.errors > 0 \/ (session.soundStarted /\ gauge.started /\ ~running)

ReportErrors ==
  /\ pc = "report_errors"
  /\ session' = [session EXCEPT !.result = "ok", !.report.asked = TRUE,
                                !.report.failed = CallbackFailed(session.report.running)]
  /\ pc' = "drop_writer"
  /\ UNCHANGED <<audio, capture>>

\* The writer is declared after the output, so it is dropped before it; its
\* worker is not joined.
DropWriter ==
  /\ pc = "drop_writer"
  /\ channel' = [channel EXCEPT !.sender = FALSE]
  /\ pc' = IF session.board THEN "disarm" ELSE "done"
  /\ UNCHANGED <<session, audio, worker, captured>>

\* Drop for CoreAudioOutput: the flags, the gauge, then the teardown.
DropOutput ==
  /\ \/ /\ pc = "disarm"
        /\ state' = [state EXCEPT !.realtime = FALSE]
        /\ pc' = "halt"
        /\ UNCHANGED gauge
     \/ /\ pc = "halt"
        /\ state' = [state EXCEPT !.running = FALSE]
        /\ pc' = "record_stop"
        /\ UNCHANGED gauge
     \/ /\ pc = "record_stop"
        /\ gauge' = [gauge EXCEPT !.running = FALSE]
        /\ pc' = "stop"
        /\ UNCHANGED state
  /\ UNCHANGED <<session, device, callback, capture>>

StopQueue ==
  /\ pc = "stop"
  /\ device' = [device EXCEPT !.phase = "stopped"]
  /\ pc' = "dispose"
  /\ UNCHANGED <<session, state, callback, gauge, capture>>

\* AudioQueueDispose with immediate set returns after the last callback.
DisposeQueue ==
  /\ pc = "dispose" /\ callback = "idle"
  /\ device' = [device EXCEPT !.phase = "disposed"]
  /\ pc' = "free"
  /\ UNCHANGED <<session, state, callback, gauge, capture>>

FreeState ==
  /\ pc = "free"
  /\ state' = [state EXCEPT !.allocated = FALSE]
  /\ pc' = "done"
  /\ UNCHANGED <<session, device, callback, gauge, capture>>

-----------------------------------------------------------------------------
StartOutput ==
  \/ NewOutput \/ NoBoard \/ AllocateBuffer \/ EnqueuePrimed
  \/ Arm \/ StartQueue \/ CheckRunning \/ RecordStart

Play ==
  \/ CreateWriter \/ CaptureInitial \/ Present \/ PresentCaptured \/ StepFails
  \/ LoopEnds \/ CaptureFinal \/ SendFinish \/ Join
  \/ ReportRunning \/ ReportErrors \/ DropWriter \/ DropOutput

Teardown == StopQueue \/ DisposeQueue \/ FreeState

Window == StartOutput \/ Play \/ Teardown

\* The other threads, until the function has returned and the process ends.
Callback ==
  /\ pc # "done"
  /\ Deliver \/ CallbackRunning \/ CallbackRecord \/ CallbackEnqueue \/ CallbackFails

Worker == pc # "done" /\ (Receive \/ Write)

Finished == pc = "done" /\ UNCHANGED vars

Next == Window \/ Callback \/ Worker \/ Finished

\* The operating system runs every thread.
Fairness == WF_vars(Window) /\ WF_vars(Callback) /\ WF_vars(Worker)

Spec == Init /\ [][Next]_vars
FairSpec == Spec /\ Fairness

-----------------------------------------------------------------------------
TypeOK ==
  /\ pc \in {"new_output", "allocate", "enqueue", "arm", "start", "check", "record_started",
             "record_running", "record_status", "create_writer", "initial", "loop", "final",
             "finish", "join", "report", "report_errors", "drop_writer", "disarm", "halt",
             "record_stop", "stop", "dispose", "free", "done"}
  /\ session \in [board : BOOLEAN, capturing : BOOLEAN, frames : 0..MaxFrames,
                  dropped : Nat, soundStarted : BOOLEAN, result : {"running", "ok", "error"},
                  report : [asked : BOOLEAN, broken : BOOLEAN, running : BOOLEAN, failed : BOOLEAN]]
  /\ state \in [allocated : BOOLEAN, running : BOOLEAN, realtime : BOOLEAN]
  /\ device \in [phase : {"none", "open", "started", "stopped", "disposed"},
                 buffer : [Buffer -> {"none", "filled", "queued", "returned", "lost"}]]
  /\ callback \in {"idle", "check", "record", "enqueue", "count", "status", "gauge", "halt"}
  /\ gauge \in [started : BOOLEAN, running : BOOLEAN, errors : Nat,
                status : {"ok", "error"}, callbacks : {0, 1}]
  /\ channel \in [queue : Seq(Capture \cup {Finish}), sender : BOOLEAN]
  /\ worker \in [at : {"none", "receive", "write", "done", "failed"}, hand : Seq(Capture)]
  /\ captured \in [accepted : Seq(Capture), written : Seq(Capture), failed : BOOLEAN]

\* No callback touches the callback state or the audio queue after the state
\* was freed and the queue disposed, on any path out of start, or through Drop
\* (coreaudio.rs:269-286 and the error returns of start).
NoCallbackAfterFree ==
  callback # "idle" => state.allocated /\ device.phase \in {"started", "stopped"}

\* The health report of a session counts the callback as failed if the chain of
\* buffers was broken when the report began, also when the failure fell between
\* the check of running and the recorded start and the gauges say "running"
\* (coreaudio.rs:236-249); and it counts it as failed only if a buffer was lost.
HealthSeesFailure ==
  session.report.asked =>
    /\ session.report.broken => session.report.failed
    /\ session.report.failed => \E b \in Buffer : Holding(b, "lost")

\* While no write has failed, what is written, in the worker's hand and queued is what
\* was accepted, in order, with nothing skipped or repeated, followed at most by the
\* command to finish; and a session that ends well has written every capture it had
\* accepted, among them the first and the last, which are required, and no write has
\* failed unseen (NativePlayGuiCaptureWriter, main.rs:5863-5960).
CapturesKept ==
  /\ worker.at \in {"receive", "write", "done"} =>
       captured.written \o worker.hand \o channel.queue
         \in {captured.accepted, Append(captured.accepted, Finish)}
  /\ session.result = "ok" /\ session.capturing =>
       /\ captured.written = captured.accepted
       /\ Head(captured.written) = Initial
       /\ captured.written[Len(captured.written)] = Final
       /\ ~captured.failed

\* A session outside its loop goes on, into the loop or to its end: neither a full
\* channel, nor a worker that stopped, nor a callback in flight keeps it waiting
\* for ever (main.rs:4440-5231, coreaudio.rs:269-286).
SessionEnds == (pc # "loop") ~> (pc \in {"loop", "done"})
=============================================================================
