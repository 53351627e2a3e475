-------------------------- MODULE PlaySession_proofs --------------------------
(***************************************************************************)
(* The session for any number of buffers, capacity and frames.             *)
(***************************************************************************)
EXTENDS PlaySession, SequenceTheorems, TLAPS

PcType ==
  {"new_output", "allocate", "enqueue", "arm", "start", "check", "record_started",
   "record_running", "record_status", "create_writer", "initial", "loop", "final",
   "finish", "join", "report", "report_errors", "drop_writer", "disarm", "halt",
   "record_stop", "stop", "dispose", "free", "done"}
ReportType == [asked : BOOLEAN, broken : BOOLEAN, running : BOOLEAN, failed : BOOLEAN]
SessionType ==
  [board : BOOLEAN, capturing : BOOLEAN, frames : 0..MaxFrames, dropped : Nat,
   soundStarted : BOOLEAN, result : {"running", "ok", "error"}, report : ReportType]
StateType == [allocated : BOOLEAN, running : BOOLEAN, realtime : BOOLEAN]
BufferType == [Buffer -> {"none", "filled", "queued", "returned", "lost"}]
DeviceType == [phase : {"none", "open", "started", "stopped", "disposed"}, buffer : BufferType]
CallbackType == {"idle", "check", "record", "enqueue", "count", "status", "gauge", "halt"}
GaugeType == [started : BOOLEAN, running : BOOLEAN, errors : Nat, status : {"ok", "error"},
              callbacks : {0, 1}]
ChannelType == [queue : Seq(Capture \cup {Finish}), sender : BOOLEAN]
WorkerType == [at : {"none", "receive", "write", "done", "failed"}, hand : Seq(Capture)]
CapturedType == [accepted : Seq(Capture), written : Seq(Capture), failed : BOOLEAN]

Types ==
  /\ pc \in PcType /\ session \in SessionType
  /\ state \in StateType /\ device \in DeviceType /\ callback \in CallbackType
  /\ gauge \in GaugeType
  /\ channel \in ChannelType /\ worker \in WorkerType /\ captured \in CapturedType

\* The types by their names.
LEMMA TypesNamed == Types <=> TypeOK
  BY DEF Types, TypeOK, PcType, ReportType, SessionType, StateType, BufferType, DeviceType,
         CallbackType, GaugeType, ChannelType, WorkerType, CapturedType

\* A recorded error is a gauge.
LEMMA GaugeOK ==
  ASSUME NEW g \in GaugeType
  PROVE  RecordError(g) \in GaugeType
<1> DEFINE a == [g EXCEPT !.errors = @ + 1]
           b == [a EXCEPT !.status = "error"]
           c == [b EXCEPT !.running = FALSE]
<1>1. a \in GaugeType
  BY DEF GaugeType
<1> HIDE DEF a
<1>2. b \in GaugeType
  BY <1>1 DEF GaugeType
<1> HIDE DEF b
<1>3. c \in GaugeType
  BY <1>2 DEF GaugeType
<1> QED BY <1>3, Zenon DEF RecordError, a, b, c

\* A failing call of start.
LEMMA StartFailsOK ==
  ASSUME Types, NEW next \in PcType, StartFails(next)
  PROVE  gauge' \in GaugeType /\ state' \in StateType /\ session' \in SessionType
         /\ pc' \in PcType
<1>1. gauge' \in GaugeType
  BY GaugeOK DEF StartFails, Types
<1>2. state' \in StateType
  BY DEF StartFails, Types, StateType
<1>3. session' \in SessionType
  BY DEF StartFails, Types, SessionType
<1> QED BY <1>1, <1>2, <1>3 DEF StartFails

\* A moved buffer.
LEMMA MoveOK ==
  ASSUME device \in DeviceType, NEW b \in Buffer,
         NEW s \in {"none", "filled", "queued", "returned", "lost"}
  PROVE  Move(b, s) \in DeviceType
  BY DEF Move, DeviceType, BufferType

\* A session that ends with an error.
LEMMA ResultOK ==
  ASSUME NEW s \in SessionType, NEW r \in {"running", "ok", "error"}
  PROVE  [s EXCEPT !.result = r] \in SessionType
  BY DEF SessionType

\* The start of the output.
LEMMA StartTypes == Types /\ StartOutput => Types'
<1> SUFFICES ASSUME Types, StartOutput PROVE Types'
  OBVIOUS
<1>1. CASE NewOutput
  <2>1. UNCHANGED <<callback, channel, worker, captured>>
    BY <1>1 DEF NewOutput
  <2>2. CASE /\ device' = [device EXCEPT !.phase = "open"]
             /\ state' = [allocated |-> TRUE, running |-> TRUE, realtime |-> FALSE]
             /\ pc' = "allocate"
             /\ UNCHANGED <<gauge, session>>
    <3>1. device' \in DeviceType
      BY <2>2 DEF Types, DeviceType
    <3>2. state' \in StateType
      BY <2>2 DEF StateType
    <3> QED BY <2>1, <2>2, <3>1, <3>2 DEF Types, PcType
  <2>3. CASE StartFails("done") /\ UNCHANGED device
    <3>1. "done" \in PcType
      BY DEF PcType
    <3> QED BY <2>1, <2>3, <3>1, StartFailsOK DEF Types
  <2> QED BY <1>1, <2>2, <2>3 DEF NewOutput
<1>2. CASE NoBoard
  BY <1>2 DEF NoBoard, audio, capture, Types, PcType
<1>3. CASE AllocateBuffer
  BY <1>3, GaugeOK, ResultOK, MoveOK DEF AllocateBuffer, StartFails, Types, PcType, StateType
<1>4. CASE EnqueuePrimed
  BY <1>4, GaugeOK, ResultOK, MoveOK DEF EnqueuePrimed, StartFails, Types, PcType, StateType
<1>5. CASE Arm
  BY <1>5 DEF Arm, Types, PcType, StateType
<1>6. CASE StartQueue
  BY <1>6, GaugeOK, ResultOK DEF StartQueue, StartFails, Types, PcType, StateType, DeviceType
<1>7. CASE CheckRunning
  BY <1>7, ResultOK DEF CheckRunning, Types, PcType, StateType
<1>8. CASE RecordStart
  BY <1>8, ZenonT(40) DEF RecordStart, Types, PcType, SessionType, GaugeType
<1> QED BY <1>1, <1>2, <1>3, <1>4, <1>5, <1>6, <1>7, <1>8 DEF StartOutput

\* The callback.
LEMMA CallbackTypes == Types /\ Callback => Types'
<1> SUFFICES ASSUME Types, Callback PROVE Types'
  OBVIOUS
<1>1. CASE Deliver
  BY <1>1, MoveOK DEF Deliver, At, capture, Types, CallbackType
<1>2. CASE CallbackRunning
  BY <1>2, MoveOK DEF CallbackRunning, Returned, At, capture, Types, CallbackType
<1>3. CASE CallbackRecord
  BY <1>3 DEF CallbackRecord, At, capture, Types, CallbackType, GaugeType
<1>4. CASE CallbackEnqueue
  BY <1>4, MoveOK DEF CallbackEnqueue, Returned, At, capture, Types, CallbackType
<1>5. CASE CallbackFails
  <2>1. /\ UNCHANGED <<pc, session, device, channel, worker, captured>>
        /\ callback' \in CallbackType
    BY <1>5 DEF CallbackFails, At, capture, CallbackType
  <2>2. gauge' \in GaugeType
    <3>1. gauge' = [gauge EXCEPT !.errors = @ + 1] => gauge' \in GaugeType
      BY DEF Types, GaugeType
    <3>2. gauge' = [gauge EXCEPT !.status = "error"] => gauge' \in GaugeType
      BY DEF Types, GaugeType
    <3>3. gauge' = [gauge EXCEPT !.running = FALSE] => gauge' \in GaugeType
      BY DEF Types, GaugeType
    <3> QED BY <1>5, <3>1, <3>2, <3>3 DEF CallbackFails, Types
  <2>3. state' \in StateType
    BY <1>5 DEF CallbackFails, Types, StateType
  <2> QED BY <2>1, <2>2, <2>3 DEF Types
<1> QED BY <1>1, <1>2, <1>3, <1>4, <1>5 DEF Callback

\* What is sent is queued, and accepted if it is a capture.
LEMMA SentOK ==
  ASSUME Types, NEW c \in Capture \cup {Finish}, Sent(c)
  PROVE  channel' \in ChannelType /\ captured' \in CapturedType
<1>1. channel.queue \in Seq(Capture \cup {Finish}) /\ captured.accepted \in Seq(Capture)
  BY DEF Types, ChannelType, CapturedType
<1>2. Append(channel.queue, c) \in Seq(Capture \cup {Finish})
  BY <1>1
<1>3. channel' = [channel EXCEPT !.queue = Append(channel.queue, c)]
  BY DEF Sent
<1>4. channel' \in ChannelType
  BY <1>2, <1>3 DEF Types, ChannelType
<1>5. CASE c = Finish
  <2>1. captured' = captured
    BY <1>5 DEF Sent
  <2> QED BY <1>4, <2>1 DEF Types
<1>6. CASE c # Finish
  <2>1. Append(captured.accepted, c) \in Seq(Capture)
    BY <1>1, <1>6
  <2>2. captured' = [captured EXCEPT !.accepted = Append(captured.accepted, c)]
    BY <1>6 DEF Sent
  <2>3. captured' \in CapturedType
    BY <2>1, <2>2 DEF Types, CapturedType
  <2> QED BY <1>4, <2>3
<1> QED BY <1>5, <1>6

\* A capture sent, and a command.
LEMMA SendOK ==
  ASSUME Types, NEW c \in Capture \cup {Finish}, NEW next \in PcType, Send(c, next)
  PROVE  Types'
<1>1. UNCHANGED <<state, device, callback, gauge, worker>>
  BY DEF Send, audio
<1>2. CASE Sent(c) /\ pc' = next /\ UNCHANGED session
  <2>1. channel' \in ChannelType /\ captured' \in CapturedType
    BY <1>2, SentOK
  <2> QED BY <1>1, <1>2, <2>1 DEF Types
<1>3. CASE ReturnError /\ UNCHANGED <<channel, captured>>
  BY <1>1, <1>3, ResultOK DEF ReturnError, Types, PcType
<1> QED BY <1>2, <1>3 DEF Send

\* The loop, its captures, the report and the drops.
LEMMA PlayTypes == Types /\ Play => Types'
<1> SUFFICES ASSUME Types, Play PROVE Types'
  OBVIOUS
<1>0. /\ 0 \in Capture /\ Final \in Capture /\ \A n \in 0..MaxFrames : n \in Capture
  BY SessionConstants DEF Capture, Final
<1>1. CASE CreateWriter
  <2>1. /\ [queue |-> <<>>, sender |-> TRUE] \in ChannelType
        /\ [at |-> "receive", hand |-> <<>>] \in WorkerType
    BY DEF ChannelType, WorkerType
  <2> QED BY <1>1, <2>1 DEF CreateWriter, audio, Types, PcType
<1>2. CASE CaptureInitial
  BY <1>0, <1>2, SendOK DEF CaptureInitial, Initial, PcType
<1>3. CASE CaptureFinal
  BY <1>0, <1>3, SendOK DEF CaptureFinal, PcType
<1>4. CASE SendFinish
  BY <1>4, SendOK DEF SendFinish, PcType
<1>5. CASE PresentCaptured
  <2> DEFINE c == session.frames + 1
  <2>1. /\ UNCHANGED <<state, device, callback, gauge, worker>> /\ TrySend(c)
        /\ pc = "loop"
    BY <1>5 DEF PresentCaptured, audio
  <2>2. c \in 0..MaxFrames
    BY <1>5, SessionConstants DEF PresentCaptured, Types, SessionType
  <2>3. c \in Capture /\ c \in Nat
    BY <1>0, <2>2, SessionConstants
  <2> HIDE DEF c
  <2>4. CASE Sent(c) /\ session' = [session EXCEPT !.frames = c] /\ pc' = pc
    <3>1. channel' \in ChannelType /\ captured' \in CapturedType
      BY <2>3, <2>4, SentOK
    <3>2. session' \in SessionType
      BY <2>2, <2>4 DEF Types, SessionType
    <3> QED BY <2>1, <2>4, <3>1, <3>2 DEF Types
  <2>5. CASE /\ session' = [session EXCEPT !.frames = c, !.dropped = @ + 1] /\ pc' = pc
             /\ UNCHANGED <<channel, captured>>
    <3> DEFINE presented == [session EXCEPT !.frames = c]
               skipped == [presented EXCEPT !.dropped = session.dropped + 1]
    <3>1. presented \in SessionType /\ session.dropped \in Nat
      BY <2>2 DEF Types, SessionType
    <3> HIDE DEF presented
    <3>2. skipped \in SessionType
      BY <3>1 DEF SessionType
    <3>3. session' \in SessionType
      BY <2>5, <3>2, Zenon DEF presented
    <3> QED BY <2>1, <2>5, <3>3 DEF Types
  <2>6. CASE ReturnError /\ UNCHANGED <<channel, captured>>
    BY <2>1, <2>6, ResultOK DEF ReturnError, Types, PcType
  <2> QED BY <2>1, <2>4, <2>5, <2>6 DEF TrySend
<1>6. CASE Present
  <2>1. session.frames + 1 \in 0..MaxFrames
    BY <1>6, SessionConstants DEF Present, Types, SessionType
  <2>2. session' \in SessionType
    BY <1>6, <2>1 DEF Present, Types, SessionType
  <2> QED BY <1>6, <2>2 DEF Present, audio, capture, Types
<1>7. CASE StepFails
  BY <1>7, ResultOK DEF StepFails, ReturnError, audio, capture, Types, PcType
<1>8. CASE LoopEnds
  BY <1>8 DEF LoopEnds, audio, capture, Types, PcType
<1>9. CASE Join
  <2>1. channel' \in ChannelType
    BY <1>9 DEF Join, Types, ChannelType
  <2> QED BY <1>9, <2>1, ResultOK DEF Join, ReturnError, audio, Types, PcType
<1>10. CASE ReportRunning
  <2>1. UNCHANGED <<state, device, callback, gauge, channel, worker, captured>>
        /\ pc' \in PcType
    BY <1>10 DEF ReportRunning, audio, capture, PcType
  <2>2. CASE session.board
    <3> DEFINE r == [asked |-> FALSE, broken |-> ChainBroken,
                     running |-> gauge.running, failed |-> FALSE]
    <3>1. ChainBroken \in BOOLEAN /\ gauge.running \in BOOLEAN
      BY DEF ChainBroken, Types, GaugeType
    <3>2. r \in ReportType
      BY <3>1 DEF ReportType
    <3>3. session' = [session EXCEPT !.report = r]
      BY <1>10, <2>2 DEF ReportRunning
    <3> HIDE DEF r
    <3>4. session' \in SessionType
      BY <3>2, <3>3 DEF Types, SessionType
    <3> QED BY <2>1, <3>4 DEF Types
  <2>3. CASE ~session.board
    BY <1>10, <2>1, <2>3, ResultOK DEF ReportRunning, Types
  <2> QED BY <2>2, <2>3
<1>11. CASE ReportErrors
  <2>1. UNCHANGED <<state, device, callback, gauge, channel, worker, captured>>
        /\ pc' \in PcType
    BY <1>11 DEF ReportErrors, audio, capture, PcType
  <2> DEFINE f == CallbackFailed(session.report.running)
             r == [asked |-> TRUE, broken |-> session.report.broken,
                   running |-> session.report.running, failed |-> f]
  <2>2. session.report \in ReportType
    BY DEF Types, SessionType
  <2>3. f \in BOOLEAN
    BY DEF CallbackFailed
  <2>4. session' = [session EXCEPT !.result = "ok", !.report.asked = TRUE, !.report.failed = f]
    BY <1>11 DEF ReportErrors
  <2> HIDE DEF f
  <2>5. r \in ReportType
    BY <2>2, <2>3 DEF ReportType
  <2>6. session' = [board |-> session.board, capturing |-> session.capturing,
                    frames |-> session.frames, dropped |-> session.dropped,
                    soundStarted |-> session.soundStarted, result |-> "ok", report |-> r]
    BY <2>2, <2>4 DEF Types, SessionType, ReportType
  <2> HIDE DEF r
  <2>7. session' \in SessionType
    BY <2>5, <2>6 DEF Types, SessionType
  <2> QED BY <2>1, <2>7 DEF Types
<1>12. CASE DropWriter
  <2>1. channel' \in ChannelType
    BY <1>12 DEF DropWriter, Types, ChannelType
  <2> QED BY <1>12, <2>1 DEF DropWriter, audio, Types, PcType
<1>13. CASE DropOutput
  <2>1. /\ UNCHANGED <<session, device, callback, channel, worker, captured>>
        /\ pc' \in PcType
    BY <1>13 DEF DropOutput, capture, PcType
  <2>2. state' \in StateType
    BY <1>13 DEF DropOutput, Types, StateType
  <2>3. gauge' \in GaugeType
    BY <1>13 DEF DropOutput, Types, GaugeType
  <2> QED BY <2>1, <2>2, <2>3 DEF Types
<1> QED BY <1>1, <1>2, <1>3, <1>4, <1>5, <1>6, <1>7, <1>8, <1>9, <1>10, <1>11, <1>12, <1>13
        DEF Play

\* The teardown.
LEMMA TeardownTypes == Types /\ Teardown => Types'
<1> SUFFICES ASSUME Types, Teardown PROVE Types'
  OBVIOUS
<1>1. CASE StopQueue
  BY <1>1 DEF StopQueue, capture, Types, PcType, DeviceType
<1>2. CASE DisposeQueue
  BY <1>2 DEF DisposeQueue, capture, Types, PcType, DeviceType
<1>3. CASE FreeState
  BY <1>3 DEF FreeState, capture, Types, PcType, StateType
<1> QED BY <1>1, <1>2, <1>3 DEF Teardown

\* The capture worker.
LEMMA WorkerTypes == Types /\ Worker => Types'
<1> SUFFICES ASSUME Types, Worker PROVE Types'
  OBVIOUS
<1>1. CASE Receive
  <2>1. UNCHANGED <<pc, session, state, device, callback, gauge, captured>>
    BY <1>1 DEF Receive, audio
  <2>2. CASE channel.queue # <<>>
    <3> DEFINE c == Head(channel.queue)
    <3>1. /\ channel.queue \in Seq(Capture \cup {Finish})
          /\ c \in Capture \cup {Finish} /\ Tail(channel.queue) \in Seq(Capture \cup {Finish})
      BY <2>2 DEF Types, ChannelType
    <3>2. channel' = [channel EXCEPT !.queue = Tail(channel.queue)]
      BY <1>1, <2>2 DEF Receive
    <3>3. channel' \in ChannelType
      BY <3>1, <3>2 DEF Types, ChannelType
    <3>4. worker' = IF c = Finish THEN [at |-> "done", hand |-> <<>>]
                    ELSE [at |-> "write", hand |-> <<c>>]
      BY <1>1, <2>2 DEF Receive
    <3> HIDE DEF c
    <3>5. worker' \in WorkerType
      BY <3>1, <3>4 DEF WorkerType
    <3> QED BY <2>1, <3>3, <3>5 DEF Types
  <2>3. CASE channel.queue = <<>>
    <3>1. worker' = [worker EXCEPT !.at = "done"] /\ channel' = channel
      BY <1>1, <2>3 DEF Receive
    <3>2. worker' \in WorkerType
      BY <3>1 DEF Types, WorkerType
    <3> QED BY <2>1, <3>1, <3>2 DEF Types
  <2> QED BY <2>2, <2>3
<1>2. CASE Write
  <2>1. UNCHANGED <<pc, session, state, device, callback, gauge>>
    BY <1>2 DEF Write, audio
  <2>2. CASE /\ captured' = [captured EXCEPT !.written = captured.written \o worker.hand]
             /\ worker' = [at |-> "receive", hand |-> <<>>]
             /\ UNCHANGED channel
    <3>1. captured.written \o worker.hand \in Seq(Capture)
      BY DEF Types, CapturedType, WorkerType
    <3>2. captured' \in CapturedType
      BY <2>2, <3>1 DEF Types, CapturedType
    <3>3. worker' \in WorkerType
      BY <2>2 DEF WorkerType
    <3> QED BY <2>1, <2>2, <3>2, <3>3 DEF Types
  <2>3. CASE /\ captured' = [captured EXCEPT !.failed = TRUE]
             /\ worker' = [at |-> "failed", hand |-> <<>>]
             /\ channel' = [channel EXCEPT !.queue = <<>>]
    <3>1. captured' \in CapturedType
      BY <2>3 DEF Types, CapturedType
    <3>2. worker' \in WorkerType
      BY <2>3 DEF WorkerType
    <3>3. <<>> \in Seq(Capture \cup {Finish})
      OBVIOUS
    <3>4. channel' \in ChannelType
      BY <2>3, <3>3 DEF Types, ChannelType
    <3> QED BY <2>1, <3>1, <3>2, <3>4 DEF Types
  <2> QED BY <1>2, <2>2, <2>3 DEF Write
<1> QED BY <1>1, <1>2 DEF Worker

\* The types hold throughout.
LEMMA TypesInvariant == Spec => []Types
<1>1. Init => Types
  <2> SUFFICES ASSUME Init PROVE Types
    OBVIOUS
  <2>1. session \in SessionType
    <3>1. 0 \in 0..MaxFrames /\ 0 \in Nat
      BY SessionConstants
    <3>2. [asked |-> FALSE, broken |-> FALSE, running |-> TRUE, failed |-> FALSE] \in ReportType
      BY DEF ReportType
    <3> QED BY <3>1, <3>2 DEF Init, SessionType
  <2>2. state \in StateType /\ device \in DeviceType /\ callback \in CallbackType
    BY DEF Init, StateType, DeviceType, BufferType, CallbackType
  <2>3. gauge \in GaugeType
    BY DEF Init, GaugeType
  <2>4. channel \in ChannelType /\ worker \in WorkerType /\ captured \in CapturedType
    BY DEF Init, ChannelType, WorkerType, CapturedType
  <2> QED BY <2>1, <2>2, <2>3, <2>4 DEF Init, Types, PcType
<1>2. Types /\ [Next]_vars => Types'
  <2> SUFFICES ASSUME Types, [Next]_vars PROVE Types'
    OBVIOUS
  <2>1. CASE UNCHANGED vars
    BY <2>1 DEF vars, Types
  <2> QED BY <2>1, StartTypes, PlayTypes, TeardownTypes, CallbackTypes, WorkerTypes
          DEF Next, Window, Finished
<1> QED BY <1>1, <1>2, PTL DEF Spec

\* Every value has its type.
THEOREM TypeCorrect == Spec => []TypeOK
<1> QED BY TypesInvariant, TypesNamed, PTL

-----------------------------------------------------------------------------
(***************************************************************************)
(* The callback and what it touches.                                       *)
(***************************************************************************)

Early == {"allocate", "enqueue", "arm", "start"}
Up == {"check", "record_started", "record_running", "record_status",
       "disarm", "halt", "record_stop", "stop"}
Live == {"create_writer", "initial", "loop", "final", "finish", "join", "report",
         "report_errors", "drop_writer"}

\* Where the window thread is tells what there is of the queue and of the state.
PhaseInv ==
  /\ pc = "new_output" => device.phase = "none"
  /\ pc \in Early => device.phase = "open" /\ state.allocated /\ session.board
  /\ pc \in Up => device.phase = "started" /\ state.allocated /\ session.board
  /\ pc \in Live => IF session.board THEN device.phase = "started" /\ state.allocated
                                     ELSE device.phase = "none"
  /\ pc = "dispose" => device.phase \in {"open", "stopped"} /\ state.allocated
  /\ pc = "free" => device.phase = "disposed"
  /\ pc \in {"free", "done"} => callback = "idle"
  /\ callback # "idle" => device.phase \in {"started", "stopped"}

\* It does what it is for.
LEMMA PhaseSuffices == Types /\ PhaseInv => NoCallbackAfterFree
  BY DEF Types, PcType, PhaseInv, NoCallbackAfterFree, Early, Up, Live

\* A failing call of start.
LEMMA StartFailsFacts ==
  ASSUME Types, NEW next, StartFails(next)
  PROVE  /\ pc' = next /\ state'.allocated = state.allocated /\ ~state'.running
         /\ session'.board = session.board /\ session'.soundStarted = session.soundStarted
         /\ session'.report = session.report
         /\ gauge'.errors = gauge.errors + 1 /\ gauge'.running = FALSE
<1>1. /\ state'.allocated = state.allocated /\ ~state'.running
  BY DEF StartFails, Types, StateType
<1>2. /\ session'.board = session.board /\ session'.soundStarted = session.soundStarted
      /\ session'.report = session.report
  BY DEF StartFails, Types, SessionType
<1>3. gauge'.errors = gauge.errors + 1 /\ gauge'.running = FALSE
  BY DEF StartFails, RecordError, Types, GaugeType
<1> QED BY <1>1, <1>2, <1>3 DEF StartFails

\* A moved buffer leaves the phase alone.
LEMMA MoveFacts ==
  ASSUME device \in DeviceType, NEW b \in Buffer, NEW s
  PROVE  /\ Move(b, s).phase = device.phase
         /\ Move(b, s).buffer = [device.buffer EXCEPT ![b] = s]
  BY DEF Move, DeviceType

\* The window thread keeps it.
LEMMA WindowPhase == Types /\ PhaseInv /\ Window => PhaseInv'
<1> SUFFICES ASSUME Types, PhaseInv, Window PROVE PhaseInv'
  OBVIOUS
<1>0. device \in DeviceType /\ state \in StateType /\ session \in SessionType
  BY DEF Types
<1>1. CASE NewOutput
  <2>1. callback' = callback /\ pc = "new_output" /\ session.board
    BY <1>1 DEF NewOutput
  <2>2. CASE StartFails("done") /\ UNCHANGED device
    <3>1. pc' = "done" /\ device' = device
      BY <2>2, StartFailsFacts
    <3> QED BY <2>1, <3>1 DEF PhaseInv, Early, Up, Live
  <2>3. CASE ~(StartFails("done") /\ UNCHANGED device)
    <3>1. /\ device' = [device EXCEPT !.phase = "open"]
          /\ state' = [allocated |-> TRUE, running |-> TRUE, realtime |-> FALSE]
          /\ pc' = "allocate"
      BY <1>1, <2>3 DEF NewOutput
    <3>2. device'.phase = "open" /\ state'.allocated
      BY <1>0, <3>1 DEF DeviceType
    <3>3. pc' = "allocate" /\ session' = session
      BY <1>1, <2>3, <3>1 DEF NewOutput
    <3> QED BY <2>1, <3>2, <3>3 DEF PhaseInv, Early, Up, Live
  <2> QED BY <2>2, <2>3
<1>2. CASE NoBoard
  <2>1. /\ pc = "new_output" /\ ~session.board /\ pc' = "create_writer"
        /\ UNCHANGED <<session, state, device, callback>>
    BY <1>2 DEF NoBoard, audio
  <2> QED BY <2>1 DEF PhaseInv, Early, Up, Live
<1>3. CASE AllocateBuffer \/ EnqueuePrimed \/ StartQueue
  <2>1. pc \in Early /\ callback' = callback
    BY <1>3 DEF AllocateBuffer, EnqueuePrimed, StartQueue, Early
  <2>2. device.phase = "open" /\ state.allocated /\ session.board
    BY <2>1 DEF PhaseInv
  <2>3. CASE StartFails("dispose") /\ UNCHANGED device
    <3>1. pc' = "dispose" /\ device' = device /\ state'.allocated
      BY <2>2, <2>3, StartFailsFacts
    <3> QED BY <2>1, <2>2, <3>1 DEF PhaseInv, Early, Up, Live
  <2>4. CASE ~(StartFails("dispose") /\ UNCHANGED device) /\ ~StartQueue
    <3>1. pc' \in Early /\ state' = state /\ session' = session
      BY <1>3, <2>4 DEF AllocateBuffer, EnqueuePrimed, Early
    <3>2. device' = device \/ \E b \in Buffer, x \in {"filled", "queued"} : device' = Move(b, x)
      BY <1>3, <2>4 DEF AllocateBuffer, EnqueuePrimed
    <3>3. device'.phase = device.phase
      BY <1>0, <3>2, MoveFacts
    <3> QED BY <2>1, <2>2, <3>1, <3>3 DEF PhaseInv, Early, Up, Live
  <2>5. CASE ~(StartFails("dispose") /\ UNCHANGED device) /\ StartQueue
    <3>1. /\ pc' = "check" /\ state' = state /\ session' = session
          /\ device' = [device EXCEPT !.phase = "started"]
      BY <2>5 DEF StartQueue
    <3>2. device'.phase = "started"
      BY <1>0, <3>1 DEF DeviceType
    <3> QED BY <2>1, <2>2, <3>1, <3>2 DEF PhaseInv, Early, Up, Live
  <2> QED BY <2>3, <2>4, <2>5
<1>4. CASE Arm
  <2>1. /\ pc = "arm" /\ pc' = "start" /\ UNCHANGED <<session, device, callback>>
        /\ state'.allocated = state.allocated
    BY <1>0, <1>4 DEF Arm, StateType
  <2> QED BY <2>1 DEF PhaseInv, Early, Up, Live
<1>5. CASE CheckRunning \/ RecordStart \/ DropOutput
  <2>1. UNCHANGED <<device, callback>> /\ pc \in Up
    BY <1>5 DEF CheckRunning, RecordStart, DropOutput, Up
  <2>2. state'.allocated = state.allocated
    BY <1>0, <1>5 DEF CheckRunning, RecordStart, DropOutput, StateType
  <2>3. pc' \in Up \cup {"create_writer"}
    BY <1>5 DEF CheckRunning, RecordStart, DropOutput, Up
  <2>4. session'.board = session.board
    BY <1>0, <1>5 DEF CheckRunning, RecordStart, DropOutput, SessionType
  <2> QED BY <2>1, <2>2, <2>3, <2>4 DEF PhaseInv, Early, Up, Live
<1>6. CASE DropWriter
  <2>1. /\ pc = "drop_writer" /\ pc' = IF session.board THEN "disarm" ELSE "done"
        /\ UNCHANGED <<session, state, device, callback>>
    BY <1>6 DEF DropWriter, audio
  <2> QED BY <2>1 DEF PhaseInv, Early, Up, Live
<1>7. CASE Play /\ ~DropOutput /\ ~DropWriter
  <2>1. UNCHANGED <<state, device, callback>>
    BY <1>7 DEF Play, CreateWriter, CaptureInitial, CaptureFinal, SendFinish, Send,
         Present, PresentCaptured, StepFails, LoopEnds, Join, ReportRunning, ReportErrors, audio
  <2>2. pc \in Live /\ pc' \in Live
    BY <1>7 DEF Play, CreateWriter, CaptureInitial, CaptureFinal, SendFinish, Send,
         Present, PresentCaptured, TrySend, StepFails, ReturnError, LoopEnds, Join,
         ReportRunning, ReportErrors, Live
  <2>3. session'.board = session.board
    BY <1>0, <1>7 DEF Play, CreateWriter, CaptureInitial, CaptureFinal, SendFinish, Send,
         Present, PresentCaptured, TrySend, StepFails, ReturnError, LoopEnds, Join,
         ReportRunning, ReportErrors, SessionType
  <2> QED BY <2>1, <2>2, <2>3 DEF PhaseInv, Early, Up, Live
<1>8. CASE StopQueue
  <2>1. /\ pc = "stop" /\ pc' = "dispose" /\ UNCHANGED <<session, state, callback>>
        /\ device'.phase = "stopped"
    BY <1>0, <1>8 DEF StopQueue, DeviceType
  <2> QED BY <2>1 DEF PhaseInv, Early, Up, Live
<1>9. CASE DisposeQueue
  <2>1. /\ pc = "dispose" /\ pc' = "free" /\ callback = "idle"
        /\ UNCHANGED <<session, state, callback>> /\ device'.phase = "disposed"
    BY <1>0, <1>9 DEF DisposeQueue, DeviceType
  <2> QED BY <2>1 DEF PhaseInv, Early, Up, Live
<1>10. CASE FreeState
  <2>1. pc = "free" /\ pc' = "done" /\ callback' = callback
    BY <1>10 DEF FreeState
  <2> QED BY <2>1 DEF PhaseInv, Early, Up, Live
<1> QED BY <1>1, <1>2, <1>3, <1>4, <1>5, <1>6, <1>7, <1>8, <1>9, <1>10
        DEF Window, StartOutput, Play, Teardown

\* So do the callbacks, which run between the start and the disposal only.
LEMMA CallbackPhase == Types /\ PhaseInv /\ Callback => PhaseInv'
<1> SUFFICES ASSUME Types, PhaseInv, Callback PROVE PhaseInv'
  OBVIOUS
<1>0. device \in DeviceType /\ state \in StateType /\ pc \in PcType
  BY DEF Types
<1>1. UNCHANGED <<pc, session>>
  BY DEF Callback, Deliver, CallbackRunning, CallbackRecord, CallbackEnqueue, CallbackFails
<1>2. state'.allocated = state.allocated
  BY <1>0 DEF Callback, Deliver, CallbackRunning, CallbackRecord, CallbackEnqueue,
     CallbackFails, StateType
<1>3. device' = device \/ \E b \in Buffer, x \in {"queued", "returned", "lost"} : device' = Move(b, x)
  BY DEF Callback, Deliver, CallbackRunning, CallbackRecord, CallbackEnqueue,
     CallbackFails, Returned
<1>4. device'.phase = device.phase
  BY <1>0, <1>3, MoveFacts
<1>5. device.phase \in {"started", "stopped"}
  BY DEF Callback, Deliver, CallbackRunning, CallbackRecord, CallbackEnqueue,
     CallbackFails, At, PhaseInv
<1>6. pc \notin {"free", "done"}
  BY <1>5 DEF PhaseInv, Callback
<1> QED BY <1>1, <1>2, <1>4, <1>5, <1>6 DEF PhaseInv

\* The phases hold throughout.
LEMMA PhaseInvariant == Spec => []PhaseInv
<1>1. Init => PhaseInv
  BY DEF Init, PhaseInv, Early, Up, Live
<1>2. Types /\ PhaseInv /\ [Next]_vars => PhaseInv'
  <2> SUFFICES ASSUME Types, PhaseInv, [Next]_vars PROVE PhaseInv'
    OBVIOUS
  <2>1. CASE Worker \/ UNCHANGED vars
    <3>1. UNCHANGED <<pc, session, state, device, callback>>
      BY <2>1 DEF Worker, Receive, Write, audio, vars
    <3> QED BY <3>1 DEF PhaseInv
  <2> QED BY <2>1, WindowPhase, CallbackPhase DEF Next, Finished
<1> QED BY <1>1, <1>2, TypesInvariant, PTL DEF Spec

\* No callback touches the callback state or the audio queue once they are gone.
THEOREM CallbacksEndFirst == Spec => []NoCallbackAfterFree
<1> QED BY TypesInvariant, PhaseInvariant, PhaseSuffices, PTL

-----------------------------------------------------------------------------
(***************************************************************************)
(* What the health report says of the callback.                            *)
(***************************************************************************)

Lost == \E b \in Buffer : Holding(b, "lost")

\* The last steps of the drop, and of a failed start.
Gone == {"dispose", "free", "done"}
Stopping == Gone \cup {"stop"}
Halted == Stopping \cup {"record_stop"}

\* A broken chain, the count of errors, the flag and the gauge explain each other.
HealthInv ==
  /\ callback \in {"count", "status", "gauge", "halt"} => Lost
  /\ callback \in {"status", "gauge", "halt"} => gauge.errors > 0
  /\ gauge.errors > 0 => Lost \/ pc \in Gone
  /\ Lost => gauge.errors > 0 \/ callback = "count" \/ pc \in Halted
  /\ state.allocated /\ ~state.running => gauge.errors > 0 \/ pc \in Halted
  /\ pc = "record_status" /\ ~gauge.running => Lost
  /\ session.soundStarted /\ ~gauge.running => Lost \/ pc \in Stopping
  /\ pc = "report_errors" =>
       /\ session.soundStarted /\ ~session.report.running => Lost
       /\ session.report.broken => gauge.errors > 0
  /\ session.report.asked =>
       /\ session.report.broken => session.report.failed
       /\ session.report.failed => Lost

LEMMA HealthSuffices == HealthInv => HealthSeesFailure
  BY DEF HealthInv, HealthSeesFailure, Lost

\* A buffer that is not lost moves: what was lost stays lost.
LEMMA LostMove ==
  ASSUME device \in DeviceType, NEW b \in Buffer, ~Holding(b, "lost"), NEW s,
         device' = Move(b, s)
  PROVE  IF s = "lost" THEN Lost' ELSE Lost' = Lost
<1>1. device'.buffer = [device.buffer EXCEPT ![b] = s]
  BY MoveFacts
<1>2. DOMAIN device.buffer = Buffer
  BY DEF DeviceType, BufferType
<1>3. \A c \in Buffer : device'.buffer[c] = IF c = b THEN s ELSE device.buffer[c]
  BY <1>1, <1>2
<1> QED BY <1>3 DEF Lost, Holding

\* Lost is about the buffers only.
LEMMA LostSame ==
  ASSUME device'.buffer = device.buffer
  PROVE  Lost' = Lost
  BY DEF Lost, Holding

\* Steps that leave the gauges and the report alone, and lead no earlier.
LEMMA HealthKept ==
  ASSUME Types, HealthInv, Lost' = Lost, callback' = callback,
         gauge'.errors = gauge.errors, gauge'.running = gauge.running,
         session'.soundStarted = session.soundStarted, session'.report = session.report,
         state'.allocated => state'.running \/ pc' \in Halted
                              \/ (state.allocated /\ ~state.running /\ ~state'.running),
         pc' \notin {"record_status", "report_errors"},
         pc \in Gone => pc' \in Gone,
         pc \in Stopping => pc' \in Stopping,
         pc \in Halted => pc' \in Halted
  PROVE  HealthInv'
  BY DEF HealthInv

\* A failing call of start.
LEMMA HealthStartFails ==
  ASSUME Types, HealthInv, NEW next \in Gone, StartFails(next), UNCHANGED <<device, callback>>
  PROVE  HealthInv'
<1>1. /\ pc' \in Gone /\ pc' \in Stopping /\ pc' \in Halted
      /\ pc' \notin {"record_status", "report_errors"}
  BY StartFailsFacts DEF Gone, Stopping, Halted
<1>2. gauge.errors \in Nat /\ gauge'.errors > 0
  <2>1. gauge.errors \in Nat /\ gauge'.errors = gauge.errors + 1
    BY StartFailsFacts DEF Types, GaugeType
  <2> QED BY <2>1
<1>3. session'.soundStarted = session.soundStarted /\ session'.report = session.report
  BY StartFailsFacts
<1>4. Lost' = Lost
  BY LostSame
<1> QED BY <1>1, <1>2, <1>3, <1>4 DEF HealthInv

\* The window thread keeps it, start first.
LEMMA HealthStart == Types /\ PhaseInv /\ HealthInv /\ StartOutput => HealthInv'
<1> SUFFICES ASSUME Types, PhaseInv, HealthInv, StartOutput PROVE HealthInv'
  OBVIOUS
<1>0. /\ device \in DeviceType /\ state \in StateType /\ session \in SessionType
      /\ gauge \in GaugeType
  BY DEF Types
<1>1. callback' = callback
  BY DEF StartOutput, NewOutput, NoBoard, AllocateBuffer, EnqueuePrimed, Arm, StartQueue,
     CheckRunning, RecordStart, audio
<1>2. CASE NewOutput \/ AllocateBuffer \/ EnqueuePrimed \/ StartQueue
  <2>1. CASE (StartFails("dispose") \/ StartFails("done")) /\ UNCHANGED device
    BY <1>1, <2>1, HealthStartFails DEF Gone
  <2>2. CASE ~((StartFails("dispose") \/ StartFails("done")) /\ UNCHANGED device)
    <3>1. gauge' = gauge /\ session' = session
      BY <1>2, <2>2 DEF NewOutput, AllocateBuffer, EnqueuePrimed, StartQueue
    <3>2. pc \in {"new_output", "allocate", "enqueue", "start"}
          /\ pc' \in {"allocate", "enqueue", "arm", "check"}
      BY <1>2, <2>2 DEF NewOutput, AllocateBuffer, EnqueuePrimed, StartQueue
    <3>3. state' = state \/ state'.running
      BY <1>2, <2>2 DEF NewOutput, AllocateBuffer, EnqueuePrimed, StartQueue
    <3>4. Lost' = Lost
      <4>1. CASE NewOutput \/ StartQueue
        <5>1. device' = [device EXCEPT !.phase = "open"]
              \/ device' = [device EXCEPT !.phase = "started"]
          BY <2>2, <4>1 DEF NewOutput, StartQueue
        <5>2. device'.buffer = device.buffer
          BY <1>0, <5>1 DEF DeviceType
        <5> QED BY <5>2, LostSame
      <4>2. CASE AllocateBuffer \/ EnqueuePrimed
        <5>1. \/ device' = device
              \/ \E b \in Buffer, x \in {"filled", "queued"} :
                    ~Holding(b, "lost") /\ device' = Move(b, x)
          BY <2>2, <4>2 DEF AllocateBuffer, EnqueuePrimed, Holding
        <5> QED BY <1>0, <5>1, LostMove, LostSame
      <4> QED BY <1>2, <4>1, <4>2
    <3>5. /\ pc' \notin {"record_status", "report_errors"}
          /\ pc \notin Gone /\ pc \notin Stopping /\ pc \notin Halted
      BY <3>2 DEF Gone, Stopping, Halted
    <3>6. state'.allocated => state'.running \/ pc' \in Halted
                              \/ (state.allocated /\ ~state.running /\ ~state'.running)
      BY <3>3
    <3> QED BY <1>1, <3>1, <3>4, <3>5, <3>6, HealthKept
  <2> QED BY <2>1, <2>2
<1>3. CASE NoBoard \/ Arm \/ CheckRunning
  <2>1. device' = device /\ gauge' = gauge
    BY <1>3 DEF NoBoard, Arm, CheckRunning, audio
  <2>2. state'.allocated = state.allocated /\ state'.running = state.running
    BY <1>0, <1>3 DEF NoBoard, Arm, CheckRunning, audio, StateType
  <2>3. session'.soundStarted = session.soundStarted /\ session'.report = session.report
    BY <1>0, <1>3 DEF NoBoard, Arm, CheckRunning, SessionType
  <2>4. pc \in {"new_output", "arm", "check"}
        /\ pc' \in {"create_writer", "start", "record_started", "stop"}
    BY <1>3 DEF NoBoard, Arm, CheckRunning
  <2>5. /\ pc' \notin {"record_status", "report_errors"}
        /\ pc \notin Gone /\ pc \notin Stopping /\ pc \notin Halted
    BY <2>4 DEF Gone, Stopping, Halted
  <2>6. Lost' = Lost
    BY <2>1, LostSame
  <2>7. state'.allocated => state'.running \/ pc' \in Halted
                              \/ (state.allocated /\ ~state.running /\ ~state'.running)
    BY <2>2
  <2> QED BY <1>1, <2>1, <2>3, <2>5, <2>6, <2>7, HealthKept
<1>4. CASE RecordStart
  <2>1. device' = device /\ state' = state
    BY <1>4 DEF RecordStart
  <2>2. Lost' = Lost
    BY <2>1, LostSame
  <2>3. gauge'.errors = gauge.errors
    BY <1>0, <1>4 DEF RecordStart, GaugeType
  <2>4. session'.report = session.report
    BY <1>0, <1>4 DEF RecordStart, SessionType
  <2>5. pc \notin Halted /\ pc' \notin {"report_errors"}
        /\ pc \notin Gone /\ pc \notin Stopping
    BY <1>4 DEF RecordStart, Gone, Stopping, Halted
  <2>6. CASE pc = "record_started"
    <3>1. gauge'.running = gauge.running /\ session' = session /\ pc' = "record_running"
      BY <1>0, <1>4, <2>6 DEF RecordStart, GaugeType
    <3> QED BY <1>1, <2>1, <2>2, <2>3, <2>4, <2>5, <3>1 DEF HealthInv
  <2>7. CASE pc = "record_running"
    <3>1. gauge'.running /\ session' = session /\ pc' = "record_status"
      BY <1>0, <1>4, <2>7 DEF RecordStart, GaugeType
    <3> QED BY <1>1, <2>1, <2>2, <2>3, <2>4, <2>5, <3>1 DEF HealthInv
  <2>8. CASE pc = "record_status"
    <3>1. gauge'.running = gauge.running /\ pc' = "create_writer"
      BY <1>0, <1>4, <2>8 DEF RecordStart, GaugeType
    <3> QED BY <1>1, <2>1, <2>2, <2>3, <2>4, <2>5, <2>8, <3>1 DEF HealthInv
  <2> QED BY <1>4, <2>6, <2>7, <2>8 DEF RecordStart
<1> QED BY <1>2, <1>3, <1>4 DEF StartOutput
\* Then the loop, the report and the drop.
LEMMA HealthPlay == Types /\ HealthInv /\ (Play \/ Teardown) => HealthInv'
<1> SUFFICES ASSUME Types, HealthInv, Play \/ Teardown PROVE HealthInv'
  OBVIOUS
<1>0. /\ device \in DeviceType /\ state \in StateType /\ session \in SessionType
      /\ gauge \in GaugeType
  BY DEF Types
<1>1. callback' = callback
  BY DEF Play, CreateWriter, CaptureInitial, CaptureFinal, SendFinish, Send, Present,
     PresentCaptured, StepFails, LoopEnds, Join, ReportRunning, ReportErrors, DropWriter,
     DropOutput, Teardown, StopQueue, DisposeQueue, FreeState, audio
<1>2. Lost' = Lost
  <2>1. device' = device \/ device' = [device EXCEPT !.phase = "stopped"]
          \/ device' = [device EXCEPT !.phase = "disposed"]
    BY DEF Play, CreateWriter, CaptureInitial, CaptureFinal, SendFinish, Send, Present,
       PresentCaptured, StepFails, LoopEnds, Join, ReportRunning, ReportErrors, DropWriter,
       DropOutput, Teardown, StopQueue, DisposeQueue, FreeState, audio
  <2>2. device'.buffer = device.buffer
    BY <1>0, <2>1 DEF DeviceType
  <2> QED BY <2>2, LostSame
<1>3. CASE Play /\ ~ReportRunning /\ ~ReportErrors /\ ~DropOutput
  <2>1. gauge' = gauge /\ state' = state
    BY <1>3 DEF Play, CreateWriter, CaptureInitial, CaptureFinal, SendFinish, Send, Present,
       PresentCaptured, StepFails, LoopEnds, Join, DropWriter, audio
  <2>2. session'.soundStarted = session.soundStarted /\ session'.report = session.report
    BY <1>0, <1>3 DEF Play, CreateWriter, CaptureInitial, CaptureFinal, SendFinish, Send, Present,
       PresentCaptured, TrySend, StepFails, ReturnError, LoopEnds, Join, DropWriter, SessionType
  <2>3. /\ pc \in Live
        /\ pc' \in Live \cup {"disarm", "done"} /\ pc' # "report_errors"
    BY <1>3 DEF Play, CreateWriter, CaptureInitial, CaptureFinal, SendFinish, Send, Present,
       PresentCaptured, TrySend, StepFails, ReturnError, LoopEnds, Join, DropWriter, Live
  <2>4. /\ pc' \notin {"record_status", "report_errors"}
        /\ pc \notin Gone /\ pc \notin Stopping /\ pc \notin Halted
    BY <2>3 DEF Live, Gone, Stopping, Halted
  <2>5. state'.allocated => state'.running \/ pc' \in Halted
                              \/ (state.allocated /\ ~state.running /\ ~state'.running)
    BY <2>1
  <2> QED BY <1>1, <1>2, <2>1, <2>2, <2>4, <2>5, HealthKept
<1>4. CASE ReportRunning
  <2>1. UNCHANGED <<gauge, state, device>> /\ pc = "report"
    BY <1>4 DEF ReportRunning, audio
  <2>2. pc \notin Gone /\ pc \notin Stopping /\ pc \notin Halted
    BY <2>1 DEF Gone, Stopping, Halted
  <2>3. session'.soundStarted = session.soundStarted
    BY <1>0, <1>4 DEF ReportRunning, SessionType
  <2>4. CASE ~session.board
    <3>1. session'.report = session.report /\ pc' = "drop_writer"
      BY <1>0, <1>4, <2>4 DEF ReportRunning, SessionType
    <3> QED BY <1>1, <1>2, <2>1, <2>2, <2>3, <3>1 DEF HealthInv
  <2>5. CASE session.board
    <3> DEFINE r == [asked |-> FALSE, broken |-> ChainBroken,
                     running |-> gauge.running, failed |-> FALSE]
    <3>1. session' = [session EXCEPT !.report = r] /\ pc' = "report_errors"
      BY <1>4, <2>5 DEF ReportRunning
    <3>2. session'.report = r
      BY <1>0, <3>1 DEF SessionType
    <3>3. /\ ~session'.report.asked /\ session'.report.running = gauge.running
          /\ session'.report.broken = ChainBroken
      BY <3>2
    <3>4. ChainBroken => gauge.errors > 0
      BY <2>2 DEF ChainBroken, Lost, HealthInv
    <3>5. pc' = "report_errors"
      BY <3>1
    <3> QED BY <1>1, <1>2, <2>1, <2>2, <2>3, <3>3, <3>4, <3>5 DEF HealthInv
  <2> QED BY <2>4, <2>5
<1>5. CASE ReportErrors
  <2>1. /\ UNCHANGED <<gauge, state, device>> /\ pc = "report_errors" /\ pc' = "drop_writer"
    BY <1>5 DEF ReportErrors, audio
  <2>2. /\ session'.soundStarted = session.soundStarted
        /\ session'.report.broken = session.report.broken
        /\ session'.report.failed = CallbackFailed(session.report.running)
    BY <1>0, <1>5 DEF ReportErrors, SessionType, ReportType
  <2>3. /\ pc \notin Gone /\ pc \notin Stopping /\ pc \notin Halted
    BY <2>1 DEF Gone, Stopping, Halted
  <2>4. session.report.broken => CallbackFailed(session.report.running)
    BY <2>1 DEF HealthInv, CallbackFailed
  <2>5. CallbackFailed(session.report.running) => Lost
    BY <2>1, <2>3 DEF HealthInv, CallbackFailed
  <2> QED BY <1>1, <1>2, <2>1, <2>2, <2>3, <2>4, <2>5 DEF HealthInv
<1>6. CASE DropOutput
  <2>1. session' = session /\ device' = device
    BY <1>6 DEF DropOutput, capture
  <2>2. gauge'.errors = gauge.errors
    BY <1>0, <1>6 DEF DropOutput, GaugeType
  <2>3. state'.allocated = state.allocated
    BY <1>0, <1>6 DEF DropOutput, StateType
  <2>4. CASE pc = "disarm"
    <3>1. gauge' = gauge /\ state'.running = state.running /\ pc' = "halt"
      BY <1>0, <1>6, <2>4 DEF DropOutput, StateType
    <3>2. /\ pc' \notin {"record_status", "report_errors"}
          /\ pc \notin Gone /\ pc \notin Stopping /\ pc \notin Halted
      BY <2>4, <3>1 DEF Gone, Stopping, Halted
    <3>3. state'.allocated => state'.running \/ pc' \in Halted
                                \/ (state.allocated /\ ~state.running /\ ~state'.running)
      BY <2>3, <3>1
    <3> QED BY <1>1, <1>2, <2>1, <3>1, <3>2, <3>3, HealthKept
  <2>5. CASE pc = "halt"
    <3>1. gauge' = gauge /\ pc' = "record_stop"
      BY <1>6, <2>5 DEF DropOutput
    <3>2. /\ pc' \notin {"record_status", "report_errors"} /\ pc' \in Halted
          /\ pc \notin Gone /\ pc \notin Stopping /\ pc \notin Halted
      BY <2>5, <3>1 DEF Gone, Stopping, Halted
    <3> QED BY <1>1, <1>2, <2>1, <3>1, <3>2, HealthKept
  <2>6. CASE pc = "record_stop"
    <3>1. pc' = "stop" /\ ~gauge'.running
      BY <1>0, <1>6, <2>6 DEF DropOutput, GaugeType
    <3>2. /\ pc' \in Stopping /\ pc' \in Halted /\ pc \notin Gone
      BY <2>6, <3>1 DEF Gone, Stopping, Halted
    <3> QED BY <1>1, <1>2, <2>1, <2>2, <3>1, <3>2 DEF HealthInv
  <2> QED BY <1>6, <2>4, <2>5, <2>6 DEF DropOutput
<1>7. CASE Teardown
  <2>1. session' = session /\ gauge' = gauge
    BY <1>7 DEF Teardown, StopQueue, DisposeQueue, FreeState
  <2>2. pc' \in Gone /\ pc' \in Stopping /\ pc' \in Halted
    BY <1>7 DEF Teardown, StopQueue, DisposeQueue, FreeState, Gone, Stopping, Halted
  <2>3. pc' \notin {"record_status", "report_errors"}
    BY <2>2 DEF Gone
  <2> QED BY <1>1, <1>2, <2>1, <2>2, <2>3, HealthKept
<1> QED BY <1>3, <1>4, <1>5, <1>6, <1>7 DEF Play

\* The callback keeps it: what it loses it counts before it stops the output.
LEMMA HealthCallback == Types /\ PhaseInv /\ HealthInv /\ Callback => HealthInv'
<1> SUFFICES ASSUME Types, PhaseInv, HealthInv, Callback PROVE HealthInv'
  OBVIOUS
<1>0. /\ device \in DeviceType /\ state \in StateType /\ gauge \in GaugeType
  BY DEF Types
<1>1. UNCHANGED <<pc, session>>
  BY DEF Callback, Deliver, CallbackRunning, CallbackRecord, CallbackEnqueue, CallbackFails
<1>2. state'.allocated = state.allocated
  BY <1>0 DEF Callback, Deliver, CallbackRunning, CallbackRecord, CallbackEnqueue,
     CallbackFails, StateType
<1>3. CASE Deliver
  <2>1. /\ UNCHANGED <<state, gauge>> /\ callback' = "check"
        /\ \E b \in Buffer : ~Holding(b, "lost") /\ device' = Move(b, "returned")
    BY <1>3 DEF Deliver, At, Holding
  <2>2. Lost' = Lost
    BY <1>0, <2>1, LostMove
  <2>3. callback = "idle"
    BY <1>3 DEF Deliver, At
  <2>4. callback' = "check" /\ UNCHANGED <<state, gauge>>
    BY <2>1
  <2> QED BY <1>1, <2>2, <2>3, <2>4 DEF HealthInv
<1>4. CASE CallbackRunning
  <2>1. UNCHANGED <<state, gauge>> /\ callback = "check"
    BY <1>4 DEF CallbackRunning, At
  <2>2. CASE state.running
    <3>1. device' = device /\ callback' = "record"
      BY <1>4, <2>2 DEF CallbackRunning, At
    <3>2. Lost' = Lost
      BY <3>1, LostSame
    <3> QED BY <1>1, <2>1, <3>1, <3>2 DEF HealthInv
  <2>3. CASE ~state.running
    <3>1. /\ callback' = "idle"
          /\ \E b \in Buffer : ~Holding(b, "lost") /\ device' = Move(b, "lost")
      BY <1>4, <2>3 DEF CallbackRunning, At, Returned, Holding
    <3>2. Lost'
      BY <1>0, <3>1, LostMove
    <3>3. state.allocated
      BY <2>1, PhaseSuffices DEF NoCallbackAfterFree
    <3>4. gauge.errors > 0 \/ pc \in Halted
      BY <2>3, <3>3 DEF HealthInv
    <3>5. callback' = "idle"
      BY <3>1
    <3> QED BY <1>1, <2>1, <3>2, <3>4, <3>5 DEF HealthInv
  <2> QED BY <2>2, <2>3
<1>5. CASE CallbackRecord
  <2>1. /\ UNCHANGED <<state, device>> /\ callback = "record" /\ callback' = "enqueue"
    BY <1>5 DEF CallbackRecord, At
  <2>2. gauge'.errors = gauge.errors /\ gauge'.running = gauge.running
    BY <1>0, <1>5 DEF CallbackRecord, GaugeType
  <2>3. Lost' = Lost
    BY <2>1, LostSame
  <2> QED BY <1>1, <2>1, <2>2, <2>3 DEF HealthInv
<1>6. CASE CallbackEnqueue
  <2>1. UNCHANGED <<state, gauge>> /\ callback = "enqueue"
    BY <1>6 DEF CallbackEnqueue, At
  <2>2. CASE callback' = "idle"
    <3>1. \E b \in Buffer : ~Holding(b, "lost") /\ device' = Move(b, "queued")
      BY <1>6, <2>2 DEF CallbackEnqueue, At, Returned, Holding
    <3>2. Lost' = Lost
      BY <1>0, <3>1, LostMove
    <3> QED BY <1>1, <2>1, <2>2, <3>2 DEF HealthInv
  <2>3. CASE callback' = "count"
    <3>1. \E b \in Buffer : ~Holding(b, "lost") /\ device' = Move(b, "lost")
      BY <1>6, <2>3 DEF CallbackEnqueue, At, Returned, Holding
    <3>2. Lost'
      BY <1>0, <3>1, LostMove
    <3> QED BY <1>1, <2>1, <2>3, <3>2 DEF HealthInv
  <2> QED BY <1>6, <2>2, <2>3 DEF CallbackEnqueue, At
<1>7. CASE CallbackFails
  <2>1. device' = device
    BY <1>7 DEF CallbackFails
  <2>2. Lost' = Lost /\ Lost
    BY <1>7, <2>1, LostSame DEF CallbackFails, At, HealthInv
  <2>3. CASE callback = "count"
    <3>1. /\ callback' = "status" /\ state' = state
          /\ gauge'.errors = gauge.errors + 1 /\ gauge'.running = gauge.running
      BY <1>0, <1>7, <2>3 DEF CallbackFails, At, GaugeType
    <3>2. gauge.errors \in Nat
      BY <1>0 DEF GaugeType
    <3>3. gauge'.errors > 0
      BY <3>1, <3>2
    <3> QED BY <1>1, <2>2, <3>1, <3>3 DEF HealthInv
  <2>4. CASE callback # "count"
    <3>1. gauge.errors > 0
      BY <1>7, <2>4 DEF CallbackFails, At, HealthInv
    <3>2. gauge'.errors = gauge.errors
      BY <1>0, <1>7, <2>4 DEF CallbackFails, At, GaugeType
    <3> QED BY <1>1, <2>2, <3>1, <3>2 DEF HealthInv
  <2> QED BY <2>3, <2>4
<1> QED BY <1>3, <1>4, <1>5, <1>6, <1>7 DEF Callback

\* The explanations hold throughout.
LEMMA HealthInvariant == Spec => []HealthInv
<1>1. Init => HealthInv
  <2> SUFFICES ASSUME Init PROVE HealthInv
    OBVIOUS
  <2>1. /\ callback = "idle" /\ gauge.errors = 0 /\ pc = "new_output"
        /\ ~state.allocated /\ \A b \in Buffer : device.buffer[b] = "none"
    BY DEF Init
  <2>2. ~session.soundStarted /\ ~session.report.asked
    <3>1. session.soundStarted \in {FALSE}
      BY DEF Init
    <3>2. session.report \in {[asked |-> FALSE, broken |-> FALSE, running |-> TRUE, failed |-> FALSE]}
      BY DEF Init
    <3>3. session.soundStarted = FALSE
      BY <3>1
    <3>4. session.report.asked = FALSE
      BY <3>2
    <3> QED BY <3>3, <3>4
  <2>3. ~Lost
    BY <2>1 DEF Lost, Holding
  <2> QED BY <2>1, <2>2, <2>3 DEF HealthInv
<1>2. Types /\ PhaseInv /\ HealthInv /\ [Next]_vars => HealthInv'
  <2> SUFFICES ASSUME Types, PhaseInv, HealthInv, [Next]_vars PROVE HealthInv'
    OBVIOUS
  <2>1. CASE Worker \/ UNCHANGED vars
    <3>1. UNCHANGED <<pc, session, state, device, callback, gauge>>
      BY <2>1 DEF Worker, Receive, Write, audio, vars
    <3> QED BY <3>1 DEF HealthInv, Lost, Holding
  <2> QED BY <2>1, HealthStart, HealthPlay, HealthCallback DEF Next, Window, Finished
<1> QED BY <1>1, <1>2, TypesInvariant, PhaseInvariant, PTL DEF Spec

\* The report counts the callback as failed when its chain was broken, and only
\* when a buffer is out of circulation.
THEOREM ReportIsRight == Spec => []HealthSeesFailure
<1> QED BY HealthInvariant, HealthSuffices, PTL

-----------------------------------------------------------------------------
(***************************************************************************)
(* The captures between the window thread and the worker.                  *)
(***************************************************************************)

Command == Capture \cup {Finish}

\* The number of the command to finish is no capture's.
LEMMA Commands == Capture \subseteq Command /\ Finish \in Command /\ Finish \notin Capture
  BY SessionConstants DEF Command, Capture, Finish, Final

\* What is queued behind a line is the end of the line.
LEMMA LineAppend ==
  ASSUME NEW S, NEW w \in Seq(S), NEW h \in Seq(S), NEW q \in Seq(S), NEW x \in S
  PROVE  (w \o h) \o Append(q, x) = Append((w \o h) \o q, x)
<1>1. w \o h \in Seq(S) /\ <<x>> \in Seq(S) /\ (w \o h) \o q \in Seq(S)
  BY ConcatProperties
<1>2. Append(q, x) = q \o <<x>> /\ Append((w \o h) \o q, x) = ((w \o h) \o q) \o <<x>>
  BY <1>1, AppendIsConcat
<1> QED BY <1>1, <1>2, ConcatAssociative

\* What is taken off the channel into an empty hand keeps its place in the line.
LEMMA LineTaken ==
  ASSUME NEW S, NEW w \in Seq(S), NEW q \in Seq(S), q # <<>>
  PROVE  (w \o <<>>) \o q = (w \o <<Head(q)>>) \o Tail(q)
<1>1. Head(q) \in S /\ Tail(q) \in Seq(S) /\ <<Head(q)>> \o Tail(q) = q
  BY HeadTailProperties
<1>2. <<Head(q)>> \in Seq(S) /\ w \o <<>> = w
  BY <1>1, ConcatEmptySeq
<1> QED BY <1>1, <1>2, ConcatAssociative

\* The command to finish has only the captures before it, and nothing behind it.
LEMMA FinishIsLast ==
  ASSUME NEW w \in Seq(Capture), NEW a \in Seq(Capture), NEW q \in Seq(Command),
         q # <<>>, Head(q) = Finish, (w \o <<>>) \o q \in {a, Append(a, Finish)}
  PROVE  Tail(q) = <<>> /\ w = a
<1> DEFINE l == w \o q
<1>1. w \in Seq(Command) /\ a \in Seq(Command) /\ w \o <<>> = w
  BY Commands, SeqMonotonic, ConcatEmptySeq
<1>2. /\ Len(w) \in Nat /\ Len(a) \in Nat /\ Len(q) \in Nat /\ Len(q) > 0
      /\ q[1] = Finish
  <2>1. Len(w) \in Nat /\ Len(a) \in Nat /\ Len(q) \in Nat
    BY LenProperties
  <2>2. Len(q) # 0 /\ Head(q) = q[1]
    BY EmptySeq
  <2> QED BY <2>1, <2>2
<1>3. /\ Len(l) = Len(w) + Len(q)
      /\ l[Len(w) + 1] = Finish
      /\ \A i \in 1..Len(w) : l[i] = w[i]
  <2>1. /\ Len(l) = Len(w) + Len(q)
        /\ \A i \in 1..Len(w) + Len(q) :
             l[i] = IF i <= Len(w) THEN w[i] ELSE q[i - Len(w)]
    BY <1>1, ConcatProperties
  <2>2. Len(w) + 1 \in 1..Len(w) + Len(q) /\ ~(Len(w) + 1 <= Len(w))
        /\ Len(w) + 1 - Len(w) = 1
    BY <1>2
  <2>3. l[Len(w) + 1] = Finish
    BY <1>2, <2>1, <2>2
  <2>4. ASSUME NEW i \in 1..Len(w) PROVE l[i] = w[i]
    <3>1. i \in 1..Len(w) + Len(q) /\ i <= Len(w)
      BY <1>2
    <3> QED BY <2>1, <3>1
  <2> QED BY <2>1, <2>3, <2>4
<1>4. \A i \in 1..Len(a) : a[i] # Finish
  BY Commands, ElementOfSeq
<1>5. l # a
  <2>1. Len(l) = Len(a) => Len(w) + 1 \in 1..Len(a)
    BY <1>2, <1>3
  <2> QED BY <1>3, <1>4, <2>1
<1>6. l = Append(a, Finish)
  BY <1>1, <1>5
<1> HIDE DEF l
<1>7. /\ Len(l) = Len(a) + 1
      /\ \A i \in 1..Len(a) : l[i] = a[i]
  BY <1>1, <1>6, Commands, AppendProperties
<1>8. Len(w) = Len(a) /\ Len(q) = 1
  <2>1. Len(w) + 1 \notin 1..Len(a)
    BY <1>3, <1>4, <1>7
  <2>2. Len(w) + Len(q) = Len(a) + 1
    BY <1>3, <1>7
  <2> DEFINE m == Len(w)
             n == Len(a)
             k == Len(q)
  <2>3. /\ m \in Nat /\ n \in Nat /\ k \in Nat /\ k > 0
        /\ m + 1 \notin 1..n /\ m + k = n + 1
    BY <1>2, <2>1, <2>2
  <2> HIDE DEF m, n, k
  <2>4. m = n /\ k = 1
    BY <2>3
  <2> QED BY <2>4 DEF m, n, k
<1>9. Tail(q) = <<>>
  <2>1. Tail(q) \in Seq(Command) /\ Len(Tail(q)) = 0
    BY <1>8, HeadTailProperties
  <2> QED BY <2>1, EmptySeq
<1>10. w = a
  <2>1. \A i \in 1..Len(w) : w[i] = a[i]
    BY <1>3, <1>7, <1>8
  <2> QED BY <1>8, <2>1, SeqEqual
<1> QED BY <1>9, <1>10

\* What is written, in the worker's hand and queued.
Line == captured.written \o worker.hand \o channel.queue

\* Where the window thread is before the writer exists, while it may still send a
\* capture, after it sent the first one, and after it sent the last one.
Booting == {"new_output", "allocate", "enqueue", "arm", "start", "check", "record_started",
            "record_running", "record_status", "create_writer"}
Sending == {"initial", "loop", "final", "finish"}
Opened == {"loop", "final", "finish", "join", "report", "report_errors"}
Closed == {"finish", "join", "report", "report_errors"}

First == captured.accepted # <<>> /\ captured.accepted[1] = Initial
Last == captured.accepted[Len(captured.accepted)] = Final

\* The worker's side: what its place says of its hand, the channel and the captures.
WorkerInv ==
  /\ worker.at \in {"none", "receive", "done"} => worker.hand = <<>>
  /\ worker.at = "none" => captured.accepted = <<>> /\ captured.written = <<>>
  /\ worker.at = "failed" <=> captured.failed
  /\ worker.at = "done" => channel.queue = <<>> /\ captured.written = captured.accepted
  /\ Receiving => Line \in {captured.accepted, Append(captured.accepted, Finish)}

\* The window's side: what its place says of the worker and of what was accepted.
WindowInv ==
  /\ pc \in Booting => worker.at = "none"
  /\ pc = "initial" => captured.accepted = <<>>
  /\ Receiving /\ pc \in Sending => Line = captured.accepted
  /\ session.capturing /\ pc \in Opened => First
  /\ session.capturing /\ pc \in Closed => Last
  /\ session.capturing /\ pc \in {"report", "report_errors"} => worker.at = "done"
  /\ session.capturing /\ session.result = "ok" => worker.at = "done" /\ First /\ Last

\* A step that moves no capture.
LEMMA KeptStill ==
  ASSUME WorkerInv, WindowInv,
         worker' = worker, captured' = captured, channel'.queue = channel.queue,
         session'.capturing = session.capturing,
         pc' \in Booting => pc \in Booting,
         pc' = "initial" => pc = "initial",
         pc' \in Sending => pc \in Sending \/ worker.at = "none",
         session.capturing /\ pc' \in Opened => pc \in Opened,
         session.capturing /\ pc' \in Closed => pc \in Closed,
         session.capturing /\ pc' \in {"report", "report_errors"} =>
           pc \in {"report", "report_errors"} \/ worker.at = "done",
         session'.result = "ok" => session.result = "ok" \/ pc \in {"report", "report_errors"}
  PROVE  WorkerInv' /\ WindowInv'
<1>1. Receiving' = Receiving /\ Line' = Line /\ First' = First /\ Last' = Last
  BY DEF Receiving, Line, First, Last
<1>2. worker.at = "none" => ~Receiving
  BY DEF Receiving
<1>3. {"report", "report_errors"} \subseteq (Opened \cap Closed)
  BY DEF Opened, Closed
<1>4. WorkerInv'
  BY <1>1 DEF WorkerInv
<1>5. session.capturing /\ session'.result = "ok" => worker.at = "done" /\ First /\ Last
  BY <1>3 DEF WindowInv
<1>6. WindowInv'
  BY <1>1, <1>2, <1>5 DEF WindowInv
<1> QED BY <1>4, <1>6

\* A command joins the end of the line, and the captures it accepts.
LEMMA SentKeeps ==
  ASSUME Types, WorkerInv, WindowInv, NEW c \in Command, Sent(c), Receiving,
         pc \in Sending, worker' = worker
  PROVE  /\ WorkerInv' /\ Receiving'
         /\ c # Finish => Line' = captured'.accepted
         /\ captured'.accepted = IF c = Finish THEN captured.accepted
                                 ELSE Append(captured.accepted, c)
<1>1. /\ captured.accepted \in Seq(Capture) /\ captured.written \in Seq(Command)
      /\ worker.hand \in Seq(Command) /\ channel.queue \in Seq(Command)
  <2>1. /\ captured.accepted \in Seq(Capture) /\ captured.written \in Seq(Capture)
        /\ worker.hand \in Seq(Capture) /\ channel.queue \in Seq(Command)
    BY DEF Types, CapturedType, WorkerType, ChannelType, Command
  <2> QED BY <2>1, Commands, SeqMonotonic
<1>2. /\ channel'.queue = Append(channel.queue, c)
  BY DEF Sent, Types, ChannelType
<1>3. /\ captured'.written = captured.written /\ captured'.failed = captured.failed
      /\ captured'.accepted = IF c = Finish THEN captured.accepted
                              ELSE Append(captured.accepted, c)
  BY DEF Sent, Types, CapturedType
<1>4. Line = captured.accepted
  BY DEF WindowInv
<1>5. Line' = Append(captured.accepted, c)
  <2>1. Line' = (captured.written \o worker.hand) \o Append(channel.queue, c)
    BY <1>2, <1>3 DEF Line
  <2>2. (captured.written \o worker.hand) \o Append(channel.queue, c)
          = Append((captured.written \o worker.hand) \o channel.queue, c)
    <3> DEFINE w == captured.written
               h == worker.hand
               q == channel.queue
    <3>1. w \in Seq(Command) /\ h \in Seq(Command) /\ q \in Seq(Command) /\ c \in Command
      BY <1>1
    <3> HIDE DEF w, h, q
    <3>2. (w \o h) \o Append(q, c) = Append((w \o h) \o q, c)
      BY <3>1, LineAppend
    <3> QED BY <3>2 DEF w, h, q
  <2>3. (captured.written \o worker.hand) \o channel.queue = captured.accepted
    BY <1>4 DEF Line
  <2> QED BY <2>1, <2>2, <2>3
<1>6. Receiving'
  BY DEF Receiving
<1>7. worker.at \in {"receive", "write"}
  BY DEF Receiving
<1>8. Line' \in {captured'.accepted, Append(captured'.accepted, Finish)}
  BY <1>3, <1>5
<1>9. WorkerInv'
  BY <1>3, <1>6, <1>7, <1>8 DEF WorkerInv
<1> QED BY <1>3, <1>5, <1>6, <1>9

\* The first and the last of a sequence that grew by one.
LEMMA Ends ==
  ASSUME NEW s \in Seq(Capture), NEW c \in Capture
  PROVE  /\ Append(s, c) # <<>>
         /\ Append(s, c)[Len(Append(s, c))] = c
         /\ Append(s, c)[1] = IF s = <<>> THEN c ELSE s[1]
  BY AppendProperties, LenProperties, EmptySeq

\* The window thread keeps the captures.
LEMMA KeptByPlay == Types /\ WorkerInv /\ WindowInv /\ Play => WorkerInv' /\ WindowInv'
<1> SUFFICES ASSUME Types, WorkerInv, WindowInv, Play PROVE WorkerInv' /\ WindowInv'
  OBVIOUS
<1>0. /\ session \in SessionType /\ channel \in ChannelType
      /\ captured.accepted \in Seq(Capture)
  BY DEF Types, CapturedType
<1>1. CASE CreateWriter
  <2>1. /\ pc = "create_writer" /\ worker.at = "none" /\ session' = session
        /\ captured' = captured
    BY <1>1 DEF CreateWriter, WindowInv, Booting
  <2>2. CASE ~session.capturing
    <3>1. pc' = "loop" /\ UNCHANGED <<channel, worker>>
      BY <1>1, <2>2 DEF CreateWriter
    <3> QED BY <2>1, <2>2, <3>1, KeptStill DEF Booting, Sending, Opened, Closed
  <2>3. CASE session.capturing
    <3>1. /\ pc' = "initial" /\ channel'.queue = <<>>
          /\ worker'.at = "receive" /\ worker'.hand = <<>>
      BY <1>1, <2>3 DEF CreateWriter
    <3>2. captured'.accepted = <<>> /\ captured'.written = <<>> /\ ~captured'.failed
      BY <2>1 DEF WorkerInv
    <3>3. Line' = <<>>
      BY <3>1, <3>2, ConcatEmptySeq DEF Line
    <3>4. WorkerInv'
      BY <3>1, <3>2, <3>3 DEF WorkerInv
    <3>5. session.result # "ok"
      BY <2>1, <2>3 DEF WindowInv
    <3>6. WindowInv'
      BY <2>1, <3>1, <3>2, <3>3, <3>5 DEF WindowInv, Booting, Opened, Closed
    <3> QED BY <3>4, <3>6
  <2> QED BY <2>2, <2>3
<1>2. CASE ReturnError /\ UNCHANGED <<channel, worker, captured>>
  BY <1>0, <1>2, KeptStill
     DEF ReturnError, SessionType, Booting, Sending, Opened, Closed
<1>3. ASSUME NEW c \in Command, NEW next, Send(c, next), pc \in Sending, ~ReturnError
      PROVE  /\ WorkerInv' /\ Receiving /\ Receiving' /\ pc' = next
             /\ session' = session /\ worker' = worker
             /\ c # Finish => Line' = captured'.accepted
             /\ captured'.accepted = IF c = Finish THEN captured.accepted
                                     ELSE Append(captured.accepted, c)
  BY <1>3, SentKeeps DEF Send
<1>4. /\ Initial \in Capture /\ Final \in Capture /\ Initial # Finish /\ Final # Finish
      /\ Initial \in Command /\ Final \in Command /\ Finish \in Command
  BY SessionConstants DEF Capture, Final, Initial, Finish, Command
<1>5. Receiving => worker.at # "done" /\ worker.at # "none"
  BY DEF Receiving
<1>6. session.capturing /\ Receiving => session.result # "ok"
  BY <1>5 DEF WindowInv
<1>7. CASE CaptureInitial /\ ~ReturnError
  <2>1. pc = "initial" /\ Send(Initial, "loop") /\ pc \in Sending
    BY <1>7 DEF CaptureInitial, Sending
  <2>2. /\ WorkerInv' /\ Receiving /\ Receiving' /\ pc' = "loop"
        /\ session' = session /\ worker' = worker
        /\ Line' = captured'.accepted
        /\ captured'.accepted = Append(captured.accepted, Initial)
    BY <1>3, <1>4, <1>7, <2>1
  <2>3. captured.accepted = <<>>
    BY <2>1 DEF WindowInv
  <2>4. First'
    BY <1>0, <1>4, <2>2, <2>3, Ends DEF First
  <2>5. WindowInv'
    BY <1>6, <2>2, <2>4 DEF WindowInv, Booting, Closed
  <2> QED BY <2>2, <2>5
<1>8. CASE CaptureFinal /\ ~ReturnError
  <2>1. pc = "final" /\ session.capturing /\ Send(Final, "finish") /\ pc \in Sending
        /\ pc \in Opened
    BY <1>8 DEF CaptureFinal, Sending, Opened
  <2>2. /\ WorkerInv' /\ Receiving /\ Receiving' /\ pc' = "finish"
        /\ session' = session /\ worker' = worker
        /\ Line' = captured'.accepted
        /\ captured'.accepted = Append(captured.accepted, Final)
    BY <1>3, <1>4, <1>8, <2>1
  <2>3. First
    BY <2>1 DEF WindowInv
  <2>4. First' /\ Last'
    BY <1>0, <1>4, <2>2, <2>3, Ends DEF First, Last
  <2>5. WindowInv'
    BY <1>6, <2>2, <2>4 DEF WindowInv, Booting
  <2> QED BY <2>2, <2>5
<1>9. CASE SendFinish /\ ~ReturnError
  <2>1. pc = "finish" /\ Send(Finish, "join") /\ pc \in Sending
        /\ pc \in Opened /\ pc \in Closed
    BY <1>9 DEF SendFinish, Sending, Opened, Closed
  <2>2. /\ WorkerInv' /\ Receiving /\ pc' = "join"
        /\ session' = session /\ worker' = worker
        /\ captured'.accepted = captured.accepted
    BY <1>3, <1>4, <1>9, <2>1
  <2>3. First' = First /\ Last' = Last
    BY <2>2 DEF First, Last
  <2>4. WindowInv'
    BY <1>6, <2>1, <2>2, <2>3 DEF WindowInv, Booting, Sending
  <2> QED BY <2>2, <2>4
<1>10. CASE PresentCaptured /\ ~ReturnError
  <2> DEFINE c == session.frames + 1
  <2>1. /\ worker' = worker /\ TrySend(c) /\ pc = "loop" /\ session.capturing
        /\ pc \in Sending /\ pc \in Opened
    BY <1>10 DEF PresentCaptured, Sending, Opened
  <2>2. c \in Capture /\ c # Finish /\ c \in Command
    BY <1>0, <1>10, SessionConstants
       DEF PresentCaptured, SessionType, Capture, Final, Finish, Command
  <2> HIDE DEF c
  <2>3. CASE Receiving /\ Sent(c) /\ session' = [session EXCEPT !.frames = c] /\ pc' = pc
    <3>1. /\ WorkerInv' /\ Receiving' /\ Line' = captured'.accepted
          /\ captured'.accepted = Append(captured.accepted, c)
      BY <2>1, <2>2, <2>3, SentKeeps
    <3>2. session'.capturing = session.capturing /\ session'.result = session.result
      BY <1>0, <2>3 DEF SessionType
    <3>3. First
      BY <2>1 DEF WindowInv
    <3>4. First'
      BY <1>0, <2>2, <3>1, <3>3, Ends DEF First
    <3>5. WindowInv'
      BY <1>6, <2>1, <2>3, <3>1, <3>2, <3>4 DEF WindowInv, Booting, Closed
    <3> QED BY <3>1, <3>5
  <2>4. CASE /\ session' = [session EXCEPT !.frames = c, !.dropped = @ + 1] /\ pc' = pc
             /\ UNCHANGED <<channel, captured>>
    <3>1. session'.capturing = session.capturing /\ session'.result = session.result
      BY <1>0, <2>4 DEF SessionType
    <3> QED BY <2>1, <2>4, <3>1, KeptStill
  <2> QED BY <1>10, <2>1, <2>3, <2>4 DEF TrySend
<1>11. CASE Present
  <2>1. session'.capturing = session.capturing /\ session'.result = session.result
    BY <1>0, <1>11 DEF Present, SessionType
  <2> QED BY <1>11, <2>1, KeptStill DEF Present, capture
<1>12. CASE LoopEnds
  <2>1. pc = "loop" /\ UNCHANGED <<session, channel, worker, captured>>
        /\ pc' = IF session.capturing THEN "final" ELSE "report"
    BY <1>12 DEF LoopEnds, capture
  <2> QED BY <2>1, KeptStill DEF Booting, Sending, Opened, Closed
<1>13. CASE Join /\ ~ReturnError
  <2>1. /\ pc = "join" /\ ~Receiving /\ worker.at # "failed" /\ pc' = "report"
        /\ UNCHANGED <<session, worker, captured>>
    BY <1>13 DEF Join
  <2>2. channel'.queue = channel.queue
    BY <1>0, <1>13 DEF Join, ChannelType
  <2>3. session.capturing => worker.at = "done"
    <3>1. session.capturing => First
      BY <2>1 DEF WindowInv, Opened
    <3>2. worker.at = "none" => ~First
      BY DEF WorkerInv, First
    <3>3. worker.at \in {"none", "done"}
      BY <2>1 DEF Receiving, Types, WorkerType
    <3> QED BY <3>1, <3>2, <3>3
  <2> QED BY <2>1, <2>2, <2>3, KeptStill DEF Booting, Sending, Opened, Closed
<1>14. CASE ReturnError /\ Join
  <2>1. channel'.queue = channel.queue
    BY <1>0, <1>14 DEF Join, ChannelType
  <2> QED BY <1>0, <1>14, <2>1, KeptStill
         DEF Join, ReturnError, SessionType, Booting, Sending, Opened, Closed
<1>15. CASE ReportRunning \/ ReportErrors
  <2>1. /\ pc \in {"report", "report_errors"} /\ pc' \in {"report_errors", "drop_writer"}
        /\ UNCHANGED <<channel, worker, captured>>
    BY <1>15 DEF ReportRunning, ReportErrors, capture
  <2>2. session'.capturing = session.capturing
    BY <1>0, <1>15 DEF ReportRunning, ReportErrors, SessionType
  <2> QED BY <2>1, <2>2, KeptStill DEF Booting, Sending, Opened, Closed
<1>16. CASE DropWriter
  <2>1. channel'.queue = channel.queue
    BY <1>0, <1>16 DEF DropWriter, ChannelType
  <2> QED BY <1>16, <2>1, KeptStill DEF DropWriter, Booting, Sending, Opened, Closed
<1>17. CASE DropOutput
  BY <1>17, KeptStill DEF DropOutput, capture, Booting, Sending, Opened, Closed
<1>18. StepFails => ReturnError /\ UNCHANGED <<channel, worker, captured>>
  BY DEF StepFails, capture
<1>19. ReturnError /\ (CaptureInitial \/ CaptureFinal \/ SendFinish \/ PresentCaptured)
         => UNCHANGED <<channel, worker, captured>>
  <2>1. ASSUME ReturnError PROVE pc' = "drop_writer"
    BY <2>1 DEF ReturnError
  <2> QED BY <2>1
        DEF CaptureInitial, CaptureFinal, SendFinish, Send, PresentCaptured, TrySend
<1> QED BY <1>1, <1>2, <1>7, <1>8, <1>9, <1>10, <1>11, <1>12, <1>13, <1>14, <1>15, <1>16,
           <1>17, <1>18, <1>19 DEF Play

\* So do the start and the end of the output, which know nothing of them.
LEMMA KeptByOutput ==
  Types /\ WorkerInv /\ WindowInv /\ (StartOutput \/ Teardown) => WorkerInv' /\ WindowInv'
<1> SUFFICES ASSUME Types, WorkerInv, WindowInv, StartOutput \/ Teardown
             PROVE  WorkerInv' /\ WindowInv'
  OBVIOUS
<1>0. session \in SessionType
  BY DEF Types
<1>1. UNCHANGED <<channel, worker, captured>>
  BY DEF StartOutput, NewOutput, NoBoard, AllocateBuffer, EnqueuePrimed, Arm, StartQueue,
     CheckRunning, RecordStart, Teardown, StopQueue, DisposeQueue, FreeState, capture
<1>2. session'.capturing = session.capturing
      /\ (session'.result = "ok" => session.result = "ok")
  BY <1>0 DEF StartOutput, NewOutput, NoBoard, AllocateBuffer, EnqueuePrimed, Arm, StartQueue,
     CheckRunning, RecordStart, StartFails, Teardown, StopQueue, DisposeQueue, FreeState,
     SessionType
<1>3. (pc \in Booting \/ pc' \notin Booting)
      /\ pc' \in Booting \cup {"stop", "dispose", "free", "done"}
  BY DEF StartOutput, NewOutput, NoBoard, AllocateBuffer, EnqueuePrimed, Arm, StartQueue,
     CheckRunning, RecordStart, StartFails, Teardown, StopQueue, DisposeQueue, FreeState,
     Booting
<1>4. /\ pc' # "initial" /\ pc' \notin Sending /\ pc' \notin Opened /\ pc' \notin Closed
      /\ pc' \notin {"report", "report_errors"}
  BY <1>3 DEF Booting, Sending, Opened, Closed
<1> QED BY <1>1, <1>2, <1>3, <1>4, KeptStill

\* The worker takes its captures off the line at one end and writes them at the other.
LEMMA KeptByWorker == Types /\ WorkerInv /\ WindowInv /\ Worker => WorkerInv' /\ WindowInv'
<1> SUFFICES ASSUME Types, WorkerInv, WindowInv, Worker PROVE WorkerInv' /\ WindowInv'
  OBVIOUS
<1>0. /\ captured.accepted \in Seq(Capture) /\ captured.written \in Seq(Capture)
      /\ captured.written \in Seq(Command)
      /\ worker.hand \in Seq(Capture) /\ channel.queue \in Seq(Command)
      /\ worker \in WorkerType /\ channel \in ChannelType /\ captured \in CapturedType
  <2>1. /\ captured.accepted \in Seq(Capture) /\ captured.written \in Seq(Capture)
        /\ worker.hand \in Seq(Capture) /\ channel.queue \in Seq(Command)
        /\ worker \in WorkerType /\ channel \in ChannelType /\ captured \in CapturedType
    BY DEF Types, CapturedType, WorkerType, ChannelType, Command
  <2> QED BY <2>1, Commands, SeqMonotonic
<1>1. /\ pc' = pc /\ session' = session /\ Receiving
      /\ captured'.accepted = captured.accepted
  BY <1>0 DEF Worker, Receive, Write, Receiving, CapturedType
<1>2. /\ session.capturing => pc \notin {"report", "report_errors"} /\ session.result # "ok"
      /\ worker.at \notin {"none", "done", "failed"} /\ ~captured.failed /\ pc \notin Booting
  BY <1>1 DEF Receiving, WindowInv, WorkerInv
<1>3. ASSUME Receiving' => Line' = Line
      PROVE  WindowInv'
  <2>1. First' = First /\ Last' = Last
    BY <1>1 DEF First, Last
  <2> QED BY <1>1, <1>2, <1>3, <2>1 DEF WindowInv
<1>4. CASE Receive /\ channel.queue # <<>>
  <2> DEFINE q == channel.queue
  <2>1. /\ worker.at = "receive" /\ worker.hand = <<>> /\ captured' = captured
        /\ channel'.queue = Tail(q)
        /\ Line = (captured.written \o <<>>) \o q
    BY <1>0, <1>4 DEF Receive, WorkerInv, ChannelType, Line
  <2>2. CASE Head(q) = Finish
    <3>1. worker'.at = "done" /\ worker'.hand = <<>>
      BY <1>4, <2>2 DEF Receive
    <3>2. Tail(q) = <<>> /\ captured.written = captured.accepted
      BY <1>0, <1>1, <1>4, <2>1, <2>2, FinishIsLast DEF WorkerInv
    <3>3. ~Receiving'
      BY <3>1 DEF Receiving
    <3>4. WorkerInv'
      BY <1>2, <2>1, <3>1, <3>2, <3>3 DEF WorkerInv
    <3> QED BY <1>3, <3>3, <3>4
  <2>3. CASE Head(q) # Finish
    <3>1. worker'.at = "write" /\ worker'.hand = <<Head(q)>>
      BY <1>4, <2>3 DEF Receive
    <3>2. Line' = Line
      BY <1>0, <1>4, <2>1, <3>1, LineTaken DEF Line
    <3>3. Receiving'
      BY <3>1 DEF Receiving
    <3>4. WorkerInv'
      BY <1>1, <1>2, <2>1, <3>1, <3>2, <3>3 DEF WorkerInv
    <3> QED BY <1>3, <3>2, <3>4
  <2> QED BY <2>2, <2>3
<1>5. CASE Receive /\ channel.queue = <<>>
  <2>1. /\ worker.at = "receive" /\ worker.hand = <<>> /\ captured' = captured
        /\ channel' = channel /\ worker'.at = "done" /\ worker'.hand = <<>>
    BY <1>0, <1>5 DEF Receive, WorkerInv, WorkerType
  <2>2. Line = captured.written
    BY <1>0, <1>5, <2>1, ConcatEmptySeq DEF Line
  <2>3. captured.written # Append(captured.accepted, Finish)
    <3>1. Len(captured.accepted) + 1 \in 1..Len(captured.accepted) + 1
      BY <1>0, LenProperties
    <3>2. /\ Len(Append(captured.accepted, Finish)) = Len(captured.accepted) + 1
          /\ Append(captured.accepted, Finish)[Len(captured.accepted) + 1] = Finish
      BY <1>0
    <3> QED BY <1>0, <3>1, <3>2, Commands, ElementOfSeq
  <2>4. captured.written = captured.accepted
    BY <1>1, <2>2, <2>3 DEF WorkerInv
  <2>5. ~Receiving'
    BY <2>1 DEF Receiving
  <2>6. WorkerInv'
    BY <1>2, <1>5, <2>1, <2>4, <2>5 DEF WorkerInv
  <2> QED BY <1>3, <2>5, <2>6
<1>6. CASE Write
  <2>1. worker.at = "write"
    BY <1>6 DEF Write
  <2>2. CASE /\ captured' = [captured EXCEPT !.written = captured.written \o worker.hand]
             /\ worker' = [at |-> "receive", hand |-> <<>>]
             /\ UNCHANGED channel
    <3>1. /\ captured'.written = captured.written \o worker.hand
          /\ captured'.failed = captured.failed
          /\ worker'.at = "receive" /\ worker'.hand = <<>>
      BY <1>0, <2>2 DEF CapturedType
    <3>2. captured.written \o worker.hand \in Seq(Capture)
      BY <1>0, ConcatProperties
    <3>3. Line' = Line
      BY <2>2, <3>1, <3>2, ConcatEmptySeq DEF Line
    <3>4. Receiving'
      BY <3>1 DEF Receiving
    <3>5. WorkerInv'
      BY <1>1, <1>2, <3>1, <3>3, <3>4 DEF WorkerInv
    <3> QED BY <1>3, <3>3, <3>5
  <2>3. CASE /\ captured' = [captured EXCEPT !.failed = TRUE]
             /\ worker' = [at |-> "failed", hand |-> <<>>]
    <3>1. /\ captured'.failed /\ worker'.at = "failed"
      BY <1>0, <2>3 DEF CapturedType
    <3>2. ~Receiving'
      BY <3>1 DEF Receiving
    <3>3. WorkerInv'
      BY <3>1, <3>2 DEF WorkerInv
    <3> QED BY <1>3, <3>2, <3>3
  <2> QED BY <1>6, <2>2, <2>3 DEF Write
<1> QED BY <1>4, <1>5, <1>6 DEF Worker

\* The captures are kept throughout.
LEMMA KeepInvariant == Spec => [](WorkerInv /\ WindowInv)
<1>1. Init => WorkerInv /\ WindowInv
  <2> SUFFICES ASSUME Init PROVE WorkerInv /\ WindowInv
    OBVIOUS
  <2>1. /\ pc = "new_output" /\ worker.at = "none" /\ worker.hand = <<>>
        /\ captured.accepted = <<>> /\ captured.written = <<>> /\ captured.failed = FALSE
        /\ session.result \in {"running"}
    BY DEF Init
  <2>2. ~Receiving
    BY <2>1 DEF Receiving
  <2> QED BY <2>1, <2>2 DEF WorkerInv, WindowInv, Booting, Sending, Opened, Closed
<1>2. Types /\ WorkerInv /\ WindowInv /\ [Next]_vars => WorkerInv' /\ WindowInv'
  <2> SUFFICES ASSUME Types, WorkerInv, WindowInv, [Next]_vars
               PROVE  WorkerInv' /\ WindowInv'
    OBVIOUS
  <2>1. CASE Callback \/ UNCHANGED vars
    <3>1. UNCHANGED <<pc, session, channel, worker, captured>>
      BY <2>1 DEF Callback, Deliver, CallbackRunning, CallbackRecord, CallbackEnqueue,
         CallbackFails, capture, vars
    <3> QED BY <3>1, KeptStill
  <2> QED BY <2>1, KeptByOutput, KeptByPlay, KeptByWorker DEF Next, Window, Finished
<1> QED BY <1>1, <1>2, TypesInvariant, PTL DEF Spec

\* Every accepted capture is in its place, and a session that ends well has written
\* them all, the first and the last among them.
THEOREM AcceptedAreWritten == Spec => []CapturesKept
<1>1. Types /\ WorkerInv /\ WindowInv => CapturesKept
  <2> SUFFICES ASSUME Types, WorkerInv, WindowInv PROVE CapturesKept
    OBVIOUS
  <2>1. captured.written \in Seq(Capture) /\ captured.accepted \in Seq(Capture)
    BY DEF Types, CapturedType
  <2>2. worker.at = "done" => Line = captured.accepted
    BY <2>1, ConcatEmptySeq DEF WorkerInv, Line
  <2>3. worker.at \in {"receive", "write", "done"}
          => Line \in {captured.accepted, Append(captured.accepted, Finish)}
    BY <2>2 DEF WorkerInv, Receiving
  <2>4. ASSUME session.result = "ok", session.capturing
        PROVE  /\ captured.written = captured.accepted
               /\ Head(captured.written) = Initial
               /\ captured.written[Len(captured.written)] = Final
               /\ ~captured.failed
    <3>1. worker.at = "done" /\ First /\ Last
      BY <2>4 DEF WindowInv
    <3>2. captured.written = captured.accepted /\ ~captured.failed
      BY <3>1 DEF WorkerInv
    <3> QED BY <2>1, <3>1, <3>2 DEF First, Last
  <2> QED BY <2>3, <2>4 DEF CapturesKept, Line
<1> QED BY <1>1, KeepInvariant, TypesInvariant, PTL
=============================================================================
