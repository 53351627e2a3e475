--------------------------- MODULE GymServer_proofs ---------------------------
(***************************************************************************)
(* The server for every number of connections, roster, set of requests and *)
(* length of an episode: who has the environment, the match an action      *)
(* plays in, the screenshot of an answer, the sum of the rewards and the   *)
(* frames that are reached, asked for and reported.                        *)
(***************************************************************************)
EXTENDS GymServer, SequenceTheorems, WellFoundedInduction, TLAPS

-----------------------------------------------------------------------------
(***************************************************************************)
(* The environment's operators.                                            *)
(***************************************************************************)

\* Nothing happened to the machine since the observation that is kept.
Settled(e) == e.health = e.last.health /\ (e.readable => e.bars = e.last.health)

\* Full bars are bars.
LEMMA FullBars == Full \in Bars
  BY GymConstants DEF Full, Bars

\* What set_observation_screenshot changes, and what it leaves alone.
LEMMA ScreenshotEffect ==
  ASSUME NEW e \in EnvType, NEW on \in BOOLEAN
  PROVE  LET n == SetScreenshot(e, on) IN
         /\ n \in EnvType /\ n.shot = on /\ n.last = e.last /\ n.chars = e.chars
         /\ n.requiresReset = e.requiresReset /\ n.health = e.health
         /\ n.readable = e.readable /\ n.bars = e.bars /\ n.halted = e.halted
  BY DEF SetScreenshot, EnvType

\* Reading the bars of a match changes the health, and nothing else.
LEMMA ReadHudEffect ==
  ASSUME NEW e \in EnvType
  PROVE  LET n == ReadHud(e) IN
         /\ n \in EnvType /\ n.shot = e.shot /\ n.last = e.last /\ n.chars = e.chars
         /\ n.requiresReset = e.requiresReset /\ n.readable = e.readable /\ n.bars = e.bars
         /\ n.health = IF e.readable THEN e.bars ELSE e.health
         /\ n.frame = e.frame /\ n.halted = e.halted
  BY DEF ReadHud, EnvType

\* An observation shows what the backend last read.
LEMMA MakeObservationEffect ==
  ASSUME NEW e \in EnvType
  PROVE  LET o == MakeObservation(e) IN
         o \in Observation /\ o.known = TRUE /\ o.shot = e.shot /\ o.health = e.health
<1>1. e.frame \in Nat /\ e.health \in Bars /\ e.shot \in BOOLEAN
  BY DEF EnvType
<1>2. (e.halted \/ \E p \in Player : e.health[p] = 0) \in BOOLEAN
  OBVIOUS
<1> QED BY <1>1, <1>2 DEF MakeObservation, Observation

\* Observing settles the environment, and finds what it showed if it was settled.
LEMMA ObservedEffect ==
  ASSUME NEW e \in EnvType
  PROVE  LET n == Observed(e) IN
         /\ n \in EnvType /\ n.last.known = TRUE /\ n.last.shot = e.shot /\ n.shot = e.shot
         /\ n.chars = e.chars /\ n.requiresReset = e.requiresReset
         /\ Settled(n)
         /\ Settled(e) => n.last.health = e.last.health
<1> DEFINE r == ReadHud(e)
           o == MakeObservation(r)
           n == [r EXCEPT !.last = o]
<1>1. /\ r \in EnvType /\ r.shot = e.shot /\ r.last = e.last /\ r.chars = e.chars
      /\ r.requiresReset = e.requiresReset /\ r.readable = e.readable /\ r.bars = e.bars
      /\ r.health = IF e.readable THEN e.bars ELSE e.health
  BY ReadHudEffect
<1>2. Observed(e) = n
  BY DEF Observed
<1> HIDE DEF r
<1>3. o \in Observation /\ o.known = TRUE /\ o.shot = r.shot /\ o.health = r.health
  BY <1>1, MakeObservationEffect
<1> HIDE DEF o
<1>4. /\ n \in EnvType /\ n.last = o /\ n.shot = r.shot /\ n.chars = r.chars
      /\ n.requiresReset = r.requiresReset /\ n.health = r.health
      /\ n.readable = r.readable /\ n.bars = r.bars
  BY <1>1, <1>3 DEF EnvType
<1> HIDE DEF n
<1>5. Settled(n)
  BY <1>1, <1>3, <1>4 DEF Settled
<1>6. Settled(e) => n.last.health = e.last.health
  BY <1>1, <1>3, <1>4 DEF Settled
<1> QED BY <1>1, <1>2, <1>3, <1>4, <1>5, <1>6

\* A reset of the backend: full bars, readable, and a step is allowed again.
LEMMA BackendResetEffect ==
  ASSUME NEW e \in EnvType
  PROVE  LET n == BackendReset(e) IN
         /\ n \in EnvType /\ n.shot = e.shot /\ n.last = e.last /\ n.chars = e.chars
         /\ n.requiresReset = FALSE /\ n.bars = Full /\ n.readable = TRUE
<1>1. Full \in Bars /\ 0 \in Nat /\ "none" \in Buttons
  BY FullBars DEF Buttons
<1> QED BY <1>1 DEF BackendReset, EnvType

\* A new match is observed and settled, with the characters it was asked for.
LEMMA ResetEffect ==
  ASSUME NEW e \in EnvType, NEW cs \in [Player -> Character]
  PROVE  LET n == ResetMatch(e, cs) IN
         /\ n \in EnvType /\ n.last.known = TRUE /\ n.last.shot = e.shot /\ n.shot = e.shot
         /\ n.chars = cs /\ n.requiresReset = FALSE /\ Settled(n)
<1> DEFINE d == [e EXCEPT !.chars = cs]
           b == BackendReset(d)
<1>1. d \in EnvType /\ d.shot = e.shot /\ d.chars = cs
  BY DEF EnvType
<1> HIDE DEF d
<1>2. b \in EnvType /\ b.shot = e.shot /\ b.chars = cs /\ b.requiresReset = FALSE
  BY <1>1, BackendResetEffect
<1> HIDE DEF b
<1>3. ResetMatch(e, cs) = Observed(b)
  BY DEF ResetMatch, ResetEnv, b, d
<1> QED BY <1>2, <1>3, ObservedEffect, ZenonT(40)

\* The first step of an environment that was never observed resets it.
LEMMA StartedEffect ==
  ASSUME NEW e \in EnvType
  PROVE  LET n == Started(e) IN
         /\ n \in EnvType /\ n.shot = e.shot /\ n.last = e.last /\ n.chars = e.chars
         /\ n.requiresReset = IF e.last.known THEN e.requiresReset ELSE FALSE
  BY BackendResetEffect DEF Started

\* A step of the backend asks for a reset exactly when it stalled.
LEMMA BackendStepEffect ==
  ASSUME NEW e \in EnvType, NEW b \in Buttons, NEW k \in Nat, NEW o \in Outcome(e, k)
  PROVE  LET n == BackendStep(e, b, o) IN
         /\ n \in EnvType /\ n.shot = e.shot /\ n.last = e.last /\ n.chars = e.chars
         /\ n.requiresReset = o.stalled
<1>1. /\ o.vblanks \in Nat /\ o.stalled \in BOOLEAN /\ o.halted \in BOOLEAN
      /\ o.bars \in Bars /\ o.readable \in BOOLEAN
  BY DEF Outcome
<1>2. e.frame + o.vblanks \in Nat
  BY <1>1 DEF EnvType
<1> QED BY <1>1, <1>2 DEF BackendStep, EnvType

\* A step that comes back is observed; one that stalls leaves the observation.
LEMMA StepEffect ==
  ASSUME NEW e \in EnvType, NEW b \in Buttons, NEW k \in Nat, NEW o \in Outcome(Started(e), k)
  PROVE  /\ StepButtons(e, b, o) \in EnvType
         /\ StepButtons(e, b, o).last.known = TRUE
         /\ StepButtons(e, b, o).last.shot = e.shot
         /\ StepButtons(e, b, o).chars = e.chars /\ Settled(StepButtons(e, b, o))
         /\ StepButtons(e, b, o).requiresReset = o.stalled
         /\ StepStalled(e, b, o) \in EnvType /\ StepStalled(e, b, o).last = e.last
         /\ StepStalled(e, b, o).chars = e.chars
         /\ StepStalled(e, b, o).requiresReset = o.stalled
<1> DEFINE s == Started(e)
           n == BackendStep(s, b, o)
<1>1. s \in EnvType /\ s.shot = e.shot /\ s.last = e.last /\ s.chars = e.chars
  BY StartedEffect
<1>2. StepButtons(e, b, o) = Observed(n) /\ StepStalled(e, b, o) = n
  BY DEF StepButtons, StepStalled
<1> HIDE DEF s
<1>3. /\ n \in EnvType /\ n.shot = e.shot /\ n.last = e.last /\ n.chars = e.chars
      /\ n.requiresReset = o.stalled
  BY <1>1, BackendStepEffect DEF s
<1> HIDE DEF n
<1> QED BY <1>2, <1>3, ObservedEffect

\* The observation a reward is measured from.
LEMMA PreviousEffect ==
  ASSUME NEW e \in EnvType
  PROVE  /\ Previous(e).health \in Bars
         /\ e.last.known => Previous(e) = e.last
<1> DEFINE b == BackendReset(e)
           r == ReadHud(b)
<1>1. b \in EnvType
  BY BackendResetEffect
<1> HIDE DEF b
<1>2. r \in EnvType
  BY <1>1, ReadHudEffect
<1> HIDE DEF r
<1>3. MakeObservation(r).health \in Bars
  BY <1>2, MakeObservationEffect DEF EnvType
<1>4. e.last.health \in Bars
  BY DEF EnvType, Observation
<1> QED BY <1>3, <1>4 DEF Previous, r, b

\* Rewards add up.
LEMMA RewardSums ==
  ASSUME NEW x, NEW y, NEW z, x.health \in Bars, y.health \in Bars, z.health \in Bars
  PROVE  /\ Reward(x, y) \in Int
         /\ Reward(x, y) + Reward(y, z) = Reward(x, z)
         /\ x.health = y.health => Reward(x, y) = 0
<1> DEFINE a == x.health[1]
           b == x.health[2]
           c == y.health[1]
           d == y.health[2]
           e == z.health[1]
           f == z.health[2]
<1>1. a \in Int /\ b \in Int /\ c \in Int /\ d \in Int /\ e \in Int /\ f \in Int
  BY GymConstants DEF Bars, Player
<1>2. /\ Reward(x, y) = 10 * (b - d) - 8 * (a - c)
      /\ Reward(y, z) = 10 * (d - f) - 8 * (c - e)
      /\ Reward(x, z) = 10 * (b - f) - 8 * (a - e)
  BY DEF Reward
<1>3. x.health = y.health => a = c /\ b = d
  OBVIOUS
<1> HIDE DEF a, b, c, d, e, f
<1>4. /\ 10 * (b - d) - 8 * (a - c) \in Int
      /\ (10 * (b - d) - 8 * (a - c)) + (10 * (d - f) - 8 * (c - e))
           = 10 * (b - f) - 8 * (a - e)
      /\ a = c /\ b = d => 10 * (b - d) - 8 * (a - c) = 0
  BY <1>1
<1> QED BY <1>2, <1>3, <1>4
-----------------------------------------------------------------------------
(***************************************************************************)
(* Who has the environment.                                                *)
(***************************************************************************)

\* What the requests carry.
LEMMA NamedSegments ==
  ASSUME NEW a \in DOMAIN Named
  PROVE  Named[a] \in Seq(Segment) /\ Named[a] # <<>>
<1>1. Tap \in Seq(Segment) /\ Len(Tap) = 2
  BY DEF Tap, Segment, Buttons
<1>2. Tap \o Tap \in Seq(Segment) /\ Len(Tap \o Tap) = 2 + 2
  <2>1. Tap \o Tap \in Seq(Segment)
    BY <1>1
  <2>2. Len(Tap \o Tap) = Len(Tap) + Len(Tap)
    BY <1>1, ConcatProperties
  <2> QED BY <1>1, <2>1, <2>2
<1> DEFINE rest == <<[buttons |-> "none", frames |-> 1]>>
<1>3. rest \in Seq(Segment) /\ Len(rest) = 1
  BY DEF Segment, Buttons
<1>4. Tap # <<>> /\ Tap \o Tap # <<>> /\ rest # <<>>
  BY <1>1, <1>2, <1>3, EmptySeq
<1>5. a \in {"idle", "tap", "double_tap"}
  BY DEF Named
<1>6. Named["idle"] = rest /\ Named["tap"] = Tap /\ Named["double_tap"] = Tap \o Tap
  BY DEF Named
<1> HIDE DEF rest
<1> QED BY <1>1, <1>2, <1>3, <1>4, <1>5, <1>6

\* What the requests of each kind carry.
LEMMA RequestFacts ==
  ASSUME NEW r \in Request
  PROVE  /\ r.kind \in {"step", "reset", "action", "sequence"} =>
              r.shot \in BOOLEAN /\ Wants(r) = r.shot
         /\ r.kind = "reset" => r.chars \in [Player -> Character \cup {"same"}]
         /\ r.kind = "step" => r.buttons \in Buttons /\ r.frames \in Nat
         /\ r.kind = "action" =>
              /\ r.player \in Player /\ r.character \in Character
              /\ Segments(r) \in Seq(Segment) /\ Segments(r) # <<>>
         /\ r.kind = "sequence" => Segments(r) \in Seq(Segment)
<1>1. CASE r.kind = "sequence"
  BY <1>1, ServerConstants DEF Segments, Wants
<1>2. CASE r.kind # "sequence"
  <2>1. r \in Parsed
    BY <1>2, ServerConstants
  <2>2. r.kind = "reset" => r.chars \in [Player -> Character \cup {"same"}] /\ r.shot \in BOOLEAN
    BY <2>1 DEF Parsed
  <2>3. r.kind = "step" => r.buttons \in Buttons /\ r.frames \in 1..MaxStep /\ r.shot \in BOOLEAN
    BY <2>1 DEF Parsed
  <2>4. r.kind = "action" => /\ r.player \in Player /\ r.character \in Character
                             /\ r.name \in DOMAIN Named /\ r.shot \in BOOLEAN
    BY <2>1 DEF Parsed
  <2>5. r.kind = "action" => Segments(r) \in Seq(Segment) /\ Segments(r) # <<>>
    BY <2>4, NamedSegments DEF Segments
  <2>6. \A i \in 1..MaxStep : i \in Nat
    BY GymConstants
  <2>7. r.kind \in {"step", "reset", "action", "sequence"} =>
          r.shot \in BOOLEAN /\ Wants(r) = r.shot
    BY <1>2, <2>2, <2>3, <2>4 DEF Wants
  <2> QED BY <1>2, <2>2, <2>3, <2>4, <2>5, <2>6, <2>7
<1> QED BY <1>1, <1>2

WorkType == [left : Seq(Segment), reward : Int, start : Nat]

\* One thread at a time is inside a handler; only a sequence has work.
Control ==
  /\ owner \in Thread \cup {"free"}
  /\ pc \in [Thread -> {"idle", "waiting", "entered", "sequence"}]
  /\ request \in [Thread -> Request]
  /\ work \in [Thread -> WorkType]
  /\ DOMAIN reply = Thread
  /\ \A t \in Thread : pc[t] \in {"entered", "sequence"} <=> owner = t
  /\ \A t \in Thread : pc[t] = "sequence" =>
       work[t].left # <<>> /\ request[t].kind \in {"action", "sequence"}
  /\ \A t \in Thread : pc[t] # "sequence" => work[t].reward = 0

EnvOK == env \in EnvType /\ base \in Bars /\ earned \in Int

Pending == IF owner = "free" THEN 0 ELSE work[owner].reward

\* The rewards answered and the ones a running sequence has collected.
Telescope ==
  /\ ~env.last.known => earned = 0 /\ Pending = 0
  /\ env.last.known /\ ~env.requiresReset =>
       Settled(env) /\ earned + Pending = Reward([health |-> base], env.last)

Inv == Control /\ EnvOK /\ Telescope /\ ActionInItsMatch /\ ScreenshotAsAsked

\* The handler answers: nothing is pending and nobody has the environment.
LEMMA AnswerKeeps ==
  ASSUME Inv, NEW t \in Thread, owner = t, NEW a, Answer(t, a), request' = request,
         a.ok => a.shot = a.wanted
  PROVE  Control' /\ ActionInItsMatch' /\ ScreenshotAsAsked' /\ Pending' = 0
<1>1. NoWork \in WorkType /\ NoWork.reward = 0
  BY DEF NoWork, WorkType
<1>2. /\ reply' = [reply EXCEPT ![t] = a] /\ owner' = "free" /\ pc' = [pc EXCEPT ![t] = "idle"]
      /\ work' = [work EXCEPT ![t] = NoWork]
  BY DEF Answer
<1>3. Control'
  <2>1. /\ owner' \in Thread \cup {"free"} /\ request' \in [Thread -> Request]
        /\ pc' \in [Thread -> {"idle", "waiting", "entered", "sequence"}]
        /\ work' \in [Thread -> WorkType] /\ DOMAIN reply' = Thread
    BY <1>1, <1>2 DEF Inv, Control
  <2>2. \A u \in Thread : ~(pc'[u] \in {"entered", "sequence"}) /\ owner' # u
    BY <1>2, ServerConstants DEF Inv, Control
  <2>3. \A u \in Thread : work'[u].reward = 0
    BY <1>1, <1>2 DEF Inv, Control
  <2> QED BY <2>1, <2>2, <2>3 DEF Control
<1>4. ActionInItsMatch'
  BY <1>2, <1>3, ServerConstants DEF ActionInItsMatch, Control
<1>5. ScreenshotAsAsked'
  BY <1>2 DEF Inv, Control, ScreenshotAsAsked
<1> QED BY <1>2, <1>3, <1>4, <1>5 DEF Pending

\* A refusal is an answer,
LEMMA RefuseKeeps ==
  ASSUME Inv, NEW t \in Thread, owner = t, Refuse(t), request' = request
  PROVE  Control' /\ ActionInItsMatch' /\ ScreenshotAsAsked' /\ Pending' = 0
<1>1. NoReply.ok = FALSE
  BY DEF NoReply
<1> QED BY <1>1, AnswerKeeps DEF Refuse

\* and so is an observation, with the screenshot it was asked for.
LEMMA AnsweredKeeps ==
  ASSUME Inv, NEW t \in Thread, owner = t, NEW x, NEW y, NEW z, Answered(t, x, y, z),
         request' = request, env'.last.shot = Wants(request[t])
  PROVE  Control' /\ ActionInItsMatch' /\ ScreenshotAsAsked' /\ Pending' = 0
  BY AnswerKeeps DEF Answered

\* A sequence begins.
LEMMA BeginKeeps ==
  ASSUME Inv, NEW t \in Thread, pc[t] = "entered", NEW e \in EnvType, Begin(t, e),
         UNCHANGED <<owner, reply, request>>,
         request[t].kind \in {"action", "sequence"},
         Segments(request[t]) \in Seq(Segment), Segments(request[t]) # <<>>,
         request[t].kind = "action" => env'.chars[request[t].player] = request[t].character
  PROVE  Control' /\ ActionInItsMatch' /\ ScreenshotAsAsked' /\ Pending' = 0 /\ Pending = 0
<1> DEFINE w == [left |-> Segments(request[t]), reward |-> 0, start |-> e.last.frame]
<1>1. w \in WorkType /\ w.reward = 0 /\ w.left # <<>>
  BY DEF WorkType, EnvType, Observation
<1>2. pc' = [pc EXCEPT ![t] = "sequence"] /\ work' = [work EXCEPT ![t] = w]
  BY DEF Begin
<1> HIDE DEF w
<1>3. owner = t
  BY DEF Inv, Control
<1>4. Control'
  BY <1>1, <1>2, <1>3 DEF Inv, Control
<1>5. ActionInItsMatch'
  BY <1>2, <1>3, <1>4 DEF ActionInItsMatch, Control, Inv
<1>6. ScreenshotAsAsked'
  BY DEF Inv, ScreenshotAsAsked
<1>7. owner # "free" /\ work[t].reward = 0 /\ work'[t].reward = 0
  BY <1>1, <1>2, <1>3, ServerConstants DEF Inv, Control
<1> QED BY <1>3, <1>4, <1>5, <1>6, <1>7 DEF Pending
-----------------------------------------------------------------------------
(***************************************************************************)
(* One lemma per handler.                                                  *)
(***************************************************************************)

\* Taking a request and the mutex leaves the environment alone.
LEMMA QueueStep ==
  ASSUME Inv, NEW t \in Thread, Receive(t) \/ Lock(t)
  PROVE  Inv'
<1>1. UNCHANGED <<env, work, reply, base, earned>>
  BY DEF Receive, Lock
<1>2. Control'
  BY ServerConstants DEF Inv, Control, Receive, Lock
<1>3. Pending' = Pending
  <2>1. CASE Receive(t)
    BY <2>1 DEF Receive, Pending
  <2>2. CASE Lock(t)
    BY <1>1, <2>2, ServerConstants DEF Lock, Pending, Inv, Control
  <2> QED BY <2>1, <2>2
<1>4. EnvOK' /\ Telescope' /\ ScreenshotAsAsked'
  BY <1>1, <1>3 DEF Inv, EnvOK, Telescope, Settled, ScreenshotAsAsked
<1>5. ActionInItsMatch'
  BY <1>1 DEF Inv, Control, ActionInItsMatch, Receive, Lock
<1> QED BY <1>2, <1>4, <1>5 DEF Inv

\* A handler that only observes: a settled environment shows what it showed.
LEMMA ObserveStep ==
  ASSUME Inv, NEW t \in Thread, Health(t) \/ Screenshot(t)
  PROVE  Inv'
<1>1. /\ owner = t /\ env \in EnvType /\ base \in Bars /\ earned \in Int
      /\ Pending = 0
  BY ServerConstants DEF Health, Screenshot, Enters, Inv, Control, EnvOK, Pending
<1>2. PICK on \in BOOLEAN :
        /\ env' = Observed(SetScreenshot(env, on)) /\ on = Wants(request[t])
  BY DEF Health, Screenshot, Enters, Wants
<1> DEFINE e == SetScreenshot(env, on)
<1>3. /\ e \in EnvType /\ e.shot = on /\ e.last = env.last
      /\ e.requiresReset = env.requiresReset /\ (Settled(env) => Settled(e))
  BY <1>1, ScreenshotEffect DEF Settled
<1>4. env' = Observed(e)
  BY <1>2
<1> HIDE DEF e
<1>5. /\ env' \in EnvType /\ env'.last.known = TRUE /\ env'.last.shot = on
      /\ env'.requiresReset = env.requiresReset /\ Settled(env')
      /\ Settled(e) => env'.last.health = e.last.health
  BY <1>3, <1>4, ObservedEffect
<1>6. Control' /\ ActionInItsMatch' /\ ScreenshotAsAsked' /\ Pending' = 0
  BY <1>1, <1>2, <1>5, AnsweredKeeps DEF Health, Screenshot
<1>7. env'.last.health \in Bars
  BY <1>5 DEF EnvType, Observation
<1>8. CASE env.last.known
  <2>1. base' = base /\ earned' = earned
    BY <1>8 DEF Health, Screenshot, SameEpisode
  <2>2. ~env.requiresReset => env'.last.health = env.last.health
    BY <1>3, <1>5, <1>8 DEF Inv, Telescope
  <2>3. ~env.requiresReset => earned + 0 = Reward([health |-> base], env.last)
    BY <1>1, <1>8 DEF Inv, Telescope
  <2>4. ~env.requiresReset => earned' + 0 = Reward([health |-> base'], env'.last)
    BY <2>1, <2>2, <2>3 DEF Reward
  <2> QED BY <1>1, <1>5, <1>6, <2>1, <2>4 DEF Inv, EnvOK, Telescope
<1>9. CASE ~env.last.known
  <2>1. base' = env'.last.health /\ earned' = 0
    BY <1>9 DEF Health, Screenshot, SameEpisode, NewEpisode
  <2>2. Reward([health |-> base'], env'.last) = 0
    BY <1>7, <2>1, RewardSums
  <2> QED BY <1>5, <1>6, <1>7, <2>1, <2>2 DEF Inv, EnvOK, Telescope
<1> QED BY <1>8, <1>9

\* A refused request may have left another include_screenshot behind, nothing else.
LEMMA RefusedStep ==
  ASSUME Inv, NEW t \in Thread, owner = t, Refuse(t), NEW on \in BOOLEAN,
         env' = SetScreenshot(env, on), UNCHANGED <<request, base, earned>>,
         \/ Pending = 0
         \/ env.last.known /\ env.requiresReset
  PROVE  Inv'
<1>1. Control' /\ ActionInItsMatch' /\ ScreenshotAsAsked' /\ Pending' = 0
  BY RefuseKeeps
<1>2. /\ env' \in EnvType /\ env'.last = env.last
      /\ env'.requiresReset = env.requiresReset /\ (Settled(env) => Settled(env'))
  BY ScreenshotEffect DEF Inv, EnvOK, Settled
<1> QED BY <1>1, <1>2 DEF Inv, EnvOK, Telescope

\* A new episode starts from what it shows.
LEMMA EpisodeStarts ==
  ASSUME env' \in EnvType, env'.last.known, Settled(env'), NewEpisode, Pending' = 0
  PROVE  EnvOK' /\ Telescope'
<1>1. base' = env'.last.health /\ earned' = 0 /\ env'.last.health \in Bars
  BY DEF NewEpisode, EnvType, Observation
<1>2. Reward([health |-> base'], env'.last) = 0
  BY <1>1, RewardSums
<1> QED BY <1>1, <1>2 DEF EnvOK, Telescope

\* A reset, or one whose match cannot be prepared.
LEMMA ResetStep ==
  ASSUME Inv, NEW t \in Thread, Reset(t)
  PROVE  Inv'
<1>1. /\ owner = t /\ env \in EnvType /\ Pending = 0 /\ request' = request
      /\ request[t] \in Request /\ request[t].kind = "reset"
  BY ServerConstants DEF Reset, Enters, Inv, Control, EnvOK, Pending
<1> DEFINE shot == request[t].shot
           chosen == Chosen(request[t])
           e == SetScreenshot(env, shot)
<1>2. shot \in BOOLEAN /\ Wants(request[t]) = shot
      /\ request[t].chars \in [Player -> Character \cup {"same"}]
  BY <1>1, RequestFacts
<1>3. chosen \in [Player -> Character]
  BY <1>1, <1>2 DEF Chosen, EnvType
<1>4. e \in EnvType /\ e.shot = shot
  BY <1>1, <1>2, ScreenshotEffect
<1> HIDE DEF chosen, e
<1>5. CASE env' = ResetMatch(e, chosen) /\ Answered(t, 0, 0, 0) /\ NewEpisode
  <2>1. /\ env' \in EnvType /\ env'.last.known /\ env'.last.shot = shot /\ Settled(env')
    BY <1>3, <1>4, <1>5, ResetEffect
  <2>2. Control' /\ ActionInItsMatch' /\ ScreenshotAsAsked' /\ Pending' = 0
    BY <1>1, <1>2, <1>5, <2>1, AnsweredKeeps
  <2> QED BY <1>5, <2>1, <2>2, EpisodeStarts DEF Inv
<1>6. CASE env' = e /\ Refuse(t) /\ UNCHANGED <<base, earned>>
  BY <1>1, <1>2, <1>6, RefusedStep DEF e
<1> QED BY <1>5, <1>6 DEF Reset, chosen, e

\* A refusal that left the environment alone.
LEMMA RefusedSame ==
  ASSUME Inv, NEW t \in Thread, owner = t, Refuse(t), Pending = 0,
         UNCHANGED <<env, request, base, earned>>
  PROVE  Inv'
<1>1. Control' /\ ActionInItsMatch' /\ ScreenshotAsAsked' /\ Pending' = 0
  BY RefuseKeeps
<1> QED BY <1>1 DEF Inv, EnvOK, Telescope, Settled

\* The backend stalls: no reward is answered before the next reset.
LEMMA StalledStep ==
  ASSUME Inv, NEW t \in Thread, owner = t, Refuse(t), UNCHANGED <<request, base, earned>>,
         env' \in EnvType, env'.last = env.last, env'.requiresReset
  PROVE  Inv'
<1>1. Control' /\ ActionInItsMatch' /\ ScreenshotAsAsked' /\ Pending' = 0
  BY RefuseKeeps
<1> QED BY <1>1 DEF Inv, EnvOK, Telescope

\* A step's reward continues the sum, or starts it.
LEMMA RewardGrows ==
  ASSUME Inv, NEW n \in EnvType, env.last.known => ~env.requiresReset,
         base' = IF env.last.known THEN base ELSE Previous(env).health
  PROVE  /\ base' \in Bars /\ Reward(Previous(env), n.last) \in Int
         /\ earned + Pending + Reward(Previous(env), n.last)
              = Reward([health |-> base'], n.last)
<1>1. env \in EnvType /\ base \in Bars
  BY DEF Inv, EnvOK
<1>2. /\ Previous(env).health \in Bars /\ (env.last.known => Previous(env) = env.last)
      /\ n.last.health \in Bars
  BY <1>1, PreviousEffect DEF EnvType, Observation
<1>3. base' \in Bars
  BY <1>1, <1>2
<1> DEFINE r == Reward(Previous(env), n.last)
           b == [health |-> base']
<1>4. r \in Int /\ b.health \in Bars
  BY <1>2, <1>3, RewardSums
<1>5. CASE env.last.known
  <2>1. earned + Pending = Reward(b, env.last) /\ Previous(env) = env.last
    BY <1>2, <1>5 DEF Inv, Telescope
  <2>2. Reward(b, env.last) + Reward(env.last, n.last) = Reward(b, n.last)
    BY <1>2, <1>4, <2>1, RewardSums
  <2> QED BY <1>3, <1>4, <2>1, <2>2
<1>6. CASE ~env.last.known
  <2>1. earned + Pending = 0 /\ b.health = Previous(env).health
    BY <1>6 DEF Inv, Telescope
  <2>2. Reward(b, n.last) = r
    BY <2>1 DEF Reward
  <2> HIDE DEF r, b
  <2>3. earned + Pending + r = Reward(b, n.last)
    BY <1>4, <2>1, <2>2
  <2> QED BY <1>3, <1>4, <2>3 DEF r, b
<1> QED BY <1>5, <1>6

\* A step: refused, stalled, or answered with its reward.
LEMMA StepStep ==
  ASSUME Inv, NEW t \in Thread, Step(t)
  PROVE  Inv'
<1>1. /\ owner = t /\ env \in EnvType /\ Pending = 0 /\ request' = request
      /\ request[t] \in Request /\ request[t].kind = "step" /\ earned \in Int
  BY ServerConstants DEF Step, Enters, Inv, Control, EnvOK, Pending
<1> DEFINE shot == request[t].shot
           e == SetScreenshot(env, shot)
           b == request[t].buttons
           k == request[t].frames
<1>2. shot \in BOOLEAN /\ Wants(request[t]) = shot /\ b \in Buttons /\ k \in Nat
  BY <1>1, RequestFacts
<1>3. /\ e \in EnvType /\ e.shot = shot /\ e.last = env.last
      /\ e.requiresReset = env.requiresReset
  BY <1>1, <1>2, ScreenshotEffect
<1>4. \/ StepRefused(e) /\ env' = e /\ Refuse(t) /\ UNCHANGED <<base, earned>>
      \/ /\ ~StepRefused(e)
         /\ \E o \in Outcome(Started(e), k) :
              \/ /\ o.stalled /\ env' = StepStalled(e, b, o) /\ Refuse(t)
                 /\ UNCHANGED <<base, earned>>
              \/ /\ ~o.stalled /\ env' = StepButtons(e, b, o)
                 /\ Answered(t, k, o.vblanks, o.vblanks)
                 /\ base' = IF env.last.known THEN base ELSE Previous(env).health
                 /\ earned' = earned + Reward(Previous(env), env'.last)
  BY DEF Step
<1>5. CASE StepRefused(e) /\ env' = e /\ Refuse(t) /\ UNCHANGED <<base, earned>>
  BY <1>1, <1>2, <1>5, RefusedStep
<1> HIDE DEF e, b, k, shot
<1>6. CASE /\ ~StepRefused(e)
           /\ \E o \in Outcome(Started(e), k) :
                \/ /\ o.stalled /\ env' = StepStalled(e, b, o) /\ Refuse(t)
                   /\ UNCHANGED <<base, earned>>
                \/ /\ ~o.stalled /\ env' = StepButtons(e, b, o)
                   /\ Answered(t, k, o.vblanks, o.vblanks)
                   /\ base' = IF env.last.known THEN base ELSE Previous(env).health
                   /\ earned' = earned + Reward(Previous(env), env'.last)
  <2>1. PICK o \in Outcome(Started(e), k) :
          \/ /\ o.stalled /\ env' = StepStalled(e, b, o) /\ Refuse(t)
             /\ UNCHANGED <<base, earned>>
          \/ /\ ~o.stalled /\ env' = StepButtons(e, b, o)
             /\ Answered(t, k, o.vblanks, o.vblanks)
             /\ base' = IF env.last.known THEN base ELSE Previous(env).health
             /\ earned' = earned + Reward(Previous(env), env'.last)
    BY <1>6
  <2>2. env.last.known => ~env.requiresReset
    BY <1>3, <1>6, StartedEffect DEF StepRefused
  <2>3. CASE o.stalled /\ env' = StepStalled(e, b, o) /\ Refuse(t) /\ UNCHANGED <<base, earned>>
    BY <1>1, <1>2, <1>3, <2>3, StepEffect, StalledStep, ZenonT(40)
  <2>4. CASE /\ ~o.stalled /\ env' = StepButtons(e, b, o)
             /\ Answered(t, k, o.vblanks, o.vblanks)
             /\ base' = IF env.last.known THEN base ELSE Previous(env).health
             /\ earned' = earned + Reward(Previous(env), env'.last)
    <3> DEFINE n == StepButtons(e, b, o)
    <3>5. n \in EnvType /\ n.last.known = TRUE /\ n.last.shot = shot /\ Settled(n)
      BY <1>2, <1>3, StepEffect
    <3>6. env' = n
      BY <2>4
    <3> HIDE DEF n
    <3>1. /\ env' \in EnvType /\ env'.last.known = TRUE /\ env'.last.shot = shot
          /\ Settled(env')
      BY <3>5, <3>6
    <3>2. Control' /\ ActionInItsMatch' /\ ScreenshotAsAsked' /\ Pending' = 0
      BY <1>1, <1>2, <2>4, <3>1, AnsweredKeeps
    <3> DEFINE r == Reward(Previous(env), env'.last)
    <3>3. /\ base' \in Bars /\ r \in Int
          /\ earned + Pending + r = Reward([health |-> base'], env'.last)
      BY <2>2, <2>4, <3>1, RewardGrows
    <3> HIDE DEF r
    <3>4. earned' \in Int /\ earned' + 0 = earned + Pending + r
      BY <1>1, <2>4, <3>3 DEF r
    <3> QED BY <3>1, <3>2, <3>3, <3>4 DEF Inv, EnvOK, Telescope
  <2> QED BY <2>1, <2>3, <2>4
<1> QED BY <1>4, <1>5, <1>6

\* A named action selects its character and begins.
LEMMA SelectStep ==
  ASSUME Inv, NEW t \in Thread, SelectCharacter(t)
  PROVE  Inv'
<1>1. /\ owner = t /\ env \in EnvType /\ Pending = 0 /\ request' = request
      /\ request[t] \in Request /\ request[t].kind = "action" /\ pc[t] = "entered"
  BY ServerConstants DEF SelectCharacter, Enters, Inv, Control, EnvOK, Pending
<1> DEFINE r == request[t]
<1>2. /\ r.player \in Player /\ r.character \in Character
      /\ Segments(r) \in Seq(Segment) /\ Segments(r) # <<>>
  BY <1>1, RequestFacts
<1>3. CASE /\ env.chars[r.player] = r.character /\ Begin(t, env)
           /\ UNCHANGED <<env, base, earned, owner, reply>>
  <2>1. Control' /\ ActionInItsMatch' /\ ScreenshotAsAsked' /\ Pending' = 0
    BY <1>1, <1>2, <1>3, BeginKeeps
  <2> QED BY <1>1, <1>3, <2>1 DEF Inv, EnvOK, Telescope, Settled
<1>4. CASE /\ env' = ResetMatch(env, [env.chars EXCEPT ![r.player] = r.character])
           /\ Begin(t, env') /\ NewEpisode /\ UNCHANGED <<owner, reply>>
  <2> DEFINE cs == [env.chars EXCEPT ![r.player] = r.character]
  <2>1. cs \in [Player -> Character] /\ cs[r.player] = r.character
    BY <1>1, <1>2 DEF EnvType
  <2> HIDE DEF cs
  <2>2. /\ env' \in EnvType /\ env'.last.known = TRUE /\ env'.chars = cs /\ Settled(env')
    BY <1>1, <1>4, <2>1, ResetEffect DEF cs
  <2>3. Control' /\ ActionInItsMatch' /\ ScreenshotAsAsked' /\ Pending' = 0
    BY <1>1, <1>2, <1>4, <2>1, <2>2, BeginKeeps
  <2> QED BY <1>4, <2>2, <2>3, EpisodeStarts DEF Inv
<1>5. CASE Refuse(t) /\ UNCHANGED <<env, base, earned>>
  BY <1>1, <1>5, RefusedSame
<1> QED BY <1>3, <1>4, <1>5 DEF SelectCharacter

\* A sequence begins, or is refused.
LEMMA BeginStep ==
  ASSUME Inv, NEW t \in Thread, BeginSequence(t)
  PROVE  Inv'
<1>1. /\ owner = t /\ env \in EnvType /\ Pending = 0 /\ request' = request
      /\ request[t] \in Request /\ request[t].kind = "sequence" /\ pc[t] = "entered"
      /\ UNCHANGED <<env, base, earned>>
  BY ServerConstants DEF BeginSequence, Enters, Inv, Control, EnvOK, Pending
<1>2. /\ Segments(request[t]) \in Seq(Segment)
      /\ Segments(request[t]) = request[t].segments
  BY <1>1, RequestFacts DEF Segments
<1>3. CASE /\ SequenceAllowed(request[t].segments) /\ Begin(t, env)
           /\ UNCHANGED <<owner, reply>>
  <2>1. Segments(request[t]) # <<>>
    BY <1>2, <1>3 DEF SequenceAllowed
  <2>2. Control' /\ ActionInItsMatch' /\ ScreenshotAsAsked' /\ Pending' = 0
    BY <1>1, <1>2, <1>3, <2>1, BeginKeeps
  <2> QED BY <1>1, <2>2 DEF Inv, EnvOK, Telescope, Settled
<1>4. CASE Refuse(t)
  BY <1>1, <1>4, RefusedSame
<1> QED BY <1>3, <1>4 DEF BeginSequence

\* A segment: refused, stalled, followed by the next one, or the last of its sequence.
LEMMA PlayStep ==
  ASSUME Inv, NEW t \in Thread, PlaySegment(t)
  PROVE  Inv'
<1> DEFINE s == Head(work[t].left)
           rest == Tail(work[t].left)
           shot == request[t].shot
           asked == SetScreenshot(env, shot /\ rest = <<>>)
           held == s.buttons
           count == s.frames
           collected == work[t].reward
<1>1. /\ pc[t] = "sequence" /\ owner = t /\ env \in EnvType /\ request' = request
      /\ request[t] \in Request /\ request[t].kind \in {"action", "sequence"}
      /\ earned \in Int /\ work \in [Thread -> WorkType] /\ work[t].left # <<>>
  BY DEF PlaySegment, Inv, Control, EnvOK
<1>2. /\ collected \in Int /\ Pending = collected /\ work[t].left \in Seq(Segment)
  BY <1>1, ServerConstants DEF WorkType, Pending
<1>3. /\ s \in Segment /\ rest \in Seq(Segment) /\ held \in Buttons /\ count \in Nat
      /\ shot \in BOOLEAN /\ Wants(request[t]) = shot
  <2> DEFINE left == work[t].left
  <2>1. left \in Seq(Segment) /\ left # <<>>
    BY <1>1, <1>2
  <2> HIDE DEF left
  <2>2. Head(left) \in Segment /\ Tail(left) \in Seq(Segment)
    BY <2>1, HeadTailProperties
  <2>3. s \in Segment /\ rest \in Seq(Segment)
    BY <2>2 DEF left
  <2>4. held \in Buttons /\ count \in Nat
    <3> HIDE DEF s
    <3> QED BY <2>3 DEF Segment
  <2>5. shot \in BOOLEAN /\ Wants(request[t]) = shot
    BY <1>1, RequestFacts
  <2> QED BY <2>3, <2>4, <2>5
<1>4. /\ asked \in EnvType /\ asked.shot = (shot /\ rest = <<>>) /\ asked.last = env.last
      /\ asked.requiresReset = env.requiresReset
  BY <1>1, <1>3, ScreenshotEffect
<1>5. CASE StepRefused(asked) /\ env' = asked /\ Refuse(t) /\ UNCHANGED <<base, earned>>
  <2>1. env.last.known /\ env.requiresReset
    BY <1>4, <1>5, StartedEffect DEF StepRefused
  <2>2. (shot /\ rest = <<>>) \in BOOLEAN
    OBVIOUS
  <2> QED BY <1>1, <1>5, <2>1, <2>2, RefusedStep
<1>6. CASE /\ ~StepRefused(asked)
           /\ \E o \in Outcome(Started(asked), count) :
                /\ o.stalled /\ env' = StepStalled(asked, held, o) /\ Refuse(t)
                /\ UNCHANGED <<base, earned>>
  <2>0. asked \in EnvType /\ held \in Buttons /\ count \in Nat
    BY <1>3, <1>4
  <2>1. PICK o \in Outcome(Started(asked), count) :
          /\ o.stalled /\ env' = StepStalled(asked, held, o) /\ Refuse(t)
          /\ UNCHANGED <<base, earned>>
    BY <1>6
  <2> HIDE DEF asked, held, count
  <2> DEFINE n == StepStalled(asked, held, o)
  <2>2. n \in EnvType /\ n.last = asked.last /\ n.requiresReset = o.stalled
    BY <2>0, StepEffect
  <2>3. env' = n
    BY <2>1
  <2> HIDE DEF n
  <2>4. env' \in EnvType /\ env'.last = env.last /\ env'.requiresReset
    BY <1>4, <2>1, <2>2, <2>3
  <2> QED BY <1>1, <2>1, <2>4, StalledStep
<1>7. ASSUME ~StepRefused(asked), NEW o \in Outcome(Started(asked), count), ~o.stalled,
             NEW next, next = StepButtons(asked, held, o),
             NEW reward, reward = collected + Reward(Previous(env), next.last),
             base' = IF env.last.known THEN base ELSE Previous(env).health,
             \/ /\ rest = <<>> \/ Finished(next.last)
                /\ EndSequence(t, next, reward, advanced + o.vblanks)
             \/ /\ rest # <<>> /\ env' = next
                /\ work' = [work EXCEPT ![t].left = rest, ![t].reward = reward]
                /\ UNCHANGED <<owner, pc, reply, earned>>
      PROVE  Inv'
  <2>1. env.last.known => ~env.requiresReset
    BY <1>4, <1>7, StartedEffect DEF StepRefused
  <2>2. /\ next \in EnvType /\ next.last.known = TRUE /\ next.last.shot = asked.shot
        /\ next.chars = env.chars /\ Settled(next)
    <3>0. asked \in EnvType /\ held \in Buttons /\ count \in Nat
      BY <1>3, <1>4
    <3>1. asked.chars = env.chars
      BY <1>1, <1>3, ScreenshotEffect
    <3> DEFINE n == StepButtons(asked, held, o)
    <3> HIDE DEF asked, held, count
    <3>2. /\ n \in EnvType /\ n.last.known = TRUE /\ n.last.shot = asked.shot
          /\ n.chars = asked.chars /\ Settled(n)
      BY <3>0, StepEffect, ZenonT(40)
    <3>3. next = n
      BY <1>7
    <3> HIDE DEF n
    <3> QED BY <3>1, <3>2, <3>3
  <2> DEFINE r == Reward(Previous(env), next.last)
  <2>3. /\ base' \in Bars /\ r \in Int
        /\ earned + collected + r = Reward([health |-> base'], next.last)
    BY <1>2, <1>7, <2>1, <2>2, RewardGrows
  <2> HIDE DEF r, collected, asked
  <2>4. reward = collected + r
    BY <1>7 DEF r, collected
  <2>5. reward \in Int /\ earned + reward = Reward([health |-> base'], next.last)
    BY <1>1, <1>2, <2>3, <2>4
  <2>6. CASE EndSequence(t, next, reward, advanced + o.vblanks)
             /\ (rest = <<>> \/ Finished(next.last))
    <3> DEFINE final == SetScreenshot(next, TRUE)
    <3>1. env' = IF shot /\ ~next.last.shot THEN Observed(final) ELSE next
      BY <2>6 DEF EndSequence
    <3>2. final \in EnvType /\ final.shot = TRUE /\ Settled(final) /\ final.last = next.last
      BY <2>2, ScreenshotEffect DEF Settled
    <3> HIDE DEF final
    <3>3. /\ env' \in EnvType /\ env'.last.known = TRUE /\ Settled(env')
          /\ env'.last.health = next.last.health
      BY <2>2, <3>1, <3>2, ObservedEffect
    <3>4. env'.last.shot = Wants(request[t])
      <4>1. CASE shot /\ ~next.last.shot
        BY <1>3, <3>1, <3>2, <4>1, ObservedEffect
      <4>2. CASE ~(shot /\ ~next.last.shot)
        <5>1. next.last.shot \in BOOLEAN /\ (next.last.shot => shot)
          BY <1>3, <1>4, <2>2
        <5> QED BY <1>3, <3>1, <4>2, <5>1
      <4> QED BY <4>1, <4>2
    <3>5. Control' /\ ActionInItsMatch' /\ ScreenshotAsAsked' /\ Pending' = 0
      BY <1>1, <2>6, <3>4, AnsweredKeeps DEF EndSequence
    <3>6. earned' = earned + reward
      BY <2>6 DEF EndSequence
    <3>7. Reward([health |-> base'], env'.last) = Reward([health |-> base'], next.last)
      BY <3>3 DEF Reward
    <3>8. earned' \in Int /\ earned' + 0 = Reward([health |-> base'], env'.last)
      BY <1>1, <2>5, <3>6, <3>7
    <3> QED BY <2>3, <3>3, <3>5, <3>8 DEF Inv, EnvOK, Telescope
  <2>7. CASE /\ rest # <<>> /\ env' = next
             /\ work' = [work EXCEPT ![t].left = rest, ![t].reward = reward]
             /\ UNCHANGED <<owner, pc, reply, earned>>
    <3>1. /\ work' \in [Thread -> WorkType] /\ work'[t].left = rest
          /\ work'[t].reward = reward /\ \A u \in Thread : u # t => work'[u] = work[u]
      BY <1>1, <1>3, <2>5, <2>7 DEF WorkType
    <3>2. Control'
      BY <1>1, <2>7, <3>1 DEF Inv, Control
    <3>3. ActionInItsMatch'
      BY <1>1, <2>2, <2>7 DEF Inv, ActionInItsMatch
    <3>4. ScreenshotAsAsked'
      BY <2>7 DEF Inv, ScreenshotAsAsked
    <3>5. Pending' = reward
      BY <1>1, <2>7, <3>1, ServerConstants DEF Pending
    <3> QED BY <1>1, <2>2, <2>3, <2>5, <2>7, <3>2, <3>3, <3>4, <3>5
            DEF Inv, EnvOK, Telescope
  <2> QED BY <1>7, <2>6, <2>7
<1> QED BY <1>5, <1>6, <1>7 DEF PlaySegment

\* The invariant holds throughout.
LEMMA Invariant == Spec => []Inv
<1>1. Init => Inv
  <2> SUFFICES ASSUME Init PROVE Inv
    OBVIOUS
  <2>1. env \in EnvType /\ ~env.last.known
    BY FullBars, GymConstants DEF Init, NewEnv, NoObservation, EnvType, Observation, Buttons
  <2>2. NoWork \in WorkType /\ NoWork.reward = 0 /\ NoReply.ok = FALSE
    BY DEF NoWork, WorkType, NoReply
  <2>3. Control
    BY <2>2, ServerConstants DEF Init, Control
  <2>4. EnvOK /\ Telescope
    BY <2>1, FullBars DEF Init, EnvOK, Telescope, Pending
  <2>5. ActionInItsMatch /\ ScreenshotAsAsked
    BY <2>2 DEF Init, ActionInItsMatch, ScreenshotAsAsked
  <2> QED BY <2>3, <2>4, <2>5 DEF Inv
<1>2. Inv /\ [Next]_vars => Inv'
  <2> SUFFICES ASSUME Inv, [Next]_vars PROVE Inv'
    OBVIOUS
  <2>1. CASE UNCHANGED vars
    BY <2>1 DEF vars, Inv, Control, EnvOK, Telescope, Pending, Settled, ActionInItsMatch,
       ScreenshotAsAsked
  <2> QED BY <2>1, QueueStep, ObserveStep, ResetStep, StepStep, SelectStep, BeginStep, PlayStep
          DEF Next, Serve
<1> QED BY <1>1, <1>2, PTL DEF Spec

\* Whatever other connections ask for meanwhile, a named action plays in a match in
\* which its player has its character.
THEOREM ActionsInTheirMatch == Spec => []ActionInItsMatch
  BY Invariant, PTL DEF Inv

\* An answer has a screenshot exactly when its request asked for one, a sequence that
\* ends early included.
THEOREM ScreenshotsAsAsked == Spec => []ScreenshotAsAsked
  BY Invariant, PTL DEF Inv

\* The rewards answered since an episode began add up to the damage done in it.
THEOREM RewardsAddUp == Spec => []RewardsTelescope
<1>1. Inv => RewardsTelescope
  <2> SUFFICES ASSUME Inv, owner = "free", env.last.known, ~env.requiresReset
               PROVE  earned = Reward([health |-> base], env.last)
    BY DEF RewardsTelescope
  <2>1. Pending = 0 /\ earned \in Int
    BY DEF Pending, Inv, EnvOK
  <2>2. earned + 0 = Reward([health |-> base], env.last)
    BY <2>1 DEF Inv, Telescope
  <2> QED BY <2>1, <2>2
<1> QED BY <1>1, Invariant, PTL
-----------------------------------------------------------------------------
(***************************************************************************)
(* The frames of a sequence of segments.  TotalFrames is defined by        *)
(* recursion; the facts about it are by induction, in the form of the      *)
(* least natural number for which they would fail.                         *)
(***************************************************************************)

\* A set of natural numbers that is not empty has a least element.
LEMMA LeastNat ==
  ASSUME NEW T \in SUBSET Nat, T # {}
  PROVE  \E n \in T : \A m \in T : n <= m
<1>1. IsWellFoundedOn(OpToRel(<, Nat), Nat)
  BY NatLessThanWellFounded, Zenon
<1>2. PICK n \in T : \A m \in T : <<m, n>> \notin OpToRel(<, Nat)
  BY <1>1, WFMin, Zenon
<1>3. \A m \in T : ~(m < n)
  BY <1>2, Zenon DEF OpToRel
<1> QED BY <1>3

\* Hence induction, for a set given by its members.
LEMMA Induction ==
  ASSUME NEW S \in SUBSET Nat, 0 \in S, \A n \in S : n + 1 \in S
  PROVE  S = Nat
<1> SUFFICES ASSUME Nat \ S # {} PROVE FALSE
  OBVIOUS
<1>1. PICK n \in Nat \ S : \A m \in Nat \ S : n <= m
  BY LeastNat
<1>2. n # 0 /\ n - 1 \in Nat /\ ~(n <= n - 1) /\ (n - 1) + 1 = n
  BY <1>1
<1>3. n - 1 \in S
  BY <1>1, <1>2
<1> QED BY <1>1, <1>2, <1>3

\* The frames of the first segments of a sequence, for each number of them up to n.
Sums(s, n, f) == f = [i \in 0..n |-> IF i = 0 THEN 0 ELSE f[i - 1] + s[i].frames]

\* Every segment of a sequence has a number of frames.
LEMMA SegmentFrames ==
  ASSUME NEW s \in Seq(Segment)
  PROVE  Len(s) \in Nat /\ \A i \in 1..Len(s) : s[i].frames \in Nat
<1>1. ASSUME NEW i \in 1..Len(s) PROVE s[i].frames \in Nat
  <2>1. s[i] \in Segment
    BY ElementOfSeq
  <2> QED BY <2>1 DEF Segment
<1> QED BY <1>1, LenProperties

\* There are such sums,
LEMMA SumsExist ==
  ASSUME NEW s \in Seq(Segment)
  PROVE  \E f \in [0..Len(s) -> Nat] : Sums(s, Len(s), f)
<1> DEFINE P(n) == \E f \in [0..n -> Nat] : Sums(s, n, f)
           S == {n \in Nat : n <= Len(s) => P(n)}
<1>1. 0 \in S
  <2> DEFINE f == [i \in 0..0 |-> 0]
  <2>1. f \in [0..0 -> Nat] /\ f = [i \in 0..0 |-> IF i = 0 THEN 0 ELSE f[i - 1] + s[i].frames]
    OBVIOUS
  <2> QED BY <2>1 DEF Sums
<1>2. ASSUME NEW n \in S PROVE n + 1 \in S
  <2>1. n \in Nat /\ n + 1 \in Nat
    OBVIOUS
  <2> SUFFICES ASSUME n + 1 <= Len(s) PROVE P(n + 1)
    BY <2>1
  <2>2. n <= Len(s) /\ n + 1 \in 1..Len(s) /\ s[n + 1].frames \in Nat
    BY <2>1, SegmentFrames
  <2>3. PICK f \in [0..n -> Nat] : Sums(s, n, f)
    BY <2>2
  <2> DEFINE k == s[n + 1].frames
             g == [i \in 0..n + 1 |-> IF i = n + 1 THEN f[n] + k ELSE f[i]]
  <2>4. g \in [0..n + 1 -> Nat]
    BY <2>1, <2>2
  <2>5. ASSUME NEW i \in 0..n + 1
        PROVE  g[i] = IF i = 0 THEN 0 ELSE g[i - 1] + s[i].frames
    <3>1. CASE i = n + 1
      BY <2>1, <3>1
    <3>2. CASE i # n + 1
      <4>1. i \in 0..n /\ g[i] = f[i]
        BY <2>1, <3>2
      <4>2. f[i] = IF i = 0 THEN 0 ELSE f[i - 1] + s[i].frames
        BY <2>3, <4>1 DEF Sums
      <4>3. i # 0 => g[i - 1] = f[i - 1]
        BY <2>1, <4>1
      <4> QED BY <4>1, <4>2, <4>3
    <3> QED BY <3>1, <3>2
  <2>6. Sums(s, n + 1, g)
    BY <2>4, <2>5 DEF Sums
  <2> QED BY <2>4, <2>6
<1>3. S = Nat
  <2> HIDE DEF S
  <2>1. S \in SUBSET Nat
    BY DEF S
  <2> QED BY <1>1, <1>2, <2>1, Induction
<1>4. Len(s) \in S
  BY <1>3, LenProperties
<1> QED BY <1>4

\* and there is one choice of them.
LEMMA SumsEqual ==
  ASSUME NEW s, NEW k \in Nat, NEW f, NEW g, Sums(s, k, f), Sums(s, k, g)
  PROVE  f[k] = g[k]
<1> DEFINE S == {n \in Nat : n <= k => f[n] = g[n]}
<1>1. 0 \in S
  BY DEF Sums
<1>2. ASSUME NEW n \in S PROVE n + 1 \in S
  <2>1. n \in Nat /\ n + 1 \in Nat /\ n + 1 # 0 /\ (n + 1) - 1 = n
    OBVIOUS
  <2> SUFFICES ASSUME n + 1 <= k PROVE f[n + 1] = g[n + 1]
    BY <2>1
  <2>2. f[n] = g[n] /\ n + 1 \in 0..k
    BY <2>1
  <2>3. f[n + 1] = f[n] + s[n + 1].frames
    BY <2>1, <2>2 DEF Sums
  <2>4. g[n + 1] = g[n] + s[n + 1].frames
    BY <2>1, <2>2 DEF Sums
  <2> QED BY <2>2, <2>3, <2>4
<1>3. S = Nat
  <2> HIDE DEF S
  <2>1. S \in SUBSET Nat
    BY DEF S
  <2> QED BY <1>1, <1>2, <2>1, Induction
<1> QED BY <1>3

\* The total of a sequence is the last of its sums.
LEMMA TotalIs ==
  ASSUME NEW s \in Seq(Segment), NEW f, Sums(s, Len(s), f)
  PROVE  TotalFrames(s) = f[Len(s)]
<1> DEFINE g == CHOOSE h : Sums(s, Len(s), h)
<1>1. TotalFrames(s) = g[Len(s)]
  BY DEF TotalFrames, Sums
<1>2. Sums(s, Len(s), g)
  OBVIOUS
<1> HIDE DEF g
<1> QED BY <1>1, <1>2, SumsEqual, LenProperties

\* A sequence has the frames of its first segment and of the others.
LEMMA Totals ==
  /\ TotalFrames(<<>>) = 0
  /\ \A s \in Seq(Segment) :
       /\ TotalFrames(s) \in Nat
       /\ s # <<>> => TotalFrames(s) = Head(s).frames + TotalFrames(Tail(s))
<1>1. TotalFrames(<<>>) = 0
  <2> DEFINE f == [i \in 0..0 |-> 0]
  <2>1. f = [i \in 0..0 |-> IF i = 0 THEN 0 ELSE f[i - 1] + (<<>>)[i].frames] /\ f[0] = 0
    OBVIOUS
  <2>2. Sums(<<>>, 0, f)
    BY <2>1 DEF Sums
  <2> HIDE DEF f
  <2>3. <<>> \in Seq(Segment) /\ Len(<<>>) = 0
    BY EmptySeq
  <2> QED BY <2>1, <2>2, <2>3, TotalIs
<1>2. ASSUME NEW s \in Seq(Segment)
      PROVE  /\ TotalFrames(s) \in Nat
             /\ s # <<>> => TotalFrames(s) = Head(s).frames + TotalFrames(Tail(s))
  <2>1. PICK f \in [0..Len(s) -> Nat] : Sums(s, Len(s), f)
    BY SumsExist
  <2>2. TotalFrames(s) = f[Len(s)] /\ Len(s) \in 0..Len(s)
    BY <2>1, TotalIs, LenProperties
  <2>3. ASSUME s # <<>>
        PROVE  TotalFrames(s) = Head(s).frames + TotalFrames(Tail(s))
    <3> DEFINE n == Len(s) - 1
               a == s[1].frames
               r == Tail(s)
               g == [i \in 0..n |-> f[i + 1] - a]
    <3>1. /\ Len(s) \in Nat /\ Len(s) # 0 /\ r \in Seq(Segment) /\ Len(r) = n
          /\ \A i \in 1..n : r[i] = s[i + 1]
      BY <2>3, LenProperties, EmptySeq, HeadTailProperties
    <3>2. n \in Nat /\ n + 1 = Len(s)
      BY <3>1
    <3> HIDE DEF r, n
    <3>3. a \in Nat /\ \A i \in 1..Len(s) : f[i] = f[i - 1] + s[i].frames
      <4>1. \A i \in 1..Len(s) : s[i].frames \in Nat
        BY SegmentFrames
      <4>2. 1 \in 1..Len(s)
        BY <3>1
      <4>3. ASSUME NEW i \in 1..Len(s) PROVE f[i] = f[i - 1] + s[i].frames
        <5>1. i \in 0..Len(s) /\ i # 0
          BY <3>1
        <5> QED BY <2>1, <5>1 DEF Sums
      <4> QED BY <4>1, <4>2, <4>3
    <3>4. f[0] = 0 /\ f[1] = 0 + a
      BY <2>1, <3>1, <3>3 DEF Sums
    <3>5. ASSUME NEW i \in 0..n
          PROVE  g[i] = IF i = 0 THEN 0 ELSE g[i - 1] + r[i].frames
      <4>1. CASE i = 0
        BY <3>3, <3>4, <4>1
      <4>2. CASE i # 0
        <5>1. /\ i \in 1..n /\ i + 1 \in 1..Len(s) /\ i - 1 \in 0..n /\ i \in 0..Len(s)
              /\ (i + 1) - 1 = i /\ (i - 1) + 1 = i
          BY <3>2, <4>2
        <5>2. f[i + 1] = f[i] + r[i].frames /\ r[i].frames \in Nat
          <6>1. r[i] = s[i + 1]
            BY <3>1, <5>1
          <6>2. s[i + 1].frames \in Nat
            BY <5>1, SegmentFrames
          <6>3. f[i + 1] = f[(i + 1) - 1] + s[i + 1].frames
            BY <3>3, <5>1
          <6> QED BY <5>1, <6>1, <6>2, <6>3
        <5>3. f[i] \in Nat
          BY <5>1
        <5>4. g[i] = f[i + 1] - a /\ g[i - 1] = f[i] - a
          BY <5>1
        <5> HIDE DEF g, a
        <5> QED BY <3>3, <4>2, <5>2, <5>3, <5>4
      <4> QED BY <4>1, <4>2
    <3>6. Sums(r, n, g)
      BY <3>5 DEF Sums
    <3>7. TotalFrames(r) = g[n]
      <4> HIDE DEF g
      <4> QED BY <3>1, <3>6, TotalIs
    <3>8. g[n] = f[Len(s)] - a /\ f[Len(s)] \in Nat
      BY <2>2, <3>2
    <3> HIDE DEF g, a
    <3>9. f[Len(s)] = a + g[n]
      BY <3>3, <3>8
    <3> QED BY <2>2, <3>7, <3>9 DEF a, r
  <2> QED BY <2>2, <2>3
<1> QED BY <1>1, <1>2
-----------------------------------------------------------------------------
(***************************************************************************)
(* The frames that are reached, asked for and reported.                    *)
(***************************************************************************)

\* The frame of the observation that is kept is the machine's, until a stall.
FramesInv ==
  /\ ~env.last.known => env.last.frame = 0
  /\ env.last.known /\ ~env.requiresReset => env.frame = env.last.frame

\* What a running sequence has reached and what it has left make up what was asked,
\* and what it has reached is what went by since it began.
CountsInv ==
  /\ sent \in 0..MaxRequests /\ advanced \in Nat
  /\ \A t \in Thread : pc[t] # "sequence" => work[t].left = <<>>
  /\ (\A t \in Thread : pc[t] # "sequence") => advanced = 0
  /\ \A t \in Thread : pc[t] = "sequence" =>
       /\ TotalFrames(Segments(request[t])) <= MaxStep
       /\ advanced + TotalFrames(work[t].left) = TotalFrames(Segments(request[t]))
       /\ env.last.frame = work[t].start + advanced
       /\ ~env.last.known => advanced = 0

Counted == FramesInv /\ CountsInv /\ NoPartialFrames

\* An observation tells the frame and whether the match is over.
LEMMA ObservedFrames ==
  ASSUME NEW e \in EnvType
  PROVE  LET n == Observed(e) IN
         /\ n.frame = e.frame /\ n.last.frame = e.frame /\ n.halted = e.halted
         /\ n.health = IF e.readable THEN e.bars ELSE e.health
         /\ n.last.terminal = (n.halted \/ \E p \in Player : n.health[p] = 0)
<1> DEFINE r == ReadHud(e)
           o == MakeObservation(r)
           n == [r EXCEPT !.last = o]
<1>1. /\ r \in EnvType /\ r.frame = e.frame /\ r.halted = e.halted
      /\ r.health = IF e.readable THEN e.bars ELSE e.health
  BY ReadHudEffect
<1>2. Observed(e) = n
  BY DEF Observed
<1> HIDE DEF r
<1>3. /\ o.frame = r.frame
      /\ o.terminal = (r.halted \/ \E p \in Player : r.health[p] = 0)
  BY DEF MakeObservation
<1> HIDE DEF o
<1>4. n.last = o /\ n.frame = r.frame /\ n.halted = r.halted /\ n.health = r.health
  BY <1>1 DEF EnvType
<1> HIDE DEF n
<1> QED BY <1>1, <1>2, <1>3, <1>4

\* Observing again what is settled finds the same frame and the same end.
LEMMA ObservedAgain ==
  ASSUME NEW e \in EnvType, Settled(e), e.frame = e.last.frame,
         e.last.terminal = (e.halted \/ \E p \in Player : e.health[p] = 0)
  PROVE  LET n == Observed(e) IN
         n.frame = n.last.frame /\ n.last.frame = e.last.frame
         /\ Finished(n.last) = Finished(e.last)
<1> DEFINE n == Observed(e)
<1>1. /\ n.frame = e.frame /\ n.last.frame = e.frame /\ n.halted = e.halted
      /\ n.health = e.health
      /\ n.last.terminal = (n.halted \/ \E p \in Player : n.health[p] = 0)
  BY ObservedFrames DEF Settled
<1> HIDE DEF n
<1>2. n.last.terminal = e.last.terminal
  BY <1>1
<1> QED BY <1>1, <1>2 DEF Finished, Truncated, n

\* A step reaches all its frames, or the machine halted and the match is over.
LEMMA StepFrames ==
  ASSUME NEW e \in EnvType, NEW b \in Buttons, NEW k \in Nat,
         NEW o \in Outcome(Started(e), k), ~o.stalled
  PROVE  LET n == StepButtons(e, b, o) IN
         /\ o.vblanks \in Nat
         /\ n.frame = (IF e.last.known THEN e.frame ELSE 0) + o.vblanks
         /\ n.frame = n.last.frame
         /\ n.last.terminal = (n.halted \/ \E p \in Player : n.health[p] = 0)
         /\ o.vblanks = k \/ n.last.terminal
<1> DEFINE s == Started(e)
           m == BackendStep(s, b, o)
           n == Observed(m)
<1>1. s \in EnvType /\ s.frame = IF e.last.known THEN e.frame ELSE 0
  BY StartedEffect DEF Started, BackendReset, EnvType
<1>2. StepButtons(e, b, o) = n
  BY DEF StepButtons
<1>3. /\ o.vblanks \in Nat
      /\ o.vblanks = k \/ o.halted
  BY DEF Outcome
<1> HIDE DEF s
<1>4. m \in EnvType
  BY <1>1, BackendStepEffect DEF s
<1>5. m.frame = s.frame + o.vblanks /\ m.halted = o.halted
  BY <1>1 DEF BackendStep, EnvType
<1> HIDE DEF m
<1>6. /\ n.frame = m.frame /\ n.last.frame = m.frame /\ n.halted = m.halted
      /\ n.last.terminal = (n.halted \/ \E p \in Player : n.health[p] = 0)
  BY <1>4, ObservedFrames
<1> HIDE DEF n
<1>7. o.halted => n.last.terminal
  BY <1>5, <1>6
<1> QED BY <1>1, <1>2, <1>3, <1>5, <1>6, <1>7

\* A handler that answers leaves no count behind.
LEMMA AnswerCounts ==
  ASSUME Inv, Counted, NEW t \in Thread, owner = t, NEW a, Answer(t, a),
         request' = request, sent' = sent,
         a.ok => a.reported = a.advanced /\ (a.advanced = a.asked \/ a.finished)
  PROVE  CountsInv' /\ NoPartialFrames'
<1>1. /\ reply' = [reply EXCEPT ![t] = a] /\ pc' = [pc EXCEPT ![t] = "idle"]
      /\ work' = [work EXCEPT ![t] = NoWork] /\ advanced' = 0
  BY DEF Answer
<1>2. \A u \in Thread : pc'[u] # "sequence"
  BY <1>1 DEF Inv, Control
<1>3. \A u \in Thread : work'[u].left = <<>>
  BY <1>1 DEF Inv, Control, Counted, CountsInv, NoWork
<1>4. CountsInv'
  BY <1>1, <1>2, <1>3 DEF Counted, CountsInv
<1>5. NoPartialFrames'
  BY <1>1 DEF Inv, Control, Counted, NoPartialFrames
<1> QED BY <1>4, <1>5

\* A refusal counts nothing,
LEMMA RefuseCounts ==
  ASSUME Inv, Counted, NEW t \in Thread, owner = t, Refuse(t), request' = request,
         sent' = sent
  PROVE  CountsInv' /\ NoPartialFrames'
<1>1. NoReply.ok = FALSE
  BY DEF NoReply
<1> QED BY <1>1, AnswerCounts DEF Refuse

\* and an answer reports what it reached: all it was asked, or to the end of the match.
LEMMA AnsweredCounts ==
  ASSUME Inv, Counted, NEW t \in Thread, owner = t, NEW x, NEW y, NEW z,
         Answered(t, x, y, z), request' = request, sent' = sent,
         z = y, y = x \/ Finished(env'.last)
  PROVE  CountsInv' /\ NoPartialFrames'
  BY AnswerCounts DEF Answered

\* Asking for a screenshot or not leaves the machine and its observation alone.
LEMMA ScreenshotKeeps ==
  ASSUME NEW e \in EnvType, NEW on \in BOOLEAN
  PROVE  LET n == SetScreenshot(e, on) IN
         /\ n \in EnvType /\ n.last = e.last /\ n.requiresReset = e.requiresReset
         /\ n.frame = e.frame /\ n.halted = e.halted /\ n.health = e.health
  BY DEF SetScreenshot, EnvType

\* A refused request may have left another include_screenshot behind, nothing else.
LEMMA RefusedFrames ==
  ASSUME Inv, FramesInv, NEW on \in BOOLEAN, env' = SetScreenshot(env, on)
  PROVE  FramesInv'
<1>1. env'.last = env.last /\ env'.requiresReset = env.requiresReset
  BY ScreenshotEffect DEF Inv, EnvOK
<1>2. env'.frame = env.frame
  BY DEF SetScreenshot, Inv, EnvOK, EnvType
<1> QED BY <1>1, <1>2 DEF FramesInv

\* Taking a request and the mutex counts nothing.
LEMMA QueueCounts ==
  ASSUME Inv, Counted, NEW t \in Thread, Receive(t) \/ Lock(t)
  PROVE  Counted'
<1>1. /\ UNCHANGED <<env, work, reply, advanced>> /\ sent' \in 0..MaxRequests
      /\ pc[t] # "sequence" /\ pc'[t] # "sequence"
      /\ \A u \in Thread : u # t => pc'[u] = pc[u] /\ request'[u] = request[u]
  BY ServerConstants DEF Receive, Lock, Inv, Control, Counted, CountsInv
<1>2. CountsInv'
  BY <1>1 DEF Counted, CountsInv
<1>3. FramesInv' /\ NoPartialFrames'
  BY <1>1 DEF Counted, FramesInv, NoPartialFrames
<1> QED BY <1>2, <1>3 DEF Counted

\* An observation reaches no frame.
LEMMA ObserveCounts ==
  ASSUME Inv, Counted, NEW t \in Thread, Health(t) \/ Screenshot(t)
  PROVE  Counted'
<1>1. /\ owner = t /\ env \in EnvType /\ request' = request /\ sent' = sent
      /\ Answered(t, 0, 0, 0)
  BY DEF Health, Screenshot, Enters, Inv, Control, EnvOK
<1>2. PICK on \in BOOLEAN : env' = Observed(SetScreenshot(env, on))
  BY DEF Health, Screenshot
<1> DEFINE e == SetScreenshot(env, on)
<1>3. e \in EnvType
  BY <1>1, ScreenshotEffect
<1>4. env' = Observed(e)
  BY <1>2
<1> HIDE DEF e
<1>5. env'.last.known = TRUE /\ env'.frame = env'.last.frame
  BY <1>3, <1>4, ObservedEffect, ObservedFrames
<1>6. CountsInv' /\ NoPartialFrames'
  BY <1>1, AnsweredCounts
<1> QED BY <1>5, <1>6 DEF Counted, FramesInv

\* A new match is observed on its first frame.
LEMMA ResetFrames ==
  ASSUME NEW e \in EnvType, NEW cs \in [Player -> Character]
  PROVE  LET n == ResetMatch(e, cs) IN n.last.known = TRUE /\ n.frame = n.last.frame
<1> DEFINE d == [e EXCEPT !.chars = cs]
           b == BackendReset(d)
<1>1. d \in EnvType
  BY DEF EnvType
<1> HIDE DEF d
<1>2. b \in EnvType
  BY <1>1, BackendResetEffect
<1> HIDE DEF b
<1>3. ResetMatch(e, cs) = Observed(b)
  BY DEF ResetMatch, ResetEnv, b, d
<1> DEFINE n == Observed(b)
<1>4. n.last.known = TRUE
  BY <1>2, ObservedEffect
<1>5. n.frame = n.last.frame
  BY <1>2, ObservedFrames
<1> HIDE DEF n
<1> QED BY <1>3, <1>4, <1>5 DEF n

\* Nor does a reset.
LEMMA ResetCounts ==
  ASSUME Inv, Counted, NEW t \in Thread, Reset(t)
  PROVE  Counted'
<1>1. /\ owner = t /\ env \in EnvType /\ request' = request /\ sent' = sent
      /\ request[t] \in Request /\ request[t].kind = "reset"
  BY DEF Reset, Enters, Inv, Control, EnvOK
<1> DEFINE shot == request[t].shot
           chosen == Chosen(request[t])
           e == SetScreenshot(env, shot)
<1>2. shot \in BOOLEAN /\ request[t].chars \in [Player -> Character \cup {"same"}]
  BY <1>1, RequestFacts
<1>3. chosen \in [Player -> Character]
  BY <1>1, <1>2 DEF Chosen, EnvType
<1>4. e \in EnvType
  BY <1>1, <1>2, ScreenshotEffect
<1> HIDE DEF chosen, e
<1>5. CASE env' = ResetMatch(e, chosen) /\ Answered(t, 0, 0, 0)
  <2>1. env'.last.known = TRUE /\ env'.frame = env'.last.frame
    BY <1>3, <1>4, <1>5, ResetFrames
  <2>2. CountsInv' /\ NoPartialFrames'
    BY <1>1, <1>5, AnsweredCounts
  <2> QED BY <2>1, <2>2 DEF Counted, FramesInv
<1>6. CASE env' = e /\ Refuse(t)
  <2>1. FramesInv'
    BY <1>2, <1>6, RefusedFrames DEF Counted, e
  <2>2. CountsInv' /\ NoPartialFrames'
    BY <1>1, <1>6, RefuseCounts
  <2> QED BY <2>1, <2>2 DEF Counted
<1> QED BY <1>5, <1>6 DEF Reset, chosen, e

\* The outcome of a step whose backend came back, or stalled.
LEMMA StallFrames ==
  ASSUME FramesInv, NEW e \in EnvType, e.last = env.last,
         NEW b \in Buttons, NEW k \in Nat, NEW o \in Outcome(Started(e), k), o.stalled,
         env' = StepStalled(e, b, o)
  PROVE  FramesInv'
<1> DEFINE n == StepStalled(e, b, o)
<1>1. n.last = e.last /\ n.requiresReset = o.stalled
  BY StepEffect
<1>2. env' = n
  OBVIOUS
<1> HIDE DEF n
<1> QED BY <1>1, <1>2 DEF FramesInv

\* The frame a step is observed on: the one it started from and the vblanks it reached.
LEMMA StepReaches ==
  ASSUME FramesInv, NEW e \in EnvType, e.last = env.last, e.frame = env.frame,
         e.requiresReset = env.requiresReset, ~StepRefused(e),
         NEW b \in Buttons, NEW k \in Nat, NEW o \in Outcome(Started(e), k), ~o.stalled
  PROVE  LET n == StepButtons(e, b, o) IN
         /\ n \in EnvType /\ n.last.known = TRUE /\ n.frame = n.last.frame /\ Settled(n)
         /\ o.vblanks \in Nat /\ n.last.frame = env.last.frame + o.vblanks
         /\ o.vblanks = k \/ Finished(n.last)
         /\ n.last.terminal = (n.halted \/ \E p \in Player : n.health[p] = 0)
<1> DEFINE n == StepButtons(e, b, o)
<1>1. n \in EnvType /\ n.last.known = TRUE /\ Settled(n)
  BY StepEffect, ZenonT(40)
<1>2. /\ o.vblanks \in Nat
      /\ n.frame = (IF e.last.known THEN e.frame ELSE 0) + o.vblanks
      /\ n.frame = n.last.frame
      /\ n.last.terminal = (n.halted \/ \E p \in Player : n.health[p] = 0)
      /\ o.vblanks = k \/ n.last.terminal
  BY StepFrames, ZenonT(40)
<1>3. env.last.known => ~env.requiresReset
  BY StartedEffect DEF StepRefused
<1>4. (IF e.last.known THEN e.frame ELSE 0) = env.last.frame
  BY <1>3 DEF FramesInv
<1> HIDE DEF n
<1> QED BY <1>1, <1>2, <1>4 DEF Finished, n

\* A step reports the vblanks it reached.
LEMMA StepCounts ==
  ASSUME Inv, Counted, NEW t \in Thread, Step(t)
  PROVE  Counted'
<1>1. /\ owner = t /\ env \in EnvType /\ request' = request /\ sent' = sent
      /\ request[t] \in Request /\ request[t].kind = "step"
  BY DEF Step, Enters, Inv, Control, EnvOK
<1> DEFINE shot == request[t].shot
           e == SetScreenshot(env, shot)
           b == request[t].buttons
           k == request[t].frames
<1>2. shot \in BOOLEAN /\ b \in Buttons /\ k \in Nat
  BY <1>1, RequestFacts
<1>3. /\ e \in EnvType /\ e.last = env.last /\ e.requiresReset = env.requiresReset
      /\ e.frame = env.frame
  BY <1>1, <1>2, ScreenshotKeeps
<1>4. \/ env' = e /\ Refuse(t)
      \/ /\ ~StepRefused(e)
         /\ \E o \in Outcome(Started(e), k) :
              \/ o.stalled /\ env' = StepStalled(e, b, o) /\ Refuse(t)
              \/ ~o.stalled /\ env' = StepButtons(e, b, o)
                 /\ Answered(t, k, o.vblanks, o.vblanks)
  BY DEF Step
<1>5. CASE env' = e /\ Refuse(t)
  <2>1. FramesInv'
    BY <1>2, <1>5, RefusedFrames DEF Counted
  <2>2. CountsInv' /\ NoPartialFrames'
    BY <1>1, <1>5, RefuseCounts
  <2> QED BY <2>1, <2>2 DEF Counted
<1> HIDE DEF b, k, shot
<1>6. ASSUME ~StepRefused(e), NEW o \in Outcome(Started(e), k), o.stalled,
             env' = StepStalled(e, b, o), Refuse(t)
      PROVE  Counted'
  <2>1. CountsInv' /\ NoPartialFrames'
    BY <1>1, <1>6, RefuseCounts
  <2> HIDE DEF e
  <2>2. FramesInv'
    BY <1>2, <1>3, <1>6, StallFrames DEF Counted
  <2> QED BY <2>1, <2>2 DEF Counted
<1>7. ASSUME ~StepRefused(e), NEW o \in Outcome(Started(e), k), ~o.stalled,
             env' = StepButtons(e, b, o), Answered(t, k, o.vblanks, o.vblanks)
      PROVE  Counted'
  <2>1. /\ env'.last.known = TRUE /\ env'.frame = env'.last.frame
        /\ o.vblanks = k \/ Finished(env'.last)
    <3> DEFINE n == StepButtons(e, b, o)
    <3>1. FramesInv
      BY DEF Counted
    <3> HIDE DEF e
    <3>2. /\ n.last.known = TRUE /\ n.frame = n.last.frame
          /\ o.vblanks = k \/ Finished(n.last)
      <4>1. o \in Outcome(Started(e), k) /\ ~o.stalled /\ ~StepRefused(e)
        BY <1>7
      <4>2. /\ e \in EnvType /\ e.last = env.last /\ e.frame = env.frame
            /\ e.requiresReset = env.requiresReset /\ b \in Buttons /\ k \in Nat
        BY <1>2, <1>3
      <4> QED BY <3>1, <4>1, <4>2, StepReaches, ZenonT(60)
    <3>3. env' = n
      BY <1>7
    <3> HIDE DEF n
    <3> QED BY <3>2, <3>3
  <2>2. CountsInv' /\ NoPartialFrames'
    BY <1>1, <1>7, <2>1, AnsweredCounts
  <2> QED BY <2>1, <2>2 DEF Counted, FramesInv
<1> HIDE DEF e
<1> QED BY <1>4, <1>5, <1>6, <1>7

\* A sequence begins with all its frames to go.
LEMMA BeginCounts ==
  ASSUME Inv, Counted, NEW t \in Thread, owner = t, pc[t] = "entered",
         NEW e \in EnvType, Begin(t, e),
         UNCHANGED <<reply, request, sent, advanced>>,
         env'.last.frame = e.last.frame,
         Segments(request[t]) \in Seq(Segment), TotalFrames(Segments(request[t])) <= MaxStep
  PROVE  CountsInv' /\ NoPartialFrames'
<1> DEFINE w == [left |-> Segments(request[t]), reward |-> 0, start |-> e.last.frame]
<1>1. w.left = Segments(request[t]) /\ w.start = e.last.frame /\ e.last.frame \in Nat
  BY DEF EnvType, Observation
<1>2. pc' = [pc EXCEPT ![t] = "sequence"] /\ work' = [work EXCEPT ![t] = w]
  BY DEF Begin
<1> HIDE DEF w
<1>3. \A u \in Thread : pc[u] # "sequence"
  BY DEF Inv, Control
<1>4. /\ pc'[t] = "sequence" /\ work'[t] = w
      /\ \A u \in Thread : u # t => pc'[u] = pc[u] /\ work'[u] = work[u]
  BY <1>2 DEF Inv, Control
<1>5. advanced = 0
  BY <1>3 DEF Counted, CountsInv
<1>6. TotalFrames(Segments(request[t])) \in Nat
  BY Totals
<1>7. CountsInv'
  BY <1>1, <1>3, <1>4, <1>5, <1>6 DEF Counted, CountsInv
<1>8. NoPartialFrames'
  BY DEF Counted, NoPartialFrames
<1> QED BY <1>7, <1>8

\* A named action begins: the sequences of named_action_sequence are short enough.
LEMMA SelectCounts ==
  ASSUME Inv, Counted, NEW t \in Thread, SelectCharacter(t)
  PROVE  Counted'
<1>1. /\ owner = t /\ env \in EnvType /\ request' = request /\ sent' = sent
      /\ request[t] \in Request /\ request[t].kind = "action" /\ pc[t] = "entered"
  BY DEF SelectCharacter, Enters, Inv, Control, EnvOK
<1> DEFINE r == request[t]
<1>2. /\ r.player \in Player /\ r.character \in Character /\ Segments(r) \in Seq(Segment)
      /\ TotalFrames(Segments(r)) <= MaxStep
  <2>1. /\ r.player \in Player /\ r.character \in Character /\ Segments(r) \in Seq(Segment)
    BY <1>1, RequestFacts
  <2>2. r \in Parsed
    BY <1>1, ServerConstants
  <2>3. r.name \in DOMAIN Named
    BY <1>1, <2>2 DEF Parsed
  <2>4. Segments(r) = Named[r.name]
    BY <1>1 DEF Segments
  <2> QED BY <2>1, <2>3, <2>4, ServerConstants
<1>3. CASE Begin(t, env) /\ UNCHANGED <<env, owner, reply, advanced>>
  <2>1. CountsInv' /\ NoPartialFrames'
    BY <1>1, <1>2, <1>3, BeginCounts
  <2> QED BY <1>3, <2>1 DEF Counted, FramesInv
<1>4. CASE /\ env' = ResetMatch(env, [env.chars EXCEPT ![r.player] = r.character])
           /\ Begin(t, env') /\ UNCHANGED <<owner, reply, advanced>>
  <2> DEFINE cs == [env.chars EXCEPT ![r.player] = r.character]
  <2>1. cs \in [Player -> Character]
    BY <1>1, <1>2 DEF EnvType
  <2> HIDE DEF cs
  <2>2. env' \in EnvType /\ env'.last.known = TRUE /\ env'.frame = env'.last.frame
    BY <1>1, <1>4, <2>1, ResetEffect, ResetFrames DEF cs
  <2>3. CountsInv' /\ NoPartialFrames'
    BY <1>1, <1>2, <1>4, <2>2, BeginCounts
  <2> QED BY <2>2, <2>3 DEF Counted, FramesInv
<1>5. CASE Refuse(t) /\ UNCHANGED env
  <2>1. CountsInv' /\ NoPartialFrames'
    BY <1>1, <1>5, RefuseCounts
  <2> QED BY <1>5, <2>1 DEF Counted, FramesInv
<1> QED BY <1>3, <1>4, <1>5 DEF SelectCharacter

\* A sequence begins only if its total is.
LEMMA SequenceCounts ==
  ASSUME Inv, Counted, NEW t \in Thread, BeginSequence(t)
  PROVE  Counted'
<1>1. /\ owner = t /\ env \in EnvType /\ request' = request /\ sent' = sent
      /\ request[t] \in Request /\ request[t].kind = "sequence" /\ pc[t] = "entered"
      /\ env' = env
  BY DEF BeginSequence, Enters, Inv, Control, EnvOK
<1>2. /\ Segments(request[t]) \in Seq(Segment)
      /\ Segments(request[t]) = request[t].segments
  BY <1>1, RequestFacts DEF Segments
<1>3. CASE /\ SequenceAllowed(request[t].segments) /\ Begin(t, env)
           /\ UNCHANGED <<owner, reply, advanced>>
  <2>1. TotalFrames(Segments(request[t])) <= MaxStep
    BY <1>2, <1>3 DEF SequenceAllowed
  <2>2. CountsInv' /\ NoPartialFrames'
    BY <1>1, <1>2, <1>3, <2>1, BeginCounts
  <2> QED BY <1>1, <2>2 DEF Counted, FramesInv
<1>4. CASE Refuse(t)
  <2>1. CountsInv' /\ NoPartialFrames'
    BY <1>1, <1>4, RefuseCounts
  <2> QED BY <1>1, <2>1 DEF Counted, FramesInv
<1> QED BY <1>3, <1>4 DEF BeginSequence

\* A segment moves its frames from what is left to what was reached.
LEMMA PlayCounts ==
  ASSUME Inv, Counted, NEW t \in Thread, PlaySegment(t)
  PROVE  Counted'
<1> DEFINE left == work[t].left
           s == Head(left)
           rest == Tail(left)
           on == request[t].shot /\ rest = <<>>
           e == SetScreenshot(env, on)
           held == s.buttons
           count == s.frames
           asked == TotalFrames(Segments(request[t]))
<1>1. /\ pc[t] = "sequence" /\ owner = t /\ env \in EnvType /\ request' = request
      /\ sent' = sent /\ request[t] \in Request
      /\ request[t].kind \in {"action", "sequence"}
      /\ left \in Seq(Segment) /\ left # <<>>
  BY DEF PlaySegment, Inv, Control, EnvOK, WorkType
<1>2. on \in BOOLEAN
  BY <1>1, RequestFacts
<1>3. /\ asked <= MaxStep /\ advanced \in Nat /\ advanced + TotalFrames(left) = asked
      /\ env.last.frame = work[t].start + advanced
      /\ ~env.last.known => advanced = 0
  BY <1>1 DEF Counted, CountsInv
<1> HIDE DEF left
<1>4. s \in Segment /\ rest \in Seq(Segment)
  BY <1>1, HeadTailProperties
<1>5. TotalFrames(left) = count + TotalFrames(rest) /\ TotalFrames(rest) \in Nat
  BY <1>1, <1>4, Totals
<1> HIDE DEF s
<1>6. held \in Buttons /\ count \in Nat
  BY <1>4 DEF Segment
<1> HIDE DEF rest
<1>7. /\ e \in EnvType /\ e.last = env.last /\ e.requiresReset = env.requiresReset
      /\ e.frame = env.frame
  BY <1>1, <1>2, ScreenshotKeeps
<1>8. \/ env' = e /\ Refuse(t)
      \/ /\ ~StepRefused(e)
         /\ \E o \in Outcome(Started(e), count) :
              \/ o.stalled /\ env' = StepStalled(e, held, o) /\ Refuse(t)
              \/ /\ ~o.stalled
                 /\ \E next, reward :
                      /\ next = StepButtons(e, held, o)
                      /\ \/ /\ rest = <<>> \/ Finished(next.last)
                            /\ EndSequence(t, next, reward, advanced + o.vblanks)
                         \/ /\ ~(rest = <<>> \/ Finished(next.last)) /\ env' = next
                            /\ work' = [work EXCEPT ![t].left = rest, ![t].reward = reward]
                            /\ advanced' = advanced + o.vblanks
                            /\ UNCHANGED <<owner, pc, reply>>
  BY DEF PlaySegment, rest, s, left
<1>9. CASE env' = e /\ Refuse(t)
  <2>1. FramesInv'
    BY <1>2, <1>9, RefusedFrames DEF Counted
  <2>2. CountsInv' /\ NoPartialFrames'
    BY <1>1, <1>9, RefuseCounts
  <2> QED BY <2>1, <2>2 DEF Counted
<1>10. ASSUME ~StepRefused(e), NEW o \in Outcome(Started(e), count), o.stalled,
              env' = StepStalled(e, held, o), Refuse(t)
       PROVE  Counted'
  <2>1. CountsInv' /\ NoPartialFrames'
    BY <1>1, <1>10, RefuseCounts
  <2> HIDE DEF e
  <2>2. FramesInv'
    BY <1>6, <1>7, <1>10, StallFrames DEF Counted
  <2> QED BY <2>1, <2>2 DEF Counted
<1>11. ASSUME ~StepRefused(e), NEW o \in Outcome(Started(e), count), ~o.stalled,
              NEW next, next = StepButtons(e, held, o), NEW reward
       PROVE  /\ \/ /\ rest = <<>> \/ Finished(next.last)
                    /\ EndSequence(t, next, reward, advanced + o.vblanks)
                 \/ /\ ~(rest = <<>> \/ Finished(next.last)) /\ env' = next
                    /\ work' = [work EXCEPT ![t].left = rest, ![t].reward = reward]
                    /\ advanced' = advanced + o.vblanks
                    /\ UNCHANGED <<owner, pc, reply>>
              => Counted'
  <2>1. /\ next \in EnvType /\ next.last.known = TRUE /\ next.frame = next.last.frame
        /\ Settled(next) /\ o.vblanks \in Nat
        /\ next.last.frame = env.last.frame + o.vblanks
        /\ o.vblanks = count \/ Finished(next.last)
        /\ next.last.terminal = (next.halted \/ \E p \in Player : next.health[p] = 0)
    <3>1. FramesInv
      BY DEF Counted
    <3> DEFINE n == StepButtons(e, held, o)
    <3>2. held \in Buttons /\ count \in Nat
      BY <1>6
    <3> HIDE DEF e, held, count
    <3>3. /\ n \in EnvType /\ n.last.known = TRUE /\ n.frame = n.last.frame
          /\ Settled(n) /\ o.vblanks \in Nat
          /\ n.last.frame = env.last.frame + o.vblanks
          /\ o.vblanks = count \/ Finished(n.last)
          /\ n.last.terminal = (n.halted \/ \E p \in Player : n.health[p] = 0)
      <4>1. o \in Outcome(Started(e), count) /\ ~o.stalled /\ ~StepRefused(e)
        BY <1>11
      <4>2. /\ e \in EnvType /\ e.last = env.last /\ e.frame = env.frame
            /\ e.requiresReset = env.requiresReset
        BY <1>7
      <4> QED BY <3>1, <3>2, <4>1, <4>2, StepReaches, ZenonT(60)
    <3>4. next = n
      BY <1>11
    <3> HIDE DEF n
    <3> QED BY <3>3, <3>4 DEF count
  <2>2. work[t].start \in Nat /\ TotalFrames(<<>>) = 0
    BY Totals DEF Inv, Control, WorkType
  <2> HIDE DEF e, asked
  <2>3. next.last.frame - work[t].start = advanced + o.vblanks
    BY <1>3, <2>1, <2>2
  <2>4. CASE /\ rest = <<>> \/ Finished(next.last)
             /\ EndSequence(t, next, reward, advanced + o.vblanks)
    <3> DEFINE final == SetScreenshot(next, TRUE)
               observed == Observed(final)
    <3>1. /\ env' = IF request[t].shot /\ ~next.last.shot THEN observed ELSE next
          /\ Answered(t, asked, advanced + o.vblanks, next.last.frame - work[t].start)
      BY <2>4 DEF EndSequence, asked
    <3>2. /\ final \in EnvType /\ Settled(final) /\ final.last = next.last
          /\ final.halted = next.halted /\ final.health = next.health
      BY <2>1, ScreenshotEffect DEF Settled
    <3>3. final.frame = next.frame
      BY <2>1 DEF SetScreenshot, EnvType
    <3> HIDE DEF final
    <3>4. /\ observed.frame = observed.last.frame /\ observed.last.known = TRUE
          /\ Finished(observed.last) = Finished(next.last)
      <4>1. /\ final.frame = final.last.frame
            /\ final.last.terminal = (final.halted \/ \E p \in Player : final.health[p] = 0)
        BY <2>1, <3>2, <3>3
      <4>2. observed.last.known = TRUE
        BY <3>2, ObservedEffect
      <4>3. /\ observed.frame = observed.last.frame
            /\ Finished(observed.last) = Finished(final.last)
        BY <3>2, <4>1, ObservedAgain
      <4> HIDE DEF observed
      <4> QED BY <3>2, <4>2, <4>3
    <3> HIDE DEF observed
    <3>5. /\ env'.last.known = TRUE /\ env'.frame = env'.last.frame
          /\ Finished(env'.last) = Finished(next.last)
      BY <2>1, <3>1, <3>4
    <3>6. advanced + o.vblanks = asked \/ Finished(env'.last)
      <4>1. CASE Finished(next.last)
        BY <3>5, <4>1
      <4>2. CASE ~Finished(next.last)
        <5>1. rest = <<>> /\ o.vblanks = count
          BY <2>1, <2>4, <4>2
        <5>2. TotalFrames(rest) = 0
          BY <2>2, <5>1
        <5> QED BY <1>3, <1>5, <1>6, <5>1, <5>2
      <4> QED BY <4>1, <4>2
    <3>7. CountsInv' /\ NoPartialFrames'
      BY <1>1, <2>3, <3>1, <3>6, AnsweredCounts
    <3> QED BY <3>5, <3>7 DEF Counted, FramesInv
  <2>5. CASE /\ ~(rest = <<>> \/ Finished(next.last)) /\ env' = next
             /\ work' = [work EXCEPT ![t].left = rest, ![t].reward = reward]
             /\ advanced' = advanced + o.vblanks
             /\ UNCHANGED <<owner, pc, reply>>
    <3>1. FramesInv'
      BY <2>1, <2>5 DEF FramesInv
    <3>2. /\ work'[t].left = rest /\ work'[t].start = work[t].start
          /\ \A u \in Thread : u # t => work'[u] = work[u]
      BY <2>5 DEF Inv, Control, WorkType
    <3>3. \A u \in Thread : u # t => pc[u] # "sequence"
      BY <1>1 DEF Inv, Control
    <3>4. /\ advanced' \in Nat /\ advanced' + TotalFrames(rest) = asked
          /\ env'.last.frame = work[t].start + advanced'
      <4>1. o.vblanks = count /\ env' = next /\ advanced' = advanced + o.vblanks
        BY <2>1, <2>5
      <4> DEFINE a == advanced
                 v == o.vblanks
                 l == TotalFrames(left)
                 r == TotalFrames(rest)
                 b == work[t].start
      <4>2. /\ a \in Nat /\ v \in Nat /\ r \in Nat /\ b \in Nat
            /\ l = v + r /\ a + l = asked /\ advanced' = a + v
            /\ env'.last.frame = (b + a) + v
        BY <1>3, <1>5, <2>1, <2>2, <4>1
      <4> HIDE DEF a, v, l, r, b
      <4>3. /\ advanced' \in Nat /\ advanced' + r = asked
            /\ env'.last.frame = b + advanced'
        BY <4>2
      <4> QED BY <4>3 DEF r, b
    <3>5. CountsInv'
      BY <1>1, <1>3, <2>1, <2>5, <3>2, <3>3, <3>4 DEF Counted, CountsInv, asked
    <3>6. NoPartialFrames'
      BY <2>5 DEF Counted, NoPartialFrames
    <3> QED BY <3>1, <3>5, <3>6 DEF Counted
  <2> QED BY <2>4, <2>5
<1> HIDE DEF e
<1> QED BY <1>8, <1>9, <1>10, <1>11

\* The counts hold throughout.
LEMMA CountedInvariant == Spec => []Counted
<1>1. Init => Counted
  <2> SUFFICES ASSUME Init PROVE Counted
    OBVIOUS
  <2>1. /\ ~env.last.known /\ env.last.frame = 0
    BY DEF Init, NewEnv, NoObservation
  <2>2. NoReply.ok = FALSE /\ NoWork.left = <<>>
    BY DEF NoReply, NoWork
  <2>3. 0 \in 0..MaxRequests
    BY ServerConstants
  <2> QED BY <2>1, <2>2, <2>3 DEF Init, Counted, FramesInv, CountsInv, NoPartialFrames
<1>2. Inv /\ Counted /\ [Next]_vars => Counted'
  <2> SUFFICES ASSUME Inv, Counted, [Next]_vars PROVE Counted'
    OBVIOUS
  <2>1. CASE UNCHANGED vars
    BY <2>1 DEF vars, Counted, FramesInv, CountsInv, NoPartialFrames
  <2> QED BY <2>1, QueueCounts, ObserveCounts, ResetCounts, StepCounts, SelectCounts,
             SequenceCounts, PlayCounts
          DEF Next, Serve
<1> QED BY <1>1, <1>2, Invariant, PTL DEF Spec

\* A request that succeeds reports the vblanks it reached, and they are all it asked
\* for unless the match ended or was cut.
THEOREM FramesAsAsked == Spec => []NoPartialFrames
  BY CountedInvariant, PTL DEF Counted

\* Every value has its type; a running sequence never has more left than a request
\* may ask for.
THEOREM TypeCorrect == Spec => []TypeOK
<1>1. Inv /\ Counted => TypeOK
  <2> SUFFICES ASSUME Inv, Counted PROVE TypeOK
    OBVIOUS
  <2>1. MaxStep \in Nat /\ TotalFrames(<<>>) = 0
    BY GymConstants, Totals
  <2>2. ASSUME NEW t \in Thread
        PROVE  /\ work[t].left \in Seq(Segment) /\ work[t].reward \in Int
               /\ work[t].start \in Nat
               /\ TotalFrames(work[t].left) <= MaxStep
               /\ pc[t] \in {"entered", "sequence"} <=> owner = t
               /\ pc[t] = "sequence" => advanced \in 0..MaxStep
    <3>1. /\ work[t].left \in Seq(Segment) /\ work[t].reward \in Int
          /\ work[t].start \in Nat
          /\ pc[t] \in {"entered", "sequence"} <=> owner = t
      BY DEF Inv, Control, WorkType
    <3>2. TotalFrames(work[t].left) \in Nat
      BY <3>1, Totals
    <3>3. CASE pc[t] # "sequence"
      <4>1. TotalFrames(work[t].left) = 0
        BY <2>1, <3>3 DEF Counted, CountsInv
      <4> QED BY <2>1, <3>1, <3>3, <4>1
    <3>4. CASE pc[t] = "sequence"
      <4> DEFINE asked == TotalFrames(Segments(request[t]))
                 left == TotalFrames(work[t].left)
      <4>1. asked <= MaxStep /\ advanced \in Nat /\ advanced + left = asked
        BY <3>4 DEF Counted, CountsInv
      <4> HIDE DEF asked, left
      <4>2. left \in Nat
        BY <3>2 DEF left
      <4>3. left <= MaxStep /\ advanced \in 0..MaxStep
        BY <2>1, <4>1, <4>2
      <4> QED BY <3>1, <4>3 DEF left
    <3> QED BY <3>3, <3>4
  <2>3. advanced \in 0..MaxStep
    <3>1. CASE \A t \in Thread : pc[t] # "sequence"
      BY <2>1, <3>1 DEF Counted, CountsInv
    <3>2. CASE \E t \in Thread : pc[t] = "sequence"
      BY <2>2, <3>2
    <3> QED BY <3>1, <3>2
  <2> QED BY <2>2, <2>3 DEF TypeOK, Inv, Control, EnvOK, Counted, CountsInv
<1> QED BY <1>1, Invariant, CountedInvariant, PTL
=============================================================================
