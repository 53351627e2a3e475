------------------------------ MODULE GymServer -------------------------------
(***************************************************************************)
(* The HTTP server over one environment (src/server.rs): every connection  *)
(* is a thread, every handler that needs the environment takes its mutex   *)
(* once and keeps it until its answer is complete.  A client that times    *)
(* out and asks again is a second thread with an equal request: the first  *)
(* one runs to its end all the same.                                       *)
(***************************************************************************)
EXTENDS GymEnv

CONSTANTS
  Thread,     \* the connection threads
  Request,    \* the parsed requests clients send
  MaxRequests \* bound: requests sent in a behaviour

\* The sequence named_action_sequence builds, each segment one frame long; the longest
\* of them has 24 frames in the code, a request may have 600.
Tap == <<[buttons |-> "attack", frames |-> 1], [buttons |-> "none", frames |-> 1]>>
Named == [idle |-> <<[buttons |-> "none", frames |-> 1]>>,
          tap |-> Tap, double_tap |-> Tap \o Tap]

\* parse_step_request, parse_reset_request and their kin let these through.
Parsed ==
  [kind : {"health"}] \cup [kind : {"screenshot"}]
  \cup [kind : {"reset"}, chars : [Player -> Character \cup {"same"}], shot : BOOLEAN]
  \cup [kind : {"step"}, buttons : Buttons, frames : 1..MaxStep, shot : BOOLEAN]
  \cup [kind : {"action"}, player : Player, character : Character,
        name : DOMAIN Named, shot : BOOLEAN]
  \cup [kind : {"sequence"}, segments : Seq(Segment), shot : BOOLEAN]

ASSUME ServerConstants ==
  /\ "same" \notin Character /\ "free" \notin Thread
  /\ MaxRequests \in Nat
  /\ \A r \in Request : r.kind = "sequence" \/ r \in Parsed
  /\ \A r \in Request :
       r.kind = "sequence" => r.segments \in Seq(Segment) /\ r.shot \in BOOLEAN
  /\ \A a \in DOMAIN Named : TotalFrames(Named[a]) <= MaxStep

VARIABLES
  env,      \* the environment behind the mutex
  owner,    \* the thread that holds the mutex, or "free"
  pc,       \* where each thread is
  request,  \* the request of each thread
  work,     \* the sequence it is executing
  reply,    \* the last answer of each thread
  sent,     \* history: requests sent
  base,     \* history: the health the current episode started from
  earned,   \* history: rewards answered since then
  advanced  \* history: vblanks reached for the request of the mutex's owner

vars == <<env, owner, pc, request, work, reply, sent, base, earned, advanced>>

NoWork == [left |-> <<>>, reward |-> 0, start |-> 0]
NoReply ==
  [ok |-> FALSE, asked |-> 0, advanced |-> 0, reported |-> 0, finished |-> FALSE,
   shot |-> FALSE, wanted |-> FALSE, named |-> FALSE, held |-> "none"]

TypeOK ==
  /\ env \in EnvType
  /\ owner \in Thread \cup {"free"}
  /\ pc \in [Thread -> {"idle", "waiting", "entered", "sequence"}]
  /\ request \in [Thread -> Request]
  /\ \A t \in Thread :
       /\ work[t].left \in Seq(Segment) /\ work[t].reward \in Int /\ work[t].start \in Nat
       /\ TotalFrames(work[t].left) <= MaxStep
       /\ pc[t] \in {"entered", "sequence"} <=> owner = t
  /\ sent \in 0..MaxRequests
  /\ base \in Bars /\ earned \in Int
  /\ advanced \in 0..MaxStep

Init ==
  /\ env = NewEnv
  /\ owner = "free"
  /\ pc = [t \in Thread |-> "idle"]
  /\ request \in [Thread -> Request] /\ \A t, u \in Thread : request[t] = request[u]
  /\ work = [t \in Thread |-> NoWork]
  /\ reply = [t \in Thread |-> NoReply]
  /\ sent = 0
  /\ base = Full /\ earned = 0 /\ advanced = 0
-----------------------------------------------------------------------------
(***************************************************************************)
(* Answers.                                                                *)
(***************************************************************************)

\* Does the request ask for a screenshot?
Wants(r) == IF r.kind = "health" THEN FALSE ELSE r.kind = "screenshot" \/ r.shot

Segments(r) == IF r.kind = "action" THEN Named[r.name] ELSE r.segments

\* The handler returns: its answer is complete and the mutex is free.
Answer(t, answer) ==
  /\ reply' = [reply EXCEPT ![t] = answer]
  /\ owner' = "free"
  /\ pc' = [pc EXCEPT ![t] = "idle"]
  /\ work' = [work EXCEPT ![t] = NoWork]
  /\ advanced' = 0

Refuse(t) == Answer(t, NoReply)

\* An answer made of the observation the environment just kept.
Answered(t, asked, count, reported) ==
  Answer(t, [ok |-> TRUE, asked |-> asked, advanced |-> count, reported |-> reported,
             finished |-> Finished(env'.last), shot |-> env'.last.shot,
             wanted |-> Wants(request[t]), named |-> request[t].kind = "action",
             held |-> env'.held])

\* A new episode starts, or the first observation of one is made.
NewEpisode == base' = env'.last.health /\ earned' = 0
SameEpisode == IF env.last.known THEN UNCHANGED <<base, earned>> ELSE NewEpisode

Enters(t, kind) == pc[t] = "entered" /\ request[t].kind = kind
-----------------------------------------------------------------------------
(***************************************************************************)
(* Handlers.                                                               *)
(***************************************************************************)

Receive(t) ==
  /\ pc[t] = "idle"
  /\ sent < MaxRequests
  /\ sent' = sent + 1
  /\ \E r \in Request : request' = [request EXCEPT ![t] = r]
  /\ pc' = [pc EXCEPT ![t] = "waiting"]
  /\ UNCHANGED <<env, owner, work, reply, base, earned, advanced>>

\* Variant: the environment is shared without its mutex.
LockShared(t) ==
  /\ pc[t] = "waiting"
  /\ owner' = t
  /\ pc' = [pc EXCEPT ![t] = "entered"]
  /\ UNCHANGED <<env, request, work, reply, sent, base, earned, advanced>>

Lock(t) ==
  /\ pc[t] = "waiting"
  /\ owner = "free"
  /\ owner' = t
  /\ pc' = [pc EXCEPT ![t] = "entered"]
  /\ UNCHANGED <<env, request, work, reply, sent, base, earned, advanced>>

Health(t) ==
  /\ Enters(t, "health")
  /\ env' = Observed(SetScreenshot(env, FALSE))
  /\ Answered(t, 0, 0, 0)
  /\ SameEpisode
  /\ UNCHANGED <<request, sent>>

\* The native backend can always observe: the reset behind or_else is not taken.
Screenshot(t) ==
  /\ Enters(t, "screenshot")
  /\ env' = Observed(SetScreenshot(env, TRUE))
  /\ Answered(t, 0, 0, 0)
  /\ SameEpisode
  /\ UNCHANGED <<request, sent>>

Chosen(r) == [p \in Player |-> IF r.chars[p] = "same" THEN env.chars[p] ELSE r.chars[p]]

Reset(t) ==
  /\ Enters(t, "reset")
  /\ \/ /\ env' = ResetMatch(SetScreenshot(env, request[t].shot), Chosen(request[t]))
        /\ Answered(t, 0, 0, 0)
        /\ NewEpisode
     \/ \* preparing another match failed
        /\ Chosen(request[t]) # env.chars
        /\ env' = SetScreenshot(env, request[t].shot)
        /\ Refuse(t)
        /\ UNCHANGED <<base, earned>>
  /\ UNCHANGED <<request, sent>>

Step(t) ==
  /\ Enters(t, "step")
  /\ LET e == SetScreenshot(env, request[t].shot)
     IN IF StepRefused(e)
        THEN env' = e /\ Refuse(t) /\ UNCHANGED <<base, earned>>
        ELSE \E o \in Outcome(Started(e), request[t].frames) :
          IF o.stalled
          THEN /\ env' = StepStalled(e, request[t].buttons, o)
               /\ Refuse(t)
               /\ UNCHANGED <<base, earned>>
          ELSE /\ env' = StepButtons(e, request[t].buttons, o)
               /\ Answered(t, request[t].frames, o.vblanks, o.vblanks)
               /\ base' = IF env.last.known THEN base ELSE Previous(env).health
               /\ earned' = earned + Reward(Previous(env), env'.last)
  /\ UNCHANGED <<request, sent>>

\* Variant: a sequence counts its frames from the start of the episode.
BeginAtZero(t, e) ==
  /\ pc' = [pc EXCEPT ![t] = "sequence"]
  /\ work' = [work EXCEPT ![t] =
       [left |-> Segments(request[t]), reward |-> 0, start |-> 0]]

\* Sequences and named actions: step_sequence notes the frame it starts at.
Begin(t, e) ==
  /\ pc' = [pc EXCEPT ![t] = "sequence"]
  /\ work' = [work EXCEPT ![t] =
       [left |-> Segments(request[t]), reward |-> 0, start |-> e.last.frame]]

\* ensure_character_selected resets the match unless the player has the
\* character already.
SelectCharacter(t) ==
  /\ Enters(t, "action")
  /\ LET r == request[t]
         selected == env.chars[r.player] = r.character
     IN \/ /\ selected
           /\ Begin(t, env)
           /\ UNCHANGED <<env, base, earned, owner, reply, advanced>>
        \/ /\ ~selected
           /\ env' = ResetMatch(env, [env.chars EXCEPT ![r.player] = r.character])
           /\ Begin(t, env')
           /\ NewEpisode
           /\ UNCHANGED <<owner, reply, advanced>>
        \/ /\ ~selected
           /\ Refuse(t)
           /\ UNCHANGED <<env, base, earned>>
  /\ UNCHANGED <<request, sent>>

BeginSequence(t) ==
  /\ Enters(t, "sequence")
  /\ IF SequenceAllowed(request[t].segments)
     THEN Begin(t, env) /\ UNCHANGED <<owner, reply, advanced>>
     ELSE Refuse(t)
  /\ UNCHANGED <<env, request, sent, base, earned>>
-----------------------------------------------------------------------------
(***************************************************************************)
(* step_sequence, one segment at a time.                                   *)
(***************************************************************************)

\* Variant: a sequence that ends early is answered without its screenshot.
EndSequenceUnobserved(t, last, reward, count) ==
  /\ env' = last
  /\ earned' = earned + reward
  /\ Answered(t, TotalFrames(Segments(request[t])), count, last.last.frame - work[t].start)

\* The screenshot of a sequence that ended before its last segment is taken now.
EndSequence(t, last, reward, count) ==
  /\ env' = IF request[t].shot /\ ~last.last.shot
            THEN Observed(SetScreenshot(last, TRUE)) ELSE last
  /\ earned' = earned + reward
  /\ Answered(t, TotalFrames(Segments(request[t])), count, last.last.frame - work[t].start)

PlaySegment(t) ==
  /\ pc[t] = "sequence"
  /\ LET s == Head(work[t].left)
         rest == Tail(work[t].left)
         e == SetScreenshot(env, request[t].shot /\ rest = <<>>)
     IN IF StepRefused(e)
        THEN env' = e /\ Refuse(t) /\ UNCHANGED <<base, earned>>
        ELSE \E o \in Outcome(Started(e), s.frames) :
          IF o.stalled
          THEN /\ env' = StepStalled(e, s.buttons, o)
               /\ Refuse(t)
               /\ UNCHANGED <<base, earned>>
          ELSE LET next == StepButtons(e, s.buttons, o)
                   reward == work[t].reward + Reward(Previous(env), next.last)
               IN /\ base' = IF env.last.known THEN base ELSE Previous(env).health
                  /\ IF rest = <<>> \/ Finished(next.last)
                     THEN EndSequence(t, next, reward, advanced + o.vblanks)
                     ELSE /\ env' = next
                          /\ work' = [work EXCEPT ![t].left = rest, ![t].reward = reward]
                          /\ advanced' = advanced + o.vblanks
                          /\ UNCHANGED <<owner, pc, reply, earned>>
  /\ UNCHANGED <<request, sent>>

Serve(t) ==
  \/ Receive(t) \/ Lock(t) \/ Health(t) \/ Screenshot(t) \/ Reset(t) \/ Step(t)
  \/ SelectCharacter(t) \/ BeginSequence(t) \/ PlaySegment(t)

Next == \E t \in Thread : Serve(t)

Spec == Init /\ [][Next]_vars
-----------------------------------------------------------------------------
(***************************************************************************)
(* Properties.                                                             *)
(***************************************************************************)

\* Rewards telescope: whoever asked for what, the rewards answered since the
\* episode began add up to the damage between its first observation and the last,
\* unless a stall asks for a reset.
RewardsTelescope ==
  owner = "free" /\ env.last.known /\ ~env.requiresReset =>
    earned = Reward([health |-> base], env.last)

\* README.md, "the request fails instead of returning a partial frame count": a
\* request that succeeds reports the vblanks it reached, and they are all it
\* asked for unless the match ended or was cut.
NoPartialFrames ==
  \A t \in Thread : reply[t].ok =>
    /\ reply[t].reported = reply[t].advanced
    /\ reply[t].advanced = reply[t].asked \/ reply[t].finished

\* A named action plays in a match where its player has its character, whatever
\* other clients select meanwhile.
ActionInItsMatch ==
  \A t \in Thread :
    pc[t] = "sequence" /\ request[t].kind = "action" =>
      env.chars[request[t].player] = request[t].character

\* An answer has a screenshot exactly when its request asked for one.
ScreenshotAsAsked ==
  \A t \in Thread : reply[t].ok => reply[t].shot = reply[t].wanted

\* README.md of named actions: the release segment is always included, so that no
\* input stays held.
ActionReleases ==
  \A t \in Thread : reply[t].ok /\ reply[t].named => reply[t].held = "none"
=============================================================================
