---------------------------- MODULE PhysicalEnter -----------------------------
(***************************************************************************)
(* The Enter key of the native window (NativePhysicalEnterSequencer and the*)
(* poll loop of src/main.rs): one press pulses the coin line until the     *)
(* guest accepts a credit, then Start until it accepts a session.  The loop*)
(* runs the guest in slices; before a slice it polls the sequencer with the*)
(* last sample of the keyboard and what the guest accepted since the last  *)
(* poll, after the last slice of a frame it advances the sequencer's clock.*)
(*                                                                         *)
(* The feedback is two counters that only grow.  The code compares them    *)
(* with the counts of its last poll and with those of the poll the sequence*)
(* began at, which were not larger: both ask whether a count grew since the*)
(* last poll, and that is what creditNew and startNew say.  The window     *)
(* enables the sequencer before every frame, so `blocked` is FALSE and     *)
(* pending_enter never outlives a poll.  The sequencer presses for player 1*)
(* and is told of what either player's coins and sessions were accepted.   *)
(***************************************************************************)
EXTENDS Integers

CONSTANTS
  CoinFrames, GapFrames, StartFrames, RetryFrames, \* NATIVE_PLAY_ENTER_..._FRAMES
  MaxCoin, MaxStart, \* NATIVE_PLAY_ENTER_MAX_..._ATTEMPTS
  MaxSlices,         \* slices the instruction budget of a frame is cut into
  MaxFunds,          \* a byte of credits saturates here
  Setups             \* what the guest may have set when the window opens

ASSUME EnterConstants ==
  {CoinFrames, GapFrames, StartFrames, RetryFrames, MaxCoin, MaxStart,
   MaxSlices, MaxFunds} \subseteq Nat \ {0}

Player == {1, 2}
Prices == 0..MaxFunds

\* What each player has to pay, whether nobody has to, whether the players have a slot
\* each, and whether the credit state is ready.
Setup == [price : [Player -> Prices], freeplay : BOOLEAN, split : BOOLEAN,
          ready : BOOLEAN]

ASSUME SetupConstants == Setups \subseteq Setup

VARIABLES
  source,  \* who sees the key: minifb, the Quartz fallback or both
  key,     \* is Enter held when the keyboard is sampled?
  quartz,  \* platform_input_state.previous: did Quartz see it at its last sample?
  sample,  \* the sample the polls use
  seq,     \* the sequencer
  pc, slices, \* where the loop is; slices left in the frame
  guest,   \* the coin lines and the credit state of the guest
  creditNew, startNew, \* did a count grow since the last poll?
  fresh,   \* history: Enter is held and began no sequence yet
  pulses,  \* history: coin and Start pulses of the sequence under way
  session, \* history: did the guest accept a session since the sequence began?
  borrowed \* history: is a credit counted on one that player 1 may not have?

vars == <<source, key, quartz, sample, seq, pc, slices, guest, creditNew, startNew,
          fresh, pulses, session, borrowed>>

Phase == {"idle", "coin", "coinGap", "start", "startGap", "wait"}
Active(s) == s.phase \notin {"idle", "wait"}
Least(a, b) == IF a < b THEN a ELSE b

Sequencer == [phase : Phase, left : Nat, coins : 0..MaxCoin, starts : 0..MaxStart,
              creditReady : BOOLEAN, down : BOOLEAN]

\* `line`: the players whose coin line is high; `pending`: coins not yet inserted.
Guest == [line : SUBSET Player, pending : [Player -> 0..MaxFunds],
          funds : [Player -> 0..MaxFunds], price : [Player -> Prices],
          ready : BOOLEAN, freeplay : BOOLEAN, split : BOOLEAN]

\* The clock runs in the phases that have one; an idle sequencer last saw the key up.
Settled(s) ==
  /\ Active(s) <=> s.left > 0
  /\ s.phase = "idle" => ~s.down

TypeOK ==
  /\ source \in {"window", "both", "quartz"} /\ key \in BOOLEAN /\ quartz \in BOOLEAN
  /\ sample \in [down : BOOLEAN, pressed : BOOLEAN] /\ (sample.pressed => sample.down)
  /\ seq \in Sequencer /\ Settled(seq)
  /\ pc \in {"poll", "run", "frame"} /\ slices \in 0..MaxSlices
  /\ guest \in Guest
  /\ creditNew \in BOOLEAN /\ startNew \in BOOLEAN
  /\ fresh \in BOOLEAN /\ session \in BOOLEAN /\ borrowed \in BOOLEAN
  /\ pulses \in [coin : 0..MaxCoin, start : 0..MaxStart]

NoKey == [down |-> FALSE, pressed |-> FALSE]
NoPulse == [coin |-> 0, start |-> 0]

Init ==
  /\ source \in {"window", "both", "quartz"}
  /\ key = FALSE /\ quartz = FALSE /\ sample = NoKey
  /\ seq = [phase |-> "idle", left |-> 0, coins |-> 0, starts |-> 0,
            creditReady |-> FALSE, down |-> FALSE]
  /\ pc = "poll" /\ slices = MaxSlices
  /\ \E setup \in Setups :
       guest = [line |-> {}, pending |-> [player \in Player |-> 0],
                funds |-> [player \in Player |-> 0], price |-> setup.price,
                ready |-> setup.ready, freeplay |-> setup.freeplay, split |-> setup.split]
  /\ creditNew = FALSE /\ startNew = FALSE
  /\ fresh = FALSE /\ pulses = NoPulse /\ session = FALSE /\ borrowed = FALSE
-----------------------------------------------------------------------------
(***************************************************************************)
(* The sequencer.                                                          *)
(***************************************************************************)

\* Variant: a finished sequence does not wait for the key to come up.
FinishIdle(s) == [s EXCEPT !.coins = 0, !.starts = 0, !.left = 0, !.phase = "idle"]

\* Variant: the clock of the finished sequence keeps its frames.
FinishTicking(s) ==
  [s EXCEPT !.coins = 0, !.starts = 0, !.phase = IF s.down THEN "wait" ELSE "idle"]

Finish(s) ==
  [s EXCEPT !.coins = 0, !.starts = 0, !.left = 0,
            !.phase = IF s.down THEN "wait" ELSE "idle"]

To(s, phase, frames) == [s EXCEPT !.phase = phase, !.left = frames]

\* Variant: a credit accepted while the coin is still pressed waits for the gap.
FeedbackInGap(s, credit, start) ==
  IF start /\ s.phase # "idle" THEN Finish([s EXCEPT !.creditReady = FALSE])
  ELSE IF credit /\ ~start /\ s.phase = "coinGap"
  THEN To([s EXCEPT !.creditReady = TRUE, !.coins = 0, !.starts = 1], "coinGap", GapFrames)
  ELSE [s EXCEPT !.creditReady = ~start /\ (@ \/ credit)]

\* Variant: a session accepted together with its credit leaves the credit ready.
FeedbackCreditFirst(s, credit, start) ==
  IF start /\ s.phase # "idle" THEN Finish([s EXCEPT !.creditReady = credit])
  ELSE IF credit /\ ~start /\ s.phase \in {"coin", "coinGap"}
  THEN To([s EXCEPT !.creditReady = TRUE, !.coins = 0, !.starts = 1], "coinGap", GapFrames)
  ELSE [s EXCEPT !.creditReady = credit \/ (@ /\ ~start)]

\* A session takes the credit and ends the sequence, with the key as it was at
\* the poll before; a credit ends the coin pulses and starts the gap anew.
ApplyFeedback(s, credit, start) ==
  IF start /\ s.phase # "idle" THEN Finish([s EXCEPT !.creditReady = FALSE])
  ELSE IF credit /\ ~start /\ s.phase \in {"coin", "coinGap"}
  THEN To([s EXCEPT !.creditReady = TRUE, !.coins = 0, !.starts = 1], "coinGap", GapFrames)
  ELSE [s EXCEPT !.creditReady = ~start /\ (@ \/ credit)]

Entered(s, smp) == s.phase = "idle" /\ (smp.pressed \/ (smp.down /\ ~s.down))

\* `buttons` after the feedback: a press begins a sequence when none is under way.
Press(s, smp) ==
  LET t == [s EXCEPT !.down = smp.down]
  IN  IF ~Entered(s, smp) THEN t
      ELSE IF s.creditReady
      THEN To([t EXCEPT !.coins = 0, !.starts = 1], "start", StartFrames)
      ELSE To([t EXCEPT !.coins = 1, !.starts = 0], "coin", CoinFrames)

\* The frames of the phase are over.
NextPhase(s) ==
  CASE s.phase = "coin" -> To(s, "coinGap", GapFrames)
    [] s.phase = "coinGap" /\ s.creditReady -> To(s, "start", StartFrames)
    [] s.phase = "coinGap" /\ ~s.creditReady /\ s.coins < MaxCoin ->
         To([s EXCEPT !.coins = @ + 1], "coin", CoinFrames)
    [] s.phase = "start" -> To(s, "startGap", RetryFrames)
    [] s.phase = "startGap" /\ s.starts < MaxStart ->
         To([s EXCEPT !.starts = @ + 1], "start", StartFrames)
    [] OTHER -> Finish(s)

\* Variant: a phase of several frames is not counted down.
AdvanceStuck(s) ==
  CASE s.phase = "wait" -> IF s.down THEN s ELSE [s EXCEPT !.phase = "idle"]
    [] Active(s) /\ s.left = 1 -> NextPhase(s)
    [] OTHER -> s

\* Variant: the last coin pulse gets no gap to be accepted in.
AdvanceHasty(s) ==
  CASE s.phase = "wait" -> IF s.down THEN s ELSE [s EXCEPT !.phase = "idle"]
    [] s.phase = "coin" /\ s.left = 1 /\ s.coins + 1 = MaxCoin -> Finish(s)
    [] Active(s) /\ s.left > 1 -> [s EXCEPT !.left = @ - 1]
    [] Active(s) /\ s.left = 1 -> NextPhase(s)
    [] OTHER -> s

\* advance_frame.
Advance(s) ==
  CASE s.phase = "wait" -> IF s.down THEN s ELSE [s EXCEPT !.phase = "idle"]
    [] Active(s) /\ s.left > 1 -> [s EXCEPT !.left = @ - 1]
    [] Active(s) /\ s.left = 1 -> NextPhase(s)
    [] OTHER -> s

\* A pulse begins whenever a phase that presses its button does; the history
\* counts them up to the attempts there may be, and is empty without a sequence.
Counted(p, s, t) ==
  LET begins(phase) == IF t.phase = phase /\ s.phase # phase THEN 1 ELSE 0
  IN  IF Active(t)
      THEN [coin |-> Least(p.coin + begins("coin"), MaxCoin),
            start |-> Least(p.start + begins("start"), MaxStart)]
      ELSE NoPulse
-----------------------------------------------------------------------------
(***************************************************************************)
(* The guest's credits (bus.rs and the credit check of cpu.rs).  The guest *)
(* leaves freeplay, the prices and the slots as the setup has them.        *)
(***************************************************************************)

\* br2_credit_slot_address.
Slot(g, player) == IF g.split THEN player ELSE 1

\* What one coin adds at a price: something even when a session costs nothing.
Worth(price) == IF price > 0 THEN price ELSE 1

\* The funds of a slot after n coins.
Coins(g, slot, n, price) ==
  IF g.freeplay THEN g.funds[slot]
  ELSE Least(g.funds[slot] + n * Worth(price), MaxFunds)

Insert(g, player) ==
  LET slot == Slot(g, player)
      funds == Coins(g, slot, g.pending[player], g.price[player])
  IN  [g EXCEPT !.funds[slot] = funds, !.pending[player] = 0]

\* inject_br2_native_credit_from_coin_edges.
Injects(g) == g.ready /\ \E player \in Player : g.pending[player] > 0
Inject(g) == IF g.ready THEN Insert(Insert(g, 1), 2) ELSE g

\* A coin of player 2 is accepted that goes to a slot of its own or is worth less
\* than player 1 has to pay.
Lends(g) ==
  /\ g.ready /\ g.pending[2] > 0
  /\ g.split \/ Worth(g.price[2]) < g.price[1]

\* set_input, before it injects: a coin counts when its line rises.
Edges(g, coins) ==
  [g EXCEPT !.line = coins,
            !.pending = [player \in Player |->
               IF player \in coins \ g.line THEN Least(@[player] + 1, MaxFunds)
               ELSE @[player]]]

\* The guest asks for a session: try_hle_br2_credit_check, at player 1's price
\* whoever it is for.
CreditCheck(player) ==
  LET price == guest.price[1]
      slot == Slot(guest, player)
      before == guest.funds[slot]
      funds == Coins(guest, slot, guest.pending[player], price)
      accepted == guest.freeplay \/ funds >= price
      left == IF accepted /\ ~guest.freeplay THEN funds - price ELSE funds
  IN  /\ guest' = IF guest.freeplay THEN guest
                  ELSE [guest EXCEPT !.pending[player] = 0, !.funds[slot] = left]
      /\ creditNew' = (creditNew \/ accepted)
      \* the code compares with the credits before the pending coins went in
      /\ startNew' = (startNew \/ (accepted /\ (guest.freeplay \/ left < before)))
      /\ session' = (session \/ accepted)
      /\ borrowed' = (borrowed \/ (accepted /\ price > 0 /\ ~guest.freeplay
                                            /\ left >= before))

Idles == UNCHANGED <<guest, creditNew, startNew, session, borrowed>>

\* The input adapter of the guest injects too; a guest that had not yet set up
\* its credit state does so.
Adapter ==
  /\ guest' = Inject(guest)
  /\ creditNew' = (creditNew \/ Injects(guest))
  /\ borrowed' = (borrowed \/ Lends(guest))
  /\ UNCHANGED <<startNew, session>>

GetReady ==
  /\ ~guest.ready
  /\ guest' = [guest EXCEPT !.ready = TRUE]
  /\ UNCHANGED <<creditNew, startNew, session, borrowed>>
-----------------------------------------------------------------------------
(***************************************************************************)
(* The loop.                                                               *)
(***************************************************************************)

\* native_window_button_sample: minifb is asked at every pump of the window's
\* events, Quartz only at some; what it saw before is not kept.
Sample(full) ==
  \E k, pressed \in BOOLEAN :
    LET inWindow == source # "quartz" /\ k
        platform == source # "window" /\ full /\ k
    IN  /\ key' = k
        /\ quartz' = IF full THEN platform ELSE quartz
        /\ sample' = [down |-> inWindow \/ platform,
                      pressed |-> (inWindow /\ pressed) \/ (platform /\ ~quartz)]
        /\ fresh' = (k /\ (fresh \/ ~key))

SetInput(coins, credit, owed) ==
  LET g == Edges(guest, coins)
  IN  /\ guest' = Inject(g)
      /\ creditNew' = (credit \/ Injects(g))
      /\ borrowed' = (owed \/ Lends(g))

\* With nothing to do the sequencer is not even polled: the feedback waits.
IdlePoll ==
  /\ pc = "poll"
  /\ seq.phase = "idle" /\ ~sample.down
  /\ SetInput({}, creditNew, borrowed)
  /\ pc' = "run"
  /\ UNCHANGED <<source, key, quartz, sample, seq, slices, startNew, fresh, pulses,
                 session>>

\* `other`: the players whose coin line a coin key or a script presses.
Poll(other) ==
  /\ pc = "poll"
  /\ LET s == ApplyFeedback(seq, creditNew, startNew)
         begins == Entered(s, sample)
     IN /\ seq' = Press(s, sample)
        /\ pulses' = Counted(IF begins THEN NoPulse ELSE pulses, s, seq')
        /\ session' = (session /\ ~begins /\ Active(seq'))
        /\ fresh' = (fresh /\ ~begins)
  /\ startNew' = FALSE
  /\ SetInput(IF seq'.phase = "coin" THEN other \cup {1} ELSE other, FALSE,
              borrowed /\ seq'.creditReady)
  /\ pc' = "run"
  /\ UNCHANGED <<source, key, quartz, sample, slices>>

\* The guest runs a slice; it may reach its vblank, which ends the frame.
Run ==
  /\ pc = "run"
  /\ (\E player \in Player : CreditCheck(player)) \/ Adapter \/ GetReady \/ Idles
  /\ \/ /\ slices > 1
        /\ slices' = slices - 1
        /\ pc' = "poll"
        /\ \/ \E full \in BOOLEAN : Sample(full)
           \/ UNCHANGED <<key, quartz, sample, fresh>>
     \/ /\ slices' = 0
        /\ pc' = "frame"
        /\ UNCHANGED <<key, quartz, sample, fresh>>
  /\ UNCHANGED <<source, seq, pulses>>

Frame ==
  /\ pc = "frame"
  /\ seq' = Advance(seq)
  /\ pulses' = Counted(pulses, seq, seq')
  /\ Sample(TRUE)
  /\ slices' = MaxSlices
  /\ pc' = "poll"
  /\ UNCHANGED <<source, guest, creditNew, startNew, session, borrowed>>

Next == IdlePoll \/ (\E other \in SUBSET Player : Poll(other)) \/ Run \/ Frame

\* The loop goes on as long as the window is open.
Spec == Init /\ [][Next]_vars /\ WF_vars(Next)
-----------------------------------------------------------------------------
(***************************************************************************)
(* Properties.                                                             *)
(***************************************************************************)

\* No coin is pressed once the guest has accepted a credit, whether the credit
\* came while a coin was pressed, in the gap, or before Enter was.
CoinOnlyWithoutCredit == seq.phase = "coin" => ~seq.creditReady

\* A credit the sequencer counts on is in player 1's slot, or went into a session the
\* next poll will see: Start is not pressed on nothing.  Except where the counts say a
\* credit was accepted that is not player 1's to spend: a check took a coin it inserted
\* itself, or player 2's coin went elsewhere or does not cover the price.
StartIsPaid ==
  seq.creditReady /\ guest.price[1] > 0 /\ ~guest.freeplay /\ ~borrowed =>
    guest.funds[1] >= guest.price[1] \/ startNew

\* A sequence begins only for a key press that began none yet, however long the
\* key is held and wherever in the frame the keyboard is sampled.
HoldIsOnePress == [][~Active(seq) /\ Active(seq') => fresh]_vars

\* The same while the window itself sees the key.
OnePressOneSequence ==
  [][source # "quartz" /\ ~Active(seq) /\ Active(seq') => fresh]_vars

\* A sequence is not given up early: it ends because the guest accepted a session, of
\* either player, since it began, or after all the pulses it may try.
EndsForCause ==
  [][Active(seq) /\ ~Active(seq') =>
       session \/ pulses.coin = MaxCoin \/ pulses.start = MaxStart]_vars

\* Every sequence ends, whatever the guest does with it, unless credits keep
\* being accepted (each one starts the gap before Start anew).
SequenceEnds == (Active(seq) ~> ~Active(seq)) \/ []<>creditNew
=============================================================================
