------------------------- MODULE PhysicalEnter_proofs -------------------------
(***************************************************************************)
(* Proofs about the Enter sequencer, for every length of its phases, every *)
(* number of attempts and of slices: type correctness, the two properties  *)
(* on who pays for what, and what begins and what ends a sequence.         *)
(***************************************************************************)
EXTENDS PhysicalEnter, TLAPS

\* What the assumption says of each constant.
LEMMA Positive ==
  /\ CoinFrames \in Nat /\ CoinFrames > 0 /\ GapFrames \in Nat /\ GapFrames > 0
  /\ StartFrames \in Nat /\ StartFrames > 0 /\ RetryFrames \in Nat /\ RetryFrames > 0
  /\ MaxCoin \in Nat /\ MaxCoin > 0 /\ MaxStart \in Nat /\ MaxStart > 0
  /\ MaxSlices \in Nat /\ MaxSlices > 0 /\ MaxFunds \in Nat /\ MaxFunds > 0
  /\ Prices \subseteq 0..MaxFunds
  BY EnterConstants DEF Prices

\* The counts the sequencer and the guest start from.
LEMMA Ranges ==
  /\ 0 \in 0..MaxCoin /\ 1 \in 0..MaxCoin
  /\ 0 \in 0..MaxStart /\ 1 \in 0..MaxStart
  /\ 0 \in 0..MaxFunds /\ MaxSlices \in 0..MaxSlices
  BY Positive

-----------------------------------------------------------------------------
(***************************************************************************)
(* The operators of the sequencer.                                         *)
(***************************************************************************)

\* A sequencer that is typed, whose clock fits its phase, and that presses no coin
\* on a credit.
Sound(s) == s \in Sequencer /\ Settled(s) /\ (s.phase = "coin" => ~s.creditReady)

LEMMA FinishSound ==
  ASSUME NEW s \in Sequencer
  PROVE  Sound(Finish(s)) /\ Finish(s).creditReady = s.creditReady
<1> DEFINE phase == IF s.down THEN "wait" ELSE "idle"
<1>1. Finish(s) \in Sequencer
  <2>1. phase \in Phase
    BY DEF Phase
  <2>2. QED
    BY <2>1, Ranges DEF Finish, Sequencer
<1>2. /\ Finish(s).phase = phase /\ Finish(s).left = 0
      /\ Finish(s).down = s.down /\ Finish(s).creditReady = s.creditReady
  BY DEF Finish, Sequencer
<1>3. Finish(s).phase \in {"idle", "wait"} /\ (Finish(s).phase = "idle" => ~s.down)
  BY <1>2
<1>4. QED
  BY <1>1, <1>2, <1>3 DEF Sound, Settled, Active

LEMMA ToSound ==
  ASSUME NEW s \in Sequencer, NEW phase \in Phase \ {"idle", "wait"},
         NEW frames \in Nat, frames > 0, phase = "coin" => ~s.creditReady
  PROVE  Sound(To(s, phase, frames)) /\ To(s, phase, frames).creditReady = s.creditReady
  BY DEF Sound, Sequencer, Settled, Active, Phase, To

\* Feedback keeps the sequencer sound; the credit it then counts on is one it
\* counted on or was just told of, and no session was accepted meanwhile.
LEMMA FeedbackSound ==
  ASSUME NEW s, Sound(s), NEW credit \in BOOLEAN, NEW start \in BOOLEAN
  PROVE  /\ Sound(ApplyFeedback(s, credit, start))
         /\ ApplyFeedback(s, credit, start).creditReady =>
              ~start /\ (s.creditReady \/ credit)
<1> USE DEF Sound
<1> DEFINE ended == [s EXCEPT !.creditReady = FALSE]
           paid  == [s EXCEPT !.creditReady = TRUE, !.coins = 0, !.starts = 1]
<1>1. CASE start /\ s.phase # "idle"
  <2>1. ended \in Sequencer /\ ~ended.creditReady
    BY DEF Sequencer
  <2>2. ApplyFeedback(s, credit, start) = Finish(ended)
    BY <1>1 DEF ApplyFeedback
  <2>3. QED
    BY <2>1, <2>2, FinishSound
<1>2. CASE ~(start /\ s.phase # "idle") /\ credit /\ ~start /\ s.phase \in {"coin", "coinGap"}
  <2>1. paid \in Sequencer
    BY Ranges DEF Sequencer
  <2>2. ApplyFeedback(s, credit, start) = To(paid, "coinGap", GapFrames)
    BY <1>2 DEF ApplyFeedback
  <2>3. "coinGap" \in Phase \ {"idle", "wait"} /\ "coinGap" # "coin"
    BY DEF Phase
  <2>4. QED
    <3>1. Sound(To(paid, "coinGap", GapFrames))
      BY <2>1, <2>3, Positive, ToSound
    <3>2. QED
      BY <1>2, <2>2, <3>1
<1>3. CASE /\ ~(start /\ s.phase # "idle")
           /\ ~(credit /\ ~start /\ s.phase \in {"coin", "coinGap"})
  <2> DEFINE told == [s EXCEPT !.creditReady = ~start /\ (@ \/ credit)]
  <2>1. ApplyFeedback(s, credit, start) = told
    BY <1>3 DEF ApplyFeedback
  <2>2. told \in Sequencer /\ Settled(told)
    BY DEF Sequencer, Settled, Active
  <2>3. told.phase = s.phase /\ told.creditReady = (~start /\ (s.creditReady \/ credit))
    BY DEF Sequencer
  <2>4. told.phase = "coin" => ~told.creditReady
    BY <1>3, <2>3
  <2>5. QED
    BY <2>1, <2>2, <2>3, <2>4
<1>4. QED
  BY <1>1, <1>2, <1>3

\* A press begins with a coin only when no credit is ready.
LEMMA PressSound ==
  ASSUME NEW s, Sound(s),
         NEW smp \in [down : BOOLEAN, pressed : BOOLEAN], smp.pressed => smp.down
  PROVE  Sound(Press(s, smp)) /\ Press(s, smp).creditReady = s.creditReady
<1> USE DEF Sound
<1> DEFINE t == [s EXCEPT !.down = smp.down]
<1>1. t \in Sequencer /\ t.creditReady = s.creditReady /\ t.phase = s.phase
      /\ t.left = s.left /\ t.down = smp.down
  BY DEF Sequencer
<1>2. CASE ~Entered(s, smp)
  <2>1. Press(s, smp) = t
    BY <1>2 DEF Press
  <2>2. t.phase = "idle" => ~t.down
    BY <1>1, <1>2 DEF Entered, Settled
  <2>3. QED
    BY <1>1, <2>1, <2>2 DEF Settled, Active
<1>3. CASE Entered(s, smp) /\ s.creditReady
  <2> DEFINE u == [t EXCEPT !.coins = 0, !.starts = 1]
  <2>1. u \in Sequencer /\ u.creditReady = s.creditReady
    BY <1>1, Ranges DEF Sequencer
  <2>2. Press(s, smp) = To(u, "start", StartFrames)
    BY <1>3 DEF Press
  <2> HIDE DEF u
  <2>3. "start" \in Phase \ {"idle", "wait"} /\ "start" # "coin"
    BY DEF Phase
  <2>4. QED
    BY <2>1, <2>2, <2>3, Positive, ToSound
<1>4. CASE Entered(s, smp) /\ ~s.creditReady
  <2> DEFINE u == [t EXCEPT !.coins = 1, !.starts = 0]
  <2>1. u \in Sequencer /\ u.creditReady = s.creditReady
    BY <1>1, Ranges DEF Sequencer
  <2>2. Press(s, smp) = To(u, "coin", CoinFrames)
    BY <1>4 DEF Press
  <2> HIDE DEF u
  <2>3. "coin" \in Phase \ {"idle", "wait"}
    BY DEF Phase
  <2>4. QED
    BY <1>4, <2>1, <2>2, <2>3, Positive, ToSound
<1>5. QED
  BY <1>2, <1>3, <1>4

\* The phase that follows one that is over.
LEMMA NextPhaseSound ==
  ASSUME NEW s, Sound(s)
  PROVE  Sound(NextPhase(s)) /\ NextPhase(s).creditReady = s.creditReady
<1> USE DEF Sound
<1>1. {"coin", "coinGap", "start", "startGap"} \subseteq Phase \ {"idle", "wait"}
  BY DEF Phase
<1>2. CASE s.phase = "coin"
  <2>1. NextPhase(s) = To(s, "coinGap", GapFrames)
    BY <1>2 DEF NextPhase
  <2>2. QED
    BY <1>1, <2>1, Positive, ToSound
<1>3. CASE s.phase = "coinGap" /\ s.creditReady
  <2>1. NextPhase(s) = To(s, "start", StartFrames)
    BY <1>3 DEF NextPhase
  <2>2. QED
    BY <1>1, <2>1, Positive, ToSound
<1>4. CASE s.phase = "coinGap" /\ ~s.creditReady /\ s.coins < MaxCoin
  <2> DEFINE u == [s EXCEPT !.coins = @ + 1]
  <2>1. u \in Sequencer /\ u.creditReady = s.creditReady
    <3>1. s.coins \in 0..MaxCoin
      BY DEF Sequencer
    <3>2. s.coins + 1 \in 0..MaxCoin
      BY <1>4, <3>1, Positive
    <3>3. QED
      BY <3>2 DEF Sequencer
  <2>2. NextPhase(s) = To(u, "coin", CoinFrames)
    BY <1>4 DEF NextPhase
  <2> HIDE DEF u
  <2>3. QED
    BY <1>1, <1>4, <2>1, <2>2, Positive, ToSound
<1>5. CASE s.phase = "start"
  <2>1. NextPhase(s) = To(s, "startGap", RetryFrames)
    BY <1>5 DEF NextPhase
  <2>2. QED
    BY <1>1, <2>1, Positive, ToSound
<1>6. CASE s.phase = "startGap" /\ s.starts < MaxStart
  <2> DEFINE u == [s EXCEPT !.starts = @ + 1]
  <2>1. u \in Sequencer /\ u.creditReady = s.creditReady
    <3>1. s.starts \in 0..MaxStart
      BY DEF Sequencer
    <3>2. s.starts + 1 \in 0..MaxStart
      BY <1>6, <3>1, Positive
    <3>3. QED
      BY <3>2 DEF Sequencer
  <2>2. NextPhase(s) = To(u, "start", StartFrames)
    BY <1>6 DEF NextPhase
  <2> HIDE DEF u
  <2>3. QED
    BY <1>1, <2>1, <2>2, Positive, ToSound
<1>7. CASE /\ s.phase # "coin" /\ s.phase # "start"
           /\ ~(s.phase = "coinGap" /\ s.creditReady)
           /\ ~(s.phase = "coinGap" /\ ~s.creditReady /\ s.coins < MaxCoin)
           /\ ~(s.phase = "startGap" /\ s.starts < MaxStart)
  <2>1. NextPhase(s) = Finish(s)
    BY <1>7 DEF NextPhase
  <2>2. QED
    BY <2>1, FinishSound
<1>8. QED
  BY <1>2, <1>3, <1>4, <1>5, <1>6, <1>7

\* A frame passes.
LEMMA AdvanceSound ==
  ASSUME NEW s, Sound(s)
  PROVE  Sound(Advance(s)) /\ Advance(s).creditReady = s.creditReady
<1> USE DEF Sound
<1>1. CASE s.phase = "wait"
  BY <1>1 DEF Advance, Sequencer, Settled, Active, Phase
<1>2. CASE Active(s) /\ s.left > 1
  BY <1>2 DEF Advance, Sequencer, Settled, Active, Phase
<1>3. CASE Active(s) /\ s.left = 1
  <2>1. Advance(s) = NextPhase(s)
    BY <1>3 DEF Advance, Active
  <2>2. QED
    BY <2>1, NextPhaseSound
<1>4. CASE s.phase # "wait" /\ ~(Active(s) /\ s.left > 1) /\ ~(Active(s) /\ s.left = 1)
  BY <1>4 DEF Advance
<1>5. QED
  BY <1>1, <1>2, <1>3, <1>4

LEMMA CountedType ==
  ASSUME NEW p \in [coin : 0..MaxCoin, start : 0..MaxStart], NEW s, NEW t
  PROVE  Counted(p, s, t) \in [coin : 0..MaxCoin, start : 0..MaxStart]
  BY Positive DEF Counted, NoPulse, Least
-----------------------------------------------------------------------------
(***************************************************************************)
(* The operators of the guest.                                             *)
(***************************************************************************)

\* A price is a number of credits that a slot can hold, and a coin is worth one or more.
LEMMA PriceType ==
  ASSUME NEW price \in Prices
  PROVE  price \in 0..MaxFunds /\ Worth(price) \in Nat /\ Worth(price) >= price
  BY Positive DEF Worth

\* What a guest is made of.
LEMMA GuestType ==
  ASSUME NEW g \in Guest
  PROVE  /\ g.pending[1] \in 0..MaxFunds /\ g.pending[2] \in 0..MaxFunds
         /\ g.funds[1] \in 0..MaxFunds /\ g.funds[2] \in 0..MaxFunds
         /\ g.price[1] \in Prices /\ g.price[2] \in Prices
         /\ g.ready \in BOOLEAN /\ g.freeplay \in BOOLEAN /\ g.split \in BOOLEAN
         /\ g.line \subseteq Player
  BY DEF Guest, Player

\* One coin or more are worth at least as much as one.
LEMMA CoinsWorth ==
  ASSUME NEW n \in Nat, NEW w \in Nat
  PROVE  n * w \in Nat /\ (n > 0 => n * w >= w)
<1>1. CASE n = 0
  BY <1>1
<1>2. CASE n > 0
  <2> DEFINE m == n - 1
  <2>1. m \in Nat /\ n = m + 1
    BY <1>2
  <2> HIDE DEF m
  <2>2. m * w \in Nat /\ (m + 1) * w = m * w + w
    BY <2>1
  <2>3. QED
    BY <2>1, <2>2
<1>3. QED
  BY <1>1, <1>2

\* Coins only add to a slot, up to the limit; one coin at a price covers any price
\* it is worth.
LEMMA CoinsAdd ==
  ASSUME NEW g \in Guest, NEW slot \in Player, NEW n \in 0..MaxFunds, NEW price \in Prices
  PROVE  /\ Coins(g, slot, n, price) \in 0..MaxFunds
         /\ Coins(g, slot, n, price) >= g.funds[slot]
         /\ \A due \in Prices : ~g.freeplay /\ n > 0 /\ Worth(price) >= due =>
              Coins(g, slot, n, price) >= due
<1> DEFINE had == g.funds[slot]
           worth == n * Worth(price)
<1>1. had \in 0..MaxFunds
  BY DEF Guest
<1>2. worth \in Nat /\ (n > 0 => worth >= Worth(price)) /\ Worth(price) \in Nat
  BY PriceType, CoinsWorth
<1>3. Coins(g, slot, n, price) = IF g.freeplay THEN had ELSE Least(had + worth, MaxFunds)
  BY DEF Coins
<1> HIDE DEF had, worth
<1>4. Coins(g, slot, n, price) \in 0..MaxFunds /\ Coins(g, slot, n, price) >= had
  BY <1>1, <1>2, <1>3, Positive DEF Least
<1>5. ASSUME NEW due \in Prices, ~g.freeplay, n > 0, Worth(price) >= due
      PROVE  Coins(g, slot, n, price) >= due
  <2>1. due \in 0..MaxFunds
    BY PriceType
  <2>2. QED
    BY <1>1, <1>2, <1>3, <1>5, <2>1, Positive DEF Least
<1>6. QED
  BY <1>4, <1>5 DEF had

LEMMA SlotType ==
  ASSUME NEW g \in Guest, NEW player \in Player
  PROVE  Slot(g, player) \in Player /\ Slot(g, 1) = 1
  BY DEF Slot, Player

\* The prices, the mode and the slots of g and h are the same.
Alike(g, h) == g.price = h.price /\ g.freeplay = h.freeplay /\ g.split = h.split

LEMMA EdgesType ==
  ASSUME NEW g \in Guest, NEW coins \in SUBSET Player
  PROVE  /\ Edges(g, coins) \in Guest /\ Alike(Edges(g, coins), g)
         /\ Edges(g, coins).funds = g.funds
<1> DEFINE p == [player \in Player |->
                   IF player \in coins \ g.line THEN Least(g.pending[player] + 1, MaxFunds)
                   ELSE g.pending[player]]
<1>1. ASSUME NEW player \in Player PROVE g.pending[player] \in 0..MaxFunds
  BY DEF Guest
<1>2. p \in [Player -> 0..MaxFunds]
  BY <1>1, Positive DEF Least
<1>3. Edges(g, coins) = [g EXCEPT !.line = coins, !.pending = p]
  BY DEF Edges, Guest
<1> HIDE DEF p
<1>4. QED
  BY <1>2, <1>3 DEF Guest, Alike

\* The coins of one player only add to player 1's slot, and leave those of the other.
LEMMA InsertKeeps ==
  ASSUME NEW g \in Guest, NEW player \in Player
  PROVE  /\ Insert(g, player) \in Guest /\ Alike(Insert(g, player), g)
         /\ \A other \in Player \ {player} :
              Insert(g, player).pending[other] = g.pending[other]
         /\ Insert(g, player).funds[1] >= g.funds[1]
         /\ \A due \in Prices :
              /\ ~g.freeplay /\ g.pending[player] > 0 /\ Slot(g, player) = 1
              /\ Worth(g.price[player]) >= due
              => Insert(g, player).funds[1] >= due
<1> DEFINE slot == Slot(g, player)
           n == g.pending[player]
           price == g.price[player]
           c == Coins(g, slot, n, price)
<1>1. slot \in Player /\ n \in 0..MaxFunds /\ price \in Prices
  BY SlotType DEF Guest
<1>2. /\ c \in 0..MaxFunds /\ c >= g.funds[slot]
      /\ \A due \in Prices : ~g.freeplay /\ n > 0 /\ Worth(price) >= due => c >= due
  <2> HIDE DEF slot, n, price
  <2>1. QED
    BY <1>1, CoinsAdd
<1>3. Insert(g, player) = [g EXCEPT !.funds[slot] = c, !.pending[player] = 0]
  BY DEF Insert
<1> HIDE DEF c
<1> HIDE DEF slot, n, price
<1>4. /\ Insert(g, player).funds = [g.funds EXCEPT ![slot] = c]
      /\ Insert(g, player).pending = [g.pending EXCEPT ![player] = 0]
      /\ Alike(Insert(g, player), g)
  BY <1>3 DEF Guest, Alike
<1>5. Insert(g, player) \in Guest
  <2> DEFINE funds == [g.funds EXCEPT ![slot] = c]
             pending == [g.pending EXCEPT ![player] = 0]
  <2>1. funds \in [Player -> 0..MaxFunds] /\ pending \in [Player -> 0..MaxFunds]
    BY <1>1, <1>2, Ranges DEF Guest
  <2>2. Insert(g, player) = [g EXCEPT !.funds = funds, !.pending = pending]
    BY <1>3 DEF Guest
  <2> HIDE DEF funds, pending
  <2>3. QED
    BY <2>1, <2>2 DEF Guest
<1>6. Insert(g, player).funds[1] = IF slot = 1 THEN c ELSE g.funds[1]
  BY <1>4 DEF Guest, Player
<1>7. g.funds[1] \in Nat
  BY GuestType
<1>8. \A other \in Player \ {player} : Insert(g, player).pending[other] = g.pending[other]
  BY <1>4 DEF Guest
<1>9. Insert(g, player).funds[1] >= g.funds[1]
  BY <1>2, <1>6, <1>7
<1>10. \A due \in Prices :
         /\ ~g.freeplay /\ n > 0 /\ slot = 1 /\ Worth(price) >= due
         => Insert(g, player).funds[1] >= due
  BY <1>2, <1>6
<1>11. QED
  BY <1>4, <1>5, <1>8, <1>9, <1>10 DEF slot, n, price

\* An injection takes nothing from player 1's slot, and leaves the price of a session
\* there unless it is player 2's coin that lends.
LEMMA InjectKeeps ==
  ASSUME NEW g \in Guest
  PROVE  /\ Inject(g) \in Guest /\ Alike(Inject(g), g)
         /\ Injects(g) \in BOOLEAN /\ Lends(g) \in BOOLEAN
         /\ Inject(g).funds[1] >= g.funds[1]
         /\ Injects(g) /\ ~g.freeplay /\ ~Lends(g) => Inject(g).funds[1] >= g.price[1]
<1> DEFINE h == Insert(g, 1)
<1>0. 1 \in Player /\ 2 \in Player \ {1} /\ Player = {1, 2}
  BY DEF Player
<1>1. /\ h \in Guest /\ Alike(h, g) /\ h.pending[2] = g.pending[2]
      /\ h.funds[1] >= g.funds[1]
      /\ ~g.freeplay /\ g.pending[1] > 0 => h.funds[1] >= g.price[1]
  BY <1>0, InsertKeeps, SlotType, GuestType, PriceType
<1> HIDE DEF h
<1>2. /\ Insert(h, 2) \in Guest /\ Alike(Insert(h, 2), g)
      /\ Insert(h, 2).funds[1] >= h.funds[1]
  BY <1>0, <1>1, InsertKeeps DEF Alike
<1>3. ~g.freeplay /\ g.pending[2] > 0 /\ ~g.split /\ Worth(g.price[2]) >= g.price[1]
        => Insert(h, 2).funds[1] >= g.price[1]
  <2>1. Slot(h, 2) = (IF g.split THEN 2 ELSE 1) /\ h.price = g.price /\ h.freeplay = g.freeplay
    BY <1>1 DEF Slot, Alike
  <2>2. g.price[1] \in Prices
    BY GuestType
  <2>3. QED
    BY <1>0, <1>1, <2>1, <2>2, InsertKeeps
<1>4. /\ g.funds[1] \in Nat /\ h.funds[1] \in Nat /\ Insert(h, 2).funds[1] \in Nat
      /\ g.price[1] \in Nat /\ Worth(g.price[2]) \in Nat
      /\ g.pending[1] \in Nat /\ g.pending[2] \in Nat
      /\ g.ready \in BOOLEAN /\ g.split \in BOOLEAN
  BY <1>1, <1>2, GuestType, PriceType
<1>5. Inject(g) = IF g.ready THEN Insert(h, 2) ELSE g
  BY DEF Inject, h
<1>6. Injects(g) <=> g.ready /\ (g.pending[1] > 0 \/ g.pending[2] > 0)
  BY <1>0 DEF Injects
<1>7. /\ Lends(g) <=> /\ g.ready /\ g.pending[2] > 0
                      /\ g.split \/ Worth(g.price[2]) < g.price[1]
      /\ Injects(g) \in BOOLEAN /\ Lends(g) \in BOOLEAN
  BY <1>0 DEF Lends, Injects
<1>8. CASE g.ready
  <2>1. Injects(g) /\ ~g.freeplay /\ ~Lends(g) => Insert(h, 2).funds[1] >= g.price[1]
    BY <1>1, <1>2, <1>3, <1>4, <1>6, <1>7, <1>8
  <2>2. Insert(h, 2).funds[1] >= g.funds[1]
    BY <1>1, <1>2, <1>4
  <2>3. QED
    BY <1>2, <1>5, <1>7, <1>8, <2>1, <2>2
<1>9. CASE ~g.ready
  BY <1>4, <1>5, <1>6, <1>7, <1>9 DEF Alike
<1>10. QED
  BY <1>4, <1>8, <1>9
-----------------------------------------------------------------------------
(***************************************************************************)
(* Type correctness, with the coin rule.                                   *)
(***************************************************************************)

Ind == TypeOK /\ CoinOnlyWithoutCredit

\* The part of a sample's step that the sampled variables play.
LEMMA SampleType ==
  ASSUME TypeOK, NEW full \in BOOLEAN, Sample(full)
  PROVE  /\ key' \in BOOLEAN /\ quartz' \in BOOLEAN /\ fresh' \in BOOLEAN
         /\ sample' \in [down : BOOLEAN, pressed : BOOLEAN]
         /\ sample'.pressed => sample'.down
<1>1. PICK k, pressed \in BOOLEAN :
        LET inWindow == source # "quartz" /\ k
            platform == source # "window" /\ full /\ k
        IN  /\ key' = k
            /\ quartz' = IF full THEN platform ELSE quartz
            /\ sample' = [down |-> inWindow \/ platform,
                          pressed |-> (inWindow /\ pressed) \/ (platform /\ ~quartz)]
            /\ fresh' = (k /\ (fresh \/ ~key))
  BY Zenon DEF Sample
<1>2. quartz \in BOOLEAN /\ fresh \in BOOLEAN /\ key \in BOOLEAN
  BY DEF TypeOK
<1>3. QED
  BY <1>1, <1>2

LEMMA SetInputType ==
  ASSUME TypeOK, NEW coins \in SUBSET Player, NEW credit \in BOOLEAN, NEW owed \in BOOLEAN,
         SetInput(coins, credit, owed)
  PROVE  guest' \in Guest /\ creditNew' \in BOOLEAN /\ borrowed' \in BOOLEAN
<1>1. guest \in Guest
  BY DEF TypeOK
<1>2. Edges(guest, coins) \in Guest
  BY <1>1, EdgesType
<1>3. QED
  BY <1>2, InjectKeeps DEF SetInput

LEMMA InitInd == Init => Ind
<1> SUFFICES ASSUME Init PROVE Ind
  OBVIOUS
<1>1. seq \in Sequencer /\ Settled(seq) /\ ~seq.creditReady
  BY Ranges DEF Init, Sequencer, Settled, Active, Phase
<1>2. guest \in Guest
  BY Ranges, SetupConstants DEF Init, Setup, Guest
<1>3. sample \in [down : BOOLEAN, pressed : BOOLEAN] /\ ~sample.pressed
  BY DEF Init, NoKey
<1>4. pulses \in [coin : 0..MaxCoin, start : 0..MaxStart]
  BY Ranges DEF Init, NoPulse
<1>5. QED
  BY <1>1, <1>2, <1>3, <1>4, Ranges DEF Init, Ind, TypeOK, CoinOnlyWithoutCredit

LEMMA SoundSeq == ASSUME Ind PROVE Sound(seq)
  BY DEF Ind, TypeOK, CoinOnlyWithoutCredit, Sound

LEMMA IndFromSound ==
  ASSUME Sound(seq'), TypeOK'
  PROVE  Ind'
  BY DEF Ind, CoinOnlyWithoutCredit, Sound

LEMMA IdlePollInd == ASSUME Ind, IdlePoll PROVE Ind'
<1>1. /\ TypeOK /\ SetInput({}, creditNew, borrowed)
      /\ creditNew \in BOOLEAN /\ borrowed \in BOOLEAN
  BY DEF Ind, TypeOK, IdlePoll
<1>2. guest' \in Guest /\ creditNew' \in BOOLEAN /\ borrowed' \in BOOLEAN
  BY <1>1, SetInputType
<1>3. QED
  BY <1>2 DEF Ind, TypeOK, CoinOnlyWithoutCredit, IdlePoll

LEMMA PollInd == ASSUME Ind, NEW other \in SUBSET Player, Poll(other) PROVE Ind'
<1> DEFINE s == ApplyFeedback(seq, creditNew, startNew)
           begins == Entered(s, sample)
<1>1. TypeOK
  BY DEF Ind
<1>2. Sound(s)
  BY <1>1, SoundSeq, FeedbackSound DEF TypeOK
<1>3. Sound(seq')
  BY <1>1, <1>2, PressSound DEF Poll, TypeOK
<1>4. guest' \in Guest /\ creditNew' \in BOOLEAN /\ borrowed' \in BOOLEAN
  <2>1. PICK coins \in SUBSET Player, owed \in BOOLEAN : SetInput(coins, FALSE, owed)
    <3> DEFINE coins == IF seq'.phase = "coin" THEN other \cup {1} ELSE other
               owed == borrowed /\ seq'.creditReady
    <3>1. SetInput(coins, FALSE, owed) /\ coins \in SUBSET Player /\ owed \in BOOLEAN
      BY DEF Poll, Player
    <3> HIDE DEF coins, owed
    <3>2. QED
      BY <3>1
  <2>2. QED
    BY <1>1, <2>1, SetInputType
<1>5. pulses' \in [coin : 0..MaxCoin, start : 0..MaxStart]
  <2>1. (IF begins THEN NoPulse ELSE pulses) \in [coin : 0..MaxCoin, start : 0..MaxStart]
    BY <1>1, Ranges DEF TypeOK, NoPulse
  <2>2. QED
    BY <2>1, CountedType DEF Poll
<1>6. session' \in BOOLEAN /\ fresh' \in BOOLEAN /\ startNew' \in BOOLEAN
  BY <1>1, Zenon DEF Poll, TypeOK
<1>7. TypeOK'
  BY <1>1, <1>3, <1>4, <1>5, <1>6 DEF TypeOK, Poll, Sound
<1>8. QED
  BY <1>3, <1>7, IndFromSound

\* What the guest does in a slice keeps its types.
LEMMA SliceType ==
  ASSUME TypeOK,
         (\E player \in Player : CreditCheck(player)) \/ Adapter \/ GetReady \/ Idles
  PROVE  /\ guest' \in Guest
         /\ creditNew' \in BOOLEAN /\ startNew' \in BOOLEAN
         /\ session' \in BOOLEAN /\ borrowed' \in BOOLEAN
<1>1. /\ guest \in Guest /\ creditNew \in BOOLEAN /\ startNew \in BOOLEAN
      /\ session \in BOOLEAN /\ borrowed \in BOOLEAN
  BY DEF TypeOK
<1>2. ASSUME NEW player \in Player, CreditCheck(player)
      PROVE  /\ guest' \in Guest
             /\ creditNew' \in BOOLEAN /\ startNew' \in BOOLEAN
             /\ session' \in BOOLEAN /\ borrowed' \in BOOLEAN
  <2> DEFINE price == guest.price[1]
             slot == Slot(guest, player)
             funds == Coins(guest, slot, guest.pending[player], price)
             accepted == guest.freeplay \/ funds >= price
             left == IF accepted /\ ~guest.freeplay THEN funds - price ELSE funds
  <2>1. slot \in Player /\ guest.pending[player] \in 0..MaxFunds /\ price \in Prices
    BY <1>1, SlotType, GuestType DEF Guest
  <2>2. price \in 0..MaxFunds
    BY <2>1, PriceType
  <2>3. funds \in 0..MaxFunds
    <3> HIDE DEF slot, price
    <3>1. QED
      BY <1>1, <2>1, CoinsAdd
  <2>4. guest' = IF guest.freeplay THEN guest
                 ELSE [guest EXCEPT !.pending[player] = 0, !.funds[slot] = left]
    BY <1>2 DEF CreditCheck
  <2>5. /\ creditNew' \in BOOLEAN /\ startNew' \in BOOLEAN
        /\ session' \in BOOLEAN /\ borrowed' \in BOOLEAN
    BY <1>2, Zenon DEF CreditCheck
  <2> HIDE DEF funds, price
  <2>6. left \in 0..MaxFunds
    BY <2>2, <2>3, Positive
  <2> HIDE DEF left, slot
  <2>7. guest' \in Guest
    BY <1>1, <2>1, <2>4, <2>6, Ranges DEF Guest
  <2>8. QED
    BY <2>5, <2>7
<1>3. CASE Adapter
  BY <1>1, <1>3, InjectKeeps DEF Adapter
<1>4. CASE GetReady
  BY <1>1, <1>4 DEF GetReady, Guest
<1>5. CASE Idles
  BY <1>1, <1>5 DEF Idles
<1>6. QED
  BY <1>2, <1>3, <1>4, <1>5

LEMMA RunInd == ASSUME Ind, Run PROVE Ind'
<1>1. TypeOK
  BY DEF Ind
<1>2. /\ guest' \in Guest
      /\ creditNew' \in BOOLEAN /\ startNew' \in BOOLEAN
      /\ session' \in BOOLEAN /\ borrowed' \in BOOLEAN
  BY <1>1, SliceType DEF Run
<1>3. /\ key' \in BOOLEAN /\ quartz' \in BOOLEAN /\ fresh' \in BOOLEAN
      /\ sample' \in [down : BOOLEAN, pressed : BOOLEAN]
      /\ sample'.pressed => sample'.down
  <2>1. CASE \E full \in BOOLEAN : Sample(full)
    BY <1>1, <2>1, SampleType
  <2>2. CASE UNCHANGED <<key, quartz, sample, fresh>>
    BY <1>1, <2>2 DEF TypeOK
  <2>3. QED
    BY <2>1, <2>2 DEF Run
<1>4. pc' \in {"poll", "run", "frame"} /\ slices' \in 0..MaxSlices
  BY <1>1, Positive DEF Run, TypeOK
<1>5. UNCHANGED <<source, seq, pulses>>
  BY DEF Run
<1>6. QED
  BY <1>2, <1>3, <1>4, <1>5 DEF Ind, TypeOK, CoinOnlyWithoutCredit

LEMMA FrameInd == ASSUME Ind, Frame PROVE Ind'
<1>1. TypeOK
  BY DEF Ind
<1>2. Sound(seq')
  BY SoundSeq, AdvanceSound DEF Frame
<1>3. pulses' \in [coin : 0..MaxCoin, start : 0..MaxStart]
  BY <1>1, CountedType DEF Frame, TypeOK
<1>4. /\ key' \in BOOLEAN /\ quartz' \in BOOLEAN /\ fresh' \in BOOLEAN
      /\ sample' \in [down : BOOLEAN, pressed : BOOLEAN]
      /\ sample'.pressed => sample'.down
  BY <1>1, SampleType DEF Frame
<1>5. TypeOK'
  BY <1>1, <1>2, <1>3, <1>4, Positive DEF TypeOK, Frame, Sound
<1>6. QED
  BY <1>2, <1>5, IndFromSound

LEMMA StepInd == Ind /\ [Next]_vars => Ind'
<1> SUFFICES ASSUME Ind, [Next]_vars PROVE Ind'
  OBVIOUS
<1>1. CASE IdlePoll
  BY <1>1, IdlePollInd
<1>2. CASE \E other \in SUBSET Player : Poll(other)
  BY <1>2, PollInd
<1>3. CASE Run
  BY <1>3, RunInd
<1>4. CASE Frame
  BY <1>4, FrameInd
<1>5. CASE UNCHANGED vars
  BY <1>5 DEF Ind, TypeOK, CoinOnlyWithoutCredit, vars
<1>6. QED
  BY <1>1, <1>2, <1>3, <1>4, <1>5 DEF Next

\* Phases, attempts, clock and credits keep within their ranges, and the clock runs
\* exactly in the phases that have one.
THEOREM TypeCorrect == Spec => []TypeOK
<1>1. Ind => TypeOK
  BY DEF Ind
<1>2. QED
  BY InitInd, StepInd, <1>1, PTL DEF Spec

\* No coin is pressed once the guest has accepted a credit.
THEOREM CoinRule == Spec => []CoinOnlyWithoutCredit
<1>1. Ind => CoinOnlyWithoutCredit
  BY DEF Ind
<1>2. QED
  BY InitInd, StepInd, <1>1, PTL DEF Spec
-----------------------------------------------------------------------------
(***************************************************************************)
(* Start is paid for.  StartIsPaid is not inductive: a credit the guest has*)
(* accepted is relied on from the next poll on, so the invariant speaks of *)
(* the credits the sequencer will be told of as well.                      *)
(***************************************************************************)

Counts == guest.price[1] > 0 /\ ~guest.freeplay /\ ~borrowed

Paid ==
  Counts /\ (seq.creditReady \/ creditNew) => guest.funds[1] >= guest.price[1] \/ startNew

\* A step that keeps the prices and the mode keeps what Counts asks of the guest.
LEMMA AlikeCounts ==
  ASSUME guest \in Guest, guest' \in Guest, Alike(guest', guest)
  PROVE  guest'.price[1] = guest.price[1] /\ guest'.freeplay = guest.freeplay
  BY DEF Alike

\* What set_input does to the credits.
LEMMA SetInputKeeps ==
  ASSUME TypeOK, NEW coins \in SUBSET Player, NEW credit \in BOOLEAN, NEW owed \in BOOLEAN,
         SetInput(coins, credit, owed)
  PROVE  /\ guest'.price[1] = guest.price[1] /\ guest'.freeplay = guest.freeplay
         /\ guest'.funds[1] >= guest.funds[1] /\ guest'.funds[1] \in Nat
         /\ (owed => borrowed') /\ (credit => creditNew')
         /\ creditNew' /\ ~credit /\ ~guest.freeplay /\ ~borrowed' =>
              guest'.funds[1] >= guest.price[1]
<1> DEFINE g == Edges(guest, coins)
<1>1. guest \in Guest
  BY DEF TypeOK
<1>2. g \in Guest /\ g.funds = guest.funds /\ Alike(g, guest)
  BY <1>1, EdgesType
<1>3. /\ guest' = Inject(g) /\ creditNew' = (credit \/ Injects(g))
      /\ borrowed' = (owed \/ Lends(g))
  BY DEF SetInput
<1> HIDE DEF g
<1>4. /\ guest' \in Guest /\ Alike(guest', g) /\ guest'.funds[1] >= g.funds[1]
      /\ Injects(g) /\ ~g.freeplay /\ ~Lends(g) => guest'.funds[1] >= g.price[1]
  BY <1>2, <1>3, InjectKeeps
<1>5. /\ g.price = guest.price /\ g.freeplay = guest.freeplay
      /\ guest'.price = guest.price /\ guest'.freeplay = guest.freeplay
  BY <1>2, <1>4 DEF Alike
<1>6. guest'.funds[1] \in Nat
  BY <1>4, GuestType
<1>7. QED
  BY <1>2, <1>3, <1>4, <1>5, <1>6

\* What is enough stays enough: the slot only gains.
LEMMA FundsGrow ==
  ASSUME NEW old \in Nat, NEW new \in Nat, NEW price \in Nat, new >= old, old >= price
  PROVE  new >= price
  OBVIOUS

LEMMA IdlePollPaid == ASSUME Ind, Paid, IdlePoll PROVE Paid'
<1>1. /\ TypeOK /\ creditNew \in BOOLEAN /\ borrowed \in BOOLEAN
      /\ SetInput({}, creditNew, borrowed) /\ guest \in Guest
  BY DEF Ind, TypeOK, IdlePoll
<1>2. /\ guest'.price[1] = guest.price[1] /\ guest'.freeplay = guest.freeplay
      /\ guest'.funds[1] >= guest.funds[1] /\ guest'.funds[1] \in Nat
      /\ borrowed => borrowed'
      /\ creditNew' /\ ~creditNew /\ ~guest.freeplay /\ ~borrowed' =>
           guest'.funds[1] >= guest.price[1]
  BY <1>1, SetInputKeeps
<1>3. UNCHANGED <<seq, startNew>>
  BY DEF IdlePoll
<1>4. guest.funds[1] \in Nat /\ guest.price[1] \in Nat
  BY <1>1, GuestType, PriceType
<1>5. QED
  BY <1>2, <1>3, <1>4, FundsGrow DEF Paid, Counts

\* A poll takes over the credit it is told of, unless a session took it.
LEMMA PollPaid == ASSUME Ind, Paid, NEW other \in SUBSET Player, Poll(other) PROVE Paid'
<1> DEFINE s == ApplyFeedback(seq, creditNew, startNew)
           coins == IF seq'.phase = "coin" THEN other \cup {1} ELSE other
           owed == borrowed /\ seq'.creditReady
<1>1. /\ TypeOK /\ creditNew \in BOOLEAN /\ startNew \in BOOLEAN /\ borrowed \in BOOLEAN
      /\ guest \in Guest
  BY DEF Ind, TypeOK
<1>2. Sound(s) /\ (s.creditReady => ~startNew /\ (seq.creditReady \/ creditNew))
  BY <1>1, SoundSeq, FeedbackSound
<1>3. seq'.creditReady = s.creditReady /\ Sound(seq')
  BY <1>1, <1>2, PressSound DEF Poll, TypeOK
<1>4. /\ guest'.price[1] = guest.price[1] /\ guest'.freeplay = guest.freeplay
      /\ guest'.funds[1] >= guest.funds[1] /\ guest'.funds[1] \in Nat
      /\ borrowed /\ seq'.creditReady => borrowed'
      /\ creditNew' /\ ~guest.freeplay /\ ~borrowed' => guest'.funds[1] >= guest.price[1]
  <2>1. SetInput(coins, FALSE, owed) /\ coins \in SUBSET Player /\ owed \in BOOLEAN
    BY <1>1 DEF Poll, Player
  <2> HIDE DEF coins
  <2>2. QED
    <3> HIDE DEF owed
    <3>1. /\ guest'.price[1] = guest.price[1] /\ guest'.freeplay = guest.freeplay
          /\ guest'.funds[1] >= guest.funds[1] /\ guest'.funds[1] \in Nat
          /\ owed => borrowed'
          /\ creditNew' /\ ~guest.freeplay /\ ~borrowed' =>
               guest'.funds[1] >= guest.price[1]
      BY <1>1, <2>1, SetInputKeeps
    <3>2. QED
      BY <3>1 DEF owed
<1> HIDE DEF s
<1>5. guest.funds[1] \in Nat /\ guest.price[1] \in Nat
  BY <1>1, GuestType, PriceType
<1>6. Counts' /\ seq'.creditReady => guest.funds[1] >= guest.price[1]
  BY <1>2, <1>3, <1>4 DEF Paid, Counts
<1>7. QED
  BY <1>4, <1>5, <1>6, FundsGrow DEF Paid, Counts

\* A session pays with a credit and is counted, or else the credit is borrowed; one that
\* is refused leaves the slot as full as it was.
LEMMA CheckPaid ==
  ASSUME Ind, Paid, NEW player \in Player, CreditCheck(player), UNCHANGED seq
  PROVE  Paid'
<1> DEFINE price == guest.price[1]
           slot == Slot(guest, player)
           before == guest.funds[slot]
           funds == Coins(guest, slot, guest.pending[player], price)
           accepted == guest.freeplay \/ funds >= price
           left == IF accepted /\ ~guest.freeplay THEN funds - price ELSE funds
<1> SUFFICES ASSUME Counts', (seq.creditReady \/ creditNew')
             PROVE  guest'.funds[1] >= guest'.price[1] \/ startNew'
  BY DEF Paid
<1>1. guest \in Guest /\ startNew \in BOOLEAN
  BY DEF Ind, TypeOK
<1>2. /\ guest' = IF guest.freeplay THEN guest
                  ELSE [guest EXCEPT !.pending[player] = 0, !.funds[slot] = left]
      /\ creditNew' = (creditNew \/ accepted)
      /\ startNew' = (startNew \/ (accepted /\ (guest.freeplay \/ left < before)))
      /\ borrowed' = (borrowed \/ (accepted /\ price > 0 /\ ~guest.freeplay
                                            /\ left >= before))
  BY Zenon DEF CreditCheck
<1>3. slot \in Player /\ guest.pending[player] \in 0..MaxFunds /\ price \in Prices
  BY <1>1, SlotType, GuestType DEF Guest
<1>4. price \in Nat /\ before \in Nat /\ guest.funds[1] \in Nat
  BY <1>1, <1>3, PriceType, GuestType DEF Guest
<1>5. funds \in Nat /\ funds >= before
  <2> HIDE DEF slot, price
  <2>1. QED
    BY <1>1, <1>3, CoinsAdd
<1> HIDE DEF funds
<1>6. guest'.freeplay = guest.freeplay /\ guest'.price = guest.price
  <2> HIDE DEF left
  <2>1. QED
    BY <1>1, <1>2 DEF Guest
<1>7. price > 0 /\ ~guest.freeplay
  BY <1>6 DEF Counts
<1>8. CASE accepted
  <2>1. left < before \/ left >= before
    BY <1>4, <1>5, <1>7, <1>8
  <2>2. ~(left >= before)
    BY <1>2, <1>7, <1>8 DEF Counts
  <2>3. QED
    BY <1>2, <1>8, <2>1, <2>2
<1>9. CASE ~accepted
  <2>1. (seq.creditReady \/ creditNew) /\ ~borrowed
    BY <1>2, <1>9 DEF Counts
  <2>2. guest.funds[1] >= price \/ startNew
    BY <1>7, <2>1 DEF Paid, Counts
  <2>3. guest'.funds = [guest.funds EXCEPT ![slot] = funds]
    <3>1. left = funds
      BY <1>9
    <3>2. QED
      BY <1>1, <1>2, <1>7, <3>1 DEF Guest
  <2>4. guest'.funds[1] = IF slot = 1 THEN funds ELSE guest.funds[1]
    BY <1>1, <2>3 DEF Guest, Player
  <2>5. guest'.funds[1] \in Nat /\ guest'.funds[1] >= guest.funds[1]
    <3> HIDE DEF slot
    <3>1. slot = 1 => before = guest.funds[1]
      OBVIOUS
    <3> HIDE DEF before
    <3>2. QED
      BY <1>4, <1>5, <2>4, <3>1
  <2>6. QED
    BY <1>2, <1>4, <1>6, <2>2, <2>5, FundsGrow
<1>10. QED
  BY <1>8, <1>9

LEMMA AdapterPaid == ASSUME Ind, Paid, Adapter, UNCHANGED seq PROVE Paid'
<1>1. /\ guest \in Guest
      /\ guest' = Inject(guest) /\ creditNew' = (creditNew \/ Injects(guest))
      /\ borrowed' = (borrowed \/ Lends(guest)) /\ UNCHANGED <<seq, startNew>>
  BY DEF Ind, TypeOK, Adapter
<1>2. /\ guest' \in Guest /\ Alike(guest', guest) /\ guest'.funds[1] >= guest.funds[1]
      /\ Injects(guest) /\ ~guest.freeplay /\ ~Lends(guest) =>
           guest'.funds[1] >= guest.price[1]
  BY <1>1, InjectKeeps
<1>3. guest'.price[1] = guest.price[1] /\ guest'.freeplay = guest.freeplay
  BY <1>1, <1>2, AlikeCounts
<1>4. guest.funds[1] \in Nat /\ guest'.funds[1] \in Nat /\ guest.price[1] \in Nat
  BY <1>1, <1>2, GuestType, PriceType
<1>5. QED
  BY <1>1, <1>2, <1>3, <1>4, FundsGrow DEF Paid, Counts

LEMMA RunPaid == ASSUME Ind, Paid, Run PROVE Paid'
<1>1. guest \in Guest /\ UNCHANGED seq
  BY DEF Ind, TypeOK, Run
<1>2. CASE \E player \in Player : CreditCheck(player)
  BY <1>1, <1>2, CheckPaid
<1>3. CASE Adapter
  BY <1>1, <1>3, AdapterPaid
<1>4. CASE GetReady
  <2>1. guest'.funds = guest.funds /\ guest'.price = guest.price
        /\ guest'.freeplay = guest.freeplay
    BY <1>1, <1>4 DEF GetReady, Guest
  <2>2. UNCHANGED <<creditNew, startNew, borrowed>>
    BY <1>4 DEF GetReady
  <2>3. QED
    BY <1>1, <2>1, <2>2 DEF Paid, Counts
<1>5. CASE Idles
  BY <1>1, <1>5 DEF Idles, Paid, Counts
<1>6. QED
  BY <1>2, <1>3, <1>4, <1>5 DEF Run

LEMMA FramePaid == ASSUME Ind, Paid, Frame PROVE Paid'
<1>1. seq'.creditReady = seq.creditReady
  BY SoundSeq, AdvanceSound DEF Frame
<1>2. UNCHANGED <<guest, creditNew, startNew, borrowed>>
  BY DEF Frame
<1>3. QED
  BY <1>1, <1>2 DEF Paid, Counts

\* A credit the sequencer counts on is in player 1's slot, or in a session the next poll
\* will see, unless the counts told it of one that is not player 1's to spend: for every
\* price, limit and order of the coins and sessions of both players.
THEOREM StartPaid == Spec => []StartIsPaid
<1>1. Init => Ind /\ Paid
  <2>1. ASSUME Init PROVE Paid
    <3>1. seq.creditReady = FALSE /\ creditNew = FALSE
      BY <2>1 DEF Init
    <3>2. QED
      BY <3>1 DEF Paid
  <2>2. QED
    BY <2>1, InitInd
<1>2. Ind /\ Paid /\ [Next]_vars => (Ind /\ Paid)'
  <2> SUFFICES ASSUME Ind, Paid, [Next]_vars PROVE Paid'
    BY StepInd
  <2>1. CASE IdlePoll
    BY <2>1, IdlePollPaid
  <2>2. CASE \E other \in SUBSET Player : Poll(other)
    BY <2>2, PollPaid
  <2>3. CASE Run
    BY <2>3, RunPaid
  <2>4. CASE Frame
    BY <2>4, FramePaid
  <2>5. CASE UNCHANGED vars
    BY <2>5 DEF Paid, Counts, vars
  <2>6. QED
    BY <2>1, <2>2, <2>3, <2>4, <2>5 DEF Next
<1>3. Ind /\ Paid => StartIsPaid
  BY DEF Paid, Counts, StartIsPaid
<1>4. QED
  BY <1>1, <1>2, <1>3, PTL DEF Spec
-----------------------------------------------------------------------------
(***************************************************************************)
(* One press, one sequence.                                                *)
(***************************************************************************)

\* Feedback never looks at the key: what ends a sequence waits for the release of a
\* key that the poll before saw held.
LEMMA FeedbackPhase ==
  ASSUME NEW s \in Sequencer, NEW credit \in BOOLEAN, NEW start \in BOOLEAN
  PROVE  LET t == ApplyFeedback(s, credit, start) IN
         /\ t.down = s.down
         /\ \/ /\ start /\ s.phase # "idle"
               /\ t.phase = IF s.down THEN "wait" ELSE "idle"
            \/ /\ credit /\ s.phase \in {"coin", "coinGap"}
               /\ t.phase = "coinGap" /\ t.creditReady /\ t.starts = 1
            \/ /\ t.phase = s.phase /\ t.coins = s.coins /\ t.starts = s.starts
               /\ s.phase \in {"coin", "coinGap"} => t.creditReady = s.creditReady
<1>1. CASE start /\ s.phase # "idle"
  BY <1>1 DEF ApplyFeedback, Finish, Sequencer
<1>2. CASE ~start /\ credit /\ s.phase \in {"coin", "coinGap"}
  BY <1>2 DEF ApplyFeedback, To, Sequencer
<1>3. CASE /\ ~(start /\ s.phase # "idle")
           /\ ~(~start /\ credit /\ s.phase \in {"coin", "coinGap"})
  BY <1>3 DEF ApplyFeedback, Sequencer
<1>4. QED
  BY <1>1, <1>2, <1>3

\* A poll changes the phase only by beginning a sequence.
LEMMA PressPhase ==
  ASSUME NEW s \in Sequencer, NEW smp \in [down : BOOLEAN, pressed : BOOLEAN]
  PROVE  LET t == Press(s, smp) IN
         /\ t.down = smp.down /\ t.creditReady = s.creditReady
         /\ \/ /\ ~Entered(s, smp)
               /\ t.phase = s.phase /\ t.coins = s.coins /\ t.starts = s.starts
            \/ Entered(s, smp) /\ t.phase = "start" /\ t.starts = 1
            \/ Entered(s, smp) /\ t.phase = "coin" /\ t.coins = 1
<1>1. CASE ~Entered(s, smp)
  BY <1>1 DEF Press, Sequencer
<1>2. CASE Entered(s, smp) /\ s.creditReady
  BY <1>2 DEF Press, To, Sequencer
<1>3. CASE Entered(s, smp) /\ ~s.creditReady
  BY <1>3 DEF Press, To, Sequencer
<1>4. QED
  BY <1>1, <1>2, <1>3

\* Where a frame takes the sequencer.
AdvanceMove(s, t) ==
  \/ s.phase = "wait" /\ t.phase = IF s.down THEN "wait" ELSE "idle"
  \/ t.phase = s.phase /\ t.coins = s.coins /\ t.starts = s.starts
  \/ s.phase = "coin" /\ t.phase = "coinGap" /\ t.coins = s.coins /\ ~s.creditReady
  \/ s.phase = "coinGap" /\ s.creditReady /\ t.phase = "start" /\ t.starts = s.starts
  \/ /\ s.phase = "coinGap" /\ ~s.creditReady /\ s.coins < MaxCoin
     /\ t.phase = "coin" /\ t.coins = s.coins + 1
  \/ s.phase = "start" /\ t.phase = "startGap" /\ t.starts = s.starts
  \/ /\ s.phase = "startGap" /\ s.starts < MaxStart
     /\ t.phase = "start" /\ t.starts = s.starts + 1
  \/ /\ t.phase = IF s.down THEN "wait" ELSE "idle"
     /\ \/ s.phase = "coinGap" /\ ~s.creditReady /\ s.coins >= MaxCoin
        \/ s.phase = "startGap" /\ s.starts >= MaxStart

\* A frame makes one of these moves and leaves the key and the credit alone.
LEMMA AdvancePhase ==
  ASSUME NEW s, Sound(s)
  PROVE  /\ Advance(s).down = s.down /\ Advance(s).creditReady = s.creditReady
         /\ AdvanceMove(s, Advance(s))
<1>0. /\ s \in Sequencer /\ s.coins \in Nat /\ s.starts \in Nat
      /\ MaxCoin \in Nat /\ MaxStart \in Nat
  BY Positive DEF Sound, Sequencer
<1>1. CASE s.phase = "wait"
  BY <1>0, <1>1 DEF Advance, Sequencer, Active, AdvanceMove
<1>2. CASE Active(s) /\ s.left > 1
  BY <1>0, <1>2 DEF Advance, Sequencer, Active, AdvanceMove
<1>3. CASE s.phase # "wait" /\ ~(Active(s) /\ s.left > 1) /\ ~(Active(s) /\ s.left = 1)
  BY <1>0, <1>3 DEF Advance, AdvanceMove
<1>4. CASE Active(s) /\ s.left = 1
  <2>0. Advance(s) = NextPhase(s)
    BY <1>4 DEF Advance, Active
  <2>1. CASE s.phase = "coin"
    BY <1>0, <2>0, <2>1 DEF NextPhase, To, Sequencer, AdvanceMove, Sound
  <2>2. CASE s.phase = "coinGap" /\ s.creditReady
    BY <1>0, <2>0, <2>2 DEF NextPhase, To, Sequencer, AdvanceMove
  <2>3. CASE s.phase = "coinGap" /\ ~s.creditReady /\ s.coins < MaxCoin
    BY <1>0, <2>0, <2>3 DEF NextPhase, To, Sequencer, AdvanceMove
  <2>4. CASE s.phase = "start"
    BY <1>0, <2>0, <2>4 DEF NextPhase, To, Sequencer, AdvanceMove
  <2>5. CASE s.phase = "startGap" /\ s.starts < MaxStart
    BY <1>0, <2>0, <2>5 DEF NextPhase, To, Sequencer, AdvanceMove
  <2>6. CASE \/ s.phase = "coinGap" /\ ~s.creditReady /\ ~(s.coins < MaxCoin)
             \/ s.phase = "startGap" /\ ~(s.starts < MaxStart)
    <3>1. NextPhase(s) = Finish(s)
      BY <2>6 DEF NextPhase
    <3>2. QED
      BY <1>0, <2>0, <2>6, <3>1 DEF Finish, Sequencer, AdvanceMove
  <2>7. QED
    BY <1>0, <1>4, <2>1, <2>2, <2>3, <2>4, <2>5, <2>6 DEF Active, Sequencer, Phase
<1>5. QED
  BY <1>1, <1>2, <1>3, <1>4

\* While the window sees the key the sample shows it, and a key that has begun its
\* sequence keeps the sequencer from going back to idle.
Held ==
  source # "quartz" =>
    /\ sample.down = key
    /\ key /\ ~fresh => seq.down /\ seq.phase # "idle"

\* A sample never makes an old press of a held key a new one.
LEMMA SampleHeld ==
  ASSUME TypeOK, source # "quartz", NEW full \in BOOLEAN, Sample(full)
  PROVE  sample'.down = key' /\ (key' /\ ~fresh' => key /\ ~fresh)
  BY DEF Sample, TypeOK

\* A poll that begins a sequence uses up the press.
LEMMA PollHeld ==
  ASSUME Ind, Held, NEW other \in SUBSET Player, Poll(other)
  PROVE  Held' /\ (source # "quartz" /\ ~Active(seq) /\ Active(seq') => fresh)
<1> DEFINE s == ApplyFeedback(seq, creditNew, startNew)
           t == Press(s, sample)
<1>1. /\ TypeOK /\ creditNew \in BOOLEAN /\ startNew \in BOOLEAN /\ fresh \in BOOLEAN
      /\ sample \in [down : BOOLEAN, pressed : BOOLEAN] /\ (sample.pressed => sample.down)
      /\ Sound(seq)
  BY SoundSeq DEF Ind, TypeOK
<1>2. Sound(s)
  BY <1>1, FeedbackSound
<1>3. /\ s.down = seq.down
      /\ \/ s.phase = IF s.down THEN "wait" ELSE "idle"
         \/ Active(seq) /\ s.phase = "coinGap"
         \/ s.phase = seq.phase
  BY <1>1, FeedbackPhase DEF Sound, Active
<1>4. s.phase = "idle" => ~s.down
  BY <1>2 DEF Sound, Settled
<1> HIDE DEF s
<1>5. /\ t.down = sample.down
      /\ \/ ~Entered(s, sample) /\ t.phase = s.phase
         \/ Entered(s, sample) /\ t.phase \in {"start", "coin"}
  BY <1>1, <1>2, PressPhase DEF Sound
<1> HIDE DEF t
<1>6. /\ seq' = t /\ fresh' = (fresh /\ ~Entered(s, sample))
      /\ UNCHANGED <<source, key, sample>>
  BY DEF Poll, s, t
<1>7. Entered(s, sample) <=> s.phase = "idle" /\ sample.down
  BY <1>1, <1>4 DEF Entered
<1>8. ASSUME source # "quartz" PROVE Held'
  <2>1. CASE Entered(s, sample)
    BY <1>5, <1>6, <1>7, <1>8, <2>1 DEF Held
  <2>2. CASE ~Entered(s, sample)
    BY <1>3, <1>5, <1>6, <1>7, <1>8, <2>2 DEF Held
  <2> QED BY <2>1, <2>2
<1>9. ASSUME source # "quartz", ~Active(seq), Active(seq') PROVE fresh
  <2>1. Entered(s, sample)
    BY <1>3, <1>5, <1>6, <1>9 DEF Active
  <2>2. key /\ s.phase = "idle"
    BY <1>7, <1>9, <2>1 DEF Held
  <2>3. QED
    BY <1>3, <1>9, <2>2, <1>4 DEF Held, Active
<1>10. QED
  BY <1>6, <1>8, <1>9 DEF Held

\* A frame begins no sequence and keeps the sequencer waiting for the release.
LEMMA FrameHeld ==
  ASSUME Ind, Held, Frame
  PROVE  Held' /\ (~Active(seq) => ~Active(seq'))
<1>1. Sound(seq) /\ TypeOK
  BY SoundSeq DEF Ind
<1>2. seq' = Advance(seq) /\ source' = source
  BY DEF Frame
<1>3. seq'.down = seq.down /\ AdvanceMove(seq, seq')
  BY <1>1, <1>2, AdvancePhase
<1>4. ASSUME source # "quartz"
      PROVE  sample'.down = key' /\ (key' /\ ~fresh' => key /\ ~fresh)
  BY <1>1, <1>4, SampleHeld DEF Frame
<1>5. seq.down /\ seq.phase # "idle" => seq'.phase # "idle"
  BY <1>3 DEF AdvanceMove
<1>6. ~Active(seq) => ~Active(seq')
  BY <1>3 DEF AdvanceMove, Active
<1>7. QED
  BY <1>2, <1>3, <1>4, <1>5, <1>6 DEF Held

\* No step begins a sequence without a press to begin it.
LEMMA HeldStep ==
  ASSUME Ind, Held, [Next]_vars
  PROVE  Held' /\ (source # "quartz" /\ ~Active(seq) /\ Active(seq') => fresh)
<1>1. CASE IdlePoll
  BY <1>1 DEF IdlePoll, Held
<1>2. CASE \E other \in SUBSET Player : Poll(other)
  BY <1>2, PollHeld
<1>3. CASE Run
  <2>1. seq' = seq /\ source' = source
    BY <1>3 DEF Run
  <2>2. CASE UNCHANGED <<key, sample, fresh>>
    BY <2>1, <2>2 DEF Held
  <2>3. CASE \E full \in BOOLEAN : Sample(full)
    BY <2>1, <2>3, SampleHeld DEF Held, Ind
  <2>4. QED
    BY <1>3, <2>1, <2>2, <2>3 DEF Run
<1>4. CASE Frame
  BY <1>4, FrameHeld
<1>5. CASE UNCHANGED vars
  BY <1>5 DEF vars, Held
<1>6. QED
  BY <1>1, <1>2, <1>3, <1>4, <1>5 DEF Next

\* While the window sees the key, a sequence begins only for a press that began none
\* yet, for every length of the phases and however a frame is cut into slices.
THEOREM OnePress == Spec => OnePressOneSequence
<1>1. Init => Ind /\ Held
  <2>1. ASSUME Init PROVE Held
    <3>1. key = FALSE /\ sample.down = FALSE
      BY <2>1 DEF Init, NoKey
    <3>2. QED
      BY <3>1 DEF Held
  <2>2. QED
    BY <2>1, InitInd
<1>2. Ind /\ Held /\ [Next]_vars =>
        (Ind /\ Held)' /\ (source # "quartz" /\ ~Active(seq) /\ Active(seq') => fresh)
  BY StepInd, HeldStep
<1>3. QED
  BY <1>1, <1>2, PTL DEF Spec, OnePressOneSequence
-----------------------------------------------------------------------------
(***************************************************************************)
(* No sequence is given up early.                                          *)
(***************************************************************************)

\* The pulses p made so far are at least those the sequencer s has counted.
Tried(s, p) ==
  /\ s.phase = "coin" \/ (s.phase = "coinGap" /\ ~s.creditReady) => s.coins <= p.coin
  /\ s.phase = "coinGap" /\ s.creditReady => s.starts <= 1
  /\ s.phase \in {"start", "startGap"} => s.starts <= p.start

Pulses == [coin : 0..MaxCoin, start : 0..MaxStart]

\* A session the next poll will see has been accepted since the sequence began.
Earned == Tried(seq, pulses) /\ (startNew => session)

\* A pulse that is counted is made, and the clock ends a sequence only after the last.
LEMMA AdvanceTried ==
  ASSUME NEW s, Sound(s), NEW p \in Pulses, Tried(s, p)
  PROVE  /\ Tried(Advance(s), Counted(p, s, Advance(s)))
         /\ Active(s) /\ ~Active(Advance(s)) => p.coin = MaxCoin \/ p.start = MaxStart
<1> DEFINE t == Advance(s)
           q == Counted(p, s, t)
<1>0. /\ s.coins \in 0..MaxCoin /\ s.starts \in 0..MaxStart /\ s.phase \in Phase
      /\ p.coin \in 0..MaxCoin /\ p.start \in 0..MaxStart
      /\ MaxCoin \in Nat /\ MaxCoin > 0 /\ MaxStart \in Nat /\ MaxStart > 0
  BY Positive DEF Sound, Sequencer, Pulses
<1>1. t.creditReady = s.creditReady /\ AdvanceMove(s, t)
  BY AdvancePhase
<1> HIDE DEF t
<1>2. Active(t) =>
        /\ q.coin = Least(p.coin + (IF t.phase = "coin" /\ s.phase # "coin" THEN 1 ELSE 0),
                         MaxCoin)
        /\ q.start = Least(p.start + (IF t.phase = "start" /\ s.phase # "start" THEN 1 ELSE 0),
                          MaxStart)
  BY DEF Counted
<1> HIDE DEF q
<1>3. Active(t) =>
        q.coin >= p.coin /\ q.start >= p.start /\ q.coin \in Nat /\ q.start \in Nat
  BY <1>0, <1>2 DEF Least
<1>4. Tried(t, q)
  <2>1. CASE t.phase \in {"wait", "idle"}
    BY <2>1 DEF Tried
  <2>2. CASE t.phase = s.phase /\ t.coins = s.coins /\ t.starts = s.starts
    BY <1>0, <1>1, <1>3, <2>2 DEF Tried, Active
  <2>3. CASE s.phase = "coin" /\ t.phase = "coinGap" /\ t.coins = s.coins /\ ~s.creditReady
    BY <1>0, <1>1, <1>3, <2>3 DEF Tried, Active
  <2>4. CASE s.phase = "coinGap" /\ s.creditReady /\ t.phase = "start" /\ t.starts = s.starts
    BY <1>0, <1>1, <1>2, <2>4 DEF Tried, Active, Least
  <2>5. CASE /\ s.phase = "coinGap" /\ ~s.creditReady /\ s.coins < MaxCoin
             /\ t.phase = "coin" /\ t.coins = s.coins + 1
    BY <1>0, <1>1, <1>2, <2>5 DEF Tried, Active, Least
  <2>6. CASE s.phase = "start" /\ t.phase = "startGap" /\ t.starts = s.starts
    BY <1>0, <1>1, <1>3, <2>6 DEF Tried, Active
  <2>7. CASE /\ s.phase = "startGap" /\ s.starts < MaxStart
             /\ t.phase = "start" /\ t.starts = s.starts + 1
    BY <1>0, <1>1, <1>2, <2>7 DEF Tried, Active, Least
  <2>8. QED
    BY <1>1, <2>1, <2>2, <2>3, <2>4, <2>5, <2>6, <2>7 DEF AdvanceMove
<1>5. ASSUME Active(s), ~Active(t) PROVE p.coin = MaxCoin \/ p.start = MaxStart
  <2>1. \/ s.phase = "coinGap" /\ ~s.creditReady /\ s.coins >= MaxCoin
        \/ s.phase = "startGap" /\ s.starts >= MaxStart
    BY <1>1, <1>5 DEF AdvanceMove, Active
  <2>2. QED
    BY <1>0, <2>1 DEF Tried
<1>6. QED
  BY <1>4, <1>5 DEF t, q

\* A poll ends a sequence only on a session that was accepted since it began.
LEMMA PollEarned ==
  ASSUME Ind, Earned, NEW other \in SUBSET Player, Poll(other)
  PROVE  Earned' /\ (Active(seq) /\ ~Active(seq') => session)
<1> DEFINE s == ApplyFeedback(seq, creditNew, startNew)
           t == Press(s, sample)
           b == IF Entered(s, sample) THEN NoPulse ELSE pulses
           q == Counted(b, s, t)
<1>1. /\ TypeOK /\ creditNew \in BOOLEAN /\ startNew \in BOOLEAN
      /\ sample \in [down : BOOLEAN, pressed : BOOLEAN] /\ Sound(seq)
      /\ pulses.coin \in 0..MaxCoin /\ pulses.start \in 0..MaxStart
      /\ MaxCoin \in Nat /\ MaxCoin > 0 /\ MaxStart \in Nat /\ MaxStart > 0
  BY SoundSeq, Positive DEF Ind, TypeOK
<1>2. Sound(s) /\ s.coins \in Nat /\ s.starts \in Nat
  <2>1. Sound(s)
    BY <1>1, FeedbackSound
  <2>2. QED
    BY <2>1 DEF Sound, Sequencer
<1>3. \/ startNew /\ s.phase \in {"wait", "idle"}
      \/ s.phase = "coinGap" /\ s.creditReady /\ s.starts = 1
      \/ /\ s.phase = seq.phase /\ s.coins = seq.coins /\ s.starts = seq.starts
         /\ seq.phase \in {"coin", "coinGap"} => s.creditReady = seq.creditReady
  BY <1>1, FeedbackPhase DEF Sound
<1>4. Tried(s, pulses)
  BY <1>2, <1>3 DEF Tried, Earned
<1> HIDE DEF s
<1>5. /\ t.creditReady = s.creditReady
      /\ \/ /\ ~Entered(s, sample)
            /\ t.phase = s.phase /\ t.coins = s.coins /\ t.starts = s.starts
         \/ Entered(s, sample) /\ t.phase = "start" /\ t.starts = 1
         \/ Entered(s, sample) /\ t.phase = "coin" /\ t.coins = 1
  BY <1>1, <1>2, PressPhase DEF Sound
<1> HIDE DEF t
<1>6. /\ seq' = t /\ pulses' = q /\ startNew' = FALSE
  BY DEF Poll, s, t, q, b
<1>7. Active(t) =>
        /\ q.coin = Least(b.coin + (IF t.phase = "coin" /\ s.phase # "coin" THEN 1 ELSE 0),
                         MaxCoin)
        /\ q.start = Least(b.start + (IF t.phase = "start" /\ s.phase # "start" THEN 1 ELSE 0),
                          MaxStart)
  BY DEF Counted
<1> HIDE DEF q
<1>8. Tried(t, q)
  <2>1. CASE ~Entered(s, sample)
    <3>1. b = pulses /\ t.phase = s.phase /\ t.coins = s.coins /\ t.starts = s.starts
      BY <1>5, <2>1
    <3>2. Active(t) => q.coin = pulses.coin /\ q.start = pulses.start
      BY <1>1, <1>7, <3>1 DEF Least
    <3>3. QED
      BY <1>4, <1>5, <3>1, <3>2 DEF Tried, Active
  <2>2. CASE Entered(s, sample)
    <3>1. b.coin = 0 /\ b.start = 0 /\ s.phase = "idle"
      BY <2>2 DEF NoPulse, Entered
    <3>2. QED
      BY <1>1, <1>5, <1>7, <2>2, <3>1 DEF Tried, Least, Active
  <2> QED BY <2>1, <2>2
<1>9. Active(seq) /\ ~Active(seq') => startNew
  BY <1>3, <1>5, <1>6 DEF Active
<1>10. QED
  BY <1>6, <1>8, <1>9 DEF Earned

\* No step ends a sequence for less.
LEMMA EarnedStep ==
  ASSUME Ind, Earned, [Next]_vars
  PROVE  Earned' /\ (Active(seq) /\ ~Active(seq') =>
                       session \/ pulses.coin = MaxCoin \/ pulses.start = MaxStart)
<1>1. CASE IdlePoll
  BY <1>1 DEF IdlePoll, Earned
<1>2. CASE \E other \in SUBSET Player : Poll(other)
  BY <1>2, PollEarned
<1>3. CASE Run
  <2>1. seq' = seq /\ pulses' = pulses
    BY <1>3 DEF Run
  <2>2. startNew' => session'
    <3>1. ASSUME NEW player \in Player, CreditCheck(player) PROVE startNew' => session'
      <4> DEFINE price == guest.price[1]
                 slot == Slot(guest, player)
                 funds == Coins(guest, slot, guest.pending[player], price)
                 accepted == guest.freeplay \/ funds >= price
                 left == IF accepted /\ ~guest.freeplay THEN funds - price ELSE funds
                 spent == left < guest.funds[slot]
      <4>1. /\ startNew' = (startNew \/ (accepted /\ (guest.freeplay \/ spent)))
            /\ session' = (session \/ accepted)
        BY <3>1 DEF CreditCheck
      <4> HIDE DEF accepted, spent
      <4>2. QED
        BY <4>1 DEF Earned
    <3>2. CASE Adapter \/ GetReady \/ Idles
      BY <3>2 DEF Adapter, GetReady, Idles, Earned
    <3>3. QED
      BY <1>3, <3>1, <3>2 DEF Run
  <2>3. QED
    BY <2>1, <2>2 DEF Earned
<1>4. CASE Frame
  <2>1. Sound(seq) /\ pulses \in Pulses /\ Tried(seq, pulses)
    BY SoundSeq DEF Ind, TypeOK, Pulses, Earned
  <2>2. /\ seq' = Advance(seq) /\ pulses' = Counted(pulses, seq, seq')
        /\ startNew' = startNew /\ session' = session
    BY <1>4 DEF Frame
  <2>3. QED
    BY <2>1, <2>2, AdvanceTried DEF Earned
<1>5. CASE UNCHANGED vars
  BY <1>5 DEF vars, Earned
<1>6. QED
  BY <1>1, <1>2, <1>3, <1>4, <1>5 DEF Next

\* A sequence ends because the guest accepted a session since it began, or after all
\* the pulses it may try, for every number of attempts.
THEOREM NoEarlyEnd == Spec => EndsForCause
<1>1. Init => Ind /\ Earned
  <2>1. Init => Earned
    BY DEF Init, Earned, Tried
  <2>2. QED
    BY <2>1, InitInd
<1>2. Ind /\ Earned /\ [Next]_vars =>
        (Ind /\ Earned)' /\ (Active(seq) /\ ~Active(seq') =>
                               session \/ pulses.coin = MaxCoin \/ pulses.start = MaxStart)
  BY StepInd, EarnedStep
<1>3. QED
  BY <1>1, <1>2, PTL DEF Spec, EndsForCause
=============================================================================
