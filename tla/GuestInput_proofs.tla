-------------------------- MODULE GuestInput_proofs --------------------------
(***************************************************************************)
(* The way of a key press for any buttons, groups, latch length and packet *)
(* sizes.                                                                  *)
(***************************************************************************)
EXTENDS GuestInput, SequenceTheorems, TLAPS

(***************************************************************************)
(* The latch.                                                              *)
(***************************************************************************)

LatchType == [level : [Levels -> SUBSET Button], left : [Levels -> 0..LatchFrames],
              edge : SUBSET Edge, edgeLeft : 0..LatchFrames, previous : SUBSET Edge]

LatchOK(l) ==
  /\ l \in LatchType
  /\ \A g \in Levels : l.level[g] \subseteq g /\ (l.left[g] > 0 <=> l.level[g] # {})
  /\ l.edgeLeft > 0 <=> l.edge # {}

DueType == [Button -> 0..LatchFrames]

\* What is due is latched, for at least as many frames.
Backed(d, l) ==
  \A b \in Button : d[b] > 0 =>
    /\ b \in Edge => b \in l.edge /\ d[b] <= l.edgeLeft
    /\ \A g \in Levels : b \in g => b \in l.level[g] /\ d[b] <= l.left[g]

\* A button is a press or of a group, and not both.
LEMMA Buttons ==
  /\ LatchFrames \in Nat /\ LatchFrames > 0
  /\ Edge \subseteq Button
  /\ \A g \in Levels : g \subseteq Button /\ g \cap Edge = {}
  /\ \A b \in Button : b \in Edge \/ \E g \in Levels : b \in g
<1>1. LatchFrames \in Nat /\ LatchFrames > 0
  BY InputConstants
<1>2. Edge \subseteq Button
  BY DEF Button
<1>3. ASSUME NEW g \in Levels PROVE g \subseteq Button /\ g \cap Edge = {}
  BY InputConstants DEF Button
<1>4. ASSUME NEW b \in Button PROVE b \in Edge \/ \E g \in Levels : b \in g
  BY DEF Button
<1> QED BY <1>1, <1>2, <1>3, <1>4

\* Latching keeps the latch in shape.
LEMMA LatchedOK ==
  ASSUME NEW l, LatchOK(l), NEW current \in SUBSET Button
  PROVE  LatchOK(Latched(l, current))
<1> DEFINE n == Latched(l, current)
           rising == (current \cap Edge) \ l.previous
<1>1. /\ l.level \in [Levels -> SUBSET Button] /\ l.left \in [Levels -> 0..LatchFrames]
      /\ l.edge \subseteq Edge /\ l.edgeLeft \in 0..LatchFrames
      /\ \A g \in Levels : l.level[g] \subseteq g /\ (l.left[g] > 0 <=> l.level[g] # {})
      /\ l.edgeLeft > 0 <=> l.edge # {}
  BY DEF LatchOK, LatchType
<1>2. /\ n.level = [g \in Levels |-> IF current \cap g # {} THEN current \cap g ELSE l.level[g]]
      /\ n.left = [g \in Levels |-> IF current \cap g # {} THEN LatchFrames ELSE l.left[g]]
      /\ n.edge = l.edge \cup rising
      /\ n.edgeLeft = IF rising # {} THEN LatchFrames ELSE l.edgeLeft
      /\ n.previous = current \cap Edge
      /\ n = [level |-> n.level, left |-> n.left, edge |-> n.edge,
              edgeLeft |-> n.edgeLeft, previous |-> n.previous]
  BY DEF Latched
<1> HIDE DEF n
<1>3. ASSUME NEW g \in Levels
      PROVE  n.level[g] \subseteq g /\ (n.left[g] > 0 <=> n.level[g] # {})
  <2>1. CASE current \cap g # {}
    <3>1. n.level[g] = current \cap g /\ n.left[g] = LatchFrames
      BY <1>2, <2>1
    <3> QED BY <2>1, <3>1, Buttons
  <2>2. CASE current \cap g = {}
    <3>1. n.level[g] = l.level[g] /\ n.left[g] = l.left[g]
      BY <1>2, <2>2
    <3> QED BY <1>1, <3>1
  <2> QED BY <2>1, <2>2
<1>4. n.edgeLeft > 0 <=> n.edge # {}
  BY <1>1, <1>2, Buttons
<1>5. /\ n.level \in [Levels -> SUBSET Button] /\ n.left \in [Levels -> 0..LatchFrames]
      /\ n.edge \in SUBSET Edge /\ n.edgeLeft \in 0..LatchFrames /\ n.previous \in SUBSET Edge
  BY <1>1, <1>2, Buttons
<1>6. n \in LatchType
  BY <1>2, <1>5 DEF LatchType
<1> QED BY <1>3, <1>4, <1>6 DEF LatchOK, n

\* And so does a frame.
LEMMA AdvancedOK ==
  ASSUME NEW l, LatchOK(l)
  PROVE  /\ LatchOK(Advanced(l)) /\ Advanced(l).previous = l.previous
<1> DEFINE n == Advanced(l)
<1>1. /\ l \in LatchType
      /\ l.level \in [Levels -> SUBSET Button] /\ l.left \in [Levels -> 0..LatchFrames]
      /\ l.edge \subseteq Edge /\ l.edgeLeft \in 0..LatchFrames
      /\ \A g \in Levels : l.level[g] \subseteq g /\ (l.left[g] > 0 <=> l.level[g] # {})
      /\ l.edgeLeft > 0 <=> l.edge # {}
  BY DEF LatchOK, LatchType
<1>2. /\ n.level = [g \in Levels |-> IF l.left[g] = 1 THEN {} ELSE l.level[g]]
      /\ n.left = [g \in Levels |-> Less(l.left[g])]
      /\ n.edge = IF l.edgeLeft = 1 THEN {} ELSE l.edge
      /\ n.edgeLeft = Less(l.edgeLeft)
      /\ n.previous = l.previous
      /\ n = [l EXCEPT !.left = n.left, !.level = n.level,
                       !.edgeLeft = n.edgeLeft, !.edge = n.edge]
  BY <1>1 DEF Advanced, LatchType
<1> HIDE DEF n
<1>4. ASSUME NEW g \in Levels
      PROVE  n.level[g] \subseteq g /\ (n.left[g] > 0 <=> n.level[g] # {})
  <2>1. l.left[g] \in 0..LatchFrames
    BY <1>1
  <2> QED BY <1>1, <1>2, <2>1, Buttons DEF Less
<1>5. n.edgeLeft > 0 <=> n.edge # {}
  BY <1>1, <1>2, Buttons DEF Less
<1>6. n.left \in [Levels -> 0..LatchFrames]
  <2>1. ASSUME NEW g \in Levels PROVE Less(l.left[g]) \in 0..LatchFrames
    BY <1>1, Buttons DEF Less
  <2> QED BY <1>2, <2>1
<1>7. /\ n.level \in [Levels -> SUBSET Button]
      /\ n.edge \in SUBSET Edge /\ n.edgeLeft \in 0..LatchFrames
  BY <1>1, <1>2, Buttons DEF Less
<1>8. n \in LatchType
  BY <1>1, <1>2, <1>6, <1>7 DEF LatchType
<1> QED BY <1>2, <1>4, <1>5, <1>8 DEF LatchOK, n

\* What a frame leaves due, the latch still holds after it.
LEMMA AdvancedBacks ==
  ASSUME NEW l, LatchOK(l), NEW d \in DueType, Backed(d, l)
  PROVE  /\ [b \in Button |-> Less(d[b])] \in DueType
         /\ Backed([b \in Button |-> Less(d[b])], Advanced(l))
<1> DEFINE n == Advanced(l)
           e == [b \in Button |-> Less(d[b])]
<1>1. /\ l \in LatchType
      /\ l.level \in [Levels -> SUBSET Button] /\ l.left \in [Levels -> 0..LatchFrames]
      /\ l.edgeLeft \in 0..LatchFrames
  BY DEF LatchOK, LatchType
<1>2. /\ n.level = [g \in Levels |-> IF l.left[g] = 1 THEN {} ELSE l.level[g]]
      /\ n.left = [g \in Levels |-> Less(l.left[g])]
      /\ n.edge = IF l.edgeLeft = 1 THEN {} ELSE l.edge
      /\ n.edgeLeft = Less(l.edgeLeft)
  BY <1>1 DEF Advanced, LatchType
<1>3. \A b \in Button : d[b] \in 0..LatchFrames /\ e[b] = Less(d[b])
  BY DEF DueType
<1>4. e \in DueType
  <2>1. ASSUME NEW b \in Button PROVE Less(d[b]) \in 0..LatchFrames
    BY <1>3, Buttons DEF Less
  <2> QED BY <2>1 DEF DueType
<1> HIDE DEF n, e
<1>5. ASSUME NEW b \in Button, e[b] > 0
      PROVE  /\ b \in Edge => b \in n.edge /\ e[b] <= n.edgeLeft
             /\ \A g \in Levels : b \in g => b \in n.level[g] /\ e[b] <= n.left[g]
  <2>1. d[b] \in Nat /\ d[b] > 1 /\ e[b] = d[b] - 1
    BY <1>3, <1>5, Buttons DEF Less
  <2>2. ASSUME b \in Edge PROVE b \in n.edge /\ e[b] <= n.edgeLeft
    <3>1. b \in l.edge /\ d[b] <= l.edgeLeft
      BY <2>1, <2>2 DEF Backed
    <3> QED BY <1>1, <1>2, <2>1, <3>1, Buttons DEF Less
  <2>3. ASSUME NEW g \in Levels, b \in g PROVE b \in n.level[g] /\ e[b] <= n.left[g]
    <3>1. b \in l.level[g] /\ d[b] <= l.left[g]
      BY <2>1, <2>3 DEF Backed
    <3>2. l.left[g] \in 0..LatchFrames
      BY <1>1
    <3> QED BY <1>2, <2>1, <3>1, <3>2, Buttons DEF Less
  <2> QED BY <2>2, <2>3
<1>6. Backed(e, n)
  BY <1>5 DEF Backed
<1> QED BY <1>4, <1>6 DEF n, e

\* What a poll makes due keeps within the latch's frames.
LEMMA DueAfterType ==
  ASSUME NEW d \in DueType, NEW current \in SUBSET Button
  PROVE  DueAfter(d, current) \in DueType
<1>1. ASSUME NEW b \in Button PROVE DueAfter(d, current)[b] \in 0..LatchFrames
  BY Buttons DEF DueAfter, DueType
<1> QED BY <1>1 DEF DueAfter, DueType

\* What a poll makes due, the latch holds after it, if it saw every release that
\* was sampled but the ones noted as unseen.
LEMMA LatchedBacks ==
  ASSUME NEW l, LatchOK(l), NEW d \in DueType, Backed(d, l), NEW current \in SUBSET Button,
         l.previous \subseteq sampled \cup unseen
  PROVE  Backed(DueAfter(d, current), Latched(l, current))
<1> DEFINE n == Latched(l, current)
           e == DueAfter(d, current)
           rising == (current \cap Edge) \ l.previous
<1>1. /\ l.level \in [Levels -> SUBSET Button] /\ l.left \in [Levels -> 0..LatchFrames]
      /\ l.edgeLeft \in 0..LatchFrames
  BY DEF LatchOK, LatchType
<1>2. /\ n.level = [g \in Levels |-> IF current \cap g # {} THEN current \cap g ELSE l.level[g]]
      /\ n.left = [g \in Levels |-> IF current \cap g # {} THEN LatchFrames ELSE l.left[g]]
      /\ n.edge = l.edge \cup rising
      /\ n.edgeLeft = IF rising # {} THEN LatchFrames ELSE l.edgeLeft
  BY DEF Latched
<1> HIDE DEF n
<1>3. ASSUME NEW b \in Button, b \in Edge, e[b] > 0
      PROVE  b \in n.edge /\ e[b] <= n.edgeLeft
  <2>1. CASE b \in current \ (sampled \cup unseen)
    <3>1. b \in rising /\ e[b] = LatchFrames
      BY <1>3, <2>1 DEF DueAfter
    <3> QED BY <1>2, <3>1, Buttons
  <2>2. CASE b \notin current \ (sampled \cup unseen)
    <3>1. e[b] = d[b] /\ d[b] \in 0..LatchFrames
      BY <1>3, <2>2 DEF DueAfter, DueType
    <3>2. b \in l.edge /\ d[b] <= l.edgeLeft
      BY <1>3, <3>1 DEF Backed
    <3> QED BY <1>1, <1>2, <3>1, <3>2, Buttons
  <2> QED BY <2>1, <2>2
<1>4. ASSUME NEW b \in Button, NEW g \in Levels, b \in g, e[b] > 0
      PROVE  b \in n.level[g] /\ e[b] <= n.left[g]
  <2>1. b \notin Edge
    BY <1>4, Buttons
  <2>2. CASE b \in current
    <3>1. e[b] = LatchFrames
      BY <2>1, <2>2 DEF DueAfter
    <3> QED BY <1>2, <1>4, <2>2, <3>1, Buttons
  <2>3. CASE b \notin current
    <3>1. /\ ~ \E h \in Levels : b \in h /\ h \cap current # {}
          /\ e[b] = d[b]
      BY <1>4, <2>1, <2>3 DEF DueAfter
    <3>2. b \in l.level[g] /\ d[b] <= l.left[g]
      BY <1>4, <3>1 DEF Backed
    <3> QED BY <1>2, <1>4, <3>1, <3>2
  <2> QED BY <2>2, <2>3
<1>5. Backed(e, n)
  BY <1>3, <1>4 DEF Backed
<1> QED BY <1>5 DEF n

\* An idle latch has nothing due, and a poll without a key makes nothing due.
LEMMA IdleBacks ==
  ASSUME NEW l, LatchOK(l), LatchIdle(l), NEW d \in DueType, Backed(d, l)
  PROVE  Backed(DueAfter(d, {}), l)
<1>1. ASSUME NEW b \in Button PROVE d[b] = 0
  <2>1. ~(d[b] > 0)
    BY Buttons DEF Backed, LatchIdle
  <2> QED BY <2>1, Buttons DEF DueType
<1>2. ASSUME NEW b \in Button PROVE DueAfter(d, {})[b] = 0
  BY <1>1 DEF DueAfter
<1> QED BY <1>2 DEF Backed

\* An idle latch holds no button.
LEMMA IdleHolds ==
  ASSUME NEW l, LatchIdle(l) PROVE Held(l) = {}
  BY DEF LatchIdle, Held

\* What a latch in shape holds are buttons, and what it backs is among them.
LEMMA HeldButtons ==
  ASSUME NEW l, LatchOK(l)
  PROVE  /\ Held(l) \in SUBSET Button
         /\ \A d \in DueType : Backed(d, l) => \A b \in Button : d[b] > 0 => b \in Held(l)
<1>1. l.edge \subseteq Edge /\ \A g \in Levels : l.level[g] \subseteq Button
  BY Buttons DEF LatchOK, LatchType
<1>2. Held(l) \in SUBSET Button
  BY <1>1, Buttons DEF Held
<1>3. ASSUME NEW d \in DueType, Backed(d, l), NEW b \in Button, d[b] > 0
      PROVE  b \in Held(l)
  <2>1. CASE b \in Edge
    BY <1>3, <2>1 DEF Backed, Held
  <2>2. CASE b \notin Edge
    <3>1. PICK g \in Levels : b \in g
      BY <2>2, Buttons
    <3>2. b \in l.level[g]
      BY <1>3, <3>1 DEF Backed
    <3> QED BY <3>2 DEF Held
  <2> QED BY <2>1, <2>2
<1> QED BY <1>2, <1>3

-----------------------------------------------------------------------------
(***************************************************************************)
(* The loop.                                                               *)
(***************************************************************************)

\* The loop's part of the state: what is due is latched, what is latched is given
\* to the guest, and the latch knows of every press that is down, or its release
\* went unseen.
Loop ==
  /\ LatchOK(latch) /\ input = Held(latch)
  /\ due \in DueType /\ Backed(due, latch)
  /\ latch.previous \subseteq sampled \cup unseen
  /\ sampled \in SUBSET Edge /\ unseen \in SUBSET Edge

\* A poll, whether or not a frame passed before it.
LEMMA PollLoop ==
  ASSUME NEW l, LatchOK(l), NEW d \in DueType, Backed(d, l),
         l.previous \subseteq sampled \cup unseen,
         sampled \in SUBSET Edge, unseen \in SUBSET Edge,
         NEW current \in SUBSET Button, Poll(l, current), due' = DueAfter(d, current)
  PROVE  Loop'
<1>1. due' \in DueType
  BY DueAfterType
<1>2. sampled' = current \cap Edge
  BY DEF Poll
<1>3. CASE FastPath(l, current)
  <2>1. latch' = l /\ input' = {} /\ unseen' = unseen \cup l.previous /\ current = {}
    BY <1>3 DEF Poll, Give, FastPath
  <2>2. LatchIdle(l)
    BY <1>3 DEF FastPath
  <2>3. Backed(due', latch') /\ input' = Held(latch')
    BY <2>1, <2>2, IdleBacks, IdleHolds
  <2>4. l.previous \in SUBSET Edge
    BY DEF LatchOK, LatchType
  <2> QED BY <1>1, <1>2, <2>1, <2>3, <2>4 DEF Loop
<1>4. CASE ~FastPath(l, current)
  <2>1. latch' = Latched(l, current) /\ input' = Held(latch') /\ unseen' = unseen \cap current
    BY <1>4 DEF Poll, Give
  <2>2. LatchOK(latch') /\ Backed(due', latch')
    BY <2>1, LatchedOK, LatchedBacks
  <2>3. latch'.previous = current \cap Edge
    BY <2>1 DEF Latched
  <2> QED BY <1>1, <1>2, <2>1, <2>2, <2>3 DEF Loop
<1> QED BY <1>3, <1>4

\* A slice: the poll after it.
LEMMA SliceLoop ==
  ASSUME Loop, NEW current \in SUBSET Button, NextSlice(current)
  PROVE  Loop'
  BY PollLoop DEF Loop, NextSlice

\* A frame: the latch has counted it when the poll comes.
LEMMA FrameLoop ==
  ASSUME Loop, NEW current \in SUBSET Button, NextFrame(current)
  PROVE  Loop'
<1> DEFINE d == [b \in Button |-> Less(due[b])]
           l == Advanced(latch)
<1>1. d \in DueType /\ Backed(d, l)
  BY AdvancedBacks DEF Loop
<1>2. LatchOK(l) /\ l.previous = latch.previous
  BY AdvancedOK DEF Loop
<1>3. Poll(l, current) /\ due' = DueAfter(d, current)
  BY DEF NextFrame
<1> HIDE DEF d, l
<1> QED BY <1>1, <1>2, <1>3, PollLoop DEF Loop

-----------------------------------------------------------------------------
(***************************************************************************)
(* The serial port.                                                        *)
(***************************************************************************)

SerialType == [line : {"cat702", "none", "mcu"}, mode : Mode, index : Nat,
               payload : SUBSET Button, slot : {1, 2}, padIndex : 0..5,
               padState : SUBSET Button, padSlot : {1, 2}]

PacketRecord == [input : SUBSET Button, slot : {1, 2}, bytes : Seq(Byte)]

SerialOK(s) ==
  /\ s \in SerialType
  /\ s.index <= DataBytes[s.mode] + 1
  /\ s.line # "mcu" => s.index = 0 /\ s.payload = {} /\ s.mode = "digital"

Header == [kind |-> "header", buttons |-> {}]
Data(buttons) == [kind |-> "data", buttons |-> buttons]

\* The packet p of the MCU, as far as the guest has read it when the port is s.
McuInv(s, p) ==
  /\ s.line # "mcu" => p.bytes = <<>>
  /\ \/ Len(p.bytes) = s.index
     \/ s.index = 0 /\ Len(p.bytes) = DataBytes[s.mode] + 1
  /\ s.index \in 1..DataBytes[s.mode] => s.payload = Payload(s.mode, p.input)
  /\ \A i \in 1..Len(p.bytes) :
       p.bytes[i] = IF i = 1 THEN Header ELSE Data(Payload(s.mode, p.input))

\* The packet p of a pad.
PadInv(s, p) ==
  /\ s.padIndex = Len(p.bytes)
  /\ p.bytes # <<>> => s.padState = p.input /\ s.padSlot = p.slot
  /\ 4 \in 1..Len(p.bytes) => p.bytes[4].buttons = OfPlayer(p.slot, p.input) \cap Low
  /\ 5 \in 1..Len(p.bytes) => p.bytes[5].buttons = OfPlayer(p.slot, p.input) \ Low

Port ==
  /\ SerialOK(serial)
  /\ packet \in [{"mcu", "pad"} -> PacketRecord]
  /\ McuInv(serial, packet["mcu"])
  /\ PadInv(serial, packet["pad"])

\* The packets have bytes.
LEMMA Packets ==
  /\ "digital" \in Mode
  /\ \A m \in Mode : DataBytes[m] \in Nat /\ DataBytes[m] > 0
  BY InputConstants

\* Payloads are buttons.
LEMMA PayloadButtons ==
  ASSUME NEW mode, NEW buttons \in SUBSET Button
  PROVE  Payload(mode, buttons) \in SUBSET Button
  BY DEF Payload

\* The MCU at another byte of its packet.
Moved(s, index, payload) == [s EXCEPT !.index = index, !.payload = payload]

\* It is a state of the port, and the rest of it stays.
LEMMA MovedOK ==
  ASSUME NEW s \in SerialType, NEW index \in Nat, NEW payload \in SUBSET Button,
         NEW r, r = Moved(s, index, payload)
  PROVE  /\ r \in SerialType
         /\ r.index = index /\ r.payload = payload /\ r.line = s.line /\ r.mode = s.mode
         /\ r.padIndex = s.padIndex /\ r.padState = s.padState /\ r.padSlot = s.padSlot
<1>1. r \in SerialType
  <2>1. /\ s.line \in {"cat702", "none", "mcu"} /\ s.mode \in Mode /\ s.slot \in {1, 2}
        /\ s.padIndex \in 0..5 /\ s.padState \in SUBSET Button /\ s.padSlot \in {1, 2}
    BY DEF SerialType
  <2>2. r = [line |-> s.line, mode |-> s.mode, index |-> index, payload |-> payload,
             slot |-> s.slot, padIndex |-> s.padIndex, padState |-> s.padState,
             padSlot |-> s.padSlot]
    BY DEF SerialType, Moved
  <2> QED BY <2>1, <2>2 DEF SerialType
<1>2. r.index = index /\ r.payload = payload
  BY DEF SerialType, Moved
<1>3. r.line = s.line /\ r.mode = s.mode /\ r.padIndex = s.padIndex
  BY DEF SerialType, Moved
<1>4. r.padState = s.padState /\ r.padSlot = s.padSlot
  BY DEF SerialType, Moved
<1> QED BY <1>1, <1>2, <1>3, <1>4

\* The packets of the pads begin anew, in the slot.
LEMMA PadRestarted ==
  ASSUME NEW s \in SerialType, NEW slot \in {1, 2},
         NEW r, r = [s EXCEPT !.padIndex = 0, !.slot = slot]
  PROVE  /\ r \in SerialType
         /\ r.index = s.index /\ r.payload = s.payload /\ r.line = s.line /\ r.mode = s.mode
         /\ r.padIndex = 0
<1>1. r \in SerialType
  <2>1. /\ s.line \in {"cat702", "none", "mcu"} /\ s.mode \in Mode /\ s.index \in Nat
        /\ s.payload \in SUBSET Button /\ s.padState \in SUBSET Button /\ s.padSlot \in {1, 2}
    BY DEF SerialType
  <2>2. r = [line |-> s.line, mode |-> s.mode, index |-> s.index, payload |-> s.payload,
             slot |-> slot, padIndex |-> 0, padState |-> s.padState, padSlot |-> s.padSlot]
    BY DEF SerialType
  <2> QED BY <2>1, <2>2 DEF SerialType
<1>2. r.index = s.index /\ r.payload = s.payload /\ r.padIndex = 0
  BY DEF SerialType
<1>3. r.line = s.line /\ r.mode = s.mode
  BY DEF SerialType
<1> QED BY <1>1, <1>2, <1>3

\* A packet not begun is in order.
LEMMA NoPacketOK ==
  /\ NoPacket \in PacketRecord
  /\ \A s : s.index = 0 => McuInv(s, NoPacket)
  /\ \A s : s.padIndex = 0 => PadInv(s, NoPacket)
<1>1. NoPacket.bytes = <<>> /\ Len(NoPacket.bytes) = 0 /\ NoPacket \in PacketRecord
  BY DEF NoPacket, PacketRecord
<1>2. ASSUME NEW s, s.index = 0 PROVE McuInv(s, NoPacket)
  BY <1>1, <1>2 DEF McuInv
<1>3. ASSUME NEW s, s.padIndex = 0 PROVE PadInv(s, NoPacket)
  BY <1>1, <1>3 DEF PadInv
<1> QED BY <1>1, <1>2, <1>3

\* New buttons between two packets leave the bytes read alone.
LEMMA GivePort ==
  ASSUME Port, NEW buttons \in SUBSET Button, serial' = WithInput(serial, buttons),
         packet' = packet
  PROVE  Port'
<1>1. CASE serial' = serial
  BY <1>1 DEF Port
<1>2. CASE serial' # serial
  <2> DEFINE payload == Payload(serial.mode, buttons)
             p == packet["mcu"]
  <2>1. /\ serial.line = "mcu"
        /\ serial.index = 0 \/ serial.index > DataBytes[serial.mode]
        /\ serial' = [serial EXCEPT !.index = 0, !.payload = payload]
    BY <1>2 DEF WithInput, McuSelected, AtPacketBoundary
  <2>2. payload \in SUBSET Button
    BY PayloadButtons
  <2>3. serial \in SerialType /\ serial.index <= DataBytes[serial.mode] + 1
    BY DEF Port, SerialOK
  <2> HIDE DEF payload
  <2>4. /\ serial' \in SerialType /\ serial'.line = "mcu" /\ serial'.index = 0
        /\ serial'.mode = serial.mode /\ serial'.padIndex = serial.padIndex
        /\ serial'.padState = serial.padState /\ serial'.padSlot = serial.padSlot
        /\ serial.index \in Nat /\ serial.mode \in Mode
    <3>1. serial.index \in Nat /\ serial.mode \in Mode
      BY <2>3 DEF SerialType
    <3>2. serial' = Moved(serial, 0, payload)
      BY <2>1 DEF Moved
    <3>3. serial \in SerialType
      BY <2>3
    <3>4. /\ serial' \in SerialType
          /\ serial'.index = 0 /\ serial'.payload = payload
          /\ serial'.line = serial.line /\ serial'.mode = serial.mode
          /\ serial'.padIndex = serial.padIndex
          /\ serial'.padState = serial.padState /\ serial'.padSlot = serial.padSlot
      BY <2>2, <3>2, <3>3, MovedOK
    <3> QED BY <2>1, <3>1, <3>4
  <2>5. DataBytes[serial.mode] \in Nat
    BY <2>4, Packets
  <2>6. SerialOK(serial')
    BY <2>4, <2>5 DEF SerialOK
  <2>7. McuInv(serial, p)
    BY DEF Port
  <2>8. Len(p.bytes) = 0 \/ Len(p.bytes) = DataBytes[serial.mode] + 1
    BY <2>1, <2>3, <2>4, <2>5, <2>7 DEF McuInv
  <2>9. McuInv(serial', p)
    BY <2>1, <2>4, <2>5, <2>7, <2>8 DEF McuInv
  <2>10. PadInv(serial', packet["pad"])
    BY <2>4 DEF Port, PadInv
  <2> QED BY <2>6, <2>9, <2>10 DEF Port
<1> QED BY <1>1, <1>2

\* A poll gives buttons and leaves the packets to the guest.
LEMMA PollPort ==
  ASSUME Port, NEW l, LatchOK(l), NEW current \in SUBSET Button, Poll(l, current)
  PROVE  Port'
<1>1. packet' = packet
  BY DEF Poll
<1>2. CASE FastPath(l, current)
  BY <1>1, <1>2, GivePort DEF Poll, Give
<1>3. CASE ~FastPath(l, current)
  <2>1. latch' = Latched(l, current) /\ serial' = WithInput(serial, Held(latch'))
    BY <1>3 DEF Poll, Give
  <2>2. Held(latch') \in SUBSET Button
    BY <2>1, LatchedOK, HeldButtons
  <2> QED BY <1>1, <2>1, <2>2, GivePort
<1> QED BY <1>2, <1>3

\* The select lines begin or forget a packet of the MCU.
LEMMA LinesPort ==
  ASSUME Port, input \in SUBSET Button,
         NEW line \in {"cat702", "none", "mcu"}, NEW mode \in Mode, SetLines(line, mode)
  PROVE  Port'
<1> DEFINE payload == IF line = "mcu" THEN Payload(mode, input) ELSE {}
<1>1. /\ line # "mcu" => mode = "digital"
      /\ serial' = [serial EXCEPT !.line = line, !.mode = mode, !.index = 0,
                                  !.payload = payload]
      /\ packet' = [packet EXCEPT !["mcu"] = NoPacket]
  BY DEF SetLines
<1>2. payload \in SUBSET Button /\ (line # "mcu" => payload = {})
  BY PayloadButtons
<1> HIDE DEF payload
<1>3. serial \in SerialType
  BY DEF Port, SerialOK
<1>4. /\ serial' \in SerialType /\ serial'.line = line /\ serial'.index = 0
      /\ serial'.mode = mode /\ serial'.payload = payload
      /\ serial'.padIndex = serial.padIndex
      /\ serial'.padState = serial.padState /\ serial'.padSlot = serial.padSlot
  BY <1>1, <1>2, <1>3 DEF SerialType
<1>5. DataBytes[mode] \in Nat
  BY Packets
<1>6. SerialOK(serial')
  BY <1>1, <1>2, <1>4, <1>5 DEF SerialOK
<1>7. packet \in [{"mcu", "pad"} -> PacketRecord] /\ PadInv(serial, packet["pad"])
  BY DEF Port
<1>8. /\ packet' \in [{"mcu", "pad"} -> PacketRecord]
      /\ packet'["mcu"] = NoPacket /\ packet'["pad"] = packet["pad"]
  BY <1>1, <1>7, NoPacketOK
<1>9. McuInv(serial', packet'["mcu"])
  BY <1>4, <1>8, NoPacketOK
<1>10. PadInv(serial', packet'["pad"])
  BY <1>4, <1>7, <1>8 DEF PadInv
<1> QED BY <1>6, <1>8, <1>9, <1>10 DEF Port

\* The control register selects a slot, and restarts the packets it should.
LEMMA ControlPort ==
  ASSUME Port, input \in SUBSET Button,
         NEW slot \in {1, 2}, NEW order \in {"reset", "select", "none"},
         WriteControl(slot, order)
  PROVE  Port'
<1> DEFINE rewound == Rewound(serial)
           payload == IF McuSelected THEN Payload(serial.mode, input) ELSE serial.payload
<1>1. /\ serial \in SerialType /\ SerialOK(serial)
      /\ packet \in [{"mcu", "pad"} -> PacketRecord]
      /\ McuInv(serial, packet["mcu"]) /\ PadInv(serial, packet["pad"])
  BY DEF Port, SerialOK
<1>2. serial.payload \in SUBSET Button /\ serial.mode \in Mode
  BY <1>1 DEF SerialType
<1>3. payload \in SUBSET Button
  BY <1>2, PayloadButtons
<1>4. rewound = Moved(serial, 0, payload)
  BY DEF Rewound, Moved
<1>5. serial.line # "mcu" => payload = {}
  BY <1>1 DEF SerialOK, McuSelected
<1> HIDE DEF payload, rewound
<1>6. /\ rewound \in SerialType /\ rewound.index = 0 /\ rewound.payload = payload
      /\ rewound.line = serial.line /\ rewound.mode = serial.mode
      /\ rewound.padIndex = serial.padIndex
      /\ rewound.padState = serial.padState /\ rewound.padSlot = serial.padSlot
  <2>1. serial \in SerialType
    BY <1>1
  <2> QED BY <1>3, <1>4, <2>1, MovedOK
<1>7. /\ packet' = [d \in {"mcu", "pad"} |->
           IF order = "reset" \/ (order = "select" /\ d = "mcu") THEN NoPacket ELSE packet[d]]
  BY DEF WriteControl
<1>8. packet' \in [{"mcu", "pad"} -> PacketRecord]
  BY <1>1, <1>7, NoPacketOK
<1>9. DataBytes[serial.mode] \in Nat
  BY <1>2, Packets
<1>10. CASE order = "reset"
  <2>1. serial' = [rewound EXCEPT !.padIndex = 0, !.slot = slot]
    BY <1>10 DEF WriteControl, rewound
  <2>2. /\ serial' \in SerialType /\ serial'.index = 0 /\ serial'.payload = payload
        /\ serial'.line = serial.line /\ serial'.mode = serial.mode /\ serial'.padIndex = 0
    BY <1>6, <2>1, PadRestarted, ZenonT(30)
  <2>3. packet'["mcu"] = NoPacket /\ packet'["pad"] = NoPacket
    BY <1>7, <1>10
  <2>4. SerialOK(serial')
    BY <1>1, <1>5, <1>9, <2>2 DEF SerialOK
  <2> QED BY <1>8, <2>2, <2>3, <2>4, NoPacketOK DEF Port
<1>11. CASE order = "select"
  <2>1. serial' = [rewound EXCEPT !.slot = slot]
    BY <1>11 DEF WriteControl, rewound
  <2>2. /\ serial' \in SerialType /\ serial'.index = 0 /\ serial'.payload = payload
        /\ serial'.line = serial.line /\ serial'.mode = serial.mode
        /\ serial'.padIndex = serial.padIndex
        /\ serial'.padState = serial.padState /\ serial'.padSlot = serial.padSlot
    BY <1>6, <2>1 DEF SerialType
  <2>3. packet'["mcu"] = NoPacket /\ packet'["pad"] = packet["pad"]
    BY <1>7, <1>11
  <2>4. SerialOK(serial')
    BY <1>1, <1>5, <1>9, <2>2 DEF SerialOK
  <2>5. PadInv(serial', packet'["pad"])
    BY <1>1, <2>2, <2>3 DEF PadInv
  <2> QED BY <1>8, <2>2, <2>3, <2>4, <2>5, NoPacketOK DEF Port
<1>12. CASE order = "none"
  <2>1. serial' = [serial EXCEPT !.slot = slot]
    BY <1>12 DEF WriteControl
  <2>2. /\ serial' \in SerialType /\ serial'.index = serial.index
        /\ serial'.payload = serial.payload
        /\ serial'.line = serial.line /\ serial'.mode = serial.mode
        /\ serial'.padIndex = serial.padIndex
        /\ serial'.padState = serial.padState /\ serial'.padSlot = serial.padSlot
    BY <1>1, <2>1 DEF SerialType
  <2>3. packet'["mcu"] = packet["mcu"] /\ packet'["pad"] = packet["pad"]
    BY <1>7, <1>12
  <2>4. SerialOK(serial')
    BY <1>1, <2>2 DEF SerialOK
  <2>5. McuInv(serial', packet'["mcu"]) /\ PadInv(serial', packet'["pad"])
    BY <1>1, <2>2, <2>3 DEF McuInv, PadInv
  <2> QED BY <1>8, <2>4, <2>5 DEF Port
<1> QED BY <1>10, <1>11, <1>12

\* A byte of the MCU begins a packet, or is the next of the packet it began with.
LEMMA McuPort ==
  ASSUME Port, input \in SUBSET Button, serial.line = "mcu", McuRead
  PROVE  Port'
<1> DEFINE p == packet["mcu"]
           size == DataBytes[serial.mode]
           first == [input |-> input, slot |-> 1, bytes |-> <<Header>>]
           byte == Data(serial.payload)
           longer == [p EXCEPT !.bytes = Append(p.bytes, byte)]
<1>1. /\ serial \in SerialType /\ serial.index <= size + 1
      /\ packet \in [{"mcu", "pad"} -> PacketRecord]
      /\ McuInv(serial, p) /\ PadInv(serial, packet["pad"])
  BY DEF Port, SerialOK
<1>2. /\ serial.payload \in SUBSET Button /\ serial.mode \in Mode /\ serial.index \in Nat
  BY <1>1 DEF SerialType
<1>3. size \in Nat /\ size > 0
  BY <1>2, Packets
<1>4. p \in PacketRecord
  BY <1>1
<1>5. p.bytes \in Seq(Byte) /\ Len(p.bytes) \in Nat
  BY <1>4 DEF PacketRecord
<1> HIDE DEF p, size
<1>6. serial' = McuAfter
      /\ packet' = [packet EXCEPT !["mcu"] =
           IF Len(p.bytes) \in {0, size + 1}
           THEN [input |-> input, slot |-> 1, bytes |-> <<McuByte>>]
           ELSE [p EXCEPT !.bytes = Append(p.bytes, McuByte)]]
  BY DEF McuRead, p, size
<1>7. CASE AtPacketBoundary
  <2> DEFINE payload == Payload(serial.mode, input)
  <2>1. payload \in SUBSET Button
    BY PayloadButtons
  <2>2. serial.index = 0 \/ serial.index = size + 1
    BY <1>1, <1>2, <1>3, <1>7 DEF AtPacketBoundary, size
  <2>3. Len(p.bytes) \in {0, size + 1}
    BY <1>1, <1>3, <1>5, <2>2 DEF McuInv, size
  <2>4. serial' = Moved(serial, 1, payload)
    BY <1>6, <1>7 DEF McuAfter, McuIndex, Moved
  <2>5. McuByte = Header
    BY <1>7 DEF McuByte, McuIndex, Header
  <2>6. packet' = [packet EXCEPT !["mcu"] = first]
    BY <1>6, <2>3, <2>5
  <2>7. Header \in Byte
    BY DEF Header, Byte
  <2>8. first \in PacketRecord
    BY <2>7 DEF PacketRecord
  <2>9. /\ first.input = input /\ first.bytes = <<Header>>
    OBVIOUS
  <2> HIDE DEF first, payload
  <2>10. /\ packet' \in [{"mcu", "pad"} -> PacketRecord]
         /\ packet'["mcu"] = first /\ packet'["pad"] = packet["pad"]
    BY <1>1, <2>6, <2>8
  <2>11. /\ serial' \in SerialType
         /\ serial'.index = 1 /\ serial'.payload = payload
         /\ serial'.line = serial.line /\ serial'.mode = serial.mode
         /\ serial'.padIndex = serial.padIndex
         /\ serial'.padState = serial.padState /\ serial'.padSlot = serial.padSlot
    BY <1>1, <2>1, <2>4, MovedOK
  <2>12. SerialOK(serial')
    BY <1>3, <2>11 DEF SerialOK, size
  <2>13. PadInv(serial', packet'["pad"])
    BY <1>1, <2>10, <2>11 DEF PadInv
  <2>14. Len(first.bytes) = 1 /\ first.bytes[1] = Header
    BY <2>9
  <2>15. McuInv(serial', first)
    BY <2>9, <2>11, <2>14 DEF McuInv, payload
  <2> QED BY <2>10, <2>12, <2>13, <2>15 DEF Port
<1>8. CASE ~AtPacketBoundary
  <2>1. serial.index # 0 /\ serial.index <= size
    BY <1>2, <1>3, <1>8 DEF AtPacketBoundary, size
  <2>2. Len(p.bytes) = serial.index
    BY <1>1, <2>1 DEF McuInv, size
  <2>3. Len(p.bytes) \notin {0, size + 1}
    BY <1>2, <1>3, <2>1, <2>2
  <2>4. serial.payload = Payload(serial.mode, p.input)
    BY <1>1, <1>2, <1>3, <2>1 DEF McuInv, size
  <2>5. serial' = Moved(serial, serial.index + 1, serial.payload)
    BY <1>6, <1>8, <2>1 DEF McuAfter, McuIndex, Moved
  <2>6. McuByte = byte
    BY <1>8, <2>1 DEF McuByte, McuIndex, Data
  <2>7. byte \in Byte
    BY <1>2 DEF Data, Byte
  <2>8. packet' = [packet EXCEPT !["mcu"] = longer]
    BY <1>6, <2>3, <2>6
  <2> HIDE DEF byte
  <2>9. Append(p.bytes, byte) \in Seq(Byte)
    BY <1>5, <2>7
  <2>10. longer \in PacketRecord /\ longer.input = p.input
         /\ longer.bytes = Append(p.bytes, byte)
    BY <1>4, <2>9 DEF PacketRecord
  <2> HIDE DEF longer
  <2>11. /\ packet' \in [{"mcu", "pad"} -> PacketRecord]
         /\ packet'["mcu"] = longer /\ packet'["pad"] = packet["pad"]
    BY <1>1, <2>8, <2>10
  <2>12. serial.index + 1 \in Nat
    BY <1>2
  <2>13. /\ serial' \in SerialType
         /\ serial'.index = serial.index + 1 /\ serial'.payload = serial.payload
         /\ serial'.line = serial.line /\ serial'.mode = serial.mode
         /\ serial'.padIndex = serial.padIndex
         /\ serial'.padState = serial.padState /\ serial'.padSlot = serial.padSlot
    BY <1>1, <1>2, <2>5, <2>12, MovedOK
  <2>14. SerialOK(serial')
    BY <1>2, <1>3, <2>1, <2>13 DEF SerialOK, size
  <2>15. PadInv(serial', packet'["pad"])
    BY <1>1, <2>11, <2>13 DEF PadInv
  <2>16. Len(longer.bytes) = serial.index + 1
    BY <1>5, <2>2, <2>7, <2>10
  <2>17. ASSUME NEW i \in 1..Len(longer.bytes)
         PROVE  longer.bytes[i] = IF i = 1 THEN Header ELSE Data(Payload(serial.mode, p.input))
    <3>1. CASE i <= Len(p.bytes)
      <4>1. longer.bytes[i] = p.bytes[i] /\ i \in 1..Len(p.bytes)
        BY <1>5, <2>7, <2>10, <2>16, <3>1, <1>2
      <4> QED BY <1>1, <4>1 DEF McuInv
    <3>2. CASE ~(i <= Len(p.bytes))
      <4>1. i = Len(p.bytes) + 1 /\ i # 1
        BY <1>2, <1>5, <2>1, <2>2, <2>16, <3>2
      <4>2. longer.bytes[i] = byte
        BY <1>5, <2>7, <2>10, <4>1
      <4> QED BY <2>4, <4>1, <4>2 DEF byte
    <3> QED BY <3>1, <3>2
  <2>18. McuInv(serial', longer)
    BY <2>4, <2>10, <2>13, <2>16, <2>17 DEF McuInv
  <2> QED BY <2>11, <2>14, <2>15, <2>18 DEF Port
<1> QED BY <1>7, <1>8

\* The pads at another byte of a packet with the buttons and the slot.
PadMoved(s, index, state, slot) ==
  [line |-> s.line, mode |-> s.mode, index |-> s.index, payload |-> s.payload,
   slot |-> s.slot, padIndex |-> index, padState |-> state, padSlot |-> slot]

PadCounted(s, index) == [s EXCEPT !.padIndex = index]

PadFresh(s, state, slot) == [s EXCEPT !.padState = state, !.padSlot = slot, !.padIndex = 0]

\* Counting a byte, and beginning a packet, are such moves.
LEMMA PadMoves ==
  ASSUME NEW s \in SerialType, NEW index, NEW state, NEW slot
  PROVE  /\ PadCounted(s, index) = PadMoved(s, index, s.padState, s.padSlot)
         /\ PadFresh(s, state, slot) = PadMoved(s, 0, state, slot)
         /\ PadCounted(PadMoved(s, 0, state, slot), index) = PadMoved(s, index, state, slot)
<1>1. s = [line |-> s.line, mode |-> s.mode, index |-> s.index, payload |-> s.payload,
           slot |-> s.slot, padIndex |-> s.padIndex, padState |-> s.padState,
           padSlot |-> s.padSlot]
  BY DEF SerialType
<1>2. PadCounted(s, index) = PadMoved(s, index, s.padState, s.padSlot)
  BY <1>1 DEF PadCounted, PadMoved
<1>3. PadFresh(s, state, slot) = PadMoved(s, 0, state, slot)
  <2> DEFINE a == [s EXCEPT !.padState = state]
             b == [a EXCEPT !.padSlot = slot]
             c == [b EXCEPT !.padIndex = 0]
  <2>1. a = PadMoved(s, s.padIndex, state, s.padSlot)
    BY <1>1 DEF PadMoved
  <2> HIDE DEF a
  <2>2. b = PadMoved(s, s.padIndex, state, slot)
    BY <2>1 DEF PadMoved
  <2> HIDE DEF b
  <2>3. c = PadMoved(s, 0, state, slot)
    BY <2>2 DEF PadMoved
  <2> QED BY <2>3, Zenon DEF PadFresh, a, b, c
<1>4. PadCounted(PadMoved(s, 0, state, slot), index) = PadMoved(s, index, state, slot)
  BY DEF PadCounted, PadMoved
<1> QED BY <1>2, <1>3, <1>4

\* It is a state of the port, and the MCU's part of it stays.
LEMMA PadMovedOK ==
  ASSUME NEW s \in SerialType, NEW index \in 0..5, NEW state \in SUBSET Button,
         NEW slot \in {1, 2}, NEW r, r = PadMoved(s, index, state, slot)
  PROVE  /\ r \in SerialType
         /\ r.padIndex = index /\ r.padState = state /\ r.padSlot = slot
         /\ r.index = s.index /\ r.payload = s.payload /\ r.line = s.line /\ r.mode = s.mode
<1>1. r \in SerialType
  <2>1. /\ s.line \in {"cat702", "none", "mcu"} /\ s.mode \in Mode /\ s.index \in Nat
        /\ s.payload \in SUBSET Button /\ s.slot \in {1, 2}
    BY DEF SerialType
  <2>2. r = [line |-> s.line, mode |-> s.mode, index |-> s.index, payload |-> s.payload,
             slot |-> s.slot, padIndex |-> index, padState |-> state, padSlot |-> slot]
    BY DEF PadMoved
  <2> QED BY <2>1, <2>2 DEF SerialType
<1>2. r.padIndex = index /\ r.padState = state /\ r.padSlot = slot
  BY DEF PadMoved
<1>3. r.index = s.index /\ r.payload = s.payload /\ r.line = s.line /\ r.mode = s.mode
  BY DEF PadMoved
<1> QED BY <1>1, <1>2, <1>3

\* A byte of a pad shows its part of the buttons, if any.
LEMMA PadByteOK ==
  ASSUME NEW s \in SerialType, NEW index
  PROVE  /\ PadByte(s, index) \in Byte
         /\ index = 3 => PadByte(s, index).buttons = OfPlayer(s.padSlot, s.padState) \cap Low
         /\ index = 4 => PadByte(s, index).buttons = OfPlayer(s.padSlot, s.padState) \ Low
<1> DEFINE state == OfPlayer(s.padSlot, s.padState)
<1>1. state \in SUBSET Button
  BY DEF OfPlayer, SerialType
<1> HIDE DEF state
<1>2. CASE index = 3
  <2>1. PadByte(s, index) = [kind |-> "data", buttons |-> state \cap Low]
    BY <1>2 DEF PadByte, state
  <2> QED BY <1>1, <1>2, <2>1 DEF Byte, state
<1>3. CASE index = 4
  <2>1. PadByte(s, index) = [kind |-> "data", buttons |-> state \ Low]
    BY <1>3 DEF PadByte, state
  <2> QED BY <1>1, <1>3, <2>1 DEF Byte, state
<1>4. CASE index # 3 /\ index # 4
  <2>1. PadByte(s, index) = [kind |-> "idle", buttons |-> {}]
    BY <1>4 DEF PadByte
  <2> QED BY <1>4, <2>1 DEF Byte
<1> QED BY <1>2, <1>3, <1>4

\* A byte of a pad begins a packet, or is the next of the packet it began with.
LEMMA PadPort ==
  ASSUME Port, input \in SUBSET Button, NEW address \in BOOLEAN, PadRead(address)
  PROVE  Port'
<1> DEFINE p == packet["pad"]
           begun == PadBegun(address)
           first == address \/ p.bytes = <<>>
           old == IF first THEN [input |-> input, slot |-> serial.slot, bytes |-> <<>>] ELSE p
           new == IF Len(old.bytes) = 5 THEN old
                  ELSE [old EXCEPT !.bytes = Append(old.bytes, PadByte(begun, begun.padIndex))]
<1>1. /\ serial \in SerialType /\ SerialOK(serial)
      /\ packet \in [{"mcu", "pad"} -> PacketRecord]
      /\ McuInv(serial, packet["mcu"]) /\ PadInv(serial, p)
  BY DEF Port, SerialOK
<1>2. /\ serial.padIndex \in 0..5 /\ serial.padState \in SUBSET Button
      /\ serial.padSlot \in {1, 2} /\ serial.slot \in {1, 2}
  BY <1>1 DEF SerialType
<1>3. p \in PacketRecord /\ p.bytes \in Seq(Byte)
  BY <1>1 DEF PacketRecord
<1>4. Len(p.bytes) = serial.padIndex /\ (p.bytes = <<>> <=> serial.padIndex = 0)
  BY <1>1, <1>3, EmptySeq DEF PadInv
<1>5. /\ serial' = PadCounted(begun, IF begun.padIndex < 5 THEN begun.padIndex + 1 ELSE 5)
      /\ packet' = [packet EXCEPT !["pad"] = new]
  BY DEF PadRead, PadCounted
<1> HIDE DEF p, begun
<1>6. ASSUME NEW index \in 0..5, NEW state \in SUBSET Button, NEW slot \in {1, 2},
             NEW q \in PacketRecord, serial' = PadMoved(serial, index, state, slot),
             packet' = [packet EXCEPT !["pad"] = q],
             Len(q.bytes) = index, q.bytes # <<>> => q.input = state /\ q.slot = slot,
             4 \in 1..Len(q.bytes) => q.bytes[4].buttons = OfPlayer(q.slot, q.input) \cap Low,
             5 \in 1..Len(q.bytes) => q.bytes[5].buttons = OfPlayer(q.slot, q.input) \ Low
      PROVE  Port'
  <2>1. /\ serial' \in SerialType
        /\ serial'.padIndex = index /\ serial'.padState = state /\ serial'.padSlot = slot
        /\ serial'.index = serial.index /\ serial'.payload = serial.payload
        /\ serial'.line = serial.line /\ serial'.mode = serial.mode
    BY <1>1, <1>6, PadMovedOK
  <2>2. /\ packet' \in [{"mcu", "pad"} -> PacketRecord]
        /\ packet'["pad"] = q /\ packet'["mcu"] = packet["mcu"]
    BY <1>1, <1>6
  <2>3. SerialOK(serial')
    BY <1>1, <2>1 DEF SerialOK
  <2>4. McuInv(serial', packet'["mcu"])
    BY <1>1, <2>1, <2>2 DEF McuInv
  <2>5. PadInv(serial', q)
    BY <1>6, <2>1 DEF PadInv
  <2> QED BY <2>2, <2>3, <2>4, <2>5 DEF Port
<1>7. CASE first
  <2>1. /\ begun = PadMoved(serial, 0, input, serial.slot)
        /\ begun.padIndex = 0 /\ begun \in SerialType
    <3>1. begun = PadFresh(serial, input, serial.slot)
      BY <1>4, <1>7 DEF begun, PadBegun, PadFresh
    <3>2. begun = PadMoved(serial, 0, input, serial.slot)
      BY <1>1, <3>1, PadMoves
    <3>3. 0 \in 0..5
      OBVIOUS
    <3> QED BY <1>1, <1>2, <3>2, <3>3, PadMovedOK
  <2>2. serial' = PadMoved(serial, 1, input, serial.slot)
    <3>1. serial' = PadCounted(begun, 1)
      BY <1>5, <2>1
    <3> QED BY <1>1, <2>1, <3>1, PadMoves
  <2> DEFINE byte == PadByte(begun, 0)
             q == [input |-> input, slot |-> serial.slot, bytes |-> <<byte>>]
  <2>3. byte \in Byte
    BY <2>1, PadByteOK
  <2>4. new = q
    BY <1>7, <2>1
  <2> HIDE DEF byte
  <2>5. q \in PacketRecord /\ Len(q.bytes) = 1
    BY <1>2, <2>3 DEF PacketRecord
  <2>6. q.input = input /\ q.slot = serial.slot
    OBVIOUS
  <2>7. packet' = [packet EXCEPT !["pad"] = q]
    BY <1>5, <2>4
  <2> HIDE DEF q
  <2>8. 1 \in 0..5 /\ 4 \notin 1..Len(q.bytes) /\ 5 \notin 1..Len(q.bytes)
    BY <2>5
  <2> QED BY <1>2, <1>6, <2>2, <2>5, <2>6, <2>7, <2>8
<1>8. CASE ~first
  <2>1. begun = serial /\ old = p
    BY <1>4, <1>8 DEF begun, PadBegun
  <2>2. /\ serial.padState = p.input /\ serial.padSlot = p.slot
        /\ 4 \in 1..Len(p.bytes) => p.bytes[4].buttons = OfPlayer(p.slot, p.input) \cap Low
        /\ 5 \in 1..Len(p.bytes) => p.bytes[5].buttons = OfPlayer(p.slot, p.input) \ Low
    BY <1>1, <1>8 DEF PadInv
  <2>3. CASE serial.padIndex = 5
    <3>1. new = p /\ serial' = PadCounted(serial, 5)
      BY <1>4, <1>5, <2>1, <2>3
    <3>2. serial' = PadMoved(serial, 5, serial.padState, serial.padSlot)
      BY <1>1, <3>1, PadMoves
    <3> HIDE DEF old, new
    <3>3. packet' = [packet EXCEPT !["pad"] = p]
      BY <1>5, <3>1
    <3>4. Len(p.bytes) = 5 /\ 5 \in 0..5
      BY <1>4, <2>3
    <3> HIDE DEF first
    <3> QED BY <1>2, <1>3, <1>6, <2>2, <3>2, <3>3, <3>4
  <2>4. CASE serial.padIndex # 5
    <3> DEFINE index == serial.padIndex + 1
               byte == PadByte(serial, serial.padIndex)
               q == [p EXCEPT !.bytes = Append(p.bytes, byte)]
    <3>1. index \in 0..5 /\ serial.padIndex \in 0..4
      BY <1>2, <2>4
    <3>2. serial' = PadMoved(serial, index, serial.padState, serial.padSlot)
      <4>1. serial' = PadCounted(serial, index)
        BY <1>5, <2>1, <3>1
      <4> QED BY <1>1, <4>1, PadMoves
    <3>3. new = q
      BY <1>4, <2>1, <2>4
    <3>4. /\ byte \in Byte
          /\ serial.padIndex = 3 => byte.buttons = OfPlayer(p.slot, p.input) \cap Low
          /\ serial.padIndex = 4 => byte.buttons = OfPlayer(p.slot, p.input) \ Low
      BY <1>1, <2>2, PadByteOK
    <3> HIDE DEF byte
    <3>5. /\ Append(p.bytes, byte) \in Seq(Byte)
          /\ Len(Append(p.bytes, byte)) = index
          /\ \A i \in 1..serial.padIndex : Append(p.bytes, byte)[i] = p.bytes[i]
          /\ Append(p.bytes, byte)[index] = byte
      BY <1>2, <1>3, <1>4, <3>4
    <3>6. /\ q \in PacketRecord /\ q.bytes = Append(p.bytes, byte)
          /\ q.input = p.input /\ q.slot = p.slot
      BY <1>3, <3>5 DEF PacketRecord
    <3>7. packet' = [packet EXCEPT !["pad"] = q]
      BY <1>5, <3>3
    <3> HIDE DEF q
    <3>8. 4 \in 1..Len(q.bytes) => q.bytes[4].buttons = OfPlayer(q.slot, q.input) \cap Low
      BY <1>4, <2>2, <3>1, <3>4, <3>5, <3>6
    <3>9. 5 \in 1..Len(q.bytes) => q.bytes[5].buttons = OfPlayer(q.slot, q.input) \ Low
      BY <1>4, <2>2, <3>1, <3>4, <3>5, <3>6
    <3> QED BY <1>2, <1>6, <2>2, <3>1, <3>2, <3>5, <3>6, <3>7, <3>8, <3>9
  <2> QED BY <2>3, <2>4
<1> QED BY <1>7, <1>8

-----------------------------------------------------------------------------
(***************************************************************************)
(* The theorems.                                                           *)
(***************************************************************************)

Inv == Loop /\ Port

\* Nothing is pressed, latched or read.
LEMMA InitInv == Init => Inv
<1> SUFFICES ASSUME Init PROVE Inv
  OBVIOUS
<1>1. /\ latch.level = [g \in Levels |-> {}] /\ latch.left = [g \in Levels |-> 0]
      /\ latch.edge = {} /\ latch.edgeLeft = 0 /\ latch.previous = {}
      /\ latch \in LatchType
  BY Buttons DEF Init, LatchType
<1>2. LatchOK(latch)
  BY <1>1 DEF LatchOK
<1>3. Held(latch) = {}
  BY <1>1 DEF Held
<1>4. due \in DueType /\ Backed(due, latch)
  BY Buttons DEF Init, DueType, Backed
<1>5. Loop
  BY <1>1, <1>2, <1>3, <1>4 DEF Init, Loop
<1>6. /\ serial \in SerialType /\ serial.index = 0 /\ serial.payload = {}
      /\ serial.mode = "digital" /\ serial.padIndex = 0
  BY Packets DEF Init, SerialType
<1>7. DataBytes["digital"] \in Nat
  BY Packets
<1>8. SerialOK(serial)
  BY <1>6, <1>7 DEF SerialOK
<1>9. /\ packet \in [{"mcu", "pad"} -> PacketRecord]
      /\ packet["mcu"] = NoPacket /\ packet["pad"] = NoPacket
  BY NoPacketOK DEF Init
<1>10. Port
  BY <1>6, <1>8, <1>9, NoPacketOK DEF Port
<1> QED BY <1>5, <1>10 DEF Inv

\* Every step of the loop and of the guest.
LEMMA NextInv == Inv /\ [Next]_vars => Inv'
<1> SUFFICES ASSUME Inv, [Next]_vars PROVE Inv'
  OBVIOUS
<1>1. Loop /\ Port /\ LatchOK(latch)
  BY DEF Inv, Loop
<1>2. input \in SUBSET Button
  BY <1>1, HeldButtons DEF Loop
<1>3. ASSUME UNCHANGED <<latch, input, sampled, due, unseen>> PROVE Loop'
  BY <1>1, <1>3 DEF Loop, Backed
<1>4. ASSUME NEW current \in SUBSET Button, NextSlice(current) PROVE Inv'
  <2>1. Loop'
    BY <1>1, <1>4, SliceLoop
  <2>2. Port'
    BY <1>1, <1>4, PollPort DEF NextSlice
  <2> QED BY <2>1, <2>2 DEF Inv
<1>5. ASSUME NEW current \in SUBSET Button, NextFrame(current) PROVE Inv'
  <2>1. Loop'
    BY <1>1, <1>5, FrameLoop
  <2>2. LatchOK(Advanced(latch)) /\ Poll(Advanced(latch), current)
    BY <1>1, <1>5, AdvancedOK DEF NextFrame
  <2>3. Port'
    BY <1>1, <2>2, PollPort
  <2> QED BY <2>1, <2>3 DEF Inv
<1>6. ASSUME NEW line \in {"cat702", "none", "mcu"}, NEW mode \in Mode, SetLines(line, mode)
      PROVE  Inv'
  <2>1. Loop'
    BY <1>3, <1>6 DEF SetLines
  <2>2. Port'
    BY <1>1, <1>2, <1>6, LinesPort
  <2> QED BY <2>1, <2>2 DEF Inv
<1>7. ASSUME NEW address \in BOOLEAN, WriteData(address) PROVE Inv'
  <2>1. Loop'
    BY <1>3, <1>7 DEF WriteData
  <2>2. Port'
    BY <1>1, <1>2, <1>7, McuPort, PadPort DEF WriteData
  <2> QED BY <2>1, <2>2 DEF Inv
<1>8. ASSUME NEW slot \in {1, 2}, NEW order \in {"reset", "select", "none"},
             WriteControl(slot, order)
      PROVE  Inv'
  <2>1. Loop'
    BY <1>3, <1>8 DEF WriteControl
  <2>2. Port'
    BY <1>1, <1>2, <1>8, ControlPort
  <2> QED BY <2>1, <2>2 DEF Inv
<1>9. CASE UNCHANGED vars
  <2>1. Loop'
    BY <1>3, <1>9 DEF vars
  <2>2. serial' = serial /\ packet' = packet
    BY <1>9 DEF vars
  <2>3. Port'
    BY <1>1, <2>2 DEF Port
  <2> QED BY <2>1, <2>3 DEF Inv
<1> QED BY <1>4, <1>5, <1>6, <1>7, <1>8, <1>9 DEF Next

\* The invariant of the loop and of the port.
LEMMA Invariance == Spec => []Inv
<1> QED BY InitInv, NextInv, PTL DEF Spec

\* Every value has its type: above all a group of the latch holds buttons for just
\* the frames it has left, and the index of the MCU never leaves its packet.
THEOREM TypeCorrect == Spec => []TypeOK
<1>1. Inv => TypeOK
  <2> SUFFICES ASSUME Inv PROVE TypeOK
    OBVIOUS
  <2>1. input \in SUBSET Button
    BY HeldButtons DEF Inv, Loop
  <2>2. packet \in [{"mcu", "pad"} -> [input : SUBSET Button, slot : {1, 2}, bytes : Seq(Byte)]]
    BY DEF Inv, Port, PacketRecord
  <2>3. /\ latch \in [level : [Levels -> SUBSET Button], left : [Levels -> 0..LatchFrames],
                      edge : SUBSET Edge, edgeLeft : 0..LatchFrames, previous : SUBSET Edge]
        /\ \A g \in Levels : latch.level[g] \subseteq g
                               /\ (latch.left[g] > 0 <=> latch.level[g] # {})
        /\ latch.edgeLeft > 0 <=> latch.edge # {}
    BY DEF Inv, Loop, LatchOK, LatchType
  <2>4. /\ serial \in SerialType /\ serial.index <= DataBytes[serial.mode] + 1
        /\ serial.line # "mcu" => serial.index = 0 /\ serial.payload = {}
                                  /\ serial.mode = "digital"
    BY DEF Inv, Port, SerialOK
  <2>5. sampled \subseteq Edge /\ unseen \subseteq Edge /\ due \in [Button -> 0..LatchFrames]
    BY DEF Inv, Loop, DueType
  <2> QED BY <2>1, <2>2, <2>3, <2>4, <2>5 DEF TypeOK, SerialType
<1> QED BY <1>1, Invariance, PTL

\* While a press is due the buttons given to the guest show it, for any length of
\* the latch, any groups and any polls.
THEOREM PressesReachGuest == Spec => []PressReachesGuest
<1>1. Inv => PressReachesGuest
  <2> SUFFICES ASSUME Inv, NEW b \in Button, due[b] > 0 PROVE b \in input
    BY DEF PressReachesGuest
  <2> QED BY HeldButtons DEF Inv, Loop
<1> QED BY <1>1, Invariance, PTL

\* The guest reads whole packets, for any number of data bytes in any modes,
\* whatever the loop, the select lines and the control register do between two bytes.
THEOREM PacketsAreWhole == Spec => []PacketWhole
<1>1. Inv => PacketWhole
  <2> SUFFICES ASSUME Inv PROVE PacketWhole
    OBVIOUS
  <2>1. /\ packet["mcu"] \in PacketRecord /\ packet["pad"] \in PacketRecord
        /\ McuInv(serial, packet["mcu"]) /\ PadInv(serial, packet["pad"])
    BY DEF Inv, Port
  <2>2. /\ packet["mcu"].bytes \in Seq(Byte) /\ packet["pad"].bytes \in Seq(Byte)
    BY <2>1 DEF PacketRecord
  <2>3. /\ DOMAIN packet["mcu"].bytes = 1..Len(packet["mcu"].bytes)
        /\ DOMAIN packet["pad"].bytes = 1..Len(packet["pad"].bytes)
    BY <2>2, LenProperties
  <2> QED BY <2>1, <2>3 DEF PacketWhole, McuInv, PadInv, Header, Data
<1> QED BY <1>1, Invariance, PTL
=============================================================================
