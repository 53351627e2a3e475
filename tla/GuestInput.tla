------------------------------ MODULE GuestInput ------------------------------
(***************************************************************************)
(* The way of a key press to the guest: the poll loop of the native window *)
(* samples the keyboard and runs the guest in slices; the latch between    *)
(* them (NativeInputLatch of src/main.rs) holds a short press for some     *)
(* frames, since the guest reads its controls rarely; the guest reads them *)
(* byte by byte over the serial port (Controller and ZnMcu of io.rs), and  *)
(* the loop may change the buttons between two bytes of a packet.          *)
(*                                                                         *)
(* A manual session with the focus: no script, no test input, no Enter key *)
(* (PhysicalEnter has that one), so input_latch and physical_input_latch   *)
(* see the same buttons and are one variable.  A frame that ends without   *)
(* the window being closed has passed a vblank or used its instructions,   *)
(* so it always advances the latch.  A button is what a bit of the pad's   *)
(* state or of the MCU's payload stands for; interrupt flags are left out. *)
(***************************************************************************)
EXTENDS Integers, Sequences

CONSTANTS
  Levels,      \* groups of buttons reported as levels: movement, combat
  Edge,        \* buttons reported as presses: the Start buttons
  Second,      \* the buttons of player 2
  Low,         \* the buttons in the low byte of a pad's state
  LatchFrames, \* NATIVE_PLAY_INPUT_LATCH_FRAMES
  DataBytes,   \* data bytes of an MCU packet in each mode
  BiosAnswers  \* does the BIOS carry a security response?

Button == (UNION Levels) \cup Edge
Mode == DOMAIN DataBytes

ASSUME InputConstants ==
  /\ \A g, h \in Levels : g # h => g \cap h = {}
  /\ Edge \cap (UNION Levels) = {}
  /\ LatchFrames \in Nat \ {0} /\ BiosAnswers \in BOOLEAN
  /\ "digital" \in Mode /\ \A m \in Mode : DataBytes[m] \in Nat \ {0}

VARIABLES
  latch,   \* what the latch holds, and for how many frames yet
  input,   \* the buttons the loop gave the guest
  serial,  \* the serial port: select lines, MCU, pads
  sampled, \* history: the press buttons down at the last poll
  due,     \* history: frames for which a press is still due to the guest
  unseen,  \* history: press buttons whose release no poll showed the latch
  packet   \* history: what the guest read of the packets it is reading

vars == <<latch, input, serial, sampled, due, unseen, packet>>

NoPacket == [input |-> {}, slot |-> 1, bytes |-> <<>>]

Byte == [kind : {"header", "data", "idle"}, buttons : SUBSET Button]

\* A group of the latch holds buttons for exactly the frames it has left.
TypeOK ==
  /\ latch \in [level : [Levels -> SUBSET Button], left : [Levels -> 0..LatchFrames],
                edge : SUBSET Edge, edgeLeft : 0..LatchFrames, previous : SUBSET Edge]
  /\ \A g \in Levels : latch.level[g] \subseteq g
                         /\ (latch.left[g] > 0 <=> latch.level[g] # {})
  /\ latch.edgeLeft > 0 <=> latch.edge # {}
  /\ input \subseteq Button
  /\ serial \in [line : {"cat702", "none", "mcu"}, mode : Mode, index : Nat,
                 payload : SUBSET Button, slot : {1, 2}, padIndex : 0..5,
                 padState : SUBSET Button, padSlot : {1, 2}]
  /\ serial.index <= DataBytes[serial.mode] + 1
  /\ serial.line # "mcu" => serial.index = 0 /\ serial.payload = {} /\ serial.mode = "digital"
  /\ sampled \subseteq Edge /\ unseen \subseteq Edge
  /\ due \in [Button -> 0..LatchFrames]
  /\ packet \in [{"mcu", "pad"} -> [input : SUBSET Button, slot : {1, 2}, bytes : Seq(Byte)]]

Init ==
  /\ latch = [level |-> [g \in Levels |-> {}], left |-> [g \in Levels |-> 0],
              edge |-> {}, edgeLeft |-> 0, previous |-> {}]
  /\ input = {}
  /\ serial = [line |-> "none", mode |-> "digital", index |-> 0, payload |-> {},
               slot |-> 1, padIndex |-> 0, padState |-> {}, padSlot |-> 1]
  /\ sampled = {} /\ unseen = {}
  /\ due = [b \in Button |-> 0]
  /\ packet = [d \in {"mcu", "pad"} |-> NoPacket]
-----------------------------------------------------------------------------
(***************************************************************************)
(* The latch.                                                              *)
(***************************************************************************)

LatchIdle(l) == l.edge = {} /\ \A g \in Levels : l.level[g] = {}

Held(l) == l.edge \cup UNION {l.level[g] : g \in Levels}

\* A group with a button down now holds just those buttons; a press is added to
\* the presses held, and starts their clock anew.
Latched(l, current) ==
  LET rising == (current \cap Edge) \ l.previous
      down(g) == current \cap g # {} IN
  [level |-> [g \in Levels |-> IF down(g) THEN current \cap g ELSE l.level[g]],
   left |-> [g \in Levels |-> IF down(g) THEN LatchFrames ELSE l.left[g]],
   edge |-> l.edge \cup rising,
   edgeLeft |-> IF rising # {} THEN LatchFrames ELSE l.edgeLeft,
   previous |-> current \cap Edge]

Less(n) == IF n > 0 THEN n - 1 ELSE 0

\* Variant: the presses stay when their clock has run out.
AdvancedForever(l) ==
  [l EXCEPT !.left = [g \in Levels |-> Less(@[g])],
            !.level = [g \in Levels |-> IF l.left[g] = 1 THEN {} ELSE @[g]],
            !.edgeLeft = Less(@)]

\* A frame passes; what is held for no frame more is dropped.
Advanced(l) ==
  [l EXCEPT !.left = [g \in Levels |-> Less(@[g])],
            !.level = [g \in Levels |-> IF l.left[g] = 1 THEN {} ELSE @[g]],
            !.edgeLeft = Less(@),
            !.edge = IF l.edgeLeft = 1 THEN {} ELSE @]
-----------------------------------------------------------------------------
(***************************************************************************)
(* The serial port.                                                        *)
(***************************************************************************)

McuSelected == serial.line = "mcu"

\* Player 1's buttons are the payload of a digital packet; the other modes
\* send bytes that show no button.
Payload(mode, buttons) == IF mode = "digital" THEN buttons \ Second ELSE {}

AtPacketBoundary == serial.index = 0 \/ serial.index > DataBytes[serial.mode]

\* Variant: new buttons start a packet anew wherever it is.
WithInputAnywhere(s, buttons) ==
  IF buttons # input /\ McuSelected
  THEN [s EXCEPT !.index = 0, !.payload = Payload(s.mode, buttons)]
  ELSE s

\* New buttons reach the MCU only between two packets.
WithInput(s, buttons) ==
  IF buttons # input /\ McuSelected /\ AtPacketBoundary
  THEN [s EXCEPT !.index = 0, !.payload = Payload(s.mode, buttons)]
  ELSE s

\* The guest moves the select lines: the MCU starts a packet when it is selected
\* or, selected, changes its mode, and forgets the packet when it is deselected.
\* The mode of an MCU that is not selected does not matter.
SetLines(line, mode) ==
  /\ <<line, mode>> # <<serial.line, serial.mode>>
  /\ line # "mcu" => mode = "digital"
  /\ serial' = [serial EXCEPT
       !.line = line, !.mode = mode,
       !.index = 0,
       !.payload = IF line = "mcu" THEN Payload(mode, input) ELSE {}]
  /\ packet' = [packet EXCEPT !["mcu"] = NoPacket]
  /\ UNCHANGED <<latch, input, sampled, due, unseen>>

\* The next byte of the MCU, and the state after it.
McuIndex == IF AtPacketBoundary THEN 0 ELSE serial.index
McuByte ==
  IF McuIndex = 0 THEN [kind |-> "header", buttons |-> {}]
  ELSE [kind |-> "data", buttons |-> serial.payload]
McuAfter ==
  [serial EXCEPT !.index = McuIndex + 1,
                 !.payload = IF McuIndex = 0 THEN Payload(serial.mode, input) ELSE @]

OfPlayer(slot, buttons) == IF slot = 2 THEN buttons \cap Second ELSE buttons \ Second

PadByte(s, index) ==
  LET state == OfPlayer(s.padSlot, s.padState) IN
  CASE index = 3 -> [kind |-> "data", buttons |-> state \cap Low]
    [] index = 4 -> [kind |-> "data", buttons |-> state \ Low]
    [] OTHER -> [kind |-> "idle", buttons |-> {}]

\* The byte 01 begins a pad packet, and so does any byte after a reset: the
\* buttons and the slot of the packet are those of this moment.
PadBegun(address) ==
  IF address \/ serial.padIndex = 0
  THEN [serial EXCEPT !.padState = input, !.padSlot = serial.slot, !.padIndex = 0]
  ELSE serial

PadRead(address) ==
  /\ BiosAnswers => address
  /\ LET begun == PadBegun(address)
         first == address \/ packet["pad"].bytes = <<>>
         old == IF first THEN [input |-> input, slot |-> serial.slot, bytes |-> <<>>]
                         ELSE packet["pad"] IN
     /\ serial' = [begun EXCEPT !.padIndex = IF @ < 5 THEN @ + 1 ELSE 5]
     /\ packet' = [packet EXCEPT !["pad"] =
          IF Len(old.bytes) = 5 THEN old
          ELSE [old EXCEPT !.bytes = Append(@, PadByte(begun, begun.padIndex))]]

McuRead ==
  LET old == packet["mcu"]
      whole == Len(old.bytes) \in {0, DataBytes[serial.mode] + 1} IN
  /\ serial' = McuAfter
  /\ packet' = [packet EXCEPT !["mcu"] =
       IF whole THEN [input |-> input, slot |-> 1, bytes |-> <<McuByte>>]
       ELSE [old EXCEPT !.bytes = Append(@, McuByte)]]

\* The guest writes a byte and so reads one: of the MCU if it is selected, else of
\* a pad, or of the BIOS response, which leaves all this alone, as a selected
\* CAT702 does.
WriteData(address) ==
  /\ \/ serial.line = "mcu" /\ McuRead
     \/ serial.line = "none" /\ PadRead(address)
  /\ UNCHANGED <<latch, input, sampled, due, unseen>>

Rewound(s) ==
  [s EXCEPT !.index = 0,
            !.payload = IF McuSelected THEN Payload(s.mode, input) ELSE @]

\* The guest writes the control register: a slot, and a reset, a select or neither.
WriteControl(slot, order) ==
  /\ serial' = CASE order = "reset" -> [Rewound(serial) EXCEPT !.padIndex = 0, !.slot = slot]
                 [] order = "select" -> [Rewound(serial) EXCEPT !.slot = slot]
                 [] OTHER -> [serial EXCEPT !.slot = slot]
  /\ packet' = [d \in {"mcu", "pad"} |->
       IF order = "reset" \/ (order = "select" /\ d = "mcu") THEN NoPacket ELSE packet[d]]
  /\ UNCHANGED <<latch, input, sampled, due, unseen>>
-----------------------------------------------------------------------------
(***************************************************************************)
(* The loop.                                                               *)
(***************************************************************************)

\* Variant: the fast path asks only whether a key is down.
FastPathNow(l, current) == current = {}

FastPath(l, current) == current = {} /\ LatchIdle(l)

\* A press is due from the poll that samples it, until the latch's frames are
\* over, unless the latch was not shown the release before it; a level also
\* until another button of its group is down without it.
DueAfter(left, current) ==
  [b \in Button |->
     IF b \in Edge
     THEN IF b \in current \ (sampled \cup unseen) THEN LatchFrames ELSE left[b]
     ELSE IF b \in current THEN LatchFrames
     ELSE IF \E g \in Levels : b \in g /\ g \cap current # {} THEN 0
     ELSE left[b]]

Give(buttons) ==
  /\ input' = buttons
  /\ serial' = WithInput(serial, buttons)

\* A poll, with the latch l.  With no key down and nothing latched the guest gets
\* no buttons, and the latch is not asked.
Poll(l, current) ==
  /\ IF FastPath(l, current)
     THEN latch' = l /\ Give({}) /\ unseen' = unseen \cup l.previous
     ELSE /\ latch' = Latched(l, current)
          /\ Give(Held(latch'))
          /\ unseen' = unseen \cap current
  /\ sampled' = current \cap Edge
  /\ UNCHANGED packet

\* A slice is over and the frame is not: the loop polls and runs the next.  The
\* sample is the last one or, when the events are due, a new one.
NextSlice(current) ==
  /\ Poll(latch, current)
  /\ due' = DueAfter(due, current)

\* A frame is over, at a vblank or with its last instruction: the latch counts
\* it, and the next frame begins with a sample and a poll.
NextFrame(current) ==
  /\ Poll(Advanced(latch), current)
  /\ due' = DueAfter([b \in Button |-> Less(due[b])], current)

Next ==
  \/ \E current \in SUBSET Button : NextSlice(current) \/ NextFrame(current)
  \/ \E line \in {"cat702", "none", "mcu"}, mode \in Mode : SetLines(line, mode)
  \/ \E address \in BOOLEAN : WriteData(address)
  \/ \E slot \in {1, 2}, order \in {"reset", "select", "none"} : WriteControl(slot, order)

Spec == Init /\ [][Next]_vars
-----------------------------------------------------------------------------
(***************************************************************************)
(* Properties.                                                             *)
(***************************************************************************)

\* The guest reads whole packets: whatever the loop does between two bytes, each
\* byte is the one the guest counts on, and all show the buttons and the pad of
\* the moment the packet began (io.rs:26913-26965, 27321-27352).
PacketWhole ==
  /\ \A i \in DOMAIN packet["mcu"].bytes :
       packet["mcu"].bytes[i] =
         IF i = 1 THEN [kind |-> "header", buttons |-> {}]
         ELSE [kind |-> "data", buttons |-> Payload(serial.mode, packet["mcu"].input)]
  /\ LET p == packet["pad"]
         state == OfPlayer(p.slot, p.input) IN
     /\ 4 \in DOMAIN p.bytes => p.bytes[4].buttons = state \cap Low
     /\ 5 \in DOMAIN p.bytes => p.bytes[5].buttons = state \ Low

\* "Brief physical key taps survive" (main.rs:181-182): while a press is due the
\* guest's buttons show it, so every packet it begins does.
PressReachesGuest ==
  \A b \in Button : due[b] > 0 => b \in input

\* The same of every press, whatever polls were idle before it: the poll that
\* samples the press gives it to the guest (main.rs:181-182 and 196-199).
EveryPressReachesGuest == [][sampled' \ sampled \subseteq input']_vars
=============================================================================
