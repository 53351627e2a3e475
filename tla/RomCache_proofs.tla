---------------------------- MODULE RomCache_proofs ----------------------------
(***************************************************************************)
(* The ROM cache for every set of processes, keys and assets: what its     *)
(* directories contain, what a run that is alone finds, and what it takes  *)
(* for a run to return less than every entry.                              *)
(***************************************************************************)
EXTENDS RomCache, TLAPS

\* The first state is well-typed.
LEMMA TypeInit == Init => TypeOK
<1> SUFFICES ASSUME Init PROVE TypeOK
  OBVIOUS
<1>1. NoDir \in Dir /\ NoResult \in Result
  BY CacheConstants DEF NoDir, Dir, NoResult, Result
<1>2. QED
  BY <1>1, CacheConstants DEF Init, TypeOK, Pc

\* Changing a directory of type Dir field by field.
LEMMA DirUpdates ==
  ASSUME NEW d \in Dir, NEW a \in Asset
  PROVE  /\ [d EXCEPT !.ready = FALSE] \in Dir /\ [d EXCEPT !.ready = TRUE] \in Dir
         /\ [d EXCEPT !.roms = FALSE] \in Dir
         /\ [d EXCEPT !.assets = d.assets \ {a}] \in Dir
         /\ [d EXCEPT !.assets = d.assets \cup {a}] \in Dir
BY DEF Dir

\* Returning from a run keeps the types.
LEMMA ReturnType ==
  ASSUME TypeOK, NEW p \in Process, NEW kind \in {"ok", "error"},
         NEW S \in SUBSET Asset, Return(p, kind, S)
  PROVE  result' \in [Process -> Result] /\ pc' \in [Process -> Pc]
BY DEF TypeOK, Return, Goto, Result, Pc

\* So does going on.
LEMMA GotoType ==
  ASSUME TypeOK, NEW p \in Process, NEW where \in Pc, Goto(p, where)
  PROVE  pc' \in [Process -> Pc]
BY DEF TypeOK, Goto

\* So does a scan that fails, as a miss or as an error.
LEMMA ScanFailsType ==
  ASSUME TypeOK, NEW p \in Process, ScanFails(p)
  PROVE  /\ result' \in [Process -> Result] /\ pc' \in [Process -> Pc]
         /\ hit' \in [Process -> BOOLEAN]
<1>1. hit' \in [Process -> BOOLEAN]
  BY DEF ScanFails, TypeOK
<1>2. CASE hit[p]
  <2>1. Goto(p, "clear") /\ result' = result
    BY <1>2 DEF ScanFails
  <2>2. QED
    BY <1>1, <2>1, GotoType DEF TypeOK, Pc
<1>3. CASE ~hit[p]
  <2>1. Return(p, "error", {})
    BY <1>3 DEF ScanFails, Fail
  <2>2. QED
    BY <1>1, <2>1, ReturnType
<1>4. QED
  BY <1>2, <1>3

\* Every step keeps the types.
LEMMA TypeStep == TypeOK /\ [Next]_vars => TypeOK'
<1> SUFFICES ASSUME TypeOK, [Next]_vars PROVE TypeOK'
  OBVIOUS
<1> USE DEF disk, scan, history, meetings, troubles
<1>0. MaxRuns \in Nat /\ MaxStops \in Nat /\ MaxFaults \in Nat /\ Optional \subseteq Asset
  BY CacheConstants
<1>1. CASE UNCHANGED vars
  BY <1>1 DEF TypeOK, vars
<1>2. CASE Next
  <2> PICK p \in Process : Step(p)
    BY <1>2 DEF Next
  <2>1. CASE Begin(p)
    <3>1. runs' \in 0..MaxRuns /\ serial' \in [Process -> 0..MaxRuns]
      BY <1>0, <2>1 DEF Begin, TypeOK
    <3>2. /\ pc' \in [Process -> Pc] /\ hit' \in [Process -> BOOLEAN]
          /\ failed' \in [Process -> BOOLEAN] /\ result' \in [Process -> Result]
      BY <2>1 DEF Begin, Goto, TypeOK, Pc, Result, NoResult
    <3>3. PICK k \in Key :
            /\ key' = [key EXCEPT ![p] = k]
            /\ alone' = [r \in Process |->
                 IF r = p THEN Rivals(p, k) = {} ELSE alone[r] /\ r \notin Rivals(p, k)]
            /\ overlapped' = overlapped \cup (IF Rivals(p, k) = {} THEN {} ELSE {k})
      BY <2>1 DEF Begin
    <3>4. key' \in [Process -> Key] /\ overlapped' \subseteq Key
      BY <3>3 DEF TypeOK
    <3>5. alone' \in [Process -> BOOLEAN]
      BY <3>3, Zenon DEF TypeOK
    <3>6. QED
      BY <2>1, <3>1, <3>2, <3>4, <3>5 DEF Begin, TypeOK
  <2>2. CASE Check(p)
    BY <2>2 DEF Check, Goto, TypeOK, Pc
  <2>3. CASE List(p)
    <3>1. Here(p).assets \subseteq Asset
      BY DEF Here, TypeOK, Dir
    <3>2. todo' \in [Process -> SUBSET Asset] /\ seen' \in [Process -> SUBSET Asset]
      BY <2>3, <3>1 DEF List, TypeOK
    <3>3. /\ result' \in [Process -> Result] /\ pc' \in [Process -> Pc]
          /\ hit' \in [Process -> BOOLEAN]
      <4>1. CASE Here(p).roms
        BY <2>3, <4>1 DEF List, Goto, TypeOK, Pc
      <4>2. CASE ~Here(p).roms
        BY <2>3, <4>2, ScanFailsType DEF List
      <4> QED BY <4>1, <4>2
    <3>4. QED
      BY <2>3, <3>2, <3>3 DEF List, TypeOK
  <2>4. CASE Read(p)
    <3>1. PICK a \in todo[p] :
            IF a \in Here(p).assets
            THEN /\ todo' = [todo EXCEPT ![p] = @ \ {a}]
                 /\ seen' = [seen EXCEPT ![p] = @ \cup {a}]
                 /\ UNCHANGED <<pc, hit, result>>
            ELSE ScanFails(p) /\ UNCHANGED <<todo, seen>>
      BY <2>4 DEF Read
    <3>2. a \in Asset
      BY <3>1 DEF TypeOK
    <3>3. todo' \in [Process -> SUBSET Asset] /\ seen' \in [Process -> SUBSET Asset]
      <4>1. CASE a \in Here(p).assets
        <5>1. /\ todo' = [todo EXCEPT ![p] = todo[p] \ {a}]
              /\ seen' = [seen EXCEPT ![p] = seen[p] \cup {a}]
          BY <3>1, <4>1
        <5>2. todo[p] \ {a} \in SUBSET Asset /\ seen[p] \cup {a} \in SUBSET Asset
          BY <3>2 DEF TypeOK
        <5>3. QED
          BY <5>1, <5>2 DEF TypeOK
      <4>2. CASE a \notin Here(p).assets
        BY <3>1, <4>2 DEF TypeOK
      <4> QED BY <4>1, <4>2
    <3>4. /\ result' \in [Process -> Result] /\ pc' \in [Process -> Pc]
          /\ hit' \in [Process -> BOOLEAN]
      <4>1. CASE a \in Here(p).assets
        BY <3>1, <4>1 DEF TypeOK
      <4>2. CASE a \notin Here(p).assets
        BY <3>1, <4>2, ScanFailsType
      <4> QED BY <4>1, <4>2
    <3>5. QED
      BY <2>4, <3>3, <3>4 DEF Read, TypeOK
  <2>5. CASE EndRead(p)
    <3>1. /\ result' \in [Process -> Result] /\ pc' \in [Process -> Pc]
          /\ hit' \in [Process -> BOOLEAN]
      <4>1. CASE ~hit[p]
        <5>1. Return(p, "ok", seen[p]) /\ hit' = hit
          BY <2>5, <4>1 DEF EndRead
        <5>2. seen[p] \in SUBSET Asset
          BY DEF TypeOK
        <5>3. QED
          BY <5>1, <5>2, ReturnType DEF TypeOK
      <4>2. CASE hit[p] /\ seen[p] = {}
        BY <2>5, <4>2, ScanFailsType DEF EndRead
      <4>3. CASE hit[p] /\ seen[p] # {}
        BY <2>5, <4>3, GotoType DEF EndRead, TypeOK, Pc
      <4> QED BY <4>1, <4>2, <4>3
    <3>2. QED
      BY <2>5, <3>1 DEF EndRead, TypeOK
  <2>6. CASE Clear(p)
    <3>1. [NoDir EXCEPT !.id = serial[p], !.roms = TRUE] \in Dir
      BY DEF NoDir, Dir, TypeOK
    <3>2. todo' \in [Process -> SUBSET Asset]
      BY <2>6 DEF Clear, TypeOK
    <3>3. QED
      BY <2>6, <3>1, <3>2, GotoType DEF Clear, TypeOK, Pc
  <2>7. CASE Write(p)
    <3>1. temp[p] \in Dir
      BY DEF TypeOK
    <3>2. PICK a \in Asset : /\ temp' = [temp EXCEPT ![p].assets = @ \cup {a}]
                             /\ todo' = [todo EXCEPT ![p] = @ \ {a}]
      BY <2>7 DEF Write, TypeOK
    <3>3. temp' = [temp EXCEPT ![p] = [temp[p] EXCEPT !.assets = temp[p].assets \cup {a}]]
      BY <3>2 DEF TypeOK
    <3>4. temp' \in [Process -> Dir]
      BY <3>1, <3>3, DirUpdates DEF TypeOK
    <3>5. todo' \in [Process -> SUBSET Asset]
      BY <3>2 DEF TypeOK
    <3>6. QED
      BY <2>7, <3>4, <3>5 DEF Write, TypeOK
  <2>8. CASE WriteReady(p)
    <3>1. temp[p] \in Dir
      BY DEF TypeOK
    <3>2. temp' = [temp EXCEPT ![p] = [temp[p] EXCEPT !.ready = TRUE]]
      BY <2>8 DEF WriteReady, TypeOK
    <3>3. [temp[p] EXCEPT !.ready = TRUE] \in Dir
      BY <3>1 DEF Dir
    <3>4. temp' \in [Process -> Dir]
      BY <3>2, <3>3 DEF TypeOK
    <3>5. QED
      BY <2>8, <3>4, GotoType DEF WriteReady, TypeOK, Pc
  <2>9. CASE Probe(p)
    BY <2>9 DEF Probe, Goto, TypeOK, Pc
  <2>10. CASE Open(p)
    <3>1. Here(p).id \in 0..MaxRuns
      BY DEF Here, TypeOK, Dir
    <3>2. CASE Exists(Here(p))
      <4>1. Here(p).id \in 1..MaxRuns
        BY <1>0, <3>1, <3>2 DEF Exists
      <4>2. QED
        BY <2>10, <3>1, <3>2, <4>1, GotoType DEF Open, TypeOK, Pc
    <3>3. CASE ~Exists(Here(p))
      <4>1. result' \in [Process -> Result] /\ pc' \in [Process -> Pc]
        BY <2>10, <3>3, ReturnType DEF Open, Fail
      <4>2. QED
        BY <2>10, <3>3, <4>1 DEF Open, TypeOK
    <3> QED BY <3>2, <3>3
  <2>11. CASE RemoveEntry(p)
    <3>1. key[p] \in Key /\ base[key[p]] \in Dir
      BY DEF TypeOK
    <3>2. /\ result' \in [Process -> Result] /\ pc' \in [Process -> Pc]
      BY <2>11, ReturnType DEF RemoveEntry, Fail, TypeOK
    <3>3. base' \in [Key -> Dir]
      <4>1. CASE base' = [base EXCEPT ![key[p]].ready = FALSE]
        <5>1. base' = [base EXCEPT ![key[p]] = [base[key[p]] EXCEPT !.ready = FALSE]]
          BY <3>1, <4>1 DEF TypeOK
        <5>2. [base[key[p]] EXCEPT !.ready = FALSE] \in Dir
          BY <3>1 DEF Dir
        <5>3. QED
          BY <5>1, <5>2, <3>1 DEF TypeOK
      <4>2. CASE \E a \in Here(p).assets : base' = [base EXCEPT ![key[p]].assets = @ \ {a}]
        <5>1. PICK a : base' = [base EXCEPT ![key[p]].assets = @ \ {a}]
          BY <4>2
        <5>2. base' = [base EXCEPT ![key[p]] =
                        [base[key[p]] EXCEPT !.assets = base[key[p]].assets \ {a}]]
          BY <3>1, <5>1 DEF TypeOK
        <5>3. [base[key[p]] EXCEPT !.assets = base[key[p]].assets \ {a}] \in Dir
          BY <3>1 DEF Dir
        <5>4. QED
          BY <5>2, <5>3, <3>1 DEF TypeOK
      <4>3. CASE base' = [base EXCEPT ![key[p]].roms = FALSE]
        <5>1. base' = [base EXCEPT ![key[p]] = [base[key[p]] EXCEPT !.roms = FALSE]]
          BY <3>1, <4>3 DEF TypeOK
        <5>2. [base[key[p]] EXCEPT !.roms = FALSE] \in Dir
          BY <3>1 DEF Dir
        <5>3. QED
          BY <5>1, <5>2, <3>1 DEF TypeOK
      <4>4. CASE base' = base
        BY <4>4 DEF TypeOK
      <4>5. QED
        BY <2>11, <4>1, <4>2, <4>3, <4>4 DEF RemoveEntry
    <3>4. QED
      BY <2>11, <3>2, <3>3 DEF RemoveEntry, TypeOK
  <2>12. CASE RemoveBase(p)
    <3>1. NoDir \in Dir
      BY <1>0 DEF NoDir, Dir
    <3>2. base' \in [Key -> Dir]
      BY <2>12, <3>1 DEF RemoveBase, TypeOK
    <3>3. result' \in [Process -> Result] /\ pc' \in [Process -> Pc]
      <4>1. CASE Goto(p, "rename") /\ result' = result
        BY <4>1, GotoType DEF Pc, TypeOK
      <4>2. CASE Fail(p)
        BY <4>2, ReturnType DEF Fail
      <4>3. QED
        BY <2>12, <4>1, <4>2 DEF RemoveBase
    <3>4. QED
      BY <2>12, <3>2, <3>3 DEF RemoveBase, TypeOK
  <2>13. CASE Rename(p)
    <3>1. NoDir \in Dir /\ temp[p] \in Dir /\ key[p] \in Key
      BY <1>0 DEF NoDir, Dir, TypeOK
    <3>2. CASE Here(p).ready \/ Here(p).roms
      BY <2>13, <3>2, ReturnType DEF Rename, Fail, TypeOK
    <3>3. CASE ~(Here(p).ready \/ Here(p).roms)
      <4>1. /\ base' \in [Key -> Dir] /\ temp' \in [Process -> Dir]
            /\ activated' \subseteq Key
        BY <2>13, <3>1, <3>3 DEF Rename, TypeOK
      <4>2. pc' \in [Process -> Pc] /\ result' = result
        BY <2>13, <3>3, GotoType DEF Rename, Pc
      <4>3. QED
        BY <2>13, <4>1, <4>2 DEF Rename, TypeOK
    <3> QED BY <3>2, <3>3
  <2>14. CASE Truncate(p)
    BY <2>14, GotoType DEF Truncate, TypeOK, Pc
  <2>15. CASE Record(p)
    <3>1. seen[p] \in SUBSET Asset /\ key[p] \in Key
      BY DEF TypeOK
    <3>2. result' \in [Process -> Result] /\ pc' \in [Process -> Pc]
      BY <2>15, <3>1, ReturnType, GotoType DEF Record, TypeOK, Pc
    <3>3. QED
      BY <2>15, <3>1, <3>2 DEF Record, TypeOK
  <2>16. CASE Stop(p)
    BY <1>0, <2>16, GotoType DEF Stop, TypeOK, Pc
  <2>18. CASE Misread(p)
    BY <1>0, <2>18, GotoType DEF Misread, Fault, TypeOK, Pc
  <2>19. CASE PassOver(p)
    <3>1. PICK a \in Optional : /\ todo' = [todo EXCEPT ![p] = @ \ {a}]
                                /\ unread' = [unread EXCEPT ![serial[p]] = @ \cup {a}]
      BY <2>19 DEF PassOver
    <3>2. todo' \in [Process -> SUBSET Asset] /\ unread' \in [1..MaxRuns -> SUBSET Optional]
      BY <3>1 DEF TypeOK
    <3>3. QED
      BY <1>0, <2>19, <3>2 DEF PassOver, Fault, TypeOK
  <2>20. CASE Overlook(p)
    <3>1. /\ temp' \in [Process -> Dir] /\ todo' \in [Process -> SUBSET Asset]
          /\ pc' \in [Process -> Pc]
      <4>1. CASE pc[p] = "clear"
        <5>1. PICK d \in [id : {serial[p]}, ready : BOOLEAN, roms : {TRUE},
                          assets : SUBSET Asset] : temp' = [temp EXCEPT ![p] = d]
          BY <2>20, <4>1 DEF Overlook
        <5>2. d \in Dir
          BY DEF Dir, TypeOK
        <5>3. QED
          <6>1. temp' \in [Process -> Dir]
            BY <5>1, <5>2 DEF TypeOK
          <6>2. todo' \in [Process -> SUBSET Asset]
            BY <2>20, <4>1 DEF Overlook, TypeOK
          <6>3. pc' \in [Process -> Pc]
            BY <2>20, <4>1, GotoType DEF Overlook, Pc
          <6>4. QED
            BY <6>1, <6>2, <6>3
      <4>2. CASE pc[p] = "probe"
        BY <2>20, <4>2, GotoType DEF Overlook, TypeOK, Pc
      <4> QED BY <2>20, <4>1, <4>2 DEF Overlook
    <3>2. QED
      <4>1. faults' \in 0..MaxFaults /\ failed' \in [Process -> BOOLEAN]
        BY <1>0, <2>20 DEF Overlook, Fault, TypeOK
      <4>2. QED
        BY <2>20, <3>1, <4>1 DEF Overlook, TypeOK
  <2>21. CASE Break(p)
    <3>1. result' \in [Process -> Result] /\ pc' \in [Process -> Pc]
      BY <2>21, ReturnType DEF Break, Fail
    <3>2. QED
      <4>1. faults' \in 0..MaxFaults /\ failed' \in [Process -> BOOLEAN]
        BY <1>0, <2>21 DEF Break, Fault, TypeOK
      <4>2. QED
        BY <2>21, <3>1, <4>1 DEF Break, TypeOK
  <2>17. QED
    BY <2>1, <2>2, <2>3, <2>4, <2>5, <2>6, <2>7, <2>8, <2>9, <2>10, <2>11, <2>12,
       <2>13, <2>14, <2>15, <2>16, <2>18, <2>19, <2>20, <2>21 DEF Step, Mishap
<1>3. QED
  BY <1>1, <1>2

\* Every directory, program counter and result keeps its type, whatever the
\* processes do to each other's files.
THEOREM TypeCorrect == Spec => []TypeOK
<1> QED BY TypeInit, TypeStep, PTL DEF Spec
-----------------------------------------------------------------------------
(***************************************************************************)
(* The inductive invariant.                                                *)
(***************************************************************************)

Working(p) == pc[p] # "idle"

\* What a run makes aside: a directory named after the run, which has every entry
\* and the marker before the run looks at what it will replace.
Staged ==
  \A p \in Process :
    /\ Working(p) => serial[p] \in 1..runs
    /\ pc[p] \in {"write", "probe", "open", "remove", "rename"} =>
         temp[p].id = serial[p] /\ temp[p].roms
    /\ pc[p] = "write" =>
         Asset \ (todo[p] \cup unread[serial[p]]) \subseteq temp[p].assets
    /\ pc[p] \in {"probe", "open", "remove", "rename"} => Whole(temp[p])
    /\ pc[p] \in {"check", "clear", "write", "probe", "open", "remove", "rename"} => ~hit[p]

\* What the disk has was put there by a rename, and what a run reads or records
\* was put in place before; what a run removes is known to be dismantled.
Placed ==
  /\ \A k \in Key : base[k].ready \/ base[k].roms => Exists(base[k])
  /\ \A k \in Key : Exists(base[k]) => k \in activated
  /\ \A p \in Process :
       /\ pc[p] \in {"list", "read", "truncate", "record"} => key[p] \in activated
       /\ pc[p] = "remove" => removing[p] \in dismantled

\* While nothing is dismantled a scan misses nothing that could be read.
Complete ==
  dismantled = {} =>
    \A p \in Process :
      /\ pc[p] = "read" => Covers(todo[p] \cup seen[p])
      /\ pc[p] \in {"truncate", "record"} /\ hit[p] => Covers(seen[p])
      /\ result[p].kind = "ok" => Covers(result[p].assets)

\* A run that is alone has no rival, and without overlap every run is alone.
Unrivalled ==
  \A p \in Process :
    Working(p) =>
      /\ alone[p] => Rivals(p, key[p]) = {}
      /\ overlapped = {} => alone[p]

\* What a run without rivals finds: what it has just seen or put there itself.
Finds(p) ==
  /\ pc[p] \in {"list", "read", "truncate", "record"} => Here(p).roms
  /\ pc[p] = "read" => todo[p] \subseteq Here(p).assets
  /\ pc[p] = "open" => Exists(Here(p))
  /\ pc[p] = "remove" => Here(p).id = removing[p]
  /\ pc[p] = "rename" => ~Exists(Here(p)) \/ failed[p]

Sole ==
  /\ \A p \in Process : Working(p) /\ alone[p] => Finds(p)
  /\ LoneRunSucceeds

\* Without overlap, and with hit checks that can read, a run that makes the directory
\* anew finds none, and any other finds one.
Undisturbed ==
  overlapped = {} /\ misread = {} =>
    /\ dismantled = {}
    /\ \A p \in Process :
         /\ pc[p] \in {"clear", "write", "probe", "open", "remove", "rename"} =>
              ~Exists(Here(p))
         /\ pc[p] \in {"list", "read", "truncate", "record"} => Exists(Here(p))

\* A directory, in place, being made or being removed, belongs to one key.
Names(i, k) ==
  \/ base[k].id = i
  \/ \E p \in Process :
       /\ Working(p) /\ key[p] = k
       /\ serial[p] = i \/ (pc[p] = "remove" /\ removing[p] = i)

Owned ==
  \A k \in Key, i \in 1..MaxRuns : Names(i, k) =>
    /\ i <= runs
    /\ \A l \in Key : Names(i, l) => l = k


-----------------------------------------------------------------------------
(***************************************************************************)
(* What a step leaves alone.                                               *)
(***************************************************************************)

Untouched(r) ==
  /\ pc'[r] = pc[r] /\ key'[r] = key[r] /\ hit'[r] = hit[r]
  /\ todo'[r] = todo[r] /\ seen'[r] = seen[r] /\ removing'[r] = removing[r]
  /\ result'[r] = result[r] /\ serial'[r] = serial[r] /\ temp'[r] = temp[r]
  /\ failed'[r] = failed[r]

\* A step of p touches nothing of another process.
LEMMA OthersUntouched ==
  ASSUME TypeOK, NEW p \in Process, Step(p), NEW r \in Process, r # p
  PROVE  Untouched(r)
<1> USE DEF Untouched, TypeOK, disk, scan, history, meetings, troubles, Goto, Return,
    Fail, ScanFails
<1>1. CASE Begin(p)
  BY <1>1 DEF Begin
<1>2. CASE Check(p)
  BY <1>2 DEF Check
<1>3. CASE List(p)
  BY <1>3 DEF List
<1>4. CASE Read(p)
  BY <1>4 DEF Read
<1>5. CASE EndRead(p)
  BY <1>5 DEF EndRead
<1>6. CASE Clear(p)
  BY <1>6 DEF Clear
<1>7. CASE Write(p)
  BY <1>7 DEF Write
<1>8. CASE WriteReady(p)
  BY <1>8 DEF WriteReady
<1>9. CASE Probe(p)
  BY <1>9 DEF Probe
<1>10. CASE Open(p)
  BY <1>10 DEF Open
<1>11. CASE RemoveEntry(p)
  BY <1>11 DEF RemoveEntry
<1>12. CASE RemoveBase(p)
  BY <1>12 DEF RemoveBase
<1>13. CASE Rename(p)
  BY <1>13 DEF Rename
<1>14. CASE Truncate(p)
  BY <1>14 DEF Truncate
<1>15. CASE Record(p)
  BY <1>15 DEF Record
<1>16. CASE Mishap(p)
  BY <1>16 DEF Mishap, Stop, Misread, PassOver, Overlook, Break
<1>17. QED
  BY <1>1, <1>2, <1>3, <1>4, <1>5, <1>6, <1>7, <1>8, <1>9, <1>10, <1>11, <1>12,
     <1>13, <1>14, <1>15, <1>16 DEF Step

\* What stays as it is in every step but the first of a run.
Continued ==
  /\ key' = key /\ alone' = alone /\ overlapped' = overlapped
  /\ runs' = runs /\ serial' = serial

\* Only a run under way takes a step, and none but Begin concerns the others.
LEMMA RunContinues ==
  ASSUME NEW p \in Process, Step(p), ~Begin(p)
  PROVE  Working(p) /\ Continued
<1> USE DEF Working, Continued, scan, history, meetings, troubles
<1>1. CASE Check(p) \/ List(p) \/ Read(p) \/ EndRead(p) \/ Clear(p)
  BY <1>1 DEF Check, List, Read, EndRead, Clear
<1>2. CASE Write(p) \/ WriteReady(p) \/ Probe(p) \/ Open(p) \/ RemoveEntry(p)
  BY <1>2 DEF Write, WriteReady, Probe, Open, RemoveEntry
<1>3. CASE RemoveBase(p) \/ Rename(p) \/ Truncate(p) \/ Record(p) \/ Mishap(p)
  BY <1>3 DEF RemoveBase, Rename, Truncate, Record, Mishap, Stop, Misread, PassOver,
    Overlook, Break
<1>4. QED
  BY <1>1, <1>2, <1>3 DEF Step

\* The cache directory changes only while a run removes or renames.
LEMMA BaseKept ==
  ASSUME NEW p \in Process, Step(p), ~RemoveEntry(p), ~RemoveBase(p), ~Rename(p)
  PROVE  base' = base
<1> USE DEF disk
<1>1. CASE Begin(p) \/ Check(p) \/ List(p) \/ Read(p) \/ EndRead(p) \/ Clear(p)
  BY <1>1 DEF Begin, Check, List, Read, EndRead, Clear
<1>2. CASE Write(p) \/ WriteReady(p) \/ Probe(p) \/ Open(p)
  BY <1>2 DEF Write, WriteReady, Probe, Open
<1>3. CASE Truncate(p) \/ Record(p) \/ Mishap(p)
  BY <1>3 DEF Truncate, Record, Mishap, Stop, Misread, PassOver, Overlook, Break
<1>4. QED
  BY <1>1, <1>2, <1>3 DEF Step

\* Removing an entry leaves the directory with its name and adds nothing.
LEMMA EntryRemoved ==
  ASSUME TypeOK, NEW p \in Process, RemoveEntry(p)
  PROVE  /\ \A k \in Key : k # key[p] => base'[k] = base[k]
         /\ \A k \in Key :
              /\ base'[k].id = base[k].id
              /\ base'[k].ready => base[k].ready
              /\ base'[k].roms => base[k].roms
<1>1. key[p] \in Key /\ base \in [Key -> Dir]
  BY DEF TypeOK
<1>2. CASE base' = [base EXCEPT ![key[p]].ready = FALSE]
  BY <1>1, <1>2 DEF Dir
<1>3. CASE \E a \in Here(p).assets : base' = [base EXCEPT ![key[p]].assets = @ \ {a}]
  BY <1>1, <1>3 DEF Dir
<1>4. CASE base' = [base EXCEPT ![key[p]].roms = FALSE]
  BY <1>1, <1>4 DEF Dir
<1>5. CASE base' = base
  BY <1>5
<1>6. QED
  BY <1>2, <1>3, <1>4, <1>5 DEF RemoveEntry

\* Only the directory of the key of the run changes.
LEMMA OtherKeysKept ==
  ASSUME TypeOK, NEW p \in Process, Step(p), NEW k \in Key, k # key[p]
  PROVE  base'[k] = base[k]
<1>1. CASE RemoveEntry(p)
  BY <1>1, EntryRemoved
<1>2. CASE RemoveBase(p)
  BY <1>2 DEF RemoveBase, TypeOK
<1>3. CASE Rename(p)
  BY <1>3 DEF Rename, TypeOK
<1>4. QED
  BY <1>1, <1>2, <1>3, BaseKept

\* What has been put in place, and what some process began to remove, is recorded
\* for good.
LEMMA HistoryGrows ==
  ASSUME NEW p \in Process, Step(p)
  PROVE  /\ dismantled \subseteq dismantled' /\ activated \subseteq activated'
         /\ misread \subseteq misread'
<1> USE DEF history, meetings, troubles
<1>1. CASE Begin(p) \/ Check(p) \/ List(p) \/ Read(p) \/ EndRead(p) \/ Clear(p)
  BY <1>1 DEF Begin, Check, List, Read, EndRead, Clear
<1>2. CASE Write(p) \/ WriteReady(p) \/ Probe(p) \/ Open(p)
  BY <1>2 DEF Write, WriteReady, Probe, Open
<1>3. CASE RemoveEntry(p) \/ RemoveBase(p) \/ Rename(p)
  BY <1>3 DEF RemoveEntry, RemoveBase, Rename
<1>4. CASE Truncate(p) \/ Record(p) \/ Mishap(p)
  BY <1>4 DEF Truncate, Record, Mishap, Stop, Misread, PassOver, Overlook, Break
<1>5. QED
  BY <1>1, <1>2, <1>3, <1>4 DEF Step

\* So is what a run could not read, which another run adds nothing to.
LEMMA UnreadGrows ==
  ASSUME TypeOK, NEW p \in Process, Step(p)
  PROVE  \A i \in 1..MaxRuns : unread[i] \subseteq unread'[i]
<1> USE DEF history, meetings, troubles
<1>1. CASE PassOver(p)
  <2>1. PICK a : unread' = [unread EXCEPT ![serial[p]] = @ \cup {a}]
    BY <1>1 DEF PassOver
  <2>2. QED
    BY <2>1 DEF TypeOK
<1>2. CASE unread' = unread
  BY <1>2
<1>3. CASE Begin(p) \/ Check(p) \/ List(p) \/ Read(p) \/ EndRead(p) \/ Clear(p)
  BY <1>2, <1>3 DEF Begin, Check, List, Read, EndRead, Clear
<1>4. CASE Write(p) \/ WriteReady(p) \/ Probe(p) \/ Open(p)
  BY <1>2, <1>4 DEF Write, WriteReady, Probe, Open
<1>5. CASE RemoveEntry(p) \/ RemoveBase(p) \/ Rename(p) \/ Truncate(p) \/ Record(p)
  BY <1>2, <1>5 DEF RemoveEntry, RemoveBase, Rename, Truncate, Record
<1>6. CASE Mishap(p)
  BY <1>1, <1>2, <1>6 DEF Mishap, Stop, Misread, Overlook, Break
<1>7. QED
  BY <1>3, <1>4, <1>5, <1>6 DEF Step

\* What a set covers it covers for good.
LEMMA CoversKept ==
  ASSUME TypeOK, NEW p \in Process, Step(p), NEW S, Covers(S)
  PROVE  \A a \in Asset \ S : \E i \in 1..MaxRuns : a \in unread'[i]
BY UnreadGrows DEF Covers

\* A directory that stays as it is stays whole.
LEMMA WholeKept ==
  ASSUME TypeOK, NEW p \in Process, Step(p), NEW d \in Dir, Exists(d), Whole(d)
  PROVE  d.ready /\ d.roms /\ Asset \ unread'[d.id] \subseteq d.assets
<1>1. d.id \in 1..MaxRuns
  BY CacheConstants DEF Dir, Exists
<1>2. QED
  BY <1>1, UnreadGrows DEF Whole
-----------------------------------------------------------------------------
(***************************************************************************)
(* Each part of the invariant, step by step.                               *)
(***************************************************************************)

\* The part of Staged that speaks of one process.
StagedRun(p) ==
  /\ Working(p) => serial[p] \in 1..runs
  /\ pc[p] \in {"write", "probe", "open", "remove", "rename"} =>
       temp[p].id = serial[p] /\ temp[p].roms
  /\ pc[p] = "write" =>
       Asset \ (todo[p] \cup unread[serial[p]]) \subseteq temp[p].assets
  /\ pc[p] \in {"probe", "open", "remove", "rename"} => Whole(temp[p])
  /\ pc[p] \in {"check", "clear", "write", "probe", "open", "remove", "rename"} => ~hit[p]

\* What a run makes aside stays as it made it, since no other run has that directory.
LEMMA StagedStep == TypeOK /\ Staged /\ [Next]_vars => Staged'
<1> SUFFICES ASSUME TypeOK, Staged, [Next]_vars PROVE Staged'
  OBVIOUS
<1> USE DEF disk, scan, history, meetings, troubles
<1>0. \A p \in Process : StagedRun(p)
  BY DEF Staged, StagedRun
<1>1. CASE UNCHANGED vars
  BY <1>1 DEF Staged, vars, Working, Whole
<1>2. CASE Next
  <2> PICK p \in Process : Step(p)
    BY <1>2 DEF Next
  <2>1. runs \in Nat /\ runs' \in Nat /\ runs <= runs'
    <3>1. CASE Begin(p)
      BY <3>1 DEF Begin, TypeOK
    <3>2. CASE ~Begin(p)
      BY <3>2, RunContinues DEF Continued, TypeOK
    <3> QED BY <3>1, <3>2
  <2>2. ASSUME NEW r \in Process, r # p PROVE StagedRun(r)'
    <3>1. Untouched(r) /\ StagedRun(r)
      BY <1>0, <2>2, OthersUntouched
    <3>2. CASE ~Working(r)
      BY <3>1, <3>2 DEF StagedRun, Untouched, Working
    <3>3. CASE Working(r)
      <4>1. serial[r] \in 1..runs /\ serial[r] \in 1..MaxRuns
        BY <3>1, <3>3, CacheConstants DEF StagedRun, TypeOK
      <4>2. unread[serial[r]] \subseteq unread'[serial[r]]
        BY <4>1, UnreadGrows
      <4>3. serial'[r] \in 1..runs'
        BY <2>1, <3>1, <4>1 DEF Untouched
      <4>4. QED
        BY <3>1, <4>2, <4>3 DEF StagedRun, Untouched, Working, Whole
    <3>4. QED
      BY <3>2, <3>3
  <2>3. StagedRun(p)'
    <3>0. /\ StagedRun(p) /\ temp \in [Process -> Dir] /\ pc \in [Process -> Pc]
          /\ hit \in [Process -> BOOLEAN] /\ todo \in [Process -> SUBSET Asset]
          /\ unread \in [1..MaxRuns -> SUBSET Optional]
      BY <1>0 DEF TypeOK
    <3> USE DEF StagedRun, Working, Goto, Return, Fail, ScanFails
    <3>1. CASE Begin(p)
      <4>1. /\ serial'[p] = runs' /\ runs' = runs + 1 /\ ~hit'[p]
            /\ pc'[p] \in {"check", "list"}
        BY <3>1 DEF Begin, TypeOK
      <4>2. QED
        BY <2>1, <4>1
    <3>2. CASE ~Begin(p)
      <4>0. serial' = serial /\ runs' = runs /\ Working(p)
        BY <3>2, RunContinues DEF Continued
      <4>1. CASE Check(p)
        BY <3>0, <4>0, <4>1 DEF Check
      <4>2. CASE List(p)
        BY <3>0, <4>0, <4>2 DEF List
      <4>3. CASE Read(p)
        BY <3>0, <4>0, <4>3 DEF Read
      <4>4. CASE EndRead(p)
        BY <3>0, <4>0, <4>4 DEF EndRead
      <4>5. CASE Clear(p)
        <5>1. /\ temp'[p] = [NoDir EXCEPT !.id = serial[p], !.roms = TRUE]
              /\ pc'[p] = "write" /\ hit' = hit /\ pc[p] = "clear" /\ todo'[p] = Asset
          BY <3>0, <4>5 DEF Clear
        <5>2. QED
          BY <3>0, <4>0, <5>1 DEF NoDir
      <4>6. CASE Write(p)
        <5>1. PICK a \in todo[p] : /\ temp' = [temp EXCEPT ![p].assets = @ \cup {a}]
                                  /\ todo' = [todo EXCEPT ![p] = @ \ {a}]
          BY <4>6 DEF Write
        <5>2. /\ temp'[p].id = temp[p].id /\ temp'[p].roms = temp[p].roms
              /\ temp'[p].assets = temp[p].assets \cup {a} /\ todo'[p] = todo[p] \ {a}
          BY <3>0, <5>1 DEF Dir
        <5>3. pc' = pc /\ pc[p] = "write" /\ hit' = hit /\ unread' = unread
          BY <4>6 DEF Write
        <5>4. QED
          BY <3>0, <4>0, <5>2, <5>3
      <4>7. CASE WriteReady(p)
        <5>1. /\ temp' = [temp EXCEPT ![p].ready = TRUE] /\ todo[p] = {}
              /\ pc'[p] = "probe" /\ pc[p] = "write" /\ hit' = hit /\ unread' = unread
          BY <3>0, <4>7 DEF WriteReady
        <5>2. /\ temp'[p].id = temp[p].id /\ temp'[p].roms = temp[p].roms
              /\ temp'[p].ready /\ temp'[p].assets = temp[p].assets
          BY <3>0, <5>1 DEF Dir
        <5>3. QED
          BY <3>0, <4>0, <5>1, <5>2 DEF Whole
      <4>8. CASE Probe(p)
        BY <3>0, <4>0, <4>8 DEF Probe, Whole
      <4>9. CASE Open(p)
        BY <3>0, <4>0, <4>9 DEF Open, Whole
      <4>10. CASE RemoveEntry(p)
        BY <3>0, <4>0, <4>10 DEF RemoveEntry, Whole
      <4>11. CASE RemoveBase(p)
        BY <3>0, <4>0, <4>11 DEF RemoveBase, Whole
      <4>12. CASE Rename(p)
        BY <3>0, <4>0, <4>12 DEF Rename
      <4>13. CASE Truncate(p)
        BY <3>0, <4>0, <4>13 DEF Truncate
      <4>14. CASE Record(p)
        BY <3>0, <4>0, <4>14 DEF Record
      <4>15. CASE Mishap(p)
        <5>1. CASE Stop(p) \/ Misread(p) \/ Break(p)
          BY <3>0, <4>0, <5>1 DEF Stop, Misread, Break
        <5>2. CASE PassOver(p)
          <6>1. PICK a \in todo[p] :
                  /\ todo' = [todo EXCEPT ![p] = @ \ {a}]
                  /\ unread' = [unread EXCEPT ![serial[p]] = @ \cup {a}]
            BY <5>2 DEF PassOver
          <6>2. serial[p] \in 1..MaxRuns
            BY <3>0, <4>0, CacheConstants DEF TypeOK
          <6>3. /\ todo'[p] = todo[p] \ {a}
                /\ unread'[serial[p]] = unread[serial[p]] \cup {a}
            BY <3>0, <6>1, <6>2
          <6>4. pc' = pc /\ pc[p] = "write" /\ hit' = hit /\ temp' = temp
            BY <5>2 DEF PassOver
          <6>5. QED
            BY <3>0, <4>0, <6>3, <6>4
        <5>3. CASE Overlook(p)
          <6>1. hit' = hit /\ unread' = unread
            BY <5>3 DEF Overlook
          <6>2. CASE pc[p] = "clear"
            <7>1. PICK d \in [id : {serial[p]}, ready : BOOLEAN, roms : {TRUE},
                              assets : SUBSET Asset] : temp' = [temp EXCEPT ![p] = d]
              BY <5>3, <6>2 DEF Overlook
            <7>2. temp'[p].id = serial[p] /\ temp'[p].roms
              BY <3>0, <7>1
            <7>3. todo'[p] = Asset /\ pc'[p] = "write"
              BY <3>0, <5>3, <6>2 DEF Overlook
            <7>4. QED
              BY <3>0, <4>0, <6>1, <6>2, <7>2, <7>3
          <6>3. CASE pc[p] = "probe"
            BY <3>0, <4>0, <5>3, <6>1, <6>3 DEF Overlook, Whole
          <6>4. QED
            BY <5>3, <6>2, <6>3 DEF Overlook
        <5>4. QED
          BY <4>15, <5>1, <5>2, <5>3 DEF Mishap
      <4>16. QED
        BY <3>2, <4>1, <4>2, <4>3, <4>4, <4>5, <4>6, <4>7, <4>8, <4>9, <4>10, <4>11,
           <4>12, <4>13, <4>14, <4>15 DEF Step
    <3>3. QED
      BY <3>1, <3>2
  <2>4. QED
    BY <2>2, <2>3 DEF Staged, StagedRun
<1>3. QED
  BY <1>1, <1>2

\* What a rename puts in place.
LEMMA Renamed ==
  ASSUME TypeOK, Staged, NEW p \in Process, Rename(p)
  PROVE  \/ base' = base /\ activated' = activated /\ pc'[p] = "idle"
         \/ /\ base' = [base EXCEPT ![key[p]] = temp[p]]
            /\ Whole(temp[p]) /\ temp[p].id = serial[p] /\ Exists(temp[p])
            /\ activated' = activated \cup {key[p]}
            /\ pc'[p] = "truncate"
<1>1. /\ Whole(temp[p]) /\ temp[p].id = serial[p] /\ serial[p] \in 1..runs
      /\ pc \in [Process -> Pc] /\ runs \in Nat
  BY DEF Rename, Staged, Working, TypeOK
<1>2. Exists(temp[p])
  BY <1>1 DEF Exists
<1>3. CASE Here(p).ready \/ Here(p).roms
  BY <1>1, <1>3 DEF Rename, Fail, Return, Goto
<1>4. CASE ~(Here(p).ready \/ Here(p).roms)
  BY <1>1, <1>2, <1>4 DEF Rename, Goto
<1>5. QED
  BY <1>3, <1>4

\* A directory in place is known to be and has a name.
PlacedDir(k) ==
  /\ base[k].ready \/ base[k].roms => Exists(base[k])
  /\ Exists(base[k]) => k \in activated
  /\ Exists(base[k]) /\ base[k].id \notin dismantled => Whole(base[k])

\* Removal, replacement and death leave a known directory or none.
LEMMA PlacedDirStep ==
  ASSUME TypeOK, Staged, \A k \in Key : PlacedDir(k),
         \A r \in Process : pc[r] = "remove" => removing[r] \in dismantled,
         NEW p \in Process, Step(p), NEW k \in Key
  PROVE  PlacedDir(k)'
<1>1. dismantled \subseteq dismantled' /\ activated \subseteq activated'
  BY HistoryGrows
<1>2. PlacedDir(k)
  OBVIOUS
<1>3. CASE base'[k] = base[k]
  <2>1. base'[k] \in Dir /\ base[k] \in Dir
    BY <1>3 DEF TypeOK
  <2>2. CASE Exists(base[k]) /\ base[k].id \notin dismantled
    BY <1>1, <1>2, <1>3, <2>1, <2>2, WholeKept DEF PlacedDir, Exists, Whole
  <2>3. CASE ~(Exists(base[k]) /\ base[k].id \notin dismantled)
    BY <1>1, <1>2, <1>3, <2>3 DEF PlacedDir, Exists
  <2>4. QED
    BY <2>2, <2>3
<1>4. CASE base'[k] # base[k]
  <2>1. k = key[p] /\ base \in [Key -> Dir]
    BY <1>4, OtherKeysKept DEF TypeOK
  <2>2. CASE RemoveEntry(p)
    <3>1. base[k].id = removing[p] /\ removing[p] \in dismantled
      BY <2>1, <2>2 DEF RemoveEntry, Here
    <3>2. /\ base'[k].id = base[k].id
          /\ base'[k].ready => base[k].ready
          /\ base'[k].roms => base[k].roms
      BY <2>2, EntryRemoved
    <3>3. QED
      BY <1>1, <1>2, <3>1, <3>2 DEF PlacedDir, Exists
  <2>3. CASE RemoveBase(p)
    <3>1. base'[k] = NoDir
      BY <1>4, <2>1, <2>3 DEF RemoveBase
    <3>2. QED
      BY <3>1 DEF PlacedDir, Exists, NoDir
  <2>4. CASE Rename(p)
    <3>1. /\ base'[k] = temp[p] /\ Whole(temp[p]) /\ Exists(temp[p])
          /\ k \in activated'
      BY <1>4, <2>1, <2>4, Renamed
    <3>2. temp[p] \in Dir
      BY DEF TypeOK
    <3>3. QED
      BY <3>1, <3>2, WholeKept DEF PlacedDir, Whole, Exists
  <2>5. QED
    BY <1>4, <2>2, <2>3, <2>4, BaseKept
<1>5. QED
  BY <1>3, <1>4

\* What a run reads or records was put in place, what it removes is known to be.
PlacedRun(p) ==
  /\ pc[p] \in {"list", "read", "truncate", "record"} => key[p] \in activated
  /\ pc[p] = "remove" => removing[p] \in dismantled

\* A run gets to its scan and its record only by way of a directory in place.
LEMMA PlacedRunStep ==
  ASSUME TypeOK, Staged, \A k \in Key : PlacedDir(k), \A r \in Process : PlacedRun(r),
         NEW p \in Process, Step(p), NEW r \in Process
  PROVE  PlacedRun(r)'
<1>1. dismantled \subseteq dismantled' /\ activated \subseteq activated'
  BY HistoryGrows
<1>2. CASE r # p
  BY <1>1, <1>2, OthersUntouched DEF PlacedRun, Untouched
<1>3. CASE r = p
  <2> USE <1>3
  <2>0. /\ PlacedRun(p) /\ pc \in [Process -> Pc] /\ key[p] \in Key
        /\ removing \in [Process -> 0..MaxRuns]
    BY DEF TypeOK
  <2> USE DEF PlacedRun, Goto, Return, Fail, ScanFails, disk, scan, history, meetings,
      troubles
  <2>1. CASE Begin(p)
    <3>1. PICK k \in Key :
            /\ key' = [key EXCEPT ![p] = k]
            /\ \/ Goto(p, "check")
               \/ base[k].ready /\ base[k].roms /\ Goto(p, "list")
      BY <2>1 DEF Begin
    <3>2. key'[p] = k
      BY <3>1 DEF TypeOK
    <3>3. base[k].ready => k \in activated
      BY DEF PlacedDir
    <3>4. QED
      BY <1>1, <2>0, <3>1, <3>2, <3>3
  <2>2. CASE ~Begin(p)
    <3>0. key' = key
      BY <2>2, RunContinues DEF Continued
    <3>1. CASE Check(p)
      <4>1. Here(p).ready => Exists(Here(p))
        BY <2>0 DEF Here, PlacedDir
      <4>2. Exists(Here(p)) => key[p] \in activated
        BY <2>0 DEF Here, PlacedDir
      <4>3. QED
        BY <1>1, <2>0, <3>0, <3>1, <4>1, <4>2 DEF Check
    <3>2. CASE List(p) \/ Read(p) \/ EndRead(p)
      BY <1>1, <2>0, <3>0, <3>2 DEF List, Read, EndRead
    <3>3. CASE Clear(p) \/ Write(p) \/ WriteReady(p) \/ Probe(p)
      BY <1>1, <2>0, <3>0, <3>3 DEF Clear, Write, WriteReady, Probe
    <3>4. CASE Open(p)
      BY <1>1, <2>0, <3>0, <3>4 DEF Open
    <3>5. CASE RemoveEntry(p) \/ RemoveBase(p)
      BY <1>1, <2>0, <3>0, <3>5 DEF RemoveEntry, RemoveBase
    <3>6. CASE Rename(p)
      BY <1>1, <2>0, <3>0, <3>6, Renamed
    <3>7. CASE Truncate(p) \/ Record(p) \/ Mishap(p)
      BY <1>1, <2>0, <3>0, <3>7 DEF Truncate, Record, Mishap, Stop, Misread, PassOver,
        Overlook, Break
    <3>8. QED
      BY <2>2, <3>1, <3>2, <3>3, <3>4, <3>5, <3>6, <3>7 DEF Step
  <2>3. QED
    BY <2>1, <2>2
<1>4. QED
  BY <1>2, <1>3

\* Only a run of a key that is in place records it as the latest.
LEMMA LatestStep ==
  ASSUME TypeOK, \A r \in Process : PlacedRun(r), latest \in Key => latest \in activated,
         NEW p \in Process, Step(p)
  PROVE  latest' \in Key => latest' \in activated'
<1>1. activated \subseteq activated'
  BY HistoryGrows
<1>2. CASE Truncate(p)
  BY <1>2, CacheConstants DEF Truncate
<1>3. CASE Record(p)
  BY <1>1, <1>3 DEF Record, PlacedRun
<1>4. CASE ~Truncate(p) /\ ~Record(p)
  <2> USE DEF disk
  <2>1. CASE Begin(p) \/ Check(p) \/ List(p) \/ Read(p) \/ EndRead(p) \/ Clear(p)
    BY <1>1, <2>1 DEF Begin, Check, List, Read, EndRead, Clear
  <2>2. CASE Write(p) \/ WriteReady(p) \/ Probe(p) \/ Open(p)
    BY <1>1, <2>2 DEF Write, WriteReady, Probe, Open
  <2>3. CASE RemoveEntry(p) \/ RemoveBase(p) \/ Rename(p) \/ Mishap(p)
    BY <1>1, <2>3 DEF RemoveEntry, RemoveBase, Rename, Mishap, Stop, Misread, PassOver,
      Overlook, Break
  <2>4. QED
    BY <1>4, <2>1, <2>2, <2>3 DEF Step
<1>5. QED
  BY <1>2, <1>3, <1>4

\* Placed and the wholeness of what is in place go together.
LEMMA PlacedStep ==
  TypeOK /\ Staged /\ Placed /\ ActivatedWhole /\ [Next]_vars => Placed' /\ ActivatedWhole'
<1> SUFFICES ASSUME TypeOK, Staged, Placed, ActivatedWhole, [Next]_vars
             PROVE  Placed' /\ ActivatedWhole'
  OBVIOUS
<1>0. /\ \A k \in Key : PlacedDir(k)
      /\ \A p \in Process : PlacedRun(p)
      /\ latest \in Key => latest \in activated
  BY DEF Placed, ActivatedWhole, PlacedDir, PlacedRun
<1>1. CASE UNCHANGED vars
  BY <1>1 DEF Placed, ActivatedWhole, vars, disk, history, meetings, troubles, Exists, Whole
<1>2. CASE Next
  <2> PICK p \in Process : Step(p)
    BY <1>2 DEF Next
  <2>1. \A k \in Key : PlacedDir(k)'
    BY <1>0, PlacedDirStep DEF PlacedRun
  <2>2. \A r \in Process : PlacedRun(r)'
    BY <1>0, PlacedRunStep
  <2>3. latest' \in Key => latest' \in activated'
    BY <1>0, LatestStep
  <2>4. QED
    BY <2>1, <2>2, <2>3 DEF Placed, ActivatedWhole, PlacedDir, PlacedRun
<1>3. QED
  BY <1>1, <1>2

\* The part of Complete that speaks of one process.
CompleteRun(p) ==
  /\ pc[p] = "read" => Covers(todo[p] \cup seen[p])
  /\ pc[p] \in {"truncate", "record"} /\ hit[p] => Covers(seen[p])
  /\ result[p].kind = "ok" => Covers(result[p].assets)

\* A scan of a directory nobody dismantles sees every entry of it.
LEMMA CompleteStep ==
  TypeOK /\ Staged /\ Placed /\ ActivatedWhole /\ Complete /\ [Next]_vars => Complete'
<1> SUFFICES ASSUME TypeOK, Staged, Placed, ActivatedWhole, Complete, [Next]_vars
             PROVE  Complete'
  OBVIOUS
<1>1. CASE UNCHANGED vars
  BY <1>1 DEF Complete, Covers, vars, scan, history, meetings, troubles
<1>2. CASE Next
  <2> PICK p \in Process : Step(p)
    BY <1>2 DEF Next
  <2> SUFFICES ASSUME dismantled' = {} PROVE \A r \in Process : CompleteRun(r)'
    BY DEF Complete, CompleteRun
  <2>1. dismantled = {} /\ \A r \in Process : CompleteRun(r)
    BY HistoryGrows DEF Complete, CompleteRun
  <2>2. ASSUME NEW r \in Process, r # p PROVE CompleteRun(r)'
    <3>1. Untouched(r) /\ CompleteRun(r)
      BY <2>1, <2>2, OthersUntouched
    <3>2. QED
      BY <3>1, CoversKept DEF CompleteRun, Untouched, Covers
  <2>3. CompleteRun(p)'
    <3>0. /\ CompleteRun(p) /\ pc \in [Process -> Pc] /\ hit \in [Process -> BOOLEAN]
          /\ todo \in [Process -> SUBSET Asset] /\ seen \in [Process -> SUBSET Asset]
          /\ result \in [Process -> Result] /\ hit[p] \in BOOLEAN
      BY <2>1 DEF TypeOK
    <3> USE DEF CompleteRun, Covers, Goto, Return, Fail, ScanFails, disk, scan,
        history, meetings, troubles
    <3>1. CASE Begin(p) \/ Check(p)
      BY <3>0, <3>1 DEF Begin, Check, NoResult
    <3>2. CASE List(p)
      <4>1. CASE Here(p).roms
        <5>1. Here(p) \in Dir /\ Exists(Here(p)) /\ Whole(Here(p))
          BY <2>1, <4>1 DEF Here, Placed, ActivatedWhole, TypeOK
        <5>2. Here(p).id \in 1..MaxRuns
          BY <5>1, CacheConstants DEF Dir, Exists
        <5>3. /\ todo'[p] = Here(p).assets /\ seen'[p] = {} /\ pc'[p] = "read"
              /\ hit' = hit /\ result' = result /\ unread' = unread
          BY <3>0, <3>2, <4>1 DEF List
        <5>4. QED
          BY <3>0, <5>1, <5>2, <5>3 DEF Whole
      <4>2. CASE ~Here(p).roms
        BY <3>0, <3>2, <4>2 DEF List
      <4> QED BY <4>1, <4>2
    <3>3. CASE Read(p)
      <4>1. PICK a \in todo[p] :
              IF a \in Here(p).assets
              THEN /\ todo' = [todo EXCEPT ![p] = @ \ {a}]
                   /\ seen' = [seen EXCEPT ![p] = @ \cup {a}]
                   /\ UNCHANGED <<pc, hit, result>>
              ELSE ScanFails(p) /\ UNCHANGED <<todo, seen>>
        BY <3>3 DEF Read
      <4>2. CASE a \in Here(p).assets
        <5>1. /\ todo'[p] = todo[p] \ {a} /\ seen'[p] = seen[p] \cup {a}
              /\ pc' = pc /\ hit' = hit /\ result' = result /\ pc[p] = "read"
              /\ unread' = unread
          BY <3>0, <3>3, <4>1, <4>2 DEF Read
        <5>2. QED
          BY <3>0, <4>1, <5>1
      <4>3. CASE a \notin Here(p).assets
        BY <3>0, <3>3, <4>1, <4>3 DEF Read
      <4> QED BY <4>2, <4>3
    <3>4. CASE EndRead(p)
      <4>1. todo[p] = {} /\ Covers(seen[p])
        BY <3>0, <3>4 DEF EndRead
      <4>2. QED
        BY <3>0, <3>4, <4>1 DEF EndRead
    <3>5. CASE Clear(p) \/ Write(p) \/ WriteReady(p) \/ Probe(p)
      BY <3>0, <3>5 DEF Clear, Write, WriteReady, Probe
    <3>6. CASE Open(p)
      BY <3>0, <3>6 DEF Open
    <3>7. CASE RemoveEntry(p) \/ RemoveBase(p)
      BY <3>0, <3>7 DEF RemoveEntry, RemoveBase
    <3>8. CASE Rename(p)
      BY <3>0, <3>8 DEF Rename, Staged
    <3>9. CASE Truncate(p)
      BY <3>0, <3>9 DEF Truncate
    <3>10. CASE Record(p)
      BY <3>0, <3>10 DEF Record
    <3>11. CASE Mishap(p)
      <4>1. CASE PassOver(p)
        <5>1. pc' = pc /\ pc[p] = "write" /\ result' = result
          BY <4>1 DEF PassOver
        <5>2. QED
          BY <3>0, <5>1, UnreadGrows
      <4>2. CASE Stop(p) \/ Misread(p) \/ Overlook(p) \/ Break(p)
        <5>1. CASE Stop(p) \/ Misread(p)
          BY <3>0, <5>1 DEF Stop, Misread
        <5>2. CASE Overlook(p)
          BY <3>0, <5>2 DEF Overlook
        <5>3. CASE Break(p)
          BY <3>0, <5>3 DEF Break
        <5>4. QED
          BY <4>2, <5>1, <5>2, <5>3
      <4>3. QED
        BY <3>11, <4>1, <4>2 DEF Mishap
    <3>12. QED
      BY <3>1, <3>2, <3>3, <3>4, <3>5, <3>6, <3>7, <3>8, <3>9, <3>10, <3>11 DEF Step
  <2>4. QED
    BY <2>2, <2>3
<1>3. QED
  BY <1>1, <1>2

\* The part of Unrivalled that speaks of one process.
UnrivalledRun(p) ==
  Working(p) =>
    /\ alone[p] => Rivals(p, key[p]) = {}
    /\ overlapped = {} => alone[p]

\* When a run begins, neither it nor any of its rivals is alone from then on.
LEMMA UnrivalledStep == TypeOK /\ Unrivalled /\ [Next]_vars => Unrivalled'
<1> SUFFICES ASSUME TypeOK, Unrivalled, [Next]_vars PROVE Unrivalled'
  OBVIOUS
<1>0. /\ \A r \in Process : UnrivalledRun(r)
      /\ pc \in [Process -> Pc] /\ key \in [Process -> Key]
  BY DEF Unrivalled, UnrivalledRun, TypeOK
<1>1. CASE UNCHANGED vars
  BY <1>1 DEF Unrivalled, vars, history, meetings, Working, Rivals
<1>2. CASE Next
  <2> PICK p \in Process : Step(p)
    BY <1>2 DEF Next
  <2> SUFFICES ASSUME NEW r \in Process PROVE UnrivalledRun(r)'
    BY DEF Unrivalled, UnrivalledRun
  <2>0. \A s \in Process \ {p} : pc'[s] = pc[s] /\ key'[s] = key[s]
    BY OthersUntouched DEF Untouched
  <2>1. CASE ~Begin(p)
    <3>1. Working(p) /\ Continued
      BY <2>1, RunContinues
    <3>2. Rivals(r, key[r])' \subseteq Rivals(r, key[r])
      BY <2>0, <3>1 DEF Rivals, Working, Continued
    <3>3. Working(r)' => Working(r)
      BY <2>0, <3>1 DEF Working
    <3>4. QED
      BY <1>0, <3>1, <3>2, <3>3 DEF UnrivalledRun, Continued
  <2>2. CASE Begin(p)
    <3>1. PICK k \in Key :
            /\ key' = [key EXCEPT ![p] = k]
            /\ alone' = [s \in Process |->
                 IF s = p THEN Rivals(p, k) = {} ELSE alone[s] /\ s \notin Rivals(p, k)]
            /\ overlapped' = overlapped \cup (IF Rivals(p, k) = {} THEN {} ELSE {k})
      BY <2>2 DEF Begin
    <3>2. key'[p] = k
      BY <1>0, <3>1
    <3>3. overlapped' = {} => overlapped = {} /\ Rivals(p, k) = {}
      BY <3>1
    <3>4. CASE r = p
      <4>1. Rivals(p, k)' = Rivals(p, k)
        BY <2>0 DEF Rivals
      <4>2. alone'[p] = (Rivals(p, k) = {})
        BY <3>1
      <4>3. QED
        BY <3>2, <3>3, <3>4, <4>1, <4>2 DEF UnrivalledRun, Rivals
    <3>5. CASE r # p
      <4>1. alone'[r] = (alone[r] /\ r \notin Rivals(p, k))
        BY <3>1, <3>5
      <4>2. pc'[r] = pc[r] /\ key'[r] = key[r]
        BY <2>0, <3>5
      <4>3. ASSUME Working(r), r \notin Rivals(p, k) PROVE k # key[r]
        BY <3>5, <4>3 DEF Rivals, Working
      <4>4. ASSUME k # key[r] PROVE Rivals(r, key[r])' \subseteq Rivals(r, key[r])
        BY <2>0, <3>2, <4>2, <4>4 DEF Rivals
      <4>5. QED
        BY <1>0, <3>3, <4>1, <4>2, <4>3, <4>4 DEF UnrivalledRun, Working
    <3>6. QED
      BY <3>4, <3>5
  <2>3. QED
    BY <2>1, <2>2
<1>3. QED
  BY <1>1, <1>2

\* Between the first steps of runs no directory gets a name it did not have.
LEMMA NamesShrink ==
  ASSUME TypeOK, Staged, NEW p \in Process, Step(p), ~Begin(p),
         NEW i \in 1..MaxRuns, NEW k \in Key, Names(i, k)'
  PROVE  Names(i, k)
<1>0. /\ Working(p) /\ Continued
      /\ \A r \in Process \ {p} : Untouched(r)
      /\ pc \in [Process -> Pc] /\ base \in [Key -> Dir] /\ key[p] \in Key
      /\ removing \in [Process -> 0..MaxRuns] /\ i # 0
  BY RunContinues, OthersUntouched, CacheConstants DEF TypeOK
<1>1. CASE base'[k].id = i
  <2>1. CASE base'[k] = base[k]
    BY <1>1, <2>1 DEF Names
  <2>2. CASE base'[k] # base[k]
    <3>1. k = key[p]
      BY <2>2, OtherKeysKept
    <3>2. CASE RemoveEntry(p)
      BY <1>1, <3>2, EntryRemoved DEF Names
    <3>3. CASE RemoveBase(p)
      <4>1. base'[k] = NoDir
        BY <1>0, <2>2, <3>1, <3>3 DEF RemoveBase
      <4>2. QED
        BY <1>0, <1>1, <4>1 DEF NoDir
    <3>4. CASE Rename(p)
      BY <1>0, <1>1, <2>2, <3>1, <3>4, Renamed DEF Names
    <3>5. QED
      BY <2>2, <3>2, <3>3, <3>4, BaseKept
  <2>3. QED
    BY <2>1, <2>2
<1>2. CASE \E r \in Process :
             /\ Working(r)' /\ key'[r] = k
             /\ serial'[r] = i \/ (pc'[r] = "remove" /\ removing'[r] = i)
  <2>1. PICK r \in Process :
          /\ Working(r)' /\ key'[r] = k
          /\ serial'[r] = i \/ (pc'[r] = "remove" /\ removing'[r] = i)
    BY <1>2
  <2>2. Working(r) /\ key[r] = k
    BY <1>0, <2>1 DEF Working, Untouched, Continued
  <2>3. CASE serial'[r] = i
    BY <1>0, <2>2, <2>3 DEF Names, Continued
  <2>4. CASE pc'[r] = "remove" /\ removing'[r] = i /\ r # p
    BY <1>0, <2>2, <2>4 DEF Names, Untouched
  <2>5. CASE pc'[r] = "remove" /\ removing'[r] = i /\ r = p
    <3> USE DEF Goto, Return, Fail, ScanFails, disk, scan, history, meetings, troubles
    <3>1. CASE Open(p)
      BY <1>0, <2>2, <2>5, <3>1 DEF Open, Here, Names
    <3>2. CASE RemoveEntry(p) \/ RemoveBase(p)
      BY <1>0, <2>2, <2>5, <3>2 DEF RemoveEntry, RemoveBase, Names
    <3>3. CASE Check(p) \/ List(p) \/ Read(p) \/ EndRead(p) \/ Clear(p)
      BY <1>0, <2>5, <3>3 DEF Check, List, Read, EndRead, Clear
    <3>4. CASE Write(p) \/ WriteReady(p) \/ Probe(p)
      BY <1>0, <2>5, <3>4 DEF Write, WriteReady, Probe
    <3>5. CASE Rename(p)
      BY <1>0, <2>5, <3>5 DEF Rename
    <3>6. CASE Truncate(p) \/ Record(p) \/ Mishap(p)
      BY <1>0, <2>5, <3>6 DEF Truncate, Record, Mishap, Stop, Misread, PassOver,
        Overlook, Break
    <3>7. QED
      BY <3>1, <3>2, <3>3, <3>4, <3>5, <3>6 DEF Step
  <2>6. QED
    BY <2>1, <2>3, <2>4, <2>5
<1>3. QED
  BY <1>1, <1>2 DEF Names

\* A new run has a new name, so that names stay with their keys.
LEMMA OwnedStep == TypeOK /\ Staged /\ Owned /\ [Next]_vars => Owned'
<1> SUFFICES ASSUME TypeOK, Staged, Owned, [Next]_vars PROVE Owned'
  OBVIOUS
<1>1. CASE UNCHANGED vars
  BY <1>1 DEF Owned, Names, Working, vars, disk, history, meetings, troubles
<1>2. CASE Next
  <2> PICK p \in Process : Step(p)
    BY <1>2 DEF Next
  <2>1. CASE ~Begin(p)
    <3>1. \A k \in Key, i \in 1..MaxRuns : Names(i, k)' => Names(i, k)
      BY <2>1, NamesShrink
    <3>2. runs' = runs
      BY <2>1, RunContinues DEF Continued
    <3>3. QED
      BY <3>1, <3>2 DEF Owned
  <2>2. CASE Begin(p)
    <3>0. /\ runs \in Nat /\ pc[p] = "idle" /\ runs' = runs + 1 /\ base' = base
          /\ serial'[p] = runs + 1 /\ pc'[p] \in {"check", "list"} /\ key'[p] \in Key
          /\ \A r \in Process \ {p} : Untouched(r)
      BY <2>2, OthersUntouched DEF Begin, Goto, TypeOK, disk
    <3>1. \A k \in Key, i \in 1..MaxRuns :
            Names(i, k)' => Names(i, k) \/ (i = runs + 1 /\ k = key'[p])
      BY <3>0 DEF Names, Working, Untouched
    <3>2. \A k \in Key, i \in 1..MaxRuns :
            Names(i, k) => i <= runs /\ \A l \in Key : Names(i, l) => l = k
      BY DEF Owned
    <3>3. ASSUME NEW k \in Key, NEW i \in 1..MaxRuns, Names(i, k)'
          PROVE  i <= runs' /\ \A l \in Key : Names(i, l)' => l = k
      <4>1. CASE i = runs + 1
        <5>1. \A l \in Key : ~Names(i, l)
          BY <3>0, <3>2, <4>1
        <5>2. QED
          BY <3>0, <3>1, <3>3, <4>1, <5>1
      <4>2. CASE i # runs + 1
        <5>1. Names(i, k)
          BY <3>1, <3>3, <4>2
        <5>2. i <= runs /\ \A l \in Key : Names(i, l) => l = k
          BY <3>2, <5>1
        <5>3. i <= runs'
          BY <3>0, <5>2
        <5>4. QED
          BY <3>1, <4>2, <5>2, <5>3
      <4>3. QED
        BY <4>1, <4>2
    <3>4. QED
      BY <3>3 DEF Owned
  <2>3. QED
    BY <2>1, <2>2
<1>3. QED
  BY <1>1, <1>2

\* A run without rivals has its key's directory to itself.
LEMMA HereKept ==
  ASSUME TypeOK, NEW p \in Process, Step(p), NEW r \in Process, r # p,
         Working(r), Rivals(r, key[r]) = {}
  PROVE  base'[key[r]] = base[key[r]]
<1>1. CASE Begin(p)
  BY <1>1 DEF Begin, disk
<1>2. CASE ~Begin(p)
  <2>1. key[p] # key[r] /\ key[r] \in Key
    BY <1>2, RunContinues DEF Rivals, Working, TypeOK
  <2>2. QED
    BY <2>1, OtherKeysKept
<1>3. QED
  BY <1>1, <1>2

\* A run that is on its own fails nowhere, and finds what it left.
SoleRun(p) ==
  /\ Working(p) /\ alone[p] => Finds(p)
  /\ result[p].kind = "error" => ~alone[p] \/ failed[p]

\* Its own steps: each call of the file system finds what the call before left.
LEMMA SoleOwnStep ==
  ASSUME TypeOK, Staged, Placed, Unrivalled, Owned, NEW p \in Process, SoleRun(p), Step(p)
  PROVE  SoleRun(p)'
<1>0. /\ pc \in [Process -> Pc] /\ base \in [Key -> Dir] /\ key[p] \in Key
      /\ hit \in [Process -> BOOLEAN] /\ result \in [Process -> Result]
      /\ removing \in [Process -> 0..MaxRuns] /\ temp[p] \in Dir
      /\ todo \in [Process -> SUBSET Asset] /\ alone \in [Process -> BOOLEAN]
      /\ failed \in [Process -> BOOLEAN]
  BY DEF TypeOK
<1> USE DEF SoleRun, Finds, Working, Here, Goto, Return, Fail, ScanFails, disk, scan,
    history, meetings, troubles
<1>1. CASE Begin(p)
  <2>1. PICK k \in Key :
          /\ key' = [key EXCEPT ![p] = k]
          /\ \/ Goto(p, "check")
             \/ base[k].ready /\ base[k].roms /\ Goto(p, "list")
    BY <1>1 DEF Begin
  <2>2. key'[p] = k /\ base' = base /\ result'[p].kind = "none"
    BY <1>0, <1>1, <2>1 DEF Begin, NoResult, TypeOK
  <2>3. QED
    BY <1>0, <2>1, <2>2
<1>2. CASE ~Begin(p)
  <2>0. /\ key' = key /\ alone' = alone /\ Working(p)
        /\ alone[p] => Rivals(p, key[p]) = {}
    BY <1>2, RunContinues DEF Continued, Unrivalled
  <2>1. CASE Check(p)
    BY <1>0, <2>0, <2>1 DEF Check
  <2>2. CASE List(p)
    BY <1>0, <2>0, <2>2 DEF List, Whole
  <2>3. CASE Read(p)
    <3>1. PICK a \in todo[p] :
            IF a \in Here(p).assets
            THEN /\ todo' = [todo EXCEPT ![p] = @ \ {a}]
                 /\ seen' = [seen EXCEPT ![p] = @ \cup {a}]
                 /\ UNCHANGED <<pc, hit, result>>
            ELSE ScanFails(p) /\ UNCHANGED <<todo, seen>>
      BY <2>3 DEF Read
    <3>2. pc[p] = "read" /\ base' = base /\ failed' = failed
      BY <2>3 DEF Read
    <3>3. CASE a \in Here(p).assets
      <4>1. todo'[p] \subseteq todo[p] /\ pc' = pc /\ result' = result
        BY <1>0, <3>1, <3>3
      <4>2. QED
        BY <2>0, <3>2, <4>1
    <3>4. CASE a \notin Here(p).assets
      <4>1. ~alone[p]
        BY <2>0, <3>1, <3>2, <3>4
      <4>2. QED
        BY <2>0, <4>1
    <3>5. QED
      BY <3>3, <3>4
  <2>4. CASE EndRead(p)
    BY <1>0, <2>0, <2>4 DEF EndRead
  <2>5. CASE Clear(p) \/ Write(p) \/ WriteReady(p)
    BY <1>0, <2>0, <2>5 DEF Clear, Write, WriteReady
  <2>6. CASE Probe(p)
    BY <1>0, <2>0, <2>6 DEF Probe
  <2>7. CASE Open(p)
    BY <1>0, <2>0, <2>7 DEF Open
  <2>8. CASE RemoveEntry(p)
    <3>1. base'[key[p]].id = base[key[p]].id /\ pc[p] = "remove"
      BY <1>0, <2>8, EntryRemoved DEF RemoveEntry
    <3>2. CASE UNCHANGED <<pc, result>>
      BY <1>0, <2>0, <2>8, <3>1, <3>2 DEF RemoveEntry
    <3>3. CASE /\ \E r \in Process \ {p} : pc[r] = "remove" /\ removing[r] = removing[p]
               /\ Fail(p)
      <4>1. PICK r \in Process \ {p} : pc[r] = "remove" /\ removing[r] = removing[p]
        BY <3>3
      <4>2. removing[p] \in 1..MaxRuns
        BY <3>1 DEF Placed, TypeOK
      <4>3. Names(removing[p], key[p]) /\ Names(removing[p], key[r])
        BY <3>1, <4>1 DEF Names
      <4>4. key[r] \in Key
        BY DEF TypeOK
      <4>5. key[r] = key[p]
        BY <1>0, <4>2, <4>3, <4>4 DEF Owned
      <4>6. r \in Rivals(p, key[p])
        BY <4>1, <4>5 DEF Rivals
      <4>7. ~alone[p]
        BY <2>0, <4>6
      <4>8. QED
        BY <1>0, <2>0, <3>3, <4>7
    <3>4. QED
      BY <2>8, <3>2, <3>3 DEF RemoveEntry
  <2>9. CASE RemoveBase(p)
    BY <1>0, <2>0, <2>9 DEF RemoveBase, NoDir, Exists
  <2>10. CASE Rename(p)
    <3>1. CASE Here(p).ready \/ Here(p).roms
      <4>1. Exists(base[key[p]])
        BY <1>0, <3>1 DEF Placed
      <4>2. QED
        BY <1>0, <2>0, <2>10, <3>1, <4>1 DEF Rename
    <3>2. CASE ~(Here(p).ready \/ Here(p).roms)
      <4>1. /\ base'[key[p]] = temp[p] /\ pc'[p] = "truncate" /\ result' = result
            /\ pc[p] = "rename" /\ failed' = failed
        BY <1>0, <2>10, <3>2 DEF Rename
      <4>2. Whole(temp[p])
        BY <4>1 DEF Staged
      <4>3. QED
        BY <2>0, <4>1, <4>2 DEF Whole
    <3> QED BY <3>1, <3>2
  <2>11. CASE Truncate(p)
    BY <1>0, <2>0, <2>11 DEF Truncate, Whole
  <2>12. CASE Record(p)
    BY <1>0, <2>0, <2>12 DEF Record, Whole
  <2>13. CASE Mishap(p)
    <3>1. CASE Stop(p) \/ Misread(p) \/ PassOver(p)
      BY <1>0, <2>0, <3>1 DEF Stop, Misread, PassOver
    <3>2. CASE Overlook(p)
      BY <1>0, <2>0, <3>2 DEF Overlook
    <3>3. CASE Break(p)
      BY <1>0, <2>0, <3>3 DEF Break
    <3>4. QED
      BY <2>13, <3>1, <3>2, <3>3 DEF Mishap
  <2>14. QED
    BY <1>2, <2>1, <2>2, <2>3, <2>4, <2>5, <2>6, <2>7, <2>8, <2>9, <2>10, <2>11,
       <2>12, <2>13 DEF Step
<1>3. QED
  BY <1>1, <1>2

\* The steps of others: they are at work on other keys.
LEMMA SoleOtherStep ==
  ASSUME TypeOK, Unrivalled, NEW p \in Process, Step(p),
         NEW r \in Process, r # p, SoleRun(r)
  PROVE  SoleRun(r)'
<1>1. Untouched(r)
  BY OthersUntouched
<1>2. alone'[r] => alone[r]
  <2>1. CASE Begin(p)
    BY <2>1 DEF Begin
  <2>2. CASE ~Begin(p)
    BY <2>2, RunContinues DEF Continued
  <2> QED BY <2>1, <2>2
<1>3. ASSUME Working(r), alone[r] PROVE base'[key[r]] = base[key[r]]
  BY <1>3, HereKept DEF Unrivalled
<1>4. QED
  BY <1>1, <1>2, <1>3 DEF SoleRun, Untouched, Working, Finds, Here, Whole, Exists

\* A run that is on its own stays undisturbed.
LEMMA SoleStep ==
  TypeOK /\ Staged /\ Placed /\ Unrivalled /\ Owned /\ Sole /\ [Next]_vars => Sole'
<1> SUFFICES ASSUME TypeOK, Staged, Placed, Unrivalled, Owned, Sole, [Next]_vars
             PROVE  Sole'
  OBVIOUS
<1>0. \A r \in Process : SoleRun(r)
  BY DEF Sole, SoleRun, LoneRunSucceeds
<1>1. CASE UNCHANGED vars
  <2>1. UNCHANGED <<pc, key, base, todo, removing, result, alone, failed>>
    BY <1>1 DEF vars, disk, scan, history, meetings, troubles
  <2>2. QED
    BY <2>1 DEF Sole, LoneRunSucceeds, Working, Finds, Here, Whole, Exists
<1>2. CASE Next
  <2> PICK p \in Process : Step(p)
    BY <1>2 DEF Next
  <2>1. \A r \in Process : SoleRun(r)'
    BY <1>0, SoleOwnStep, SoleOtherStep
  <2>2. QED
    BY <2>1 DEF Sole, SoleRun, LoneRunSucceeds
<1>3. QED
  BY <1>1, <1>2

\* The part of Undisturbed that speaks of one process.
UndisturbedRun(p) ==
  /\ pc[p] \in {"clear", "write", "probe", "open", "remove", "rename"} => ~Exists(Here(p))
  /\ pc[p] \in {"list", "read", "truncate", "record"} => Exists(Here(p))

\* Runs that follow one another never get to the removal.
LEMMA UndisturbedOwnStep ==
  ASSUME TypeOK, Staged, Placed, ActivatedWhole, Complete, Unrivalled, Sole,
         overlapped = {}, dismantled = {}, misread' = {},
         NEW p \in Process, UndisturbedRun(p), Step(p)
  PROVE  dismantled' = {} /\ UndisturbedRun(p)'
<1>0. /\ pc \in [Process -> Pc] /\ base \in [Key -> Dir] /\ key[p] \in Key
      /\ hit \in [Process -> BOOLEAN] /\ todo[p] \subseteq Asset
  BY DEF TypeOK
<1>1. Exists(Here(p)) => Whole(Here(p))
  BY <1>0 DEF Here, ActivatedWhole
<1>2. Here(p).ready \/ Here(p).roms => Exists(Here(p))
  BY <1>0 DEF Here, Placed
<1> USE DEF UndisturbedRun, Goto, Return, Fail, ScanFails, disk, scan, history,
    meetings, troubles
<1>3. CASE Begin(p)
  <2>1. PICK k \in Key :
          /\ key' = [key EXCEPT ![p] = k]
          /\ \/ Goto(p, "check")
             \/ base[k].ready /\ base[k].roms /\ Goto(p, "list")
    BY <1>3 DEF Begin
  <2>2. key'[p] = k /\ base' = base /\ dismantled' = dismantled
    BY <1>3, <2>1 DEF Begin, TypeOK
  <2>3. base[k].roms => Exists(base[k])
    BY DEF Placed
  <2>4. QED
    BY <1>0, <2>1, <2>2, <2>3 DEF Here, Exists
<1>4. CASE ~Begin(p)
  <2>0. key' = key /\ Finds(p)
    BY <1>4, RunContinues DEF Continued, Unrivalled, Sole
  <2>1. CASE Rename(p)
    <3>1. dismantled' = dismantled
      BY <2>1 DEF Rename
    <3>2. CASE pc'[p] = "idle"
      BY <3>1, <3>2
    <3>3. CASE pc'[p] # "idle"
      <4>1. base'[key[p]] = temp[p] /\ Exists(temp[p]) /\ pc'[p] = "truncate"
        BY <1>0, <2>1, <3>3, Renamed
      <4>2. QED
        BY <2>0, <3>1, <4>1 DEF Here, Exists
    <3>4. QED
      BY <3>2, <3>3
  <2>2. CASE base' = base
    <3> USE <2>2
    <3>0. Here(p)' = Here(p) /\ Exists(Here(p))' = Exists(Here(p))
      BY <2>0 DEF Here, Exists
    <3> HIDE DEF Here, Exists
    <3>1. CASE Check(p)
      BY <1>0, <1>1, <1>2, <3>0, <3>1 DEF Check, Whole
    <3>2. CASE List(p)
      BY <1>0, <1>1, <3>0, <3>2 DEF List, Whole
    <3>3. CASE Read(p)
      <4>1. pc[p] = "read" /\ todo[p] \subseteq Here(p).assets
        BY <2>0, <3>3 DEF Read, Finds
      <4>2. pc' = pc /\ dismantled' = dismantled
        BY <3>3, <4>1 DEF Read
      <4>3. QED
        BY <3>0, <4>1, <4>2
    <3>4. CASE EndRead(p)
      <4>1. seen[p] # {}
        <5>1. PICK m \in Asset : m \notin Optional
          BY CacheConstants
        <5>2. m \notin todo[p] \cup seen[p] => \E i \in 1..MaxRuns : m \in unread[i]
          BY <3>4 DEF EndRead, Complete, Covers
        <5>3. \A i \in 1..MaxRuns : m \notin unread[i]
          BY <5>1 DEF TypeOK
        <5>4. QED
          BY <3>4, <5>2, <5>3 DEF EndRead
      <4>2. QED
        BY <1>0, <3>0, <3>4, <4>1 DEF EndRead
    <3>5. CASE Clear(p) \/ Write(p) \/ WriteReady(p) \/ Probe(p)
      BY <1>0, <3>0, <3>5 DEF Clear, Write, WriteReady, Probe
    <3>6. CASE Open(p)
      BY <1>0, <2>0, <3>0, <3>6 DEF Open, Finds
    <3>7. CASE RemoveEntry(p) \/ RemoveBase(p)
      BY <3>7 DEF RemoveEntry, RemoveBase, Placed
    <3>8. CASE Truncate(p) \/ Record(p)
      BY <1>0, <1>1, <3>0, <3>8 DEF Truncate, Record
    <3>10. CASE Mishap(p)
      <4>1. ~Misread(p)
        BY DEF Misread
      <4>2. CASE Stop(p) \/ Break(p) \/ PassOver(p) \/ Overlook(p)
        BY <1>0, <3>0, <4>2 DEF Stop, Break, PassOver, Overlook
      <4>3. QED
        BY <3>10, <4>1, <4>2 DEF Mishap
    <3>9. QED
      BY <1>4, <2>1, <3>1, <3>2, <3>3, <3>4, <3>5, <3>6, <3>7, <3>8, <3>10 DEF Step
  <2>3. CASE RemoveEntry(p) \/ RemoveBase(p)
    BY <2>3 DEF RemoveEntry, RemoveBase, Placed
  <2>4. QED
    BY <2>1, <2>2, <2>3, BaseKept
<1>5. QED
  BY <1>3, <1>4

\* And none of them disturbs what another found.
LEMMA UndisturbedStep ==
  TypeOK /\ Staged /\ Placed /\ ActivatedWhole /\ Complete /\ Unrivalled /\ Sole
  /\ Undisturbed /\ [Next]_vars => Undisturbed'
<1> SUFFICES ASSUME TypeOK, Staged, Placed, ActivatedWhole, Complete, Unrivalled, Sole,
                    Undisturbed, [Next]_vars
             PROVE  Undisturbed'
  OBVIOUS
<1>1. CASE UNCHANGED vars
  BY <1>1 DEF Undisturbed, vars, disk, history, meetings, troubles, Here, Exists
<1>2. CASE Next
  <2> SUFFICES ASSUME overlapped' = {}, misread' = {}
               PROVE  dismantled' = {} /\ \A r \in Process : UndisturbedRun(r)'
    BY DEF Undisturbed, UndisturbedRun
  <2> PICK p \in Process : Step(p)
    BY <1>2 DEF Next
  <2>1. overlapped = {}
    <3>1. CASE Begin(p)
      BY <3>1 DEF Begin
    <3>2. CASE ~Begin(p)
      BY <3>2, RunContinues DEF Continued
    <3> QED BY <3>1, <3>2
  <2>2. dismantled = {} /\ \A r \in Process : UndisturbedRun(r)
    BY <2>1, HistoryGrows DEF Undisturbed, UndisturbedRun
  <2>3. dismantled' = {} /\ UndisturbedRun(p)'
    BY <2>1, <2>2, UndisturbedOwnStep
  <2>4. ASSUME NEW r \in Process, r # p PROVE UndisturbedRun(r)'
    <3>1. Untouched(r)
      BY <2>4, OthersUntouched
    <3>2. CASE Working(r)
      <4>1. base'[key[r]] = base[key[r]]
        BY <2>1, <2>4, <3>2, HereKept DEF Unrivalled
      <4>2. QED
        BY <2>2, <3>1, <4>1 DEF UndisturbedRun, Untouched, Here, Exists
    <3>3. CASE ~Working(r)
      BY <3>1, <3>3 DEF UndisturbedRun, Untouched, Working
    <3>4. QED
      BY <3>2, <3>3
  <2>5. QED
    BY <2>3, <2>4
<1>3. QED
  BY <1>1, <1>2
-----------------------------------------------------------------------------
(***************************************************************************)
(* The theorems.                                                           *)
(***************************************************************************)

IInv ==
  /\ TypeOK /\ Staged /\ Placed /\ ActivatedWhole
  /\ Complete /\ Unrivalled /\ Owned /\ Sole /\ Undisturbed

\* The invariant holds at first.
LEMMA IInvInit == Init => IInv
<1> SUFFICES ASSUME Init PROVE IInv
  OBVIOUS
<1>1. TypeOK
  BY TypeInit
<1>2. \A p \in Process : pc[p] = "idle" /\ result[p] = NoResult
  BY DEF Init
<1>3. \A k \in Key : base[k] = NoDir
  BY DEF Init
<1>4. Staged
  BY <1>2 DEF Staged, Working
<1>5. Placed /\ ActivatedWhole
  <2>1. latest \notin Key
    BY CacheConstants DEF Init
  <2>2. QED
    BY <1>2, <1>3, <2>1 DEF Placed, ActivatedWhole, Exists, NoDir
<1>6. Complete /\ Unrivalled
  BY <1>2 DEF Complete, Unrivalled, Working, NoResult
<1>7. Owned
  BY <1>2, <1>3 DEF Owned, Names, Working, NoDir
<1>8. Sole
  BY <1>2 DEF Sole, Working, LoneRunSucceeds, NoResult
<1>9. Undisturbed
  BY <1>2 DEF Undisturbed, Init
<1>10. QED
  BY <1>1, <1>4, <1>5, <1>6, <1>7, <1>8, <1>9 DEF IInv

\* The inductive invariant holds of every behaviour.
THEOREM Invariance == Spec => []IInv
<1>1. IInv /\ [Next]_vars => IInv'
  BY TypeStep, StagedStep, PlacedStep, CompleteStep, UnrivalledStep, OwnedStep, SoleStep,
     UndisturbedStep DEF IInv
<1> QED BY IInvInit, <1>1, PTL DEF Spec

\* Whatever stops or fails wherever, a cache directory no process has begun to remove
\* has its marker and every entry the run that made it could read, and LATEST_ROM_DIR
\* names only what was put in place.
THEOREM WholeOnceActivated == Spec => []ActivatedWhole
<1>1. IInv => ActivatedWhole
  BY DEF IInv
<1> QED BY <1>1, Invariance, PTL

\* A run returns less than every entry some run could not read only if a directory was
\* being removed, and runs that follow one another and can read the cache never begin
\* to remove one.
THEOREM PartialOnlyByRemoval == Spec => []PartialNeedsOverlap
<1>1. IInv => PartialNeedsOverlap
  BY DEF IInv, Complete, Undisturbed, PartialNeedsOverlap
<1> QED BY <1>1, Invariance, PTL

\* A run that shares its key with no other run, and has no call fail on its own account
\* after its hit check, succeeds, whatever earlier runs left.
THEOREM LoneRunsSucceed == Spec => []LoneRunSucceeds
<1>1. IInv => LoneRunSucceeds
  BY DEF IInv, Sole
<1> QED BY <1>1, Invariance, PTL
=============================================================================
