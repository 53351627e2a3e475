------------------------------- MODULE RomCache -------------------------------
(***************************************************************************)
(* The ROM cache on disk, as several processes use it at once and stop at  *)
(* any point (NativeRomSet::scan_cached_with_report and the functions it   *)
(* calls, src/native/romset.rs).  A run looks for a READY marker beside a  *)
(* `roms` directory; without one it writes the recognized entries of the   *)
(* source into a temporary directory of its own, adds READY, removes the   *)
(* cache directory if there is one and renames the temporary one onto it.  *)
(*                                                                         *)
(* A step is one file-system call, and any call may fail on its own        *)
(* account: the hit check takes that for a miss, an entry beside the       *)
(* manifest is passed over, a directory that cannot be looked at does not  *)
(* exist, and everything else is an error of the run.  A key stands for    *)
(* the fingerprint of a source (path, size, time), an asset for one        *)
(* recognized entry.                                                       *)
(***************************************************************************)
EXTENDS Integers, FiniteSets

CONSTANTS
  Process,  \* the processes, each with its own process id
  Key,      \* the fingerprints of the sources they open
  Asset,    \* the recognized entries of a source
  Optional, \* those beside the manifest: the ZiNc configuration, board assets
  MaxRuns,  \* bound: runs begun in a behaviour
  MaxStops, \* bound: runs that are killed in a behaviour
  MaxFaults \* bound: file-system calls that fail on their own account

ASSUME CacheConstants ==
  /\ IsFiniteSet(Asset)
  /\ Optional \subseteq Asset /\ Optional # Asset  \* some entry is of the manifest
  /\ {"missing", "empty"} \cap Key = {}
  /\ MaxRuns \in Nat /\ MaxStops \in Nat /\ MaxFaults \in Nat

VARIABLES
  base,       \* the cache directory of each key
  temp,       \* the temporary directory of each process
  latest,     \* the contents of LATEST_ROM_DIR
  pc,         \* where each process is
  key,        \* the key of its run
  hit,        \* did its run find the cache ready?
  todo,       \* entries it has still to write, or listed files still to read
  seen,       \* files its scan has read
  removing,   \* the directory its remove_dir_all has opened
  unread,     \* entries each run could not read in its source
  result,     \* what its last run returned
  runs,       \* history: runs begun
  serial,     \* history: the ordinal of each process's run, which names the
              \*   directory it creates as an inode would
  stops,      \* history: runs killed
  faults,     \* history: calls that failed on their own account
  misread,    \* history: keys whose hit check had such a call
  failed,     \* history: has this run had one after its hit check?
  activated,  \* history: keys whose directory was renamed into place
  dismantled, \* history: directories some process began to remove
  alone,      \* history: has no other run of the key overlapped this one?
  overlapped  \* history: keys two runs were at work on at once

disk == <<base, temp, latest>>
scan == <<hit, todo, seen>>
troubles == <<stops, faults, misread, failed>>
meetings == <<alone, overlapped, runs, serial>>
history == <<activated, dismantled, meetings, troubles>>
vars == <<disk, pc, key, scan, removing, unread, result, history>>

NoDir == [id |-> 0, ready |-> FALSE, roms |-> FALSE, assets |-> {}]
Dir == [id : 0..MaxRuns, ready : BOOLEAN, roms : BOOLEAN, assets : SUBSET Asset]
NoResult == [kind |-> "none", assets |-> {}]
Result == [kind : {"none", "ok", "error"}, assets : SUBSET Asset]

Pc == {"idle", "check", "list", "read", "clear", "write", "probe", "open",
       "remove", "rename", "truncate", "record"}

TypeOK ==
  /\ base \in [Key -> Dir]
  /\ temp \in [Process -> Dir]
  /\ latest \in Key \cup {"missing", "empty"}
  /\ pc \in [Process -> Pc]
  /\ key \in [Process -> Key]
  /\ hit \in [Process -> BOOLEAN]
  /\ todo \in [Process -> SUBSET Asset] /\ seen \in [Process -> SUBSET Asset]
  /\ removing \in [Process -> 0..MaxRuns]
  /\ unread \in [1..MaxRuns -> SUBSET Optional]
  /\ result \in [Process -> Result]
  /\ runs \in 0..MaxRuns /\ stops \in 0..MaxStops /\ faults \in 0..MaxFaults
  /\ serial \in [Process -> 0..MaxRuns]
  /\ activated \subseteq Key /\ overlapped \subseteq Key /\ misread \subseteq Key
  /\ dismantled \subseteq 1..MaxRuns
  /\ alone \in [Process -> BOOLEAN] /\ failed \in [Process -> BOOLEAN]

Init ==
  /\ base = [k \in Key |-> NoDir]
  /\ temp = [p \in Process |-> NoDir]
  /\ latest = "missing"
  /\ pc = [p \in Process |-> "idle"]
  /\ key \in [Process -> Key]
  /\ hit = [p \in Process |-> FALSE]
  /\ todo = [p \in Process |-> {}] /\ seen = [p \in Process |-> {}]
  /\ removing = [p \in Process |-> 0]
  /\ result = [p \in Process |-> NoResult]
  /\ unread = [i \in 1..MaxRuns |-> {}]
  /\ runs = 0 /\ stops = 0 /\ faults = 0 /\ serial = [p \in Process |-> 0]
  /\ activated = {} /\ dismantled = {} /\ overlapped = {} /\ misread = {}
  /\ alone = [p \in Process |-> TRUE] /\ failed = [p \in Process |-> FALSE]
-----------------------------------------------------------------------------
Here(p) == base[key[p]]
Exists(d) == d.id # 0
Goto(p, where) == pc' = [pc EXCEPT ![p] = where]

Return(p, kind, assets) ==
  /\ result' = [result EXCEPT ![p] = [kind |-> kind, assets |-> assets]]
  /\ Goto(p, "idle")

Fail(p) == Return(p, "error", {})

\* Other runs of the same key in progress.
Rivals(p, k) == {r \in Process \ {p} : pc[r] # "idle" /\ key[r] = k}

\* A run looks for the cache of its source, or is given the `roms` directory of a
\* ready one and scans that directly, as after materializing.
Begin(p) ==
  /\ pc[p] = "idle"
  /\ runs < MaxRuns
  /\ runs' = runs + 1
  /\ serial' = [serial EXCEPT ![p] = runs']
  /\ \E k \in Key :
       /\ key' = [key EXCEPT ![p] = k]
       /\ alone' = [r \in Process |->
            IF r = p THEN Rivals(p, k) = {}
            ELSE alone[r] /\ r \notin Rivals(p, k)]
       /\ overlapped' = overlapped \cup (IF Rivals(p, k) = {} THEN {} ELSE {k})
       /\ \/ Goto(p, "check")
          \/ base[k].ready /\ base[k].roms /\ Goto(p, "list")
  /\ hit' = [hit EXCEPT ![p] = FALSE]
  /\ failed' = [failed EXCEPT ![p] = FALSE]
  /\ result' = [result EXCEPT ![p] = NoResult]
  /\ UNCHANGED <<disk, todo, seen, removing, unread, stops, faults, misread,
                 activated, dismantled>>

\* Variant: the marker is never looked for.
CheckNothing(p) ==
  /\ pc[p] = "check"
  /\ Goto(p, "clear")
  /\ UNCHANGED <<disk, key, scan, removing, unread, result, history>>

\* try_scan_cached_romset: the marker and the directory are there, or a miss.
Check(p) ==
  /\ pc[p] = "check"
  /\ IF Here(p).ready /\ Here(p).roms
     THEN Goto(p, "list") /\ hit' = [hit EXCEPT ![p] = TRUE]
     ELSE Goto(p, "clear") /\ UNCHANGED hit
  /\ UNCHANGED <<disk, key, todo, seen, removing, unread, result, history>>

\* Variant: a scan that fails during the hit check ends the run too.
ScanFailsHard(p) == Fail(p) /\ hit' = [hit EXCEPT ![p] = FALSE]

\* A scan that fails is a miss in the hit check, an error after materializing.
ScanFails(p) ==
  /\ IF hit[p] THEN Goto(p, "clear") /\ UNCHANGED result ELSE Fail(p)
  /\ hit' = [hit EXCEPT ![p] = FALSE]

\* collect_files_sorted lists what is there; a file that goes away between the
\* listing and its stat fails the scan.
List(p) ==
  /\ pc[p] = "list"
  /\ \/ /\ Here(p).roms
        /\ todo' = [todo EXCEPT ![p] = Here(p).assets]
        /\ seen' = [seen EXCEPT ![p] = {}]
        /\ Goto(p, "read")
        /\ UNCHANGED <<hit, result>>
     \/ /\ ~Here(p).roms
        /\ ScanFails(p)
        /\ UNCHANGED <<todo, seen>>
  /\ UNCHANGED <<disk, key, removing, unread, history>>

\* scan_dir reads the listed files one by one, by path.
Read(p) ==
  /\ pc[p] = "read"
  /\ \E a \in todo[p] :
       IF a \in Here(p).assets
       THEN /\ todo' = [todo EXCEPT ![p] = @ \ {a}]
            /\ seen' = [seen EXCEPT ![p] = @ \cup {a}]
            /\ UNCHANGED <<pc, hit, result>>
       ELSE /\ ScanFails(p)
            /\ UNCHANGED <<todo, seen>>
  /\ UNCHANGED <<disk, key, removing, unread, history>>

\* A hit needs at least one entry; the scan after materializing takes anything.
EndRead(p) ==
  /\ pc[p] = "read"
  /\ todo[p] = {}
  /\ IF ~hit[p]
     THEN Return(p, "ok", seen[p]) /\ UNCHANGED hit
     ELSE IF seen[p] = {}
     THEN ScanFails(p)
     ELSE Goto(p, "truncate") /\ UNCHANGED <<hit, result>>
  /\ UNCHANGED <<disk, key, todo, seen, removing, unread, history>>

\* Variant: the directory is recorded as the latest before it is made.
ClearRecording(p) ==
  /\ pc[p] = "clear"
  /\ temp' = [temp EXCEPT ![p] = [NoDir EXCEPT !.id = serial[p], !.roms = TRUE]]
  /\ latest' = key[p]
  /\ todo' = [todo EXCEPT ![p] = Asset]
  /\ Goto(p, "write")
  /\ UNCHANGED <<base, key, hit, seen, removing, unread, result, history>>

\* materialize_cached_romset: a fresh temporary directory, stale ones cleared.
Clear(p) ==
  /\ pc[p] = "clear"
  /\ temp' = [temp EXCEPT ![p] = [NoDir EXCEPT !.id = serial[p], !.roms = TRUE]]
  /\ Goto(p, "write")
  /\ todo' = [todo EXCEPT ![p] = Asset]
  /\ UNCHANGED <<base, latest, key, hit, seen, removing, unread, result, history>>

Write(p) ==
  /\ pc[p] = "write"
  /\ \E a \in todo[p] :
       /\ temp' = [temp EXCEPT ![p].assets = @ \cup {a}]
       /\ todo' = [todo EXCEPT ![p] = @ \ {a}]
  /\ UNCHANGED <<base, latest, pc, key, hit, seen, removing, unread, result, history>>

\* Variant: the marker is written as soon as the first entry is.
WriteReadyEarly(p) ==
  /\ pc[p] = "write"
  /\ temp[p].assets # {}
  /\ temp' = [temp EXCEPT ![p].ready = TRUE]
  /\ Goto(p, "probe")
  /\ UNCHANGED <<base, latest, key, scan, removing, unread, result, history>>

WriteReady(p) ==
  /\ pc[p] = "write"
  /\ todo[p] = {}
  /\ temp' = [temp EXCEPT ![p].ready = TRUE]
  /\ Goto(p, "probe")
  /\ UNCHANGED <<base, latest, key, scan, removing, unread, result, history>>
-----------------------------------------------------------------------------
(***************************************************************************)
(* Putting the directory in place.                                         *)
(***************************************************************************)

\* base_dir.exists()
Probe(p) ==
  /\ pc[p] = "probe"
  /\ Goto(p, IF Exists(Here(p)) THEN "open" ELSE "rename")
  /\ UNCHANGED <<disk, key, scan, removing, unread, result, history>>

\* remove_dir_all opens the directory: gone meanwhile is an error.
Open(p) ==
  /\ pc[p] = "open"
  /\ IF Exists(Here(p))
     THEN /\ removing' = [removing EXCEPT ![p] = Here(p).id]
          /\ dismantled' = dismantled \cup {Here(p).id}
          /\ Goto(p, "remove")
          /\ UNCHANGED result
     ELSE Fail(p) /\ UNCHANGED <<removing, dismantled>>
  /\ UNCHANGED <<disk, key, scan, unread, activated, meetings, troubles>>

\* Entries go in any order; two processes at it may trip over each other.
RemoveEntry(p) ==
  /\ pc[p] = "remove"
  /\ Here(p).id = removing[p]
  /\ \/ /\ \/ /\ Here(p).ready
              /\ base' = [base EXCEPT ![key[p]].ready = FALSE]
           \/ \E a \in Here(p).assets : base' = [base EXCEPT ![key[p]].assets = @ \ {a}]
           \/ /\ Here(p).roms /\ Here(p).assets = {}
              /\ base' = [base EXCEPT ![key[p]].roms = FALSE]
        /\ UNCHANGED <<pc, result>>
     \/ /\ \E r \in Process \ {p} : pc[r] = "remove" /\ removing[r] = removing[p]
        /\ Fail(p)
        /\ UNCHANGED base
  /\ UNCHANGED <<temp, latest, key, scan, removing, unread, history>>

\* The emptied directory goes by name: another process may have removed it, or
\* put a full one in its place.
RemoveBase(p) ==
  /\ pc[p] = "remove"
  /\ \/ /\ Here(p).id = removing[p]
        /\ ~Here(p).ready /\ ~Here(p).roms
        /\ base' = [base EXCEPT ![key[p]] = NoDir]
        /\ Goto(p, "rename")
        /\ UNCHANGED result
     \/ /\ Here(p).id # removing[p]
        /\ UNCHANGED base
        /\ \/ Fail(p)
           \/ ~Exists(Here(p)) /\ Goto(p, "rename") /\ UNCHANGED result
  /\ UNCHANGED <<temp, latest, key, scan, removing, unread, history>>

\* fs::rename replaces an absent or empty directory and fails on any other.
Rename(p) ==
  /\ pc[p] = "rename"
  /\ IF Here(p).ready \/ Here(p).roms
     THEN Fail(p) /\ UNCHANGED <<base, temp, activated>>
     ELSE /\ base' = [base EXCEPT ![key[p]] = temp[p]]
          /\ temp' = [temp EXCEPT ![p] = NoDir]
          /\ activated' = activated \cup {key[p]}
          /\ Goto(p, "truncate")
          /\ UNCHANGED result
  /\ UNCHANGED <<latest, key, scan, removing, unread, dismantled, meetings,
                 troubles>>

\* record_latest_cached_rom_dir: fs::write truncates LATEST_ROM_DIR, then writes.
Truncate(p) ==
  /\ pc[p] = "truncate"
  /\ latest' = "empty"
  /\ Goto(p, "record")
  /\ UNCHANGED <<base, temp, key, scan, removing, unread, result, history>>

\* Variant: the temporary directory is recorded.
RecordTemp(p) ==
  /\ pc[p] = "record"
  /\ latest' = p
  /\ IF hit[p] THEN Return(p, "ok", seen[p])
     ELSE Goto(p, "list") /\ UNCHANGED result
  /\ UNCHANGED <<base, temp, key, scan, removing, unread, history>>

Record(p) ==
  /\ pc[p] = "record"
  /\ latest' = key[p]
  /\ IF hit[p] THEN Return(p, "ok", seen[p])
     ELSE Goto(p, "list") /\ UNCHANGED result
  /\ UNCHANGED <<base, temp, key, scan, removing, unread, history>>

-----------------------------------------------------------------------------
(***************************************************************************)
(* What goes wrong.                                                        *)
(***************************************************************************)

\* The process is killed and leaves everything as it is.
Stop(p) ==
  /\ pc[p] # "idle"
  /\ stops < MaxStops
  /\ stops' = stops + 1
  /\ Goto(p, "idle")
  /\ UNCHANGED <<disk, key, scan, removing, unread, result, activated, dismantled,
                 meetings, faults, misread, failed>>

\* A file-system call fails on its own account.
Fault ==
  /\ faults < MaxFaults
  /\ faults' = faults + 1

\* In the hit check, whose every failure is a miss.
Misread(p) ==
  /\ Fault
  /\ pc[p] = "check" \/ (pc[p] \in {"list", "read"} /\ hit[p])
  /\ hit' = [hit EXCEPT ![p] = FALSE]
  /\ misread' = misread \cup {key[p]}
  /\ Goto(p, "clear")
  /\ UNCHANGED <<disk, key, todo, seen, removing, unread, result, activated,
                 dismantled, meetings, stops, failed>>

\* In the source, on an entry beside the manifest, which is passed over.
PassOver(p) ==
  /\ Fault
  /\ pc[p] = "write"
  /\ \E a \in todo[p] \cap Optional :
       /\ todo' = [todo EXCEPT ![p] = @ \ {a}]
       /\ unread' = [unread EXCEPT ![serial[p]] = @ \cup {a}]
  /\ failed' = [failed EXCEPT ![p] = TRUE]
  /\ UNCHANGED <<disk, pc, key, hit, seen, removing, result, activated, dismantled,
                 meetings, stops, misread>>

\* In Path::exists, so that a directory in the way is not seen: the stale temporary
\* one keeps what an earlier run left in it, the cache is not removed.
Overlook(p) ==
  /\ Fault
  /\ \/ /\ pc[p] = "clear"
        /\ \E d \in [id : {serial[p]}, ready : BOOLEAN, roms : {TRUE},
                   assets : SUBSET Asset] : temp' = [temp EXCEPT ![p] = d]
        /\ todo' = [todo EXCEPT ![p] = Asset]
        /\ Goto(p, "write")
     \/ /\ pc[p] = "probe"
        /\ Goto(p, "rename")
        /\ UNCHANGED <<temp, todo>>
  /\ failed' = [failed EXCEPT ![p] = TRUE]
  /\ UNCHANGED <<base, latest, key, hit, seen, removing, unread, result, activated,
                 dismantled, meetings, stops, misread>>

\* In any other call, an error of the run.
Break(p) ==
  /\ Fault
  /\ pc[p] \notin {"idle", "probe"}
  /\ pc[p] \in {"list", "read"} => ~hit[p]
  /\ Fail(p)
  /\ failed' = [failed EXCEPT ![p] = TRUE]
  /\ UNCHANGED <<disk, key, scan, removing, unread, activated, dismantled, meetings,
                 stops, misread>>

Mishap(p) == Stop(p) \/ Misread(p) \/ PassOver(p) \/ Overlook(p) \/ Break(p)

Step(p) ==
  \/ Begin(p) \/ Check(p) \/ List(p) \/ Read(p) \/ EndRead(p)
  \/ Clear(p) \/ Write(p) \/ WriteReady(p)
  \/ Probe(p) \/ Open(p) \/ RemoveEntry(p) \/ RemoveBase(p) \/ Rename(p)
  \/ Truncate(p) \/ Record(p) \/ Mishap(p)

Next == \E p \in Process : Step(p)

Spec == Init /\ [][Next]_vars
-----------------------------------------------------------------------------
(***************************************************************************)
(* Properties.                                                             *)
(***************************************************************************)

\* A directory with its marker and every entry its run could read.
Whole(d) == d.ready /\ d.roms /\ Asset \ unread[d.id] \subseteq d.assets

\* S has every entry but those some run could not read.
Covers(S) == \A a \in Asset \ S : \E i \in 1..MaxRuns : a \in unread[i]

\* Writing aside and renaming works: whatever stops or fails wherever, a cache
\* directory no process has begun to remove has its marker and every entry the run
\* that made it could read, and LATEST_ROM_DIR names only directories that were put
\* in place.
ActivatedWhole ==
  /\ \A k \in Key : Exists(base[k]) /\ base[k].id \notin dismantled => Whole(base[k])
  /\ latest \in Key => latest \in activated

\* A run returns less than every entry only if some run could not read one of those
\* it passes over, or a directory was being removed, now or in a run that stopped
\* halfway.  And a valid cache is replaced only where two runs overlap or a call of
\* the hit check fails on its own account: runs that come one after the other and
\* can read the cache never begin to remove one.
PartialNeedsOverlap ==
  /\ \A p \in Process :
       result[p].kind = "ok" => Covers(result[p].assets) \/ dismantled # {}
  /\ overlapped = {} /\ misread = {} => dismantled = {}

\* A run that shares its key with no other run, and has no call fail on its own
\* account after the hit check, succeeds, whatever earlier runs left behind.
LoneRunSucceeds ==
  \A p \in Process : result[p].kind = "error" => ~alone[p] \/ failed[p]

\* What README.md says of the cache, "materializes recognized ROM entries once":
\* a later run that finds the cache ready, with no other run around, gets them all.
LoneHitIsWhole ==
  \A p \in Process :
    result[p].kind = "ok" /\ hit[p] /\ alone[p] => result[p].assets = Asset
=============================================================================
