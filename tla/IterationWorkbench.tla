-------------------------- MODULE IterationWorkbench --------------------------
(***************************************************************************)
(* The watch mode of the resource iteration workbench, and other runs of   *)
(* it beside (resource_iteration_workbench.py): a tick compares the        *)
(* modification times with those of the last tick that found a change,     *)
(* file by file; if any differs, all files are scanned one after the other *)
(* and reported on against the baseline.  Editors do not wait for it.      *)
(***************************************************************************)
EXTENDS Integers, FiniteSets

CONSTANTS
  File,
  Nothing,       \* of a file that is not there
  MaxComplexity, MaxSaves, MaxClock, MaxOtherRuns   \* bounds of the runs

AFile == [edit : Nat, mtime : Nat, complexity : Nat]
AScan == [edit : Nat \cup {Nothing}, complexity : Nat]
AReport == [edit : Nat \cup {Nothing}, complexity : Nat, delta : Int \cup {Nothing}]

ASSUME NothingAssumption == Nothing \notin Nat \cup AFile \cup AScan \cup AReport

VARIABLES
  wbFiles,      \* of each file the number of its edit, its time and complexity
  wbTouched,    \* when each file was last edited, created or deleted
  wbClock,      \* in the unit of modification times
  wbSnapshot,   \* the times that the last tick to find a change has found
  wbTick,       \* where the tick is
  wbReport,     \* what was last reported of each file
  wbBaseline,   \* the complexity of each file in the baseline
  wbCount,      \* edits and other runs so far
  wbBlurred,    \* the files that were touched twice in one unit of time
  wbDisturbed   \* another run has saved the baseline since the last report

wbVars == <<wbFiles, wbTouched, wbClock, wbSnapshot, wbTick, wbReport, wbBaseline,
            wbCount, wbBlurred, wbDisturbed>>

NoFiles == [f \in File |-> Nothing]
Asleep == [step |-> "asleep"]
Present == {f \in File : wbFiles[f] # Nothing}
_safe_mtime(f) == IF f \in Present THEN wbFiles[f].mtime ELSE Nothing

WbInit ==
  /\ wbFiles = [f \in File |-> [edit |-> 0, mtime |-> 0, complexity |-> 1]]
  /\ wbTouched = [f \in File |-> 0] /\ wbClock = 1
  /\ wbSnapshot = NoFiles /\ wbTick = Asleep
  /\ wbReport = NoFiles /\ wbBaseline = NoFiles
  /\ wbCount = [edits |-> 0, runs |-> 0]
  /\ wbBlurred = {} /\ wbDisturbed = FALSE

\* A file is written, created or deleted.
Touch ==
  /\ wbCount.edits < MaxSaves /\ wbCount' = [wbCount EXCEPT !.edits = @ + 1]
  /\ \E f \in File :
       /\ \E new \in {Nothing} \cup
            [edit : {wbCount'.edits}, mtime : {wbClock}, complexity : 1..MaxComplexity] :
            wbFiles' = [wbFiles EXCEPT ![f] = new]
       /\ wbTouched' = [wbTouched EXCEPT ![f] = wbClock]
       /\ wbBlurred' = IF wbTouched[f] = wbClock THEN wbBlurred \cup {f} ELSE wbBlurred
  /\ UNCHANGED <<wbClock, wbSnapshot, wbTick, wbReport, wbBaseline, wbDisturbed>>

Elapse ==
  /\ wbClock < MaxClock /\ wbClock' = wbClock + 1
  /\ UNCHANGED <<wbFiles, wbTouched, wbSnapshot, wbTick, wbReport, wbBaseline,
                 wbCount, wbBlurred, wbDisturbed>>

Ticks(step, tick) ==
  /\ wbTick.step = step /\ wbTick' = tick
  /\ UNCHANGED <<wbFiles, wbTouched, wbClock, wbCount, wbBlurred>>

watch_tick ==
  /\ Ticks("asleep", [step |-> "snapshot", todo |-> File, found |-> NoFiles])
  /\ UNCHANGED <<wbSnapshot, wbReport, wbBaseline, wbDisturbed>>

snapshot ==
  /\ wbTick.step = "snapshot"
  /\ \E f \in wbTick.todo :
       Ticks("snapshot", [wbTick EXCEPT !.todo = @ \ {f}, !.found[f] = _safe_mtime(f)])
  /\ UNCHANGED <<wbSnapshot, wbReport, wbBaseline, wbDisturbed>>

detect_changes(before, now) == {f \in File : before[f] # now[f]}

\* The cycle lists the files anew.
StartCycle ==
  /\ wbTick.step = "snapshot" /\ wbTick.todo = {}
  /\ Ticks("snapshot",
       IF detect_changes(wbSnapshot, wbTick.found) = {} THEN Asleep
       ELSE [step |-> "scan", found |-> wbTick.found, todo |-> Present, scans |-> NoFiles])
  /\ UNCHANGED <<wbSnapshot, wbReport, wbBaseline, wbDisturbed>>

\* What cannot be read any more is reported as an error, with the least complexity.
scan_python_file ==
  /\ wbTick.step = "scan"
  /\ \E f \in wbTick.todo :
       Ticks("scan", [wbTick EXCEPT !.todo = @ \ {f}, !.scans[f] =
         IF f \in Present THEN [edit |-> wbFiles[f].edit, complexity |-> wbFiles[f].complexity]
         ELSE [edit |-> Nothing, complexity |-> 1]])
  /\ UNCHANGED <<wbSnapshot, wbReport, wbBaseline, wbDisturbed>>

Complexities(scans) == [f \in File |-> IF scans[f] = Nothing THEN Nothing ELSE scans[f].complexity]

Loaded == wbBaseline

\* Then the tests are run, and others may save their baseline meanwhile.
_load_baseline ==
  /\ wbTick.step = "scan" /\ wbTick.todo = {}
  /\ Ticks("scan", [step |-> "test", found |-> wbTick.found, scans |-> wbTick.scans, base |-> Loaded])
  /\ UNCHANGED <<wbSnapshot, wbReport, wbBaseline, wbDisturbed>>

Delta(f) == IF wbTick.base[f] = Nothing THEN Nothing ELSE wbTick.scans[f].complexity - wbTick.base[f]

\* Mutant of Remembered: the times as they are when the cycle has ended.
RememberedLate == [f \in File |-> _safe_mtime(f)]

Remembered == wbTick.found

\* The whole baseline is replaced.
EndCycle ==
  /\ Ticks("test", Asleep)
  /\ wbReport' = [f \in File |->
       IF wbTick.scans[f] = Nothing THEN Nothing
       ELSE [edit |-> wbTick.scans[f].edit, complexity |-> wbTick.scans[f].complexity, delta |-> Delta(f)]]
  /\ wbBaseline' = Complexities(wbTick.scans)
  /\ wbSnapshot' = Remembered /\ wbDisturbed' = FALSE

\* Another run, perhaps of a pattern: what does not match is no longer in the baseline.
OtherRun ==
  /\ wbCount.runs < MaxOtherRuns /\ wbCount' = [wbCount EXCEPT !.runs = @ + 1]
  /\ \E matching \in SUBSET Present :
       wbBaseline' = [f \in File |-> IF f \in matching THEN wbFiles[f].complexity ELSE Nothing]
  /\ wbDisturbed' = TRUE
  /\ UNCHANGED <<wbFiles, wbTouched, wbClock, wbSnapshot, wbTick, wbReport, wbBlurred>>

WbNext ==
  \/ Touch \/ Elapse \/ OtherRun
  \/ watch_tick \/ snapshot \/ StartCycle \/ scan_python_file \/ _load_baseline \/ EndCycle

WbSpec == WbInit /\ [][WbNext]_wbVars
-----------------------------------------------------------------------------
\* When a tick would find no change in a file that is there, the last report is
\* about it as it is, whenever it was edited while the loop looked, scanned or ran
\* the tests; unless it was touched twice in the unit of modification times.
NothingIsMissed ==
  wbTick = Asleep =>
    \A f \in File \ wbBlurred : wbSnapshot[f] = _safe_mtime(f) /\ f \in Present =>
      wbReport[f] # Nothing /\ wbReport[f].edit = wbFiles[f].edit

\* The delta of a report is against the report before, for every file that was in
\* it, unless another run has saved its own baseline in between.
DeltasFollowReports ==
  wbReport' # wbReport /\ ~wbDisturbed =>
    \A f \in File : wbReport[f] # Nothing /\ wbReport'[f] # Nothing =>
      wbReport'[f].delta = wbReport'[f].complexity - wbReport[f].complexity

\* Every step of the loop leaves a report of the files as they are, with deltas
\* against the report before.
ReportsAreCurrent == [][NothingIsMissed' /\ DeltasFollowReports]_wbVars
=============================================================================
