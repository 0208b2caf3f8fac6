------------------------------ MODULE SloLedger ------------------------------
(***************************************************************************)
(* The ledger of iterations behind the error budgets (reliability_slo.py), *)
(* recorded by several processes that may die between any two steps.  It   *)
(* is a directory of shards or a single file; either is a function from    *)
(* names, ordered as they sort, to entries: a shard's name is its second   *)
(* and the number of shards its writer saw, a file's is the place.  A file *)
(* cut short reads as no history at all, a shard cut short is Torn.        *)
(***************************************************************************)
EXTENDS Integers, Sequences, FiniteSets, FiniteSetsExt

CONSTANTS
  Recorder, Reports,     \* what an iteration measured: good and valid events
  Objectives,            \* SLI, target in percent, least events, gating
  Retention, Window,     \* MAX_HISTORY_ITERATIONS, window_iterations
  CriticalBurn, MinIterations,
  Torn,
  MaxRecords, LastSecond, MaxDeaths   \* bounds of the runs

ASSUME LedgerAssumption ==
  /\ {Retention, Window, CriticalBurn, MinIterations} \subseteq Nat \ {0}
  /\ Window <= Retention
  \* No more events are good than valid; zero-budget objectives need but one event.
  /\ \A o \in Objectives :
       /\ {o.target, o.least} \subseteq Nat /\ o.target <= 100
       /\ o.target = 100 => o.least <= 1
       /\ \A r \in Reports : r[o.sli] \in Nat \X Nat /\ r[o.sli][1] <= r[o.sli][2]
  /\ Torn \notin [id : Nat, second : Nat, report : Reports]

VARIABLES
  sloKind,      \* "shards" or "file"
  sloLedger,    \* the entries by name
  sloDoing,     \* where each recorder is: the step, its entry, what it has read
  sloSecond,    \* the second on the clock
  sloBegun,     \* all entries begun, in order
  sloWritten,   \* those of them written in full
  sloDeaths,
  sloCrossed    \* two recordings have overlapped

sloVars == <<sloKind, sloLedger, sloDoing, sloSecond, sloBegun, sloWritten, sloDeaths, sloCrossed>>

Before(a, b) == a[1] < b[1] \/ (a[1] = b[1] /\ a[2] < b[2])

\* sorted(names)[-k:]
Newest(names, k) == {n \in names : Cardinality({m \in names : Before(n, m)}) < k}

Without(ledger, names) == [n \in DOMAIN ledger \ names |-> ledger[n]]
With(ledger, name, entry) ==
  [n \in DOMAIN ledger \cup {name} |-> IF n = name THEN entry ELSE ledger[n]]

\* What cannot be read is left out before the last are taken.
load_history(ledger) ==
  LET readable == {n \in DOMAIN ledger : ledger[n] # Torn}
  IN Without(ledger, DOMAIN ledger \ Newest(readable, Retention))

Total(history, sli, which) ==
  LET recent == Newest(DOMAIN history, Window)
  IN MapThenSumSet(LAMBDA n : history[n].report[sli][which], recent)

\* A target of 100 percent leaves no budget, and any failure exhausts it.
Exhausted(failing, budget) == failing > 0 /\ failing >= budget

\* The first rule that applies.  Fractions of the budget are cleared of their
\* denominators: consumed = failing / budget, burn rate = consumed * Window / iterations.
Status(objective, history) ==
  LET good == Total(history, objective.sli, 1)
      valid == Total(history, objective.sli, 2)
      iterations == Cardinality(Newest(DOMAIN history, Window))
      failing == 100 * (valid - good)
      budget == (100 - objective.target) * valid
  IN CASE valid < objective.least -> "INSUFFICIENT_DATA"
       [] valid >= objective.least /\ Exhausted(failing, budget) -> "EXHAUSTED"
       [] OTHER ->
          IF failing * Window > CriticalBurn * iterations * budget /\ iterations >= MinIterations
            THEN "BURNING"
          ELSE IF iterations = Window /\ failing = 0 THEN "UNSPENT"
          ELSE "HEALTHY"

decide_phase(statuses) ==
  CASE statuses \cap {"EXHAUSTED", "BURNING"} # {} -> "REACTIVE"
    [] statuses = {"UNSPENT"} -> "REVIEW"
    [] OTHER -> "PROACTIVE"

gating_states == {o \in Objectives : o.gating}

\* The exit code of status and policy.
ReleaseBlocked(ledger) ==
  decide_phase({Status(o, load_history(ledger)) : o \in gating_states}) = "REACTIVE"

SloInit ==
  /\ sloKind \in {"shards", "file"}
  /\ sloLedger = <<>>
  /\ sloDoing = [p \in Recorder |-> [step |-> "idle"]]
  /\ sloSecond = 1 /\ sloDeaths = 0 /\ sloCrossed = FALSE
  /\ sloBegun = <<>> /\ sloWritten = {}

Idle(p) == sloDoing[p].step = "idle"
At(p, kind, step) == sloKind = kind /\ sloDoing[p].step = step

Go(p, step, read) ==
  sloDoing' = [sloDoing EXCEPT ![p] = [step |-> step, entry |-> @.entry, read |-> read]]

\* What is left to unlink; with nothing left the recorder returns.
Prune(p, stale) ==
  IF stale # {} THEN Go(p, "pruning", stale)
  ELSE sloDoing' = [sloDoing EXCEPT ![p] = [step |-> "idle"]]

\* The report of an iteration, with the second it was made in.
record_iteration(p) ==
  /\ Idle(p) /\ Len(sloBegun) < MaxRecords
  /\ \E r \in Reports :
       LET e == [id |-> Len(sloBegun) + 1, second |-> sloSecond, report |-> r]
       IN /\ sloBegun' = Append(sloBegun, e)
          /\ sloDoing' = [sloDoing EXCEPT ![p] = [step |-> "begun", entry |-> e]]
  /\ sloCrossed' = (sloCrossed \/ \E q \in Recorder : ~Idle(q))
  /\ UNCHANGED <<sloKind, sloLedger, sloSecond, sloWritten, sloDeaths>>

\* len(shards), read before the name is made.
CountShards(p) ==
  /\ At(p, "shards", "begun")
  /\ Go(p, "counted", Cardinality(DOMAIN sloLedger))
  /\ UNCHANGED <<sloKind, sloLedger, sloSecond, sloBegun, sloWritten, sloDeaths, sloCrossed>>

_shard_name(p) == <<sloDoing[p].entry.second, sloDoing[p].read>>

\* Opening truncates: the shard is there and has nothing in it.
OpenShard(p) ==
  /\ At(p, "shards", "counted")
  /\ sloLedger' = With(sloLedger, _shard_name(p), Torn)
  /\ Go(p, "open", sloDoing[p].read)
  /\ UNCHANGED <<sloKind, sloSecond, sloBegun, sloWritten, sloDeaths, sloCrossed>>

\* If another has pruned the open shard the content goes with it.
FillShard(p) ==
  /\ At(p, "shards", "open")
  /\ LET n == _shard_name(p) IN
       sloLedger' = IF n \in DOMAIN sloLedger
                      THEN [sloLedger EXCEPT ![n] = sloDoing[p].entry] ELSE sloLedger
  /\ sloWritten' = sloWritten \cup {sloDoing[p].entry}
  /\ Go(p, "filled", {})
  /\ UNCHANGED <<sloKind, sloSecond, sloBegun, sloDeaths, sloCrossed>>

\* Mutant of Stale: the first are kept.
StaleLatest(names) ==
  {n \in names : Cardinality({m \in names : Before(m, n)}) >= Retention}

\* sorted(names)[:-MAX_HISTORY_ITERATIONS]
Stale(names) == names \ Newest(names, Retention)

ListStale(p) ==
  /\ At(p, "shards", "filled")
  /\ Prune(p, Stale(DOMAIN sloLedger))
  /\ UNCHANGED <<sloKind, sloLedger, sloSecond, sloBegun, sloWritten, sloDeaths, sloCrossed>>

\* One by one; that another has removed it is no error.
UnlinkStale(p) ==
  /\ At(p, "shards", "pruning")
  /\ LET first == CHOOSE n \in sloDoing[p].read : \A m \in sloDoing[p].read : ~Before(m, n)
     IN /\ sloLedger' = Without(sloLedger, {first})
        /\ Prune(p, sloDoing[p].read \ {first})
  /\ UNCHANGED <<sloKind, sloSecond, sloBegun, sloWritten, sloDeaths, sloCrossed>>

\* A single file is read, extended, cut to the last entries, and rewritten.
ReadFile(p) ==
  /\ At(p, "file", "begun")
  /\ LET extended == With(sloLedger, <<sloDoing[p].entry.id, 0>>, sloDoing[p].entry)
     IN Go(p, "read", Without(extended, Stale(DOMAIN extended)))
  /\ UNCHANGED <<sloKind, sloLedger, sloSecond, sloBegun, sloWritten, sloDeaths, sloCrossed>>

TruncateFile(p) ==
  /\ At(p, "file", "read") /\ Go(p, "open", sloDoing[p].read)
  /\ sloLedger' = <<>>
  /\ UNCHANGED <<sloKind, sloSecond, sloBegun, sloWritten, sloDeaths, sloCrossed>>

FillFile(p) ==
  /\ At(p, "file", "open") /\ Prune(p, {})
  /\ sloLedger' = sloDoing[p].read
  /\ sloWritten' = sloWritten \cup {sloDoing[p].entry}
  /\ UNCHANGED <<sloKind, sloSecond, sloBegun, sloDeaths, sloCrossed>>

RecorderDies(p) ==
  /\ ~Idle(p) /\ sloDeaths < MaxDeaths
  /\ sloDeaths' = sloDeaths + 1
  /\ sloDoing' = [sloDoing EXCEPT ![p] = [step |-> "idle"]]
  /\ UNCHANGED <<sloKind, sloLedger, sloSecond, sloBegun, sloWritten, sloCrossed>>

NextSecond ==
  /\ sloSecond < LastSecond /\ sloSecond' = sloSecond + 1
  /\ UNCHANGED <<sloKind, sloLedger, sloDoing, sloBegun, sloWritten, sloDeaths, sloCrossed>>

SloNext ==
  \/ NextSecond
  \/ \E p \in Recorder :
       \/ record_iteration(p) \/ CountShards(p) \/ OpenShard(p) \/ FillShard(p)
       \/ ListStale(p) \/ UnlinkStale(p)
       \/ ReadFile(p) \/ TruncateFile(p) \/ FillFile(p)
       \/ RecorderDies(p)

SloSpec == SloInit /\ [][SloNext]_sloVars
-----------------------------------------------------------------------------
Begun == {sloBegun[i] : i \in DOMAIN sloBegun}
Alone(e) == \A f \in Begun \ {e} : f.second # e.second
Later(e) == {f \in Begun : f.second > e.second}

\* The directory is a rolling window: when nobody is recording, there are no
\* more shards than are to be kept, whoever pruned while others wrote.
LedgerIsBounded ==
  (\A p \in Recorder : Idle(p)) /\ sloDeaths = 0 => Cardinality(DOMAIN sloLedger) <= Retention

\* Whatever order recorders count, write and prune in, and wherever they die,
\* an iteration alone in its second is kept until newer ones have displaced it.
\* (Two of one second that count alike take one name.)
NewestAreKept ==
  sloKind = "shards" =>
    \A e \in sloWritten :
      Alone(e) /\ Cardinality(Later(e)) < Retention => \E n \in DOMAIN sloLedger : sloLedger[n] = e

Breaches(e) ==
  \E o \in Objectives : o.gating /\ o.target = 100 /\ e.report[o.sli][1] < e.report[o.sli][2]

\* A breach of an objective without a budget blocks the release from the moment
\* it is recorded until it has left the window.  Of a single file that holds
\* only as long as recordings do not overlap and none dies or is under way.
BreachBlocks ==
  \A e \in sloWritten : Breaches(e) =>
    IF sloKind = "shards"
      THEN Alone(e) /\ Cardinality(Later(e)) < Window => ReleaseBlocked(sloLedger)
      ELSE /\ ~sloCrossed /\ sloDeaths = 0 /\ \A p \in Recorder : sloDoing[p].step # "open"
           /\ Cardinality({f \in Begun : f.id > e.id}) < Window
           => ReleaseBlocked(sloLedger)

\* A steering objective moves the phase but never blocks a release: what blocks
\* is a gating objective that has lost events within the window.
OnlyGatesBlock ==
  ReleaseBlocked(sloLedger) =>
    LET history == load_history(sloLedger)
    IN \E o \in gating_states : Total(history, o.sli, 1) < Total(history, o.sli, 2)

\* The window is kept, and what is in it decides about the release.
LedgerGates == LedgerIsBounded /\ NewestAreKept /\ BreachBlocks /\ OnlyGatesBlock
=============================================================================
