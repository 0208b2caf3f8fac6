--------------------------- MODULE FindingBaseline ---------------------------
(***************************************************************************)
(* The baseline of accepted findings (finding_baseline.py) and the report  *)
(* that applies it (sarif_report.py): one file and one log, used by        *)
(* commands that may overlap and may die.  A finding is its fingerprint,   *)
(* which does not tell two of a kind in one file apart.  The code under    *)
(* the gate changes while all this goes on.                                *)
(***************************************************************************)
EXTENDS Integers, FiniteSets

CONSTANTS
  User, Fingerprint,
  Cut,                    \* a file truncated and not yet written: no JSON
  MaxCommands, MaxEdits, MaxKills   \* bounds of the runs

VARIABLES
  blCode,      \* the findings that the code gives rise to now
  blFile,      \* the accepted fingerprints, or Cut; an absent file accepts nothing
  blLog,       \* the log: its results, and what it was made from
  blDoing,     \* where each user's command is
  blAsked,     \* every fingerprint that was ever to be accepted
  blPruned,    \* what has been pruned and was not accepted again
  blCount,     \* commands, edits and deaths so far
  blCrossed    \* two commands have overlapped, or one has died

blVars == <<blCode, blFile, blLog, blDoing, blAsked, blPruned, blCount, blCrossed>>

Resting == [step |-> "rest"]

BlInit ==
  /\ blCode \in SUBSET Fingerprint
  /\ blFile = {} /\ blAsked = {} /\ blPruned = {}
  /\ blLog = [results |-> {}, code |-> {}, filtered |-> TRUE]
  /\ blDoing = [u \in User |-> Resting]
  /\ blCount = [commands |-> 0, edits |-> 0, kills |-> 0]
  /\ blCrossed = FALSE

\* A defect is introduced or fixed.
Edit ==
  /\ blCount.edits < MaxEdits /\ blCount' = [blCount EXCEPT !.edits = @ + 1]
  /\ \E f \in Fingerprint :
       blCode' = IF f \in blCode THEN blCode \ {f} ELSE blCode \cup {f}
  /\ UNCHANGED <<blFile, blLog, blDoing, blAsked, blPruned, blCrossed>>

Starts(u, command) ==
  /\ blDoing[u] = Resting /\ blCount.commands < MaxCommands
  /\ blCount' = [blCount EXCEPT !.commands = @ + 1]
  /\ blCrossed' = (blCrossed \/ \E v \in User : blDoing[v] # Resting)
  /\ blDoing' = [blDoing EXCEPT ![u] = command]

Goes(u, command) ==
  /\ blDoing' = [blDoing EXCEPT ![u] = command]
  /\ UNCHANGED <<blCount, blCrossed>>

\* record accepts what the log lists.  The old baseline is not read.
_handle_record(u) ==
  /\ Starts(u, [step |-> "save", entries |-> blLog.results, gone |-> {}, next |-> Resting])
  /\ UNCHANGED <<blCode, blFile, blLog, blAsked, blPruned>>

\* sarif_report runs the oracles; --write-baseline accepts all they find, and
\* only then --baseline is applied.
_handle_report(u) ==
  /\ \E apply, accept \in BOOLEAN :
       LET report == [step |-> "report", found |-> blCode, apply |-> apply]
       IN Starts(u, IF accept THEN [step |-> "save", entries |-> blCode, gone |-> {}, next |-> report]
                    ELSE report)
  /\ UNCHANGED <<blCode, blFile, blLog, blAsked, blPruned>>

\* What the baseline knows does not get into the log.  A baseline that is cut
\* short is an error, and nothing is written.
_apply_baseline(u) ==
  LET c == blDoing[u] IN
  /\ c.step = "report"
  /\ blLog' = IF c.apply /\ blFile = Cut THEN blLog
              ELSE [results |-> IF c.apply THEN c.found \ blFile ELSE c.found,
                    code |-> c.found, filtered |-> c.apply]
  /\ Goes(u, Resting)
  /\ UNCHANGED <<blCode, blFile, blAsked, blPruned>>

\* partition(...).resolved
Resolved(baseline, results) == baseline \ results

\* prune reads the log and the baseline; with nothing resolved it leaves the
\* file alone.
_handle_prune(u) ==
  /\ LET resolved == Resolved(blFile, blLog.results) IN
       Starts(u, IF blFile = Cut \/ resolved = {} THEN Resting
                 ELSE [step |-> "prune", log |-> blLog, gone |-> resolved])
  /\ UNCHANGED <<blCode, blFile, blLog, blAsked, blPruned>>

\* Mutant of Kept: the wrong side of the comparison.
KeptStale(c) == blFile \cap c.gone

Kept(c) == blFile \ c.gone

\* It reads the baseline a second time, and drops from that.
prune(u) ==
  LET c == blDoing[u] IN
  /\ c.step = "prune"
  /\ Goes(u, IF blFile = Cut THEN Resting
             ELSE [step |-> "save", entries |-> Kept(c), gone |-> c.gone, next |-> Resting])
  /\ UNCHANGED <<blCode, blFile, blLog, blAsked, blPruned>>

\* write_text truncates the file, then writes it.
Truncate(u) ==
  /\ blDoing[u].step = "save" /\ blFile' = Cut
  /\ Goes(u, [blDoing[u] EXCEPT !.step = "write"])
  /\ UNCHANGED <<blCode, blLog, blAsked, blPruned>>

Write(u) ==
  LET c == blDoing[u] IN
  /\ c.step = "write" /\ blFile' = c.entries
  /\ blAsked' = IF c.gone = {} THEN blAsked \cup c.entries ELSE blAsked
  /\ blPruned' = (blPruned \ (IF c.gone = {} THEN c.entries ELSE {})) \cup c.gone
  /\ Goes(u, c.next)
  /\ UNCHANGED <<blCode, blLog>>

Kill(u) ==
  /\ blDoing[u] # Resting /\ blCount.kills < MaxKills
  /\ blCount' = [blCount EXCEPT !.kills = @ + 1]
  /\ blDoing' = [blDoing EXCEPT ![u] = Resting] /\ blCrossed' = TRUE
  /\ UNCHANGED <<blCode, blFile, blLog, blAsked, blPruned>>

BlNext ==
  \/ Edit
  \/ \E u \in User :
       \/ _handle_record(u) \/ _handle_report(u) \/ _handle_prune(u)
       \/ _apply_baseline(u) \/ prune(u) \/ Truncate(u) \/ Write(u) \/ Kill(u)

BlSpec == BlInit /\ [][BlNext]_blVars
-----------------------------------------------------------------------------
\* Whatever the commands' interleaving and wherever they die, the gate never
\* suppresses a finding that nobody ever asked it to accept.
AcceptedOnlyIfAsked == blFile # Cut => blFile \subseteq blAsked

\* A finding that was fixed, pruned and introduced again is reported again,
\* unless it was accepted anew; provided that commands did not overlap.
ReintroducedIsReported == ~blCrossed /\ blFile # Cut => blFile \cap blPruned = {}

\* With a log that lists all there is, prune gives up nothing that the code
\* still produced when the log was made.
PrunedWereFixed ==
  \A u \in User : blDoing[u].step = "prune" /\ ~blDoing[u].log.filtered =>
    blDoing[u].gone \cap blDoing[u].log.code = {}

\* What the gate passes over was accepted, and is no more than that.
BaselineIsHonest == AcceptedOnlyIfAsked /\ ReintroducedIsReported /\ PrunedWereFixed
=============================================================================
