-------------------------- MODULE MilestoneGovernor --------------------------
(***************************************************************************)
(* The audit of a milestone (milestone_governor.py), as operators.  An     *)
(* issue is its number, whether it is open, a P0 blocker, an epic, and     *)
(* whether it was created and closed within the window; velocities are     *)
(* counts over the window.  A finding is a rule, a level and an issue.     *)
(***************************************************************************)
EXTENDS Integers, FiniteSets

CONSTANTS
  WindowDays,   \* window_days, at least one
  MaxIssues,    \* the recommended size of a milestone
  Critical,     \* CRITICAL_MEGA_MILESTONE_ISSUES
  Stagnant,     \* the open issues from which a milestone may be stagnant
  None

ASSUME GovernorAssumption ==
  /\ {WindowDays, MaxIssues, Critical, Stagnant} \subseteq Nat \ {0}
  /\ MaxIssues <= Critical

Phase == {"INTAKE", "AIR_LOCKED", "FROZEN", "CLOSED"}

Open(issues) == {i \in issues : i.open}
Created(issues) == Cardinality({i \in issues : i.created})
Closed(issues) == Cardinality({i \in issues : i.closed})

\* Neither done nor burning down by more than 0.05 issues a day, net.
is_live_locked(issues) ==
  Open(issues) # {} /\ 20 * (Closed(issues) - Created(issues)) <= WindowDays

\* convergence_ratio < 1.2: burn over max(scope, 0.01 a day), to two decimals.
ConvergesSlowly(issues) ==
  LET scope == IF 100 * Created(issues) > WindowDays THEN 100 * Created(issues) ELSE WindowDays
  IN (20000 * Closed(issues) + scope) \div (2 * scope) < 120

Finding(rule, level, subject, condition) ==
  IF condition THEN {<<rule, level, subject>>} ELSE {}

_check_sizing_rules(issues) ==
  LET size == Cardinality(issues)
  IN Finding("MLS003", "error", None, size > Critical)
     \cup Finding("MLS003", "warning", None, MaxIssues < size /\ size <= Critical)

\* Stagnant: seven to nine tenths done, and much still open.
_check_stagnant_horizon(issues) ==
  LET size == Cardinality(issues)
      open == Cardinality(Open(issues))
      done == 10 * (size - open)
  IN Finding("MLS004", "warning", None,
             7 * size <= done /\ done <= 9 * size /\ open >= Stagnant)

_check_convergence_rules(issues, phase) ==
  IF Open(issues) = {} THEN {} ELSE
    Finding("MLS001", IF phase \in {"AIR_LOCKED", "FROZEN"} THEN "error" ELSE "warning", None,
            is_live_locked(issues))
    \cup Finding("MLS001", "warning", None, ~is_live_locked(issues) /\ ConvergesSlowly(issues))
    \cup _check_stagnant_horizon(issues)

\* Frozen, nothing may be open; air-locked, only blockers.
_check_airlock_rules(issues, phase) ==
  {<<"MLS002", "error", i.number>> :
     i \in {j \in Open(issues) : phase = "FROZEN" \/ (phase = "AIR_LOCKED" /\ ~j.p0)}}

audit_milestone(issues, phase) ==
  _check_sizing_rules(issues) \cup _check_convergence_rules(issues, phase)
    \cup _check_airlock_rules(issues, phase)

\* Mutant of partition_milestone_rollover: what is done is not kept.
partition_milestone_rollover_undone(issues) ==
  LET rollover == {i \in Open(issues) : ~(i.p0 \/ i.epic)}
  IN [keep |-> Open(issues) \ rollover, rollover |-> rollover]

\* What rolls over is open, no blocker and no epic; the rest is kept.
partition_milestone_rollover(issues) ==
  LET rollover == {i \in Open(issues) : ~(i.p0 \/ i.epic)}
  IN [keep |-> issues \ rollover, rollover |-> rollover]

\* main's exit code is 1.
Blocks(issues, phase) == \E f \in audit_milestone(issues, phase) : f[2] = "error"
=============================================================================
