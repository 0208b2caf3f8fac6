---------------------------- MODULE ResourceReview ----------------------------
(***************************************************************************)
(* How the resource iteration workbench judges what it has scanned and run *)
(* (resource_iteration_workbench.py): each resource by its violations,     *)
(* leaks and tests, and all of them by the worst and by the average.       *)
(***************************************************************************)
EXTENDS Integers, FiniteSets, FiniteSetsExt

CONSTANT NotRun   \* a resource without tests or validation

ASSUME NotRunAssumption == NotRun \notin [failed : Nat, bad_exit : BOOLEAN, warnings : Nat]

\* A suite of which the one session for all has a result is not run again, and
\* warnings are not attributed to it; one that breaks has no result there.
run_tests_for_resource(resource) ==
  CASE resource.suite = NotRun -> NotRun
    [] resource.suite # NotRun /\ resource.warm /\ ~resource.suite.broken ->
         [failed |-> resource.suite.failed, bad_exit |-> resource.suite.failed > 0, warnings |-> 0]
    [] OTHER ->
         [failed |-> resource.suite.failed, warnings |-> resource.suite.warnings,
          bad_exit |-> resource.suite.failed > 0 \/ resource.suite.broken]

Failing(run) == run # NotRun /\ (run.failed > 0 \/ run.bad_exit)
Warns(run) == run # NotRun /\ run.warnings > 0

_evaluate_scan_penalties(resource) == 20 * resource.violations + 15 * resource.leaks

_evaluate_run_penalties(run) ==
  IF run = NotRun THEN 0
  ELSE (IF Failing(run) THEN Max({25 * run.failed, 30}) ELSE 0) + 5 * run.warnings

Score(resource, run) ==
  Max({0, 100 - _evaluate_scan_penalties(resource) - _evaluate_run_penalties(run)})

_determine_health(resource, run) ==
  IF resource.violations > 0 \/ Failing(run) THEN "CRITICAL"
  ELSE IF Score(resource, run) < 85 \/ resource.leaks > 0 \/ Warns(run) THEN "NEEDS_REMEDIATION"
  ELSE "HEALTHY"

Evaluation(resource) ==
  LET run == run_tests_for_resource(resource)
  IN [health |-> _determine_health(resource, run), score |-> Score(resource, run)]

\* Mutant of _needs_remediation_eval: the average decides.
_needs_remediation_eval_by_average(resources) ==
  MapThenSumSet(LAMBDA r : Evaluation(r).score, resources) < 90 * Cardinality(resources)

_needs_remediation_eval(resources) ==
  \/ MapThenSumSet(LAMBDA r : Evaluation(r).score, resources) < 90 * Cardinality(resources)
  \/ \E r \in resources : Evaluation(r).health = "NEEDS_REMEDIATION"

_is_critical_eval(resources) ==
  \/ \E r \in resources : r.violations > 0
  \/ \E r \in resources : LET run == run_tests_for_resource(r) IN run # NotRun /\ run.failed > 0
  \/ \E r \in resources : Evaluation(r).health = "CRITICAL"

_synthesize_report(resources) ==
  IF resources = {} THEN "HEALTHY"
  ELSE IF _is_critical_eval(resources) THEN "CRITICAL"
  ELSE IF _needs_remediation_eval(resources) THEN "NEEDS_REMEDIATION"
  ELSE "HEALTHY"
=============================================================================
