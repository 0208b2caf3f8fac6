--------------------------- MODULE CegisTrajectory ---------------------------
(***************************************************************************)
(* The verdict on a synthesis trajectory (cegis_engine.py), as operators.  *)
(* A candidate program is its normalised syntax tree and its violations;   *)
(* a violation is a rule at a place, which determine its hash.  The        *)
(* verifier is a function of the program, so that candidates with the same *)
(* tree and place have the same violations.                                *)
(***************************************************************************)
EXTENDS Integers, Sequences, FiniteSets

Rules(violations) == {v.rule : v \in violations}

\* The constraint that a violation breaks a second time, as a finding of its own.
Repeat(v) == [rule |-> "CEGIS008", at |-> v]

Constraints(effective, n) == UNION {effective[i] : i \in 1..n}

\* Mutant of Effective: only the last step's violations are remembered.
EffectiveForgets(sources) ==
  LET old(i) == IF i = 1 THEN {} ELSE sources[i - 1].violations
  IN [i \in DOMAIN sources |->
        sources[i].violations \cup {Repeat(v) : v \in sources[i].violations \cap old(i)}]

\* For each step its violations, and a repeat for each that an earlier step had.
Effective(sources) ==
  LET step[n \in 0..Len(sources)] ==
        IF n = 0 THEN <<>>
        ELSE Append(step[n - 1],
               sources[n].violations \cup
               {Repeat(v) : v \in sources[n].violations \cap Constraints(step[n - 1], n - 1)})
  IN step[Len(sources)]

\* Pairs of a step and the first one with the same tree.
detect_cycles(sources) ==
  {pair \in (DOMAIN sources) \X (DOMAIN sources) :
     /\ pair[1] < pair[2] /\ sources[pair[1]].tree = sources[pair[2]].tree
     /\ \A k \in 1..(pair[1] - 1) : sources[k].tree # sources[pair[1]].tree}

\* Rules a step breaks and the one before did not, unless that one was clean.
detect_latent_regressions(effective) ==
  UNION {IF effective[i - 1] = {} THEN {} ELSE Rules(effective[i]) \ Rules(effective[i - 1])
           : i \in 2..Len(effective)}

_is_diverging(effective) ==
  LET n == Len(effective)
      count(i) == Cardinality(effective[i])
  IN n >= 3 /\ count(n - 2) < count(n - 1) /\ count(n - 1) < count(n)

\* The first that applies.
evaluate(sources, effective, max_iterations) ==
  LET last == Len(sources)
      degraded == /\ detect_latent_regressions(effective) # {}
                  /\ Cardinality(effective[last]) >= Cardinality(effective[1])
  IN IF effective[last] = {} THEN "converged"
     ELSE IF detect_cycles(sources) # {} THEN "oscillating"
     ELSE IF degraded THEN "degraded"
     ELSE IF last >= max_iterations THEN "budget_exhausted"
     ELSE IF _is_diverging(effective) THEN "diverging"
     ELSE "converging"

audit_trajectory(sources, max_iterations) ==
  IF sources = <<>> THEN "budget_exhausted"
  ELSE evaluate(sources, Effective(sources), max_iterations)

\* run_synthesis_loop goes on: the last program is in violation, and the budget
\* allows another.
Continues(sources, max_iterations) ==
  /\ Len(sources) <= max_iterations
  /\ sources[Len(sources)].violations # {}
=============================================================================
