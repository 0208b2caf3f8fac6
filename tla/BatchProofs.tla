----------------------------- MODULE BatchProofs -----------------------------
(***************************************************************************)
(* What the tools that keep nothing compute, for every input: the packer,  *)
(* the governor, the synthesis loop, the review and the merge.  What a     *)
(* tool has done depends on its input alone, so that the invariants are    *)
(* short and the proofs are about the operators.                           *)
(***************************************************************************)
EXTENDS BatchTools, Instruments, FiniteSetTheorems, SequenceTheorems, WellFoundedInduction, TLAPS

\* The naturals are well founded: a set of them that is not empty has a least.
Below == {pair \in Nat \X Nat : pair[1] < pair[2]}

LEMMA LeastNatural ==
  ASSUME NEW T \in SUBSET Nat, T # {}
  PROVE  \E m \in T : \A n \in T : m <= n
<1>1. IsWellFoundedOn(Below, Nat)
  <2>1. IsWellFoundedOn(OpToRel(<, Nat), Nat)
    BY NatLessThanWellFounded
  <2>2. OpToRel(<, Nat) = Below
    BY DEF OpToRel, Below
  <2> QED BY <2>1, <2>2
<1>2. PICK m \in T : \A n \in T : <<n, m>> \notin Below
  BY <1>1, WFMin, Zenon
<1>3. \A n \in T : ~(n < m)
  BY <1>2 DEF Below
<1> QED BY <1>3

\* What is true of 0, and of n + 1 if of n, is true of every natural.
LEMMA Induction ==
  ASSUME NEW T \in SUBSET Nat, 0 \in T, \A n \in T : n + 1 \in T
  PROVE  T = Nat
<1>1. ASSUME Nat \ T # {} PROVE FALSE
  <2>1. PICK m \in Nat \ T : \A n \in Nat \ T : m <= n
    <3>1. Nat \ T \in SUBSET Nat
      OBVIOUS
    <3> QED BY <1>1, <3>1, LeastNatural, Zenon
  <2>2. m # 0 /\ m - 1 \in Nat
    BY <2>1
  <2>3. m - 1 \notin T
    <3>1. m - 1 \in T => (m - 1) + 1 \in T
      OBVIOUS
    <3> QED BY <2>1, <2>2, <3>1
  <2> QED BY <2>1, <2>2, <2>3
<1> QED BY <1>1
-----------------------------------------------------------------------------
\* The review: resource_iteration_workbench.py.

IsResource(r) ==
  /\ r.violations \in Nat /\ r.leaks \in Nat /\ r.warm \in BOOLEAN
  /\ r.suite = NotRun \/ r.suite \in [failed : Nat, broken : BOOLEAN, warnings : Nat]

\* What has been run has results that count.
LEMMA RunsHaveResults ==
  ASSUME NEW r, IsResource(r), NEW run, run = run_tests_for_resource(r), run # NotRun
  PROVE  run \in [failed : Nat, bad_exit : BOOLEAN, warnings : Nat]
<1>1. CASE r.suite = NotRun
  BY <1>1 DEF run_tests_for_resource
<1>2. CASE r.suite # NotRun /\ r.warm /\ ~r.suite.broken
  BY <1>2 DEF run_tests_for_resource, IsResource
<1>3. CASE r.suite # NotRun /\ ~(r.warm /\ ~r.suite.broken)
  <2>1. r.suite \in [failed : Nat, broken : BOOLEAN, warnings : Nat]
    BY <1>3 DEF IsResource
  <2>2. run = [failed |-> r.suite.failed, warnings |-> r.suite.warnings,
               bad_exit |-> r.suite.failed > 0 \/ r.suite.broken]
    BY <1>3 DEF run_tests_for_resource
  <2> QED BY <2>1, <2>2
<1> QED BY <1>1, <1>2, <1>3

\* There are three healths, and only the first is without fault: it has all points.
LEMMA HealthyHasAllPoints ==
  ASSUME NEW r, IsResource(r)
  PROVE  /\ Evaluation(r).health \in {"CRITICAL", "NEEDS_REMEDIATION", "HEALTHY"}
         /\ Evaluation(r).health = "HEALTHY" => Evaluation(r).score = 100
<1> DEFINE run == run_tests_for_resource(r)
<1>1. Evaluation(r).health = _determine_health(r, run) /\ Evaluation(r).score = Score(r, run)
  BY DEF Evaluation
<1>2. run # NotRun => run.failed \in Nat /\ run.warnings \in Nat
  BY RunsHaveResults
<1> HIDE DEF run
<1>3. _determine_health(r, run) \in {"CRITICAL", "NEEDS_REMEDIATION", "HEALTHY"}
  BY DEF _determine_health
<1>4. ASSUME _determine_health(r, run) = "HEALTHY" PROVE Score(r, run) = 100
  <2>1. ~(r.violations > 0) /\ ~Failing(run) /\ ~(r.leaks > 0) /\ ~Warns(run)
    BY <1>4 DEF _determine_health
  <2>2. r.violations = 0 /\ r.leaks = 0
    BY <2>1 DEF IsResource
  <2>3. run # NotRun => run.warnings = 0
    BY <2>1, <1>2 DEF Warns
  <2>4. _evaluate_run_penalties(run) = 0
    BY <2>1, <2>3 DEF _evaluate_run_penalties
  <2>5. Score(r, run) = Max({0, 100})
    BY <2>2, <2>4 DEF Score, _evaluate_scan_penalties
  <2> QED BY <2>5 DEF Max
<1> QED BY <1>1, <1>3, <1>4

\* Of resources that all have every point the average has, too.
LEMMA AllPoints ==
  ASSUME NEW S, IsFiniteSet(S), \A r \in S : Evaluation(r).score = 100
  PROVE  MapThenSumSet(LAMBDA r : Evaluation(r).score, S) = 100 * Cardinality(S)
<1> DEFINE Eq(g) == g = [s \in SUBSET S |-> IF s = {} THEN 0
                          ELSE Evaluation(CHOOSE x \in s : TRUE).score + g[s \ {CHOOSE x \in s : TRUE}]]
           it == CHOOSE g : Eq(g)
           points == [s \in SUBSET S |-> 100 * Cardinality(s)]
           one(s) == CHOOSE x \in s : TRUE
<1>1. ASSUME NEW s \in SUBSET S, s # {}
      PROVE  /\ one(s) \in s /\ Evaluation(one(s)).score = 100 /\ s \ {one(s)} \in SUBSET S
             /\ Cardinality(s) \in Nat /\ Cardinality(s \ {one(s)}) \in Nat
             /\ Cardinality(s \ {one(s)}) = Cardinality(s) - 1
  <2>1. one(s) \in s
    BY <1>1
  <2>2. IsFiniteSet(s)
    BY FS_Subset
  <2> HIDE DEF one
  <2>3. IsFiniteSet(s \ {one(s)}) /\ Cardinality(s \ {one(s)}) = Cardinality(s) - 1
    BY <2>1, <2>2, FS_RemoveElement, Zenon
  <2> QED BY <2>1, <2>2, <2>3, FS_CardinalityType
<1>2. Eq(points)
  <2>1. ASSUME NEW s \in SUBSET S, s # {}
        PROVE  points[s] = Evaluation(one(s)).score + points[s \ {one(s)}]
    <3> HIDE DEF one
    <3> QED BY <1>1, <2>1
  <2>2. points[{}] = 0
    BY FS_EmptySet
  <2>3. ASSUME NEW s \in SUBSET S
        PROVE  points[s] = IF s = {} THEN 0 ELSE Evaluation(one(s)).score + points[s \ {one(s)}]
    BY <2>1, <2>2, Zenon
  <2>4. points = [s \in SUBSET S |-> points[s]]
    BY Zenon
  <2> HIDE DEF points
  <2> QED BY <2>3, <2>4, Zenon
<1>3. Eq(it)
  <2> HIDE DEF Eq
  <2> QED BY <1>2, Zenon
<1>4. MapThenSumSet(LAMBDA r : Evaluation(r).score, S) = it[S]
  BY Zenon DEF MapThenSumSet, MapThenFoldSet
<1>5. ASSUME NEW s \in SUBSET S
      PROVE  it[s] = IF s = {} THEN 0 ELSE Evaluation(one(s)).score + it[s \ {one(s)}]
  <2> HIDE DEF it
  <2> QED BY <1>3, Zenon
<1> HIDE DEF it, Eq, one
<1> DEFINE Bad == {k \in Nat : \E s \in SUBSET S : Cardinality(s) = k /\ it[s] # 100 * Cardinality(s)}
<1>6. ASSUME Bad # {} PROVE FALSE
  <2>0. Bad \in SUBSET Nat
    BY Zenon
  <2>1. PICK k \in Bad : \A n \in Bad : k <= n
    <3> HIDE DEF Bad
    <3> QED BY <1>6, <2>0, LeastNatural
  <2>2. PICK s \in SUBSET S : Cardinality(s) = k /\ it[s] # 100 * Cardinality(s)
    BY <2>1, Zenon
  <2>3. s # {}
    <3>1. it[{}] = 0 /\ Cardinality({}) = 0
      <4>1. {} \in SUBSET S /\ Cardinality({}) = 0
        BY FS_EmptySet
      <4>2. it[{}] = 0
        BY <1>5, <4>1, Zenon
      <4> QED BY <4>1, <4>2
    <3>2. it[s] # 100 * Cardinality(s)
      BY <2>2
    <3>3. s = {} => it[s] = 0 /\ Cardinality(s) = 0
      BY <3>1, Zenon
    <3>4. 0 = 100 * 0
      OBVIOUS
    <3> QED BY <3>2, <3>3, <3>4, Zenon
  <2> DEFINE r == s \ {one(s)}
  <2>4. r \in SUBSET S /\ Cardinality(r) \in Nat /\ Cardinality(r) = k - 1 /\ k \in Nat
        /\ it[s] = 100 + it[r]
    BY <1>1, <1>5, <2>2, <2>3
  <2>5. Cardinality(r) \notin Bad
    <3> HIDE DEF r, Bad
    <3> QED BY <2>1, <2>4
  <2>6. it[r] = 100 * (k - 1)
    BY <2>4, <2>5
  <2> HIDE DEF r
  <2> QED BY <2>2, <2>4, <2>6
<1>7. it[S] = 100 * Cardinality(S)
  <2>1. Cardinality(S) \notin Bad /\ Cardinality(S) \in Nat
    BY <1>6, FS_CardinalityType
  <2>2. S \in SUBSET S
    OBVIOUS
  <2> QED BY <2>1, <2>2
<1> QED BY <1>4, <1>7

\* The verdict on a repository is the worst of its resources' healths.
LEMMA WorstCounts ==
  ASSUME NEW R \in Repositories
  PROVE  LET healths == {Evaluation(r).health : r \in R}
         IN _synthesize_report(R) =
              IF "CRITICAL" \in healths THEN "CRITICAL"
              ELSE IF "NEEDS_REMEDIATION" \in healths THEN "NEEDS_REMEDIATION" ELSE "HEALTHY"
<1>1. IsFiniteSet(R) /\ \A r \in R : IsResource(r)
  BY ReviewAssumption DEF IsResource
<1>2. ASSUME NEW r \in R
      PROVE  LET run == run_tests_for_resource(r)
             IN r.violations > 0 \/ (run # NotRun /\ run.failed > 0) => Evaluation(r).health = "CRITICAL"
  BY DEF Evaluation, _determine_health, Failing
<1>3. _is_critical_eval(R) <=> \E r \in R : Evaluation(r).health = "CRITICAL"
  BY <1>2 DEF _is_critical_eval
<1>4. ASSUME ~ _is_critical_eval(R), ~ \E r \in R : Evaluation(r).health = "NEEDS_REMEDIATION"
      PROVE  ~ _needs_remediation_eval(R)
  <2>1. \A r \in R : Evaluation(r).score = 100
    BY <1>1, <1>3, <1>4, HealthyHasAllPoints
  <2> DEFINE sum == MapThenSumSet(LAMBDA r : Evaluation(r).score, R)
  <2>2. sum = 100 * Cardinality(R)
    BY <1>1, <2>1, AllPoints
  <2> HIDE DEF sum
  <2>3. Cardinality(R) \in Nat
    BY <1>1, FS_CardinalityType
  <2>4. ~(sum < 90 * Cardinality(R))
    BY <2>2, <2>3
  <2> QED BY <1>4, <2>4 DEF sum, _needs_remediation_eval
<1>5. CASE R = {}
  BY <1>5 DEF _synthesize_report
<1>6. CASE R # {}
  BY <1>3, <1>4, <1>6 DEF _synthesize_report, _needs_remediation_eval
<1> QED BY <1>5, <1>6

\* What a tool has been given is one of its inputs, and what it has answered is the
\* answer to that.
ReviewIsDone ==
  tool = "review" =>
    input \in Repositories /\ (output # None => output = _synthesize_report(input))

\* A repository is as healthy as its worst resource: the average of
\* _needs_remediation_eval hides none, and finds no fault where there is none.
THEOREM HealthKept == Spec => []HealthIsTheWorst
<1>1. Init => ReviewIsDone
  BY DEF Init, ReviewIsDone
<1>2. ReviewIsDone /\ [Next]_vars => ReviewIsDone'
  BY DEF ReviewIsDone, Next, vars, Runs, Merge, Pack, Govern, Synthesize, Conclude, Review
<1>3. ReviewIsDone => HealthIsTheWorst
  BY WorstCounts DEF ReviewIsDone, HealthIsTheWorst, Done
<1> QED BY <1>1, <1>2, <1>3, PTL DEF Spec
-----------------------------------------------------------------------------
\* The governor: milestone_governor.py.

IsMilestone(issues) ==
  /\ IsFiniteSet(issues)
  /\ \A i \in issues :
       {i.open, i.p0, i.epic, i.created, i.closed} \subseteq BOOLEAN /\ ~(i.open /\ i.closed)

\* What rolls over is not closed: as many issues are closed as before, and no more
\* are open, created or there at all.
LEMMA RolloverCounts ==
  ASSUME NEW issues, IsMilestone(issues), NEW keep, keep = partition_milestone_rollover(issues).keep
  PROVE  /\ IsMilestone(keep) /\ keep \subseteq issues
         /\ \A i \in keep : i.open => i.p0 \/ i.epic
         /\ Open(keep) \subseteq Open(issues)
         /\ {Cardinality(keep), Cardinality(issues), Closed(keep), Created(keep), Created(issues)} \subseteq Nat
         /\ Cardinality(keep) <= Cardinality(issues)
         /\ Closed(keep) = Closed(issues) /\ Created(keep) <= Created(issues)
<1>1. keep = issues \ {i \in Open(issues) : ~(i.p0 \/ i.epic)}
  BY DEF partition_milestone_rollover
<1>2. keep \subseteq issues /\ IsFiniteSet(issues)
  BY <1>1 DEF IsMilestone
<1>3. IsFiniteSet(keep) /\ Cardinality(keep) <= Cardinality(issues)
  BY <1>2, FS_Subset
<1>4. IsMilestone(keep)
  BY <1>2, <1>3 DEF IsMilestone
<1>5. \A i \in keep : i.open => i.p0 \/ i.epic
  BY <1>1 DEF Open
<1>6. {i \in keep : i.closed} = {i \in issues : i.closed}
  BY <1>1 DEF Open, IsMilestone
<1>7. /\ IsFiniteSet({i \in keep : i.created}) /\ IsFiniteSet({i \in issues : i.created})
      /\ IsFiniteSet({i \in keep : i.closed})
      /\ Cardinality({i \in keep : i.created}) <= Cardinality({i \in issues : i.created})
  <2>1. IsFiniteSet({i \in keep : i.closed})
    BY <1>3, FS_Subset
  <2>2. IsFiniteSet({i \in issues : i.created})
    BY <1>2, FS_Subset
  <2>3. {i \in keep : i.created} \subseteq {i \in issues : i.created}
    BY <1>2
  <2> QED BY <2>1, <2>2, <2>3, FS_Subset
<1>8. {Cardinality(keep), Cardinality(issues), Closed(keep), Created(keep), Created(issues)} \subseteq Nat
  BY <1>2, <1>3, <1>7, FS_CardinalityType DEF Closed, Created
<1> QED BY <1>2, <1>3, <1>4, <1>5, <1>6, <1>7, <1>8 DEF Open, Closed, Created

\* Errors are about the size, about burning down too slowly, or about one issue.
LEMMA ErrorsStay ==
  ASSUME NEW issues, IsMilestone(issues), NEW keep, keep = partition_milestone_rollover(issues).keep,
         NEW p \in Phase, NEW f \in audit_milestone(keep, p), f[2] = "error"
  PROVE  f \in audit_milestone(issues, p)
<1>1. /\ keep \subseteq issues /\ Open(keep) \subseteq Open(issues)
      /\ {Cardinality(keep), Cardinality(issues), Closed(keep), Created(keep), Created(issues)} \subseteq Nat
      /\ Cardinality(keep) <= Cardinality(issues)
      /\ Closed(keep) = Closed(issues) /\ Created(keep) <= Created(issues)
  BY RolloverCounts, ZenonT(30)
<1>2. CASE f \in _check_sizing_rules(keep)
  <2>1. f = <<"MLS003", "error", None>> /\ Cardinality(keep) > Critical
    BY <1>2 DEF _check_sizing_rules, Finding
  <2>2. Cardinality(issues) > Critical
    BY <1>1, <2>1, GovernorAssumption
  <2> QED BY <2>1, <2>2 DEF audit_milestone, _check_sizing_rules, Finding
<1>3. CASE f \in _check_convergence_rules(keep, p)
  <2> DEFINE level == IF p \in {"AIR_LOCKED", "FROZEN"} THEN "error" ELSE "warning"
  <2>1. /\ Open(keep) # {}
        /\ \/ f = <<"MLS001", level, None>> /\ is_live_locked(keep)
           \/ f = <<"MLS001", "warning", None>>
           \/ f = <<"MLS004", "warning", None>>
    <3>1. Open(keep) # {}
      BY <1>3 DEF _check_convergence_rules
    <3> HIDE DEF level
    <3>2. f \in Finding("MLS001", level, None, is_live_locked(keep))
             \cup Finding("MLS001", "warning", None, ~is_live_locked(keep) /\ ConvergesSlowly(keep))
             \cup _check_stagnant_horizon(keep)
      BY <1>3, <3>1 DEF _check_convergence_rules, level
    <3>3. f \in _check_stagnant_horizon(keep) => f = <<"MLS004", "warning", None>>
      BY DEF _check_stagnant_horizon, Finding
    <3> QED BY <3>1, <3>2, <3>3 DEF Finding
  <2>2. f = <<"MLS001", level, None>> /\ is_live_locked(keep)
    BY <2>1
  <2>3. 20 * (Closed(keep) - Created(keep)) <= WindowDays
    BY <2>2 DEF is_live_locked
  <2>4. 20 * (Closed(issues) - Created(issues)) <= WindowDays
    BY <1>1, <2>3, GovernorAssumption
  <2>5. Open(issues) # {} /\ is_live_locked(issues)
    BY <1>1, <2>1, <2>4 DEF is_live_locked
  <2>6. f \in Finding("MLS001", level, None, is_live_locked(issues))
    BY <2>2, <2>5 DEF Finding
  <2> QED BY <2>5, <2>6 DEF audit_milestone, _check_convergence_rules
<1>4. CASE f \in _check_airlock_rules(keep, p)
  BY <1>1, <1>4 DEF audit_milestone, _check_airlock_rules
<1> QED BY <1>2, <1>3, <1>4 DEF audit_milestone

\* What is audited is a milestone, also when some of it has rolled over.
MilestonesStay == tool = "govern" => IsMilestone(input)

\* A rollover that is carried out as partition_milestone_rollover recommends brings
\* no error that was not there, and leaves in the air-lock open epics alone.
THEOREM RolloversMend == Spec => RolloverMends
<1>1. Init => MilestonesStay
  BY MilestoneAssumption DEF Init, MilestonesStay, IsMilestone
<1>2. ASSUME MilestonesStay, Next
      PROVE  /\ MilestonesStay'
             /\ tool = "govern" /\ input' # input =>
                  IsMilestone(input) /\ input' = partition_milestone_rollover(input).keep
  <2>1. CASE Govern
    <3>1. IsMilestone(input) /\ tool' = tool
      BY <1>2, <2>1 DEF Govern, Runs, MilestonesStay
    <3>2. input' = input \/ input' = partition_milestone_rollover(input).keep
      BY <2>1 DEF Govern
    <3>3. IsMilestone(partition_milestone_rollover(input).keep)
      BY <3>1, RolloverCounts, Zenon
    <3>4. IsMilestone(input')
      BY <3>1, <3>2, <3>3, Zenon
    <3> QED BY <3>1, <3>2, <3>4, Zenon DEF MilestonesStay
  <2>2. CASE Merge \/ Pack \/ Synthesize \/ Conclude \/ Review
    BY <1>2, <2>2 DEF Runs, Merge, Pack, Synthesize, Conclude, Review, MilestonesStay
  <2> QED BY <1>2, <2>1, <2>2 DEF Next
<1>3. ASSUME IsMilestone(input), input' = partition_milestone_rollover(input).keep
      PROVE  AddsNoError /\ SettlesTheAirLock
  <2>1. AddsNoError
    BY <1>3, ErrorsStay, Zenon DEF AddsNoError
  <2>2. SettlesTheAirLock
    <3>1. \A i \in input' : i.open => i.p0 \/ i.epic
      BY <1>3, RolloverCounts, Zenon
    <3> QED BY <3>1 DEF SettlesTheAirLock, _check_airlock_rules, Open
  <2> QED BY <2>1, <2>2
<1>4. MilestonesStay /\ [Next]_vars =>
        MilestonesStay' /\ [tool = "govern" /\ input' # input => AddsNoError /\ SettlesTheAirLock]_vars
  <2>1. UNCHANGED vars /\ MilestonesStay => MilestonesStay'
    BY DEF vars, MilestonesStay
  <2> QED BY <1>2, <1>3, <2>1
<1> QED BY <1>1, <1>4, PTL DEF Spec, RolloverMends
-----------------------------------------------------------------------------
\* The synthesis loop: cegis_engine.py.

\* What a step breaks, with a repeat for each violation that an earlier step had.
Told(sources, i) ==
  sources[i].violations \cup
    {Repeat(v) : v \in {w \in sources[i].violations : \E h \in 1 .. i - 1 : w \in sources[h].violations}}

\* A repeat tells of what it repeats, and is told from what the verifier finds.
LEMMA RepeatsTell ==
  ASSUME NEW v, NEW w
  PROVE  /\ Repeat(v) = Repeat(w) => v = w
         /\ \A p \in Programs : Repeat(v) \notin p.violations
<1>1. Repeat(v).rule = "CEGIS008" /\ Repeat(v).at = v /\ Repeat(w).at = w
  BY DEF Repeat
<1> HIDE DEF Repeat
<1>2. \A p \in Programs : Repeat(v) \notin p.violations
  BY <1>1, SynthesisAssumption
<1> QED BY <1>1, <1>2

\* The constraints that accumulate are the violations of the steps before, and
\* repeats, which no program breaks.
LEMMA ConstraintsAreViolations ==
  ASSUME NEW sources \in Seq(Programs), NEW n \in 1 .. Len(sources), NEW told,
         \A i \in 1 .. n - 1 : told[i] = Told(sources, i)
  PROVE  sources[n].violations \cup
           {Repeat(v) : v \in sources[n].violations \cap Constraints(told, n - 1)} = Told(sources, n)
<1>1. sources[n] \in Programs /\ n \in Nat
  BY ElementOfSeq, LenProperties
<1>2. ASSUME NEW v \in sources[n].violations
      PROVE  v \in Constraints(told, n - 1) <=> \E h \in 1 .. n - 1 : v \in sources[h].violations
  <2>1. ASSUME NEW w PROVE v # Repeat(w)
    BY <1>1, RepeatsTell
  <2>2. \A i \in 1 .. n - 1 : v \in told[i] <=> v \in sources[i].violations
    BY <2>1 DEF Told
  <2> QED BY <2>2 DEF Constraints
<1>3. sources[n].violations \cap Constraints(told, n - 1) =
        {w \in sources[n].violations : \E h \in 1 .. n - 1 : w \in sources[h].violations}
  BY <1>2
<1> QED BY <1>3, Zenon DEF Told

\* What Effective tells, step by step.
LEMMA EffectiveIs ==
  ASSUME NEW sources \in Seq(Programs)
  PROVE  Effective(sources) = [i \in 1 .. Len(sources) |-> Told(sources, i)]
<1> DEFINE len == Len(sources)
           Goes(f, n) == Append(f[n - 1], sources[n].violations \cup
                           {Repeat(v) : v \in sources[n].violations \cap Constraints(f[n - 1], n - 1)})
           Eq(f) == f = [n \in 0 .. len |-> IF n = 0 THEN <<>> ELSE Goes(f, n)]
           told == [n \in 0 .. len |-> [i \in 1 .. n |-> Told(sources, i)]]
           step == CHOOSE f : Eq(f)
<1>1. len \in Nat
  BY LenProperties
<1>2. ASSUME NEW n \in 1 .. len, NEW f, f[n - 1] = told[n - 1]
      PROVE  Goes(f, n) = told[n]
  <2>1. n - 1 \in 0 .. len /\ n \in 0 .. len
    BY <1>1
  <2> DEFINE before == [i \in 1 .. n - 1 |-> Told(sources, i)]
  <2>2. told[n - 1] = before /\ told[n] = [i \in 1 .. n |-> Told(sources, i)]
    BY <2>1
  <2>3. Goes(f, n) = Append(before, Told(sources, n))
    <3>1. \A i \in 1 .. n - 1 : before[i] = Told(sources, i)
      OBVIOUS
    <3>2. f[n - 1] = before
      BY <1>2, <2>2
    <3> HIDE DEF before, told
    <3>3. sources[n].violations \cup
            {Repeat(v) : v \in sources[n].violations \cap Constraints(before, n - 1)} = Told(sources, n)
      BY <3>1, ConstraintsAreViolations
    <3> QED BY <3>2, <3>3, Zenon
  <2>4. Append(before, Told(sources, n)) = [i \in 1 .. n |-> Told(sources, i)]
    <3> DEFINE S == {Told(sources, i) : i \in 1 .. n}
    <3>1. before \in [1 .. n - 1 -> S] /\ n - 1 \in Nat
      BY <2>1
    <3>2. before \in Seq(S)
      BY <3>1, SeqDef
    <3>3. Len(before) = n - 1
      BY <2>1
    <3> QED BY <3>2, <3>3, <2>1
  <2> QED BY <2>2, <2>3, <2>4
<1>3. told[0] = <<>>
  BY <1>1
<1>4. Eq(told)
  <2>1. ASSUME NEW n \in 0 .. len
        PROVE  told[n] = IF n = 0 THEN <<>> ELSE Goes(told, n)
    <3> HIDE DEF told, Goes
    <3> QED BY <1>1, <1>2, <1>3
  <2>2. told = [n \in 0 .. len |-> told[n]]
    OBVIOUS
  <2> HIDE DEF told, Goes
  <2> QED BY <2>1, <2>2, Zenon
<1>5. Eq(step)
  <2> HIDE DEF Eq
  <2> QED BY <1>4, Zenon
<1>6. Effective(sources) = step[len]
  BY DEF Effective
<1>7. \A n \in 0 .. len : step[n] = IF n = 0 THEN <<>> ELSE Goes(step, n)
  <2> HIDE DEF step, Goes
  <2> QED BY <1>5
<1> DEFINE T == {n \in Nat : n <= len => step[n] = told[n]}
<1> HIDE DEF step, Goes, told, len
<1>8. T = Nat
  <2>1. 0 \in T
    BY <1>1, <1>3, <1>7
  <2>2. ASSUME NEW n \in T PROVE n + 1 \in T
    <3>1. CASE n + 1 <= len
      <4>1. n + 1 \in 1 .. len /\ (n + 1) - 1 = n /\ step[n] = told[n]
        BY <1>1, <2>2, <3>1
      <4>2. step[n + 1] = Goes(step, n + 1)
        BY <1>7, <4>1
      <4> QED BY <1>2, <4>1, <4>2
    <3>2. CASE ~(n + 1 <= len)
      BY <3>2
    <3> QED BY <3>1, <3>2
  <2> HIDE DEF T
  <2>3. T \in SUBSET Nat
    BY DEF T
  <2> QED BY <2>1, <2>2, <2>3, Induction
<1>9. step[len] = told[len]
  BY <1>1, <1>8
<1> QED BY <1>1, <1>6, <1>9 DEF told, len

\* A loop has gone through programs, and has ended with the verdict on them.
SynthesisIsUnderWay ==
  tool = "synthesize" =>
    /\ input \in Seq(Programs) /\ input # <<>>
    /\ output # None => /\ output = audit_trajectory(input, MaxIterations)
                        /\ ~Continues(input, MaxIterations)

\* A violation is reported as a repeat if and only if a step before had it.
LEMMA RepeatsAreTold ==
  ASSUME NEW sources \in Seq(Programs), NEW j \in DOMAIN sources, NEW v \in sources[j].violations
  PROVE  Repeat(v) \in Effective(sources)[j] <=> \E i \in 1 .. j - 1 : v \in sources[i].violations
<1>1. j \in 1 .. Len(sources) /\ sources[j] \in Programs
  BY LenProperties, ElementOfSeq
<1>2. Effective(sources)[j] = Told(sources, j)
  BY <1>1, EffectiveIs
<1>3. Repeat(v) \notin sources[j].violations
  BY <1>1, RepeatsTell
<1>4. \A w : Repeat(v) = Repeat(w) => v = w
  BY RepeatsTell
<1> QED BY <1>2, <1>3, <1>4, Zenon DEF Told

\* The loop gives up with a verdict, and says converged only of a clean program.
LEMMA VerdictsAreFinal ==
  ASSUME NEW sources \in Seq(Programs), sources # <<>>, ~Continues(sources, MaxIterations),
         NEW verdict, verdict = audit_trajectory(sources, MaxIterations)
  PROVE  /\ verdict = "converged" <=> sources[Len(sources)].violations = {}
         /\ verdict \in {"converged", "oscillating", "degraded", "budget_exhausted"}
<1> DEFINE last == Len(sources)
          told == Effective(sources)
<1>1. last \in Nat /\ last >= 1 /\ last \in 1 .. last
  BY LenProperties, EmptySeq
<1>2. told[last] = Told(sources, last)
  BY <1>1, EffectiveIs
<1>3. told[last] = {} <=> sources[last].violations = {}
  BY <1>2, Zenon DEF Told
<1>4. sources[last].violations # {} => last >= MaxIterations
  BY <1>1, SynthesisAssumption DEF Continues
<1>5. verdict = evaluate(sources, told, MaxIterations)
  BY DEF audit_trajectory
<1> HIDE DEF told
<1> QED BY <1>3, <1>4, <1>5 DEF evaluate

\* What run_synthesis_loop tells of its programs is true, at the end and on the way:
\* the verdict is about the last program, whatever was before, and what comes back
\* after any number of steps is reported as such.
THEOREM TrajectoriesAreTold == Spec => []TrajectoryIsToldTrue
<1>1. Init => SynthesisIsUnderWay
  <2> SUFFICES ASSUME Init, tool = "synthesize" PROVE SynthesisIsUnderWay
    BY DEF SynthesisIsUnderWay
  <2>1. PICK p \in Programs : input = <<p>>
    BY DEF Init
  <2>2. output = None
    BY DEF Init
  <2> QED BY <2>1, <2>2 DEF SynthesisIsUnderWay
<1>2. SynthesisIsUnderWay /\ [Next]_vars => SynthesisIsUnderWay'
  <2> SUFFICES ASSUME SynthesisIsUnderWay, [Next]_vars PROVE SynthesisIsUnderWay'
    OBVIOUS
  <2>1. CASE Synthesize
    <3>1. input \in Seq(Programs) /\ output' = None
      BY <2>1 DEF Synthesize, Runs, SynthesisIsUnderWay
    <3>2. PICK p \in Programs : input' = Append(input, p)
      BY <2>1 DEF Synthesize
    <3>3. input' \in Seq(Programs) /\ input' # <<>>
      BY <3>1, <3>2, AppendProperties
    <3> QED BY <3>1, <3>3 DEF SynthesisIsUnderWay
  <2>2. CASE Conclude
    BY <2>2 DEF Conclude, Runs, SynthesisIsUnderWay
  <2>3. CASE Merge \/ Pack \/ Govern \/ Review \/ UNCHANGED vars
    BY <2>3 DEF Merge, Pack, Govern, Review, Runs, vars, SynthesisIsUnderWay
  <2> QED BY <2>1, <2>2, <2>3 DEF Next
<1>3. SynthesisIsUnderWay => TrajectoryIsToldTrue
  <2>1. SynthesisIsUnderWay => VerdictIsFinal
    BY VerdictsAreFinal DEF SynthesisIsUnderWay, VerdictIsFinal, Done
  <2>2. SynthesisIsUnderWay => ReturningViolationsAreReported
    BY RepeatsAreTold DEF SynthesisIsUnderWay, ReturningViolationsAreReported
  <2> QED BY <2>1, <2>2 DEF TrajectoryIsToldTrue
<1> QED BY <1>1, <1>2, <1>3, PTL DEF Spec
-----------------------------------------------------------------------------
\* The packer: context_packer.py.

Detail == {"FULL", "DOCSTRINGS", "SIGNATURES"}
Symbols == Seq([Detail -> Nat])

\* Every symbol makes a rendering longer.
LEMMA RenderedIs ==
  ASSUME NEW symbols \in Symbols, NEW level \in Detail
  PROVE  /\ Rendered(symbols, level)[0] = 0
         /\ \A n \in 0 .. Len(symbols) : Rendered(symbols, level)[n] \in Nat
         /\ \A n \in 1 .. Len(symbols) : Rendered(symbols, level)[n - 1] <= Rendered(symbols, level)[n]
<1> DEFINE len == Len(symbols)
           Eq(f, k) == f = [n \in 0 .. k |-> IF n = 0 THEN 0
                              ELSE f[n - 1] + symbols[n][level] + (IF n = 1 THEN 0 ELSE Separator)]
           Good(k) == k <= len => \E f : Eq(f, k)
           T == {k \in Nat : Good(k)}
<1>1. len \in Nat /\ \A n \in 1 .. len : symbols[n][level] \in Nat
  BY LenProperties, ElementOfSeq DEF Symbols
<1>2. Good(0)
  <2> DEFINE g == [n \in 0 .. 0 |-> 0]
  <2>1. Eq(g, 0)
    OBVIOUS
  <2> QED BY <2>1
<1>3. ASSUME NEW k \in Nat, Good(k) PROVE Good(k + 1)
  <2> SUFFICES ASSUME k + 1 <= len PROVE \E f : Eq(f, k + 1)
    OBVIOUS
  <2>1. PICK f : Eq(f, k)
    BY <1>1, <1>3
  <2> DEFINE g == [n \in 0 .. k + 1 |-> IF n = k + 1
                     THEN f[k] + symbols[n][level] + (IF n = 1 THEN 0 ELSE Separator) ELSE f[n]]
  <2>2. Eq(g, k + 1)
    BY <2>1
  <2> QED BY <2>2
<1>4. T = Nat
  <2> HIDE DEF Good
  <2>1. T \in SUBSET Nat /\ 0 \in T /\ \A n \in T : n + 1 \in T
    BY <1>2, <1>3
  <2> HIDE DEF T
  <2> QED BY <2>1, Induction
<1> DEFINE R == CHOOSE f : Eq(f, len)
<1>5. Eq(R, len)
  <2>1. \E f : Eq(f, len)
    BY <1>1, <1>4
  <2> HIDE DEF Eq
  <2> QED BY <2>1, Zenon
<1>6. Rendered(symbols, level) = R
  BY DEF Rendered
<1> HIDE DEF R
<1>7. R[0] = 0 /\ \A n \in 1 .. len : R[n] = R[n - 1] + symbols[n][level] + (IF n = 1 THEN 0 ELSE Separator)
  BY <1>1, <1>5
<1> DEFINE U == {n \in Nat : n <= len => R[n] \in Nat}
<1>8. U = Nat
  <2>1. 0 \in U
    BY <1>7
  <2>2. ASSUME NEW n \in U PROVE n + 1 \in U
    <3>1. CASE n + 1 <= len
      <4>1. n + 1 \in 1 .. len /\ (n + 1) - 1 = n /\ R[n] \in Nat
        BY <1>1, <2>2, <3>1
      <4>2. R[n + 1] = R[n] + symbols[n + 1][level] + (IF n + 1 = 1 THEN 0 ELSE Separator)
        BY <1>7, <4>1
      <4>3. symbols[n + 1][level] \in Nat
        BY <1>1, <4>1
      <4> QED BY <4>1, <4>2, <4>3, PackerAssumption
    <3>2. CASE ~(n + 1 <= len)
      BY <3>2
    <3> QED BY <3>1, <3>2
  <2> HIDE DEF U
  <2>3. U \in SUBSET Nat
    BY DEF U
  <2> QED BY <2>1, <2>2, <2>3, Induction
<1>9. \A n \in 0 .. len : R[n] \in Nat
  BY <1>1, <1>8
<1>10. ASSUME NEW n \in 1 .. len PROVE R[n - 1] <= R[n]
  <2>1. R[n] = R[n - 1] + symbols[n][level] + (IF n = 1 THEN 0 ELSE Separator)
    BY <1>7
  <2>2. R[n - 1] \in Nat /\ symbols[n][level] \in Nat
    BY <1>1, <1>9
  <2> QED BY <2>1, <2>2, PackerAssumption
<1> QED BY <1>6, <1>7, <1>9, <1>10

\* What is longer costs no less.
LEMMA TokensGrow ==
  ASSUME NEW a \in Nat, NEW b \in Nat, a <= b
  PROVE  /\ estimate_tokens(a) \in Int /\ estimate_tokens(b) \in Int
         /\ estimate_tokens(a) <= estimate_tokens(b)
<1> DEFINE x == a + TokenRatio - 1
           y == b + TokenRatio - 1
           p == x \div TokenRatio
           q == y \div TokenRatio
<1>1. x \in Nat /\ y \in Nat /\ x <= y /\ TokenRatio \in Nat /\ TokenRatio > 0
  BY PackerAssumption
<1> HIDE DEF x, y
<1>2. /\ p \in Int /\ TokenRatio * p <= x /\ x < TokenRatio * (p + 1)
      /\ q \in Int /\ TokenRatio * q <= y /\ y < TokenRatio * (q + 1)
  BY <1>1
<1> HIDE DEF p, q
<1>3. p < q + 1
  <2>1. TokenRatio * p < TokenRatio * (q + 1)
    BY <1>1, <1>2
  <2> QED BY <1>1, <1>2, <2>1
<1>4. p <= q
  BY <1>2, <1>3
<1> QED BY <1>2, <1>4 DEF estimate_tokens, p, q, x, y

\* The greatest number of symbols that fit, and with it every smaller one.
IsMost(symbols, budget, level, most) ==
  /\ most \in 0 .. Len(symbols)
  /\ \A n \in 1 .. Len(symbols) : n <= most <=> Fits(symbols, n, budget, level)

LEMMA FewerFit ==
  ASSUME NEW symbols \in Symbols, NEW level \in Detail, NEW budget \in Int,
         NEW m \in 1 .. Len(symbols), m + 1 <= Len(symbols), Fits(symbols, m + 1, budget, level)
  PROVE  Fits(symbols, m, budget, level)
<1> DEFINE R == Rendered(symbols, level)
<1>1. Len(symbols) \in Nat
  BY LenProperties DEF Symbols
<1>2. m + 1 \in 1 .. Len(symbols) /\ m \in 0 .. Len(symbols) /\ m + 1 \in 0 .. Len(symbols) /\ (m + 1) - 1 = m
  BY <1>1
<1>3. R[m] \in Nat /\ R[m + 1] \in Nat /\ R[m] <= R[m + 1]
  <2>1. R[(m + 1) - 1] <= R[m + 1]
    BY <1>2, RenderedIs, Zenon
  <2> QED BY <1>2, <2>1, RenderedIs
<1> HIDE DEF R
<1>4. estimate_tokens(R[m]) <= estimate_tokens(R[m + 1])
      /\ estimate_tokens(R[m]) \in Int /\ estimate_tokens(R[m + 1]) \in Int
  BY <1>3, TokensGrow
<1>5. estimate_tokens(R[m + 1]) <= budget
  BY DEF Fits, R
<1> QED BY <1>4, <1>5 DEF Fits, R

LEMMA SomeAreMost ==
  ASSUME NEW symbols \in Symbols, NEW level \in Detail, NEW budget \in Int
  PROVE  \E most : IsMost(symbols, budget, level, most)
<1> DEFINE len == Len(symbols)
           Fit(n) == Fits(symbols, n, budget, level)
           T == {d \in 0 .. len : len - d = 0 \/ Fit(len - d)}
<1>1. len \in Nat
  BY LenProperties DEF Symbols
<1>2. len \in T /\ T \in SUBSET Nat
  BY <1>1
<1>3. PICK d \in T : \A e \in T : d <= e
  <2> HIDE DEF T
  <2> QED BY <1>2, LeastNatural
<1> DEFINE most == len - d
<1>4. most \in 0 .. len /\ d \in 0 .. len
  BY <1>1, <1>3
<1>5. ASSUME NEW n \in 1 .. len, n > most PROVE ~Fit(n)
  <2>1. len - n \in 0 .. len /\ len - (len - n) = n /\ len - n < d /\ n # 0
    BY <1>1, <1>4, <1>5
  <2>2. len - n \notin T
    BY <1>3, <1>4, <2>1
  <2> HIDE DEF Fit
  <2> QED BY <2>1, <2>2
<1>6. ASSUME NEW n \in 1 .. len, n <= most PROVE Fit(n)
  <2> DEFINE U == {e \in Nat : e <= most - 1 => Fit(most - e)}
  <2>1. most \in Nat /\ most >= 1
    BY <1>1, <1>4, <1>6
  <2>2. Fit(most)
    BY <1>3, <2>1
  <2> HIDE DEF most, T
  <2>3. U = Nat
    <3>1. 0 \in U
      BY <2>1, <2>2
    <3>2. ASSUME NEW e \in U PROVE e + 1 \in U
      <4>1. CASE e + 1 <= most - 1
        <5> DEFINE m == most - (e + 1)
        <5>1. m \in 1 .. len /\ m + 1 <= len /\ m + 1 = most - e /\ e <= most - 1 /\ e \in Nat
          BY <1>1, <1>4, <2>1, <4>1
        <5>2. Fit(most - e)
          BY <3>2, <5>1
        <5> HIDE DEF m
        <5>3. Fit(m)
          BY <5>1, <5>2, FewerFit
        <5> QED BY <5>1, <5>3 DEF m
      <4>2. CASE ~(e + 1 <= most - 1)
        BY <4>2
      <4> QED BY <4>1, <4>2
    <3> HIDE DEF U
    <3>3. U \in SUBSET Nat
      BY DEF U
    <3> QED BY <3>1, <3>2, <3>3, Induction
  <2>4. most - n \in Nat /\ most - n <= most - 1 /\ most - (most - n) = n
    BY <1>1, <1>6, <2>1
  <2> HIDE DEF Fit
  <2> QED BY <2>3, <2>4
<1>7. IsMost(symbols, budget, level, most)
  <2>1. ASSUME NEW n \in 1 .. len PROVE n <= most <=> Fit(n)
    <3>1. n <= most \/ n > most
      BY <1>1, <1>4
    <3> HIDE DEF most, Fit
    <3> QED BY <1>5, <1>6, <3>1, <1>4
  <2> HIDE DEF most
  <2> QED BY <1>4, <2>1 DEF IsMost
<1> QED BY <1>7

\* What the loop comes to from any interval: what it would find there if the answer
\* were most.
Found(most, low, high) ==
  IF low > high THEN high
  ELSE IF most < low THEN low - 1
  ELSE IF most > high THEN high ELSE most

\* The loop finds the most that fit.
LEMMA BisectFinds ==
  ASSUME NEW symbols \in Symbols, NEW level \in Detail, NEW budget \in Int,
         NEW most, IsMost(symbols, budget, level, most)
  PROVE  Bisect(symbols, budget, level) = most
<1> DEFINE len == Len(symbols)
           Ok(mid) == mid = 0 \/ Fits(symbols, mid, budget, level)
           Goes(f, low, high) ==
             CASE low > high -> high
               [] low <= high /\ Ok((low + high) \div 2) -> f[<<((low + high) \div 2) + 1, high>>]
               [] OTHER -> f[<<low, ((low + high) \div 2) - 1>>]
           Spans == (0 .. len + 1) \X (0 .. len)
           Eq(f) == f = [span \in Spans |-> Goes(f, span[1], span[2])]
           found == [span \in Spans |-> Found(most, span[1], span[2])]
           search == CHOOSE f : Eq(f)
<1>1. len \in Nat /\ most \in 0 .. len
  BY LenProperties DEF Symbols, IsMost
<1>2. ASSUME NEW mid \in 0 .. len PROVE Ok(mid) <=> mid <= most
  BY <1>1, <1>2 DEF IsMost
<1>3. ASSUME NEW low \in 0 .. len + 1, NEW high \in 0 .. len, low <= high
      PROVE  LET mid == (low + high) \div 2
             IN /\ mid \in low .. high /\ mid \in 0 .. len
                /\ mid <= most => /\ mid + 1 \in 0 .. len + 1
                                  /\ Found(most, low, high) = Found(most, mid + 1, high)
                /\ ~(mid <= most) => /\ mid - 1 \in 0 .. len
                                     /\ Found(most, low, high) = Found(most, low, mid - 1)
  <2> DEFINE mid == (low + high) \div 2
  <2>1. mid \in Int /\ 2 * mid <= low + high /\ low + high < 2 * mid + 2
    BY <1>1
  <2> HIDE DEF mid
  <2>2. mid \in low .. high /\ mid \in 0 .. len
    BY <1>1, <1>3, <2>1
  <2>3. mid <= most => mid + 1 \in 0 .. len + 1 /\ Found(most, low, high) = Found(most, mid + 1, high)
    BY <1>1, <1>3, <2>2 DEF Found
  <2>4. ~(mid <= most) => mid - 1 \in 0 .. len /\ Found(most, low, high) = Found(most, low, mid - 1)
    BY <1>1, <1>3, <2>2 DEF Found
  <2> QED BY <2>2, <2>3, <2>4 DEF mid
<1>4. ASSUME NEW f, NEW low \in 0 .. len + 1, NEW high \in 0 .. len,
             low <= high =>
               LET mid == (low + high) \div 2
               IN IF mid <= most THEN f[<<mid + 1, high>>] = Found(most, mid + 1, high)
                  ELSE f[<<low, mid - 1>>] = Found(most, low, mid - 1)
      PROVE  Goes(f, low, high) = Found(most, low, high)
  <2>1. CASE low > high
    BY <2>1 DEF Found
  <2>2. CASE low <= high
    <3> DEFINE mid == (low + high) \div 2
    <3>1. /\ mid \in 0 .. len
          /\ mid <= most => Found(most, low, high) = Found(most, mid + 1, high)
          /\ ~(mid <= most) => Found(most, low, high) = Found(most, low, mid - 1)
      BY <1>3, <2>2
    <3>2. Ok(mid) <=> mid <= most
      BY <1>2, <3>1
    <3>3. IF mid <= most THEN f[<<mid + 1, high>>] = Found(most, mid + 1, high)
          ELSE f[<<low, mid - 1>>] = Found(most, low, mid - 1)
      BY <1>4, <2>2
    <3>4. Goes(f, low, high) = IF Ok(mid) THEN f[<<mid + 1, high>>] ELSE f[<<low, mid - 1>>]
      <4>1. ~(low > high)
        BY <1>1, <2>2
      <4> HIDE DEF Ok
      <4> QED BY <2>2, <4>1
    <3> HIDE DEF Goes, Ok, mid
    <3> QED BY <3>1, <3>2, <3>3, <3>4
  <2> QED BY <1>1, <2>1, <2>2
<1>5. Eq(found)
  <2>1. ASSUME NEW low \in 0 .. len + 1, NEW high \in 0 .. len
        PROVE  Goes(found, low, high) = found[<<low, high>>]
    <3>1. low <= high =>
            LET mid == (low + high) \div 2
            IN IF mid <= most THEN found[<<mid + 1, high>>] = Found(most, mid + 1, high)
               ELSE found[<<low, mid - 1>>] = Found(most, low, mid - 1)
      <4> SUFFICES ASSUME low <= high
                   PROVE  LET mid == (low + high) \div 2
                          IN IF mid <= most THEN found[<<mid + 1, high>>] = Found(most, mid + 1, high)
                             ELSE found[<<low, mid - 1>>] = Found(most, low, mid - 1)
        OBVIOUS
      <4> DEFINE mid == (low + high) \div 2
      <4>1. /\ mid <= most => mid + 1 \in 0 .. len + 1
            /\ ~(mid <= most) => mid - 1 \in 0 .. len
        BY <1>3
      <4> HIDE DEF mid
      <4> QED BY <4>1 DEF mid
    <3>2. found[<<low, high>>] = Found(most, low, high)
      OBVIOUS
    <3> HIDE DEF found, Goes
    <3> QED BY <1>4, <3>1, <3>2
  <2>2. found = [span \in Spans |-> found[span]]
    OBVIOUS
  <2>3. \A span \in Spans : span = <<span[1], span[2]>> /\ span[1] \in 0 .. len + 1 /\ span[2] \in 0 .. len
    OBVIOUS
  <2> HIDE DEF found, Goes
  <2>4. \A span \in Spans : found[span] = Goes(found, span[1], span[2])
    BY <2>1, <2>3
  <2> HIDE DEF Spans
  <2> QED BY <2>2, <2>4, Zenon
<1>6. Eq(search)
  <2> HIDE DEF Eq
  <2> QED BY <1>5, Zenon
<1>7. Bisect(symbols, budget, level) = search[<<0, len>>]
  BY DEF Bisect
<1>8. ASSUME NEW low \in 0 .. len + 1, NEW high \in 0 .. len
      PROVE  search[<<low, high>>] = Goes(search, low, high)
  <2>1. <<low, high>> \in Spans /\ <<low, high>>[1] = low /\ <<low, high>>[2] = high
    OBVIOUS
  <2> HIDE DEF search, Goes, Spans
  <2> QED BY <1>6, <2>1, Zenon
<1> HIDE DEF search, Goes, Ok, found, Eq, Spans
<1> DEFINE T == {d \in Nat : \A low \in 0 .. len + 1, high \in 0 .. len :
                              high - low < d => search[<<low, high>>] = Found(most, low, high)}
<1>9. T = Nat
  <2>1. ASSUME NEW d \in Nat, NEW low \in 0 .. len + 1, NEW high \in 0 .. len, high - low < d,
               low <= high => d - 1 \in T
        PROVE  search[<<low, high>>] = Found(most, low, high)
    <3>1. low <= high =>
            LET mid == (low + high) \div 2
            IN IF mid <= most THEN search[<<mid + 1, high>>] = Found(most, mid + 1, high)
               ELSE search[<<low, mid - 1>>] = Found(most, low, mid - 1)
      <4> SUFFICES ASSUME low <= high
                   PROVE  LET mid == (low + high) \div 2
                          IN IF mid <= most THEN search[<<mid + 1, high>>] = Found(most, mid + 1, high)
                             ELSE search[<<low, mid - 1>>] = Found(most, low, mid - 1)
        OBVIOUS
      <4> DEFINE mid == (low + high) \div 2
      <4>1. /\ mid \in low .. high
            /\ mid <= most => mid + 1 \in 0 .. len + 1
            /\ ~(mid <= most) => mid - 1 \in 0 .. len
        BY <1>3
      <4> HIDE DEF mid
      <4>2. mid <= most => search[<<mid + 1, high>>] = Found(most, mid + 1, high)
        BY <1>1, <2>1, <4>1
      <4>3. ~(mid <= most) => search[<<low, mid - 1>>] = Found(most, low, mid - 1)
        BY <1>1, <2>1, <4>1
      <4> QED BY <4>2, <4>3 DEF mid
    <3> QED BY <1>4, <1>8, <3>1
  <2>2. 0 \in T
    <3>1. ASSUME NEW low \in 0 .. len + 1, NEW high \in 0 .. len, high - low < 0
          PROVE  search[<<low, high>>] = Found(most, low, high)
      <4>1. ~(low <= high)
        BY <1>1, <3>1
      <4> HIDE DEF T
      <4> QED BY <2>1, <3>1, <4>1
    <3> QED BY <3>1
  <2>3. ASSUME NEW d \in T PROVE d + 1 \in T
    <3>1. d \in Nat /\ d + 1 \in Nat /\ (d + 1) - 1 = d
      OBVIOUS
    <3> HIDE DEF T
    <3>2. \A low \in 0 .. len + 1, high \in 0 .. len :
            high - low < d + 1 => search[<<low, high>>] = Found(most, low, high)
      BY <2>1, <2>3, <3>1
    <3> QED BY <3>1, <3>2 DEF T
  <2> HIDE DEF T
  <2>4. T \in SUBSET Nat
    BY DEF T
  <2> QED BY <2>2, <2>3, <2>4, Induction
<1>10. search[<<0, len>>] = Found(most, 0, len)
  <2>1. len + 1 \in T
    BY <1>1, <1>9
  <2>2. 0 \in 0 .. len + 1 /\ len \in 0 .. len /\ len - 0 < len + 1
    BY <1>1
  <2> QED BY <2>1, <2>2
<1>11. Found(most, 0, len) = most
  BY <1>1 DEF Found
<1> QED BY <1>7, <1>10, <1>11

\* What is packed is the most that fits at its level, and the level is the first at
\* which everything fits, if there is one.
LEMMA PackedIs ==
  ASSUME NEW symbols \in Symbols, NEW budget \in Int, budget > 0,
         NEW packed, packed = pack_source_to_budget(symbols, budget)
  PROVE  /\ IsMost(symbols, budget, packed.level, packed.count)
         /\ symbols # <<>> =>
              \A i \in 1 .. 3 :
                LET whole(j) == Fits(symbols, Len(symbols), budget, Level[j])
                IN (packed.level = Level[i] /\ packed.count = Len(symbols)) <=>
                     whole(i) /\ \A j \in 1 .. (i - 1) : ~whole(j)
<1> DEFINE len == Len(symbols)
           count(i) == binary_search_pack_symbols(symbols, budget, Level[i])
           whole == {i \in 1 .. 3 : count(i) = len}
           all(j) == Fits(symbols, len, budget, Level[j])
<1>0. len \in Nat /\ (symbols # <<>> => len >= 1)
  BY EmptySeq, LenProperties DEF Symbols
<1>1. Level[1] = "FULL" /\ Level[2] = "DOCSTRINGS" /\ Level[3] = "SIGNATURES"
  BY DEF Level
<1>2. CASE symbols = <<>>
  <2>1. packed = [level |-> "SIGNATURES", count |-> 0]
    BY <1>2 DEF pack_source_to_budget, binary_search_pack_symbols
  <2>2. len = 0
    BY <1>2
  <2> QED BY <1>2, <2>1, <2>2 DEF IsMost
<1>3. CASE symbols # <<>>
  <2>1. ASSUME NEW i \in 1 .. 3
        PROVE  IsMost(symbols, budget, Level[i], count(i))
    <3>1. Level[i] \in Detail
      BY <1>1 DEF Detail
    <3>2. PICK most : IsMost(symbols, budget, Level[i], most)
      BY <3>1, SomeAreMost, Zenon
    <3>3. Bisect(symbols, budget, Level[i]) = most
      BY <3>1, <3>2, BisectFinds, Zenon
    <3>4. count(i) = most
      BY <1>3, <3>3 DEF binary_search_pack_symbols
    <3> QED BY <3>2, <3>4, Zenon
  <2>2. \A i \in 1 .. 3 : i \in whole <=> all(i)
    BY <1>0, <1>3, <2>1 DEF IsMost
  <2>3. packed = IF whole = {} THEN [level |-> "SIGNATURES", count |-> count(3)]
                 ELSE [level |-> Level[CHOOSE i \in whole : \A j \in whole : i <= j], count |-> len]
    BY <1>3 DEF pack_source_to_budget
  <2>4. whole \subseteq 1 .. 3 /\ \A i \in whole : count(i) = len
    OBVIOUS
  <2>5. CASE whole = {}
    <3>1. packed.level = "SIGNATURES" /\ packed.count = count(3)
      BY <2>3, <2>5
    <3>2. IsMost(symbols, budget, packed.level, packed.count)
      BY <1>1, <2>1, <3>1
    <3>3. \A i \in 1 .. 3 : ~all(i)
      BY <2>2, <2>5
    <3>4. packed.count # len
      BY <2>5, <3>1
    <3> HIDE DEF all, count, whole
    <3> QED BY <3>2, <3>3, <3>4 DEF all
  <2>6. CASE whole # {}
    <3> DEFINE first == CHOOSE i \in whole : \A j \in whole : i <= j
    <3> HIDE DEF whole, count, all
    <3>1. first \in whole /\ \A j \in whole : first <= j
      <4>1. whole \in SUBSET Nat
        BY <2>4
      <4>2. \E i \in whole : \A j \in whole : i <= j
        BY <2>6, <4>1, LeastNatural, Zenon
      <4> QED BY <4>2, Zenon
    <3>2. packed.level = Level[first] /\ packed.count = len /\ count(first) = len /\ first \in 1 .. 3
      <4>1. packed = [level |-> Level[first], count |-> len]
        BY <2>3, <2>6, Zenon
      <4> HIDE DEF first
      <4> QED BY <2>4, <3>1, <4>1
    <3> HIDE DEF first
    <3>3. IsMost(symbols, budget, packed.level, packed.count)
      BY <2>1, <3>2
    <3>4. \A i \in 1 .. 3 : packed.level = Level[i] <=> i = first
      BY <1>1, <3>2
    <3>5. \A i \in 1 .. 3 : i = first <=> all(i) /\ \A j \in 1 .. (i - 1) : ~all(j)
      <4>1. \A i \in 1 .. 3 : \A j \in 1 .. (i - 1) : j \in 1 .. 3 /\ ~(i <= j)
        OBVIOUS
      <4>2. ASSUME NEW i \in 1 .. 3, all(i), \A j \in 1 .. (i - 1) : ~all(j)
            PROVE  i = first
        <5>1. i \in whole /\ first <= i
          BY <2>2, <3>1, <4>2
        <5>2. ~(first \in 1 .. (i - 1))
          BY <2>2, <3>1, <3>2, <4>2
        <5> QED BY <3>2, <5>1, <5>2
      <4>3. all(first) /\ \A j \in 1 .. (first - 1) : ~all(j)
        BY <2>2, <3>1, <3>2, <4>1
      <4> QED BY <4>2, <4>3
    <3> QED BY <3>2, <3>3, <3>4, <3>5 DEF all
  <2> QED BY <2>5, <2>6
<1> QED BY <1>2, <1>3

\* What a call has packed depends on what it was given.
PackIsDone ==
  tool = "pack" =>
    input \in Packs /\ (output # None => output = pack_source_to_budget(input.symbols, input.budget))

\* binary_search_pack_symbols and pack_source_to_budget give as much as fits: the most
\* symbols, in the most detail, whatever each of them measures.
THEOREM PackingsAreBest == Spec => []PackIsBest
<1>1. Init => PackIsDone
  BY DEF Init, PackIsDone
<1>2. PackIsDone /\ [Next]_vars => PackIsDone'
  BY DEF PackIsDone, Next, vars, Runs, Merge, Pack, Govern, Synthesize, Conclude, Review
<1>3. ASSUME PackIsDone PROVE PackIsBest
  <2>1. ASSUME Done("pack"), input.budget > 0
        PROVE  /\ input.symbols \in Symbols /\ input.budget \in Int
               /\ output = pack_source_to_budget(input.symbols, input.budget)
    BY <1>3, <2>1, PackingAssumption DEF PackIsDone, Done, Symbols, Detail
  <2>2. PackIsMaximal
    BY <2>1, PackedIs DEF PackIsMaximal, IsMost
  <2>3. DetailIsKept
    BY <2>1, PackedIs DEF DetailIsKept
  <2> QED BY <2>2, <2>3 DEF PackIsBest
<1> QED BY <1>1, <1>2, <1>3, PTL DEF Spec
-----------------------------------------------------------------------------
\* The merge: ast_reconciler.py.

\* A set of naturals that has a bound, and a member, has a greatest one.
LEMMA HasGreatest ==
  ASSUME NEW n \in Nat, NEW S \in SUBSET (1 .. n), S # {}
  PROVE  Greatest(S) \in S
<1> DEFINE T == {n - i : i \in S}
<1>1. T \in SUBSET Nat /\ T # {}
  <2>1. \A i \in S : n - i \in Nat
    OBVIOUS
  <2>2. PICK i \in S : TRUE
    OBVIOUS
  <2>3. n - i \in T
    BY <2>2
  <2> QED BY <2>1, <2>3
<1>2. PICK m \in T : \A k \in T : m <= k
  <2> HIDE DEF T
  <2> QED BY <1>1, LeastNatural
<1>3. PICK i \in S : m = n - i
  BY <1>2
<1>4. \A j \in S : j <= i
  BY <1>2, <1>3
<1>5. \E x \in S : \A j \in S : j <= x
  BY <1>4
<1> QED BY <1>5, Zenon DEF Greatest

\* What a module defines are statements of it.
LEMMA SymbolsAre ==
  ASSUME NEW module \in Seq(Stated), NEW k \in DOMAIN extract_symbol_map(module)
  PROVE  /\ extract_symbol_map(module)[k] \in Stated
         /\ extract_symbol_map(module)[k] \notin {Absent, Collision}
<1> DEFINE picked == {i \in DOMAIN module : IsBody(module[i])}
           key(i) == classify_statement_symbol(module[i], Cardinality({j \in picked : j <= i}))
           keys == {key(i) : i \in picked}
           at == {i \in picked : key(i) = k}
<1>1. extract_symbol_map(module) = [x \in keys |-> module[Greatest({i \in picked : key(i) = x})]]
  BY Zenon DEF extract_symbol_map, LastOf
<1>2. at # {} /\ at \subseteq picked
  <2>1. k \in keys
    BY <1>1
  <2> HIDE DEF key
  <2> QED BY <2>1
<1>3. extract_symbol_map(module)[k] = module[Greatest(at)]
  <2> HIDE DEF key, picked, keys
  <2>1. k \in keys
    BY <1>1
  <2> QED BY <1>1, <2>1, Zenon
<1> HIDE DEF at
<1>4. Greatest(at) \in DOMAIN module
  <2>1. DOMAIN module = 1 .. Len(module) /\ Len(module) \in Nat
    BY LenProperties
  <2>2. at \in SUBSET (1 .. Len(module))
    BY <1>2, <2>1
  <2>3. Greatest(at) \in at
    BY <1>2, <2>1, <2>2, HasGreatest, Zenon
  <2> QED BY <1>2, <2>3
<1>5. module[Greatest(at)] \in Stated
  BY <1>4, ElementOfSeq, LenProperties
<1> QED BY <1>3, <1>5, MergeAssumption

\* The methods of a class are members of it, each under its name.
LEMMA MethodsAre ==
  ASSUME NEW class \in Classes, NEW k \in DOMAIN _extract_methods_map(class)
  PROVE  /\ _extract_methods_map(class)[k] \in Members
         /\ _extract_methods_map(class)[k] \notin {Absent, Collision}
         /\ _extract_methods_map(class)[k].name = k
<1> DEFINE members == class.members
           picked == {i \in DOMAIN members : IsMethod(members[i])}
           key(i) == MemberName(members[i], Cardinality({j \in picked : j <= i}))
           keys == {key(i) : i \in picked}
           at == {i \in picked : key(i) = k}
<1>0. members \in Seq(Members)
  BY MergeAssumption
<1>1. _extract_methods_map(class) = [x \in keys |-> members[Greatest({i \in picked : key(i) = x})]]
  BY Zenon DEF _extract_methods_map, LastOf
<1> HIDE DEF members
<1>2. at # {} /\ at \subseteq picked /\ \A i \in at : members[i].name = k
  <2>0. \A i \in at : members[i].name = k
    BY DEF MemberName
  <2>1. k \in keys
    BY <1>1
  <2> HIDE DEF key
  <2> QED BY <2>0, <2>1
<1>3. _extract_methods_map(class)[k] = members[Greatest(at)]
  <2> HIDE DEF key, picked, keys
  <2>1. k \in keys
    BY <1>1
  <2> QED BY <1>1, <2>1, Zenon
<1> HIDE DEF at
<1>4. Greatest(at) \in DOMAIN members /\ Greatest(at) \in at
  <2>1. DOMAIN members = 1 .. Len(members) /\ Len(members) \in Nat
    BY <1>0, LenProperties
  <2>2. at \in SUBSET (1 .. Len(members))
    BY <1>2, <2>1
  <2>3. Greatest(at) \in at
    BY <1>2, <2>1, <2>2, HasGreatest, Zenon
  <2> QED BY <1>2, <2>3
<1>6. members[Greatest(at)].name = k
  BY <1>2, <1>4
<1>5. members[Greatest(at)] \in Members
  BY <1>0, <1>4, ElementOfSeq, LenProperties
<1> QED BY <1>3, <1>5, <1>6, MergeAssumption

\* What is arbitrated is the same whichever branch is ours; where two of the three
\* agree it is the third, or what they agree on; and what ours has changed is kept
\* or collides.
LEMMA ArbitrateIsFair ==
  ASSUME NEW b, NEW o, NEW t
  PROVE  /\ Arbitrate(b, o, t) = Arbitrate(b, t, o)
         /\ o = b => Arbitrate(b, o, t) = t
         /\ t = b => Arbitrate(b, o, t) = o
         /\ o = t => Arbitrate(b, o, t) = o
         /\ o # b => Arbitrate(b, o, t) \in {o, Collision}
BY DEF Arbitrate

\* What a map has under a key is none of the two that stand for something else, but
\* for Absent where it has nothing.
LEMMA SymbolOf ==
  ASSUME NEW module \in Seq(Stated), NEW k, NEW x, x = Get(extract_symbol_map(module), k)
  PROVE  /\ x \in Stated \cup {Absent} /\ x # Collision
         /\ x = Absent <=> k \notin DOMAIN extract_symbol_map(module)
         /\ k \in DOMAIN extract_symbol_map(module) => x = extract_symbol_map(module)[k]
BY SymbolsAre, MergeAssumption DEF Get

LEMMA MethodOf ==
  ASSUME NEW class \in Classes, NEW k, NEW x, x = Get(_extract_methods_map(class), k)
  PROVE  /\ x \in Members \cup {Absent} /\ x # Collision
         /\ x = Absent <=> k \notin DOMAIN _extract_methods_map(class)
         /\ k \in DOMAIN _extract_methods_map(class) => x = _extract_methods_map(class)[k]
         /\ x # Absent => x.name = k
BY MethodsAre, MergeAssumption DEF Get

Kept(b, o, t) == {MergedMethods(b, o, t)[n] : n \in DOMAIN MergedMethods(b, o, t)} \ {Absent}
Collide(b, o, t) == \E n \in DOMAIN MergedMethods(b, o, t) : MergedMethods(b, o, t)[n] = Collision

\* Where two of three agree, the third, or what they agree on.
Agree(b, o, t, s) == (o = b /\ s = t) \/ (t = b /\ s = o) \/ (o = t /\ s = o)

LEMMA MethodsMerge ==
  ASSUME NEW b \in Classes, NEW o \in Classes, NEW t \in Classes
  PROVE  /\ MergedMethods(b, o, t) = MergedMethods(b, t, o)
         /\ ~Collide(b, o, t) => /\ Kept(b, o, t) \in SUBSET Members
                                 /\ MethodsOf(o) \ MethodsOf(b) \subseteq Kept(b, o, t)
                                 /\ (MethodsOf(b) \ MethodsOf(o)) \cap Kept(b, o, t) = {}
         /\ \A s \in Classes : Agree(b, o, t, s) => ~Collide(b, o, t) /\ Kept(b, o, t) = MethodsOf(s)
<1> DEFINE mb == _extract_methods_map(b)
           mo == _extract_methods_map(o)
           mt == _extract_methods_map(t)
           N == DOMAIN mb \cup DOMAIN mo \cup DOMAIN mt
           M == MergedMethods(b, o, t)
<1>1. M = [n \in N |-> Arbitrate(Get(mb, n), Get(mo, n), Get(mt, n))]
  BY Zenon DEF MergedMethods
<1>2. \A n : /\ {Get(mb, n), Get(mo, n), Get(mt, n)} \subseteq Members \cup {Absent}
             /\ Collision \notin {Get(mb, n), Get(mo, n), Get(mt, n)}
  BY MethodOf
<1>3. M = MergedMethods(b, t, o)
  <2>1. MergedMethods(b, t, o)
          = [n \in DOMAIN mb \cup DOMAIN mt \cup DOMAIN mo |-> Arbitrate(Get(mb, n), Get(mt, n), Get(mo, n))]
    BY Zenon DEF MergedMethods
  <2>2. DOMAIN mb \cup DOMAIN mt \cup DOMAIN mo = N
    OBVIOUS
  <2>3. \A n : Arbitrate(Get(mb, n), Get(mo, n), Get(mt, n)) = Arbitrate(Get(mb, n), Get(mt, n), Get(mo, n))
    BY ArbitrateIsFair
  <2> HIDE DEF mb, mo, mt, N, M
  <2> QED BY <1>1, <2>1, <2>2, <2>3
<1>4. ASSUME ~Collide(b, o, t)
      PROVE  /\ Kept(b, o, t) \in SUBSET Members /\ MethodsOf(o) \ MethodsOf(b) \subseteq Kept(b, o, t)
             /\ (MethodsOf(b) \ MethodsOf(o)) \cap Kept(b, o, t) = {}
  <2>1. \A n \in N : M[n] = Arbitrate(Get(mb, n), Get(mo, n), Get(mt, n)) /\ M[n] # Collision
    BY <1>1, <1>4 DEF Collide
  <2>2. ASSUME NEW n \in N PROVE M[n] \in Members \cup {Absent}
    <3>1. M[n] \in {Get(mb, n), Get(mo, n), Get(mt, n)}
      BY <2>1, <2>2 DEF Arbitrate
    <3> HIDE DEF M, mb, mo, mt
    <3> QED BY <1>2, <3>1
  <2>3. Kept(b, o, t) \in SUBSET Members
    <3>1. Kept(b, o, t) = {M[n] : n \in N} \ {Absent}
      BY <1>1 DEF Kept
    <3> HIDE DEF M, N
    <3> QED BY <2>2, <3>1
  <2>4. ASSUME NEW x \in MethodsOf(o) \ MethodsOf(b) PROVE x \in Kept(b, o, t)
    <3>1. PICK n \in DOMAIN mo : x = mo[n]
      BY <2>4 DEF MethodsOf
    <3>2. Get(mo, n) = x /\ x # Absent
      BY <3>1, MethodOf
    <3>3. Get(mb, n) # x
      <4>1. CASE n \in DOMAIN mb
        BY <2>4, <4>1, MethodOf DEF MethodsOf
      <4>2. CASE n \notin DOMAIN mb
        BY <3>2, <4>2, MethodOf
      <4> QED BY <4>1, <4>2
    <3>4. M[n] = x /\ n \in N
      <4>1. n \in N
        OBVIOUS
      <4> HIDE DEF M, N, mb, mo, mt
      <4> QED BY <2>1, <3>2, <3>3, <4>1, ArbitrateIsFair
    <3> QED BY <1>1, <3>2, <3>4 DEF Kept
  <2>5. ASSUME NEW x \in MethodsOf(b) \ MethodsOf(o), x \in Kept(b, o, t) PROVE FALSE
    <3>1. PICK i \in DOMAIN mb : x = mb[i]
      BY <2>5 DEF MethodsOf
    <3>2. PICK n \in N : x = M[n] /\ x # Absent
      BY <1>1, <2>5 DEF Kept
    <3>3. x \in {Get(mb, n), Get(mo, n), Get(mt, n)}
      BY <2>1, <3>2 DEF Arbitrate
    <3>4. i = n /\ Get(mb, n) = x
      <4>1. x.name = n
        BY <3>2, <3>3, MethodOf
      <4>2. Get(mb, i) = x /\ x.name = i
        BY <3>1, MethodOf
      <4> QED BY <4>1, <4>2
    <3>5. Get(mo, n) # x
      <4>1. CASE n \in DOMAIN mo
        BY <2>5, <4>1, MethodOf DEF MethodsOf
      <4>2. CASE n \notin DOMAIN mo
        BY <3>2, <4>2, MethodOf
      <4> QED BY <4>1, <4>2
    <3> HIDE DEF M, N, mb, mo, mt
    <3> QED BY <2>1, <3>2, <3>4, <3>5, ArbitrateIsFair
  <2> QED BY <2>3, <2>4, <2>5
<1>5. ASSUME NEW s \in Classes, Agree(b, o, t, s)
      PROVE  ~Collide(b, o, t) /\ Kept(b, o, t) = MethodsOf(s)
  <2> DEFINE ms == _extract_methods_map(s)
  <2>1. \A n \in N : M[n] = Get(ms, n)
    BY <1>1, <1>5, ArbitrateIsFair DEF Agree
  <2>2. DOMAIN ms \subseteq N
    BY <1>5 DEF Agree
  <2>3. \A n : /\ Get(ms, n) # Collision
               /\ Get(ms, n) = Absent <=> n \notin DOMAIN ms
               /\ n \in DOMAIN ms => Get(ms, n) = ms[n]
    BY MethodOf
  <2>4. DOMAIN M = N
    BY <1>1
  <2>5. ~Collide(b, o, t)
    BY <2>1, <2>3, <2>4 DEF Collide
  <2>6. Kept(b, o, t) = MethodsOf(s)
    <3>1. Kept(b, o, t) = {M[n] : n \in N} \ {Absent}
      BY <2>4 DEF Kept
    <3>2. MethodsOf(s) = {ms[n] : n \in DOMAIN ms}
      BY DEF MethodsOf
    <3> HIDE DEF M, N, ms
    <3>3. ASSUME NEW x \in {M[n] : n \in N} \ {Absent} PROVE x \in {ms[n] : n \in DOMAIN ms}
      BY <2>1, <2>3, <3>3
    <3>4. ASSUME NEW n \in DOMAIN ms PROVE ms[n] \in {M[i] : i \in N} \ {Absent}
      <4>1. n \in N /\ M[n] = ms[n] /\ ms[n] # Absent
        BY <2>1, <2>2, <2>3, <3>4
      <4> QED BY <4>1
    <3> QED BY <3>1, <3>2, <3>3, <3>4
  <2> QED BY <2>5, <2>6
<1> QED BY <1>3, <1>4, <1>5

\* A class that has been merged is neither of the two that stand for something else.
LEMMA ClassesMerge ==
  ASSUME NEW b \in Classes, NEW o \in Classes, NEW t \in Classes
  PROVE  LET class == [header |-> o.header, methods |-> Kept(b, o, t)]
         IN /\ reconcile_class_methods(b, o, t) = IF Collide(b, o, t) THEN Collision ELSE class
            /\ ~Collide(b, o, t) => class \notin {Absent, Collision}
<1> DEFINE class == [header |-> o.header, methods |-> Kept(b, o, t)]
<1>1. reconcile_class_methods(b, o, t) = IF Collide(b, o, t) THEN Collision ELSE class
  BY DEF reconcile_class_methods, Collide, Kept
<1>2. ASSUME ~Collide(b, o, t) PROVE class \notin {Absent, Collision}
  <2>1. Kept(b, o, t) \in SUBSET Members /\ o.header \in {c.header : c \in Classes}
    BY <1>2, MethodsMerge
  <2>2. class \in [header : {c.header : c \in Classes}, methods : SUBSET Members]
    BY <2>1
  <2> QED BY <2>2, MergeAssumption
<1> QED BY <1>1, <1>2

Pieces == Stated \cup {Absent}
AreClasses(b, o, t) == IsClass(b) /\ IsClass(o) /\ IsClass(t)

\* What is merged of three versions of one symbol: a class that all have is built from
\* the methods that are kept, or collides; anything else is arbitrated whole.
LEMMA SymbolsMerge ==
  ASSUME NEW b \in Pieces, NEW o \in Pieces, NEW t \in Pieces,
         NEW x, x = arbitrate_symbol(b, o, t)
  PROVE  /\ ~AreClasses(b, o, t) => x = Arbitrate(b, o, t)
         /\ AreClasses(b, o, t) =>
              /\ b \in Classes /\ o \in Classes /\ t \in Classes
              /\ Collide(b, o, t) => x = Collision
              /\ ~Collide(b, o, t) => /\ x = [header |-> o.header, methods |-> Kept(b, o, t)]
                                      /\ x \notin {Absent, Collision}
<1>1. CASE ~AreClasses(b, o, t)
  BY <1>1 DEF arbitrate_symbol, AreClasses
<1>2. CASE AreClasses(b, o, t)
  <2>1. b \in Classes /\ o \in Classes /\ t \in Classes
    BY <1>2, MergeAssumption DEF Pieces, AreClasses, IsClass, Classes
  <2>2. CASE Collide(b, o, t)
    <3>1. reconcile_class_methods(b, o, t) = Collision
      BY <2>1, <2>2, ClassesMerge
    <3>2. x = Arbitrate(b, o, t)
      BY <3>1 DEF arbitrate_symbol
    <3>3. ~Agree(b, o, t, t) /\ ~Agree(b, o, t, o)
      BY <2>1, <2>2, MethodsMerge
    <3>4. x = Collision
      BY <3>2, <3>3 DEF Agree, Arbitrate
    <3> QED BY <1>2, <2>1, <2>2, <3>4
  <2>3. CASE ~Collide(b, o, t)
    <3> DEFINE class == [header |-> o.header, methods |-> Kept(b, o, t)]
    <3>1. reconcile_class_methods(b, o, t) = class /\ class \notin {Absent, Collision}
      BY <2>1, <2>3, ClassesMerge
    <3> HIDE DEF class
    <3>2. x = class
      BY <1>2, <3>1 DEF arbitrate_symbol, AreClasses
    <3> QED BY <1>2, <2>1, <2>3, <3>1, <3>2 DEF class
  <2> QED BY <2>2, <2>3
<1> QED BY <1>1, <1>2

\* The three versions of a symbol, and what is merged of them.
Versions == [base : Seq(Stated), ours : Seq(Stated), theirs : Seq(Stated)]
Of(module, k) == Get(extract_symbol_map(module), k)
Arbitrated(m, k) == arbitrate_symbol(Of(m.base, k), Of(m.ours, k), Of(m.theirs, k))
Merged(m) == reconcile_3way(m.base, m.ours, m.theirs)
AllClasses(m, k) == AreClasses(Of(m.base, k), Of(m.ours, k), Of(m.theirs, k))

LEMMA PiecesAre ==
  ASSUME NEW m \in Versions, NEW k
  PROVE  /\ Of(m.base, k) \in Pieces /\ Of(m.ours, k) \in Pieces /\ Of(m.theirs, k) \in Pieces
         /\ Rebuilt(m, k) <=> AllClasses(m, k)
<1>1. m.base \in Seq(Stated) /\ m.ours \in Seq(Stated) /\ m.theirs \in Seq(Stated)
  BY DEF Versions
<1>2. Of(m.base, k) \in Pieces /\ Of(m.ours, k) \in Pieces /\ Of(m.theirs, k) \in Pieces
  BY <1>1, SymbolOf DEF Pieces, Of
<1>3. Rebuilt(m, k) <=> AllClasses(m, k)
  BY Zenon DEF Rebuilt, AllClasses, AreClasses, Of
<1> QED BY <1>2, <1>3

LEMMA MergedIs ==
  ASSUME NEW m \in Versions, NEW merge, merge = Merged(m)
  PROVE  /\ \A k : /\ k \in merge.collisions <=> Arbitrated(m, k) = Collision
                   /\ k \in DOMAIN merge.symbols <=> Arbitrated(m, k) \notin {Absent, Collision}
                   /\ k \in DOMAIN merge.symbols => merge.symbols[k] = Arbitrated(m, k)
         /\ merge.symbols = [k \in DOMAIN merge.symbols |-> merge.symbols[k]]
         /\ merge.imports = reconcile_import_sets(extract_import_statements(m.base),
                              extract_import_statements(m.ours), extract_import_statements(m.theirs))
<1> DEFINE N == DOMAIN extract_symbol_map(m.base) \cup DOMAIN extract_symbol_map(m.ours)
                  \cup DOMAIN extract_symbol_map(m.theirs)
           x(k) == Arbitrated(m, k)
           M == [k \in N |-> x(k)]
<1>1. /\ merge.collisions = {k \in DOMAIN M : M[k] = Collision}
      /\ merge.symbols = [k \in {n \in DOMAIN M : M[n] \notin {Absent, Collision}} |-> M[k]]
      /\ merge.imports = reconcile_import_sets(extract_import_statements(m.base),
                           extract_import_statements(m.ours), extract_import_statements(m.theirs))
  BY DEF Merged, reconcile_3way, Arbitrated, Of
<1>2. ASSUME NEW k, k \notin N PROVE x(k) = Absent
  <2>1. Of(m.base, k) = Absent /\ Of(m.ours, k) = Absent /\ Of(m.theirs, k) = Absent
    BY <1>2 DEF Of, Get
  <2>2. ~AreClasses(Absent, Absent, Absent) /\ Absent \in Pieces
    BY DEF AreClasses, IsClass, Pieces
  <2>3. x(k) = Arbitrate(Absent, Absent, Absent)
    BY <2>1, <2>2, SymbolsMerge DEF Arbitrated
  <2> HIDE DEF x
  <2> QED BY <2>3, ArbitrateIsFair
<1> HIDE DEF x, N
<1>3. DOMAIN M = N /\ \A k \in N : M[k] = x(k)
  OBVIOUS
<1> HIDE DEF M
<1>4. \A k : /\ k \in merge.collisions <=> x(k) = Collision
             /\ k \in DOMAIN merge.symbols <=> x(k) \notin {Absent, Collision}
             /\ k \in DOMAIN merge.symbols => merge.symbols[k] = x(k)
  BY <1>1, <1>2, <1>3, MergeAssumption
<1>5. merge.symbols = [k \in DOMAIN merge.symbols |-> merge.symbols[k]]
  BY <1>1
<1> QED BY <1>1, <1>4, <1>5 DEF x

\* reconcile_3way merges what two sides agree on.
LEMMA AgreementYields ==
  ASSUME NEW m \in Versions, NEW side \in Seq(Stated), Agree(m.base, m.ours, m.theirs, side),
         NEW merge, merge = Merged(m)
  PROVE  Yields(merge, m, side)
<1> DEFINE s == extract_symbol_map(side)
           x(k) == Arbitrated(m, k)
           left(k) == IF Rebuilt(m, k) THEN [header |-> extract_symbol_map(m.ours)[k].header, methods |-> MethodsOf(s[k])]
                      ELSE s[k]
<1>1. ASSUME NEW k
      PROVE  /\ x(k) # Collision
             /\ x(k) = Absent <=> k \notin DOMAIN s
             /\ k \in DOMAIN s => x(k) = left(k)
  <2> DEFINE b == Of(m.base, k)
             o == Of(m.ours, k)
             t == Of(m.theirs, k)
             p == Of(side, k)
  <2>1. /\ b \in Pieces /\ o \in Pieces /\ t \in Pieces
        /\ Rebuilt(m, k) <=> AreClasses(b, o, t)
    BY PiecesAre DEF AllClasses
  <2>2. /\ p # Collision
        /\ p = Absent <=> k \notin DOMAIN s
        /\ k \in DOMAIN s => p = s[k]
    BY SymbolOf DEF Of
  <2>3. Agree(b, o, t, p)
    BY DEF Agree
  <2>4. x(k) = arbitrate_symbol(b, o, t)
    BY DEF Arbitrated
  <2>5. o # Absent => o = extract_symbol_map(m.ours)[k]
    BY DEF Of, Get
  <2> HIDE DEF b, o, t, p, s, x
  <2>6. CASE ~AreClasses(b, o, t)
    <3>1. x(k) = Arbitrate(b, o, t)
      BY <2>1, <2>4, <2>6, SymbolsMerge
    <3>2. x(k) = p
      BY <2>3, <3>1, ArbitrateIsFair DEF Agree
    <3> QED BY <2>1, <2>2, <2>6, <3>2
  <2>7. CASE AreClasses(b, o, t)
    <3>1. b \in Classes /\ o \in Classes /\ t \in Classes
      BY <2>1, <2>4, <2>7, SymbolsMerge
    <3>2. p \in Classes
      BY <2>3, <3>1 DEF Agree
    <3>3. ~Collide(b, o, t) /\ Kept(b, o, t) = MethodsOf(p)
      BY <2>3, <3>1, <3>2, MethodsMerge
    <3>4. x(k) = [header |-> o.header, methods |-> MethodsOf(p)] /\ x(k) \notin {Absent, Collision}
      BY <2>1, <2>4, <2>7, <3>3, SymbolsMerge
    <3>5. o # Absent /\ p # Absent
      BY <3>1, <3>2, MergeAssumption DEF Classes
    <3> QED BY <2>1, <2>2, <2>5, <2>7, <3>4, <3>5
  <2> QED BY <2>6, <2>7
<1>2. /\ \A k : /\ k \in merge.collisions <=> x(k) = Collision
                /\ k \in DOMAIN merge.symbols <=> x(k) \notin {Absent, Collision}
                /\ k \in DOMAIN merge.symbols => merge.symbols[k] = x(k)
      /\ merge.symbols = [k \in DOMAIN merge.symbols |-> merge.symbols[k]]
      /\ merge.imports = reconcile_import_sets(extract_import_statements(m.base),
                           extract_import_statements(m.ours), extract_import_statements(m.theirs))
  BY MergedIs
<1>3. merge.imports = extract_import_statements(side)
  BY <1>2 DEF reconcile_import_sets, Agree
<1>4. Remains(m, side) = [k \in DOMAIN s |-> left(k)]
  BY DEF Remains
<1> HIDE DEF s, x, left
<1>5. merge.collisions = {} /\ DOMAIN merge.symbols = DOMAIN s
  BY <1>1, <1>2
<1>6. \A k \in DOMAIN s : merge.symbols[k] = left(k)
  BY <1>1, <1>2, <1>5
<1>7. merge.symbols = Remains(m, side)
  BY <1>2, <1>4, <1>5, <1>6
<1> QED BY <1>3, <1>5, <1>7 DEF Yields

\* The same versions with the branches exchanged.
Mirror(m) == [base |-> m.base, ours |-> m.theirs, theirs |-> m.ours]

SameSymbols(m, merge, mirrored) ==
  /\ DOMAIN merge.symbols = DOMAIN mirrored.symbols
  /\ \A k \in DOMAIN merge.symbols :
       IF Rebuilt(m, k) THEN merge.symbols[k].methods = mirrored.symbols[k].methods
       ELSE merge.symbols[k] = mirrored.symbols[k]

\* reconcile_3way has no bias towards the branch that is called ours.
LEMMA NoBias ==
  ASSUME NEW m \in Versions, NEW merge, merge = Merged(m), NEW mirrored, mirrored = Merged(Mirror(m))
  PROVE  /\ merge.imports = mirrored.imports /\ merge.collisions = mirrored.collisions
         /\ SameSymbols(m, merge, mirrored)
<1> DEFINE x(k) == Arbitrated(m, k)
           y(k) == Arbitrated(Mirror(m), k)
<1>0. Mirror(m) \in Versions
  BY DEF Mirror, Versions
<1>1. ASSUME NEW k
      PROVE  /\ x(k) = Collision <=> y(k) = Collision
             /\ x(k) = Absent <=> y(k) = Absent
             /\ x(k) \notin {Absent, Collision} =>
                  IF Rebuilt(m, k) THEN x(k).methods = y(k).methods ELSE x(k) = y(k)
  <2> DEFINE b == Of(m.base, k)
             o == Of(m.ours, k)
             t == Of(m.theirs, k)
  <2>1. /\ b \in Pieces /\ o \in Pieces /\ t \in Pieces
        /\ Rebuilt(m, k) <=> AreClasses(b, o, t)
        /\ AreClasses(b, t, o) <=> AreClasses(b, o, t)
    BY PiecesAre DEF AllClasses, AreClasses
  <2>2. x(k) = arbitrate_symbol(b, o, t) /\ y(k) = arbitrate_symbol(b, t, o)
    BY DEF Arbitrated, Mirror
  <2> HIDE DEF b, o, t, x, y
  <2>3. CASE ~AreClasses(b, o, t)
    BY <2>1, <2>2, <2>3, SymbolsMerge, ArbitrateIsFair
  <2>4. CASE AreClasses(b, o, t)
    <3>1. b \in Classes /\ o \in Classes /\ t \in Classes
      BY <2>1, <2>2, <2>4, SymbolsMerge
    <3>2. MergedMethods(b, t, o) = MergedMethods(b, o, t)
      BY <3>1, MethodsMerge, Zenon
    <3>3. (Collide(b, t, o) <=> Collide(b, o, t)) /\ Kept(b, t, o) = Kept(b, o, t)
      BY <3>2, Zenon DEF Collide, Kept
    <3>4. CASE Collide(b, o, t)
      <4>1. x(k) = Collision /\ y(k) = Collision
        BY <2>1, <2>2, <2>4, <3>3, <3>4, SymbolsMerge
      <4> QED BY <4>1, MergeAssumption
    <3>5. CASE ~Collide(b, o, t)
      <4>1. /\ x(k) = [header |-> o.header, methods |-> Kept(b, o, t)] /\ x(k) \notin {Absent, Collision}
            /\ y(k) = [header |-> t.header, methods |-> Kept(b, o, t)] /\ y(k) \notin {Absent, Collision}
        BY <2>1, <2>2, <2>4, <3>3, <3>5, SymbolsMerge
      <4> QED BY <2>1, <2>4, <4>1
    <3> QED BY <3>4, <3>5
  <2> QED BY <2>3, <2>4
<1>2. \A k : /\ k \in merge.collisions <=> x(k) = Collision
             /\ k \in DOMAIN merge.symbols <=> x(k) \notin {Absent, Collision}
             /\ k \in DOMAIN merge.symbols => merge.symbols[k] = x(k)
  BY MergedIs
<1>3. \A k : /\ k \in mirrored.collisions <=> y(k) = Collision
             /\ k \in DOMAIN mirrored.symbols <=> y(k) \notin {Absent, Collision}
             /\ k \in DOMAIN mirrored.symbols => mirrored.symbols[k] = y(k)
  BY <1>0, MergedIs
<1>4. merge.imports = mirrored.imports
  <2>1. /\ merge.imports = reconcile_import_sets(extract_import_statements(m.base),
                             extract_import_statements(m.ours), extract_import_statements(m.theirs))
        /\ mirrored.imports = reconcile_import_sets(extract_import_statements(Mirror(m).base),
                                extract_import_statements(Mirror(m).ours), extract_import_statements(Mirror(m).theirs))
    BY <1>0, MergedIs
  <2>2. Mirror(m).base = m.base /\ Mirror(m).ours = m.theirs /\ Mirror(m).theirs = m.ours
    BY DEF Mirror
  <2> QED BY <2>1, <2>2 DEF reconcile_import_sets
<1>5. merge.collisions \subseteq mirrored.collisions /\ mirrored.collisions \subseteq merge.collisions
  <2> HIDE DEF x, y
  <2> QED BY <1>1, <1>2, <1>3
<1>6. SameSymbols(m, merge, mirrored)
  <2> HIDE DEF x, y
  <2>1. \A k : k \in DOMAIN merge.symbols <=> k \in DOMAIN mirrored.symbols
    BY <1>1, <1>2, <1>3
  <2>2. \A k \in DOMAIN merge.symbols :
          IF Rebuilt(m, k) THEN merge.symbols[k].methods = mirrored.symbols[k].methods
          ELSE merge.symbols[k] = mirrored.symbols[k]
    BY <1>1, <1>2, <1>3, <2>1
  <2> QED BY <2>1, <2>2 DEF SameSymbols
<1> QED BY <1>4, <1>5, <1>6

\* The edits of a side are in a merge.
Survives(m, side, merge) ==
  LET old == extract_symbol_map(m.base)
      new == extract_symbol_map(side)
  IN \A k \in DOMAIN old \cup DOMAIN new :
       IF Rebuilt(m, k)
         THEN /\ k \in DOMAIN merge.symbols
              /\ MethodsOf(new[k]) \ MethodsOf(old[k]) \subseteq merge.symbols[k].methods
              /\ (MethodsOf(old[k]) \ MethodsOf(new[k])) \cap merge.symbols[k].methods = {}
         ELSE Get(new, k) # Get(old, k) => Get(merge.symbols, k) = Get(new, k)

LEMMA OursSurvives ==
  ASSUME NEW m \in Versions, NEW merge, merge = Merged(m)
  PROVE  merge.collisions = {} => Survives(m, m.ours, merge)
<1> DEFINE old == extract_symbol_map(m.base)
           new == extract_symbol_map(m.ours)
<1>0. \A i : /\ i \in merge.collisions <=> Arbitrated(m, i) = Collision
             /\ i \in DOMAIN merge.symbols <=> Arbitrated(m, i) \notin {Absent, Collision}
             /\ i \in DOMAIN merge.symbols => merge.symbols[i] = Arbitrated(m, i)
  BY MergedIs
<1> SUFFICES ASSUME merge.collisions = {}, NEW k \in DOMAIN old \cup DOMAIN new
             PROVE  IF Rebuilt(m, k)
                      THEN /\ k \in DOMAIN merge.symbols
                           /\ MethodsOf(new[k]) \ MethodsOf(old[k]) \subseteq merge.symbols[k].methods
                           /\ (MethodsOf(old[k]) \ MethodsOf(new[k])) \cap merge.symbols[k].methods = {}
                      ELSE Get(new, k) # Get(old, k) => Get(merge.symbols, k) = Get(new, k)
  BY DEF Survives
<1> DEFINE x == Arbitrated(m, k)
           b == Of(m.base, k)
           o == Of(m.ours, k)
           t == Of(m.theirs, k)
<1>1. /\ x # Collision
      /\ k \in DOMAIN merge.symbols <=> x # Absent
      /\ k \in DOMAIN merge.symbols => merge.symbols[k] = x
  <2>1. /\ k \in merge.collisions <=> x = Collision
        /\ k \in DOMAIN merge.symbols <=> x \notin {Absent, Collision}
        /\ k \in DOMAIN merge.symbols => merge.symbols[k] = x
    BY <1>0, Zenon
  <2> HIDE DEF x
  <2> QED BY <2>1
<1>2. /\ b \in Pieces /\ o \in Pieces /\ t \in Pieces
      /\ Rebuilt(m, k) <=> AreClasses(b, o, t)
  BY PiecesAre DEF AllClasses
<1>3. x = arbitrate_symbol(b, o, t)
  BY DEF Arbitrated
<1>4. /\ b # Absent => b = old[k]
      /\ o # Absent => o = new[k]
      /\ b = Get(old, k) /\ o = Get(new, k)
  BY DEF Of, Get
<1> HIDE DEF b, o, t, x, old, new
<1>5. CASE ~AreClasses(b, o, t)
  <2>1. x = Arbitrate(b, o, t)
    BY <1>2, <1>3, <1>5, SymbolsMerge
  <2>2. o # b => x = o
    BY <1>1, <2>1, ArbitrateIsFair
  <2>3. Get(merge.symbols, k) = x
    BY <1>1 DEF Get
  <2> QED BY <1>2, <1>4, <1>5, <2>2, <2>3
<1>6. CASE AreClasses(b, o, t)
  <2>1. b \in Classes /\ o \in Classes /\ t \in Classes /\ ~Collide(b, o, t)
    BY <1>1, <1>2, <1>3, <1>6, SymbolsMerge
  <2>2. x.methods = Kept(b, o, t) /\ x # Absent
    <3>1. x = [header |-> o.header, methods |-> Kept(b, o, t)] /\ x # Absent
      BY <1>2, <1>3, <1>6, <2>1, SymbolsMerge
    <3> QED BY <3>1
  <2>3. b = old[k] /\ o = new[k]
    BY <1>4, <2>1, MergeAssumption DEF Classes
  <2>4. /\ MethodsOf(o) \ MethodsOf(b) \subseteq Kept(b, o, t)
        /\ (MethodsOf(b) \ MethodsOf(o)) \cap Kept(b, o, t) = {}
    BY <2>1, MethodsMerge
  <2> QED BY <1>1, <1>2, <1>6, <2>2, <2>3, <2>4
<1> QED BY <1>5, <1>6

\* And so are those of the other, for neither is preferred.
LEMMA TheirsSurvives ==
  ASSUME NEW m \in Versions, NEW merge, merge = Merged(m)
  PROVE  merge.collisions = {} => Survives(m, m.theirs, merge)
<1> SUFFICES ASSUME merge.collisions = {} PROVE Survives(m, m.theirs, merge)
  OBVIOUS
<1> DEFINE mirrored == Merged(Mirror(m))
           old == extract_symbol_map(m.base)
           new == extract_symbol_map(m.theirs)
<1>1. mirrored.collisions = {} /\ SameSymbols(m, merge, mirrored)
  BY NoBias
<1>2. Mirror(m) \in Versions /\ Mirror(m).base = m.base /\ Mirror(m).ours = m.theirs
  BY DEF Mirror, Versions
<1>3. Survives(Mirror(m), m.theirs, mirrored)
  BY <1>1, <1>2, OursSurvives
<1>4. \A k : Rebuilt(Mirror(m), k) <=> Rebuilt(m, k)
  BY Zenon DEF Rebuilt, Mirror
<1> HIDE DEF mirrored
<1>5. \A k \in DOMAIN old \cup DOMAIN new :
        IF Rebuilt(m, k)
          THEN /\ k \in DOMAIN mirrored.symbols
               /\ MethodsOf(new[k]) \ MethodsOf(old[k]) \subseteq mirrored.symbols[k].methods
               /\ (MethodsOf(old[k]) \ MethodsOf(new[k])) \cap mirrored.symbols[k].methods = {}
          ELSE Get(new, k) # Get(old, k) => Get(mirrored.symbols, k) = Get(new, k)
  BY <1>2, <1>3, <1>4 DEF Survives
<1>6. \A k : /\ k \in DOMAIN merge.symbols <=> k \in DOMAIN mirrored.symbols
             /\ Rebuilt(m, k) /\ k \in DOMAIN merge.symbols => merge.symbols[k].methods = mirrored.symbols[k].methods
             /\ ~Rebuilt(m, k) => Get(merge.symbols, k) = Get(mirrored.symbols, k)
  BY <1>1 DEF SameSymbols, Get
<1> HIDE DEF old, new
<1>7. ASSUME NEW k \in DOMAIN old \cup DOMAIN new
      PROVE  IF Rebuilt(m, k)
               THEN /\ k \in DOMAIN merge.symbols
                    /\ MethodsOf(new[k]) \ MethodsOf(old[k]) \subseteq merge.symbols[k].methods
                    /\ (MethodsOf(old[k]) \ MethodsOf(new[k])) \cap merge.symbols[k].methods = {}
               ELSE Get(new, k) # Get(old, k) => Get(merge.symbols, k) = Get(new, k)
  BY <1>5, <1>6, <1>7
<1> QED BY <1>7 DEF Survives, old, new

\* What a call has merged depends on what it was given.
MergeIsDone ==
  tool = "merge" => input \in Merges /\ output \in {None, Merged(input)}

\* reconcile_3way is a three-way merge, whatever the modules say: where two sides agree
\* the third is merged, neither branch is preferred, and no edit is lost without a
\* collision, all of it whole but for classes every side has, of which it is so for the
\* methods, under ours' bases and decorators.
THEOREM MergesKept == Spec => []MergesAreSound
<1>1. Init => MergeIsDone
  BY DEF Init, MergeIsDone
<1>2. MergeIsDone /\ [Next]_vars => MergeIsDone'
  BY DEF MergeIsDone, Merged, Next, vars, Runs, Merge, Pack, Govern, Synthesize, Conclude, Review
<1>3. ASSUME MergeIsDone PROVE MergesAreSound
  <2> DEFINE m == [base |-> input.base, ours |-> input.ours, theirs |-> input.theirs]
  <2>1. ASSUME Done("merge")
        PROVE  m \in Versions /\ output = Merged(m)
    BY <1>3, <2>1, MergeAssumption DEF MergeIsDone, Merged, Done, Sides, Versions
  <2>2. /\ \A k : Rebuilt(m, k) <=> Rebuilt(input, k)
        /\ \A side : Remains(m, side) = Remains(input, side)
    BY DEF Rebuilt, Remains
  <2>3. m.base = input.base /\ m.ours = input.ours /\ m.theirs = input.theirs
    OBVIOUS
  <2>4. Merged(Mirror(m)) = reconcile_3way(input.base, input.theirs, input.ours)
    BY DEF Merged, Mirror
  <2> HIDE DEF m
  <2>5. ASSUME Done("merge"), NEW side \in Seq(Stated), Agree(m.base, m.ours, m.theirs, side)
        PROVE  Yields(output, input, side)
    <3>1. Yields(output, m, side)
      BY <2>1, <2>5, AgreementYields
    <3> QED BY <2>2, <3>1 DEF Yields
  <2>6. AgreementMerges
    <3>1. ASSUME Done("merge")
          PROVE  /\ m.base \in Seq(Stated) /\ m.ours \in Seq(Stated) /\ m.theirs \in Seq(Stated)
      BY <2>1, <3>1 DEF Versions
    <3> QED BY <2>3, <2>5, <3>1 DEF AgreementMerges, Agree
  <2>7. MergeIsSymmetric
    <3>1. Done("merge") => /\ output.imports = Merged(Mirror(m)).imports
                           /\ output.collisions = Merged(Mirror(m)).collisions
                           /\ SameSymbols(m, output, Merged(Mirror(m)))
      BY <2>1, NoBias
    <3> QED BY <2>2, <2>4, <3>1 DEF MergeIsSymmetric, SameSymbols
  <2>8. EditsSurvive
    <3>1. Done("merge") /\ output.collisions = {} =>
            Survives(m, input.ours, output) /\ Survives(m, input.theirs, output)
      BY <2>1, <2>3, OursSurvives, TheirsSurvives
    <3>2. Done("merge") /\ output.collisions = {} =>
            Survives(input, input.ours, output) /\ Survives(input, input.theirs, output)
      BY <2>2, <2>3, <3>1 DEF Survives
    <3> QED BY <3>2, Zenon DEF EditsSurvive, Survives
  <2> QED BY <2>6, <2>7, <2>8 DEF MergesAreSound
<1> QED BY <1>1, <1>2, <1>3, PTL DEF Spec
-----------------------------------------------------------------------------
\* Loops and folds.

\* What is true of 0, and of i if of i - 1, is true up to n.
LEMMA UpTo ==
  ASSUME NEW n \in Nat, NEW G, 0 \in G, \A i \in 1 .. n : i - 1 \in G => i \in G
  PROVE  \A i \in 0 .. n : i \in G
<1> DEFINE T == {i \in Nat : i <= n => i \in G}
<1>1. 0 \in T /\ T \in SUBSET Nat
  OBVIOUS
<1>2. ASSUME NEW i \in T PROVE i + 1 \in T
  <2>1. CASE i + 1 <= n
    <3>1. i + 1 \in 1 .. n /\ (i + 1) - 1 = i /\ i \in G
      BY <1>2, <2>1
    <3> QED BY <3>1
  <2>2. CASE ~(i + 1 <= n)
    BY <1>2, <2>2
  <2> QED BY <2>1, <2>2
<1>3. T = Nat
  <2> HIDE DEF T
  <2> QED BY <1>1, <1>2, Induction
<1> QED BY <1>3

\* The beginning of a sequence.
LEMMA BeginningOf ==
  ASSUME NEW S, NEW seq \in Seq(S), NEW k \in Nat, k <= Len(seq)
  PROVE  /\ SubSeq(seq, 1, k) \in Seq(S) /\ Len(SubSeq(seq, 1, k)) = k
         /\ \A i \in 1 .. k : SubSeq(seq, 1, k)[i] = seq[i] /\ i \in 1 .. Len(seq)
<1> DEFINE one == 1
<1>1. one \in Int /\ k \in Int /\ \A i \in one .. k : seq[i] \in S
  BY ElementOfSeq, LenProperties
<1>2. k - one + 1 = k /\ (IF one <= k THEN k - one + 1 ELSE 0) = k
      /\ \A i \in 1 .. k : one + i - 1 = i /\ i \in 1 .. Len(seq)
  BY LenProperties
<1> HIDE DEF one
<1>3. /\ SubSeq(seq, one, k) \in Seq(S) /\ Len(SubSeq(seq, one, k)) = IF one <= k THEN k - one + 1 ELSE 0
      /\ \A i \in 1 .. (k - one + 1) : SubSeq(seq, one, k)[i] = seq[one + i - 1]
  BY <1>1, SubSeqProperties
<1>4. /\ SubSeq(seq, one, k) \in Seq(S) /\ Len(SubSeq(seq, one, k)) = k
      /\ \A i \in 1 .. k : SubSeq(seq, one, k)[i] = seq[i]
  BY <1>2, <1>3
<1> QED BY <1>2, <1>4 DEF one

\* What a loop has made after each turn.
HasTurns(T, base, n, step) ==
  \E g \in [0 .. n -> T] : g[0] = base /\ \A i \in 1 .. n : g[i] = step[<<g[i - 1], i>>]

\* A loop that goes from a state to another one of its kind has a run of any length.
LEMMA Iterates ==
  ASSUME NEW T, NEW base \in T, NEW n \in Nat, NEW step \in [T \X (1 .. n) -> T]
  PROVE  HasTurns(T, base, n, step)
<1> DEFINE Follows(k, g) == g[0] = base /\ \A i \in 1 .. k : g[i] = step[<<g[i - 1], i>>]
           G == {k \in 0 .. n : \E g \in [0 .. n -> T] : Follows(k, g)}
<1>1. 0 \in G
  <2> DEFINE g == [i \in 0 .. n |-> base]
  <2>1. g \in [0 .. n -> T] /\ Follows(0, g)
    OBVIOUS
  <2> HIDE DEF g, Follows
  <2> QED BY <2>1
<1>2. ASSUME NEW k \in 1 .. n, k - 1 \in G PROVE k \in G
  <2>1. PICK g \in [0 .. n -> T] : Follows(k - 1, g)
    BY <1>2
  <2> DEFINE h == [g EXCEPT ![k] = step[<<g[k - 1], k>>]]
  <2>2. step[<<g[k - 1], k>>] \in T
    <3>1. k - 1 \in 0 .. n
      OBVIOUS
    <3>2. <<g[k - 1], k>> \in T \X (1 .. n)
      BY <3>1
    <3> QED BY <3>2
  <2>3. h \in [0 .. n -> T]
    BY <2>2
  <2>4. h[k] = step[<<h[k - 1], k>>] /\ h[0] = base
    BY <2>1, SMTT(30)
  <2>5. \A i \in 1 .. (k - 1) : h[i] = g[i] /\ h[i - 1] = g[i - 1]
    OBVIOUS
  <2> HIDE DEF h
  <2>6. Follows(k, h)
    BY <2>1, <2>4, <2>5, SMTT(30)
  <2> QED BY <2>3, <2>6
<1>3. n \in G
  <2> HIDE DEF G
  <2>1. \A i \in 0 .. n : i \in G
    BY <1>1, <1>2, UpTo
  <2> QED BY <2>1
<1> QED BY <1>3 DEF HasTurns

\* What Max of a set of places is.
LEMMA LastIsMax ==
  ASSUME NEW n \in Nat, NEW s \in SUBSET (1 .. n), s # {}
  PROVE  /\ Max(s) \in s /\ \A i \in s : i <= Max(s)
         /\ n \in s => Max(s) = n
<1>1. \E m \in s : \A i \in s : m >= i
  <2> DEFINE T == {n - i : i \in s}
  <2>1. T \in SUBSET Nat /\ T # {}
    <3>1. \A i \in s : n - i \in Nat
      OBVIOUS
    <3> QED BY <3>1
  <2>2. PICK d \in T : \A e \in T : d <= e
    <3> HIDE DEF T
    <3> QED BY <2>1, LeastNatural
  <2>3. \E m \in s : d = n - m
    OBVIOUS
  <2>4. PICK m \in s : d = n - m
    BY <2>3
  <2>5. \A i \in s : n - i \in T
    OBVIOUS
  <2> HIDE DEF T
  <2>6. ASSUME NEW i \in s PROVE m >= i
    <3>1. d <= n - i
      BY <2>2, <2>5
    <3>2. i \in 1 .. n /\ m \in 1 .. n
      OBVIOUS
    <3> QED BY <2>4, <3>1, <3>2
  <2> QED BY <2>6
<1>2. Max(s) \in s /\ \A i \in s : Max(s) >= i
  BY <1>1, Zenon DEF Max
<1> DEFINE last == Max(s)
<1>3. last \in s /\ \A i \in s : last >= i
  BY <1>2
<1> HIDE DEF last
<1>4. last \in s /\ (\A i \in s : i <= last) /\ (n \in s => last = n)
  BY <1>3
<1> QED BY <1>4 DEF last

\* What a fold has made of each set of places: of what comes last it is made last.
HasTable(T, base, seq, step) ==
  \E h \in [SUBSET DOMAIN seq -> T] :
    \A s \in SUBSET DOMAIN seq :
      h[s] = IF s = {} THEN base ELSE step[<<h[s \ {Max(s)}], seq[Max(s)]>>]

\* A fold of a sequence is a function of the sets of its places.
LEMMA FoldTable ==
  ASSUME NEW S, NEW T, NEW base \in T, NEW seq \in Seq(S), NEW step \in [T \X S -> T]
  PROVE  HasTable(T, base, seq, step)
<1> DEFINE len == Len(seq)
           Fills(k, h) == \A s \in SUBSET (1 .. k) :
             h[s] = IF s = {} THEN base ELSE step[<<h[s \ {Max(s)}], seq[Max(s)]>>]
           G == {k \in 0 .. len : \E h \in [SUBSET (1 .. len) -> T] : Fills(k, h)}
<1>1. len \in Nat /\ DOMAIN seq = 1 .. len /\ \A i \in 1 .. len : seq[i] \in S
  BY LenProperties, ElementOfSeq
<1>2. 0 \in G
  <2> DEFINE h == [s \in SUBSET (1 .. len) |-> base]
  <2>1. h \in [SUBSET (1 .. len) -> T]
    OBVIOUS
  <2>2. Fills(0, h)
    <3>1. \A s \in SUBSET (1 .. 0) : s = {}
      OBVIOUS
    <3> QED BY <3>1
  <2> HIDE DEF h, Fills
  <2> QED BY <1>1, <2>1, <2>2
<1>3. ASSUME NEW k \in 1 .. len, k - 1 \in G PROVE k \in G
  <2>1. PICK h \in [SUBSET (1 .. len) -> T] : Fills(k - 1, h)
    BY <1>3
  <2> DEFINE g == [s \in SUBSET (1 .. len) |-> IF k \in s THEN step[<<h[s \ {k}], seq[k]>>] ELSE h[s]]
  <2>2. g \in [SUBSET (1 .. len) -> T]
    <3>1. ASSUME NEW s \in SUBSET (1 .. len)
          PROVE  step[<<h[s \ {k}], seq[k]>>] \in T /\ h[s] \in T
      <4>1. s \ {k} \in SUBSET (1 .. len)
        OBVIOUS
      <4>2. <<h[s \ {k}], seq[k]>> \in T \X S
        BY <1>1, <4>1
      <4> QED BY <4>2
    <3> QED BY <3>1
  <2>3. Fills(k, g)
    <3> SUFFICES ASSUME NEW s \in SUBSET (1 .. k)
                 PROVE  g[s] = IF s = {} THEN base ELSE step[<<g[s \ {Max(s)}], seq[Max(s)]>>]
      OBVIOUS
    <3>0. s \in SUBSET (1 .. len) /\ s \ {k} \in SUBSET (1 .. len)
      BY <1>1
    <3>1. CASE k \in s
      <4>1. Max(s) = k
        <5>1. k \in Nat
          BY <1>1
        <5> QED BY <3>1, <5>1, LastIsMax
      <4>2. g[s \ {k}] = h[s \ {k}]
        BY <3>0
      <4>3. g[s] = step[<<h[s \ {k}], seq[k]>>]
        BY <3>0, <3>1
      <4> QED BY <3>1, <4>1, <4>2, <4>3
    <3>2. CASE k \notin s
      <4>1. s \in SUBSET (1 .. (k - 1)) /\ g[s] = h[s]
        BY <1>1, <3>0, <3>2
      <4>2. s # {} => Max(s) \in s
        <5>1. k - 1 \in Nat
          BY <1>1
        <5> QED BY <4>1, <5>1, LastIsMax
      <4>3. s # {} => g[s \ {Max(s)}] = h[s \ {Max(s)}]
        BY <3>0, <3>2
      <4>4. h[s] = IF s = {} THEN base ELSE step[<<h[s \ {Max(s)}], seq[Max(s)]>>]
        BY <2>1, <4>1
      <4> HIDE DEF g
      <4> QED BY <4>1, <4>3, <4>4
    <3> QED BY <3>1, <3>2
  <2> HIDE DEF g, Fills
  <2> QED BY <1>1, <2>2, <2>3
<1>4. len \in G
  <2> HIDE DEF G, len
  <2>1. \A i \in 0 .. len : i \in G
    BY <1>1, <1>2, <1>3, UpTo
  <2> QED BY <1>1, <2>1
<1> HIDE DEF len
<1> QED BY <1>1, <1>4 DEF HasTable

\* The places before one of a sequence.
LEMMA Prefix ==
  ASSUME NEW len \in Nat, NEW i \in 1 .. len
  PROVE  /\ i - 1 \in 0 .. len /\ 1 .. i \in SUBSET (1 .. len) /\ 1 .. i # {}
         /\ Max(1 .. i) = i /\ (1 .. i) \ {i} = 1 .. (i - 1)
<1>1. i \in Nat /\ i - 1 \in 0 .. len /\ 1 .. i \in SUBSET (1 .. len) /\ i \in 1 .. i
  OBVIOUS
<1>2. (1 .. i) \ {i} = 1 .. (i - 1)
  OBVIOUS
<1>3. Max(1 .. i) = i
  <2> DEFINE s == 1 .. i
  <2>1. s \in SUBSET (1 .. i) /\ i \in s /\ s # {}
    BY <1>1
  <2> HIDE DEF s
  <2>2. Max(s) = i
    BY <1>1, <2>1, LastIsMax
  <2> QED BY <2>2 DEF s
<1> QED BY <1>1, <1>2, <1>3
-----------------------------------------------------------------------------
\* Instruments.

\* An answer is that of the instrument to what it has been given.
InsInv ==
  /\ instrument \in {"graph", "fences", "fuzz", "schema"}
  /\ instrument = "graph" =>
       /\ given \in Graphs
       /\ answer # Unanswered =>
            answer = [radius |-> [s \in ToSet(given.symbols) |-> calculate_blast_radius(given, s)],
                      cycles |-> detect_dependency_cycles(given)]
  /\ instrument = "fences" =>
       given \in Documents /\ (answer # Unanswered => answer = auto_fix_content(given))
  /\ instrument = "fuzz" =>
       /\ given \in Campaigns
       /\ answer # Unanswered =>
            answer = [campaign |-> explore(given.faults, given.cases),
                      replayed |-> replay(given.faults, explore(given.faults, given.cases).corpus)]
  /\ instrument = "schema" =>
       /\ given \in Evolutions
       /\ answer # Unanswered =>
            answer = [findings |-> diff_schemas(given.old, given.new),
                      adapted |-> adapt_arguments(given.new, given.call)]

LEMMA InsInvariance == InsSpec => []InsInv
<1>1. InsInit => InsInv
  BY DEF InsInit, InsInv
<1>2. InsInv /\ [InsNext]_insVars => InsInv'
  <2> SUFFICES ASSUME InsInv, [InsNext]_insVars PROVE InsInv'
    OBVIOUS
  <2>1. CASE Search
    BY <2>1 DEF InsInv, Search, Answers
  <2>2. CASE Repair
    BY <2>2 DEF InsInv, Repair, Answers
  <2>3. CASE Explore
    BY <2>3 DEF InsInv, Explore, Answers
  <2>4. CASE Adapt
    BY <2>4 DEF InsInv, Adapt, Answers
  <2>5. CASE UNCHANGED insVars
    BY <2>5 DEF InsInv, insVars
  <2> QED BY <2>1, <2>2, <2>3, <2>4, <2>5 DEF InsNext
<1> QED BY <1>1, <1>2, PTL DEF InsSpec
-----------------------------------------------------------------------------
\* Schemas.

\* The arguments of a call, behind each rule that its migrator applies.
AdaptsBy(schema, call, g) ==
  /\ g[0] = call
  /\ \A i \in DOMAIN schema.migrations :
       g[i] = IF schema.migrations[i].old \in DOMAIN g[i - 1] THEN Moved(g[i - 1], schema.migrations[i])
              ELSE g[i - 1]
  /\ adapt_arguments(schema, call) = g[Len(schema.migrations)]

\* A migrator goes through its rules, one at a time.
LEMMA Adapting ==
  ASSUME NEW schema, NEW call, schema.migrations \in Seq(ToSet(schema.migrations)),
         call = [p \in DOMAIN call |-> call[p]]
  PROVE  \E g : AdaptsBy(schema, call, g)
<1> DEFINE seq == schema.migrations
           S == ToSet(seq)
           V == {call[p] : p \in DOMAIN call}
           P == DOMAIN call \cup {r.new : r \in S}
           T == UNION {[D -> V] : D \in SUBSET P}
           Op(a, r) == IF r.old \in DOMAIN a THEN Moved(a, r) ELSE a
           Eq(h) == h = [s \in SUBSET DOMAIN seq |->
                           IF s = {} THEN call ELSE Op(h[s \ {Max(s)}], seq[Max(s)])]
           it == CHOOSE h : Eq(h)
<1>1. Len(seq) \in Nat /\ DOMAIN seq = 1 .. Len(seq) /\ \A i \in DOMAIN seq : seq[i] \in S
  BY LenProperties, ElementOfSeq
<1>2. call \in T
  <2>1. call \in [DOMAIN call -> V] /\ DOMAIN call \in SUBSET P
    OBVIOUS
  <2> QED BY <2>1
<1>3. ASSUME NEW a \in T, NEW r \in S PROVE Op(a, r) \in T
  <2>1. PICK D \in SUBSET P : a \in [D -> V]
    OBVIOUS
  <2>2. CASE r.old \in DOMAIN a
    <3> DEFINE E == (DOMAIN a \ {r.old}) \cup {r.new}
    <3>1. E \in SUBSET P
      BY <2>1
    <3>2. Moved(a, r) = [p \in E |-> IF p = r.new THEN a[r.old] ELSE Dropping(a, r.old)[p]]
      <4>1. DOMAIN Dropping(a, r.old) = DOMAIN a \ {r.old}
        BY DEF Dropping, Restrict
      <4> QED BY <4>1 DEF Moved
    <3>3. \A p \in DOMAIN a \ {r.old} : Dropping(a, r.old)[p] = a[p]
      BY DEF Dropping, Restrict
    <3>4. Moved(a, r) \in [E -> V]
      BY <2>1, <2>2, <3>2, <3>3
    <3> HIDE DEF E
    <3> QED BY <2>2, <3>1, <3>4
  <2> QED BY <2>2
<1> DEFINE step == [p \in T \X S |-> Op(p[1], p[2])]
<1>4. step \in [T \X S -> T]
  <2> HIDE DEF T, S, Op
  <2> QED BY <1>3
<1>5. \A a \in T, r \in S : step[<<a, r>>] = Op(a, r)
  <2> HIDE DEF T, S, Op
  <2> QED OBVIOUS
<1>6. \E h : Eq(h)
  <2>0. seq \in Seq(S)
    OBVIOUS
  <2> HIDE DEF T, step
  <2>1. PICK h \in [SUBSET DOMAIN seq -> T] :
          \A s \in SUBSET DOMAIN seq : h[s] = IF s = {} THEN call ELSE step[<<h[s \ {Max(s)}], seq[Max(s)]>>]
    <3> HIDE DEF S, seq
    <3>1. HasTable(T, call, seq, step)
      BY <1>2, <1>4, <2>0, FoldTable
    <3> QED BY <3>1 DEF HasTable
  <2>2. ASSUME NEW s \in SUBSET DOMAIN seq, s # {}
        PROVE  h[s] = Op(h[s \ {Max(s)}], seq[Max(s)])
    <3>1. Max(s) \in s /\ s \in SUBSET (1 .. Len(seq))
      <4> HIDE DEF seq
      <4>1. s \in SUBSET (1 .. Len(seq))
        BY <1>1
      <4> QED BY <1>1, <2>2, <4>1, LastIsMax
    <3>2. h[s \ {Max(s)}] \in T /\ seq[Max(s)] \in S
      <4> HIDE DEF seq, S
      <4> QED BY <1>1, <3>1
    <3> HIDE DEF seq, S, Op
    <3> QED BY <1>5, <2>1, <2>2, <3>2
  <2>3. Eq(h)
    <3> HIDE DEF Op, seq
    <3> QED BY <2>1, <2>2
  <2> QED BY <2>3
<1>7. Eq(it)
  <2> HIDE DEF Eq
  <2> QED BY <1>6, Zenon
<1>8. adapt_arguments(schema, call) = it[DOMAIN seq]
  BY Zenon DEF adapt_arguments, FoldLeft, MapThenFoldSet
<1> HIDE DEF it
<1> DEFINE g == [i \in 0 .. Len(seq) |-> it[1 .. i]]
<1>9. g[0] = call
  <2>1. {} \in SUBSET DOMAIN seq /\ 1 .. 0 = {} /\ 0 \in 0 .. Len(seq)
    BY <1>1
  <2>2. it[{}] = call
    <3> HIDE DEF Op, seq
    <3> QED BY <1>7, <2>1
  <2> HIDE DEF seq
  <2> QED BY <2>1, <2>2
<1>10. ASSUME NEW i \in DOMAIN seq PROVE g[i] = Op(g[i - 1], seq[i])
  <2> HIDE DEF seq, Op
  <2>1. /\ i - 1 \in 0 .. Len(seq) /\ i \in 0 .. Len(seq) /\ 1 .. i \in SUBSET DOMAIN seq /\ 1 .. i # {}
        /\ Max(1 .. i) = i /\ (1 .. i) \ {i} = 1 .. (i - 1)
    BY <1>1, Prefix, SMTT(30)
  <2>2. it[1 .. i] = Op(it[1 .. (i - 1)], seq[i])
    BY <1>7, <2>1
  <2> QED BY <2>1, <2>2
<1>11. adapt_arguments(schema, call) = g[Len(seq)]
  <2> HIDE DEF seq
  <2> QED BY <1>1, <1>8
<1> HIDE DEF g
<1> QED BY <1>9, <1>10, <1>11 DEF AdaptsBy

\* No rule takes away what is required, and what is not known any more is moved on.
LEMMA OrderlyAdapts ==
  ASSUME NEW old, NEW new, NEW call, NEW g,
         new.required \subseteq new.parameters, new.migrations \in Seq(ToSet(new.migrations)),
         AdaptsBy(new, call, g),
         diff_schemas(old, new) = {}, Orderly(old, new), Valid(old, call)
  PROVE  Valid(new, adapt_arguments(new, call))
<1> DEFINE rule == new.migrations
           n == Len(rule)
           Known(i) == \A p \in DOMAIN g[i] : p \in new.parameters \/ \E j \in DOMAIN rule : j > i /\ rule[j].old = p
           Stays(i) == Known(i) /\ new.required \subseteq DOMAIN g[i]
           G == {i \in 0 .. n : Stays(i)}
<1>1. n \in Nat /\ DOMAIN rule = 1 .. n
  BY LenProperties
<1>2. /\ \A p \in old.parameters \ new.parameters : \E j \in DOMAIN rule : rule[j].old = p
      /\ new.required \subseteq old.required \cup old.parameters
  <2> DEFINE migrated == {new.migrations[i].old : i \in DOMAIN new.migrations}
             dropped == (old.parameters \ new.parameters) \ migrated
             required == (new.required \ old.required) \ old.parameters
  <2>1. {<<"dropped", p>> : p \in dropped} \cup {<<"required", p>> : p \in required} = {}
    BY DEF diff_schemas
  <2>2. dropped = {} /\ required = {}
    <3> HIDE DEF dropped, required
    <3> QED BY <2>1
  <2>3. \A p \in old.parameters \ new.parameters : p \in migrated
    BY <2>2
  <2> QED BY <2>2, <2>3
<1>3. 0 \in G
  <2>1. g[0] = call /\ DOMAIN call \subseteq old.parameters /\ old.required \subseteq DOMAIN call
    BY DEF AdaptsBy, Valid
  <2>2. new.required \cap old.parameters \subseteq old.required
    BY DEF Orderly
  <2>3. \A j \in DOMAIN rule : j > 0
    BY <1>1
  <2>4. Known(0)
    BY <1>2, <2>1, <2>3
  <2>5. new.required \subseteq DOMAIN g[0]
    BY <1>2, <2>1, <2>2
  <2> HIDE DEF Known
  <2> QED BY <1>1, <2>4, <2>5
<1>4. ASSUME NEW i \in 1 .. n, i - 1 \in G PROVE i \in G
  <2>1. Known(i - 1) /\ new.required \subseteq DOMAIN g[i - 1]
    BY <1>4
  <2>2. i \in DOMAIN rule /\ i \in 0 .. n
    BY <1>1
  <2>3. /\ rule[i].old \notin new.parameters
        /\ \A j \in DOMAIN rule : rule[i].old = rule[j].old => i = j
        /\ rule[i].new \in new.parameters \/ \E j \in DOMAIN rule : j > i /\ rule[j].old = rule[i].new
    BY <2>2 DEF Orderly
  <2>4. \A j \in DOMAIN rule : j > i - 1 => j = i \/ j > i
    BY <1>1
  <2>5. CASE rule[i].old \in DOMAIN g[i - 1]
    <3>1. g[i] = Moved(g[i - 1], rule[i])
      BY <2>2, <2>5 DEF AdaptsBy
    <3>2. DOMAIN g[i] = (DOMAIN g[i - 1] \ {rule[i].old}) \cup {rule[i].new}
      <4>1. DOMAIN Dropping(g[i - 1], rule[i].old) = DOMAIN g[i - 1] \ {rule[i].old}
        BY DEF Dropping, Restrict
      <4> QED BY <3>1, <4>1 DEF Moved
    <3> HIDE DEF rule, n
    <3>3. Known(i)
      BY <2>1, <2>3, <2>4, <3>2
    <3>4. new.required \subseteq DOMAIN g[i]
      BY <2>1, <2>3, <3>2
    <3> QED BY <2>2, <3>3, <3>4
  <2>6. CASE rule[i].old \notin DOMAIN g[i - 1]
    <3>1. g[i] = g[i - 1]
      BY <2>2, <2>6 DEF AdaptsBy
    <3> HIDE DEF rule, n
    <3>2. Known(i)
      BY <2>1, <2>4, <2>6, <3>1
    <3> QED BY <2>1, <2>2, <3>1, <3>2
  <2> QED BY <2>5, <2>6
<1>5. n \in G
  <2> HIDE DEF G, n
  <2>1. \A i \in 0 .. n : i \in G
    BY <1>1, <1>3, <1>4, UpTo
  <2> QED BY <1>1, <2>1
<1>6. DOMAIN g[n] \subseteq new.parameters
  BY <1>1, <1>5
<1> QED BY <1>5, <1>6 DEF AdaptsBy, Valid

\* A schema in which diff_schemas finds nothing to break its callers does not break
\* them: the migrator adapts a call that was valid into one that is.
THEOREM OldCallsAreAccepted == InsSpec => []PassedSchemasAcceptOldCalls
<1>1. InsInv => PassedSchemasAcceptOldCalls
  <2> SUFFICES ASSUME InsInv, Answered("schema"), answer.findings = {},
                      Orderly(given.old, given.new), Valid(given.old, given.call)
               PROVE  Valid(given.new, answer.adapted)
    BY DEF PassedSchemasAcceptOldCalls
  <2>1. /\ given \in Evolutions
        /\ answer.findings = diff_schemas(given.old, given.new)
        /\ answer.adapted = adapt_arguments(given.new, given.call)
    BY DEF InsInv, Answered
  <2>2. /\ given.new.required \subseteq given.new.parameters
        /\ given.new.migrations \in Seq(ToSet(given.new.migrations))
        /\ given.call = [p \in DOMAIN given.call |-> given.call[p]]
    BY <2>1, EvolutionAssumption
  <2>3. PICK g : AdaptsBy(given.new, given.call, g)
    BY <2>2, Adapting
  <2> QED BY <2>1, <2>2, <2>3, OrderlyAdapts
<1> QED BY <1>1, InsInvariance, PTL

\* A loop over a sequence has a run.
HasRun(T, base, seq, step) ==
  \E h \in [1 .. (Len(seq) + 1) -> T] :
    h = [i \in 1 .. (Len(seq) + 1) |-> IF i = 1 THEN base ELSE step[<<h[i - 1], seq[i - 1]>>]]

LEMMA SequenceRuns ==
  ASSUME NEW S, NEW T, NEW base \in T, NEW seq \in Seq(S), NEW step \in [T \X S -> T]
  PROVE  HasRun(T, base, seq, step)
<1> DEFINE n == Len(seq)
<1>1. n \in Nat /\ \A i \in 1 .. n : seq[i] \in S
  BY LenProperties, ElementOfSeq
<1> DEFINE next == [p \in T \X (1 .. n) |-> step[<<p[1], seq[p[2]]>>]]
<1>2. ASSUME NEW a \in T, NEW i \in 1 .. n
      PROVE  next[<<a, i>>] = step[<<a, seq[i]>>] /\ step[<<a, seq[i]>>] \in T
  <2> HIDE DEF n
  <2> QED BY <1>1
<1>3. next \in [T \X (1 .. n) -> T]
  <2> HIDE DEF n
  <2> QED BY <1>1
<1>4. PICK g \in [0 .. n -> T] : g[0] = base /\ \A i \in 1 .. n : g[i] = next[<<g[i - 1], i>>]
  <2> HIDE DEF n, next
  <2>1. HasTurns(T, base, n, next)
    BY <1>1, <1>3, Iterates
  <2> QED BY <2>1 DEF HasTurns
<1> DEFINE h == [i \in 1 .. (n + 1) |-> g[i - 1]]
<1>5. h \in [1 .. (n + 1) -> T]
  <2> HIDE DEF n
  <2> QED BY <1>1
<1>6. ASSUME NEW i \in 1 .. (n + 1)
      PROVE  h[i] = IF i = 1 THEN base ELSE step[<<h[i - 1], seq[i - 1]>>]
  <2>1. CASE i = 1
    <3> HIDE DEF n, next
    <3> QED BY <1>1, <1>4, <2>1
  <2>2. CASE i # 1
    <3>1. i - 1 \in 1 .. n /\ (i - 1) - 1 \in 0 .. n /\ i - 1 \in 1 .. (n + 1)
      <4> HIDE DEF n
      <4> QED BY <1>1, <2>2
    <3>2. h[i] = g[i - 1] /\ h[i - 1] = g[(i - 1) - 1]
      <4> HIDE DEF n
      <4> QED BY <3>1
    <3>3. g[i - 1] = next[<<g[(i - 1) - 1], i - 1>>] /\ g[(i - 1) - 1] \in T
      <4> HIDE DEF n, next
      <4> QED BY <1>4, <3>1
    <3> HIDE DEF h, next, n
    <3> QED BY <1>2, <2>2, <3>1, <3>2, <3>3
  <2> QED BY <2>1, <2>2
<1>7. h = [i \in 1 .. (n + 1) |-> IF i = 1 THEN base ELSE step[<<h[i - 1], seq[i - 1]>>]]
  <2> DEFINE k == [i \in 1 .. (n + 1) |-> IF i = 1 THEN base ELSE step[<<h[i - 1], seq[i - 1]>>]]
  <2>1. \A i \in 1 .. (n + 1) : h[i] = k[i]
    <3> HIDE DEF h, n
    <3> QED BY <1>6
  <2>2. DOMAIN h = 1 .. (n + 1) /\ DOMAIN k = 1 .. (n + 1) /\ h = [i \in DOMAIN h |-> h[i]] /\ k = [i \in DOMAIN k |-> k[i]]
    OBVIOUS
  <2> HIDE DEF h, k, n
  <2>3. h = k
    BY <2>1, <2>2
  <2> QED BY <2>3 DEF k
<1> HIDE DEF h, n
<1> QED BY <1>5, <1>7 DEF HasRun, n

\* What a loop keeps.
LEMMA StaysIn ==
  ASSUME NEW n \in Nat, NEW T, NEW s, s = [i \in 1 .. (n + 1) |-> s[i]], s[1] \in T,
         \A i \in 1 .. n : s[i] \in T => s[i + 1] \in T
  PROVE  s \in [1 .. (n + 1) -> T]
<1> DEFINE G == {i \in 0 .. n : s[i + 1] \in T}
<1>1. 0 \in G
  OBVIOUS
<1>2. ASSUME NEW i \in 1 .. n, i - 1 \in G PROVE i \in G
  <2>1. (i - 1) + 1 = i /\ i \in 0 .. n
    OBVIOUS
  <2> QED BY <1>2, <2>1
<1>3. \A i \in 0 .. n : i \in G
  <2> HIDE DEF G
  <2> QED BY <1>1, <1>2, UpTo
<1>4. ASSUME NEW i \in 1 .. (n + 1) PROVE s[i] \in T
  <2>1. i - 1 \in 0 .. n /\ (i - 1) + 1 = i
    OBVIOUS
  <2> QED BY <1>3, <2>1
<1> QED BY <1>4
-----------------------------------------------------------------------------
\* Fences.

\* What a reader holds is a line that is a fence, or no block.
Held(doc, s) ==
  /\ DOMAIN s = 1 .. (Len(doc) + 1) /\ Len(s) = Len(doc) + 1 /\ s[1] = NoBlock
  /\ s = [i \in 1 .. (Len(doc) + 1) |-> s[i]]
  /\ \A i \in 1 .. (Len(doc) + 1) : s[i] = NoBlock \/ (Fence(s[i]) /\ IsLine(s[i]))

Processed(doc, s) ==
  Held(doc, s) /\ \A i \in 1 .. Len(doc) : s[i + 1] = _process_fence_line(s[i], doc[i])

Updated(doc, s) ==
  Held(doc, s) /\ \A i \in 1 .. Len(doc) : s[i + 1] = _update_fence_state(s[i], doc[i])

Handled(doc, s) ==
  Held(doc, s) /\ \A i \in 1 .. Len(doc) : s[i + 1] = _handle_fence_transition(s[i], doc[i])

Tracked(doc, s) ==
  Held(doc, s) /\ \A i \in 1 .. Len(doc) : s[i + 1] = _track_fence_marker(s[i], doc[i])

Mermaided(doc, s) ==
  Held(doc, s) /\ \A i \in 1 .. Len(doc) : s[i + 1] = _process_mermaid_line(s[i], doc[i])

Extracted(doc, s) ==
  Held(doc, s) /\ \A i \in 1 .. Len(doc) : s[i + 1] = extract_fenced_blocks(s[i], doc[i])

\* Each reader goes through a document line by line.
LEMMA ProcessReads ==
  ASSUME NEW doc, IsDocument(doc)
  PROVE  Processed(doc, ReadBy(_process_fence_line, doc))
<1> DEFINE S == ToSet(doc)
           T == {NoBlock} \cup {line \in S : Fence(line)}
           Eq(h) == h = [i \in 1 .. (Len(doc) + 1) |-> IF i = 1 THEN NoBlock ELSE _process_fence_line(h[i - 1], doc[i - 1])]
           s == CHOOSE h : Eq(h)
           step == [p \in T \X S |-> _process_fence_line(p[1], p[2])]
<1>1. doc \in Seq(S) /\ NoBlock \in T /\ \A line \in S : IsLine(line)
  BY DEF IsDocument, IsLine, ToSet
<1>2. \A a \in T, line \in S : _process_fence_line(a, line) \in T
  BY <1>1, FenceAssumption DEF IsLine, _process_fence_line, Fence, Closes, OpensMermaid, Ticks3
<1>3. /\ step \in [T \X S -> T]
      /\ \A a \in T, line \in S : step[<<a, line>>] = _process_fence_line(a, line)
  <2> HIDE DEF S, T
  <2> QED BY <1>2
<1>4. HasRun(T, NoBlock, doc, step)
  <2> HIDE DEF S, T, step
  <2> QED BY <1>1, <1>3, SequenceRuns
<1>5. PICK h \in [1 .. (Len(doc) + 1) -> T] :
        h = [i \in 1 .. (Len(doc) + 1) |-> IF i = 1 THEN NoBlock ELSE step[<<h[i - 1], doc[i - 1]>>]]
  BY <1>4 DEF HasRun
<1>6. Len(doc) \in Nat /\ \A i \in 1 .. Len(doc) : doc[i] \in S
  BY <1>1, LenProperties, ElementOfSeq
<1>7. Eq(h)
  <2>1. ASSUME NEW i \in 1 .. (Len(doc) + 1), i # 1
        PROVE  step[<<h[i - 1], doc[i - 1]>>] = _process_fence_line(h[i - 1], doc[i - 1])
    <3>1. i - 1 \in 1 .. Len(doc) /\ i - 1 \in 1 .. (Len(doc) + 1)
      BY <1>6, <2>1
    <3> HIDE DEF S, T, step
    <3>2. h[i - 1] \in T /\ doc[i - 1] \in S
      BY <1>6, <3>1
    <3> QED BY <1>3, <3>2
  <2> HIDE DEF S, T, step
  <2> QED BY <1>5, <2>1
<1>8. Eq(s)
  <2> HIDE DEF Eq
  <2> QED BY <1>7, Zenon
<1>9. s = ReadBy(_process_fence_line, doc)
  BY Zenon DEF ReadBy
<1> HIDE DEF s
<1>10. s \in [1 .. (Len(doc) + 1) -> T]
  <2>1. ASSUME NEW i \in 1 .. Len(doc), s[i] \in T PROVE s[i + 1] \in T
    <3>1. i + 1 \in 1 .. (Len(doc) + 1) /\ i + 1 # 1 /\ (i + 1) - 1 = i
      BY <1>6
    <3>2. s[i + 1] = _process_fence_line(s[i], doc[i])
      BY <1>8, <3>1
    <3> HIDE DEF S, T
    <3> QED BY <1>2, <1>6, <2>1, <3>2
  <2>2. s = [i \in 1 .. (Len(doc) + 1) |-> s[i]] /\ s[1] = NoBlock
    BY <1>6, <1>8
  <2> HIDE DEF S, T
  <2> QED BY <1>1, <1>6, <2>1, <2>2, StaysIn
<1>11. \A i \in 1 .. Len(doc) : s[i + 1] = _process_fence_line(s[i], doc[i])
  <2>1. ASSUME NEW i \in 1 .. Len(doc)
        PROVE  i + 1 \in 1 .. (Len(doc) + 1) /\ i + 1 # 1 /\ (i + 1) - 1 = i
    BY <1>6
  <2> QED BY <1>8, <2>1
<1>12. Held(doc, s)
  <2>1. s[1] = NoBlock /\ Len(s) = Len(doc) + 1
    BY <1>6, <1>8, <1>10
  <2>2. \A a \in T : a = NoBlock \/ (Fence(a) /\ IsLine(a))
    BY <1>1
  <2> HIDE DEF T
  <2> QED BY <1>10, <2>1, <2>2 DEF Held
<1> QED BY <1>9, <1>11, <1>12 DEF Processed

LEMMA UpdateReads ==
  ASSUME NEW doc, IsDocument(doc)
  PROVE  Updated(doc, ReadBy(_update_fence_state, doc))
<1> DEFINE S == ToSet(doc)
           T == {NoBlock} \cup {line \in S : Fence(line)}
           Eq(h) == h = [i \in 1 .. (Len(doc) + 1) |-> IF i = 1 THEN NoBlock ELSE _update_fence_state(h[i - 1], doc[i - 1])]
           s == CHOOSE h : Eq(h)
           step == [p \in T \X S |-> _update_fence_state(p[1], p[2])]
<1>1. doc \in Seq(S) /\ NoBlock \in T /\ \A line \in S : IsLine(line)
  BY DEF IsDocument, IsLine, ToSet
<1>2. \A a \in T, line \in S : _update_fence_state(a, line) \in T
  BY <1>1, FenceAssumption DEF IsLine, _update_fence_state, Fence, Closes, OpensMermaid, Ticks3
<1>3. /\ step \in [T \X S -> T]
      /\ \A a \in T, line \in S : step[<<a, line>>] = _update_fence_state(a, line)
  <2> HIDE DEF S, T
  <2> QED BY <1>2
<1>4. HasRun(T, NoBlock, doc, step)
  <2> HIDE DEF S, T, step
  <2> QED BY <1>1, <1>3, SequenceRuns
<1>5. PICK h \in [1 .. (Len(doc) + 1) -> T] :
        h = [i \in 1 .. (Len(doc) + 1) |-> IF i = 1 THEN NoBlock ELSE step[<<h[i - 1], doc[i - 1]>>]]
  BY <1>4 DEF HasRun
<1>6. Len(doc) \in Nat /\ \A i \in 1 .. Len(doc) : doc[i] \in S
  BY <1>1, LenProperties, ElementOfSeq
<1>7. Eq(h)
  <2>1. ASSUME NEW i \in 1 .. (Len(doc) + 1), i # 1
        PROVE  step[<<h[i - 1], doc[i - 1]>>] = _update_fence_state(h[i - 1], doc[i - 1])
    <3>1. i - 1 \in 1 .. Len(doc) /\ i - 1 \in 1 .. (Len(doc) + 1)
      BY <1>6, <2>1
    <3> HIDE DEF S, T, step
    <3>2. h[i - 1] \in T /\ doc[i - 1] \in S
      BY <1>6, <3>1
    <3> QED BY <1>3, <3>2
  <2> HIDE DEF S, T, step
  <2> QED BY <1>5, <2>1
<1>8. Eq(s)
  <2> HIDE DEF Eq
  <2> QED BY <1>7, Zenon
<1>9. s = ReadBy(_update_fence_state, doc)
  BY Zenon DEF ReadBy
<1> HIDE DEF s
<1>10. s \in [1 .. (Len(doc) + 1) -> T]
  <2>1. ASSUME NEW i \in 1 .. Len(doc), s[i] \in T PROVE s[i + 1] \in T
    <3>1. i + 1 \in 1 .. (Len(doc) + 1) /\ i + 1 # 1 /\ (i + 1) - 1 = i
      BY <1>6
    <3>2. s[i + 1] = _update_fence_state(s[i], doc[i])
      BY <1>8, <3>1
    <3> HIDE DEF S, T
    <3> QED BY <1>2, <1>6, <2>1, <3>2
  <2>2. s = [i \in 1 .. (Len(doc) + 1) |-> s[i]] /\ s[1] = NoBlock
    BY <1>6, <1>8
  <2> HIDE DEF S, T
  <2> QED BY <1>1, <1>6, <2>1, <2>2, StaysIn
<1>11. \A i \in 1 .. Len(doc) : s[i + 1] = _update_fence_state(s[i], doc[i])
  <2>1. ASSUME NEW i \in 1 .. Len(doc)
        PROVE  i + 1 \in 1 .. (Len(doc) + 1) /\ i + 1 # 1 /\ (i + 1) - 1 = i
    BY <1>6
  <2> QED BY <1>8, <2>1
<1>12. Held(doc, s)
  <2>1. s[1] = NoBlock /\ Len(s) = Len(doc) + 1
    BY <1>6, <1>8, <1>10
  <2>2. \A a \in T : a = NoBlock \/ (Fence(a) /\ IsLine(a))
    BY <1>1
  <2> HIDE DEF T
  <2> QED BY <1>10, <2>1, <2>2 DEF Held
<1> QED BY <1>9, <1>11, <1>12 DEF Updated

LEMMA HandleReads ==
  ASSUME NEW doc, IsDocument(doc)
  PROVE  Handled(doc, ReadBy(_handle_fence_transition, doc))
<1> DEFINE S == ToSet(doc)
           T == {NoBlock} \cup {line \in S : Fence(line)}
           Eq(h) == h = [i \in 1 .. (Len(doc) + 1) |-> IF i = 1 THEN NoBlock ELSE _handle_fence_transition(h[i - 1], doc[i - 1])]
           s == CHOOSE h : Eq(h)
           step == [p \in T \X S |-> _handle_fence_transition(p[1], p[2])]
<1>1. doc \in Seq(S) /\ NoBlock \in T /\ \A line \in S : IsLine(line)
  BY DEF IsDocument, IsLine, ToSet
<1>2. \A a \in T, line \in S : _handle_fence_transition(a, line) \in T
  BY <1>1, FenceAssumption DEF IsLine, _handle_fence_transition, Fence, Closes, OpensMermaid, Ticks3
<1>3. /\ step \in [T \X S -> T]
      /\ \A a \in T, line \in S : step[<<a, line>>] = _handle_fence_transition(a, line)
  <2> HIDE DEF S, T
  <2> QED BY <1>2
<1>4. HasRun(T, NoBlock, doc, step)
  <2> HIDE DEF S, T, step
  <2> QED BY <1>1, <1>3, SequenceRuns
<1>5. PICK h \in [1 .. (Len(doc) + 1) -> T] :
        h = [i \in 1 .. (Len(doc) + 1) |-> IF i = 1 THEN NoBlock ELSE step[<<h[i - 1], doc[i - 1]>>]]
  BY <1>4 DEF HasRun
<1>6. Len(doc) \in Nat /\ \A i \in 1 .. Len(doc) : doc[i] \in S
  BY <1>1, LenProperties, ElementOfSeq
<1>7. Eq(h)
  <2>1. ASSUME NEW i \in 1 .. (Len(doc) + 1), i # 1
        PROVE  step[<<h[i - 1], doc[i - 1]>>] = _handle_fence_transition(h[i - 1], doc[i - 1])
    <3>1. i - 1 \in 1 .. Len(doc) /\ i - 1 \in 1 .. (Len(doc) + 1)
      BY <1>6, <2>1
    <3> HIDE DEF S, T, step
    <3>2. h[i - 1] \in T /\ doc[i - 1] \in S
      BY <1>6, <3>1
    <3> QED BY <1>3, <3>2
  <2> HIDE DEF S, T, step
  <2> QED BY <1>5, <2>1
<1>8. Eq(s)
  <2> HIDE DEF Eq
  <2> QED BY <1>7, Zenon
<1>9. s = ReadBy(_handle_fence_transition, doc)
  BY Zenon DEF ReadBy
<1> HIDE DEF s
<1>10. s \in [1 .. (Len(doc) + 1) -> T]
  <2>1. ASSUME NEW i \in 1 .. Len(doc), s[i] \in T PROVE s[i + 1] \in T
    <3>1. i + 1 \in 1 .. (Len(doc) + 1) /\ i + 1 # 1 /\ (i + 1) - 1 = i
      BY <1>6
    <3>2. s[i + 1] = _handle_fence_transition(s[i], doc[i])
      BY <1>8, <3>1
    <3> HIDE DEF S, T
    <3> QED BY <1>2, <1>6, <2>1, <3>2
  <2>2. s = [i \in 1 .. (Len(doc) + 1) |-> s[i]] /\ s[1] = NoBlock
    BY <1>6, <1>8
  <2> HIDE DEF S, T
  <2> QED BY <1>1, <1>6, <2>1, <2>2, StaysIn
<1>11. \A i \in 1 .. Len(doc) : s[i + 1] = _handle_fence_transition(s[i], doc[i])
  <2>1. ASSUME NEW i \in 1 .. Len(doc)
        PROVE  i + 1 \in 1 .. (Len(doc) + 1) /\ i + 1 # 1 /\ (i + 1) - 1 = i
    BY <1>6
  <2> QED BY <1>8, <2>1
<1>12. Held(doc, s)
  <2>1. s[1] = NoBlock /\ Len(s) = Len(doc) + 1
    BY <1>6, <1>8, <1>10
  <2>2. \A a \in T : a = NoBlock \/ (Fence(a) /\ IsLine(a))
    BY <1>1
  <2> HIDE DEF T
  <2> QED BY <1>10, <2>1, <2>2 DEF Held
<1> QED BY <1>9, <1>11, <1>12 DEF Handled

LEMMA TrackReads ==
  ASSUME NEW doc, IsDocument(doc)
  PROVE  Tracked(doc, ReadBy(_track_fence_marker, doc))
<1> DEFINE S == ToSet(doc)
           T == {NoBlock} \cup {line \in S : Fence(line)}
           Eq(h) == h = [i \in 1 .. (Len(doc) + 1) |-> IF i = 1 THEN NoBlock ELSE _track_fence_marker(h[i - 1], doc[i - 1])]
           s == CHOOSE h : Eq(h)
           step == [p \in T \X S |-> _track_fence_marker(p[1], p[2])]
<1>1. doc \in Seq(S) /\ NoBlock \in T /\ \A line \in S : IsLine(line)
  BY DEF IsDocument, IsLine, ToSet
<1>2. \A a \in T, line \in S : _track_fence_marker(a, line) \in T
  BY <1>1, FenceAssumption DEF IsLine, _track_fence_marker, Fence, Closes, OpensMermaid, Ticks3
<1>3. /\ step \in [T \X S -> T]
      /\ \A a \in T, line \in S : step[<<a, line>>] = _track_fence_marker(a, line)
  <2> HIDE DEF S, T
  <2> QED BY <1>2
<1>4. HasRun(T, NoBlock, doc, step)
  <2> HIDE DEF S, T, step
  <2> QED BY <1>1, <1>3, SequenceRuns
<1>5. PICK h \in [1 .. (Len(doc) + 1) -> T] :
        h = [i \in 1 .. (Len(doc) + 1) |-> IF i = 1 THEN NoBlock ELSE step[<<h[i - 1], doc[i - 1]>>]]
  BY <1>4 DEF HasRun
<1>6. Len(doc) \in Nat /\ \A i \in 1 .. Len(doc) : doc[i] \in S
  BY <1>1, LenProperties, ElementOfSeq
<1>7. Eq(h)
  <2>1. ASSUME NEW i \in 1 .. (Len(doc) + 1), i # 1
        PROVE  step[<<h[i - 1], doc[i - 1]>>] = _track_fence_marker(h[i - 1], doc[i - 1])
    <3>1. i - 1 \in 1 .. Len(doc) /\ i - 1 \in 1 .. (Len(doc) + 1)
      BY <1>6, <2>1
    <3> HIDE DEF S, T, step
    <3>2. h[i - 1] \in T /\ doc[i - 1] \in S
      BY <1>6, <3>1
    <3> QED BY <1>3, <3>2
  <2> HIDE DEF S, T, step
  <2> QED BY <1>5, <2>1
<1>8. Eq(s)
  <2> HIDE DEF Eq
  <2> QED BY <1>7, Zenon
<1>9. s = ReadBy(_track_fence_marker, doc)
  BY Zenon DEF ReadBy
<1> HIDE DEF s
<1>10. s \in [1 .. (Len(doc) + 1) -> T]
  <2>1. ASSUME NEW i \in 1 .. Len(doc), s[i] \in T PROVE s[i + 1] \in T
    <3>1. i + 1 \in 1 .. (Len(doc) + 1) /\ i + 1 # 1 /\ (i + 1) - 1 = i
      BY <1>6
    <3>2. s[i + 1] = _track_fence_marker(s[i], doc[i])
      BY <1>8, <3>1
    <3> HIDE DEF S, T
    <3> QED BY <1>2, <1>6, <2>1, <3>2
  <2>2. s = [i \in 1 .. (Len(doc) + 1) |-> s[i]] /\ s[1] = NoBlock
    BY <1>6, <1>8
  <2> HIDE DEF S, T
  <2> QED BY <1>1, <1>6, <2>1, <2>2, StaysIn
<1>11. \A i \in 1 .. Len(doc) : s[i + 1] = _track_fence_marker(s[i], doc[i])
  <2>1. ASSUME NEW i \in 1 .. Len(doc)
        PROVE  i + 1 \in 1 .. (Len(doc) + 1) /\ i + 1 # 1 /\ (i + 1) - 1 = i
    BY <1>6
  <2> QED BY <1>8, <2>1
<1>12. Held(doc, s)
  <2>1. s[1] = NoBlock /\ Len(s) = Len(doc) + 1
    BY <1>6, <1>8, <1>10
  <2>2. \A a \in T : a = NoBlock \/ (Fence(a) /\ IsLine(a))
    BY <1>1
  <2> HIDE DEF T
  <2> QED BY <1>10, <2>1, <2>2 DEF Held
<1> QED BY <1>9, <1>11, <1>12 DEF Tracked

LEMMA MermaidReads ==
  ASSUME NEW doc, IsDocument(doc)
  PROVE  Mermaided(doc, ReadBy(_process_mermaid_line, doc))
<1> DEFINE S == ToSet(doc)
           T == {NoBlock} \cup {line \in S : Fence(line)}
           Eq(h) == h = [i \in 1 .. (Len(doc) + 1) |-> IF i = 1 THEN NoBlock ELSE _process_mermaid_line(h[i - 1], doc[i - 1])]
           s == CHOOSE h : Eq(h)
           step == [p \in T \X S |-> _process_mermaid_line(p[1], p[2])]
<1>1. doc \in Seq(S) /\ NoBlock \in T /\ \A line \in S : IsLine(line)
  BY DEF IsDocument, IsLine, ToSet
<1>2. \A a \in T, line \in S : _process_mermaid_line(a, line) \in T
  BY <1>1, FenceAssumption DEF IsLine, _process_mermaid_line, Fence, Closes, OpensMermaid, Ticks3
<1>3. /\ step \in [T \X S -> T]
      /\ \A a \in T, line \in S : step[<<a, line>>] = _process_mermaid_line(a, line)
  <2> HIDE DEF S, T
  <2> QED BY <1>2
<1>4. HasRun(T, NoBlock, doc, step)
  <2> HIDE DEF S, T, step
  <2> QED BY <1>1, <1>3, SequenceRuns
<1>5. PICK h \in [1 .. (Len(doc) + 1) -> T] :
        h = [i \in 1 .. (Len(doc) + 1) |-> IF i = 1 THEN NoBlock ELSE step[<<h[i - 1], doc[i - 1]>>]]
  BY <1>4 DEF HasRun
<1>6. Len(doc) \in Nat /\ \A i \in 1 .. Len(doc) : doc[i] \in S
  BY <1>1, LenProperties, ElementOfSeq
<1>7. Eq(h)
  <2>1. ASSUME NEW i \in 1 .. (Len(doc) + 1), i # 1
        PROVE  step[<<h[i - 1], doc[i - 1]>>] = _process_mermaid_line(h[i - 1], doc[i - 1])
    <3>1. i - 1 \in 1 .. Len(doc) /\ i - 1 \in 1 .. (Len(doc) + 1)
      BY <1>6, <2>1
    <3> HIDE DEF S, T, step
    <3>2. h[i - 1] \in T /\ doc[i - 1] \in S
      BY <1>6, <3>1
    <3> QED BY <1>3, <3>2
  <2> HIDE DEF S, T, step
  <2> QED BY <1>5, <2>1
<1>8. Eq(s)
  <2> HIDE DEF Eq
  <2> QED BY <1>7, Zenon
<1>9. s = ReadBy(_process_mermaid_line, doc)
  BY Zenon DEF ReadBy
<1> HIDE DEF s
<1>10. s \in [1 .. (Len(doc) + 1) -> T]
  <2>1. ASSUME NEW i \in 1 .. Len(doc), s[i] \in T PROVE s[i + 1] \in T
    <3>1. i + 1 \in 1 .. (Len(doc) + 1) /\ i + 1 # 1 /\ (i + 1) - 1 = i
      BY <1>6
    <3>2. s[i + 1] = _process_mermaid_line(s[i], doc[i])
      BY <1>8, <3>1
    <3> HIDE DEF S, T
    <3> QED BY <1>2, <1>6, <2>1, <3>2
  <2>2. s = [i \in 1 .. (Len(doc) + 1) |-> s[i]] /\ s[1] = NoBlock
    BY <1>6, <1>8
  <2> HIDE DEF S, T
  <2> QED BY <1>1, <1>6, <2>1, <2>2, StaysIn
<1>11. \A i \in 1 .. Len(doc) : s[i + 1] = _process_mermaid_line(s[i], doc[i])
  <2>1. ASSUME NEW i \in 1 .. Len(doc)
        PROVE  i + 1 \in 1 .. (Len(doc) + 1) /\ i + 1 # 1 /\ (i + 1) - 1 = i
    BY <1>6
  <2> QED BY <1>8, <2>1
<1>12. Held(doc, s)
  <2>1. s[1] = NoBlock /\ Len(s) = Len(doc) + 1
    BY <1>6, <1>8, <1>10
  <2>2. \A a \in T : a = NoBlock \/ (Fence(a) /\ IsLine(a))
    BY <1>1
  <2> HIDE DEF T
  <2> QED BY <1>10, <2>1, <2>2 DEF Held
<1> QED BY <1>9, <1>11, <1>12 DEF Mermaided

LEMMA ExtractReads ==
  ASSUME NEW doc, IsDocument(doc)
  PROVE  Extracted(doc, ReadBy(extract_fenced_blocks, doc))
<1> DEFINE S == ToSet(doc)
           T == {NoBlock} \cup {line \in S : Fence(line)}
           Eq(h) == h = [i \in 1 .. (Len(doc) + 1) |-> IF i = 1 THEN NoBlock ELSE extract_fenced_blocks(h[i - 1], doc[i - 1])]
           s == CHOOSE h : Eq(h)
           step == [p \in T \X S |-> extract_fenced_blocks(p[1], p[2])]
<1>1. doc \in Seq(S) /\ NoBlock \in T /\ \A line \in S : IsLine(line)
  BY DEF IsDocument, IsLine, ToSet
<1>2. \A a \in T, line \in S : extract_fenced_blocks(a, line) \in T
  BY <1>1, FenceAssumption DEF IsLine, extract_fenced_blocks, Fence, Closes, OpensMermaid, Ticks3
<1>3. /\ step \in [T \X S -> T]
      /\ \A a \in T, line \in S : step[<<a, line>>] = extract_fenced_blocks(a, line)
  <2> HIDE DEF S, T
  <2> QED BY <1>2
<1>4. HasRun(T, NoBlock, doc, step)
  <2> HIDE DEF S, T, step
  <2> QED BY <1>1, <1>3, SequenceRuns
<1>5. PICK h \in [1 .. (Len(doc) + 1) -> T] :
        h = [i \in 1 .. (Len(doc) + 1) |-> IF i = 1 THEN NoBlock ELSE step[<<h[i - 1], doc[i - 1]>>]]
  BY <1>4 DEF HasRun
<1>6. Len(doc) \in Nat /\ \A i \in 1 .. Len(doc) : doc[i] \in S
  BY <1>1, LenProperties, ElementOfSeq
<1>7. Eq(h)
  <2>1. ASSUME NEW i \in 1 .. (Len(doc) + 1), i # 1
        PROVE  step[<<h[i - 1], doc[i - 1]>>] = extract_fenced_blocks(h[i - 1], doc[i - 1])
    <3>1. i - 1 \in 1 .. Len(doc) /\ i - 1 \in 1 .. (Len(doc) + 1)
      BY <1>6, <2>1
    <3> HIDE DEF S, T, step
    <3>2. h[i - 1] \in T /\ doc[i - 1] \in S
      BY <1>6, <3>1
    <3> QED BY <1>3, <3>2
  <2> HIDE DEF S, T, step
  <2> QED BY <1>5, <2>1
<1>8. Eq(s)
  <2> HIDE DEF Eq
  <2> QED BY <1>7, Zenon
<1>9. s = ReadBy(extract_fenced_blocks, doc)
  BY Zenon DEF ReadBy
<1> HIDE DEF s
<1>10. s \in [1 .. (Len(doc) + 1) -> T]
  <2>1. ASSUME NEW i \in 1 .. Len(doc), s[i] \in T PROVE s[i + 1] \in T
    <3>1. i + 1 \in 1 .. (Len(doc) + 1) /\ i + 1 # 1 /\ (i + 1) - 1 = i
      BY <1>6
    <3>2. s[i + 1] = extract_fenced_blocks(s[i], doc[i])
      BY <1>8, <3>1
    <3> HIDE DEF S, T
    <3> QED BY <1>2, <1>6, <2>1, <3>2
  <2>2. s = [i \in 1 .. (Len(doc) + 1) |-> s[i]] /\ s[1] = NoBlock
    BY <1>6, <1>8
  <2> HIDE DEF S, T
  <2> QED BY <1>1, <1>6, <2>1, <2>2, StaysIn
<1>11. \A i \in 1 .. Len(doc) : s[i + 1] = extract_fenced_blocks(s[i], doc[i])
  <2>1. ASSUME NEW i \in 1 .. Len(doc)
        PROVE  i + 1 \in 1 .. (Len(doc) + 1) /\ i + 1 # 1 /\ (i + 1) - 1 = i
    BY <1>6
  <2> QED BY <1>8, <2>1
<1>12. Held(doc, s)
  <2>1. s[1] = NoBlock /\ Len(s) = Len(doc) + 1
    BY <1>6, <1>8, <1>10
  <2>2. \A a \in T : a = NoBlock \/ (Fence(a) /\ IsLine(a))
    BY <1>1
  <2> HIDE DEF T
  <2> QED BY <1>10, <2>1, <2>2 DEF Held
<1> QED BY <1>9, <1>11, <1>12 DEF Extracted
\* Two runs that begin alike and go on alike are alike.
AgreeOn(n, s, t) == \A i \in 1 .. (n + 1) : s[i] = t[i]

LEMMA SameRun ==
  ASSUME NEW n \in Nat, NEW s, NEW t, s[1] = t[1],
         \A i \in 1 .. n : s[i] = t[i] => s[i + 1] = t[i + 1]
  PROVE  AgreeOn(n, s, t)
<1> DEFINE G == {i \in 0 .. n : s[i + 1] = t[i + 1]}
<1>1. 0 \in G
  OBVIOUS
<1>2. ASSUME NEW i \in 1 .. n, i - 1 \in G PROVE i \in G
  <2>1. (i - 1) + 1 = i /\ i \in 0 .. n
    OBVIOUS
  <2> QED BY <1>2, <2>1
<1>3. \A i \in 0 .. n : i \in G
  <2> HIDE DEF G
  <2> QED BY <1>1, <1>2, UpTo
<1>4. ASSUME NEW i \in 1 .. (n + 1) PROVE s[i] = t[i]
  <2>1. i - 1 \in 0 .. n /\ (i - 1) + 1 = i
    OBVIOUS
  <2> QED BY <1>3, <2>1
<1> QED BY <1>4 DEF AgreeOn

\* Documents that differ in lines of text only, as far as one of them goes.
Alike(d, e, n) ==
  /\ n \in Nat /\ n <= Len(d) /\ n <= Len(e)
  /\ \A i \in 1 .. n : d[i] = e[i] \/ (~Fence(d[i]) /\ ~Fence(e[i]))

\* Readers do not tell them apart.
LEMMA AlikeHeld ==
  ASSUME NEW d, NEW e, NEW n, IsDocument(d), IsDocument(e), Alike(d, e, n), NEW i \in 1 .. (n + 1)
  PROVE  /\ ReadBy(_process_fence_line, d)[i] = ReadBy(_process_fence_line, e)[i]
         /\ ReadBy(_update_fence_state, d)[i] = ReadBy(_update_fence_state, e)[i]
         /\ ReadBy(_track_fence_marker, d)[i] = ReadBy(_track_fence_marker, e)[i]
         /\ ReadBy(_process_mermaid_line, d)[i] = ReadBy(_process_mermaid_line, e)[i]
<1>1. /\ n \in Nat /\ Len(d) \in Nat /\ Len(e) \in Nat
      /\ \A j \in 1 .. n : j \in 1 .. Len(d) /\ j \in 1 .. Len(e)
  BY LenProperties DEF Alike, IsDocument
<1>2. ASSUME NEW s, NEW t, Processed(d, s), Processed(e, t) PROVE s[i] = t[i]
  <2>1. s[1] = t[1]
    BY <1>2 DEF Processed, Held
  <2>2. ASSUME NEW j \in 1 .. n, s[j] = t[j] PROVE s[j + 1] = t[j + 1]
    <3>1. s[j + 1] = _process_fence_line(s[j], d[j]) /\ t[j + 1] = _process_fence_line(t[j], e[j])
      BY <1>1, <1>2 DEF Processed
    <3> QED BY <2>2, <3>1 DEF Alike, _process_fence_line
  <2>3. \A j \in 1 .. n : s[j] = t[j] => s[j + 1] = t[j + 1]
    BY <2>2
  <2>4. AgreeOn(n, s, t)
    BY <1>1, <2>1, <2>3, SameRun
  <2> QED BY <1>1, <2>4 DEF AgreeOn
<1>3. ASSUME NEW s, NEW t, Updated(d, s), Updated(e, t) PROVE s[i] = t[i]
  <2>1. s[1] = t[1]
    BY <1>3 DEF Updated, Held
  <2>2. ASSUME NEW j \in 1 .. n, s[j] = t[j] PROVE s[j + 1] = t[j + 1]
    <3>1. s[j + 1] = _update_fence_state(s[j], d[j]) /\ t[j + 1] = _update_fence_state(t[j], e[j])
      BY <1>1, <1>3 DEF Updated
    <3> QED BY <2>2, <3>1 DEF Alike, _update_fence_state
  <2>3. \A j \in 1 .. n : s[j] = t[j] => s[j + 1] = t[j + 1]
    BY <2>2
  <2>4. AgreeOn(n, s, t)
    BY <1>1, <2>1, <2>3, SameRun
  <2> QED BY <1>1, <2>4 DEF AgreeOn
<1>4. ASSUME NEW s, NEW t, Tracked(d, s), Tracked(e, t) PROVE s[i] = t[i]
  <2>1. s[1] = t[1]
    BY <1>4 DEF Tracked, Held
  <2>2. ASSUME NEW j \in 1 .. n, s[j] = t[j] PROVE s[j + 1] = t[j + 1]
    <3>1. s[j + 1] = _track_fence_marker(s[j], d[j]) /\ t[j + 1] = _track_fence_marker(t[j], e[j])
      BY <1>1, <1>4 DEF Tracked
    <3> QED BY <2>2, <3>1 DEF Alike, _track_fence_marker
  <2>3. \A j \in 1 .. n : s[j] = t[j] => s[j + 1] = t[j + 1]
    BY <2>2
  <2>4. AgreeOn(n, s, t)
    BY <1>1, <2>1, <2>3, SameRun
  <2> QED BY <1>1, <2>4 DEF AgreeOn
<1>5. ASSUME NEW s, NEW t, Mermaided(d, s), Mermaided(e, t) PROVE s[i] = t[i]
  <2>1. s[1] = t[1]
    BY <1>5 DEF Mermaided, Held
  <2>2. ASSUME NEW j \in 1 .. n, s[j] = t[j] PROVE s[j + 1] = t[j + 1]
    <3>1. s[j + 1] = _process_mermaid_line(s[j], d[j]) /\ t[j + 1] = _process_mermaid_line(t[j], e[j])
      BY <1>1, <1>5 DEF Mermaided
    <3> QED BY <2>2, <3>1, FenceAssumption DEF Alike, _process_mermaid_line, OpensMermaid, Ticks3, Fence
  <2>3. \A j \in 1 .. n : s[j] = t[j] => s[j + 1] = t[j + 1]
    BY <2>2
  <2>4. AgreeOn(n, s, t)
    BY <1>1, <2>1, <2>3, SameRun
  <2> QED BY <1>1, <2>4 DEF AgreeOn
<1> QED BY <1>2, <1>3, <1>4, <1>5, ProcessReads, UpdateReads, TrackReads, MermaidReads

\* Where no fence stands in a block, the readers hold the same; those of diagrams,
\* the block if it is one.
LEMMA PlainReads ==
  ASSUME NEW doc, IsDocument(doc), PlainFences(doc), \A j \in DOMAIN doc : doc[j] # NoBlock,
         NEW i \in 1 .. (Len(doc) + 1)
  PROVE  LET held == ReadBy(_process_fence_line, doc)[i]
             diagram == IF held # NoBlock /\ OpensMermaid(held) THEN held ELSE NoBlock
         IN /\ ReadBy(_update_fence_state, doc)[i] = held
            /\ ReadBy(_handle_fence_transition, doc)[i] = held
            /\ ReadBy(_track_fence_marker, doc)[i] = held
            /\ ReadBy(_process_mermaid_line, doc)[i] = diagram
            /\ ReadBy(extract_fenced_blocks, doc)[i] = diagram
<1> DEFINE n == Len(doc)
           Diagram(held) == IF held # NoBlock /\ OpensMermaid(held) THEN held ELSE NoBlock
<1>1. n \in Nat /\ DOMAIN doc = 1 .. n /\ \A j \in 1 .. n : IsLine(doc[j]) /\ doc[j] # NoBlock
  BY LenProperties DEF IsDocument
<1>2. PICK c : c = ReadBy(_process_fence_line, doc)
  OBVIOUS
<1>3. Processed(doc, c)
  BY <1>2, ProcessReads
<1>4. \A j \in 1 .. n : Fence(doc[j]) => ~doc[j].deep /\ (c[j] # NoBlock => Closes(doc[j], c[j]))
  BY <1>1, <1>2 DEF PlainFences
<1>5. ASSUME NEW j \in 1 .. n
      PROVE  c[j + 1] = _process_fence_line(c[j], doc[j]) /\ (c[j] = NoBlock \/ Fence(c[j]))
  <2>1. j \in 1 .. (n + 1)
    BY <1>1
  <2>2. \A k \in 1 .. (n + 1) : c[k] = NoBlock \/ Fence(c[k])
    BY <1>3 DEF Processed, Held
  <2>3. \A k \in 1 .. n : c[k + 1] = _process_fence_line(c[k], doc[k])
    BY <1>3 DEF Processed
  <2> QED BY <2>1, <2>2, <2>3
<1>6. ASSUME NEW s, Updated(doc, s) PROVE s[i] = c[i]
  <2>1. s[1] = c[1]
    BY <1>3, <1>6 DEF Processed, Updated, Held
  <2>2. ASSUME NEW j \in 1 .. n, s[j] = c[j] PROVE s[j + 1] = c[j + 1]
    BY <1>4, <1>5, <1>6, <2>2 DEF Updated, _process_fence_line, _update_fence_state
  <2>3. \A j \in 1 .. n : s[j] = c[j] => s[j + 1] = c[j + 1]
    BY <2>2
  <2>4. AgreeOn(n, s, c)
    BY <1>1, <2>1, <2>3, SameRun
  <2> QED BY <1>1, <2>4 DEF AgreeOn
<1>7. ASSUME NEW s, Handled(doc, s) PROVE s[i] = c[i]
  <2>1. s[1] = c[1]
    BY <1>3, <1>7 DEF Processed, Handled, Held
  <2>2. ASSUME NEW j \in 1 .. n, s[j] = c[j] PROVE s[j + 1] = c[j + 1]
    BY <1>4, <1>5, <1>7, <2>2 DEF Handled, _process_fence_line, _handle_fence_transition
  <2>3. \A j \in 1 .. n : s[j] = c[j] => s[j + 1] = c[j + 1]
    BY <2>2
  <2>4. AgreeOn(n, s, c)
    BY <1>1, <2>1, <2>3, SameRun
  <2> QED BY <1>1, <2>4 DEF AgreeOn
<1>8. ASSUME NEW s, Tracked(doc, s) PROVE s[i] = c[i]
  <2>1. s[1] = c[1]
    BY <1>3, <1>8 DEF Processed, Tracked, Held
  <2>2. ASSUME NEW j \in 1 .. n, s[j] = c[j] PROVE s[j + 1] = c[j + 1]
    BY <1>4, <1>5, <1>8, <2>2 DEF Tracked, _process_fence_line, _track_fence_marker, Closes
  <2>3. \A j \in 1 .. n : s[j] = c[j] => s[j + 1] = c[j + 1]
    BY <2>2
  <2>4. AgreeOn(n, s, c)
    BY <1>1, <2>1, <2>3, SameRun
  <2> QED BY <1>1, <2>4 DEF AgreeOn
<1> DEFINE dia == [j \in 1 .. (n + 1) |-> Diagram(c[j])]
<1>9. dia[1] = NoBlock /\ dia[i] = Diagram(c[i])
  BY <1>1, <1>3 DEF Processed, Held
<1>10. ASSUME NEW j \in 1 .. n
       PROVE  /\ dia[j + 1] = _process_mermaid_line(dia[j], doc[j])
              /\ dia[j + 1] = extract_fenced_blocks(dia[j], doc[j])
  <2>1. dia[j] = Diagram(c[j]) /\ dia[j + 1] = Diagram(c[j + 1]) /\ doc[j] # NoBlock
    BY <1>1
  <2>2. CASE ~Fence(doc[j])
    <3>1. c[j + 1] = c[j] /\ ~Ticks3(doc[j])
      BY <1>5, <2>2, FenceAssumption DEF _process_fence_line, Ticks3, Fence
    <3> HIDE DEF dia
    <3> QED BY <2>1, <3>1 DEF _process_mermaid_line, extract_fenced_blocks, OpensMermaid
  <2>3. CASE Fence(doc[j]) /\ c[j] = NoBlock
    <3>1. c[j + 1] = doc[j]
      BY <1>5, <2>3 DEF _process_fence_line
    <3> HIDE DEF dia
    <3> QED BY <2>1, <2>3, <3>1 DEF _process_mermaid_line, extract_fenced_blocks
  <2>4. CASE Fence(doc[j]) /\ c[j] # NoBlock
    <3>1. c[j + 1] = NoBlock /\ doc[j].run = c[j].run /\ doc[j].info = NoInfo
      BY <1>4, <1>5, <2>4 DEF _process_fence_line, Closes
    <3>2. ~OpensMermaid(doc[j]) /\ (Ticks3(doc[j]) <=> Ticks3(c[j]))
      BY <3>1, FenceAssumption DEF OpensMermaid, Ticks3
    <3>3. Diagram(c[j]) # NoBlock => Ticks3(c[j])
      BY DEF OpensMermaid
    <3> HIDE DEF dia
    <3> QED BY <2>1, <3>1, <3>2, <3>3 DEF _process_mermaid_line, extract_fenced_blocks
  <2> QED BY <2>2, <2>3, <2>4
<1> HIDE DEF dia
<1>11. ASSUME NEW s, Mermaided(doc, s) PROVE s[i] = dia[i]
  <2>1. s[1] = dia[1]
    BY <1>9, <1>11 DEF Mermaided, Held
  <2>2. ASSUME NEW j \in 1 .. n, s[j] = dia[j] PROVE s[j + 1] = dia[j + 1]
    BY <1>10, <1>11, <2>2 DEF Mermaided
  <2>3. \A j \in 1 .. n : s[j] = dia[j] => s[j + 1] = dia[j + 1]
    BY <2>2
  <2>4. AgreeOn(n, s, dia)
    BY <1>1, <2>1, <2>3, SameRun
  <2> QED BY <1>1, <2>4 DEF AgreeOn
<1>12. ASSUME NEW s, Extracted(doc, s) PROVE s[i] = dia[i]
  <2>1. s[1] = dia[1]
    BY <1>9, <1>12 DEF Extracted, Held
  <2>2. ASSUME NEW j \in 1 .. n, s[j] = dia[j] PROVE s[j + 1] = dia[j + 1]
    BY <1>10, <1>12, <2>2 DEF Extracted
  <2>3. \A j \in 1 .. n : s[j] = dia[j] => s[j + 1] = dia[j + 1]
    BY <2>2
  <2>4. AgreeOn(n, s, dia)
    BY <1>1, <2>1, <2>3, SameRun
  <2> QED BY <1>1, <2>4 DEF AgreeOn
<1>13. /\ ReadBy(_update_fence_state, doc)[i] = c[i] /\ ReadBy(_handle_fence_transition, doc)[i] = c[i]
       /\ ReadBy(_track_fence_marker, doc)[i] = c[i] /\ ReadBy(_process_mermaid_line, doc)[i] = Diagram(c[i])
       /\ ReadBy(extract_fenced_blocks, doc)[i] = Diagram(c[i])
  BY <1>6, <1>7, <1>8, <1>9, <1>11, <1>12, UpdateReads, HandleReads, TrackReads, MermaidReads, ExtractReads
<1> QED BY <1>2, <1>13

\* A repair cleans lines of text, and no others.
Cleaned(line) == [line EXCEPT !.text = "clean"]

Touched(doc, e) ==
  /\ e = [i \in 1 .. Len(doc) |-> e[i]]
  /\ \A i \in 1 .. Len(doc) : e[i] = doc[i] \/ (~Fence(doc[i]) /\ e[i] = Cleaned(doc[i]))

LEMMA TouchedIs ==
  ASSUME NEW doc, NEW e, IsDocument(doc), Touched(doc, e)
  PROVE  /\ IsDocument(e) /\ Len(e) = Len(doc) /\ Alike(doc, e, Len(doc))
         /\ \A i \in 1 .. Len(doc) :
              e[i].run = doc[i].run /\ e[i].length = doc[i].length /\ e[i].info = doc[i].info
<1>1. Len(doc) \in Nat /\ DOMAIN doc = 1 .. Len(doc) /\ \A i \in 1 .. Len(doc) : IsLine(doc[i])
  BY LenProperties DEF IsDocument
<1>2. e \in Seq(ToSet(e)) /\ Len(e) = Len(doc) /\ DOMAIN e = 1 .. Len(doc)
  BY <1>1 DEF Touched, ToSet
<1>3. ASSUME NEW i \in 1 .. Len(doc)
      PROVE  /\ IsLine(e[i]) /\ (e[i] = doc[i] \/ (~Fence(doc[i]) /\ ~Fence(e[i])))
             /\ e[i].run = doc[i].run /\ e[i].length = doc[i].length /\ e[i].info = doc[i].info
  BY <1>1 DEF Touched, Cleaned, IsLine, Fence
<1> QED BY <1>1, <1>2, <1>3 DEF IsDocument, Alike

\* The labels of diagrams are quoted.
LEMMA MermaidFix ==
  ASSUME NEW doc, IsDocument(doc)
  PROVE  LET s == ReadBy(_process_mermaid_line, doc)
             e == _fix_mermaid_blocks(doc)
         IN /\ Touched(doc, e)
            /\ \A i \in 1 .. Len(doc) :
                 e[i] = IF s[i] # NoBlock /\ s[i + 1] # NoBlock /\ doc[i].text = "unquoted"
                          THEN Cleaned(doc[i]) ELSE doc[i]
<1>1. DOMAIN doc = 1 .. Len(doc) /\ \A i \in 1 .. Len(doc) : doc[i].text = "unquoted" => ~Fence(doc[i])
  BY LenProperties DEF IsDocument, IsLine
<1> DEFINE s == ReadBy(_process_mermaid_line, doc)
           e == _fix_mermaid_blocks(doc)
<1>2. e = [i \in 1 .. Len(doc) |->
             IF s[i] # NoBlock /\ s[i + 1] # NoBlock /\ doc[i].text = "unquoted" THEN Cleaned(doc[i]) ELSE doc[i]]
  BY <1>1 DEF _fix_mermaid_blocks, Cleaned
<1> HIDE DEF s, e
<1> QED BY <1>1, <1>2 DEF Touched, s, e

\* Spaces at the ends of lines that are not fenced are stripped.
LEMMA HygieneFix ==
  ASSUME NEW doc, IsDocument(doc)
  PROVE  LET s == ReadBy(_update_fence_state, doc)
             e == _fix_linebreak_hygiene(doc)
         IN /\ Touched(doc, e)
            /\ \A i \in 1 .. Len(doc) :
                 e[i] = IF s[i] = NoBlock /\ s[i + 1] = NoBlock /\ doc[i].text = "trailing"
                          THEN Cleaned(doc[i]) ELSE doc[i]
<1>1. /\ DOMAIN doc = 1 .. Len(doc) /\ Len(doc) \in Nat
      /\ \A i \in 1 .. Len(doc) : doc[i].text = "trailing" => ~Fence(doc[i])
  BY LenProperties DEF IsDocument, IsLine
<1> DEFINE s == ReadBy(_update_fence_state, doc)
           e == _fix_linebreak_hygiene(doc)
<1>2. Len(s) = Len(doc) + 1
  BY UpdateReads DEF Updated, Held
<1> HIDE DEF s
<1>3. \A i \in 1 .. Len(doc) : fenced_line_flags(doc)[i] <=> s[i] # NoBlock \/ s[i + 1] # NoBlock
  <2>1. fenced_line_flags(doc) = Flags(s)
    BY Zenon DEF fenced_line_flags, s
  <2>2. Len(s) - 1 = Len(doc)
    BY <1>1, <1>2
  <2>3. Flags(s) = [i \in 1 .. Len(doc) |-> s[i] # NoBlock \/ s[i + 1] # NoBlock]
    BY <2>2, Zenon DEF Flags
  <2> QED BY <2>1, <2>3
<1>4. e = [i \in 1 .. Len(doc) |->
             IF s[i] = NoBlock /\ s[i + 1] = NoBlock /\ doc[i].text = "trailing" THEN Cleaned(doc[i]) ELSE doc[i]]
  <2>1. e = [i \in 1 .. Len(doc) |->
               IF ~fenced_line_flags(doc)[i] /\ doc[i].text = "trailing" THEN Cleaned(doc[i]) ELSE doc[i]]
    BY <1>1, Zenon DEF _fix_linebreak_hygiene, Cleaned
  <2> HIDE DEF e
  <2> QED BY <1>3, <2>1
<1> HIDE DEF e
<1> QED BY <1>1, <1>4 DEF Touched, s, e

\* A fence that is open at the end is closed, by one of its own kind.
LEMMA UnclosedFix ==
  ASSUME NEW doc, IsDocument(doc)
  PROVE  LET e == _fix_unclosed_fences(doc)
             n == Len(doc)
             open == ReadBy(_track_fence_marker, doc)[n + 1]
         IN /\ IsDocument(e) /\ Alike(doc, e, n) /\ \A i \in 1 .. n : e[i] = doc[i]
            /\ Last(ReadBy(_track_fence_marker, e)) = NoBlock
            /\ \/ open = NoBlock /\ e = doc
               \/ /\ open # NoBlock /\ Len(e) = n + 1 /\ IsLine(open) /\ Fence(open)
                  /\ e[n + 1].run = open.run /\ e[n + 1].length = open.length /\ e[n + 1].info = NoInfo
<1> DEFINE n == Len(doc)
           s == ReadBy(_track_fence_marker, doc)
           open == s[n + 1]
           e == _fix_unclosed_fences(doc)
           closing == [open EXCEPT !.info = NoInfo, !.deep = FALSE]
<1>1. /\ n \in Nat /\ DOMAIN doc = 1 .. n /\ doc \in Seq(ToSet(doc))
      /\ \A i \in 1 .. n : IsLine(doc[i])
  BY LenProperties DEF IsDocument
<1>2. Len(s) = n + 1 /\ (open = NoBlock \/ (Fence(open) /\ IsLine(open)))
  <2>1. Held(doc, s)
    BY TrackReads DEF Tracked
  <2> HIDE DEF s
  <2> QED BY <1>1, <2>1 DEF Held
<1>3. e = IF open = NoBlock THEN doc ELSE Append(doc, closing)
  BY <1>2 DEF _fix_unclosed_fences, Last
<1> HIDE DEF s, e
<1>4. CASE open = NoBlock
  <2>1. e = doc /\ Last(ReadBy(_track_fence_marker, e)) = NoBlock
    BY <1>2, <1>3, <1>4 DEF Last, s
  <2> HIDE DEF open
  <2> QED BY <1>1, <1>4, <2>1 DEF Alike, IsDocument, open, s, e
<1>5. CASE open # NoBlock
  <2>1. closing.run = open.run /\ closing.length = open.length /\ closing.info = NoInfo /\ IsLine(closing)
    <3> HIDE DEF open
    <3> QED BY <1>2, <1>5 DEF IsLine, Fence
  <2> HIDE DEF open, closing
  <2>2. e = Append(doc, closing)
    BY <1>3, <1>5
  <2>3. /\ Len(e) = n + 1 /\ DOMAIN e = 1 .. (n + 1) /\ e[n + 1] = closing
        /\ \A i \in 1 .. n : e[i] = doc[i] /\ i \in 1 .. (n + 1)
        /\ e = [i \in 1 .. (n + 1) |-> e[i]]
    <3> DEFINE S == ToSet(doc) \cup {closing}
    <3>1. doc \in Seq(S) /\ closing \in S
      BY <1>1
    <3> HIDE DEF S
    <3>2. /\ e \in Seq(S) /\ Len(e) = n + 1 /\ e[n + 1] = closing
          /\ \A i \in 1 .. n : e[i] = doc[i]
      BY <1>1, <2>2, <3>1, AppendProperties
    <3>3. e \in [1 .. Len(e) -> S]
      BY <3>2, LenProperties
    <3> QED BY <1>1, <3>2, <3>3
  <2>5. IsDocument(e)
    <3>1. e \in Seq(ToSet(e))
      BY <1>1, <2>3 DEF ToSet
    <3>2. \A i \in 1 .. (n + 1) : IsLine(e[i])
      <4>1. \A i \in 1 .. (n + 1) : i \in 1 .. n \/ i = n + 1
        BY <1>1
      <4> QED BY <1>1, <2>1, <2>3, <4>1
    <3> QED BY <2>3, <3>1, <3>2 DEF IsDocument
  <2>6. Alike(doc, e, n)
    <3>1. n <= n /\ n <= n + 1
      BY <1>1
    <3>2. Len(e) = n + 1 /\ \A i \in 1 .. n : doc[i] = e[i]
      BY <2>3, Zenon
    <3> QED BY <1>1, <3>1, <3>2, Zenon DEF Alike
  <2>7. Last(ReadBy(_track_fence_marker, e)) = NoBlock
    <3> DEFINE t == ReadBy(_track_fence_marker, e)
    <3>1. Tracked(e, t)
      BY <2>5, TrackReads
    <3>2. t[n + 1] = open
      BY <1>1, <2>5, <2>6, AlikeHeld DEF open, s
    <3> HIDE DEF t
    <3>3. n + 1 \in 1 .. Len(e) /\ Len(t) = (n + 1) + 1
      BY <1>1, <2>3, <3>1 DEF Tracked, Held
    <3>4. t[(n + 1) + 1] = _track_fence_marker(open, closing)
      BY <2>3, <3>1, <3>2, <3>3 DEF Tracked
    <3>5. _track_fence_marker(open, closing) = NoBlock
      BY <1>2, <1>5, <2>1 DEF _track_fence_marker, Fence
    <3>6. Last(t) = NoBlock
      BY <3>3, <3>4, <3>5 DEF Last
    <3> QED BY <3>6 DEF t
  <2> QED BY <1>2, <1>5, <2>1, <2>3, <2>5, <2>6, <2>7 DEF open, s, e, n
<1> QED BY <1>4, <1>5

\* The three repairs, one after the other: what the readers hold behind them.
LEMMA FixSteps ==
  ASSUME NEW doc, IsDocument(doc)
  PROVE  LET closed == _fix_unclosed_fences(doc)
             quoted == _fix_mermaid_blocks(closed)
             fixed == _fix_linebreak_hygiene(quoted)
             len == Len(closed)
         IN /\ auto_fix_content(doc) = fixed
            /\ IsDocument(closed) /\ IsDocument(quoted) /\ IsDocument(fixed)
            /\ len \in Nat /\ Len(quoted) = len /\ Len(fixed) = len
            /\ Touched(closed, quoted) /\ Touched(quoted, fixed)
            /\ \A i \in 1 .. (len + 1) :
                 /\ ReadBy(_process_fence_line, fixed)[i] = ReadBy(_process_fence_line, closed)[i]
                 /\ ReadBy(_update_fence_state, quoted)[i] = ReadBy(_update_fence_state, closed)[i]
                 /\ ReadBy(_update_fence_state, fixed)[i] = ReadBy(_update_fence_state, closed)[i]
                 /\ ReadBy(_track_fence_marker, fixed)[i] = ReadBy(_track_fence_marker, closed)[i]
                 /\ ReadBy(_process_mermaid_line, fixed)[i] = ReadBy(_process_mermaid_line, closed)[i]
<1> DEFINE closed == _fix_unclosed_fences(doc)
           quoted == _fix_mermaid_blocks(closed)
           fixed == _fix_linebreak_hygiene(quoted)
<1>1. IsDocument(closed)
  BY UnclosedFix
<1>2. Touched(closed, quoted)
  <2> HIDE DEF closed
  <2> QED BY <1>1, MermaidFix
<1>3. auto_fix_content(doc) = fixed
  BY DEF auto_fix_content
<1> HIDE DEF quoted, closed
<1>4. IsDocument(quoted) /\ Len(quoted) = Len(closed) /\ Alike(closed, quoted, Len(closed))
  BY <1>1, <1>2, TouchedIs
<1>5. Touched(quoted, fixed)
  BY <1>4, HygieneFix
<1> HIDE DEF fixed
<1>6. IsDocument(fixed) /\ Len(fixed) = Len(quoted) /\ Alike(quoted, fixed, Len(quoted))
  BY <1>4, <1>5, TouchedIs
<1>7. Len(closed) \in Nat
  BY <1>1, LenProperties DEF IsDocument
<1>8. ASSUME NEW i \in 1 .. (Len(closed) + 1)
      PROVE  /\ ReadBy(_process_fence_line, fixed)[i] = ReadBy(_process_fence_line, closed)[i]
             /\ ReadBy(_update_fence_state, quoted)[i] = ReadBy(_update_fence_state, closed)[i]
             /\ ReadBy(_update_fence_state, fixed)[i] = ReadBy(_update_fence_state, closed)[i]
             /\ ReadBy(_track_fence_marker, fixed)[i] = ReadBy(_track_fence_marker, closed)[i]
             /\ ReadBy(_process_mermaid_line, fixed)[i] = ReadBy(_process_mermaid_line, closed)[i]
  <2>1. /\ ReadBy(_process_fence_line, closed)[i] = ReadBy(_process_fence_line, quoted)[i]
        /\ ReadBy(_update_fence_state, closed)[i] = ReadBy(_update_fence_state, quoted)[i]
        /\ ReadBy(_track_fence_marker, closed)[i] = ReadBy(_track_fence_marker, quoted)[i]
        /\ ReadBy(_process_mermaid_line, closed)[i] = ReadBy(_process_mermaid_line, quoted)[i]
    BY <1>1, <1>4, AlikeHeld
  <2>2. /\ ReadBy(_process_fence_line, quoted)[i] = ReadBy(_process_fence_line, fixed)[i]
        /\ ReadBy(_update_fence_state, quoted)[i] = ReadBy(_update_fence_state, fixed)[i]
        /\ ReadBy(_track_fence_marker, quoted)[i] = ReadBy(_track_fence_marker, fixed)[i]
        /\ ReadBy(_process_mermaid_line, quoted)[i] = ReadBy(_process_mermaid_line, fixed)[i]
    BY <1>4, <1>6, AlikeHeld
  <2> QED BY <2>1, <2>2
<1> QED BY <1>1, <1>2, <1>3, <1>4, <1>5, <1>6, <1>7, <1>8 DEF closed, quoted, fixed

\* What has been repaired is repaired no more.
LEMMA FixOnce ==
  ASSUME NEW doc, IsDocument(doc)
  PROVE  auto_fix_content(auto_fix_content(doc)) = auto_fix_content(doc)
<1> DEFINE closed == _fix_unclosed_fences(doc)
           quoted == _fix_mermaid_blocks(closed)
           fixed == _fix_linebreak_hygiene(quoted)
           m == ReadBy(_process_mermaid_line, closed)
           u == ReadBy(_update_fence_state, closed)
           n == Len(closed)
<1>1. /\ auto_fix_content(doc) = fixed
      /\ IsDocument(closed) /\ IsDocument(quoted) /\ IsDocument(fixed)
      /\ n \in Nat /\ Len(quoted) = n /\ Len(fixed) = n
      /\ Touched(closed, quoted) /\ Touched(quoted, fixed)
  BY FixSteps
<1>2. ASSUME NEW i \in 1 .. (n + 1)
      PROVE  /\ ReadBy(_update_fence_state, quoted)[i] = u[i]
             /\ ReadBy(_update_fence_state, fixed)[i] = u[i]
             /\ ReadBy(_process_mermaid_line, fixed)[i] = m[i]
             /\ ReadBy(_track_fence_marker, fixed)[i] = ReadBy(_track_fence_marker, closed)[i]
  BY FixSteps
<1>3. Last(ReadBy(_track_fence_marker, closed)) = NoBlock
  BY UnclosedFix
<1>4. \A i \in 1 .. n : i \in 1 .. (n + 1) /\ i + 1 \in 1 .. (n + 1)
  BY <1>1
<1> HIDE DEF closed
<1>5. \A i \in 1 .. n :
        quoted[i] = IF m[i] # NoBlock /\ m[i + 1] # NoBlock /\ closed[i].text = "unquoted"
                      THEN Cleaned(closed[i]) ELSE closed[i]
  BY <1>1, MermaidFix
<1> HIDE DEF quoted, m
<1>6. \A i \in 1 .. n :
        fixed[i] = IF u[i] = NoBlock /\ u[i + 1] = NoBlock /\ quoted[i].text = "trailing"
                     THEN Cleaned(quoted[i]) ELSE quoted[i]
  <2>1. \A i \in 1 .. n :
          fixed[i] = IF /\ ReadBy(_update_fence_state, quoted)[i] = NoBlock
                        /\ ReadBy(_update_fence_state, quoted)[i + 1] = NoBlock
                        /\ quoted[i].text = "trailing"
                       THEN Cleaned(quoted[i]) ELSE quoted[i]
    BY <1>1, HygieneFix
  <2> HIDE DEF fixed, u
  <2> QED BY <1>2, <1>4, <2>1
<1> HIDE DEF fixed, u
<1>7. \A i \in 1 .. n :
        /\ IsLine(closed[i]) /\ IsLine(quoted[i]) /\ IsLine(fixed[i])
        /\ Cleaned(closed[i]).text = "clean" /\ Cleaned(quoted[i]).text = "clean"
  <2>1. \A i \in 1 .. n : IsLine(closed[i]) /\ IsLine(quoted[i]) /\ IsLine(fixed[i])
    BY <1>1, LenProperties DEF IsDocument
  <2> QED BY <2>1 DEF IsLine, Cleaned
<1>8. _fix_unclosed_fences(fixed) = fixed
  <2> DEFINE t == ReadBy(_track_fence_marker, fixed)
             c == ReadBy(_track_fence_marker, closed)
  <2>1. Len(t) = n + 1 /\ Len(c) = n + 1
    BY <1>1, TrackReads DEF Tracked, Held
  <2>2. n + 1 \in 1 .. (n + 1)
    BY <1>1
  <2>3. t[n + 1] = c[n + 1]
    BY <1>2, <2>2
  <2> HIDE DEF t, c
  <2>4. Last(t) = NoBlock
    BY <1>3, <2>1, <2>3 DEF Last, c
  <2> QED BY <2>4 DEF _fix_unclosed_fences, t
<1>9. _fix_mermaid_blocks(fixed) = fixed
  <2> DEFINE e == _fix_mermaid_blocks(fixed)
             s == ReadBy(_process_mermaid_line, fixed)
  <2>1. /\ Touched(fixed, e)
        /\ \A i \in 1 .. n :
             e[i] = IF s[i] # NoBlock /\ s[i + 1] # NoBlock /\ fixed[i].text = "unquoted"
                      THEN Cleaned(fixed[i]) ELSE fixed[i]
    BY <1>1, MermaidFix
  <2>2. \A i \in 1 .. n : s[i] = m[i] /\ s[i + 1] = m[i + 1]
    BY <1>2, <1>4
  <2> HIDE DEF e, s
  <2>3. ASSUME NEW i \in 1 .. n PROVE e[i] = fixed[i]
    BY <1>5, <1>6, <1>7, <2>1, <2>2
  <2>4. e = [i \in 1 .. n |-> e[i]] /\ fixed = [i \in 1 .. n |-> fixed[i]]
    BY <1>1, <2>1 DEF Touched
  <2>5. e = fixed
    BY <2>3, <2>4
  <2> QED BY <2>5 DEF e
<1>10. _fix_linebreak_hygiene(fixed) = fixed
  <2> DEFINE e == _fix_linebreak_hygiene(fixed)
             s == ReadBy(_update_fence_state, fixed)
  <2>1. /\ Touched(fixed, e)
        /\ \A i \in 1 .. n :
             e[i] = IF s[i] = NoBlock /\ s[i + 1] = NoBlock /\ fixed[i].text = "trailing"
                      THEN Cleaned(fixed[i]) ELSE fixed[i]
    BY <1>1, HygieneFix
  <2>2. \A i \in 1 .. n : s[i] = u[i] /\ s[i + 1] = u[i + 1]
    BY <1>2, <1>4
  <2> HIDE DEF e, s
  <2>3. ASSUME NEW i \in 1 .. n PROVE e[i] = fixed[i]
    BY <1>6, <1>7, <2>1, <2>2
  <2>4. e = [i \in 1 .. n |-> e[i]] /\ fixed = [i \in 1 .. n |-> fixed[i]]
    BY <1>1, <2>1 DEF Touched
  <2>5. e = fixed
    BY <2>3, <2>4
  <2> QED BY <2>5 DEF e
<1>11. auto_fix_content(fixed) = fixed
  BY <1>8, <1>9, <1>10 DEF auto_fix_content
<1> QED BY <1>1, <1>11

\* Where no fence stands in a block, what is repaired is accepted, and a block keeps
\* its lines but for the labels of a diagram.
LEMMA PlainFix ==
  ASSUME NEW doc, IsDocument(doc), PlainFences(doc), \A j \in DOMAIN doc : doc[j] # NoBlock
  PROVE  LET held == ReadBy(_process_fence_line, doc)
             fixed == auto_fix_content(doc)
         IN /\ Accepted(fixed)
            /\ \A i \in DOMAIN doc :
                 held[i] # NoBlock =>
                   fixed[i] = doc[i] \/ (OpensMermaid(held[i]) /\ doc[i].text = "unquoted")
<1> DEFINE n == Len(doc)
           held == ReadBy(_process_fence_line, doc)
           closed == _fix_unclosed_fences(doc)
           quoted == _fix_mermaid_blocks(closed)
           fixed == _fix_linebreak_hygiene(quoted)
           p == ReadBy(_process_fence_line, fixed)
           q == ReadBy(_process_fence_line, closed)
           len == Len(closed)
           open == held[n + 1]
<1>1. /\ n \in Nat /\ DOMAIN doc = 1 .. n /\ n + 1 \in 1 .. (n + 1)
      /\ \A i \in 1 .. n : i \in 1 .. (n + 1) /\ i + 1 \in 1 .. (n + 1) /\ IsLine(doc[i])
  BY LenProperties DEF IsDocument
<1>2. /\ IsDocument(closed) /\ Alike(doc, closed, n) /\ (\A i \in 1 .. n : closed[i] = doc[i])
      /\ \/ open = NoBlock /\ closed = doc
         \/ /\ open # NoBlock /\ len = n + 1 /\ IsLine(open) /\ Fence(open)
            /\ closed[n + 1].run = open.run /\ closed[n + 1].length = open.length
            /\ closed[n + 1].info = NoInfo
  <2>1. ReadBy(_track_fence_marker, doc)[n + 1] = open
    BY <1>1, PlainReads
  <2> HIDE DEF open, closed
  <2> QED BY <2>1, UnclosedFix DEF closed
<1>3. /\ auto_fix_content(doc) = fixed
      /\ IsDocument(quoted) /\ IsDocument(fixed) /\ len \in Nat /\ Len(quoted) = len /\ Len(fixed) = len
      /\ Touched(closed, quoted) /\ Touched(quoted, fixed)
  BY FixSteps
<1>4. ASSUME NEW i \in 1 .. (len + 1)
      PROVE  p[i] = q[i] /\ ReadBy(_update_fence_state, quoted)[i] = ReadBy(_update_fence_state, closed)[i]
  BY FixSteps
<1>5. ASSUME NEW i \in 1 .. (n + 1)
      PROVE  /\ q[i] = held[i]
             /\ ReadBy(_update_fence_state, closed)[i] = held[i]
             /\ ReadBy(_process_mermaid_line, closed)[i] =
                  IF held[i] # NoBlock /\ OpensMermaid(held[i]) THEN held[i] ELSE NoBlock
  <2> HIDE DEF closed
  <2>1. /\ ReadBy(_process_fence_line, doc)[i] = ReadBy(_process_fence_line, closed)[i]
        /\ ReadBy(_update_fence_state, doc)[i] = ReadBy(_update_fence_state, closed)[i]
        /\ ReadBy(_process_mermaid_line, doc)[i] = ReadBy(_process_mermaid_line, closed)[i]
    BY <1>2, AlikeHeld
  <2>2. /\ ReadBy(_update_fence_state, doc)[i] = held[i]
        /\ ReadBy(_process_mermaid_line, doc)[i] =
             IF held[i] # NoBlock /\ OpensMermaid(held[i]) THEN held[i] ELSE NoBlock
    BY PlainReads
  <2> QED BY <2>1, <2>2
<1>6. Processed(doc, held) /\ Processed(closed, q) /\ Len(p) = len + 1
  BY <1>2, <1>3, ProcessReads DEF Processed, Held
<1>7. ASSUME NEW i \in 1 .. n
      PROVE  held[i] # NoBlock /\ doc[i].run = held[i].run => doc[i].info = NoInfo
  <2>1. held[i] # NoBlock => Fence(held[i])
    <3> HIDE DEF held
    <3> QED BY <1>1, <1>6 DEF Processed, Held
  <2>2. Fence(doc[i]) /\ held[i] # NoBlock => Closes(doc[i], held[i])
    BY <1>1 DEF PlainFences
  <2> HIDE DEF held
  <2> QED BY <2>1, <2>2 DEF Fence, Closes
<1>8. n <= len /\ \A i \in 1 .. n : i \in 1 .. len /\ i \in 1 .. (len + 1) /\ i + 1 \in 1 .. (len + 1)
  <2>1. len = n \/ len = n + 1
    <3> HIDE DEF open, closed
    <3> QED BY <1>2
  <2> HIDE DEF len
  <2> QED BY <1>1, <2>1
<1>9. q[len + 1] = NoBlock
  <2>1. CASE open = NoBlock
    BY <1>2, <2>1
  <2>2. CASE open # NoBlock
    <3> HIDE DEF held, closed
    <3>1. len = n + 1 /\ q[n + 1] = open
      BY <1>1, <1>2, <1>5, <2>2
    <3>2. q[(n + 1) + 1] = _process_fence_line(open, closed[n + 1])
      <4> HIDE DEF q
      <4>1. n + 1 \in 1 .. len
        BY <1>1, <3>1
      <4> QED BY <1>6, <3>1, <4>1 DEF Processed
    <3>3. _process_fence_line(open, closed[n + 1]) = NoBlock
      <4> HIDE DEF open
      <4>1. open.length \in Nat /\ Fence(closed[n + 1])
        BY <1>2, <2>2 DEF IsLine, Fence
      <4> QED BY <1>2, <2>2, <4>1 DEF _process_fence_line, Closes
    <3> QED BY <3>1, <3>2, <3>3
  <2> QED BY <2>1, <2>2
<1>10. Accepted(fixed)
  <2>1. DOMAIN fixed = 1 .. len
    BY <1>3, LenProperties DEF IsDocument
  <2>2. Last(p) = NoBlock
    <3> HIDE DEF p, q, len
    <3>1. len + 1 \in 1 .. (len + 1)
      BY <1>3
    <3> QED BY <1>4, <1>6, <1>9, <3>1 DEF Last
  <2>3. ASSUME NEW i \in 1 .. len, p[i] # NoBlock, fixed[i].run = p[i].run PROVE fixed[i].info = NoInfo
    <3>1. fixed[i].run = closed[i].run /\ fixed[i].info = closed[i].info /\ p[i] = q[i]
      <4> HIDE DEF closed, fixed, p, q
      <4>1. i \in 1 .. (len + 1)
        BY <1>3
      <4>2. quoted[i].run = closed[i].run /\ quoted[i].info = closed[i].info
        <5> HIDE DEF quoted
        <5> QED BY <1>2, <1>3, TouchedIs
      <4>3. fixed[i].run = quoted[i].run /\ fixed[i].info = quoted[i].info
        <5> HIDE DEF quoted
        <5> QED BY <1>3, TouchedIs
      <4> QED BY <1>4, <4>1, <4>2, <4>3
    <3> HIDE DEF closed, fixed, p, q, held, open
    <3>2. CASE i \in 1 .. n
      <4>1. closed[i] = doc[i] /\ q[i] = held[i]
        BY <1>1, <1>2, <1>5, <3>2
      <4> QED BY <1>7, <2>3, <3>1, <3>2, <4>1
    <3>3. CASE i \notin 1 .. n
      <4>1. len = n + 1 /\ i = n + 1
        <5>1. len = n \/ len = n + 1
          BY <1>2
        <5> HIDE DEF len
        <5> QED BY <1>1, <3>3, <5>1
      <4>2. closed[n + 1].info = NoInfo
        <5>1. len # n
          <6> HIDE DEF len, n
          <6> QED BY <1>1, <4>1
        <5> QED BY <1>2, <5>1
      <4> QED BY <3>1, <4>1, <4>2
    <3> QED BY <3>2, <3>3
  <2> HIDE DEF p, fixed
  <2>4. {i \in DOMAIN fixed : /\ p[i] # NoBlock /\ fixed[i].run = p[i].run
                              /\ fixed[i].length >= p[i].length /\ fixed[i].info # NoInfo} = {}
    BY <2>1, <2>3
  <2>5. _check_line_fences(fixed) =
          [nested |-> {i \in DOMAIN fixed : /\ p[i] # NoBlock /\ fixed[i].run = p[i].run
                                            /\ fixed[i].length >= p[i].length /\ fixed[i].info # NoInfo},
           unclosed |-> Last(p) # NoBlock]
    BY DEF _check_line_fences, p
  <2> QED BY <2>2, <2>4, <2>5 DEF Accepted
<1>11. ASSUME NEW i \in 1 .. n, held[i] # NoBlock
       PROVE  fixed[i] = doc[i] \/ (OpensMermaid(held[i]) /\ doc[i].text = "unquoted")
  <2>1. fixed[i] = quoted[i]
    <3>1. fixed[i] = IF /\ ReadBy(_update_fence_state, quoted)[i] = NoBlock
                        /\ ReadBy(_update_fence_state, quoted)[i + 1] = NoBlock
                        /\ quoted[i].text = "trailing"
                       THEN Cleaned(quoted[i]) ELSE quoted[i]
      <4> HIDE DEF quoted
      <4> QED BY <1>3, <1>8, HygieneFix
    <3> HIDE DEF fixed, quoted, closed, held
    <3>2. ReadBy(_update_fence_state, quoted)[i] # NoBlock
      BY <1>1, <1>4, <1>5, <1>8, <1>11
    <3> QED BY <3>1, <3>2
  <2>2. quoted[i] = doc[i] \/ (OpensMermaid(held[i]) /\ doc[i].text = "unquoted")
    <3> DEFINE m == ReadBy(_process_mermaid_line, closed)
    <3>1. quoted[i] = IF m[i] # NoBlock /\ m[i + 1] # NoBlock /\ closed[i].text = "unquoted"
                        THEN Cleaned(closed[i]) ELSE closed[i]
      <4> HIDE DEF closed
      <4> QED BY <1>2, <1>8, MermaidFix
    <3> HIDE DEF quoted, closed, held
    <3>2. m[i] # NoBlock => OpensMermaid(held[i])
      BY <1>1, <1>5
    <3> QED BY <1>2, <3>1, <3>2
  <2> QED BY <2>1, <2>2
<1> QED BY <1>1, <1>3, <1>10, <1>11

\* The five readers of fences agree on every document in which no fence stands in a
\* block; auto_fix_content repairs each of these so that it is accepted, without
\* touching what stands in its blocks but the labels of diagrams; and a document of
\* any kind is repaired in one application.
THEOREM FencesAgree == InsSpec => []FencesAreAgreedOn
<1>1. InsInv => FencesAreAgreedOn
  <2> SUFFICES ASSUME InsInv PROVE FencesAreAgreedOn
    OBVIOUS
  <2>1. instrument = "fences" => IsDocument(given) /\ \A j \in DOMAIN given : given[j] # NoBlock
    BY DocumentAssumption DEF InsInv
  <2>2. ReadersAgree
    <3> SUFFICES ASSUME instrument = "fences", PlainFences(given)
                 PROVE  LET checked == ReadBy(_process_fence_line, given)
                            diagrams == ReadBy(_process_mermaid_line, given)
                        IN /\ fenced_line_flags(given) = Flags(checked)
                           /\ Flags(ReadBy(_handle_fence_transition, given)) = Flags(checked)
                           /\ Flags(ReadBy(_track_fence_marker, given)) = Flags(checked)
                           /\ Flags(ReadBy(extract_fenced_blocks, given)) = Flags(diagrams)
                           /\ \A i \in DOMAIN checked : diagrams[i] # NoBlock <=>
                                checked[i] # NoBlock /\ OpensMermaid(checked[i])
      BY Zenon DEF ReadersAgree
    <3> DEFINE n == Len(given)
               c == ReadBy(_process_fence_line, given)
               u == ReadBy(_update_fence_state, given)
               h == ReadBy(_handle_fence_transition, given)
               t == ReadBy(_track_fence_marker, given)
               m == ReadBy(_process_mermaid_line, given)
               x == ReadBy(extract_fenced_blocks, given)
    <3>1. /\ Processed(given, c) /\ Updated(given, u) /\ Handled(given, h) /\ Tracked(given, t)
          /\ Mermaided(given, m) /\ Extracted(given, x)
      BY <2>1, ProcessReads, UpdateReads, HandleReads, TrackReads, MermaidReads, ExtractReads
    <3>2. \A i \in 1 .. (n + 1) :
            /\ u[i] = c[i] /\ h[i] = c[i] /\ t[i] = c[i] /\ x[i] = m[i]
            /\ m[i] = IF c[i] # NoBlock /\ OpensMermaid(c[i]) THEN c[i] ELSE NoBlock
      BY <2>1, PlainReads
    <3>3. n \in Nat
      BY <2>1, LenProperties DEF IsDocument
    <3>4. fenced_line_flags(given) = Flags(u)
      BY Zenon DEF fenced_line_flags
    <3> HIDE DEF c, u, h, t, m, x
    <3>5. /\ c = [i \in 1 .. (n + 1) |-> c[i]] /\ u = [i \in 1 .. (n + 1) |-> u[i]]
          /\ h = [i \in 1 .. (n + 1) |-> h[i]] /\ t = [i \in 1 .. (n + 1) |-> t[i]]
          /\ m = [i \in 1 .. (n + 1) |-> m[i]] /\ x = [i \in 1 .. (n + 1) |-> x[i]]
          /\ DOMAIN c = 1 .. (n + 1)
      BY <3>1 DEF Processed, Updated, Handled, Tracked, Mermaided, Extracted, Held
    <3>6. u = c /\ h = c /\ t = c /\ x = m
      BY <3>2, <3>5
    <3>7. \A i \in DOMAIN c : m[i] # NoBlock <=> c[i] # NoBlock /\ OpensMermaid(c[i])
      BY <3>2, <3>5
    <3> QED BY <3>4, <3>6, <3>7 DEF c, u, h, t, m, x
  <2>3. FixConverges
    BY <2>1, FixOnce DEF InsInv, FixConverges, Answered
  <2>4. FixRepairs
    BY <2>1, PlainFix DEF InsInv, FixRepairs, Answered
  <2> QED BY <2>2, <2>3, <2>4 DEF FencesAreAgreedOn
<1> QED BY <1>1, InsInvariance, PTL
-----------------------------------------------------------------------------
\* Campaigns.

LEMMA OneOfTwo ==
  ASSUME NEW a \in Nat, NEW b \in Nat
  PROVE  Min({a, b}) \in Nat /\ Max({a, b}) \in Nat
<1>1. \E x \in {a, b} : \A y \in {a, b} : x <= y
  OBVIOUS
<1>2. \E x \in {a, b} : \A y \in {a, b} : x >= y
  OBVIOUS
<1>3. Min({a, b}) \in {a, b}
  BY <1>1, Zenon DEF Min
<1>4. Max({a, b}) \in {a, b}
  BY <1>2, Zenon DEF Max
<1> QED BY <1>3, <1>4

\* What a text shows is a fault, or none.
LEMMA FirstIsAFault ==
  ASSUME NEW faults, faults \in Seq(ToSet(faults)), NEW text
  PROVE  FirstFailure(faults, text) \in ToSet(faults) \cup {NoFailure}
<1> DEFINE shown == {i \in DOMAIN faults : text \in faults[i].texts}
<1>1. DOMAIN faults \in SUBSET Nat /\ \A i \in DOMAIN faults : faults[i] \in ToSet(faults)
  BY LenProperties DEF ToSet
<1>2. CASE shown = {}
  BY <1>2 DEF FirstFailure
<1>3. CASE shown # {}
  <2>1. shown \in SUBSET Nat
    BY <1>1
  <2> HIDE DEF shown
  <2>2. \E m \in shown : \A n \in shown : m <= n
    BY <1>3, <2>1, LeastNatural
  <2>3. Min(shown) \in shown
    BY <2>2, Zenon DEF Min
  <2>4. FirstFailure(faults, text) = faults[Min(shown)]
    BY <1>3 DEF FirstFailure, shown
  <2> QED BY <1>1, <2>3, <2>4 DEF shown
<1> QED BY <1>2, <1>3

\* Sequences of texts that are strung together, one after the other.
Strung(ls, f) ==
  /\ f[1] = ls[1] /\ \A i \in 1 .. (Len(ls) - 1) : f[i + 1] = f[i] \o ls[i + 1]
  /\ FlattenSeq(ls) = f[Len(ls)]

LEMMA Stringing ==
  ASSUME NEW C, NEW ls \in Seq(Seq(C)), Len(ls) # 0
  PROVE  \E f : Strung(ls, f) /\ \A i \in 1 .. Len(ls) : f[i] \in Seq(C)
<1> DEFINE n == Len(ls)
           T == Seq(C)
           Eq(h) == h = [i \in 1 .. n |-> IF i = 1 THEN ls[i] ELSE h[i - 1] \o ls[i]]
           f == CHOOSE h : Eq(h)
           rest == [i \in 1 .. (n - 1) |-> ls[i + 1]]
           step == [p \in T \X T |-> p[1] \o p[2]]
<1>1. n \in Nat \ {0} /\ \A i \in 1 .. n : ls[i] \in T
  BY LenProperties, ElementOfSeq
<1>2. rest \in Seq(T) /\ Len(rest) = n - 1 /\ \A i \in 1 .. (n - 1) : rest[i] = ls[i + 1]
  <2> HIDE DEF n, T
  <2>1. \A i \in 1 .. (n - 1) : ls[i + 1] \in T
    BY <1>1
  <2> QED BY <1>1, <2>1
<1>3. /\ step \in [T \X T -> T]
      /\ \A a \in T, b \in T : step[<<a, b>>] = a \o b /\ a \o b \in T
  <2>1. \A a \in T, b \in T : a \o b \in T
    BY ConcatProperties
  <2> HIDE DEF T
  <2> QED BY <2>1
<1>4. HasRun(T, ls[1], rest, step)
  <2> HIDE DEF T, rest, step, n
  <2>1. ls[1] \in T
    BY <1>1
  <2> QED BY <1>2, <1>3, <2>1, SequenceRuns
<1>5. PICK h \in [1 .. n -> T] :
        h = [i \in 1 .. n |-> IF i = 1 THEN ls[1] ELSE step[<<h[i - 1], rest[i - 1]>>]]
  <2>1. Len(rest) + 1 = n
    <3> HIDE DEF rest, n
    <3> QED BY <1>1, <1>2
  <2> HIDE DEF rest, step, T, n
  <2> QED BY <1>4, <2>1 DEF HasRun
<1>6. Eq(h)
  <2>1. ASSUME NEW i \in 1 .. n, i # 1 PROVE step[<<h[i - 1], rest[i - 1]>>] = h[i - 1] \o ls[i]
    <3>1. i - 1 \in 1 .. (n - 1) /\ i - 1 \in 1 .. n /\ (i - 1) + 1 = i
      <4> HIDE DEF n
      <4> QED BY <1>1, <2>1
    <3> HIDE DEF T, step, rest, n
    <3>2. rest[i - 1] = ls[i] /\ h[i - 1] \in T /\ ls[i] \in T
      BY <1>1, <1>2, <1>5, <3>1
    <3> QED BY <1>3, <3>2
  <2> HIDE DEF T, step, rest, n
  <2> QED BY <1>5, <2>1
<1>7. Eq(f)
  <2> HIDE DEF Eq
  <2> QED BY <1>6, Zenon
<1>8. FlattenSeq(ls) = f[n]
  BY Zenon DEF FlattenSeq
<1> HIDE DEF f
<1>9. ASSUME NEW i \in 1 .. (n - 1) PROVE f[i + 1] = f[i] \o ls[i + 1]
  <2>1. i + 1 \in 1 .. n /\ i + 1 # 1 /\ (i + 1) - 1 = i
    <3> HIDE DEF n
    <3> QED BY <1>1
  <2> HIDE DEF n
  <2> QED BY <1>7, <2>1
<1>10. f[1] = ls[1]
  <2> HIDE DEF n
  <2> QED BY <1>1, <1>7
<1>11. ASSUME NEW i \in 1 .. n PROVE f[i] \in T
  <2>1. n - 1 \in Nat /\ (n - 1) + 1 = n
    <3> HIDE DEF n
    <3> QED BY <1>1
  <2>2. f = [j \in 1 .. n |-> f[j]]
    <3> HIDE DEF n
    <3> QED BY <1>7
  <2>3. ASSUME NEW j \in 1 .. (n - 1), f[j] \in T PROVE f[j + 1] \in T
    <3>1. j + 1 \in 1 .. n
      <4> HIDE DEF n
      <4> QED BY <1>1
    <3> HIDE DEF T, n, step, rest
    <3>2. f[j] \in T /\ ls[j + 1] \in T
      BY <1>1, <2>3, <3>1
    <3>3. f[j] \o ls[j + 1] \in T
      BY <1>3, <3>2, Zenon
    <3> QED BY <1>9, <3>3
  <2>4. f[1] \in T
    <3> HIDE DEF n, T
    <3> QED BY <1>1, <1>10
  <2> HIDE DEF T, n
  <2>5. f \in [1 .. ((n - 1) + 1) -> T]
    BY <2>1, <2>2, <2>3, <2>4, StaysIn
  <2> QED BY <2>1, <2>5
<1> QED BY <1>8, <1>9, <1>10, <1>11 DEF Strung

LEMMA FlattenIsText ==
  ASSUME NEW C, NEW ls \in Seq(Seq(C))
  PROVE  FlattenSeq(ls) \in Seq(C)
<1>1. CASE Len(ls) = 0
  <2>1. ls = <<>>
    BY <1>1, EmptySeq
  <2> QED BY <1>1, <2>1, EmptySeq DEF FlattenSeq
<1>2. CASE Len(ls) # 0
  <2>1. PICK f : Strung(ls, f) /\ \A i \in 1 .. Len(ls) : f[i] \in Seq(C)
    BY <1>2, Stringing
  <2>2. Len(ls) \in 1 .. Len(ls)
    BY <1>2, LenProperties
  <2> QED BY <2>1, <2>2 DEF Strung
<1> QED BY <1>1, <1>2

LEMMA FlattenAppend ==
  ASSUME NEW C, NEW ls \in Seq(Seq(C)), NEW l \in Seq(C)
  PROVE  FlattenSeq(Append(ls, l)) = FlattenSeq(ls) \o l
<1> DEFINE n == Len(ls)
           more == Append(ls, l)
<1>1. /\ n \in Nat /\ more \in Seq(Seq(C)) /\ Len(more) = n + 1
      /\ (\A i \in 1 .. n : more[i] = ls[i]) /\ more[n + 1] = l
  BY LenProperties, AppendProperties
<1> HIDE DEF more
<1>2. PICK g : Strung(more, g) /\ \A i \in 1 .. Len(more) : g[i] \in Seq(C)
  BY <1>1, Stringing
<1>3. CASE n = 0
  <2>1. ls = <<>> /\ FlattenSeq(ls) = <<>>
    <3>1. ls = <<>>
      BY <1>3, EmptySeq
    <3> QED BY <3>1, EmptySeq DEF FlattenSeq
  <2>2. FlattenSeq(more) = l
    BY <1>1, <1>2, <1>3 DEF Strung
  <2> QED BY <2>1, <2>2, ConcatEmptySeq DEF more
<1>4. CASE n # 0
  <2>1. PICK f : Strung(ls, f) /\ \A i \in 1 .. n : f[i] \in Seq(C)
    BY <1>4, Stringing
  <2> HIDE DEF n
  <2>2. f[1] = g[1] /\ n - 1 \in Nat /\ (n - 1) + 1 = n /\ n \in 1 .. n
    BY <1>1, <1>2, <1>4, <2>1 DEF Strung
  <2>3. \A i \in 1 .. (n - 1) : f[i] = g[i] => f[i + 1] = g[i + 1]
    <3>1. ASSUME NEW i \in 1 .. (n - 1), f[i] = g[i] PROVE f[i + 1] = g[i + 1]
      <4>1. i \in 1 .. (Len(more) - 1) /\ i + 1 \in 1 .. n
        BY <1>1
      <4>2. f[i + 1] = f[i] \o ls[i + 1]
        BY <2>1 DEF Strung, n
      <4>3. g[i + 1] = g[i] \o more[i + 1]
        BY <1>2, <4>1 DEF Strung
      <4> QED BY <1>1, <3>1, <4>1, <4>2, <4>3
    <3> QED BY <3>1
  <2>4. AgreeOn(n - 1, f, g)
    BY <2>2, <2>3, SameRun
  <2>5. f[n] = g[n]
    BY <2>2, <2>4 DEF AgreeOn
  <2>6. g[n + 1] = g[n] \o l
    <3>1. n \in 1 .. (Len(more) - 1)
      BY <1>1, <1>4
    <3> QED BY <1>1, <1>2, <3>1 DEF Strung
  <2>7. FlattenSeq(more) = g[n + 1] /\ FlattenSeq(ls) = f[n]
    BY <1>1, <1>2, <2>1 DEF Strung, n
  <2> QED BY <2>5, <2>6, <2>7 DEF more
<1> QED BY <1>3, <1>4

\* A character that is appended to the last line.
LEMMA FlattenExtend ==
  ASSUME NEW C, NEW ls \in Seq(Seq(C)), ls # <<>>, NEW c \in C
  PROVE  /\ [ls EXCEPT ![Len(ls)] = Append(@, c)] \in Seq(Seq(C))
         /\ FlattenSeq([ls EXCEPT ![Len(ls)] = Append(@, c)]) = FlattenSeq(ls) \o <<c>>
<1>1. PICK front \in Seq(Seq(C)), last \in Seq(C) : ls = Append(front, last)
  BY SequenceEmptyOrAppend
<1> DEFINE longer == Append(last, c)
           more == [ls EXCEPT ![Len(ls)] = Append(@, c)]
           n == Len(front)
<1>2. /\ n \in Nat /\ Len(ls) = n + 1 /\ ls[n + 1] = last /\ \A i \in 1 .. n : ls[i] = front[i]
  BY <1>1, LenProperties, AppendProperties
<1>3. longer \in Seq(C) /\ longer = last \o <<c>> /\ <<c>> \in Seq(C)
  BY AppendProperties, AppendIsConcat
<1> HIDE DEF longer
<1>4. more = [ls EXCEPT ![n + 1] = longer]
  BY <1>2 DEF longer
<1> HIDE DEF more
<1>5. /\ more \in Seq(Seq(C)) /\ Len(more) = n + 1
      /\ \A i \in 1 .. (n + 1) : more[i] = IF i = n + 1 THEN longer ELSE ls[i]
  <2>1. n + 1 \in 1 .. Len(ls)
    BY <1>2
  <2> QED BY <1>2, <1>3, <1>4, <2>1, ExceptSeq
<1>6. more = Append(front, longer)
  <2>1. /\ Append(front, longer) \in Seq(Seq(C)) /\ Len(Append(front, longer)) = n + 1
        /\ \A i \in 1 .. n : Append(front, longer)[i] = front[i]
        /\ Append(front, longer)[n + 1] = longer
    BY <1>3, AppendProperties
  <2>2. \A i \in 1 .. (n + 1) : more[i] = Append(front, longer)[i]
    <3>1. \A i \in 1 .. (n + 1) : i = n + 1 \/ i \in 1 .. n
      BY <1>2
    <3> HIDE DEF n
    <3> QED BY <1>2, <1>5, <2>1, <3>1
  <2> HIDE DEF n
  <2> QED BY <1>5, <2>1, <2>2, SeqEqual
<1>7. FlattenSeq(front) \in Seq(C)
  BY FlattenIsText
<1>8. FlattenSeq(more) = FlattenSeq(front) \o longer
  BY <1>3, <1>6, FlattenAppend
<1>9. FlattenSeq(ls) = FlattenSeq(front) \o last
  BY <1>1, FlattenAppend
<1>10. FlattenSeq(more) = FlattenSeq(ls) \o <<c>>
  BY <1>3, <1>7, <1>8, <1>9, ConcatAssociative
<1> QED BY <1>5, <1>10 DEF more

\* The lines of a text are the text, strung together.
LEMMA LinesAreText ==
  ASSUME NEW C, NEW text \in Seq(C)
  PROVE  _lines(text) \in Seq(Seq(C)) /\ FlattenSeq(_lines(text)) = text
<1> DEFINE T == Seq(Seq(C))
           n == Len(text)
           Op(ls, c) == IF ls = <<>> \/ Last(Last(ls)) = NewLine THEN Append(ls, <<c>>)
                        ELSE [ls EXCEPT ![Len(ls)] = Append(@, c)]
           Eq(h) == h = [s \in SUBSET DOMAIN text |->
                           IF s = {} THEN <<>> ELSE Op(h[s \ {Max(s)}], text[Max(s)])]
           it == CHOOSE h : Eq(h)
           step == [p \in T \X C |-> Op(p[1], p[2])]
<1>1. n \in Nat /\ DOMAIN text = 1 .. n /\ \A i \in 1 .. n : text[i] \in C
  BY LenProperties, ElementOfSeq
<1>2. ASSUME NEW ls \in T, NEW c \in C
      PROVE  Op(ls, c) \in T /\ FlattenSeq(Op(ls, c)) = FlattenSeq(ls) \o <<c>>
  <2>1. <<c>> \in Seq(C)
    OBVIOUS
  <2>2. CASE ls = <<>> \/ Last(Last(ls)) = NewLine
    <3>1. Op(ls, c) = Append(ls, <<c>>)
      BY <2>2
    <3>2. Append(ls, <<c>>) \in T
      BY <2>1, AppendProperties
    <3> HIDE DEF Op
    <3> QED BY <2>1, <3>1, <3>2, FlattenAppend
  <2>3. CASE ~(ls = <<>> \/ Last(Last(ls)) = NewLine)
    <3>1. Op(ls, c) = [ls EXCEPT ![Len(ls)] = Append(@, c)]
      BY <2>3
    <3> HIDE DEF Op
    <3> QED BY <2>3, <3>1, FlattenExtend
  <2> QED BY <2>2, <2>3
<1>3. /\ step \in [T \X C -> T]
      /\ \A a \in T, c \in C : step[<<a, c>>] = Op(a, c)
  <2> HIDE DEF T, Op
  <2> QED BY <1>2
<1>4. <<>> \in T
  BY EmptySeq
<1>5. HasTable(T, <<>>, text, step)
  <2> HIDE DEF T, step
  <2> QED BY <1>3, <1>4, FoldTable
<1>6. \E h : Eq(h)
  <2> HIDE DEF T, step
  <2>1. PICK h \in [SUBSET DOMAIN text -> T] :
          \A s \in SUBSET DOMAIN text : h[s] = IF s = {} THEN <<>> ELSE step[<<h[s \ {Max(s)}], text[Max(s)]>>]
    BY <1>5 DEF HasTable
  <2>2. ASSUME NEW s \in SUBSET DOMAIN text, s # {}
        PROVE  h[s] = Op(h[s \ {Max(s)}], text[Max(s)])
    <3> HIDE DEF n, Op
    <3>1. Max(s) \in s
      <4>1. s \in SUBSET (1 .. n)
        BY <1>1
      <4> QED BY <1>1, <2>2, <4>1, LastIsMax
    <3>2. h[s \ {Max(s)}] \in T /\ text[Max(s)] \in C
      BY <1>1, <3>1
    <3> QED BY <1>3, <2>1, <2>2, <3>2
  <2>3. Eq(h)
    <3> HIDE DEF Op
    <3> QED BY <2>1, <2>2
  <2> QED BY <2>3
<1>7. Eq(it)
  <2> HIDE DEF Eq
  <2> QED BY <1>6, Zenon
<1>8. _lines(text) = it[DOMAIN text]
  BY Zenon DEF _lines, FoldLeft, MapThenFoldSet
<1> HIDE DEF it
<1> DEFINE Good(i) == it[1 .. i] \in T /\ FlattenSeq(it[1 .. i]) = SubSeq(text, 1, i)
           G == {i \in 0 .. n : Good(i)}
<1>9. 0 \in G
  <2>1. {} \in SUBSET DOMAIN text /\ 1 .. 0 = {} /\ 0 \in 0 .. n
    BY <1>1
  <2>2. it[{}] = <<>>
    <3> HIDE DEF Op
    <3> QED BY <1>7, <2>1
  <2>3. SubSeq(text, 1, 0) = <<>>
    BY SubSeqEmpty
  <2>4. FlattenSeq(<<>>) = <<>>
    BY EmptySeq DEF FlattenSeq
  <2> HIDE DEF T, n
  <2> QED BY <1>4, <2>1, <2>2, <2>3, <2>4
<1>10. ASSUME NEW i \in 1 .. n, i - 1 \in G PROVE i \in G
  <2> HIDE DEF T, Op, n
  <2>1. /\ i \in 0 .. n /\ 1 .. i \in SUBSET DOMAIN text /\ 1 .. i # {}
        /\ Max(1 .. i) = i /\ (1 .. i) \ {i} = 1 .. (i - 1)
    BY <1>1, Prefix
  <2>2. it[1 .. i] = Op(it[1 .. (i - 1)], text[i])
    BY <1>7, <2>1
  <2>3. Good(i - 1) /\ text[i] \in C
    BY <1>1, <1>10
  <2>4. it[1 .. i] \in T /\ FlattenSeq(it[1 .. i]) = SubSeq(text, 1, i - 1) \o <<text[i]>>
    BY <1>2, <2>2, <2>3
  <2>5. SubSeq(text, 1, i) = SubSeq(text, 1, i - 1) \o <<text[i]>>
    <3>1. 1 \in 1 .. Len(text) /\ i \in 1 .. Len(text)
      BY <1>1 DEF n
    <3> QED BY <3>1, SubSeqRecursiveSecond
  <2> QED BY <2>1, <2>4, <2>5
<1>11. Good(n)
  <2> HIDE DEF G, n, Good
  <2>1. \A i \in 0 .. n : i \in G
    BY <1>1, <1>9, <1>10, UpTo
  <2> QED BY <1>1, <2>1 DEF G
<1>12. SubSeq(text, 1, n) = text
  BY SubSeqFull
<1> QED BY <1>1, <1>8, <1>11, <1>12

\* A loop that stays among states of a kind.
HasLoop(T, base, n, step) ==
  \E h \in [0 .. n -> T] : h = [i \in 0 .. n |-> IF i = 0 THEN base ELSE step[h[i - 1]]]

LEMMA Loops ==
  ASSUME NEW T, NEW base \in T, NEW n \in Nat, NEW step \in [T -> T]
  PROVE  HasLoop(T, base, n, step)
<1> DEFINE next == [p \in T \X (1 .. n) |-> step[p[1]]]
<1>1. next \in [T \X (1 .. n) -> T] /\ \A a \in T, i \in 1 .. n : next[<<a, i>>] = step[a]
  OBVIOUS
<1> HIDE DEF next
<1>2. HasTurns(T, base, n, next)
  BY <1>1, Iterates
<1>3. PICK h \in [0 .. n -> T] : h[0] = base /\ \A i \in 1 .. n : h[i] = next[<<h[i - 1], i>>]
  BY <1>2 DEF HasTurns
<1>4. ASSUME NEW i \in 0 .. n PROVE h[i] = IF i = 0 THEN base ELSE step[h[i - 1]]
  <2>1. i # 0 => i \in 1 .. n /\ i - 1 \in 0 .. n
    OBVIOUS
  <2> QED BY <1>1, <1>3, <2>1
<1>5. h = [i \in 0 .. n |-> IF i = 0 THEN base ELSE step[h[i - 1]]]
  <2> DEFINE k == [i \in 0 .. n |-> IF i = 0 THEN base ELSE step[h[i - 1]]]
  <2>1. \A i \in 0 .. n : h[i] = k[i]
    BY <1>4
  <2>2. k = [i \in 0 .. n |-> k[i]] /\ h = [i \in 0 .. n |-> h[i]]
    BY <1>3
  <2> HIDE DEF k
  <2>3. h = k
    BY <2>1, <2>2
  <2> QED BY <2>3 DEF k
<1> QED BY <1>5 DEF HasLoop

\* What is true of the first state of a loop, and kept, is true all along.
AllAlong(n, s, T) == \A i \in 0 .. n : s[i] \in T

LEMMA LoopKeeps ==
  ASSUME NEW n \in Nat, NEW s, NEW T, s[0] \in T, \A i \in 1 .. n : s[i - 1] \in T => s[i] \in T
  PROVE  AllAlong(n, s, T)
<1> DEFINE G == {i \in 0 .. n : s[i] \in T}
<1>1. 0 \in G /\ \A i \in 1 .. n : i - 1 \in G => i \in G
  OBVIOUS
<1>2. \A i \in 0 .. n : i \in G
  <2> HIDE DEF G
  <2> QED BY <1>1, UpTo
<1> QED BY <1>2 DEF AllAlong

\* Lines that still fail, while windows of them are left out.
Passes(C, faults, prop) ==
  {p \in [kept : Seq(Seq(C)), index : Nat \ {0}, removed : BOOLEAN, used : Nat] :
     StillFails(faults, prop, FlattenSeq(p.kept))}

LEMMA WindowKeeps ==
  ASSUME NEW C, NEW faults, NEW prop, NEW chunk \in Nat, NEW p \in Passes(C, faults, prop)
  PROVE  _try_window(faults, prop, chunk, p) \in Passes(C, faults, prop)
<1> DEFINE before == SubSeq(p.kept, 1, p.index - 1)
           behind == SubSeq(p.kept, p.index + chunk, Len(p.kept))
           candidate == before \o behind
           tried == [p EXCEPT !.used = @ + 1]
<1>1. /\ p \in [kept : Seq(Seq(C)), index : Nat \ {0}, removed : BOOLEAN, used : Nat]
      /\ StillFails(faults, prop, FlattenSeq(p.kept))
      /\ Len(p.kept) \in Nat /\ \A i \in 1 .. Len(p.kept) : p.kept[i] \in Seq(C)
  <2>1. p.kept \in Seq(Seq(C))
    BY DEF Passes
  <2>2. Len(p.kept) \in Nat /\ \A i \in 1 .. Len(p.kept) : p.kept[i] \in Seq(C)
    BY <2>1, LenProperties, ElementOfSeq
  <2> QED BY <2>2 DEF Passes
<1>2. CASE p.index > Len(p.kept)
  <2>1. _try_window(faults, prop, chunk, p) = p
    BY <1>2 DEF _try_window
  <2> QED BY <2>1
<1>3. CASE ~(p.index > Len(p.kept))
  <2>1. candidate \in Seq(Seq(C))
    <3>1. before \in Seq(Seq(C))
      <4>1. \A i \in 1 .. (p.index - 1) : p.kept[i] \in Seq(C)
        BY <1>1, <1>3
      <4>2. 1 \in Int /\ p.index - 1 \in Int
        BY <1>1
      <4> QED BY <4>1, <4>2, SubSeqProperties
    <3>2. behind \in Seq(Seq(C))
      <4>1. \A i \in (p.index + chunk) .. Len(p.kept) : p.kept[i] \in Seq(C)
        BY <1>1
      <4>2. p.index + chunk \in Int /\ Len(p.kept) \in Int
        BY <1>1
      <4> QED BY <4>1, <4>2, SubSeqProperties
    <3> HIDE DEF before, behind
    <3> QED BY <3>1, <3>2, ConcatProperties
  <2>2. _try_window(faults, prop, chunk, p) =
          IF StillFails(faults, prop, FlattenSeq(candidate))
            THEN [tried EXCEPT !.kept = candidate, !.removed = TRUE]
          ELSE [tried EXCEPT !.index = @ + chunk]
    BY <1>3, Zenon DEF _try_window
  <2> HIDE DEF candidate
  <2>0. tried = [kept |-> p.kept, index |-> p.index, removed |-> p.removed, used |-> p.used + 1]
    <3>1. p = [kept |-> p.kept, index |-> p.index, removed |-> p.removed, used |-> p.used]
      BY <1>1
    <3> QED BY <3>1
  <2> HIDE DEF tried
  <2>3. CASE StillFails(faults, prop, FlattenSeq(candidate))
    <3> DEFINE q == [tried EXCEPT !.kept = candidate, !.removed = TRUE]
    <3>1. q \in [kept : Seq(Seq(C)), index : Nat \ {0}, removed : BOOLEAN, used : Nat] /\ q.kept = candidate
      <4>1. q = [kept |-> candidate, index |-> p.index, removed |-> TRUE, used |-> p.used + 1]
        <5> DEFINE r == [tried EXCEPT !.kept = candidate]
        <5>1. r = [kept |-> candidate, index |-> p.index, removed |-> p.removed, used |-> p.used + 1]
          BY <2>0
        <5>2. q = [r EXCEPT !.removed = TRUE]
          BY <2>0
        <5> HIDE DEF r, q
        <5> QED BY <5>1, <5>2
      <4>2. p.index \in Nat \ {0} /\ p.used + 1 \in Nat
        BY <1>1
      <4> HIDE DEF q
      <4> QED BY <2>1, <4>1, <4>2
    <3>2. q \in Passes(C, faults, prop)
      <4> HIDE DEF q
      <4> QED BY <2>3, <3>1 DEF Passes
    <3> QED BY <2>2, <2>3, <3>2
  <2>4. CASE ~StillFails(faults, prop, FlattenSeq(candidate))
    <3> DEFINE q == [tried EXCEPT !.index = @ + chunk]
    <3>1. q \in [kept : Seq(Seq(C)), index : Nat \ {0}, removed : BOOLEAN, used : Nat] /\ q.kept = p.kept
      <4>1. q = [kept |-> p.kept, index |-> p.index + chunk, removed |-> p.removed, used |-> p.used + 1]
        BY <2>0
      <4>2. p.index + chunk \in Nat \ {0} /\ p.used + 1 \in Nat /\ p.removed \in BOOLEAN /\ p.kept \in Seq(Seq(C))
        BY <1>1
      <4> HIDE DEF q
      <4> QED BY <4>1, <4>2
    <3>2. q \in Passes(C, faults, prop)
      <4> HIDE DEF q
      <4> QED BY <1>1, <3>1 DEF Passes
    <3> QED BY <2>2, <2>4, <3>2
  <2> QED BY <2>3, <2>4
<1> QED BY <1>2, <1>3

LEMMA PassKeeps ==
  ASSUME NEW C, NEW faults, NEW prop, NEW lines \in Seq(Seq(C)), NEW chunk \in Nat, NEW budget \in Nat,
         StillFails(faults, prop, FlattenSeq(lines))
  PROVE  _shrink_pass(faults, prop, lines, chunk, budget) \in Passes(C, faults, prop)
<1> DEFINE T == Passes(C, faults, prop)
           tries == Min({budget, Len(lines)})
           base == [kept |-> lines, index |-> 1, removed |-> FALSE, used |-> 0]
           Op(p) == _try_window(faults, prop, chunk, p)
           Eq(h) == h = [n \in 0 .. tries |-> IF n = 0 THEN base ELSE Op(h[n - 1])]
           s == CHOOSE h : Eq(h)
           step == [p \in T |-> Op(p)]
<1>1. tries \in Nat
  BY LenProperties, OneOfTwo
<1>2. base \in T /\ \A p \in T : Op(p) \in T
  BY WindowKeeps DEF Passes
<1> HIDE DEF T, base, Op, tries
<1>3. step \in [T -> T] /\ \A p \in T : step[p] = Op(p)
  BY <1>2
<1>4. HasLoop(T, base, tries, step)
  <2> HIDE DEF step
  <2> QED BY <1>1, <1>2, <1>3, Loops
<1>5. PICK h \in [0 .. tries -> T] : h = [i \in 0 .. tries |-> IF i = 0 THEN base ELSE step[h[i - 1]]]
  BY <1>4 DEF HasLoop
<1>6. Eq(h)
  <2>1. ASSUME NEW i \in 0 .. tries, i # 0 PROVE step[h[i - 1]] = Op(h[i - 1])
    <3>1. i - 1 \in 0 .. tries
      BY <1>1, <2>1
    <3> QED BY <1>3, <1>5, <3>1
  <2> HIDE DEF step
  <2> QED BY <1>5, <2>1
<1>7. Eq(s)
  <2> HIDE DEF Eq
  <2> QED BY <1>6, Zenon
<1>8. _shrink_pass(faults, prop, lines, chunk, budget) = s[tries]
  BY Zenon DEF _shrink_pass, Op, base, tries
<1> HIDE DEF s
<1>9. AllAlong(tries, s, T)
  <2>1. s[0] \in T
    BY <1>1, <1>2, <1>7
  <2>2. \A i \in 1 .. tries : s[i - 1] \in T => s[i] \in T
    BY <1>1, <1>2, <1>7
  <2> QED BY <1>1, <2>1, <2>2, LoopKeeps
<1> QED BY <1>1, <1>8, <1>9 DEF AllAlong, T

Shrunk(C, faults, prop) ==
  {p \in [lines : Seq(Seq(C)), chunk : Nat, rounds : Nat] : StillFails(faults, prop, FlattenSeq(p.lines))}

LEMMA LinesKeep ==
  ASSUME NEW C, NEW faults, NEW prop, NEW lines \in Seq(Seq(C)), NEW chunk \in Nat,
         StillFails(faults, prop, FlattenSeq(lines))
  PROVE  LET fewer == _shrink_lines(faults, prop, lines, chunk)
         IN fewer \in Seq(Seq(C)) /\ StillFails(faults, prop, FlattenSeq(fewer))
<1> DEFINE T == Shrunk(C, faults, prop)
           fuel == MaxRounds + chunk
           base == [lines |-> lines, chunk |-> chunk, rounds |-> 0]
           Op(p) == _next_pass(faults, prop, p)
           Eq(h) == h = [n \in 0 .. fuel |-> IF n = 0 THEN base ELSE Op(h[n - 1])]
           s == CHOOSE h : Eq(h)
           step == [p \in T |-> Op(p)]
<1>1. fuel \in Nat
  BY FuzzAssumption
<1>2. base \in T
  BY DEF Shrunk
<1>3. ASSUME NEW p \in T PROVE Op(p) \in T
  <2>1. /\ p \in [lines : Seq(Seq(C)), chunk : Nat, rounds : Nat]
        /\ StillFails(faults, prop, FlattenSeq(p.lines))
    BY DEF Shrunk
  <2>2. CASE p.chunk < 1 \/ p.rounds >= MaxRounds
    <3>1. Op(p) = p
      BY <2>2 DEF _next_pass
    <3> HIDE DEF Op, T
    <3> QED BY <3>1
  <2>3. CASE ~(p.chunk < 1 \/ p.rounds >= MaxRounds)
    <3> DEFINE pass == _shrink_pass(faults, prop, p.lines, p.chunk, MaxRounds - p.rounds)
    <3>1. pass \in Passes(C, faults, prop)
      <4>1. MaxRounds - p.rounds \in Nat
        BY <2>1, <2>3, FuzzAssumption
      <4> QED BY <2>1, <4>1, PassKeeps
    <3>2. Op(p) = [lines |-> pass.kept, rounds |-> p.rounds + pass.used,
                   chunk |-> IF pass.removed THEN p.chunk ELSE p.chunk \div 2]
      BY <2>3 DEF _next_pass
    <3> HIDE DEF pass, Op
    <3>3. p.chunk \div 2 \in Nat
      BY <2>1
    <3>4. pass.kept \in Seq(Seq(C)) /\ pass.used \in Nat /\ StillFails(faults, prop, FlattenSeq(pass.kept))
      BY <3>1 DEF Passes
    <3>5. Op(p) \in [lines : Seq(Seq(C)), chunk : Nat, rounds : Nat] /\ Op(p).lines = pass.kept
      BY <2>1, <3>2, <3>3, <3>4
    <3> QED BY <3>4, <3>5 DEF Shrunk
  <2> QED BY <2>2, <2>3
<1>4. \A q \in T : q.lines \in Seq(Seq(C)) /\ StillFails(faults, prop, FlattenSeq(q.lines))
  BY DEF Shrunk
<1> HIDE DEF T, base, Op, fuel
<1>5. step \in [T -> T] /\ \A p \in T : step[p] = Op(p)
  BY <1>3
<1>6. HasLoop(T, base, fuel, step)
  <2> HIDE DEF step
  <2> QED BY <1>1, <1>2, <1>5, Loops
<1>7. PICK h \in [0 .. fuel -> T] : h = [i \in 0 .. fuel |-> IF i = 0 THEN base ELSE step[h[i - 1]]]
  BY <1>6 DEF HasLoop
<1>8. Eq(h)
  <2>1. ASSUME NEW i \in 0 .. fuel, i # 0 PROVE step[h[i - 1]] = Op(h[i - 1])
    <3>1. i - 1 \in 0 .. fuel
      BY <1>1, <2>1
    <3> QED BY <1>5, <1>7, <3>1
  <2> HIDE DEF step
  <2> QED BY <1>7, <2>1
<1>9. Eq(s)
  <2> HIDE DEF Eq
  <2> QED BY <1>8, Zenon
<1>10. _shrink_lines(faults, prop, lines, chunk) = s[fuel].lines
  BY Zenon DEF _shrink_lines, Op, base, fuel
<1> HIDE DEF s
<1>11. AllAlong(fuel, s, T)
  <2>1. s[0] \in T
    BY <1>1, <1>2, <1>9
  <2>2. \A i \in 1 .. fuel : s[i - 1] \in T => s[i] \in T
    BY <1>1, <1>3, <1>9
  <2> QED BY <1>1, <2>1, <2>2, LoopKeeps
<1>12. s[fuel] \in T
  BY <1>1, <1>11 DEF AllAlong
<1> QED BY <1>4, <1>10, <1>12

\* A text that fails, and fails no more without its last character.
Least(faults, prop, text) == text = <<>> \/ ~StillFails(faults, prop, Front(text))

Tails(C, faults, prop) ==
  {t \in [text : Seq(C), step : Nat] :
     StillFails(faults, prop, t.text) /\ (t.step = 0 => Least(faults, prop, t.text))}

\* A cut keeps that the text fails, and makes it shorter or the next cut.
LEMMA CutKeeps ==
  ASSUME NEW C, NEW faults, NEW prop, NEW t \in Tails(C, faults, prop)
  PROVE  LET cut == _cut(faults, prop, t)
         IN /\ cut \in Tails(C, faults, prop)
            /\ cut.step = 0 \/ Len(cut.text) + cut.step < Len(t.text) + t.step
<1> DEFINE shorter == SubSeq(t.text, 1, Len(t.text) - t.step)
           cut == _cut(faults, prop, t)
<1>1. /\ t = [text |-> t.text, step |-> t.step] /\ t.text \in Seq(C) /\ t.step \in Nat /\ Len(t.text) \in Nat
      /\ StillFails(faults, prop, t.text) /\ (t.step = 0 => Least(faults, prop, t.text))
      /\ \A i \in 1 .. Len(t.text) : t.text[i] \in C
  <2>1. t \in [text : Seq(C), step : Nat] /\ t.text \in Seq(C)
    BY DEF Tails
  <2>2. Len(t.text) \in Nat /\ \A i \in 1 .. Len(t.text) : t.text[i] \in C
    BY <2>1, LenProperties, ElementOfSeq
  <2>3. t = [text |-> t.text, step |-> t.step] /\ t.step \in Nat
    BY <2>1
  <2> QED BY <2>1, <2>2, <2>3 DEF Tails
<1>2. CASE t.step < 1
  <2>1. cut = t
    BY <1>2 DEF _cut
  <2> HIDE DEF cut
  <2> QED BY <1>1, <1>2, <2>1 DEF cut
<1>3. CASE t.step >= 1 /\ Len(t.text) >= t.step /\ StillFails(faults, prop, shorter)
  <2>1. cut = [t EXCEPT !.text = shorter]
    BY <1>1, <1>3 DEF _cut
  <2>2. shorter \in Seq(C) /\ Len(shorter) = Len(t.text) - t.step
    <3> DEFINE k == Len(t.text) - t.step
    <3>1. 1 \in Int /\ k \in Int /\ k >= 0 /\ \A i \in 1 .. k : t.text[i] \in C
      BY <1>1, <1>3
    <3> HIDE DEF k
    <3>2. SubSeq(t.text, 1, k) \in Seq(C) /\ Len(SubSeq(t.text, 1, k)) = IF 1 <= k THEN k - 1 + 1 ELSE 0
      BY <3>1, SubSeqProperties
    <3>3. Len(SubSeq(t.text, 1, k)) = k
      BY <3>1, <3>2
    <3> QED BY <3>2, <3>3 DEF k
  <2> HIDE DEF shorter, cut
  <2>3. cut = [text |-> shorter, step |-> t.step]
    BY <1>1, <2>1
  <2>4. cut \in Tails(C, faults, prop)
    BY <1>1, <1>3, <2>2, <2>3 DEF Tails
  <2>5. Len(cut.text) + cut.step < Len(t.text) + t.step
    BY <1>1, <1>3, <2>2, <2>3
  <2> QED BY <2>4, <2>5 DEF cut
<1>4. CASE t.step >= 1 /\ ~(Len(t.text) >= t.step /\ StillFails(faults, prop, shorter))
  <2>1. cut = [t EXCEPT !.step = @ \div 2]
    BY <1>1, <1>4 DEF _cut
  <2> HIDE DEF cut
  <2>2. cut = [text |-> t.text, step |-> t.step \div 2]
    BY <1>1, <2>1
  <2>3. t.step \div 2 \in Nat /\ t.step \div 2 < t.step /\ (t.step \div 2 = 0 => t.step = 1)
    <3> HIDE DEF shorter
    <3> QED BY <1>1, <1>4
  <2>4. t.step = 1 => Least(faults, prop, t.text)
    <3>1. ASSUME t.step = 1, Len(t.text) >= 1 PROVE ~StillFails(faults, prop, Front(t.text))
      BY <1>4, <3>1 DEF Front
    <3>2. Len(t.text) < 1 => t.text = <<>>
      BY <1>1, EmptySeq
    <3> HIDE DEF shorter
    <3> QED BY <1>1, <3>1, <3>2 DEF Least
  <2>5. cut \in Tails(C, faults, prop)
    BY <1>1, <2>2, <2>3, <2>4 DEF Tails
  <2>6. Len(cut.text) + cut.step < Len(t.text) + t.step
    <3> HIDE DEF shorter
    <3> QED BY <1>1, <2>2, <2>3
  <2> QED BY <2>5, <2>6 DEF cut
<1>5. t.step < 1 \/ t.step >= 1
  BY <1>1
<1> QED BY <1>2, <1>3, <1>4, <1>5

\* The tail is cut off until nothing is left to try.
LEMMA TailIsLeast ==
  ASSUME NEW C, NEW faults, NEW prop, NEW text \in Seq(C), NEW from \in Nat \ {0},
         StillFails(faults, prop, text)
  PROVE  LET least == _shrink_tail(faults, prop, text, from)
         IN least \in Seq(C) /\ StillFails(faults, prop, least) /\ Least(faults, prop, least)
<1> DEFINE T == Tails(C, faults, prop)
           fuel == Len(text) + from
           base == [text |-> text, step |-> from]
           Op(t) == _cut(faults, prop, t)
           Eq(h) == h = [n \in 0 .. fuel |-> IF n = 0 THEN base ELSE Op(h[n - 1])]
           s == CHOOSE h : Eq(h)
           step == [t \in T |-> Op(t)]
<1>1. fuel \in Nat /\ base.text = text /\ base.step = from /\ fuel = Len(base.text) + base.step
  BY LenProperties
<1>2. base \in T /\ \A t \in T : Op(t) \in T
  <2>1. base \in T
    BY DEF Tails
  <2>2. \A t \in T : Op(t) \in T
    BY CutKeeps
  <2> QED BY <2>1, <2>2
<1>3. \A t \in T : Op(t).step = 0 \/ Len(Op(t).text) + Op(t).step < Len(t.text) + t.step
  BY CutKeeps
<1>4. \A t \in T : /\ t.text \in Seq(C) /\ t.step \in Nat /\ Len(t.text) \in Nat
                   /\ StillFails(faults, prop, t.text) /\ (t.step = 0 => Least(faults, prop, t.text))
  BY LenProperties DEF Tails
<1>5. \A t \in T : t.step = 0 => Op(t).step = 0
  BY DEF _cut
<1> HIDE DEF T, base, Op, fuel
<1>6. step \in [T -> T] /\ \A t \in T : step[t] = Op(t)
  BY <1>2
<1>7. HasLoop(T, base, fuel, step)
  <2> HIDE DEF step
  <2> QED BY <1>1, <1>2, <1>6, Loops
<1>8. PICK h \in [0 .. fuel -> T] : h = [i \in 0 .. fuel |-> IF i = 0 THEN base ELSE step[h[i - 1]]]
  BY <1>7 DEF HasLoop
<1>9. Eq(h)
  <2>1. ASSUME NEW i \in 0 .. fuel, i # 0 PROVE step[h[i - 1]] = Op(h[i - 1])
    <3>1. i - 1 \in 0 .. fuel
      BY <1>1, <2>1
    <3> QED BY <1>6, <1>8, <3>1
  <2> HIDE DEF step
  <2> QED BY <1>8, <2>1
<1>10. Eq(s)
  <2> HIDE DEF Eq
  <2> QED BY <1>9, Zenon
<1>11. _shrink_tail(faults, prop, text, from) = s[fuel].text
  BY Zenon DEF _shrink_tail, Op, base, fuel
<1> HIDE DEF s
<1> DEFINE Good(i) == s[i] \in T /\ (s[i].step = 0 \/ Len(s[i].text) + s[i].step <= fuel - i)
           G == {i \in 0 .. fuel : Good(i)}
<1>12. 0 \in G
  <2>1. s[0] = base /\ 0 \in 0 .. fuel
    BY <1>1, <1>10
  <2> QED BY <1>1, <1>2, <2>1
<1>13. ASSUME NEW i \in 1 .. fuel, i - 1 \in G PROVE i \in G
  <2>1. s[i] = Op(s[i - 1]) /\ i \in 0 .. fuel
    <3>1. i \in 0 .. fuel /\ i # 0
      BY <1>1
    <3> QED BY <1>10, <3>1
  <2>2. PICK t \in T : t = s[i - 1] /\ (t.step = 0 \/ Len(t.text) + t.step <= fuel - (i - 1))
    BY <1>13
  <2>3. PICK u \in T : u = Op(t) /\ (t.step = 0 => u.step = 0)
                       /\ (u.step = 0 \/ Len(u.text) + u.step < Len(t.text) + t.step)
    BY <1>2, <1>3, <1>5
  <2>4. u.step = 0 \/ Len(u.text) + u.step <= fuel - i
    <3> DEFINE a == Len(u.text) + u.step
               b == Len(t.text) + t.step
    <3>1. a \in Nat /\ b \in Nat
      BY <1>4
    <3>2. CASE t.step = 0
      BY <2>3, <3>2
    <3>3. CASE t.step # 0
      <4>1. b <= fuel - (i - 1) /\ (u.step = 0 \/ a < b)
        BY <2>2, <2>3, <3>3
      <4> HIDE DEF a, b
      <4>2. u.step = 0 \/ a <= fuel - i
        BY <1>1, <3>1, <4>1
      <4> QED BY <4>2 DEF a
    <3> QED BY <3>2, <3>3
  <2> QED BY <2>1, <2>2, <2>3, <2>4
<1>14. Good(fuel)
  <2> HIDE DEF G, Good
  <2>1. \A i \in 0 .. fuel : i \in G
    BY <1>1, <1>12, <1>13, UpTo
  <2> QED BY <1>1, <2>1 DEF G
<1>15. PICK t \in T : t = s[fuel] /\ t.step = 0
  <2>1. PICK t \in T : t = s[fuel] /\ (t.step = 0 \/ Len(t.text) + t.step <= fuel - fuel)
    BY <1>14
  <2>2. t.step \in Nat /\ Len(t.text) \in Nat
    BY <1>4
  <2> QED BY <1>1, <2>1, <2>2
<1> QED BY <1>4, <1>11, <1>15

\* What a text is shrunk to fails as it did, and is least.
LEMMA ShrinkIsLeast ==
  ASSUME NEW C, NEW faults, NEW prop, NEW text \in Seq(C), StillFails(faults, prop, text)
  PROVE  LET least == shrink(faults, prop, text)
         IN least \in Seq(C) /\ StillFails(faults, prop, least) /\ Least(faults, prop, least)
<1> DEFINE lines == _lines(text)
           chunk == Max({1, Len(lines) \div 2})
           kept == _shrink_lines(faults, prop, lines, chunk)
           fewer == FlattenSeq(kept)
           from == Max({1, Len(fewer) \div 2})
<1>1. \A k \in Nat : Max({1, k \div 2}) \in Nat \ {0}
  <2>1. ASSUME NEW k \in Nat PROVE Max({1, k \div 2}) \in Nat \ {0}
    <3>1. k \div 2 \in Nat
      OBVIOUS
    <3> DEFINE d == k \div 2
    <3> HIDE DEF d
    <3>2. d \in Nat
      BY <3>1 DEF d
    <3>3. \E x \in {1, d} : \A y \in {1, d} : x >= y
      BY <3>2
    <3>4. Max({1, d}) \in {1, d} /\ \A y \in {1, d} : Max({1, d}) >= y
      BY <3>3, Zenon DEF Max
    <3>5. Max({1, d}) \in Nat \ {0}
      BY <3>2, <3>4
    <3> QED BY <3>5 DEF d
  <2> QED BY <2>1
<1>2. lines \in Seq(Seq(C)) /\ FlattenSeq(lines) = text
  BY LinesAreText
<1> HIDE DEF lines
<1>3. chunk \in Nat
  BY <1>1, <1>2, LenProperties
<1> HIDE DEF chunk
<1>4. kept \in Seq(Seq(C)) /\ StillFails(faults, prop, fewer)
  BY <1>2, <1>3, LinesKeep
<1> HIDE DEF kept
<1>5. fewer \in Seq(C)
  BY <1>4, FlattenIsText
<1> HIDE DEF fewer
<1>6. from \in Nat \ {0}
  BY <1>1, <1>5, LenProperties
<1> HIDE DEF from
<1>7. shrink(faults, prop, text) = _shrink_tail(faults, prop, fewer, from)
  BY Zenon DEF shrink, lines, chunk, kept, fewer, from
<1> QED BY <1>4, <1>5, <1>6, <1>7, TailIsLeast

\* What is kept of a campaign: a least text for each failure, and one of a failure.
KeptCases(C, faults) ==
  {c \in [seen : SUBSET {_failure_class(f) : f \in ToSet(faults)}, failures : SUBSET ToSet(faults),
          corpus : SUBSET Seq(C)] :
     /\ c.seen = {_failure_class(f) : f \in c.failures}
     /\ \A f \in c.failures : \E t \in c.corpus : StillFails(faults, f.prop, t)
     /\ \A t \in c.corpus : \E f \in c.failures : StillFails(faults, f.prop, t) /\ Least(faults, f.prop, t)}

LEMMA CaseKeeps ==
  ASSUME NEW C, NEW faults, faults \in Seq(ToSet(faults)), NEW campaign \in KeptCases(C, faults), NEW text \in Seq(C)
  PROVE  LET failure == FirstFailure(faults, text)
             next == IF failure = NoFailure \/ _failure_class(failure) \in campaign.seen THEN campaign
                     ELSE [seen |-> campaign.seen \cup {_failure_class(failure)},
                           failures |-> campaign.failures \cup {failure},
                           corpus |-> campaign.corpus \cup {shrink(faults, failure.prop, text)}]
         IN /\ next \in KeptCases(C, faults) /\ campaign.seen \subseteq next.seen
            /\ failure # NoFailure => _failure_class(failure) \in next.seen
<1> DEFINE failure == FirstFailure(faults, text)
           least == shrink(faults, failure.prop, text)
           class == _failure_class(failure)
           next == [seen |-> campaign.seen \cup {class}, failures |-> campaign.failures \cup {failure},
                    corpus |-> campaign.corpus \cup {least}]
<1>1. CASE failure = NoFailure \/ class \in campaign.seen
  BY <1>1
<1>2. CASE ~(failure = NoFailure \/ class \in campaign.seen)
  <2>1. failure \in ToSet(faults)
    BY <1>2, FirstIsAFault
  <2>2. StillFails(faults, failure.prop, text)
    BY <1>2 DEF StillFails
  <2>3. least \in Seq(C) /\ StillFails(faults, failure.prop, least) /\ Least(faults, failure.prop, least)
    BY <2>2, ShrinkIsLeast
  <2>4. /\ campaign.seen = {_failure_class(f) : f \in campaign.failures}
        /\ campaign.failures \in SUBSET ToSet(faults) /\ campaign.corpus \in SUBSET Seq(C)
        /\ \A f \in campaign.failures : \E t \in campaign.corpus : StillFails(faults, f.prop, t)
        /\ \A t \in campaign.corpus : \E f \in campaign.failures :
             StillFails(faults, f.prop, t) /\ Least(faults, f.prop, t)
    BY DEF KeptCases
  <2> HIDE DEF failure, least
  <2>5. /\ next.seen = {_failure_class(f) : f \in next.failures}
        /\ next.failures \in SUBSET ToSet(faults) /\ next.corpus \in SUBSET Seq(C)
    BY <2>1, <2>3, <2>4
  <2>6. /\ \A f \in next.failures : \E t \in next.corpus : StillFails(faults, f.prop, t)
        /\ \A t \in next.corpus : \E f \in next.failures :
             StillFails(faults, f.prop, t) /\ Least(faults, f.prop, t)
    BY <2>3, <2>4
  <2>7. next = [seen |-> next.seen, failures |-> next.failures, corpus |-> next.corpus]
    OBVIOUS
  <2>8. campaign.seen \subseteq next.seen /\ class \in next.seen
    OBVIOUS
  <2> HIDE DEF next
  <2>9. next \in KeptCases(C, faults)
    <3>1. next.seen \in SUBSET {_failure_class(f) : f \in ToSet(faults)}
      BY <2>5
    <3>2. next \in [seen : SUBSET {_failure_class(f) : f \in ToSet(faults)}, failures : SUBSET ToSet(faults),
                    corpus : SUBSET Seq(C)]
      BY <2>5, <2>7, <3>1
    <3> QED BY <2>5, <2>6, <3>2, Zenon DEF KeptCases
  <2> QED BY <1>2, <2>8, <2>9 DEF failure, next, least
<1> QED BY <1>1, <1>2

\* A campaign sees every case.
LEMMA Exploring ==
  ASSUME NEW C, NEW faults, faults \in Seq(ToSet(faults)), NEW cases \in Seq(Seq(C))
  PROVE  LET campaign == explore(faults, cases)
         IN /\ campaign \in KeptCases(C, faults)
            /\ \A i \in 1 .. Len(cases) :
                 LET failure == FirstFailure(faults, cases[i])
                 IN failure # NoFailure => _failure_class(failure) \in campaign.seen
<1> DEFINE T == KeptCases(C, faults)
           S == Seq(C)
           n == Len(cases)
           base == [seen |-> {}, failures |-> {}, corpus |-> {}]
           Op(c, text) ==
             LET failure == FirstFailure(faults, text)
             IN IF failure = NoFailure \/ _failure_class(failure) \in c.seen THEN c
                ELSE [seen |-> c.seen \cup {_failure_class(failure)},
                      failures |-> c.failures \cup {failure},
                      corpus |-> c.corpus \cup {shrink(faults, failure.prop, text)}]
           Heard(c, text) == FirstFailure(faults, text) # NoFailure => _failure_class(FirstFailure(faults, text)) \in c.seen
           Eq(h) == h = [s \in SUBSET DOMAIN cases |->
                           IF s = {} THEN base ELSE Op(h[s \ {Max(s)}], cases[Max(s)])]
           it == CHOOSE h : Eq(h)
           step == [p \in T \X S |-> Op(p[1], p[2])]
<1>1. n \in Nat /\ DOMAIN cases = 1 .. n /\ \A i \in 1 .. n : cases[i] \in S
  BY LenProperties, ElementOfSeq
<1>2. ASSUME NEW c \in T, NEW text \in S
      PROVE  Op(c, text) \in T /\ c.seen \subseteq Op(c, text).seen /\ Heard(Op(c, text), text)
  BY CaseKeeps
<1>3. base \in T
  BY DEF KeptCases
<1>4. explore(faults, cases) = it[DOMAIN cases]
  BY Zenon DEF explore, FoldLeft, MapThenFoldSet
<1> HIDE DEF T, S, Op, base, n, Heard
<1>5. /\ step \in [T \X S -> T]
      /\ \A c \in T, text \in S : step[<<c, text>>] = Op(c, text)
  BY <1>2
<1>6. HasTable(T, base, cases, step)
  <2>1. cases \in Seq(S)
    BY DEF S
  <2> HIDE DEF step
  <2> QED BY <1>3, <1>5, <2>1, FoldTable
<1>7. \E h : Eq(h)
  <2> HIDE DEF step
  <2>1. PICK h \in [SUBSET DOMAIN cases -> T] :
          \A s \in SUBSET DOMAIN cases : h[s] = IF s = {} THEN base ELSE step[<<h[s \ {Max(s)}], cases[Max(s)]>>]
    BY <1>6 DEF HasTable
  <2>2. ASSUME NEW s \in SUBSET DOMAIN cases, s # {}
        PROVE  h[s] = Op(h[s \ {Max(s)}], cases[Max(s)])
    <3>1. Max(s) \in s
      <4>1. s \in SUBSET (1 .. n)
        BY <1>1
      <4> QED BY <1>1, <2>2, <4>1, LastIsMax
    <3>2. h[s \ {Max(s)}] \in T /\ cases[Max(s)] \in S
      BY <1>1, <3>1
    <3> QED BY <1>5, <2>1, <2>2, <3>2
  <2>3. Eq(h)
    BY <2>1, <2>2
  <2> QED BY <2>3
<1>8. Eq(it)
  <2> HIDE DEF Eq
  <2> QED BY <1>7, Zenon
<1> HIDE DEF it
<1> DEFINE Good(i) == it[1 .. i] \in T /\ \A j \in 1 .. i : Heard(it[1 .. i], cases[j])
           G == {i \in 0 .. n : Good(i)}
<1>9. 0 \in G
  <2>1. {} \in SUBSET DOMAIN cases /\ 1 .. 0 = {} /\ 0 \in 0 .. n
    BY <1>1
  <2>2. it[{}] = base
    BY <1>8, <2>1
  <2> QED BY <1>3, <2>1, <2>2
<1>10. ASSUME NEW i \in 1 .. n, i - 1 \in G PROVE i \in G
  <2>1. /\ i \in 0 .. n /\ 1 .. i \in SUBSET DOMAIN cases /\ 1 .. i # {}
        /\ Max(1 .. i) = i /\ (1 .. i) \ {i} = 1 .. (i - 1)
    <3>1. n \in Nat /\ DOMAIN cases = 1 .. n /\ i \in 0 .. n
      BY <1>1
    <3>2. /\ 1 .. i \in SUBSET (1 .. n) /\ 1 .. i # {}
          /\ Max(1 .. i) = i /\ (1 .. i) \ {i} = 1 .. (i - 1)
      BY <3>1, Prefix
    <3> QED BY <3>1, <3>2
  <2>2. it[1 .. i] = Op(it[1 .. (i - 1)], cases[i])
    BY <1>8, <2>1
  <2>3. PICK c \in T : c = it[1 .. (i - 1)] /\ \A j \in 1 .. (i - 1) : Heard(c, cases[j])
    BY <1>10
  <2>4. PICK d \in T : d = it[1 .. i] /\ c.seen \subseteq d.seen /\ Heard(d, cases[i])
    BY <1>1, <1>2, <2>2, <2>3
  <2>5. ASSUME NEW j \in 1 .. i PROVE Heard(d, cases[j])
    <3>1. j = i \/ j \in 1 .. (i - 1)
      BY <1>1
    <3>2. CASE j \in 1 .. (i - 1)
      BY <2>3, <2>4, <3>2 DEF Heard
    <3> QED BY <2>4, <3>1, <3>2
  <2> QED BY <2>1, <2>4, <2>5
<1>11. Good(n)
  <2> HIDE DEF G, Good
  <2>1. \A i \in 0 .. n : i \in G
    BY <1>1, <1>9, <1>10, UpTo
  <2> QED BY <1>1, <2>1 DEF G
<1>12. explore(faults, cases) \in T /\ \A j \in 1 .. n : Heard(explore(faults, cases), cases[j])
  BY <1>1, <1>4, <1>11
<1> QED BY <1>12 DEF T, n, Heard

\* Every failure of a case stays found: a text is kept that fails the same property,
\* so that the gate stops on the replay what it stops on the campaign; and a text that
\* is kept fails no more without its last character.
THEOREM DefectsAreKept == InsSpec => []CampaignKeepsWhatItFound
<1>1. InsInv => CampaignKeepsWhatItFound
  <2> SUFFICES ASSUME InsInv, Answered("fuzz") PROVE CampaignKeepsWhatItFound
    BY DEF CampaignKeepsWhatItFound, NoDefectIsLost, CasesAreMinimal
  <2> DEFINE faults == given.faults
             cases == given.cases
             campaign == explore(faults, cases)
             C == UNION {ToSet(text) : text \in ToSet(cases)}
  <2>1. /\ given \in Campaigns
        /\ answer = [campaign |-> campaign, replayed |-> replay(faults, campaign.corpus)]
    BY DEF InsInv, Answered
  <2>2. /\ faults \in Seq(ToSet(faults)) /\ NoFailure \notin ToSet(faults)
        /\ \A f, g \in ToSet(faults) :
             /\ f.prop = g.prop => f.gates = g.gates
             /\ _failure_class(f) = _failure_class(g) => f = g
        /\ cases \in Seq(ToSet(cases)) /\ \A text \in ToSet(cases) : text \in Seq(ToSet(text))
    BY <2>1, CampaignAssumption
  <2>3. cases \in Seq(Seq(C)) /\ DOMAIN cases = 1 .. Len(cases)
    <3>1. ASSUME NEW text \in ToSet(cases) PROVE text \in Seq(C)
      <4>1. ToSet(text) \subseteq C
        OBVIOUS
      <4> HIDE DEF C
      <4> QED BY <2>2, <4>1, SeqMonotonic
    <3>2. ToSet(cases) \subseteq Seq(C)
      BY <3>1
    <3> HIDE DEF C, cases
    <3> QED BY <2>2, <3>2, SeqMonotonic, LenProperties
  <2> HIDE DEF C
  <2>4. /\ campaign \in KeptCases(C, faults)
        /\ \A i \in 1 .. Len(cases) :
             FirstFailure(faults, cases[i]) # NoFailure =>
               _failure_class(FirstFailure(faults, cases[i])) \in campaign.seen
    BY <2>2, <2>3, Exploring
  <2> HIDE DEF campaign
  <2>5. /\ campaign.seen = {_failure_class(f) : f \in campaign.failures}
        /\ campaign.failures \in SUBSET ToSet(faults)
        /\ \A f \in campaign.failures : \E t \in campaign.corpus : StillFails(faults, f.prop, t)
        /\ \A t \in campaign.corpus : \E f \in campaign.failures :
             StillFails(faults, f.prop, t) /\ Least(faults, f.prop, t)
    BY <2>4 DEF KeptCases
  <2>6. ASSUME NEW i \in 1 .. Len(cases), FirstFailure(faults, cases[i]) # NoFailure
        PROVE  FirstFailure(faults, cases[i]) \in campaign.failures
    <3> DEFINE failure == FirstFailure(faults, cases[i])
    <3>1. failure \in ToSet(faults)
      BY <2>2, <2>6, FirstIsAFault
    <3>2. PICK f \in campaign.failures : _failure_class(f) = _failure_class(failure)
      BY <2>4, <2>5, <2>6
    <3> HIDE DEF failure
    <3>3. f = failure
      BY <2>2, <2>5, <3>1, <3>2
    <3> QED BY <3>3 DEF failure
  <2>7. gating_failures(answer.replayed) # {} <=> gating_failures(answer.campaign.failures) # {}
    <3>1. /\ answer.campaign = campaign
          /\ answer.replayed = {FirstFailure(faults, t) : t \in campaign.corpus} \ {NoFailure}
      BY <2>1 DEF replay
    <3>2. ASSUME NEW f \in campaign.failures, NEW t \in campaign.corpus, StillFails(faults, f.prop, t)
          PROVE  FirstFailure(faults, t) \in answer.replayed /\ FirstFailure(faults, t).gates = f.gates
      <4>1. FirstFailure(faults, t) # NoFailure /\ FirstFailure(faults, t).prop = f.prop
        BY <3>2 DEF StillFails
      <4>2. FirstFailure(faults, t) \in ToSet(faults)
        BY <2>2, <4>1, FirstIsAFault
      <4> QED BY <2>2, <2>5, <3>1, <4>1, <4>2
    <3>3. ASSUME NEW f \in campaign.failures, f.gates PROVE gating_failures(answer.replayed) # {}
      <4>1. PICK t \in campaign.corpus : StillFails(faults, f.prop, t)
        BY <2>5
      <4> QED BY <3>2, <3>3, <4>1 DEF gating_failures
    <3>4. ASSUME NEW g \in answer.replayed, g.gates PROVE gating_failures(campaign.failures) # {}
      <4>1. PICK t \in campaign.corpus : g = FirstFailure(faults, t)
        BY <3>1
      <4>2. PICK f \in campaign.failures : StillFails(faults, f.prop, t)
        BY <2>5
      <4> QED BY <3>2, <3>4, <4>1, <4>2 DEF gating_failures
    <3> QED BY <3>1, <3>3, <3>4 DEF gating_failures
  <2>8. NoDefectIsLost
    <3>1. answer.campaign = campaign
      BY <2>1
    <3> QED BY <2>3, <2>5, <2>6, <2>7, <3>1 DEF NoDefectIsLost
  <2>9. CasesAreMinimal
    <3>1. answer.campaign = campaign
      BY <2>1
    <3> QED BY <2>5, <3>1 DEF CasesAreMinimal, Least
  <2> QED BY <2>8, <2>9 DEF CampaignKeepsWhatItFound
<1> QED BY <1>1, InsInvariance, PTL
-----------------------------------------------------------------------------
\* Searches.

IsGraph(graph) ==
  /\ graph = [symbols |-> graph.symbols, edges |-> graph.edges]
  /\ graph.symbols \in Seq(ToSet(graph.symbols)) /\ graph.edges \in Seq(ToSet(graph.edges))
  /\ \A e \in ToSet(graph.edges) : e \in [source : {e.source}, target : {e.target}, defines : BOOLEAN]

\* A sequence has at most as many members as places.
LEMMA SizeOf ==
  ASSUME NEW S, NEW seq \in Seq(S)
  PROVE  IsFiniteSet(ToSet(seq)) /\ Cardinality(ToSet(seq)) <= Len(seq)
<1> DEFINE R == ToSet(seq)
<1>1. Len(seq) \in Nat /\ seq \in [1 .. Len(seq) -> S] /\ DOMAIN seq = 1 .. Len(seq)
  BY LenProperties
<1>2. seq \in [1 .. Len(seq) -> R] /\ \A r \in R : \E i \in 1 .. Len(seq) : seq[i] = r
  BY <1>1 DEF ToSet
<1> HIDE DEF R
<1>3. ExistsSurjection(1 .. Len(seq), R)
  BY <1>2 DEF ExistsSurjection, Surjection
<1> QED BY <1>1, <1>3, FS_NatSurjection, FS_SurjCardinalityBound DEF R

\* What is appended is a member, as the others are; so is what is taken from the front.
LEMMA AppendIs ==
  ASSUME NEW S, NEW seq \in Seq(S), NEW e \in S
  PROVE  /\ Append(seq, e) \in Seq(S) /\ Len(Append(seq, e)) = Len(seq) + 1 /\ Len(seq) \in Nat
         /\ ToSet(Append(seq, e)) = ToSet(seq) \cup {e}
<1> DEFINE q == Append(seq, e)
           n == Len(seq)
<1>1. /\ q \in Seq(S) /\ Len(q) = n + 1 /\ n \in Nat
      /\ \A i \in 1 .. n : q[i] = seq[i]
      /\ q[n + 1] = e
  BY AppendProperties, LenProperties
<1>2. DOMAIN q = 1 .. (n + 1) /\ DOMAIN seq = 1 .. n
  BY <1>1, LenProperties
<1> HIDE DEF q, n
<1>3. \A i \in 1 .. (n + 1) : i \in 1 .. n \/ i = n + 1
  BY <1>1
<1>4. n + 1 \in 1 .. (n + 1) /\ \A i \in 1 .. n : i \in 1 .. (n + 1)
  BY <1>1
<1>5. ToSet(q) = ToSet(seq) \cup {e}
  BY <1>1, <1>2, <1>3, <1>4 DEF ToSet
<1> QED BY <1>1, <1>5 DEF q, n

LEMMA TailIs ==
  ASSUME NEW S, NEW seq \in Seq(S), seq # <<>>
  PROVE  /\ Tail(seq) \in Seq(S) /\ Len(Tail(seq)) = Len(seq) - 1 /\ Len(seq) \in Nat \ {0}
         /\ ToSet(seq) = ToSet(Tail(seq)) \cup {Head(seq)}
<1> DEFINE q == Tail(seq)
           n == Len(seq)
<1>1. /\ q \in Seq(S) /\ Len(q) = n - 1 /\ n \in Nat \ {0}
      /\ \A i \in 1 .. Len(q) : q[i] = seq[i + 1]
  BY HeadTailProperties, EmptySeq
<1>2. DOMAIN q = 1 .. (n - 1) /\ DOMAIN seq = 1 .. n /\ Head(seq) = seq[1]
  BY <1>1, LenProperties
<1> HIDE DEF q, n
<1>3. \A i \in 1 .. n : i = 1 \/ (i - 1 \in 1 .. (n - 1) /\ (i - 1) + 1 = i)
  BY <1>1
<1>4. 1 \in 1 .. n /\ \A i \in 1 .. (n - 1) : i + 1 \in 1 .. n
  BY <1>1
<1>5. \A i \in 1 .. n : i = 1 \/ (i - 1 \in 1 .. (n - 1) /\ seq[i] = q[i - 1])
  BY <1>1, <1>3
<1>6. \A i \in 1 .. (n - 1) : i + 1 \in 1 .. n /\ q[i] = seq[i + 1]
  BY <1>1, <1>4
<1>7. ToSet(seq) = ToSet(q) \cup {Head(seq)}
  <2>1. ASSUME NEW x \in ToSet(seq) PROVE x \in ToSet(q) \cup {Head(seq)}
    BY <1>2, <1>5 DEF ToSet
  <2>2. ASSUME NEW x \in ToSet(q) PROVE x \in ToSet(seq)
    BY <1>2, <1>6 DEF ToSet
  <2>3. Head(seq) \in ToSet(seq)
    BY <1>2, <1>4 DEF ToSet
  <2> QED BY <2>1, <2>2, <2>3
<1> QED BY <1>1, <1>7 DEF q, n

\* What leads to a node, along arrows: the least set that is closed.
Ends(P) == {p[1] : p \in P} \cup {p[2] : p \in P}

ClosedUnder(P, node, S) == \A p \in P : p[2] \in S \cup {node} => p[1] \in S

Reach(P, node) == {n \in Ends(P) : \A S \in SUBSET Ends(P) : ClosedUnder(P, node, S) => n \in S}

Uses(graph) == {<<e.source, e.target>> : e \in {x \in ToSet(graph.edges) : ~x.defines}}

Arrows(graph) == {<<e.source, e.target>> : e \in ToSet(graph.edges)}

LEMMA ReachingIs ==
  ASSUME NEW graph, NEW node
  PROVE  Reaching(graph, node) = Reach(Uses(graph), node)
BY DEF Reaching, Reach, Uses, Ends, ClosedUnder

LEMMA ReachFacts ==
  ASSUME NEW P, NEW node
  PROVE  /\ Reach(P, node) \subseteq Ends(P) /\ ClosedUnder(P, node, Reach(P, node))
         /\ \A S \in SUBSET Ends(P) : ClosedUnder(P, node, S) => Reach(P, node) \subseteq S
<1>1. ASSUME NEW p \in P, p[2] \in Reach(P, node) \cup {node} PROVE p[1] \in Reach(P, node)
  <2>1. p[1] \in Ends(P)
    BY DEF Ends
  <2>2. ASSUME NEW S \in SUBSET Ends(P), ClosedUnder(P, node, S) PROVE p[1] \in S
    <3>1. p[2] \in S \cup {node}
      BY <1>1, <2>2 DEF Reach
    <3> QED BY <2>2, <3>1 DEF ClosedUnder
  <2> QED BY <2>1, <2>2 DEF Reach
<1> QED BY <1>1 DEF Reach, ClosedUnder

Sources(graph) == {e.source : e \in ToSet(graph.edges)}

LEMMA SourcesAreFew ==
  ASSUME NEW graph, IsGraph(graph)
  PROVE  IsFiniteSet(Sources(graph)) /\ Cardinality(Sources(graph)) <= Len(graph.edges)
<1> DEFINE n == Len(graph.edges)
           seq == [i \in 1 .. n |-> graph.edges[i].source]
<1>1. n \in Nat /\ DOMAIN graph.edges = 1 .. n
  BY LenProperties DEF IsGraph
<1>2. seq \in Seq(Sources(graph)) /\ Len(seq) = n
  <2>1. \A i \in 1 .. n : graph.edges[i].source \in Sources(graph)
    BY <1>1 DEF Sources, ToSet
  <2> HIDE DEF n
  <2> QED BY <1>1, <2>1
<1>3. ToSet(seq) = Sources(graph)
  <2>1. Sources(graph) = {graph.edges[i].source : i \in 1 .. n}
    BY <1>1 DEF Sources, ToSet
  <2>2. ToSet(seq) = {graph.edges[i].source : i \in 1 .. n}
    <3> HIDE DEF n
    <3> QED BY DEF ToSet
  <2> QED BY <2>1, <2>2
<1> HIDE DEF seq
<1> QED BY <1>2, <1>3, SizeOf

\* The search for what leads to a symbol.
Size(graph, s) == Len(s.queue) + Cardinality(Sources(graph) \ s.visited)

Spread(graph, symbol, node, size) ==
  {s \in [visited : SUBSET Sources(graph), queue : Seq(Sources(graph) \cup {symbol})] :
     /\ s.visited \subseteq Reach(Uses(graph), symbol)
     /\ ToSet(s.queue) \subseteq s.visited \cup {symbol}
     /\ \A x \in s.visited \cup {symbol} :
          x \in ToSet(s.queue) \/ x = node \/ \A a : <<a, x>> \in Uses(graph) => a \in s.visited
     /\ Size(graph, s) = size}

SpreadOver(s, node, e) ==
  IF e.target # node \/ e.defines \/ e.source \in s.visited THEN s
  ELSE [visited |-> s.visited \cup {e.source}, queue |-> Append(s.queue, e.source)]

LEMMA EdgeSpreads ==
  ASSUME NEW graph, IsGraph(graph), NEW symbol, NEW size, NEW node \in Reach(Uses(graph), symbol) \cup {symbol},
         NEW s \in Spread(graph, symbol, node, size), NEW e \in ToSet(graph.edges)
  PROVE  LET next == SpreadOver(s, node, e)
         IN /\ next \in Spread(graph, symbol, node, size) /\ s.visited \subseteq next.visited
            /\ e.target = node /\ ~e.defines => e.source \in next.visited
<1> DEFINE next == SpreadOver(s, node, e)
           Src == Sources(graph)
           V == Src \cup {symbol}
<1>0. /\ s.visited \in SUBSET Src /\ s.queue \in Seq(V)
      /\ s.visited \subseteq Reach(Uses(graph), symbol) /\ ToSet(s.queue) \subseteq s.visited \cup {symbol}
      /\ \A x \in s.visited \cup {symbol} :
           x \in ToSet(s.queue) \/ x = node \/ \A a : <<a, x>> \in Uses(graph) => a \in s.visited
      /\ Size(graph, s) = size
  BY DEF Spread
<1>1. CASE e.target # node \/ e.defines \/ e.source \in s.visited
  BY <1>1 DEF SpreadOver
<1>2. CASE ~(e.target # node \/ e.defines \/ e.source \in s.visited)
  <2>1. next = [visited |-> s.visited \cup {e.source}, queue |-> Append(s.queue, e.source)]
    BY <1>2 DEF SpreadOver
  <2>2. e.source \in Src /\ e.source \in V
    BY DEF Sources
  <2> HIDE DEF next, Src, V
  <2>3. /\ Append(s.queue, e.source) \in Seq(V) /\ Len(Append(s.queue, e.source)) = Len(s.queue) + 1
        /\ Len(s.queue) \in Nat
        /\ ToSet(Append(s.queue, e.source)) = ToSet(s.queue) \cup {e.source}
    BY <1>0, <2>2, AppendIs
  <2>4. <<e.source, node>> \in Uses(graph)
    BY <1>2 DEF Uses
  <2>5. e.source \in Reach(Uses(graph), symbol)
    BY <2>4, ReachFacts DEF ClosedUnder
  <2>6. Cardinality(Src \ (s.visited \cup {e.source})) = Cardinality(Src \ s.visited) - 1
        /\ Cardinality(Src \ s.visited) \in Nat
    <3>1. IsFiniteSet(Src)
      BY SourcesAreFew DEF Src
    <3>2. IsFiniteSet(Src \ s.visited) /\ Cardinality(Src \ s.visited) \in Nat
      BY <3>1, FS_Difference, FS_CardinalityType
    <3>3. Src \ (s.visited \cup {e.source}) = (Src \ s.visited) \ {e.source} /\ e.source \in Src \ s.visited
      BY <1>2, <2>2
    <3> QED BY <3>2, <3>3, FS_RemoveElement
  <2>7. Size(graph, next) = size
    <3>1. next.visited = s.visited \cup {e.source} /\ Len(next.queue) = Len(s.queue) + 1
      BY <2>1, <2>3
    <3>2. Cardinality(Src \ next.visited) = Cardinality(Src \ s.visited) - 1
      BY <2>6, <3>1
    <3>3. Len(s.queue) + Cardinality(Src \ s.visited) = size
      BY <1>0 DEF Size, Src
    <3>4. Len(next.queue) + Cardinality(Src \ next.visited) = size
      BY <2>3, <2>6, <3>1, <3>2, <3>3
    <3> QED BY <3>4 DEF Size, Src
  <2>8. next \in [visited : SUBSET Sources(graph), queue : Seq(Sources(graph) \cup {symbol})]
    <3>1. s.visited \cup {e.source} \in SUBSET Src
      BY <1>0, <2>2
    <3> QED BY <2>1, <2>3, <3>1 DEF Src, V
  <2>9. /\ next.visited \subseteq Reach(Uses(graph), symbol)
        /\ ToSet(next.queue) \subseteq next.visited \cup {symbol}
        /\ \A x \in next.visited \cup {symbol} :
             x \in ToSet(next.queue) \/ x = node \/ \A a : <<a, x>> \in Uses(graph) => a \in next.visited
    BY <1>0, <2>1, <2>3, <2>5
  <2>10. next \in Spread(graph, symbol, node, size)
    BY <2>7, <2>8, <2>9, Zenon DEF Spread
  <2>11. s.visited \subseteq next.visited /\ e.source \in next.visited
    BY <2>1
  <2> QED BY <2>10, <2>11 DEF next
<1> QED BY <1>1, <1>2

\* When all edges have been passed, what leads to a node directly is visited.
LEMMA StepSpreads ==
  ASSUME NEW graph, IsGraph(graph), NEW symbol, NEW size, NEW node \in Reach(Uses(graph), symbol) \cup {symbol},
         NEW base \in Spread(graph, symbol, node, size)
  PROVE  LET next == _step_blast_radius(graph, base, node)
         IN /\ next \in Spread(graph, symbol, node, size)
            /\ \A a : <<a, node>> \in Uses(graph) => a \in next.visited
<1> DEFINE T == Spread(graph, symbol, node, size)
           seq == graph.edges
           S == ToSet(seq)
           n == Len(seq)
           Op(s, e) == SpreadOver(s, node, e)
           Heard(s, e) == e.target = node /\ ~e.defines => e.source \in s.visited
           Eq(h) == h = [s \in SUBSET DOMAIN seq |->
                           IF s = {} THEN base ELSE Op(h[s \ {Max(s)}], seq[Max(s)])]
           it == CHOOSE h : Eq(h)
           step == [p \in T \X S |-> Op(p[1], p[2])]
<1>1. n \in Nat /\ DOMAIN seq = 1 .. n /\ seq \in Seq(S) /\ \A i \in 1 .. n : seq[i] \in S
  BY LenProperties, ElementOfSeq DEF IsGraph
<1>2. ASSUME NEW s \in T, NEW e \in S
      PROVE  Op(s, e) \in T /\ s.visited \subseteq Op(s, e).visited /\ Heard(Op(s, e), e)
  BY EdgeSpreads
<1>3. \A s, e : Op(s, e) = IF e.target # node \/ e.defines \/ e.source \in s.visited THEN s
                         ELSE [visited |-> s.visited \cup {e.source}, queue |-> Append(s.queue, e.source)]
  BY Zenon DEF SpreadOver
<1>4. _step_blast_radius(graph, base, node) = it[DOMAIN seq]
  BY Zenon DEF _step_blast_radius, FoldLeft, MapThenFoldSet, SpreadOver
<1>5. \A a : <<a, node>> \in Uses(graph) => \E j \in 1 .. n : seq[j].source = a /\ seq[j].target = node /\ ~seq[j].defines
  BY <1>1 DEF Uses, ToSet
<1> HIDE DEF T, S, Op, n, seq
<1>6. /\ step \in [T \X S -> T]
      /\ \A s \in T, e \in S : step[<<s, e>>] = Op(s, e)
  BY <1>2
<1>7. HasTable(T, base, seq, step)
  <2>1. base \in T
    BY DEF T
  <2> HIDE DEF step
  <2> QED BY <1>1, <1>6, <2>1, FoldTable
<1>8. \E h : Eq(h)
  <2> HIDE DEF step
  <2>1. PICK h \in [SUBSET DOMAIN seq -> T] :
          \A s \in SUBSET DOMAIN seq : h[s] = IF s = {} THEN base ELSE step[<<h[s \ {Max(s)}], seq[Max(s)]>>]
    BY <1>7 DEF HasTable
  <2>2. ASSUME NEW s \in SUBSET DOMAIN seq, s # {}
        PROVE  h[s] = Op(h[s \ {Max(s)}], seq[Max(s)])
    <3>1. Max(s) \in s
      <4>1. s \in SUBSET (1 .. n)
        BY <1>1
      <4> QED BY <1>1, <2>2, <4>1, LastIsMax
    <3>2. h[s \ {Max(s)}] \in T /\ seq[Max(s)] \in S
      BY <1>1, <3>1
    <3> QED BY <1>6, <2>1, <2>2, <3>2
  <2>3. Eq(h)
    BY <2>1, <2>2
  <2> QED BY <2>3
<1>9. Eq(it)
  <2> HIDE DEF Eq
  <2> QED BY <1>8, Zenon
<1> HIDE DEF it
<1> DEFINE Good(i) == it[1 .. i] \in T /\ \A j \in 1 .. i : Heard(it[1 .. i], seq[j])
           G == {i \in 0 .. n : Good(i)}
<1>10. 0 \in G
  <2>1. {} \in SUBSET DOMAIN seq /\ 1 .. 0 = {} /\ 0 \in 0 .. n
    BY <1>1
  <2>2. it[{}] = base
    BY <1>9, <2>1
  <2> QED BY <2>1, <2>2 DEF T
<1>11. ASSUME NEW i \in 1 .. n, i - 1 \in G PROVE i \in G
  <2>1. /\ i \in 0 .. n /\ 1 .. i \in SUBSET DOMAIN seq /\ 1 .. i # {}
        /\ Max(1 .. i) = i /\ (1 .. i) \ {i} = 1 .. (i - 1)
    <3>1. n \in Nat /\ DOMAIN seq = 1 .. n /\ i \in 0 .. n
      BY <1>1
    <3>2. /\ 1 .. i \in SUBSET (1 .. n) /\ 1 .. i # {}
          /\ Max(1 .. i) = i /\ (1 .. i) \ {i} = 1 .. (i - 1)
      BY <3>1, Prefix
    <3> QED BY <3>1, <3>2
  <2>2. it[1 .. i] = Op(it[1 .. (i - 1)], seq[i])
    BY <1>9, <2>1
  <2> HIDE DEF Heard
  <2>3. PICK c \in T : c = it[1 .. (i - 1)] /\ \A j \in 1 .. (i - 1) : Heard(c, seq[j])
    BY <1>11
  <2>4. PICK d \in T : d = it[1 .. i] /\ c.visited \subseteq d.visited /\ Heard(d, seq[i])
    BY <1>1, <1>2, <2>2, <2>3
  <2>5. ASSUME NEW j \in 1 .. i PROVE Heard(d, seq[j])
    <3>1. j = i \/ j \in 1 .. (i - 1)
      BY <1>1
    <3>2. CASE j \in 1 .. (i - 1)
      BY <2>3, <2>4, <3>2 DEF Heard
    <3> QED BY <2>4, <3>1, <3>2
  <2> QED BY <2>1, <2>4, <2>5
<1>12. Good(n)
  <2> HIDE DEF G, Good
  <2>1. \A i \in 0 .. n : i \in G
    BY <1>1, <1>10, <1>11, UpTo
  <2> QED BY <1>1, <2>1 DEF G
<1> QED BY <1>1, <1>4, <1>5, <1>12 DEF T

\* What has been found when a symbol is popped: only what leads to the symbol, and
\* all that leads directly to what is found and queued no more.
Discovered(graph, symbol) ==
  {s \in [visited : SUBSET Sources(graph), queue : Seq(Sources(graph) \cup {symbol})] :
     /\ s.visited \subseteq Reach(Uses(graph), symbol)
     /\ ToSet(s.queue) \subseteq s.visited \cup {symbol}
     /\ \A x \in s.visited \cup {symbol} :
          x \in ToSet(s.queue) \/ \A a : <<a, x>> \in Uses(graph) => a \in s.visited}

Turn(graph, s) ==
  IF s.queue = <<>> THEN s
  ELSE _step_blast_radius(graph, [s EXCEPT !.queue = Tail(@)], Head(s.queue))

LEMMA TurnFinds ==
  ASSUME NEW graph, IsGraph(graph), NEW symbol, NEW s \in Discovered(graph, symbol)
  PROVE  /\ Turn(graph, s) \in Discovered(graph, symbol) /\ Size(graph, s) \in Nat
         /\ s.queue # <<>> => Size(graph, Turn(graph, s)) = Size(graph, s) - 1
         /\ Size(graph, s) = 0 => s.queue = <<>>
<1> DEFINE Src == Sources(graph)
           V == Src \cup {symbol}
           next == Turn(graph, s)
<1>1. /\ s = [visited |-> s.visited, queue |-> s.queue]
      /\ s.visited \in SUBSET Src /\ s.queue \in Seq(V)
      /\ s.visited \subseteq Reach(Uses(graph), symbol) /\ ToSet(s.queue) \subseteq s.visited \cup {symbol}
      /\ \A x \in s.visited \cup {symbol} :
           x \in ToSet(s.queue) \/ \A a : <<a, x>> \in Uses(graph) => a \in s.visited
  BY DEF Discovered
<1>2. /\ Len(s.queue) \in Nat /\ Cardinality(Src \ s.visited) \in Nat
      /\ s.queue # <<>> => Len(s.queue) # 0
  <2>1. IsFiniteSet(Src)
    BY SourcesAreFew
  <2>2. Cardinality(Src \ s.visited) \in Nat
    BY <2>1, FS_Difference, FS_CardinalityType
  <2> QED BY <1>1, <2>2, LenProperties, EmptySeq
<1>3. Size(graph, s) \in Nat /\ (Size(graph, s) = 0 => s.queue = <<>>)
  BY <1>2 DEF Size
<1>4. CASE s.queue = <<>>
  BY <1>3, <1>4 DEF Turn
<1>5. CASE s.queue # <<>>
  <2> DEFINE popped == [visited |-> s.visited, queue |-> Tail(s.queue)]
             node == Head(s.queue)
             size == Size(graph, s) - 1
  <2>1. next = _step_blast_radius(graph, popped, node)
    <3>1. [s EXCEPT !.queue = Tail(@)] = popped
      <4> DEFINE rest == Tail(s.queue)
      <4> HIDE DEF rest
      <4>1. [s EXCEPT !.queue = rest] = [visited |-> s.visited, queue |-> rest]
        BY <1>1
      <4> QED BY <4>1 DEF rest
    <3> HIDE DEF popped
    <3> QED BY <1>5, <3>1 DEF Turn
  <2>2. /\ Tail(s.queue) \in Seq(V) /\ Len(Tail(s.queue)) = Len(s.queue) - 1
        /\ ToSet(s.queue) = ToSet(Tail(s.queue)) \cup {node}
    <3> HIDE DEF V
    <3> QED BY <1>1, <1>5, TailIs
  <2>3. popped \in Spread(graph, symbol, node, size)
    <3>1. Size(graph, popped) = size
      <4>1. popped.visited = s.visited /\ Len(popped.queue) = Len(s.queue) - 1
        BY <2>2
      <4> HIDE DEF popped
      <4>2. Len(popped.queue) + Cardinality(Src \ s.visited) = (Len(s.queue) + Cardinality(Src \ s.visited)) - 1
        BY <1>2, <4>1
      <4> QED BY <4>1, <4>2 DEF Size
    <3>2. popped \in [visited : SUBSET Src, queue : Seq(V)]
      <4> HIDE DEF Src, V
      <4> QED BY <1>1, <2>2
    <3>3. /\ popped.visited \subseteq Reach(Uses(graph), symbol)
          /\ ToSet(popped.queue) \subseteq popped.visited \cup {symbol}
          /\ \A x \in popped.visited \cup {symbol} :
               x \in ToSet(popped.queue) \/ x = node \/ \A a : <<a, x>> \in Uses(graph) => a \in popped.visited
      BY <1>1, <2>2
    <3> HIDE DEF popped, size, node
    <3> QED BY <3>1, <3>2, <3>3, Zenon DEF Spread
  <2>4. node \in Reach(Uses(graph), symbol) \cup {symbol}
    BY <1>1, <2>2
  <2> HIDE DEF popped, size, node, next
  <2>5. /\ next \in Spread(graph, symbol, node, size)
        /\ \A a : <<a, node>> \in Uses(graph) => a \in next.visited
    BY <2>1, <2>3, <2>4, StepSpreads
  <2>6. next \in Discovered(graph, symbol) /\ Size(graph, next) = size
    BY <2>5 DEF Spread, Discovered
  <2> QED BY <1>3, <1>5, <2>6 DEF next, size
<1> QED BY <1>4, <1>5

\* The radius is what leads to the symbol, along edges that are no definitions.
LEMMA RadiusIs ==
  ASSUME NEW graph, IsGraph(graph), NEW symbol
  PROVE  calculate_blast_radius(graph, symbol) = Reaching(graph, symbol) \ {symbol}
<1> DEFINE T == Discovered(graph, symbol)
           fuel == Len(graph.edges) + 1
           base == [visited |-> {}, queue |-> <<symbol>>]
           Op(s) == Turn(graph, s)
           Eq(h) == h = [n \in 0 .. fuel |-> IF n = 0 THEN base ELSE Op(h[n - 1])]
           s == CHOOSE h : Eq(h)
           step == [t \in T |-> Op(t)]
           R == Reach(Uses(graph), symbol)
<1>1. fuel \in Nat
  BY LenProperties DEF IsGraph
<1>2. base \in T /\ Size(graph, base) <= fuel
  <2>1. <<symbol>> \in Seq(Sources(graph) \cup {symbol}) /\ Len(<<symbol>>) = 1 /\ ToSet(<<symbol>>) = {symbol}
    BY DEF ToSet
  <2>2. base \in T
    BY <2>1 DEF Discovered
  <2>3. Size(graph, base) = 1 + Cardinality(Sources(graph))
    <3>1. Sources(graph) \ base.visited = Sources(graph) /\ Len(base.queue) = 1
      BY <2>1
    <3> QED BY <3>1 DEF Size
  <2>4. Cardinality(Sources(graph)) <= Len(graph.edges) /\ Cardinality(Sources(graph)) \in Nat /\ Len(graph.edges) \in Nat
    BY SourcesAreFew, FS_CardinalityType, LenProperties DEF IsGraph
  <2> QED BY <2>2, <2>3, <2>4
<1>3. \A t \in T : /\ Op(t) \in T /\ Size(graph, t) \in Nat
                   /\ t.queue # <<>> => Size(graph, Op(t)) = Size(graph, t) - 1
                   /\ Size(graph, t) = 0 => t.queue = <<>>
  BY TurnFinds
<1>4. \A t \in T : t.queue = <<>> => Op(t) = t
  BY DEF Turn
<1>5. \A t \in T : t.queue = <<>> => t.visited = R
  <2>1. SUFFICES ASSUME NEW t \in T, t.queue = <<>> PROVE t.visited = R
    OBVIOUS
  <2>2. /\ t.visited \subseteq R /\ ToSet(t.queue) = {}
        /\ \A x \in t.visited \cup {symbol} :
             x \in ToSet(t.queue) \/ \A a : <<a, x>> \in Uses(graph) => a \in t.visited
    BY <2>1 DEF Discovered, ToSet
  <2>3. t.visited \in SUBSET Ends(Uses(graph))
    BY <2>2, ReachFacts
  <2>4. ClosedUnder(Uses(graph), symbol, t.visited)
    <3>1. ASSUME NEW p \in Uses(graph), p[2] \in t.visited \cup {symbol} PROVE p[1] \in t.visited
      <4>1. p = <<p[1], p[2]>>
        BY DEF Uses
      <4> QED BY <2>2, <3>1, <4>1
    <3> QED BY <3>1 DEF ClosedUnder
  <2>5. R \subseteq t.visited
    BY <2>3, <2>4, ReachFacts
  <2> QED BY <2>2, <2>5
<1> HIDE DEF T, base, Op, fuel
<1>6. step \in [T -> T] /\ \A t \in T : step[t] = Op(t)
  BY <1>3
<1>7. HasLoop(T, base, fuel, step)
  <2> HIDE DEF step
  <2> QED BY <1>1, <1>2, <1>6, Loops
<1>8. PICK h \in [0 .. fuel -> T] : h = [i \in 0 .. fuel |-> IF i = 0 THEN base ELSE step[h[i - 1]]]
  BY <1>7 DEF HasLoop
<1>9. Eq(h)
  <2>1. ASSUME NEW i \in 0 .. fuel, i # 0 PROVE step[h[i - 1]] = Op(h[i - 1])
    <3>1. i - 1 \in 0 .. fuel
      BY <1>1, <2>1
    <3> QED BY <1>6, <1>8, <3>1
  <2> HIDE DEF step
  <2> QED BY <1>8, <2>1
<1>10. Eq(s)
  <2> HIDE DEF Eq
  <2> QED BY <1>9, Zenon
<1>11. calculate_blast_radius(graph, symbol) = s[fuel].visited \ {symbol}
  BY Zenon DEF calculate_blast_radius, Op, Turn, base, fuel
<1> HIDE DEF s
<1> DEFINE Good(i) == s[i] \in T /\ (s[i].queue = <<>> \/ Size(graph, s[i]) <= fuel - i)
           G == {i \in 0 .. fuel : Good(i)}
<1>12. 0 \in G
  <2>1. s[0] = base /\ 0 \in 0 .. fuel
    BY <1>1, <1>10
  <2> QED BY <1>1, <1>2, <2>1
<1>13. ASSUME NEW i \in 1 .. fuel, i - 1 \in G PROVE i \in G
  <2>1. s[i] = Op(s[i - 1]) /\ i \in 0 .. fuel
    <3>1. i \in 0 .. fuel /\ i # 0
      BY <1>1
    <3> QED BY <1>10, <3>1
  <2>2. PICK t \in T : t = s[i - 1] /\ (t.queue = <<>> \/ Size(graph, t) <= fuel - (i - 1))
    BY <1>13
  <2>3. s[i] = Op(t) /\ Op(t) \in T
    BY <1>3, <2>1, <2>2
  <2>4. CASE t.queue = <<>>
    BY <1>4, <2>1, <2>3, <2>4
  <2>5. CASE t.queue # <<>>
    <3> DEFINE a == Size(graph, Op(t))
               b == Size(graph, t)
    <3>1. a \in Nat /\ b \in Nat /\ a = b - 1 /\ b <= fuel - (i - 1)
      BY <1>3, <2>2, <2>5
    <3> HIDE DEF a, b
    <3>2. a <= fuel - i
      BY <1>1, <3>1
    <3> QED BY <2>1, <2>3, <3>2 DEF a
  <2> QED BY <2>4, <2>5
<1>14. Good(fuel)
  <2> HIDE DEF G, Good
  <2>1. \A i \in 0 .. fuel : i \in G
    BY <1>1, <1>12, <1>13, UpTo
  <2> QED BY <1>1, <2>1 DEF G
<1>15. s[fuel] \in T /\ s[fuel].queue = <<>>
  <2>1. PICK t \in T : t = s[fuel] /\ (t.queue = <<>> \/ Size(graph, t) <= fuel - fuel)
    BY <1>14
  <2>2. Size(graph, t) \in Nat /\ (Size(graph, t) = 0 => t.queue = <<>>)
    BY <1>3
  <2> QED BY <1>1, <2>1, <2>2
<1> QED BY <1>5, <1>11, <1>15, ReachingIs

\* The search for cycles.
Nodes(graph) == ToSet(graph.symbols) \cup {e.target : e \in ToSet(graph.edges)}

Calls(graph) == [node : Nodes(graph), passed : 0 .. Len(graph.edges)]

\* The calls are a path of other nodes, from a symbol, that have not been left.
IsPath(graph, calls, left) ==
  /\ \A i, j \in 1 .. Len(calls) : calls[i].node = calls[j].node => i = j
  /\ \A i \in 1 .. Len(calls) : calls[i].node \notin left
  /\ \A i \in 1 .. (Len(calls) - 1) : <<calls[i].node, calls[i + 1].node>> \in Arrows(graph)
  /\ calls # <<>> => calls[1].node \in ToSet(graph.symbols)

\* A closed path that enters no other node twice, and that a symbol leads to.
IsRound(graph, cycle) ==
  /\ Len(cycle) > 1 /\ cycle[1] = Last(cycle) /\ IsInjective(Tail(cycle))
  /\ \A j \in 1 .. (Len(cycle) - 1) : <<cycle[j], cycle[j + 1]>> \in Arrows(graph)
  /\ cycle[1] \in ToSet(graph.symbols) \/ ToSet(graph.symbols) \cap Reach(Arrows(graph), cycle[1]) # {}

\* What is left leads to what was left before.
Ranked(P, left) ==
  \E k \in Nat : \E r \in [left -> 0 .. k] :
    \A p \in P : p[1] \in left => p[2] \in left /\ r[p[2]] < r[p[1]]

\* Where no cycle was found: an edge that a call has passed leads to what is left, or to
\* the next call; the symbols begun with are left, but for the one the path is from.
Explored(graph, s) ==
  /\ \A i \in 1 .. Len(s.calls), k \in 1 .. Len(graph.edges) :
       k <= s.calls[i].passed /\ graph.edges[k].source = s.calls[i].node =>
         \/ graph.edges[k].target \in s.left
         \/ i < Len(s.calls) /\ graph.edges[k].target = s.calls[i + 1].node
  /\ Ranked(Arrows(graph), s.left)
  /\ \A i \in 1 .. s.begun :
       graph.symbols[i] \in s.left \/ (s.calls # <<>> /\ graph.symbols[i] = s.calls[1].node)

Searched(graph) ==
  {s \in [begun : 0 .. Len(graph.symbols), calls : Seq(Calls(graph)), left : SUBSET Nodes(graph),
          cycles : Seq(Seq(Nodes(graph)))] :
     /\ IsPath(graph, s.calls, s.left)
     /\ \A i \in 1 .. Len(s.cycles) : IsRound(graph, s.cycles[i])
     /\ s.cycles = <<>> => Explored(graph, s)}

\* What stands earlier on a path leads to what stands later.
LEMMA PathReaches ==
  ASSUME NEW P, NEW n \in Nat, NEW path, \A i \in 1 .. (n - 1) : <<path[i], path[i + 1]>> \in P,
         NEW j \in 1 .. n, NEW i \in 1 .. (j - 1)
  PROVE  path[i] \in Reach(P, path[j])
<1> DEFINE G == {d \in 0 .. (j - 2) : path[(j - 1) - d] \in Reach(P, path[j])}
<1>0. ClosedUnder(P, path[j], Reach(P, path[j]))
  BY ReachFacts
<1>1. \A a, b : <<a, b>> \in P /\ b \in Reach(P, path[j]) \cup {path[j]} => a \in Reach(P, path[j])
  BY <1>0 DEF ClosedUnder
<1> DEFINE R == Reach(P, path[j])
<1> HIDE DEF R
<1>2. 0 \in G
  <2>1. j - 1 \in 1 .. (n - 1) /\ (j - 1) + 1 = j /\ 0 \in 0 .. (j - 2)
    OBVIOUS
  <2>2. path[j - 1] \in R
    BY <1>1, <2>1 DEF R
  <2>3. (j - 1) - 0 = j - 1
    OBVIOUS
  <2> QED BY <2>1, <2>2, <2>3 DEF R
<1>3. ASSUME NEW d \in 1 .. (j - 2), d - 1 \in G PROVE d \in G
  <2> DEFINE a == (j - 1) - d
  <2>1. a \in 1 .. (n - 1) /\ a + 1 = (j - 1) - (d - 1) /\ d \in 0 .. (j - 2)
    OBVIOUS
  <2>2. path[a + 1] \in R
    BY <1>3, <2>1 DEF R
  <2> HIDE DEF a
  <2>3. path[a] \in R
    BY <1>1, <2>1, <2>2 DEF R
  <2> QED BY <2>1, <2>3 DEF R, a
<1>4. \A d \in 0 .. (j - 2) : d \in G
  <2>1. j - 2 \in Nat
    OBVIOUS
  <2> HIDE DEF G
  <2> QED BY <1>2, <1>3, <2>1, UpTo
<1>5. (j - 1) - i \in 0 .. (j - 2) /\ (j - 1) - ((j - 1) - i) = i
  OBVIOUS
<1> QED BY <1>4, <1>5

LEMMA RankedMore ==
  ASSUME NEW P, NEW left, Ranked(P, left), NEW n, n \notin left, \A p \in P : p[1] = n => p[2] \in left
  PROVE  Ranked(P, left \cup {n})
<1>0. PICK k \in Nat : \E r \in [left -> 0 .. k] :
        \A p \in P : p[1] \in left => p[2] \in left /\ r[p[2]] < r[p[1]]
  BY DEF Ranked
<1>1. PICK r \in [left -> 0 .. k] :
        \A p \in P : p[1] \in left => p[2] \in left /\ r[p[2]] < r[p[1]]
  BY <1>0
<1> DEFINE more == [x \in left \cup {n} |-> IF x = n THEN k + 1 ELSE r[x]]
<1>2. more \in [left \cup {n} -> 0 .. (k + 1)]
  OBVIOUS
<1>3. more[n] = k + 1 /\ \A x \in left : more[x] = r[x] /\ r[x] \in 0 .. k
  OBVIOUS
<1> HIDE DEF more
<1>4. ASSUME NEW p \in P, p[1] \in left \cup {n}
      PROVE  p[2] \in left \cup {n} /\ more[p[2]] < more[p[1]]
  <2>1. CASE p[1] = n
    <3>1. p[2] \in left
      BY <2>1
    <3>2. more[p[2]] \in 0 .. k
      BY <1>3, <3>1
    <3> QED BY <1>3, <2>1, <3>1, <3>2
  <2>2. CASE p[1] \in left
    BY <1>1, <1>3, <2>2
  <2> QED BY <1>4, <2>1, <2>2
<1> QED BY <1>2, <1>4 DEF Ranked

\* What the calls have still to pass.
Rest(graph, s) ==
  {p \in Nodes(graph) \X (0 .. Len(graph.edges)) :
     p[1] \notin s.left /\ \A j \in 1 .. Len(s.calls) : s.calls[j].node = p[1] => s.calls[j].passed <= p[2]}

\* The last call is one edge further.
Advanced(graph, calls, moved) ==
  /\ moved \in Seq(Calls(graph)) /\ Len(moved) = Len(calls)
  /\ \A i \in 1 .. Len(calls) :
       /\ moved[i].node = calls[i].node
       /\ moved[i].passed = IF i = Len(calls) THEN calls[i].passed + 1 ELSE calls[i].passed

LEMMA SearchedIs ==
  ASSUME NEW graph, IsGraph(graph), NEW s \in Searched(graph)
  PROVE  /\ s = [begun |-> s.begun, calls |-> s.calls, left |-> s.left, cycles |-> s.cycles]
         /\ s.begun \in 0 .. Len(graph.symbols) /\ s.calls \in Seq(Calls(graph)) /\ s.left \in SUBSET Nodes(graph)
         /\ s.cycles \in Seq(Seq(Nodes(graph))) /\ Len(s.cycles) \in Nat
         /\ Len(s.calls) \in Nat /\ (s.calls # <<>> => Len(s.calls) # 0)
         /\ Len(graph.edges) \in Nat /\ Len(graph.symbols) \in Nat
         /\ \A i \in 1 .. Len(s.calls) : /\ s.calls[i] = [node |-> s.calls[i].node, passed |-> s.calls[i].passed]
                                         /\ s.calls[i].node \in Nodes(graph)
                                         /\ s.calls[i].passed \in 0 .. Len(graph.edges)
<1>1. s \in [begun : 0 .. Len(graph.symbols), calls : Seq(Calls(graph)), left : SUBSET Nodes(graph),
             cycles : Seq(Seq(Nodes(graph)))]
  BY DEF Searched
<1>2. /\ s = [begun |-> s.begun, calls |-> s.calls, left |-> s.left, cycles |-> s.cycles]
      /\ s.begun \in 0 .. Len(graph.symbols) /\ s.calls \in Seq(Calls(graph)) /\ s.left \in SUBSET Nodes(graph)
      /\ s.cycles \in Seq(Seq(Nodes(graph)))
  BY <1>1
<1>3. Len(graph.edges) \in Nat /\ Len(graph.symbols) \in Nat /\ Len(s.calls) \in Nat /\ Len(s.cycles) \in Nat
  BY <1>2, LenProperties DEF IsGraph
<1>4. s.calls # <<>> => Len(s.calls) # 0
  BY <1>2, EmptySeq
<1>5. ASSUME NEW i \in 1 .. Len(s.calls)
      PROVE  /\ s.calls[i] = [node |-> s.calls[i].node, passed |-> s.calls[i].passed]
             /\ s.calls[i].node \in Nodes(graph)
             /\ s.calls[i].passed \in 0 .. Len(graph.edges)
  <2>1. s.calls[i] \in Calls(graph)
    BY <1>2, ElementOfSeq
  <2> QED BY <2>1 DEF Calls
<1> QED BY <1>2, <1>3, <1>4, <1>5

LEMMA PassMoves ==
  ASSUME NEW graph, IsGraph(graph), NEW s \in Searched(graph), s.calls # <<>>,
         s.calls[Len(s.calls)].passed # Len(graph.edges)
  PROVE  \E moved \in Seq(Calls(graph)) :
           /\ Advanced(graph, s.calls, moved)
           /\ [s EXCEPT !.calls[Len(s.calls)].passed = @ + 1]
              = [begun |-> s.begun, calls |-> moved, left |-> s.left, cycles |-> s.cycles]
<1> DEFINE n == Len(s.calls)
           call == [node |-> s.calls[n].node, passed |-> s.calls[n].passed + 1]
           moved == [s.calls EXCEPT ![n] = call]
<1>1. /\ s = [begun |-> s.begun, calls |-> s.calls, left |-> s.left, cycles |-> s.cycles]
      /\ s.calls \in Seq(Calls(graph)) /\ n \in 1 .. Len(s.calls) /\ n \in Nat
      /\ s.calls[n] = [node |-> s.calls[n].node, passed |-> s.calls[n].passed]
      /\ s.calls[n].node \in Nodes(graph) /\ s.calls[n].passed \in 0 .. Len(graph.edges) /\ Len(graph.edges) \in Nat
  <2>1. n \in 1 .. Len(s.calls) /\ n \in Nat
    BY SearchedIs
  <2> HIDE DEF n
  <2> QED BY <2>1, SearchedIs
<1>2. call \in Calls(graph)
  <2>1. s.calls[n].passed + 1 \in 0 .. Len(graph.edges)
    <3> DEFINE p == s.calls[n].passed
    <3>1. p \in 0 .. Len(graph.edges) /\ p # Len(graph.edges)
      BY <1>1
    <3> HIDE DEF p
    <3> QED BY <1>1, <3>1 DEF p
  <2> HIDE DEF n
  <2> QED BY <1>1, <2>1 DEF Calls
<1>3. moved \in Seq(Calls(graph)) /\ Len(moved) = n /\ \A i \in 1 .. n : moved[i] = IF i = n THEN call ELSE s.calls[i]
  <2> HIDE DEF call
  <2> QED BY <1>1, <1>2, ExceptSeq
<1>4. Advanced(graph, s.calls, moved)
  <2>1. \A i \in 1 .. n : /\ moved[i].node = s.calls[i].node
                          /\ moved[i].passed = IF i = n THEN s.calls[i].passed + 1 ELSE s.calls[i].passed
    <3> HIDE DEF moved, n
    <3> QED BY <1>1, <1>3
  <2> HIDE DEF moved
  <2> QED BY <1>3, <2>1 DEF Advanced
<1>5. [s EXCEPT !.calls[n].passed = @ + 1]
      = [begun |-> s.begun, calls |-> moved, left |-> s.left, cycles |-> s.cycles]
  <2>1. [s.calls[n] EXCEPT !.passed = @ + 1] = call
    <3> HIDE DEF n
    <3> QED BY <1>1
  <2>2. [s EXCEPT !.calls[n].passed = @ + 1]
        = [s EXCEPT !.calls = [s.calls EXCEPT ![n] = [s.calls[n] EXCEPT !.passed = @ + 1]]]
    <3> HIDE DEF n
    <3> QED OBVIOUS
  <2>3. [s EXCEPT !.calls[n].passed = @ + 1] = [s EXCEPT !.calls = moved]
    <3> HIDE DEF n, call
    <3> QED BY <2>1, <2>2
  <2> HIDE DEF moved, n
  <2> QED BY <1>1, <2>3
<1> HIDE DEF moved
<1> QED BY <1>3, <1>4, <1>5

\* The last call is about to pass an edge.
Passing(graph, s, call, edge, moved) ==
  /\ s.calls # <<>> /\ call = s.calls[Len(s.calls)] /\ call.passed # Len(graph.edges)
  /\ edge = graph.edges[call.passed + 1]
  /\ Advanced(graph, s.calls, moved)

\* One edge, or one return, less is to come.
Further(graph, s, call, next) ==
  /\ next \in Searched(graph) /\ next.begun = s.begun
  /\ Rest(graph, next) = Rest(graph, s) \ {<<call.node, call.passed>>}

\* The edge leads to what is left, or is none of its own, or a cycle was found.
Nowhere(graph, s, call, edge, cycles) ==
  /\ cycles \in Seq(Seq(Nodes(graph))) /\ \A i \in 1 .. Len(cycles) : IsRound(graph, cycles[i])
  /\ cycles = <<>> => s.cycles = <<>> /\ (edge.source = call.node => edge.target \in s.left)

LEMMA PassedKeeps ==
  ASSUME NEW graph, IsGraph(graph), NEW s \in Searched(graph), NEW call, NEW edge, NEW moved,
         Passing(graph, s, call, edge, moved), NEW cycles, Nowhere(graph, s, call, edge, cycles)
  PROVE  Further(graph, s, call, [begun |-> s.begun, calls |-> moved, left |-> s.left, cycles |-> cycles])
<1>a. s.calls # <<>> /\ call = s.calls[Len(s.calls)] /\ call.passed # Len(graph.edges)
  BY DEF Passing
<1>b. edge = graph.edges[call.passed + 1] /\ Advanced(graph, s.calls, moved)
  BY DEF Passing
<1>c. /\ cycles \in Seq(Seq(Nodes(graph))) /\ \A i \in 1 .. Len(cycles) : IsRound(graph, cycles[i])
      /\ cycles = <<>> => s.cycles = <<>> /\ (edge.source = call.node => edge.target \in s.left)
  BY DEF Nowhere
<1> DEFINE n == Len(s.calls)
           m == Len(graph.edges)
           next == [begun |-> s.begun, calls |-> moved, left |-> s.left, cycles |-> cycles]
<1>1. /\ s.begun \in 0 .. Len(graph.symbols) /\ s.left \in SUBSET Nodes(graph)
      /\ n \in Nat /\ n # 0 /\ m \in Nat
      /\ \A i \in 1 .. n : s.calls[i].node \in Nodes(graph) /\ s.calls[i].passed \in 0 .. m
  BY <1>a, SearchedIs
<1>2. /\ moved \in Seq(Calls(graph)) /\ Len(moved) = n
      /\ \A i \in 1 .. n :
           /\ moved[i].node = s.calls[i].node
           /\ moved[i].passed = IF i = n THEN s.calls[i].passed + 1 ELSE s.calls[i].passed
  BY <1>b DEF Advanced
<1>3. moved # <<>> /\ 1 \in 1 .. n /\ n \in 1 .. n /\ moved[1].node = s.calls[1].node
  <2> HIDE DEF n
  <2>1. 1 \in 1 .. n /\ n \in 1 .. n
    BY <1>1
  <2>2. Len(<<>>) = 0
    OBVIOUS
  <2>3. moved # <<>>
    BY <1>1, <1>2, <2>2
  <2> QED BY <1>2, <2>1, <2>3
<1>4. IsPath(graph, s.calls, s.left) /\ (s.cycles = <<>> => Explored(graph, s))
  BY DEF Searched
<1>5. /\ next.begun = s.begun /\ next.calls = moved /\ next.left = s.left /\ next.cycles = cycles
      /\ next \in [begun : 0 .. Len(graph.symbols), calls : Seq(Calls(graph)), left : SUBSET Nodes(graph),
                   cycles : Seq(Seq(Nodes(graph)))]
  BY <1>1, <1>2, <1>c
<1> HIDE DEF n, m, next
<1>6. IsPath(graph, moved, s.left)
  <2>1. /\ \A i, j \in 1 .. n : s.calls[i].node = s.calls[j].node => i = j
        /\ \A i \in 1 .. n : s.calls[i].node \notin s.left
        /\ \A i \in 1 .. (n - 1) : <<s.calls[i].node, s.calls[i + 1].node>> \in Arrows(graph)
        /\ s.calls[1].node \in ToSet(graph.symbols)
    BY <1>a, <1>4 DEF IsPath, n
  <2>2. \A i \in 1 .. (n - 1) : i \in 1 .. n /\ i + 1 \in 1 .. n
    BY <1>1
  <2> QED BY <1>2, <1>3, <2>1, <2>2 DEF IsPath
<1>7. ASSUME cycles = <<>> PROVE Explored(graph, next)
  <2>1. /\ \A i \in 1 .. n, k \in 1 .. m :
             k <= s.calls[i].passed /\ graph.edges[k].source = s.calls[i].node =>
               \/ graph.edges[k].target \in s.left
               \/ i < n /\ graph.edges[k].target = s.calls[i + 1].node
        /\ Ranked(Arrows(graph), s.left)
        /\ \A i \in 1 .. s.begun :
             graph.symbols[i] \in s.left \/ (s.calls # <<>> /\ graph.symbols[i] = s.calls[1].node)
    BY <1>4, <1>7, <1>c DEF Explored, n, m
  <2>2. edge.source = call.node => edge.target \in s.left
    BY <1>7, <1>c
  <2>3. ASSUME NEW i \in 1 .. n, NEW k \in 1 .. m, k <= moved[i].passed, graph.edges[k].source = moved[i].node
        PROVE  graph.edges[k].target \in s.left \/ (i < n /\ graph.edges[k].target = moved[i + 1].node)
    <3>1. CASE k <= s.calls[i].passed
      <4>1. i < n => i + 1 \in 1 .. n
        BY <1>1
      <4> QED BY <1>2, <2>1, <2>3, <3>1, <4>1
    <3>2. CASE ~(k <= s.calls[i].passed)
      <4>1. i = n /\ k <= s.calls[n].passed + 1
        BY <1>2, <2>3, <3>2
      <4> DEFINE p == s.calls[n].passed
      <4>2. p \in Nat /\ k <= p + 1 /\ ~(k <= p)
        BY <1>1, <1>3, <3>2, <4>1
      <4> HIDE DEF p
      <4>4. k = p + 1
        BY <1>1, <4>2
      <4>3. call = s.calls[n]
        BY <1>a DEF n
      <4>5. moved[n].node = call.node /\ k = call.passed + 1
        BY <1>2, <1>3, <4>3, <4>4 DEF p
      <4>6. graph.edges[k] = edge /\ edge.source = call.node
        BY <1>b, <2>3, <4>1, <4>5
      <4> QED BY <2>2, <4>6
    <3> QED BY <3>1, <3>2
  <2> QED BY <1>a, <1>2, <1>3, <1>5, <2>1, <2>3 DEF Explored, m
<1>8. next \in Searched(graph)
  BY <1>5, <1>6, <1>7, <1>c DEF Searched
<1>9. Rest(graph, next) = Rest(graph, s) \ {<<call.node, call.passed>>}
  <2>0. /\ Rest(graph, next) = {p \in Nodes(graph) \X (0 .. m) :
             p[1] \notin s.left /\ \A j \in 1 .. n : moved[j].node = p[1] => moved[j].passed <= p[2]}
        /\ Rest(graph, s) = {p \in Nodes(graph) \X (0 .. m) :
             p[1] \notin s.left /\ \A j \in 1 .. n : s.calls[j].node = p[1] => s.calls[j].passed <= p[2]}
    BY <1>2, <1>5 DEF Rest, n, m
  <2>1. ASSUME NEW x \in Nodes(graph), NEW i \in 0 .. m
        PROVE  (\A j \in 1 .. n : moved[j].node = x => moved[j].passed <= i)
               <=> (\A j \in 1 .. n : s.calls[j].node = x => s.calls[j].passed <= i)
                   /\ <<x, i>> # <<call.node, call.passed>>
    <3>1. call = s.calls[n] /\ call.passed \in 0 .. m
      BY <1>a, <1>1, <1>3 DEF n
    <3>2. \A j \in 1 .. n : s.calls[j].node = s.calls[n].node => j = n
      BY <1>3, <1>4 DEF IsPath, n
    <3>3. CASE x = call.node
      <4>1. \A j \in 1 .. n : moved[j].node = x <=> j = n
        BY <1>2, <1>3, <3>1, <3>2, <3>3
      <4>2. \A j \in 1 .. n : s.calls[j].node = x <=> j = n
        BY <1>2, <1>3, <3>1, <3>2, <3>3
      <4>3. moved[n].passed = call.passed + 1
        BY <1>2, <1>3, <3>1
      <4>4. call.passed + 1 <= i <=> call.passed <= i /\ i # call.passed
        BY <1>1, <3>1
      <4> QED BY <1>3, <3>1, <3>3, <4>1, <4>2, <4>3, <4>4
    <3>4. CASE x # call.node
      BY <1>2, <1>3, <3>1, <3>4
    <3> QED BY <3>3, <3>4
  <2>2. \A p \in Nodes(graph) \X (0 .. m) : p = <<p[1], p[2]>> /\ p[1] \in Nodes(graph) /\ p[2] \in 0 .. m
    OBVIOUS
  <2>3. ASSUME NEW p \in Nodes(graph) \X (0 .. m)
        PROVE  p \in Rest(graph, next) <=> p \in Rest(graph, s) /\ p # <<call.node, call.passed>>
    <3>1. PICK x \in Nodes(graph), i \in 0 .. m : p = <<x, i>> /\ p[1] = x /\ p[2] = i
      BY <2>2
    <3>2. (\A j \in 1 .. n : moved[j].node = x => moved[j].passed <= i)
          <=> (\A j \in 1 .. n : s.calls[j].node = x => s.calls[j].passed <= i) /\ p # <<call.node, call.passed>>
      BY <2>1, <3>1
    <3> QED BY <2>0, <3>1, <3>2
  <2>4. Rest(graph, next) \subseteq Nodes(graph) \X (0 .. m) /\ Rest(graph, s) \subseteq Nodes(graph) \X (0 .. m)
    BY <2>0
  <2> QED BY <2>3, <2>4
<1> QED BY <1>5, <1>8, <1>9 DEF Further, next

\* Its last call has passed the edge, and is followed by a call of where it leads.
Unmet(s, call, edge) ==
  /\ edge.source = call.node /\ edge.target \notin s.left
  /\ \A i \in 1 .. Len(s.calls) : s.calls[i].node # edge.target

LEMMA CalledKeeps ==
  ASSUME NEW graph, IsGraph(graph), NEW s \in Searched(graph), NEW call, NEW edge, NEW moved,
         Passing(graph, s, call, edge, moved), Unmet(s, call, edge)
  PROVE  Further(graph, s, call, [begun |-> s.begun, calls |-> Append(moved, Called(edge.target)),
                                  left |-> s.left, cycles |-> s.cycles])
<1>a. s.calls # <<>> /\ call = s.calls[Len(s.calls)] /\ call.passed # Len(graph.edges)
  BY DEF Passing
<1>b. edge = graph.edges[call.passed + 1] /\ edge.source = call.node /\ edge.target \notin s.left
  BY DEF Passing, Unmet
<1>c. Advanced(graph, s.calls, moved) /\ \A i \in 1 .. Len(s.calls) : s.calls[i].node # edge.target
  BY DEF Passing, Unmet
<1> DEFINE n == Len(s.calls)
           m == Len(graph.edges)
           calls == Append(moved, Called(edge.target))
           next == [begun |-> s.begun, calls |-> calls, left |-> s.left, cycles |-> s.cycles]
<1>1. /\ s.begun \in 0 .. Len(graph.symbols) /\ s.left \in SUBSET Nodes(graph)
      /\ n \in Nat /\ n # 0 /\ m \in Nat /\ s.cycles \in Seq(Seq(Nodes(graph)))
      /\ \A i \in 1 .. n : s.calls[i].node \in Nodes(graph) /\ s.calls[i].passed \in 0 .. m
  BY <1>a, SearchedIs
<1>2. /\ moved \in Seq(Calls(graph)) /\ Len(moved) = n
      /\ \A i \in 1 .. n :
           /\ moved[i].node = s.calls[i].node
           /\ moved[i].passed = IF i = n THEN s.calls[i].passed + 1 ELSE s.calls[i].passed
  BY <1>c DEF Advanced
<1>3. /\ call = s.calls[n] /\ call.passed \in 0 .. m /\ call.passed + 1 \in 1 .. m /\ edge \in ToSet(graph.edges)
      /\ n \in 1 .. n /\ 1 \in 1 .. n
  <2> HIDE DEF n
  <2>1. n \in 1 .. n /\ 1 \in 1 .. n /\ call = s.calls[n]
    BY <1>1, <1>a DEF n
  <2>2. call.passed \in 0 .. m /\ m \in Nat /\ call.passed # m
    BY <1>1, <1>a, <2>1
  <2>3. call.passed + 1 \in 1 .. m
    <3> HIDE DEF m
    <3> QED BY <2>2
  <2>4. DOMAIN graph.edges = 1 .. m
    BY LenProperties DEF IsGraph
  <2> QED BY <1>b, <2>1, <2>2, <2>3, <2>4 DEF ToSet
<1>4. Called(edge.target) \in Calls(graph)
  BY <1>1, <1>3 DEF Called, Calls, Nodes
<1>5. /\ calls \in Seq(Calls(graph)) /\ Len(calls) = n + 1 /\ calls # <<>>
      /\ \A i \in 1 .. n : calls[i] = moved[i]
      /\ calls[n + 1] = Called(edge.target)
  <2> DEFINE S == Calls(graph)
             x == Called(edge.target)
  <2>1. moved \in Seq(S) /\ x \in S /\ calls = Append(moved, x) /\ Len(moved) = n
    BY <1>2, <1>4
  <2> HIDE DEF n, S, x, calls
  <2>2. /\ calls \in Seq(S) /\ Len(calls) = n + 1 /\ calls # <<>>
        /\ \A i \in 1 .. n : calls[i] = moved[i]
        /\ calls[n + 1] = x
    BY <2>1, AppendProperties
  <2> QED BY <2>2 DEF S, x
<1> HIDE DEF calls, n, m
<1>6. /\ \A i \in 1 .. n : /\ calls[i].node = s.calls[i].node
                           /\ calls[i].passed = IF i = n THEN s.calls[i].passed + 1 ELSE s.calls[i].passed
      /\ calls[n + 1].node = edge.target /\ calls[n + 1].passed = 0
      /\ \A i \in 1 .. (n + 1) : i \in 1 .. n \/ i = n + 1
      /\ \A i \in 1 .. n : i \in 1 .. (n + 1) /\ i # n + 1 /\ i < n + 1
  <2>1. Called(edge.target).node = edge.target /\ Called(edge.target).passed = 0
    BY DEF Called
  <2>2. /\ \A i \in 1 .. (n + 1) : i \in 1 .. n \/ i = n + 1
        /\ \A i \in 1 .. n : i \in 1 .. (n + 1) /\ i # n + 1 /\ i < n + 1
    BY <1>1
  <2>3. \A i \in 1 .. n : /\ calls[i].node = s.calls[i].node
                          /\ calls[i].passed = IF i = n THEN s.calls[i].passed + 1 ELSE s.calls[i].passed
    BY <1>2, <1>5
  <2>4. calls[n + 1].node = edge.target /\ calls[n + 1].passed = 0
    BY <1>5, <2>1
  <2> QED BY <2>2, <2>3, <2>4
<1>7. /\ next.begun = s.begun /\ next.calls = calls /\ next.left = s.left /\ next.cycles = s.cycles
      /\ next \in [begun : 0 .. Len(graph.symbols), calls : Seq(Calls(graph)), left : SUBSET Nodes(graph),
                   cycles : Seq(Seq(Nodes(graph)))]
  BY <1>1, <1>5
<1> HIDE DEF next
<1>8. /\ \A i, j \in 1 .. n : s.calls[i].node = s.calls[j].node => i = j
      /\ \A i \in 1 .. n : s.calls[i].node \notin s.left
      /\ \A i \in 1 .. (n - 1) : <<s.calls[i].node, s.calls[i + 1].node>> \in Arrows(graph)
      /\ s.calls[1].node \in ToSet(graph.symbols)
      /\ s.cycles = <<>> => Explored(graph, s)
      /\ \A i \in 1 .. Len(s.cycles) : IsRound(graph, s.cycles[i])
  BY <1>a DEF Searched, IsPath, n
<1>9. IsPath(graph, calls, s.left)
  <2>1. ASSUME NEW i \in 1 .. (n + 1), NEW j \in 1 .. (n + 1), calls[i].node = calls[j].node PROVE i = j
    <3>1. \A a \in 1 .. n : calls[a].node # edge.target
      BY <1>6, <1>c DEF n
    <3>2. i \in 1 .. n /\ j \in 1 .. n => i = j
      BY <1>6, <1>8, <2>1
    <3> QED BY <1>6, <2>1, <3>1, <3>2
  <2>2. \A i \in 1 .. (n + 1) : calls[i].node \notin s.left
    BY <1>6, <1>8, <1>b
  <2>3. ASSUME NEW i \in 1 .. n PROVE <<calls[i].node, calls[i + 1].node>> \in Arrows(graph)
    <3>1. CASE i = n
      <4>1. <<edge.source, edge.target>> \in Arrows(graph)
        BY <1>3 DEF Arrows
      <4>2. calls[n].node = edge.source
        BY <1>3, <1>6, <1>b
      <4> QED BY <1>6, <3>1, <4>1, <4>2
    <3>2. CASE i # n
      <4>1. i \in 1 .. (n - 1) /\ i + 1 \in 1 .. n
        BY <1>1, <3>2
      <4> QED BY <1>6, <1>8, <4>1
    <3> QED BY <3>1, <3>2
  <2>4. (n + 1) - 1 = n
    BY <1>1
  <2>5. calls[1].node \in ToSet(graph.symbols)
    BY <1>3, <1>6, <1>8
  <2>6. /\ \A i, j \in 1 .. Len(calls) : calls[i].node = calls[j].node => i = j
        /\ \A i \in 1 .. Len(calls) : calls[i].node \notin s.left
        /\ \A i \in 1 .. (Len(calls) - 1) : <<calls[i].node, calls[i + 1].node>> \in Arrows(graph)
    BY <1>5, <2>1, <2>2, <2>3, <2>4
  <2> QED BY <2>5, <2>6 DEF IsPath
<1>10. ASSUME s.cycles = <<>> PROVE Explored(graph, next)
  <2>1. /\ \A i \in 1 .. n, k \in 1 .. m :
             k <= s.calls[i].passed /\ graph.edges[k].source = s.calls[i].node =>
               \/ graph.edges[k].target \in s.left
               \/ i < n /\ graph.edges[k].target = s.calls[i + 1].node
        /\ Ranked(Arrows(graph), s.left)
        /\ \A i \in 1 .. s.begun :
             graph.symbols[i] \in s.left \/ (s.calls # <<>> /\ graph.symbols[i] = s.calls[1].node)
    BY <1>8, <1>10 DEF Explored, n, m
  <2>2. ASSUME NEW i \in 1 .. (n + 1), NEW k \in 1 .. m, k <= calls[i].passed, graph.edges[k].source = calls[i].node
        PROVE  graph.edges[k].target \in s.left \/ (i < n + 1 /\ graph.edges[k].target = calls[i + 1].node)
    <3>1. i \in 1 .. n
      BY <1>6, <2>2
    <3>2. CASE k <= s.calls[i].passed
      <4>1. i < n => i + 1 \in 1 .. n
        BY <1>1
      <4> QED BY <1>6, <2>1, <2>2, <3>1, <3>2, <4>1
    <3>3. CASE ~(k <= s.calls[i].passed)
      <4>1. i = n /\ k <= s.calls[n].passed + 1
        BY <1>6, <2>2, <3>1, <3>3
      <4> DEFINE p == s.calls[n].passed
      <4>2. p \in Nat /\ k <= p + 1 /\ ~(k <= p)
        BY <1>1, <1>3, <3>3, <4>1
      <4> HIDE DEF p
      <4>3. k = p + 1
        BY <1>1, <4>2
      <4>4. graph.edges[k] = edge
        BY <1>3, <1>b, <4>3 DEF p
      <4>5. i < n + 1 /\ calls[i + 1].node = edge.target
        BY <1>6, <3>1, <4>1
      <4> QED BY <4>4, <4>5
    <3> QED BY <3>2, <3>3
  <2>3. calls[1].node = s.calls[1].node
    BY <1>3, <1>6
  <2>4. s.calls # <<>>
    BY <1>a
  <2>5. \A i \in 1 .. Len(calls), k \in 1 .. Len(graph.edges) :
          k <= calls[i].passed /\ graph.edges[k].source = calls[i].node =>
            \/ graph.edges[k].target \in s.left
            \/ i < Len(calls) /\ graph.edges[k].target = calls[i + 1].node
    BY <1>5, <2>2 DEF m
  <2>6. \A i \in 1 .. s.begun :
          graph.symbols[i] \in s.left \/ (calls # <<>> /\ graph.symbols[i] = calls[1].node)
    BY <1>5, <2>1, <2>3
  <2>7. Ranked(Arrows(graph), s.left)
    BY <2>1
  <2> QED BY <1>7, <2>5, <2>6, <2>7 DEF Explored
<1>11. next \in Searched(graph)
  BY <1>7, <1>8, <1>9, <1>10 DEF Searched
<1>12. Rest(graph, next) = Rest(graph, s) \ {<<call.node, call.passed>>}
  <2>0. /\ Rest(graph, next) = {p \in Nodes(graph) \X (0 .. m) :
             p[1] \notin s.left /\ \A j \in 1 .. (n + 1) : calls[j].node = p[1] => calls[j].passed <= p[2]}
        /\ Rest(graph, s) = {p \in Nodes(graph) \X (0 .. m) :
             p[1] \notin s.left /\ \A j \in 1 .. n : s.calls[j].node = p[1] => s.calls[j].passed <= p[2]}
    BY <1>5, <1>7 DEF Rest, n, m
  <2>1. ASSUME NEW x \in Nodes(graph), NEW i \in 0 .. m
        PROVE  (\A j \in 1 .. (n + 1) : calls[j].node = x => calls[j].passed <= i)
               <=> (\A j \in 1 .. n : s.calls[j].node = x => s.calls[j].passed <= i)
                   /\ <<x, i>> # <<call.node, call.passed>>
    <3>1. \A j \in 1 .. n : s.calls[j].node = s.calls[n].node => j = n
      BY <1>3, <1>8
    <3>2. (\A j \in 1 .. (n + 1) : calls[j].node = x => calls[j].passed <= i)
          <=> (\A j \in 1 .. n : calls[j].node = x => calls[j].passed <= i)
      BY <1>1, <1>6
    <3>3. CASE x = call.node
      <4>1. \A j \in 1 .. n : calls[j].node = x <=> j = n
        BY <1>3, <1>6, <3>1, <3>3
      <4>2. \A j \in 1 .. n : s.calls[j].node = x <=> j = n
        BY <1>3, <3>1, <3>3
      <4>3. calls[n].passed = call.passed + 1
        BY <1>3, <1>6
      <4>4. call.passed + 1 <= i <=> call.passed <= i /\ i # call.passed
        BY <1>1, <1>3
      <4> QED BY <1>3, <3>2, <3>3, <4>1, <4>2, <4>3, <4>4
    <3>4. CASE x # call.node
      BY <1>3, <1>6, <3>2, <3>4
    <3> QED BY <3>3, <3>4
  <2>2. \A p \in Nodes(graph) \X (0 .. m) : p = <<p[1], p[2]>> /\ p[1] \in Nodes(graph) /\ p[2] \in 0 .. m
    OBVIOUS
  <2>3. ASSUME NEW p \in Nodes(graph) \X (0 .. m)
        PROVE  p \in Rest(graph, next) <=> p \in Rest(graph, s) /\ p # <<call.node, call.passed>>
    <3>1. PICK x \in Nodes(graph), i \in 0 .. m : p = <<x, i>> /\ p[1] = x /\ p[2] = i
      BY <2>2
    <3>2. (\A j \in 1 .. (n + 1) : calls[j].node = x => calls[j].passed <= i)
          <=> (\A j \in 1 .. n : s.calls[j].node = x => s.calls[j].passed <= i) /\ p # <<call.node, call.passed>>
      BY <2>1, <3>1
    <3> QED BY <2>0, <3>1, <3>2
  <2>4. Rest(graph, next) \subseteq Nodes(graph) \X (0 .. m) /\ Rest(graph, s) \subseteq Nodes(graph) \X (0 .. m)
    BY <2>0
  <2> QED BY <2>3, <2>4
<1> QED BY <1>7, <1>11, <1>12 DEF Further, next, calls

\* Its last call has passed all edges, and is left.
LEMMA ReturnKeeps ==
  ASSUME NEW graph, IsGraph(graph), NEW s \in Searched(graph), s.calls # <<>>,
         NEW call, call = s.calls[Len(s.calls)], call.passed = Len(graph.edges),
         NEW next, next = [begun |-> s.begun, calls |-> Front(s.calls), left |-> s.left \cup {call.node},
                           cycles |-> s.cycles]
  PROVE  next \in Searched(graph) /\ Rest(graph, next) = Rest(graph, s) \ {<<call.node, call.passed>>}
<1> DEFINE n == Len(s.calls)
           m == Len(graph.edges)
           calls == Front(s.calls)
           left == s.left \cup {call.node}
<1>1. /\ s.begun \in 0 .. Len(graph.symbols) /\ s.left \in SUBSET Nodes(graph)
      /\ n \in Nat /\ n # 0 /\ m \in Nat /\ s.cycles \in Seq(Seq(Nodes(graph)))
      /\ s.calls \in Seq(Calls(graph))
      /\ \A i \in 1 .. n : s.calls[i].node \in Nodes(graph) /\ s.calls[i].passed \in 0 .. m
  BY SearchedIs
<1>2. call = s.calls[n] /\ n \in 1 .. n /\ 1 \in 1 .. n /\ call.node \in Nodes(graph)
  <2> HIDE DEF n
  <2>1. n \in 1 .. n /\ 1 \in 1 .. n /\ call = s.calls[n]
    BY <1>1 DEF n
  <2> QED BY <1>1, <2>1
<1>3. /\ calls \in Seq(Calls(graph)) /\ Len(calls) = n - 1
      /\ \A i \in 1 .. (n - 1) : calls[i] = s.calls[i] /\ i \in 1 .. n
      /\ calls # <<>> => 1 \in 1 .. (n - 1)
  <2> HIDE DEF n
  <2>1. calls = SubSeq(s.calls, 1, n - 1) /\ n - 1 \in Nat /\ n - 1 <= Len(s.calls) /\ n = Len(s.calls)
    BY <1>1 DEF Front, n
  <2> HIDE DEF calls
  <2>2. /\ calls \in Seq(Calls(graph)) /\ Len(calls) = n - 1
        /\ \A i \in 1 .. (n - 1) : calls[i] = s.calls[i] /\ i \in 1 .. n
    BY <1>1, <2>1, BeginningOf
  <2>3. calls # <<>> => 1 \in 1 .. (n - 1)
    BY <1>1, <2>2, EmptySeq
  <2> QED BY <2>2, <2>3
<1> HIDE DEF calls, n, m
<1>4. /\ next.begun = s.begun /\ next.calls = calls /\ next.left = left /\ next.cycles = s.cycles
      /\ next \in [begun : 0 .. Len(graph.symbols), calls : Seq(Calls(graph)), left : SUBSET Nodes(graph),
                   cycles : Seq(Seq(Nodes(graph)))]
  <2>1. next = [begun |-> s.begun, calls |-> calls, left |-> left, cycles |-> s.cycles]
    BY DEF calls
  <2> QED BY <1>1, <1>2, <1>3, <2>1
<1>5. /\ \A i, j \in 1 .. n : s.calls[i].node = s.calls[j].node => i = j
      /\ \A i \in 1 .. n : s.calls[i].node \notin s.left
      /\ \A i \in 1 .. (n - 1) : <<s.calls[i].node, s.calls[i + 1].node>> \in Arrows(graph)
      /\ s.calls[1].node \in ToSet(graph.symbols)
      /\ s.cycles = <<>> => Explored(graph, s)
      /\ \A i \in 1 .. Len(s.cycles) : IsRound(graph, s.cycles[i])
  BY DEF Searched, IsPath, n
<1>6. \A i \in 1 .. (n - 1) : s.calls[i].node # call.node
  <2>1. \A i \in 1 .. (n - 1) : i # n
    BY <1>1
  <2> QED BY <1>2, <1>3, <1>5, <2>1
<1>7. IsPath(graph, calls, left)
  <2>1. \A i \in 1 .. ((n - 1) - 1) : i \in 1 .. (n - 1) /\ i + 1 \in 1 .. (n - 1)
    BY <1>1
  <2>2. /\ \A i, j \in 1 .. (n - 1) : calls[i].node = calls[j].node => i = j
        /\ \A i \in 1 .. (n - 1) : calls[i].node \notin left
        /\ \A i \in 1 .. ((n - 1) - 1) : <<calls[i].node, calls[i + 1].node>> \in Arrows(graph)
        /\ calls # <<>> => calls[1].node \in ToSet(graph.symbols)
    BY <1>3, <1>5, <1>6, <2>1
  <2> QED BY <1>3, <2>2 DEF IsPath
<1>8. ASSUME s.cycles = <<>> PROVE Explored(graph, next)
  <2>1. /\ \A i \in 1 .. n, k \in 1 .. m :
             k <= s.calls[i].passed /\ graph.edges[k].source = s.calls[i].node =>
               \/ graph.edges[k].target \in s.left
               \/ i < n /\ graph.edges[k].target = s.calls[i + 1].node
        /\ Ranked(Arrows(graph), s.left)
        /\ \A i \in 1 .. s.begun :
             graph.symbols[i] \in s.left \/ (s.calls # <<>> /\ graph.symbols[i] = s.calls[1].node)
    BY <1>5, <1>8 DEF Explored, n, m
  <2>2. ASSUME NEW i \in 1 .. (n - 1), NEW k \in 1 .. m, k <= calls[i].passed, graph.edges[k].source = calls[i].node
        PROVE  graph.edges[k].target \in left \/ (i < n - 1 /\ graph.edges[k].target = calls[i + 1].node)
    <3>1. i + 1 = n \/ (i < n - 1 /\ i + 1 \in 1 .. (n - 1))
      BY <1>1
    <3>2. \/ graph.edges[k].target \in s.left
          \/ graph.edges[k].target = s.calls[i + 1].node
      BY <1>3, <2>1, <2>2
    <3>3. CASE i + 1 = n
      BY <1>2, <3>2, <3>3
    <3>4. CASE i < n - 1 /\ i + 1 \in 1 .. (n - 1)
      BY <1>3, <3>2, <3>4
    <3> QED BY <3>1, <3>3, <3>4
  <2>3. Ranked(Arrows(graph), left)
    <3>1. ASSUME NEW p \in Arrows(graph), p[1] = call.node PROVE p[2] \in s.left
      <4>1. DOMAIN graph.edges = 1 .. m
        BY LenProperties DEF IsGraph, m
      <4>2. PICK k \in 1 .. m : p = <<graph.edges[k].source, graph.edges[k].target>>
        BY <4>1 DEF Arrows, ToSet
      <4>3. k <= s.calls[n].passed /\ graph.edges[k].source = s.calls[n].node /\ ~(n < n)
        BY <1>1, <1>2, <3>1, <4>2 DEF m
      <4> QED BY <1>2, <2>1, <4>2, <4>3
    <3>2. call.node \notin s.left
      BY <1>2, <1>5
    <3> HIDE DEF left
    <3>3. Ranked(Arrows(graph), s.left \cup {call.node})
      BY <2>1, <3>1, <3>2, RankedMore
    <3> QED BY <3>3 DEF left
  <2>4. ASSUME NEW i \in 1 .. s.begun
        PROVE  graph.symbols[i] \in left \/ (calls # <<>> /\ graph.symbols[i] = calls[1].node)
    <3>1. CASE n = 1
      BY <1>2, <2>1, <3>1
    <3>2. CASE n # 1
      <4>1. n - 1 # 0 /\ 1 \in 1 .. (n - 1) /\ Len(<<>>) = 0
        BY <1>1, <3>2
      <4>2. calls # <<>> /\ calls[1] = s.calls[1]
        BY <1>3, <4>1
      <4> QED BY <2>1, <4>2
    <3> QED BY <3>1, <3>2
  <2> HIDE DEF left
  <2>5. \A i \in 1 .. Len(calls), k \in 1 .. Len(graph.edges) :
          k <= calls[i].passed /\ graph.edges[k].source = calls[i].node =>
            \/ graph.edges[k].target \in left
            \/ i < Len(calls) /\ graph.edges[k].target = calls[i + 1].node
    BY <1>3, <2>2 DEF m
  <2>6. next.begun = s.begun /\ next.calls = calls /\ next.left = left
    BY <1>4, Zenon
  <2> QED BY <2>3, <2>4, <2>5, <2>6, ZenonT(30) DEF Explored
<1>9. next \in Searched(graph)
  <2> HIDE DEF left
  <2> QED BY <1>4, <1>5, <1>7, <1>8 DEF Searched
<1>10. Rest(graph, next) = Rest(graph, s) \ {<<call.node, call.passed>>}
  <2>0. /\ Rest(graph, next) = {p \in Nodes(graph) \X (0 .. m) :
             p[1] \notin left /\ \A j \in 1 .. (n - 1) : calls[j].node = p[1] => calls[j].passed <= p[2]}
        /\ Rest(graph, s) = {p \in Nodes(graph) \X (0 .. m) :
             p[1] \notin s.left /\ \A j \in 1 .. n : s.calls[j].node = p[1] => s.calls[j].passed <= p[2]}
    BY <1>3, <1>4 DEF Rest, n, m
  <2>1. ASSUME NEW x \in Nodes(graph), NEW i \in 0 .. m
        PROVE  (x \notin left /\ \A j \in 1 .. (n - 1) : calls[j].node = x => calls[j].passed <= i)
               <=> (x \notin s.left /\ \A j \in 1 .. n : s.calls[j].node = x => s.calls[j].passed <= i)
                   /\ <<x, i>> # <<call.node, call.passed>>
    <3>1. CASE x = call.node
      <4>1. s.calls[n].passed <= i => i = call.passed
        BY <1>1, <1>2 DEF m
      <4> QED BY <1>2, <3>1, <4>1
    <3>2. CASE x # call.node
      <4>1. \A j \in 1 .. n : j = n \/ j \in 1 .. (n - 1)
        BY <1>1
      <4> QED BY <1>2, <1>3, <3>2, <4>1
    <3> QED BY <3>1, <3>2
  <2>2. \A p \in Nodes(graph) \X (0 .. m) : p = <<p[1], p[2]>> /\ p[1] \in Nodes(graph) /\ p[2] \in 0 .. m
    OBVIOUS
  <2>3. ASSUME NEW p \in Nodes(graph) \X (0 .. m)
        PROVE  p \in Rest(graph, next) <=> p \in Rest(graph, s) /\ p # <<call.node, call.passed>>
    <3>1. PICK x \in Nodes(graph), i \in 0 .. m : p = <<x, i>> /\ p[1] = x /\ p[2] = i
      BY <2>2
    <3>2. (x \notin left /\ \A j \in 1 .. (n - 1) : calls[j].node = x => calls[j].passed <= i)
          <=> (x \notin s.left /\ \A j \in 1 .. n : s.calls[j].node = x => s.calls[j].passed <= i)
              /\ p # <<call.node, call.passed>>
      BY <2>1, <3>1
    <3> HIDE DEF left
    <3> QED BY <2>0, <3>1, <3>2
  <2>4. Rest(graph, next) \subseteq Nodes(graph) \X (0 .. m) /\ Rest(graph, s) \subseteq Nodes(graph) \X (0 .. m)
    BY <2>0
  <2> QED BY <2>3, <2>4
<1> QED BY <1>9, <1>10

\* The path, from where the edge leads back to, and that node again.
LEMMA RoundIs ==
  ASSUME NEW graph, IsGraph(graph), NEW s \in Searched(graph), s.calls # <<>>,
         NEW edge \in ToSet(graph.edges), edge.source = s.calls[Len(s.calls)].node,
         NEW m \in 1 .. Len(s.calls), s.calls[m].node = edge.target
  PROVE  LET cycle == Append([i \in 1 .. (Len(s.calls) + 1 - m) |-> s.calls[m + i - 1].node], edge.target)
         IN cycle \in Seq(Nodes(graph)) /\ IsRound(graph, cycle)
<1> DEFINE n == Len(s.calls)
           l == n + 1 - m
           path == [i \in 1 .. l |-> s.calls[m + i - 1].node]
           cycle == Append(path, edge.target)
           A == Arrows(graph)
           X == Nodes(graph)
<1>1. /\ n \in Nat /\ m \in 1 .. n /\ n \in 1 .. n /\ 1 \in 1 .. n /\ \A i \in 1 .. n : s.calls[i].node \in X
  <2>1. n \in Nat /\ m \in 1 .. n /\ \A i \in 1 .. n : s.calls[i].node \in X
    BY SearchedIs
  <2> HIDE DEF n, X
  <2> QED BY <2>1
<1>2. /\ \A i, j \in 1 .. n : s.calls[i].node = s.calls[j].node => i = j
      /\ \A i \in 1 .. (n - 1) : <<s.calls[i].node, s.calls[i + 1].node>> \in A
      /\ s.calls[1].node \in ToSet(graph.symbols)
  BY DEF Searched, IsPath
<1>3. edge.target = s.calls[m].node /\ edge.target \in X /\ <<s.calls[n].node, s.calls[m].node>> \in A
  <2>1. <<edge.source, edge.target>> \in A
    BY DEF Arrows
  <2>2. edge.target = s.calls[m].node /\ edge.source = s.calls[n].node
    OBVIOUS
  <2> HIDE DEF A, n, X
  <2> QED BY <1>1, <2>1, <2>2
<1> HIDE DEF n, A, X
<1>4. l \in Nat /\ l # 0 /\ \A i \in 1 .. l : m + i - 1 \in 1 .. n
  BY <1>1
<1>5. path \in Seq(X) /\ Len(path) = l
  <2>1. \A i \in 1 .. l : s.calls[m + i - 1].node \in X
    BY <1>1, <1>4
  <2> HIDE DEF l
  <2> QED BY <1>4, <2>1
<1>6. \A i \in 1 .. l : path[i] = s.calls[m + i - 1].node
  OBVIOUS
<1> HIDE DEF path
<1>7. /\ cycle \in Seq(X) /\ Len(cycle) = l + 1
      /\ \A i \in 1 .. l : cycle[i] = s.calls[m + i - 1].node
      /\ cycle[l + 1] = s.calls[m].node
  <2>1. /\ cycle \in Seq(X) /\ Len(cycle) = l + 1
        /\ \A i \in 1 .. l : cycle[i] = path[i]
        /\ cycle[l + 1] = edge.target
    <3> HIDE DEF l
    <3> QED BY <1>3, <1>5, AppendProperties
  <2> HIDE DEF l, cycle
  <2> QED BY <1>3, <1>6, <2>1
<1> HIDE DEF cycle
<1>8. Len(cycle) > 1 /\ cycle[1] = s.calls[m].node /\ cycle[1] = Last(cycle)
  <2>1. 1 \in 1 .. l /\ m + 1 - 1 = m /\ l + 1 > 1
    BY <1>1, <1>4
  <2>2. cycle[1] = s.calls[m].node
    <3> HIDE DEF l
    <3> QED BY <1>7, <2>1
  <2> HIDE DEF l
  <2> QED BY <1>7, <2>1, <2>2 DEF Last
<1>9. IsInjective(Tail(cycle))
  <2>1. Tail(cycle) \in Seq(X) /\ Len(Tail(cycle)) = l /\ \A i \in 1 .. l : Tail(cycle)[i] = cycle[i + 1]
    <3>1. Len(<<>>) = 0
      OBVIOUS
    <3>2. cycle # <<>>
      BY <1>4, <1>7, <3>1
    <3>3. /\ Tail(cycle) \in Seq(X) /\ Len(Tail(cycle)) = Len(cycle) - 1
          /\ \A i \in 1 .. Len(Tail(cycle)) : Tail(cycle)[i] = cycle[i + 1]
      BY <1>7, <3>2, HeadTailProperties
    <3> HIDE DEF l
    <3>4. Len(Tail(cycle)) = l
      BY <1>4, <1>7, <3>3
    <3> QED BY <3>3, <3>4
  <2>2. DOMAIN Tail(cycle) = 1 .. l
    BY <2>1, LenProperties
  <2>3. ASSUME NEW i \in 1 .. l
        PROVE  /\ i < l => m + i \in 1 .. n /\ m + i # m /\ cycle[i + 1] = s.calls[m + i].node
               /\ i = l => cycle[i + 1] = s.calls[m].node
    <3>1. CASE i < l
      <4>1. m + i \in 1 .. n /\ m + i # m /\ i + 1 \in 1 .. l /\ m + (i + 1) - 1 = m + i
        BY <1>1, <3>1
      <4>2. cycle[i + 1] = s.calls[m + (i + 1) - 1].node
        BY <1>7, <4>1
      <4> QED BY <3>1, <4>1, <4>2
    <3>2. CASE ~(i < l)
      BY <1>7, <3>2
    <3> QED BY <3>1, <3>2
  <2>4. ASSUME NEW i \in 1 .. l, NEW j \in 1 .. l, cycle[i + 1] = cycle[j + 1] PROVE i = j
    <3>1. CASE i < l /\ j < l
      <4>1. m + i = m + j
        BY <1>2, <2>3, <2>4, <3>1
      <4> QED BY <1>1, <4>1
    <3>2. CASE i = l /\ j < l
      BY <1>1, <1>2, <2>3, <2>4, <3>2
    <3>3. CASE i < l /\ j = l
      BY <1>1, <1>2, <2>3, <2>4, <3>3
    <3>4. CASE i = l /\ j = l
      BY <3>4
    <3>5. (i < l \/ i = l) /\ (j < l \/ j = l)
      BY <1>1
    <3> QED BY <3>1, <3>2, <3>3, <3>4, <3>5
  <2> HIDE DEF l
  <2> QED BY <2>1, <2>2, <2>4 DEF IsInjective
<1>10. ASSUME NEW j \in 1 .. l PROVE <<cycle[j], cycle[j + 1]>> \in A
  <2>1. CASE j = l
    <3>1. m + l - 1 = n /\ l \in 1 .. l
      BY <1>1, <1>4
    <3> HIDE DEF l
    <3>2. cycle[l] = s.calls[n].node
      BY <1>7, <3>1
    <3> QED BY <1>3, <1>7, <2>1, <3>2
  <2>2. CASE j # l
    <3> DEFINE i == m + j - 1
    <3>1. i \in 1 .. (n - 1) /\ j + 1 \in 1 .. l /\ m + (j + 1) - 1 = i + 1
      BY <1>1, <2>2
    <3> HIDE DEF l
    <3>2. cycle[j] = s.calls[i].node /\ cycle[j + 1] = s.calls[i + 1].node
      BY <1>7, <3>1
    <3> QED BY <1>2, <3>1, <3>2
  <2> QED BY <2>1, <2>2
<1>11. s.calls[m].node \in ToSet(graph.symbols) \/ ToSet(graph.symbols) \cap Reach(A, s.calls[m].node) # {}
  <2>1. CASE m = 1
    BY <1>2, <2>1
  <2>2. CASE m # 1
    <3> DEFINE path1 == [i \in 1 .. n |-> s.calls[i].node]
    <3>1. \A i \in 1 .. (n - 1) : i \in 1 .. n /\ i + 1 \in 1 .. n
      BY <1>1
    <3>2. \A i \in 1 .. (n - 1) : <<path1[i], path1[i + 1]>> \in A
      BY <1>2, <3>1
    <3>3. path1[1] = s.calls[1].node /\ path1[m] = s.calls[m].node
      BY <1>1
    <3> HIDE DEF path1
    <3>4. 1 \in 1 .. (m - 1)
      BY <1>1, <2>2
    <3>5. path1[1] \in Reach(A, path1[m])
      BY <1>1, <3>2, <3>4, PathReaches
    <3> QED BY <1>2, <3>3, <3>5
  <2> QED BY <2>1, <2>2
<1>12. Len(cycle) - 1 = l
  BY <1>4, <1>7
<1>13. IsRound(graph, cycle)
  <2>1. \A j \in 1 .. (Len(cycle) - 1) : <<cycle[j], cycle[j + 1]>> \in Arrows(graph)
    BY <1>10, <1>12 DEF A
  <2>2. cycle[1] \in ToSet(graph.symbols) \/ ToSet(graph.symbols) \cap Reach(Arrows(graph), cycle[1]) # {}
    BY <1>8, <1>11 DEF A
  <2> QED BY <1>8, <1>9, <2>1, <2>2 DEF IsRound
<1> QED BY <1>7, <1>13 DEF cycle, path, l, n, X

\* The next symbol is begun with.
LEMMA SymbolKeeps ==
  ASSUME NEW graph, IsGraph(graph), NEW s \in Searched(graph), s.calls = <<>>
  PROVE  /\ _next_symbol(graph, s) \in Searched(graph)
         /\ s.begun = Len(graph.symbols) => _next_symbol(graph, s) = s
         /\ s.begun # Len(graph.symbols) => /\ _next_symbol(graph, s).begun = s.begun + 1
                                            /\ Rest(graph, _next_symbol(graph, s)) = Rest(graph, s)
<1> DEFINE node == graph.symbols[s.begun + 1]
           next == _next_symbol(graph, s)
<1>1. /\ s = [begun |-> s.begun, calls |-> s.calls, left |-> s.left, cycles |-> s.cycles]
      /\ s.begun \in 0 .. Len(graph.symbols) /\ s.left \in SUBSET Nodes(graph)
      /\ s.cycles \in Seq(Seq(Nodes(graph))) /\ Len(graph.symbols) \in Nat
  BY SearchedIs
<1>2. /\ \A i \in 1 .. Len(s.cycles) : IsRound(graph, s.cycles[i])
      /\ s.cycles = <<>> => /\ Ranked(Arrows(graph), s.left)
                            /\ \A i \in 1 .. s.begun : graph.symbols[i] \in s.left
  BY DEF Searched, Explored
<1>3. CASE s.begun = Len(graph.symbols)
  <2>1. next = s
    BY <1>3 DEF _next_symbol
  <2> QED BY <1>3, <2>1
<1>4. CASE s.begun # Len(graph.symbols)
  <2>1. s.begun + 1 \in 0 .. Len(graph.symbols) /\ s.begun + 1 \in 1 .. Len(graph.symbols)
        /\ \A i \in 1 .. (s.begun + 1) : i \in 1 .. s.begun \/ i = s.begun + 1
    <3> DEFINE b == s.begun
               l == Len(graph.symbols)
    <3>1. b \in 0 .. l /\ b # l /\ l \in Nat
      BY <1>1, <1>4
    <3> HIDE DEF b, l
    <3>2. b + 1 \in 0 .. l /\ b + 1 \in 1 .. l /\ \A i \in 1 .. (b + 1) : i \in 1 .. b \/ i = b + 1
      BY <3>1
    <3> QED BY <3>2 DEF b, l
  <2>2. node \in ToSet(graph.symbols) /\ node \in Nodes(graph)
    <3>1. DOMAIN graph.symbols = 1 .. Len(graph.symbols)
      BY LenProperties DEF IsGraph
    <3> QED BY <2>1, <3>1 DEF ToSet, Nodes
  <2> DEFINE calls == IF node \in s.left THEN <<>> ELSE <<Called(node)>>
             other == [begun |-> s.begun + 1, calls |-> calls, left |-> s.left, cycles |-> s.cycles]
  <2>3. next = other
    <3>1. [s EXCEPT !.begun = @ + 1] = [begun |-> s.begun + 1, calls |-> <<>>, left |-> s.left, cycles |-> s.cycles]
      BY <1>1
    <3>2. [[s EXCEPT !.begun = @ + 1] EXCEPT !.calls = <<Called(node)>>]
          = [begun |-> s.begun + 1, calls |-> <<Called(node)>>, left |-> s.left, cycles |-> s.cycles]
      <4> DEFINE c == <<Called(node)>>
                 t == [s EXCEPT !.begun = @ + 1]
      <4>1. t = [begun |-> s.begun + 1, calls |-> <<>>, left |-> s.left, cycles |-> s.cycles]
        BY <3>1
      <4> HIDE DEF c, t, node
      <4>2. [t EXCEPT !.calls = c] = [begun |-> s.begun + 1, calls |-> c, left |-> s.left, cycles |-> s.cycles]
        BY <4>1
      <4> QED BY <4>2 DEF c, t
    <3>3. CASE node \in s.left
      BY <1>4, <3>1, <3>3 DEF _next_symbol
    <3>4. CASE node \notin s.left
      BY <1>4, <3>2, <3>4 DEF _next_symbol
    <3> QED BY <3>3, <3>4
  <2>4. /\ other.begun = s.begun + 1 /\ other.calls = calls /\ other.left = s.left /\ other.cycles = s.cycles
    OBVIOUS
  <2>5. /\ Called(node) \in Calls(graph) /\ Called(node).node = node /\ Called(node).passed = 0
    BY <2>2, SearchedIs DEF Called, Calls
  <2>6. /\ node \in s.left => calls = <<>>
        /\ node \notin s.left => calls # <<>> /\ Len(calls) = 1 /\ calls[1] = Called(node)
        /\ calls \in Seq(Calls(graph)) /\ Len(<<>>) = 0
    <3> HIDE DEF node
    <3> QED BY <2>5
  <2>7. other \in [begun : 0 .. Len(graph.symbols), calls : Seq(Calls(graph)), left : SUBSET Nodes(graph),
                   cycles : Seq(Seq(Nodes(graph)))]
    <3> HIDE DEF calls
    <3> QED BY <1>1, <2>1, <2>6
  <2> HIDE DEF other, calls, node
  <2>8. IsPath(graph, calls, s.left)
    <3>1. CASE node \in s.left
      BY <2>6, <3>1 DEF IsPath
    <3>2. CASE node \notin s.left
      <4>1. Len(calls) = 1 /\ calls[1].node = node
        BY <2>5, <2>6, <3>2
      <4>2. \A i \in 1 .. 1 : i = 1
        OBVIOUS
      <4>3. 1 .. (1 - 1) = {}
        OBVIOUS
      <4> QED BY <2>2, <3>2, <4>1, <4>2, <4>3 DEF IsPath
    <3> QED BY <3>1, <3>2
  <2>9. ASSUME s.cycles = <<>> PROVE Explored(graph, other)
    <3>1. ASSUME NEW i \in 1 .. Len(calls), NEW k \in 1 .. Len(graph.edges), k <= calls[i].passed PROVE FALSE
      <4>1. CASE node \in s.left
        BY <2>6, <3>1, <4>1
      <4>2. CASE node \notin s.left
        <5>1. i = 1
          BY <2>6, <3>1, <4>2
        <5>2. calls[i].passed = 0
          BY <2>5, <2>6, <4>2, <5>1
        <5> QED BY <3>1, <5>2
      <4> QED BY <4>1, <4>2
    <3>2. ASSUME NEW i \in 1 .. (s.begun + 1)
          PROVE  graph.symbols[i] \in s.left \/ (calls # <<>> /\ graph.symbols[i] = calls[1].node)
      <4>1. CASE i \in 1 .. s.begun
        BY <1>2, <2>9, <4>1
      <4>2. CASE i = s.begun + 1
        BY <2>5, <2>6, <4>2 DEF node
      <4> QED BY <2>1, <4>1, <4>2
    <3> QED BY <1>2, <2>4, <2>9, <3>1, <3>2 DEF Explored
  <2>10. other \in Searched(graph)
    BY <1>2, <2>4, <2>7, <2>8, <2>9 DEF Searched
  <2>11. Rest(graph, other) = Rest(graph, s)
    <3>1. ASSUME NEW x \in Nodes(graph), NEW i \in 0 .. Len(graph.edges), x \notin s.left
          PROVE  \A j \in 1 .. Len(calls) : calls[j].node = x => calls[j].passed <= i
      <4>1. CASE node \in s.left
        BY <2>6, <4>1
      <4>2. CASE node \notin s.left
        <5>1. \A j \in 1 .. Len(calls) : calls[j].passed = 0
          BY <2>5, <2>6, <4>2
        <5> QED BY <5>1
      <4> QED BY <4>1, <4>2
    <3>2. 1 .. Len(s.calls) = {}
      BY <2>6
    <3>3. \A p \in Nodes(graph) \X (0 .. Len(graph.edges)) :
            (\A j \in 1 .. Len(calls) : calls[j].node = p[1] => calls[j].passed <= p[2]) \/ p[1] \in s.left
      BY <3>1
    <3> QED BY <2>4, <3>2, <3>3 DEF Rest
  <2> QED BY <1>4, <2>3, <2>4, <2>10, <2>11
<1> QED BY <1>3, <1>4

LEMMA FirstIsMin ==
  ASSUME NEW s \in SUBSET Nat, s # {}
  PROVE  Min(s) \in s
<1>1. \E m \in s : \A i \in s : m <= i
  BY LeastNatural
<1> QED BY <1>1, Zenon DEF Min

\* A call passes an edge, or returns.
LEMMA CallKeeps ==
  ASSUME NEW graph, IsGraph(graph), NEW s \in Searched(graph), s.calls # <<>>
  PROVE  LET next == _dfs_cycle(graph, s)
             call == s.calls[Len(s.calls)]
         IN /\ next \in Searched(graph) /\ next.begun = s.begun
            /\ Rest(graph, next) = Rest(graph, s) \ {<<call.node, call.passed>>}
<1> DEFINE n == Len(s.calls)
           call == s.calls[n]
           edge == graph.edges[call.passed + 1]
           passing == [s EXCEPT !.calls[n].passed = @ + 1]
           next == _dfs_cycle(graph, s)
           Keeps(t) == /\ t \in Searched(graph) /\ t.begun = s.begun
                       /\ Rest(graph, t) = Rest(graph, s) \ {<<call.node, call.passed>>}
<1>0. /\ s = [begun |-> s.begun, calls |-> s.calls, left |-> s.left, cycles |-> s.cycles]
      /\ n \in Nat /\ n # 0 /\ s.cycles \in Seq(Seq(Nodes(graph))) /\ Len(s.cycles) \in Nat
  BY SearchedIs
<1>1. CASE call.passed = Len(graph.edges)
  <2> DEFINE other == [begun |-> s.begun, calls |-> Front(s.calls), left |-> s.left \cup {call.node},
                       cycles |-> s.cycles]
  <2>1. next = other
    <3>1. [s EXCEPT !.calls = Front(@), !.left = @ \cup {call.node}] = other
      <4> DEFINE c == Front(s.calls)
                 l == s.left \cup {call.node}
                 t == [s EXCEPT !.calls = c]
      <4> HIDE DEF c, l, n
      <4>1. t = [begun |-> s.begun, calls |-> c, left |-> s.left, cycles |-> s.cycles]
        BY <1>0
      <4>2. [s EXCEPT !.calls = c, !.left = l] = [t EXCEPT !.left = l]
        OBVIOUS
      <4> HIDE DEF t
      <4>3. [t EXCEPT !.left = l] = [begun |-> s.begun, calls |-> c, left |-> l, cycles |-> s.cycles]
        BY <4>1
      <4> QED BY <4>2, <4>3 DEF c, l
    <3>2. next = [s EXCEPT !.calls = Front(@), !.left = @ \cup {call.node}]
      BY <1>1 DEF _dfs_cycle
    <3> QED BY <3>1, <3>2
  <2>2. Keeps(other)
    BY <1>1, ReturnKeeps
  <2> QED BY <2>1, <2>2
<1>2. CASE call.passed # Len(graph.edges)
  <2>1. PICK moved \in Seq(Calls(graph)) :
          /\ Advanced(graph, s.calls, moved)
          /\ passing = [begun |-> s.begun, calls |-> moved, left |-> s.left, cycles |-> s.cycles]
    BY <1>2, PassMoves
  <2>2. /\ Len(moved) = n /\ \A i \in 1 .. n : moved[i].node = s.calls[i].node
        /\ DOMAIN moved = 1 .. n
    <3>1. Len(moved) = n /\ \A i \in 1 .. n : moved[i].node = s.calls[i].node
      BY <2>1 DEF Advanced
    <3> QED BY <2>1, <3>1, LenProperties
  <2>3. edge \in ToSet(graph.edges) /\ edge = graph.edges[call.passed + 1]
    <3> HIDE DEF n
    <3>1. /\ call.passed \in 0 .. Len(graph.edges) /\ Len(graph.edges) \in Nat
      <4>1. n \in 1 .. n
        BY <1>0
      <4> QED BY <4>1, SearchedIs DEF n
    <3> DEFINE p == call.passed
               m == Len(graph.edges)
    <3>2. p \in 0 .. m /\ m \in Nat /\ p # m
      BY <1>2, <3>1
    <3>3. DOMAIN graph.edges = 1 .. m
      BY LenProperties DEF IsGraph
    <3> HIDE DEF p, m
    <3>4. p + 1 \in 1 .. m
      BY <3>2
    <3> QED BY <3>3, <3>4 DEF p, m, ToSet
  <2> DEFINE Then(cycles) == [begun |-> s.begun, calls |-> moved, left |-> s.left, cycles |-> cycles]
  <2>9. Passing(graph, s, call, edge, moved)
    BY <1>2, <2>1 DEF Passing
  <2>4. ASSUME NEW cycles \in Seq(Seq(Nodes(graph))), \A i \in 1 .. Len(cycles) : IsRound(graph, cycles[i]),
               cycles = <<>> => s.cycles = <<>> /\ (edge.source = call.node => edge.target \in s.left)
        PROVE  Keeps(Then(cycles))
    <3>1. Nowhere(graph, s, call, edge, cycles)
      <4> HIDE DEF edge, call
      <4> QED BY <2>4 DEF Nowhere
    <3>2. Further(graph, s, call, Then(cycles))
      <4> HIDE DEF edge, call
      <4> QED BY <2>9, <3>1, PassedKeeps
    <3> QED BY <3>2 DEF Further
  <2>5. \A i \in 1 .. Len(s.cycles) : IsRound(graph, s.cycles[i])
    BY DEF Searched
  <2>6. next = IF edge.source = call.node THEN _step_cycle_edge(passing, edge.target) ELSE passing
    BY <1>2 DEF _dfs_cycle
  <2>7. CASE edge.source # call.node
    <3>1. next = Then(s.cycles)
      BY <2>1, <2>6, <2>7
    <3> HIDE DEF edge, call, Then, Keeps
    <3>2. Keeps(Then(s.cycles))
      BY <1>0, <2>4, <2>5, <2>7
    <3> QED BY <3>1, <3>2 DEF Keeps, call
  <2>8. CASE edge.source = call.node
    <3> DEFINE on == {i \in 1 .. n : moved[i].node = edge.target}
               cycle == [i \in 1 .. (n + 1 - Min(on)) |-> moved[Min(on) + i - 1].node]
    <3>0. next = _step_cycle_edge(passing, edge.target)
      BY <2>6, <2>8
    <3>1. /\ passing.calls = moved /\ passing.cycles = s.cycles /\ passing.left = s.left
          /\ \A c : [passing EXCEPT !.cycles = c] = Then(c)
          /\ \A c : [passing EXCEPT !.calls = c]
                    = [begun |-> s.begun, calls |-> c, left |-> s.left, cycles |-> s.cycles]
      <4> HIDE DEF passing
      <4> QED BY <2>1
    <3> HIDE DEF passing
    <3>2. CASE on # {}
      <4>1. next = Then(Append(s.cycles, Append(cycle, edge.target)))
        <5>1. {i \in DOMAIN passing.calls : passing.calls[i].node = edge.target} = on /\ Len(passing.calls) = n
          BY <2>2, <3>1
        <5>2. next = [passing EXCEPT !.cycles = Append(@, Append(cycle, edge.target))]
          <6> HIDE DEF on, n
          <6> QED BY <3>0, <3>1, <3>2, <5>1 DEF _step_cycle_edge
        <5> HIDE DEF cycle
        <5> QED BY <3>1, <5>2
      <4>2. PICK m \in on : m = Min(on)
        <5>1. on \in SUBSET Nat
          OBVIOUS
        <5> HIDE DEF on
        <5>2. Min(on) \in on
          BY <3>2, <5>1, FirstIsMin
        <5> QED BY <5>2
      <4>3. m \in 1 .. n /\ s.calls[m].node = edge.target
        BY <2>2
      <4>4. cycle = [i \in 1 .. (n + 1 - m) |-> s.calls[m + i - 1].node]
        <5>1. \A i \in 1 .. (n + 1 - m) : m + i - 1 \in 1 .. n
          BY <1>0, <4>3
        <5>2. cycle = [i \in 1 .. (n + 1 - m) |-> moved[m + i - 1].node]
          BY <4>2
        <5> HIDE DEF cycle, on, n
        <5> QED BY <2>2, <5>1, <5>2
      <4> DEFINE c == Append(cycle, edge.target)
                 cycles == Append(s.cycles, c)
      <4>5. c \in Seq(Nodes(graph)) /\ IsRound(graph, c)
        <5> HIDE DEF edge, cycle, on, c
        <5>1. LET d == Append([i \in 1 .. (n + 1 - m) |-> s.calls[m + i - 1].node], edge.target)
              IN d \in Seq(Nodes(graph)) /\ IsRound(graph, d)
          BY <2>3, <2>8, <4>3, RoundIs
        <5> QED BY <4>4, <5>1 DEF c
      <4> HIDE DEF c, cycle, on
      <4>6. /\ cycles \in Seq(Seq(Nodes(graph))) /\ cycles # <<>> /\ Len(cycles) = Len(s.cycles) + 1
            /\ \A i \in 1 .. Len(s.cycles) : cycles[i] = s.cycles[i]
            /\ cycles[Len(s.cycles) + 1] = c
        <5> DEFINE S == Seq(Nodes(graph))
        <5>1. s.cycles \in Seq(S) /\ c \in S
          BY <1>0, <4>5
        <5> HIDE DEF S
        <5>2. /\ cycles \in Seq(S) /\ cycles # <<>> /\ Len(cycles) = Len(s.cycles) + 1
              /\ \A i \in 1 .. Len(s.cycles) : cycles[i] = s.cycles[i]
              /\ cycles[Len(s.cycles) + 1] = c
          BY <5>1, AppendProperties
        <5> QED BY <5>2 DEF S
      <4> HIDE DEF cycles
      <4>7. \A i \in 1 .. Len(cycles) : IsRound(graph, cycles[i])
        <5>1. \A i \in 1 .. Len(cycles) : i \in 1 .. Len(s.cycles) \/ i = Len(s.cycles) + 1
          BY <1>0, <4>6
        <5> QED BY <2>5, <4>5, <4>6, <5>1
      <4> HIDE DEF Then, Keeps, edge, call
      <4>8. Keeps(Then(cycles))
        BY <2>4, <4>6, <4>7
      <4> QED BY <4>1, <4>8 DEF Keeps, c, cycles, call
    <3>3. CASE on = {} /\ edge.target \notin s.left /\ Len(s.cycles) < CycleLimit
      <4> DEFINE other == [begun |-> s.begun, calls |-> Append(moved, Called(edge.target)), left |-> s.left,
                           cycles |-> s.cycles]
      <4>1. next = other
        <5>1. {i \in DOMAIN passing.calls : passing.calls[i].node = edge.target} = on
          BY <2>2, <3>1
        <5>2. next = [passing EXCEPT !.calls = Append(@, Called(edge.target))]
          <6> HIDE DEF on
          <6> QED BY <3>0, <3>1, <3>3, <5>1 DEF _step_cycle_edge
        <5> QED BY <3>1, <5>2
      <4>2. \A i \in 1 .. n : s.calls[i].node # edge.target
        BY <2>2, <3>3
      <4>3. other.begun = s.begun
        OBVIOUS
      <4>4. other \in Searched(graph) /\ Rest(graph, other) = Rest(graph, s) \ {<<call.node, call.passed>>}
        <5>1. Unmet(s, call, edge)
          BY <2>8, <3>3, <4>2 DEF Unmet
        <5>2. Further(graph, s, call, other)
          <6> HIDE DEF edge, call
          <6> QED BY <2>9, <5>1, CalledKeeps
        <5> QED BY <5>2 DEF Further
      <4> QED BY <4>1, <4>3, <4>4
    <3>4. CASE on = {} /\ ~(edge.target \notin s.left /\ Len(s.cycles) < CycleLimit)
      <4>1. next = passing
        <5>1. {i \in DOMAIN passing.calls : passing.calls[i].node = edge.target} = on
          BY <2>2, <3>1
        <5> HIDE DEF on
        <5> QED BY <3>0, <3>1, <3>4, <5>1 DEF _step_cycle_edge
      <4>2. next = Then(s.cycles)
        BY <2>1, <4>1 DEF passing
      <4>3. s.cycles = <<>> => edge.target \in s.left
        <5>1. s.cycles = <<>> => Len(s.cycles) = 0
          OBVIOUS
        <5>2. 0 < CycleLimit
          BY GraphAssumption
        <5> HIDE DEF on
        <5> QED BY <3>4, <5>1, <5>2
      <4> HIDE DEF edge, call, Then, Keeps
      <4>4. Keeps(Then(s.cycles))
        BY <1>0, <2>4, <2>5, <4>3
      <4> QED BY <4>2, <4>4 DEF Keeps, call
    <3> HIDE DEF on
    <3> QED BY <3>2, <3>3, <3>4
  <2> QED BY <2>7, <2>8
<1> QED BY <1>1, <1>2

LEMMA NodesAreFew ==
  ASSUME NEW graph, IsGraph(graph)
  PROVE  IsFiniteSet(Nodes(graph)) /\ Cardinality(Nodes(graph)) <= Len(graph.symbols) + Len(graph.edges)
<1> DEFINE n == Len(graph.edges)
           T == {e.target : e \in ToSet(graph.edges)}
           seq == [i \in 1 .. n |-> graph.edges[i].target]
           R == ToSet(graph.symbols)
<1>1. n \in Nat /\ DOMAIN graph.edges = 1 .. n /\ Len(graph.symbols) \in Nat
  BY LenProperties DEF IsGraph
<1>2. seq \in Seq(T) /\ Len(seq) = n
  <2>1. \A i \in 1 .. n : graph.edges[i].target \in T
    BY <1>1 DEF ToSet
  <2> HIDE DEF n, T
  <2> QED BY <1>1, <2>1
<1>3. ToSet(seq) = T
  <2>1. T = {graph.edges[i].target : i \in 1 .. n}
    BY <1>1 DEF ToSet
  <2>2. ToSet(seq) = {graph.edges[i].target : i \in 1 .. n}
    <3> HIDE DEF n
    <3> QED BY DEF ToSet
  <2> QED BY <2>1, <2>2
<1> HIDE DEF seq
<1>4. IsFiniteSet(T) /\ Cardinality(T) <= n
  BY <1>2, <1>3, SizeOf
<1>5. IsFiniteSet(R) /\ Cardinality(R) <= Len(graph.symbols)
  BY SizeOf DEF IsGraph
<1> HIDE DEF T, R, n
<1>6. /\ IsFiniteSet(R \cup T) /\ Cardinality(R \cup T) = Cardinality(R) + Cardinality(T) - Cardinality(R \cap T)
      /\ IsFiniteSet(R \cap T)
  BY <1>4, <1>5, FS_Union, FS_Intersection
<1>7. Cardinality(R) \in Nat /\ Cardinality(T) \in Nat /\ Cardinality(R \cap T) \in Nat
  BY <1>4, <1>5, <1>6, FS_CardinalityType
<1>8. Cardinality(R \cup T) <= Len(graph.symbols) + n
  BY <1>1, <1>4, <1>5, <1>6, <1>7
<1> QED BY <1>6, <1>8 DEF Nodes, R, T, n

LEMMA RestIsFew ==
  ASSUME NEW graph, IsGraph(graph), NEW s
  PROVE  /\ IsFiniteSet(Rest(graph, s)) /\ Cardinality(Rest(graph, s)) \in Nat
         /\ Cardinality(Rest(graph, s)) <= (Len(graph.symbols) + Len(graph.edges)) * (Len(graph.edges) + 1)
<1> DEFINE m == Len(graph.edges)
           l == Len(graph.symbols)
           X == Nodes(graph)
           I == 0 .. m
           Q == Rest(graph, s)
<1>1. l \in Nat /\ m \in Nat
  BY LenProperties DEF IsGraph
<1>2. IsFiniteSet(X) /\ Cardinality(X) <= l + m /\ Cardinality(X) \in Nat
  BY NodesAreFew, FS_CardinalityType
<1>3. IsFiniteSet(I) /\ Cardinality(I) = m + 1
  <2> HIDE DEF m
  <2>1. 0 \in Int /\ m \in Int /\ ~(0 > m) /\ m - 0 + 1 = m + 1
    BY <1>1
  <2> QED BY <2>1, FS_Interval
<1>4. Q \in SUBSET (X \X I)
  BY DEF Rest
<1> HIDE DEF X, I, Q, m, l
<1>5. IsFiniteSet(X \X I) /\ Cardinality(X \X I) = Cardinality(X) * (m + 1)
  BY <1>2, <1>3, FS_Product
<1>6. IsFiniteSet(Q) /\ Cardinality(Q) <= Cardinality(X \X I) /\ Cardinality(Q) \in Nat
  BY <1>4, <1>5, FS_Subset, FS_CardinalityType
<1>7. Cardinality(X) * (m + 1) <= (l + m) * (m + 1)
  <2> DEFINE a == Cardinality(X)
             b == l + m
  <2>1. a \in Nat /\ b \in Nat /\ a <= b
    BY <1>1, <1>2
  <2> HIDE DEF a, b
  <2>2. (b - a) * (m + 1) = b * (m + 1) - a * (m + 1)
    BY <1>1, <2>1
  <2>3. (b - a) * (m + 1) >= 0
    <3> DEFINE c == b - a
               d == m + 1
    <3>1. c \in Nat /\ d \in Nat
      BY <1>1, <2>1
    <3> HIDE DEF c, d
    <3>2. c * d >= 0
      BY <3>1
    <3> QED BY <3>2 DEF c, d
  <2>4. a * (m + 1) \in Int /\ b * (m + 1) \in Int
    BY <1>1, <2>1
  <2>5. a * (m + 1) <= b * (m + 1)
    BY <2>2, <2>3, <2>4
  <2> QED BY <2>5 DEF a, b
<1>8. Cardinality(Q) <= (l + m) * (m + 1)
  <2> DEFINE a == Cardinality(X) * (m + 1)
             b == (l + m) * (m + 1)
             c == Cardinality(Q)
  <2>1. a \in Int /\ b \in Int /\ c \in Int /\ c <= a /\ a <= b
    BY <1>1, <1>2, <1>5, <1>6, <1>7
  <2> HIDE DEF a, b, c
  <2>2. c <= b
    BY <2>1
  <2> QED BY <2>2 DEF b, c
<1> QED BY <1>6, <1>8 DEF Q, m, l

Searching(graph, s) == IF s.calls = <<>> THEN _next_symbol(graph, s) ELSE _dfs_cycle(graph, s)

ToDo(graph, s) == (Len(graph.symbols) - s.begun) + Cardinality(Rest(graph, s))

Finished(graph, s) == s.calls = <<>> /\ s.begun = Len(graph.symbols)

LEMMA SearchGoesOn ==
  ASSUME NEW graph, IsGraph(graph), NEW s \in Searched(graph)
  PROVE  /\ Searching(graph, s) \in Searched(graph) /\ ToDo(graph, s) \in Nat
         /\ Finished(graph, s) => Searching(graph, s) = s
         /\ ~Finished(graph, s) => ToDo(graph, Searching(graph, s)) = ToDo(graph, s) - 1
         /\ ToDo(graph, s) = 0 => Finished(graph, s)
<1> DEFINE n == Len(s.calls)
           l == Len(graph.symbols)
           call == s.calls[n]
           next == Searching(graph, s)
           Q == Rest(graph, s)
<1>1. /\ s.begun \in 0 .. l /\ l \in Nat /\ n \in Nat
      /\ s.calls # <<>> => n # 0
      /\ \A i \in 1 .. n : s.calls[i].node \in Nodes(graph) /\ s.calls[i].passed \in 0 .. Len(graph.edges)
  BY SearchedIs
<1>2. IsFiniteSet(Q) /\ Cardinality(Q) \in Nat
  BY RestIsFew
<1>3. ToDo(graph, s) = (l - s.begun) + Cardinality(Q)
  BY DEF ToDo
<1>4. ASSUME s.calls # <<>> PROVE <<call.node, call.passed>> \in Q
  <2> HIDE DEF n
  <2>1. n \in 1 .. n
    BY <1>1, <1>4
  <2>2. /\ \A i, j \in 1 .. n : s.calls[i].node = s.calls[j].node => i = j
        /\ \A i \in 1 .. n : s.calls[i].node \notin s.left
    BY DEF Searched, IsPath, n
  <2>3. call.node \in Nodes(graph) /\ call.passed \in 0 .. Len(graph.edges) /\ call.node \notin s.left
    BY <1>1, <2>1, <2>2
  <2>4. \A j \in 1 .. n : s.calls[j].node = call.node => s.calls[j].passed <= call.passed
    <3>1. \A j \in 1 .. n : s.calls[j].node = call.node => j = n
      BY <2>1, <2>2
    <3>2. call.passed <= call.passed
      BY <2>3
    <3> QED BY <3>1, <3>2
  <2> DEFINE p == <<call.node, call.passed>>
  <2>5. p \in Nodes(graph) \X (0 .. Len(graph.edges)) /\ p[1] = call.node /\ p[2] = call.passed
    BY <2>3
  <2> HIDE DEF p, call
  <2>6. p \in Q
    BY <2>3, <2>4, <2>5 DEF Rest, n
  <2> QED BY <2>6 DEF p
<1> HIDE DEF Q
<1>5. ASSUME ToDo(graph, s) = 0 PROVE Finished(graph, s)
  <2>1. s.begun = l /\ Cardinality(Q) = 0
    BY <1>1, <1>2, <1>3, <1>5
  <2>2. Q = {}
    BY <1>2, <2>1, FS_EmptySet
  <2> QED BY <1>4, <2>1, <2>2 DEF Finished
<1>6. ToDo(graph, s) \in Nat
  BY <1>1, <1>2, <1>3
<1>7. CASE s.calls = <<>>
  <2>1. /\ next = _next_symbol(graph, s) /\ next \in Searched(graph)
        /\ s.begun = l => next = s
        /\ s.begun # l => next.begun = s.begun + 1 /\ Rest(graph, next) = Q
    BY <1>7, SymbolKeeps DEF Searching, Q
  <2> HIDE DEF next, l
  <2>2. ASSUME s.begun # l PROVE ToDo(graph, next) = ToDo(graph, s) - 1
    <3>1. ToDo(graph, next) = (l - (s.begun + 1)) + Cardinality(Q)
      BY <2>1, <2>2 DEF ToDo, l
    <3> QED BY <1>1, <1>2, <1>3, <3>1
  <2> QED BY <1>5, <1>6, <1>7, <2>1, <2>2 DEF Finished, next, l
<1>8. CASE s.calls # <<>>
  <2>1. /\ next \in Searched(graph) /\ next.begun = s.begun
        /\ Rest(graph, next) = Q \ {<<call.node, call.passed>>}
    BY <1>8, CallKeeps DEF Searching, Q
  <2>2. Cardinality(Rest(graph, next)) = Cardinality(Q) - 1
    <3> DEFINE p == <<call.node, call.passed>>
    <3>1. p \in Q /\ Rest(graph, next) = Q \ {p}
      BY <1>4, <1>8, <2>1
    <3> HIDE DEF p, next
    <3>2. Cardinality(Q \ {p}) = Cardinality(Q) - 1
      BY <1>2, <3>1, FS_RemoveElement
    <3> QED BY <3>1, <3>2
  <2> HIDE DEF next, l
  <2>3. ToDo(graph, next) = ToDo(graph, s) - 1
    <3>1. ToDo(graph, next) = (l - s.begun) + (Cardinality(Q) - 1)
      BY <2>1, <2>2 DEF ToDo, l
    <3> QED BY <1>1, <1>2, <1>3, <3>1
  <2>4. ~Finished(graph, s)
    BY <1>8 DEF Finished
  <2> QED BY <1>5, <1>6, <2>1, <2>3, <2>4 DEF next
<1> QED BY <1>7, <1>8

\* The search ends in a state in which nothing is left to do.
LEMMA SearchEnds ==
  ASSUME NEW graph, IsGraph(graph)
  PROVE  \E s \in Searched(graph) : Finished(graph, s) /\ detect_dependency_cycles(graph) = s.cycles
<1> DEFINE T == Searched(graph)
           m == Len(graph.edges)
           l == Len(graph.symbols)
           nodes == l + m
           fuel == l + nodes * (m + 1)
           base == [begun |-> 0, calls |-> <<>>, left |-> {}, cycles |-> <<>>]
           Op(s) == Searching(graph, s)
           Eq(h) == h = [n \in 0 .. fuel |-> IF n = 0 THEN base ELSE Op(h[n - 1])]
           s == CHOOSE h : Eq(h)
           step == [t \in T |-> Op(t)]
<1>0. l \in Nat /\ m \in Nat
  BY LenProperties DEF IsGraph
<1>1. fuel \in Nat
  <2> HIDE DEF l, m
  <2>1. nodes \in Nat /\ m + 1 \in Nat
    BY <1>0
  <2> HIDE DEF nodes
  <2> QED BY <1>0, <2>1
<1>2. base \in T /\ ToDo(graph, base) <= fuel
  <2>1. base \in [begun : 0 .. Len(graph.symbols), calls : Seq(Calls(graph)), left : SUBSET Nodes(graph),
                  cycles : Seq(Seq(Nodes(graph)))]
    <3> DEFINE B == 0 .. Len(graph.symbols)
               C == Seq(Calls(graph))
               L == SUBSET Nodes(graph)
               Y == Seq(Seq(Nodes(graph)))
    <3>1. 0 \in B /\ <<>> \in C /\ {} \in L /\ <<>> \in Y
      BY <1>0, EmptySeq
    <3> HIDE DEF B, C, L, Y
    <3>2. base \in [begun : B, calls : C, left : L, cycles : Y]
      BY <3>1
    <3> QED BY <3>2 DEF B, C, L, Y
  <2>2. IsPath(graph, <<>>, {})
    BY DEF IsPath
  <2>3. Ranked(Arrows(graph), {})
    <3> DEFINE r == [x \in {} |-> 0]
    <3>1. r \in [{} -> 0 .. 0]
      OBVIOUS
    <3>2. \A p \in Arrows(graph) : p[1] \in {} => p[2] \in {} /\ r[p[2]] < r[p[1]]
      OBVIOUS
    <3> HIDE DEF r
    <3> QED BY <3>1, <3>2 DEF Ranked
  <2>4. Explored(graph, base)
    BY <2>3 DEF Explored
  <2>5. base \in T
    BY <2>1, <2>2, <2>4 DEF Searched
  <2>6. ToDo(graph, base) = l + Cardinality(Rest(graph, base))
    <3>1. base.begun = 0 /\ l - 0 = l
      BY <1>0
    <3> QED BY <3>1 DEF ToDo
  <2>7. Cardinality(Rest(graph, base)) <= nodes * (m + 1) /\ Cardinality(Rest(graph, base)) \in Nat
    <3> HIDE DEF base
    <3> QED BY RestIsFew
  <2>8. ToDo(graph, base) <= fuel
    <3> DEFINE c == Cardinality(Rest(graph, base))
               d == nodes * (m + 1)
    <3>1. d \in Int
      <4> HIDE DEF l, m
      <4> QED BY <1>0
    <3>2. c \in Nat /\ c <= d /\ fuel = l + d
      BY <2>7
    <3> HIDE DEF c, d, fuel, l
    <3>3. l + c <= fuel
      BY <1>0, <3>1, <3>2
    <3> QED BY <2>6, <3>3 DEF c
  <2> QED BY <2>5, <2>8
<1>3. \A t \in T : /\ Op(t) \in T /\ ToDo(graph, t) \in Nat
                   /\ Finished(graph, t) => Op(t) = t
                   /\ ~Finished(graph, t) => ToDo(graph, Op(t)) = ToDo(graph, t) - 1
                   /\ ToDo(graph, t) = 0 => Finished(graph, t)
  BY SearchGoesOn
<1>4. detect_dependency_cycles(graph) = s[fuel].cycles
  BY Zenon DEF detect_dependency_cycles, Searching
<1> HIDE DEF T, base, Op, fuel, nodes, l, m
<1>6. step \in [T -> T] /\ \A t \in T : step[t] = Op(t)
  BY <1>3
<1>7. HasLoop(T, base, fuel, step)
  <2> HIDE DEF step
  <2> QED BY <1>1, <1>2, <1>6, Loops
<1>8. PICK h \in [0 .. fuel -> T] : h = [i \in 0 .. fuel |-> IF i = 0 THEN base ELSE step[h[i - 1]]]
  BY <1>7 DEF HasLoop
<1>9. Eq(h)
  <2>1. ASSUME NEW i \in 0 .. fuel, i # 0 PROVE step[h[i - 1]] = Op(h[i - 1])
    <3>1. i - 1 \in 0 .. fuel
      BY <1>1, <2>1
    <3> QED BY <1>6, <1>8, <3>1
  <2> HIDE DEF step
  <2> QED BY <1>8, <2>1
<1>10. Eq(s)
  <2> HIDE DEF Eq
  <2> QED BY <1>9, Zenon
<1> HIDE DEF s
<1> DEFINE Good(i) == s[i] \in T /\ (Finished(graph, s[i]) \/ ToDo(graph, s[i]) <= fuel - i)
           G == {i \in 0 .. fuel : Good(i)}
<1>12. 0 \in G
  <2>1. s[0] = base /\ 0 \in 0 .. fuel
    BY <1>1, <1>10
  <2> QED BY <1>1, <1>2, <2>1
<1>13. ASSUME NEW i \in 1 .. fuel, i - 1 \in G PROVE i \in G
  <2>1. s[i] = Op(s[i - 1]) /\ i \in 0 .. fuel
    <3>1. i \in 0 .. fuel /\ i # 0
      BY <1>1
    <3> QED BY <1>10, <3>1
  <2>2. PICK t \in T : t = s[i - 1] /\ (Finished(graph, t) \/ ToDo(graph, t) <= fuel - (i - 1))
    BY <1>13
  <2>3. s[i] = Op(t) /\ Op(t) \in T
    BY <1>3, <2>1, <2>2
  <2>4. CASE Finished(graph, t)
    BY <1>3, <2>1, <2>3, <2>4
  <2>5. CASE ~Finished(graph, t)
    <3> DEFINE a == ToDo(graph, Op(t))
               b == ToDo(graph, t)
    <3>1. a \in Nat /\ b \in Nat /\ a = b - 1 /\ b <= fuel - (i - 1)
      BY <1>3, <2>2, <2>5
    <3> HIDE DEF a, b
    <3>2. a <= fuel - i
      BY <1>1, <3>1
    <3> QED BY <2>1, <2>3, <3>2 DEF a
  <2> QED BY <2>4, <2>5
<1>14. Good(fuel)
  <2> HIDE DEF G, Good
  <2>1. \A i \in 0 .. fuel : i \in G
    BY <1>1, <1>12, <1>13, UpTo
  <2> QED BY <1>1, <2>1 DEF G
<1>15. s[fuel] \in T /\ Finished(graph, s[fuel])
  <2>1. PICK t \in T : t = s[fuel] /\ (Finished(graph, t) \/ ToDo(graph, t) <= fuel - fuel)
    BY <1>14
  <2>2. ToDo(graph, t) \in Nat /\ (ToDo(graph, t) = 0 => Finished(graph, t))
    BY <1>3
  <2> QED BY <1>1, <2>1, <2>2
<1> QED BY <1>4, <1>15 DEF T

\* A cycle is found if and only if a symbol stands on one or leads to one.
LEMMA CyclesAre ==
  ASSUME NEW graph, IsGraph(graph)
  PROVE  LET cycles == detect_dependency_cycles(graph)
             A == Arrows(graph)
             R == ToSet(graph.symbols)
         IN /\ cycles # <<>> <=> \E n \in Sources(graph) : n \in Reach(A, n) /\ (n \in R \/ R \cap Reach(A, n) # {})
            /\ \A i \in DOMAIN cycles : IsRound(graph, cycles[i])
<1> DEFINE cycles == detect_dependency_cycles(graph)
           A == Arrows(graph)
           R == ToSet(graph.symbols)
<1>1. PICK s \in Searched(graph) : Finished(graph, s) /\ cycles = s.cycles
  BY SearchEnds
<1> HIDE DEF cycles
<1>2. /\ cycles \in Seq(Seq(Nodes(graph))) /\ Len(cycles) \in Nat /\ s.calls = <<>> /\ s.begun = Len(graph.symbols)
      /\ DOMAIN cycles = 1 .. Len(cycles)
  BY <1>1, SearchedIs, LenProperties DEF Finished
<1>3. \A i \in DOMAIN cycles : IsRound(graph, cycles[i])
  BY <1>1, <1>2 DEF Searched
<1>4. ASSUME cycles # <<>>
      PROVE  \E n \in Sources(graph) : n \in Reach(A, n) /\ (n \in R \/ R \cap Reach(A, n) # {})
  <2> DEFINE c == cycles[1]
             n == c[1]
             l == Len(c)
  <2>1. 1 \in DOMAIN cycles
    BY <1>2, <1>4, EmptySeq
  <2>2. IsRound(graph, c) /\ c \in Seq(Nodes(graph))
    BY <1>2, <1>3, <2>1, ElementOfSeq
  <2>3. l \in Nat
    BY <2>2, LenProperties
  <2> HIDE DEF c
  <2>4. /\ l > 1 /\ n = c[l] /\ (n \in R \/ R \cap Reach(A, n) # {})
        /\ \A j \in 1 .. (l - 1) : <<c[j], c[j + 1]>> \in A
    BY <2>2 DEF IsRound, Last
  <2> HIDE DEF l
  <2>5. l \in 1 .. l /\ 1 \in 1 .. (l - 1)
    BY <2>3, <2>4
  <2>6. c[1] \in Reach(A, c[l])
    BY <2>3, <2>4, <2>5, PathReaches
  <2>7. n \in Sources(graph)
    <3>1. <<c[1], c[1 + 1]>> \in A
      BY <2>4, <2>5
    <3> QED BY <3>1 DEF Arrows, Sources
  <2> QED BY <2>4, <2>6, <2>7
<1>5. ASSUME NEW n \in Sources(graph), n \in Reach(A, n), n \in R \/ R \cap Reach(A, n) # {}, cycles = <<>>
      PROVE  FALSE
  <2> DEFINE left == s.left
  <2>1. Ranked(A, left) /\ \A i \in 1 .. Len(graph.symbols) : graph.symbols[i] \in left
    BY <1>1, <1>2, <1>5 DEF Searched, Explored
  <2>2. R \subseteq left
    <3>1. DOMAIN graph.symbols = 1 .. Len(graph.symbols)
      BY LenProperties DEF IsGraph
    <3> QED BY <2>1, <3>1 DEF ToSet
  <2>3. PICK k \in Nat : \E r \in [left -> 0 .. k] :
          \A p \in A : p[1] \in left => p[2] \in left /\ r[p[2]] < r[p[1]]
    BY <2>1 DEF Ranked
  <2>4. PICK r \in [left -> 0 .. k] : \A p \in A : p[1] \in left => p[2] \in left /\ r[p[2]] < r[p[1]]
    BY <2>3
  <2> HIDE DEF left, A, R
  <2>5. n \in left
    <3> DEFINE S == Ends(A) \ left
    <3>1. ASSUME n \notin left PROVE ClosedUnder(A, n, S)
      <4>1. ASSUME NEW p \in A, p[2] \in S \cup {n} PROVE p[1] \in S
        <5>1. p[2] \notin left
          BY <3>1, <4>1
        <5>2. p[1] \notin left
          BY <2>4, <5>1
        <5> QED BY <5>2 DEF Ends
      <4> QED BY <4>1 DEF ClosedUnder
    <3>2. ASSUME n \notin left PROVE Reach(A, n) \subseteq S
      BY <3>1, <3>2, ReachFacts
    <3> QED BY <1>5, <2>2, <3>2
  <2> DEFINE S == {x \in Ends(A) : x \in left => r[x] > r[n]}
  <2>6. ClosedUnder(A, n, S)
    <3>1. ASSUME NEW p \in A, p[2] \in S \cup {n} PROVE p[1] \in S
      <4>1. ASSUME p[1] \in left PROVE r[p[1]] > r[n]
        <5>1. p[2] \in left /\ r[p[2]] < r[p[1]]
          BY <2>4, <4>1
        <5>2. r[p[2]] \in 0 .. k /\ r[p[1]] \in 0 .. k /\ r[n] \in 0 .. k
          BY <2>5, <4>1, <5>1
        <5>3. r[p[2]] > r[n] \/ r[p[2]] = r[n]
          BY <3>1, <5>1
        <5> QED BY <5>1, <5>2, <5>3
      <4> QED BY <4>1 DEF Ends
    <3> QED BY <3>1 DEF ClosedUnder
  <2>7. n \in S
    <3> HIDE DEF S
    <3>1. S \in SUBSET Ends(A)
      BY DEF S
    <3> QED BY <1>5, <2>6, <3>1, ReachFacts
  <2>8. r[n] > r[n] /\ r[n] \in 0 .. k
    BY <2>5, <2>7
  <2> QED BY <2>8
<1> QED BY <1>3, <1>4, <1>5 DEF cycles

\* The searches of the code memory (code_memory.py): whatever the graph, the blast
\* radius of a symbol is what depends on it and nothing else, and a cycle is reported
\* if and only if a symbol leads to one; what is reported is a cycle.
THEOREM SearchesFindAll == InsSpec => []SearchesAreExact
<1>1. InsInv => SearchesAreExact
  <2> SUFFICES ASSUME InsInv, Answered("graph") PROVE SearchesAreExact
    BY DEF SearchesAreExact, RadiusIsTheClosure, CyclesAreFound
  <2>1. /\ given \in Graphs
        /\ answer = [radius |-> [s \in ToSet(given.symbols) |-> calculate_blast_radius(given, s)],
                     cycles |-> detect_dependency_cycles(given)]
    BY DEF InsInv, Answered
  <2>2. IsGraph(given)
    BY <2>1, GraphsAssumption DEF IsGraph
  <2>3. RadiusIsTheClosure
    <3>1. DOMAIN answer.radius = ToSet(given.symbols)
          /\ \A s \in DOMAIN answer.radius : answer.radius[s] = calculate_blast_radius(given, s)
      BY <2>1
    <3>2. \A s : calculate_blast_radius(given, s) = Reaching(given, s) \ {s}
      BY <2>2, RadiusIs
    <3> QED BY <3>1, <3>2 DEF RadiusIsTheClosure
  <2>4. CyclesAreFound
    <3> DEFINE edge(a, b) == \E e \in ToSet(given.edges) : e.source = a /\ e.target = b
               seq == [i \in DOMAIN given.edges |-> [given.edges[i] EXCEPT !.defines = FALSE]]
               whole == [given EXCEPT !.edges = seq]
               A == Arrows(given)
               R == ToSet(given.symbols)
               cycles == answer.cycles
    <3>1. cycles = detect_dependency_cycles(given)
      BY <2>1
    <3>2. Uses(whole) = A
      <4>1. given = [symbols |-> given.symbols, edges |-> given.edges]
            /\ \A e \in ToSet(given.edges) : e \in [source : {e.source}, target : {e.target}, defines : BOOLEAN]
        BY <2>2 DEF IsGraph
      <4>2. whole.edges = seq
        <5> HIDE DEF seq
        <5> QED BY <4>1
      <4>3. DOMAIN seq = DOMAIN given.edges
        OBVIOUS
      <4>4. ASSUME NEW i \in DOMAIN given.edges
            PROVE  /\ given.edges[i] \in ToSet(given.edges)
                   /\ ~seq[i].defines
                   /\ seq[i].source = given.edges[i].source /\ seq[i].target = given.edges[i].target
        <5> DEFINE e == given.edges[i]
        <5>1. e \in ToSet(given.edges) /\ seq[i] = [e EXCEPT !.defines = FALSE]
          BY DEF ToSet
        <5> HIDE DEF e, seq
        <5>2. e \in [source : {e.source}, target : {e.target}, defines : BOOLEAN]
          BY <4>1, <5>1
        <5> QED BY <5>1, <5>2 DEF e
      <4> HIDE DEF seq, whole
      <4>5. ToSet(whole.edges) = {seq[i] : i \in DOMAIN given.edges}
            /\ ToSet(given.edges) = {given.edges[i] : i \in DOMAIN given.edges}
        BY <4>2, <4>3 DEF ToSet
      <4>6. Uses(whole) = {<<seq[i].source, seq[i].target>> : i \in DOMAIN given.edges}
        BY <4>4, <4>5 DEF Uses
      <4>7. A = {<<given.edges[i].source, given.edges[i].target>> : i \in DOMAIN given.edges}
        BY <4>5 DEF Arrows
      <4> QED BY <4>4, <4>6, <4>7
    <3> HIDE DEF whole
    <3>3. \A n : Reaching(whole, n) = Reach(A, n)
      <4> HIDE DEF A
      <4> QED BY <3>2, ReachingIs
    <3>4. /\ cycles # <<>> <=> \E n \in Sources(given) : n \in Reach(A, n) /\ (n \in R \/ R \cap Reach(A, n) # {})
          /\ \A i \in DOMAIN cycles : IsRound(given, cycles[i])
      BY <2>2, <3>1, CyclesAre
    <3> HIDE DEF cycles
    <3>5. ASSUME NEW i \in DOMAIN cycles
          PROVE  LET cycle == cycles[i]
                 IN /\ cycle[1] = Last(cycle) /\ IsInjective(Tail(cycle))
                    /\ \A j \in 1 .. (Len(cycle) - 1) : edge(cycle[j], cycle[j + 1])
      <4> DEFINE cycle == cycles[i]
      <4>1. IsRound(given, cycle)
        BY <3>4
      <4>2. ASSUME NEW a, NEW b, <<a, b>> \in A PROVE edge(a, b)
        BY <4>2 DEF Arrows
      <4> HIDE DEF cycle, edge
      <4>3. /\ cycle[1] = Last(cycle) /\ IsInjective(Tail(cycle))
            /\ \A j \in 1 .. (Len(cycle) - 1) : edge(cycle[j], cycle[j + 1])
        BY <4>1, <4>2 DEF IsRound
      <4> QED BY <4>3 DEF cycle, edge
    <3>6. cycles # <<>> <=> \E n \in {n \in {e.source : e \in ToSet(given.edges)} : n \in Reaching(whole, n)} :
                              n \in R \/ R \cap Reaching(whole, n) # {}
      <4> HIDE DEF A, R
      <4> QED BY <3>3, <3>4 DEF Sources
    <3> HIDE DEF R, A
    <3> QED BY <3>5, <3>6, Zenon DEF CyclesAreFound, whole, cycles, R, A
  <2> QED BY <2>3, <2>4 DEF SearchesAreExact
<1> QED BY <1>1, InsInvariance, PTL
=============================================================================
