------------------------------ MODULE BatchTools ------------------------------
(***************************************************************************)
(* Five tools that compute on what they are given and keep nothing: the    *)
(* semantic merge, the context packer, the milestone governor, the         *)
(* synthesis loop, whose synthesizer answers with any program at all, and  *)
(* the review of a repository's resources.                                 *)
(***************************************************************************)
EXTENDS AstReconciler, ContextPacker, MilestoneGovernor, CegisTrajectory,
        ResourceReview

CONSTANTS
  Merges,         \* base, ours and theirs
  Packs,          \* symbols and a budget
  Milestones,     \* sets of issues
  Programs,       \* what a synthesizer may answer with
  MaxIterations,  \* max_iterations of run_synthesis_loop
  Repositories    \* sets of resources

\* A review's resources are told from what has not been run.
ASSUME ReviewAssumption ==
  \A resources \in Repositories :
    /\ IsFiniteSet(resources)
    /\ \A r \in resources :
         /\ r.violations \in Nat /\ r.leaks \in Nat /\ r.warm \in BOOLEAN
         /\ r.suite = NotRun \/ r.suite \in [failed : Nat, broken : BOOLEAN, warnings : Nat]

\* GitHub clears closed_at when an issue is reopened.
ASSUME MilestoneAssumption ==
  \A issues \in Milestones :
    /\ IsFiniteSet(issues)
    /\ \A i \in issues :
         {i.open, i.p0, i.epic, i.created, i.closed} \subseteq BOOLEAN /\ ~(i.open /\ i.closed)

\* What a program breaks is found by the verifier, which does not repeat itself.
ASSUME SynthesisAssumption ==
  /\ MaxIterations \in Nat
  /\ \A p \in Programs : \A v \in p.violations : v.rule # "CEGIS008"

Sides == UNION {{m.base, m.ours, m.theirs} : m \in Merges}
Stated == UNION {{s[i] : i \in DOMAIN s} : s \in Sides}
Classes == {s \in Stated : s.kind = "class"}
Members == UNION {{c.members[i] : i \in DOMAIN c.members} : c \in Classes}

\* What stands for nothing, or for a collision, is no piece of a module; and a
\* class that has been merged is not one as it was parsed.
ASSUME MergeAssumption ==
  /\ Sides \subseteq Seq(Stated)
  /\ \A c \in Classes : c.members \in Seq(Members)
  /\ \A s \in Stated : "methods" \notin DOMAIN s
  /\ Absent # Collision
  /\ {Absent, Collision} \cap
       (Stated \cup Members \cup [header : {c.header : c \in Classes}, methods : SUBSET Members]) = {}

ASSUME PackingAssumption ==
  \A pack \in Packs :
    /\ pack.symbols \in Seq([{"FULL", "DOCSTRINGS", "SIGNATURES"} -> Nat])
    /\ pack.budget \in Int

VARIABLES tool, input, output

vars == <<tool, input, output>>

Init ==
  /\ output = None
  /\ \/ tool = "merge" /\ input \in Merges
     \/ tool = "pack" /\ input \in Packs
     \/ tool = "govern" /\ input \in Milestones
     \/ tool = "synthesize" /\ input \in {<<p>> : p \in Programs}
     \/ tool = "review" /\ input \in Repositories

Runs(name) == tool = name /\ output = None /\ UNCHANGED tool

Merge ==
  /\ Runs("merge") /\ UNCHANGED input
  /\ output' = reconcile_3way(input.base, input.ours, input.theirs)

Pack ==
  /\ Runs("pack") /\ UNCHANGED input
  /\ output' = pack_source_to_budget(input.symbols, input.budget)

\* One call audits and plans the rollover; the caller may then carry it out.
Govern ==
  /\ Runs("govern")
  /\ \/ /\ output' = [p \in Phase |-> Blocks(input, p)] /\ UNCHANGED input
     \/ /\ partition_milestone_rollover(input).rollover # {}
        /\ input' = partition_milestone_rollover(input).keep /\ UNCHANGED output

Synthesize ==
  /\ Runs("synthesize") /\ Continues(input, MaxIterations)
  /\ \E p \in Programs : input' = Append(input, p)
  /\ UNCHANGED output

Conclude ==
  /\ Runs("synthesize") /\ ~Continues(input, MaxIterations)
  /\ output' = audit_trajectory(input, MaxIterations)
  /\ UNCHANGED input

Review ==
  /\ Runs("review") /\ UNCHANGED input
  /\ output' = _synthesize_report(input)

Next == Merge \/ Pack \/ Govern \/ Synthesize \/ Conclude \/ Review

Spec == Init /\ [][Next]_vars
-----------------------------------------------------------------------------
Done(name) == tool = name /\ output # None

\* A class that every version has is merged method by method, also where a side
\* has left it alone.
Rebuilt(versions, k) ==
  \A module \in {versions.base, versions.ours, versions.theirs} :
    IsClass(Get(extract_symbol_map(module), k))

MethodsOf(class) ==
  LET methods == _extract_methods_map(class) IN {methods[n] : n \in DOMAIN methods}

\* What is left of a module where the merge adopts it: every symbol whole, but of a
\* class that is rebuilt the methods alone, under ours' bases and decorators.
Remains(versions, module) ==
  LET symbols == extract_symbol_map(module)
      ours == extract_symbol_map(versions.ours)
  IN [k \in DOMAIN symbols |->
        IF Rebuilt(versions, k) THEN [header |-> ours[k].header, methods |-> MethodsOf(symbols[k])]
        ELSE symbols[k]]

Yields(merge, versions, module) ==
  /\ merge.collisions = {}
  /\ merge.imports = extract_import_statements(module)
  /\ merge.symbols = Remains(versions, module)

\* reconcile_3way is a three-way merge of everything but what it rebuilds: a side that
\* is still the base yields to the other, and sides that agree are not in conflict,
\* whatever the base was.
AgreementMerges ==
  Done("merge") =>
    /\ input.ours = input.base => Yields(output, input, input.theirs)
    /\ input.theirs = input.base => Yields(output, input, input.ours)
    /\ input.ours = input.theirs => Yields(output, input, input.ours)

\* README of the reconciler: additions are unified "without ordering bias".
\* Which branch is ours makes no difference to what collides and to what is merged,
\* whole, but for the bases and decorators of a class that is rebuilt.
MergeIsSymmetric ==
  Done("merge") =>
    LET mirrored == reconcile_3way(input.base, input.theirs, input.ours)
    IN /\ output.imports = mirrored.imports /\ output.collisions = mirrored.collisions
       /\ DOMAIN output.symbols = DOMAIN mirrored.symbols
       /\ \A k \in DOMAIN output.symbols :
            IF Rebuilt(input, k) THEN output.symbols[k].methods = mirrored.symbols[k].methods
            ELSE output.symbols[k] = mirrored.symbols[k]

\* An edit of a side is in the merge unless something collides: what it has written
\* anew or changed is there as it wrote it, and what it has deleted is gone; of a class
\* that is rebuilt, this is so of its methods.
EditsSurvive ==
  Done("merge") /\ output.collisions = {} =>
    \A side \in {input.ours, input.theirs} :
      LET old == extract_symbol_map(input.base)
          new == extract_symbol_map(side)
      IN \A k \in DOMAIN old \cup DOMAIN new :
           IF Rebuilt(input, k)
             THEN /\ k \in DOMAIN output.symbols
                  /\ MethodsOf(new[k]) \ MethodsOf(old[k]) \subseteq output.symbols[k].methods
                  /\ (MethodsOf(old[k]) \ MethodsOf(new[k])) \cap output.symbols[k].methods = {}
             ELSE Get(new, k) # Get(old, k) => Get(output.symbols, k) = Get(new, k)

\* What a merge of three versions promises, together.
MergesAreSound == AgreementMerges /\ MergeIsSymmetric /\ EditsSurvive

\* binary_search_pack_symbols finds the greatest number of symbols that fit.
PackIsMaximal ==
  Done("pack") /\ input.budget > 0 =>
    \A n \in 1..Len(input.symbols) :
      n <= output.count <=> Fits(input.symbols, n, input.budget, output.level)

\* The detail is degraded only where it must be: a level is left when it does
\* not hold every symbol, and the first that does is taken.
DetailIsKept ==
  Done("pack") /\ input.budget > 0 /\ input.symbols # <<>> =>
    \A i \in 1..3 :
      LET whole(j) == Fits(input.symbols, Len(input.symbols), input.budget, Level[j])
      IN (output.level = Level[i] /\ output.count = Len(input.symbols)) <=>
           whole(i) /\ \A j \in 1..(i - 1) : ~whole(j)

\* The packer gives as much as fits: the most symbols, in the most detail.
PackIsBest == PackIsMaximal /\ DetailIsKept

\* Carrying out the rollover the governor recommends gives rise to no error that
\* was not there before, in any phase: what is done counts for the velocity on.
AddsNoError ==
  \A p \in Phase : \A f \in audit_milestone(input', p) :
    f[2] = "error" => f \in audit_milestone(input, p)

\* After a rollover the air-lock complains of nothing but epics that stay open.
SettlesTheAirLock ==
  \A f \in _check_airlock_rules(input', "AIR_LOCKED") :
    \E i \in input' : i.number = f[3] /\ i.epic

\* A rollover that is carried out as recommended mends the milestone.
RolloverMends == [][tool = "govern" /\ input' # input => AddsNoError /\ SettlesTheAirLock]_vars

\* The loop's verdict is about its last program: converged if and only if that
\* is clean, also when the synthesizer went in circles on the way; and a loop
\* that gave up never says that it is still on its way.
VerdictIsFinal ==
  Done("synthesize") =>
    /\ output = "converged" <=> input[Len(input)].violations = {}
    /\ output \in {"converged", "oscillating", "degraded", "budget_exhausted"}

\* A violation that comes back is reported as such however many steps it was
\* gone for, and none is that is new.
ReturningViolationsAreReported ==
  tool = "synthesize" =>
    \A j \in DOMAIN input : \A v \in input[j].violations :
      Repeat(v) \in Effective(input)[j] <=> \E i \in 1..(j - 1) : v \in input[i].violations

\* What the loop tells about its programs, at the end and on the way.
TrajectoryIsToldTrue == VerdictIsFinal /\ ReturningViolationsAreReported

\* A repository is as healthy as its worst resource: no average hides one, and
\* none is found fault with where every resource is healthy.
HealthIsTheWorst ==
  Done("review") =>
    LET healths == {Evaluation(r).health : r \in input}
    IN output = IF "CRITICAL" \in healths THEN "CRITICAL"
                ELSE IF "NEEDS_REMEDIATION" \in healths THEN "NEEDS_REMEDIATION" ELSE "HEALTHY"
=============================================================================
