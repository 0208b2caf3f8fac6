---------------------------- MODULE AstRefactorer ----------------------------
(***************************************************************************)
(* The automatic refactoring of one function (ast_refactorer.py): a        *)
(* strategy is picked from its shape, the tree rewritten, and the result   *)
(* taken if it is no more complex than before.  Of a function there is     *)
(* what the rewrites tell apart: ladders of equalities, other ifs,         *)
(* assertions, returns, and statements that leave a trace; it has the      *)
(* parameter x and a local variable l.  What is returned, and what a       *)
(* ladder compares with, is any expression; conditions and assertions only *)
(* compare.  Its dispatch table and predicate helper stand in the module,  *)
(* and the table is built when that is imported.  The refactorer is run    *)
(* over a function again and again, as long as it finds something to do.   *)
(***************************************************************************)
EXTENDS Integers, Sequences, FiniteSets, FiniteSetsExt, SequencesExt

CONSTANTS
  Unset,          \* not there
  Unordered,      \* a value that is neither below nor at or above another: NaN
  Threshold,      \* complexity from which a function is a candidate
  MinDepth, FlattenDepth, MinBranches,  \* 4, 3 and 3
  Functions       \* of a source to be refactored

\* What is returned or raised, by name.  The last ones are strings as well, which
\* has to be said.
Literals == STRING \cup {"None", "NameError", "AssertionError", "SyntaxError"}

ASSUME RefactorerAssumption ==
  Unset \notin Literals /\ Unordered \notin Int /\ MinBranches \in Nat \ {0}

\* Names it can read: its parameter and local variable, and what the module defines
\* before it and after it.
Params == {"x"}
Names == Params \cup {"l", "earlier", "later"}
Env == [x : 0..2 \cup {Unordered}, l : 0..1]

\* Comparisons with 1, conjoined if there are several, perhaps under a `not`;
\* or, if called, the predicate helper.
Test(op, var) == [op |-> op, var |-> var]
When(tests) == [neg |-> FALSE, called |-> FALSE, tests |-> tests]

\* An expression leaves something, reads names, and raises its value or has it; to
\* make a new object is to leave something, too.
Expr(effects, reads, raises, value) ==
  [effects |-> effects, reads |-> reads, raises |-> raises, value |-> value]
Const(value) == Expr(<<>>, {}, FALSE, value)
IsConst(e) == e = Const(e.value)
IsQuiet(e) == e.effects = <<>> /\ ~e.raises

Do(effect) == [kind |-> "do", effect |-> effect]
Return(value) == [kind |-> "return", value |-> value]
If(cond, body, orelse) == [kind |-> "if", cond |-> cond, body |-> body, orelse |-> orelse]
AssertEqual(tests) == [kind |-> "assert", tests |-> tests]   \* of one test, or of several at once
AssertTrue(cond) == [kind |-> "check", cond |-> cond]    \* any other assertion
\* An else that is no return holds the next if, and may go on after it with the rest.
Ladder(var, branches, fallback, rest) ==
  [kind |-> "ladder", var |-> var, branches |-> branches, fallback |-> fallback, rest |-> rest]
Lookup(var, fallback) == [kind |-> "lookup", var |-> var, fallback |-> fallback]

\* Where it stands: among the statements of the module, within one of them, or within
\* one of a module that begins with an import from __future__.
Places == {"top", "nested", "future"}
Function(place, test_, body) ==
  [test_ |-> test_, body |-> body, table |-> <<>>, helper |-> {},
   module |-> [place |-> place, imports |-> [trace |-> <<>>, result |-> Unset]]]

Opposite == [eq |-> "ne", ne |-> "eq", lt |-> "ge", ge |-> "lt"]
-----------------------------------------------------------------------------
\* What a function is made of.  What is looked up or called is there; ifs stand in
\* the bodies of ifs in the function's own body, and no deeper.
IsCond(f, cond) ==
  /\ cond \in [neg : BOOLEAN, called : BOOLEAN, tests : SUBSET [op : DOMAIN Opposite, var : {"x", "l"}]]
  /\ IsFiniteSet(cond.tests)
  /\ cond.called <=> cond.tests = {}
  /\ cond.called => f.helper # {}

IsExpr(e) ==
  /\ e = Expr(e.effects, e.reads, e.raises, e.value)
  /\ e.effects \in Seq(Nat) /\ e.reads \subseteq Names /\ e.raises \in BOOLEAN
  /\ e.raises => e.value \in Literals
IsReturned(e) == IsExpr(e) /\ e.value \in Literals

IsSimple(f, stmt) ==
  CASE stmt.kind = "do" -> stmt = Do(stmt.effect) /\ stmt.effect \in Nat
    [] stmt.kind = "return" -> stmt = Return(stmt.value) /\ IsReturned(stmt.value)
    [] stmt.kind = "assert" -> stmt = AssertEqual(stmt.tests)
    [] stmt.kind = "check" -> stmt = AssertTrue(stmt.cond) /\ IsCond(f, stmt.cond)
    [] stmt.kind = "ladder" ->
         /\ stmt = Ladder(stmt.var, stmt.branches, stmt.fallback, stmt.rest)
         /\ stmt.fallback = Unset \/ IsReturned(stmt.fallback)
         /\ stmt.branches \in Seq(ToSet(stmt.branches)) /\ stmt.rest \in Seq(Nat)
         /\ \A i \in DOMAIN stmt.branches :
              IsExpr(stmt.branches[i].key) /\ IsReturned(stmt.branches[i].value)
    [] stmt.kind = "lookup" ->
         stmt = Lookup(stmt.var, stmt.fallback) /\ IsReturned(stmt.fallback) /\ f.table # <<>>
    [] OTHER -> FALSE

IsBlock(stmts, Is(_)) == stmts \in Seq(ToSet(stmts)) /\ \A i \in DOMAIN stmts : Is(stmts[i])

IsIf(f, stmt, Is(_)) ==
  /\ stmt = If(stmt.cond, stmt.body, stmt.orelse) /\ IsCond(f, stmt.cond)
  /\ IsBlock(stmt.body, Is) /\ IsBlock(stmt.orelse, LAMBDA s : IsSimple(f, s))

IsInner(f, stmt) == IsSimple(f, stmt) \/ IsIf(f, stmt, LAMBDA s : IsSimple(f, s))
IsOuter(f, stmt) == IsSimple(f, stmt) \/ IsIf(f, stmt, LAMBDA s : IsInner(f, s))

IsFunction(f) ==
  /\ f = [test_ |-> f.test_, body |-> f.body, table |-> f.table, helper |-> f.helper, module |-> f.module]
  /\ f.test_ \in BOOLEAN /\ IsBlock(f.body, LAMBDA s : IsOuter(f, s))
  /\ f.helper \subseteq [op : DOMAIN Opposite, var : {"x", "l"}]
  /\ \A k \in DOMAIN f.table : f.table[k] \in Literals
  /\ f.module \in [place : Places, imports : [trace : Seq(Nat), result : Literals \cup {Unset}]]

ASSUME FunctionsAssumption == \A f \in Functions : IsFunction(f)
-----------------------------------------------------------------------------
Compound(cond) == Cardinality(cond.tests) > 1
IsCompoundIf(stmt) == stmt.kind = "if" /\ Compound(stmt.cond) /\ ~stmt.cond.neg

\* The statements of a function, level by level: what ast.walk goes through.
Inside(stmts) ==
  FlattenSeq([i \in DOMAIN stmts |->
    IF stmts[i].kind = "if" THEN stmts[i].body \o stmts[i].orelse ELSE <<>>])
Levels(f) == LET second == Inside(f.body) IN <<f.body, second, Inside(second)>>

_node_complexity_weight(stmt) ==
  CASE stmt.kind \in {"if", "check"} -> 1 + Max({0, Cardinality(stmt.cond.tests) - 1})
    [] stmt.kind = "ladder" -> Len(stmt.branches)
    [] stmt.kind = "assert" -> 1
    [] OTHER -> 0

calculate_cyclomatic_complexity(f) ==
  FoldLeft(LAMBDA n, stmt : n + _node_complexity_weight(stmt), 1, FlattenSeq(Levels(f)))

\* An elif is an if within the else.
_walk_depth(stmt, level) ==
  CASE stmt.kind = "if" -> level + 1
    [] stmt.kind = "ladder" -> level + Len(stmt.branches)
    [] OTHER -> level

calculate_nesting_depth(f) ==
  Max({1} \cup UNION {{_walk_depth(Levels(f)[n][i], n) : i \in DOMAIN Levels(f)[n]} : n \in 1..3})

First(stmts, Is(_)) == Min({i \in DOMAIN stmts : Is(stmts[i])})

IsLadder(stmt) == stmt.kind = "ladder" /\ Len(stmt.branches) >= MinBranches
HasLadder(f) == \E i \in DOMAIN f.body : IsLadder(f.body[i])
_find_ladder_in_body(f) == f.body[First(f.body, IsLadder)]
Flattens(stmt) == stmt.kind = "if" /\ Len(stmt.body) >= 2 /\ stmt.orelse = <<>>
Asserts(f) == SelectSeq(f.body, LAMBDA stmt : stmt.kind \in {"assert", "check"})

\* Breadth first: an if of the body, or the first of an if's.
HasCompound(stmts) == \E i \in DOMAIN stmts : IsCompoundIf(stmts[i])
HoldsCompound(stmt) == stmt.kind = "if" /\ HasCompound(stmt.body)
_has_compound_boolean(f) == HasCompound(f.body) \/ \E i \in DOMAIN f.body : HoldsCompound(f.body[i])
_find_compound_if(f) ==
  LET block == IF HasCompound(f.body) THEN f.body ELSE f.body[First(f.body, HoldsCompound)].body
  IN block[First(block, IsCompoundIf)]

\* The strategy of a candidate; a function that is simple enough has none.
diagnose_function(f) ==
  CASE calculate_cyclomatic_complexity(f) < Threshold /\ calculate_nesting_depth(f) < MinDepth -> Unset
    [] OTHER ->
       IF f.test_ /\ Len(Asserts(f)) >= 3 THEN "consolidate"
       ELSE IF HasLadder(f) THEN "dispatch"
       ELSE IF calculate_nesting_depth(f) >= FlattenDepth /\ \E i \in DOMAIN f.body : Flattens(f.body[i])
         THEN "flatten"
       ELSE IF _has_compound_boolean(f) THEN "extract"
       ELSE "flatten"
-----------------------------------------------------------------------------
\* A trace, and what is returned, or the exception that is raised.
Silent == [trace |-> <<>>, result |-> Unset]
Ending(result) == [trace |-> <<>>, result |-> result]

\* One thing after another, until there is a result.
AndThen(run, next) ==
  IF run.result # Unset THEN run ELSE [trace |-> run.trace \o next.trace, result |-> next.result]
InTurn(runs) == FoldLeft(AndThen, Silent, runs)

\* A name that is not there is found out first.
Evaluate(e, scope) ==
  IF e.reads \subseteq scope THEN [trace |-> e.effects, result |-> IF e.raises THEN e.value ELSE Unset]
  ELSE Ending("NameError")
Returned(e) == AndThen(Evaluate(e, Names), Ending(e.value))

\* A definition goes before the function if that stands at the top, so after those
\* that went there already, and else before all of the module.
Inserted(module, run) ==
  [module EXCEPT !.imports = CASE module.place = "top" -> AndThen(@, run)
                               [] module.place = "nested" -> AndThen(run, @)
                               [] module.place = "future" -> Ending("SyntaxError")]
\* The later of two definitions of one name holds.
Overrides(f) == f.module.place = "top"

\* The table is made of the first ladder, and every ladder becomes a lookup in it.
\* The keys and what is returned move into it, where names of the function are not
\* known; of two equal keys the later counts.
_create_dict_assignment(ladder, place) ==
  LET scope == IF place = "top" THEN {"earlier"} ELSE {}
  IN InTurn([i \in DOMAIN ladder.branches |->
       AndThen(Evaluate(ladder.branches[i].key, scope), Evaluate(ladder.branches[i].value, scope))])
TableDispatchTransformer(f) ==
  LET ladder == _find_ladder_in_body(f)
      keys == {ladder.branches[i].key.value : i \in DOMAIN ladder.branches}
      value(k) == ladder.branches[Max({i \in DOMAIN ladder.branches : ladder.branches[i].key.value = k})].value
      fallback == IF ladder.fallback = Unset THEN Const("None") ELSE ladder.fallback
  IN [f EXCEPT !.table = IF @ = <<>> \/ Overrides(f) THEN [k \in keys |-> value(k).value] ELSE @,
               !.module = Inserted(@, _create_dict_assignment(ladder, f.module.place)),
               !.body = [i \in DOMAIN @ |-> IF IsLadder(@[i]) THEN Lookup(ladder.var, fallback) ELSE @[i]]]

invert_condition(cond) ==
  IF cond.neg THEN [cond EXCEPT !.neg = FALSE]
  ELSE IF cond.called \/ Compound(cond) THEN [cond EXCEPT !.neg = TRUE]
  ELSE [cond EXCEPT !.tests = {Test(Opposite[t.op], t.var) : t \in @}]

\* Mutant of GuardClauseTransformer: the condition is left as it is.
GuardClauseTransformerUninverted(f) ==
  [f EXCEPT !.body = FlattenSeq([i \in DOMAIN @ |->
     IF Flattens(@[i]) THEN <<If(@[i].cond, <<Return(Const("None"))>>, <<>>)>> \o @[i].body ELSE <<@[i]>>])]

\* Wherever in the body the if stands, its guard returns.
Guarded(stmt) ==
  IF Flattens(stmt) THEN <<If(invert_condition(stmt.cond), <<Return(Const("None"))>>, <<>>)>> \o stmt.body
  ELSE <<stmt>>
GuardClauseTransformer(f) ==
  [f EXCEPT !.body = FlattenSeq([i \in DOMAIN f.body |-> Guarded(f.body[i])])]

\* The first compound condition moves to the helper, which is given the parameters.
CallsHelper(stmts) ==
  [stmts EXCEPT ![First(stmts, IsCompoundIf)].cond = [neg |-> FALSE, called |-> TRUE, tests |-> {}]]
PredicateExtractor(f) ==
  [f EXCEPT !.helper = IF @ = {} \/ Overrides(f) THEN _find_compound_if(f).cond.tests ELSE @,
            !.module = Inserted(@, Silent),
            !.body = IF HasCompound(f.body) THEN CallsHelper(f.body)
                     ELSE [f.body EXCEPT ![First(f.body, HoldsCompound)].body = CallsHelper(@)]]

\* Three or more become one; what has been gathered is put down first.
_flush_accumulated_asserts(run) ==
  [body |-> run.body \o (IF Len(run.gathered) < 3
                           THEN [i \in DOMAIN run.gathered |-> AssertEqual(run.gathered[i])]
                         ELSE <<AssertEqual(UNION ToSet(run.gathered))>>),
   gathered |-> <<>>]

\* The statement is gathered, or put down.
Consolidated(run, stmt) ==
  IF stmt.kind = "assert" THEN [run EXCEPT !.gathered = Append(@, stmt.tests)]
  ELSE [_flush_accumulated_asserts(run) EXCEPT !.body = Append(@, stmt)]
AssertionConsolidator(f) ==
  LET end == FoldLeft(Consolidated, [body |-> <<>>, gathered |-> <<>>], f.body)
  IN [f EXCEPT !.body = _flush_accumulated_asserts(end).body]

Transformed(f) ==
  CASE diagnose_function(f) = "consolidate" -> AssertionConsolidator(f)
    [] diagnose_function(f) = "dispatch" -> TableDispatchTransformer(f)
    [] diagnose_function(f) = "flatten" -> GuardClauseTransformer(f)
    [] diagnose_function(f) = "extract" -> PredicateExtractor(f)
    [] OTHER -> f

_verify_safety(f, g) ==
  /\ calculate_cyclomatic_complexity(g) <= calculate_cyclomatic_complexity(f)
  /\ calculate_nesting_depth(g) <= calculate_nesting_depth(f)

refactor_source(f) == IF _verify_safety(f, Transformed(f)) THEN Transformed(f) ELSE f
-----------------------------------------------------------------------------
Holds(t, env) ==
  CASE t.op = "eq" -> env[t.var] = 1
    [] t.op = "ne" -> env[t.var] # 1
    [] t.op = "lt" -> env[t.var] # Unordered /\ env[t.var] < 1
    [] t.op = "ge" -> env[t.var] # Unordered /\ env[t.var] >= 1

Reads(tests) == {t.var : t \in tests}

Truth(cond, f, env) ==
  cond.neg # (\A t \in IF cond.called THEN f.helper ELSE cond.tests : Holds(t, env))

Simple(f, env, stmt) ==
  CASE stmt.kind = "do" -> [Silent EXCEPT !.trace = <<stmt.effect>>]
    [] stmt.kind = "return" -> Returned(stmt.value)
    [] stmt.kind = "assert" -> IF \A t \in stmt.tests : Holds(t, env) THEN Silent ELSE Ending("AssertionError")
    [] stmt.kind = "check" -> IF Truth(stmt.cond, f, env) THEN Silent ELSE Ending("AssertionError")
    [] stmt.kind = "ladder" ->
         LET chosen == {i \in DOMAIN stmt.branches : stmt.branches[i].key.value = env[stmt.var]}
             last == IF chosen # {} THEN Min(chosen) ELSE Len(stmt.branches)
             tried == InTurn([i \in 1..last |-> Evaluate(stmt.branches[i].key, Names)])
         IN AndThen(tried, IF chosen # {} THEN Returned(stmt.branches[last].value)
                           ELSE IF stmt.fallback # Unset THEN Returned(stmt.fallback)
                           ELSE [Silent EXCEPT !.trace = stmt.rest])
    [] stmt.kind = "lookup" ->
         AndThen(Evaluate(stmt.fallback, Names),
                 Ending(IF env[stmt.var] \in DOMAIN f.table THEN f.table[env[stmt.var]] ELSE stmt.fallback.value))

\* An if goes on with one of its blocks, in which statements do what Does says.
Exec(Does(_, _, _), f, env, stmt) ==
  LET block == IF Truth(stmt.cond, f, env) THEN stmt.body ELSE stmt.orelse
  IN IF stmt.kind # "if" THEN Simple(f, env, stmt)
     ELSE IF stmt.cond.called /\ ~(Reads(f.helper) \subseteq Params) THEN Ending("NameError")
     ELSE InTurn([i \in DOMAIN block |-> Does(f, env, block[i])])

Inner(f, env, stmt) == Exec(Simple, f, env, stmt)
Outer(f, env, stmt) == Exec(Inner, f, env, stmt)

\* What a function does, given its parameter and what its local variable holds.
Invoked(f) ==
  [env \in Env |->
     LET run == InTurn([i \in DOMAIN f.body |-> Outer(f, env, f.body[i])])
     IN IF run.result = Unset THEN [run EXCEPT !.result = "None"] ELSE run]

\* Of a module whose import fails nothing can be called.
Behaviour(f) ==
  <<f.module.imports, IF f.module.imports.result = Unset THEN Invoked(f) ELSE <<>>>>
-----------------------------------------------------------------------------
\* The function as it was first, and as it is now.
VARIABLES original, current

rfVars == <<original, current>>

RfInit == current \in Functions /\ original = current

Refactor ==
  /\ diagnose_function(current) # Unset
  /\ current' = refactor_source(current) /\ UNCHANGED original

RfSpec == RfInit /\ [][Refactor]_rfVars
-----------------------------------------------------------------------------
\* What a function has to be like for its strategy.  To be dispatched: no table yet,
\* keys that differ, keys and values that are constants, and a fallback that does
\* nothing but be there, or else nothing to fall through to.  To be flattened: nothing
\* to be done after such an if, and an order in which a comparison or its opposite
\* holds.  To be extracted: a condition that reads parameters only, and a first one.
\* A module must have room for what is inserted.
Lends(f) ==
  LET strategy == diagnose_function(f)
      flattened == {i \in DOMAIN f.body : Flattens(f.body[i])}
      ladder == _find_ladder_in_body(f)
      inverted(cond) == ~cond.neg /\ ~cond.called /\ ~Compound(cond)
  IN CASE strategy = "dispatch" ->
            /\ f.table = <<>> /\ f.module.place # "future"
            /\ IsInjective([i \in DOMAIN ladder.branches |-> ladder.branches[i].key.value])
            /\ \A i \in DOMAIN ladder.branches :
                 IsConst(ladder.branches[i].key) /\ IsConst(ladder.branches[i].value)
            /\ IF ladder.fallback # Unset THEN IsQuiet(ladder.fallback)
               ELSE ladder.rest = <<>> /\ First(f.body, IsLadder) = Len(f.body)
       [] strategy = "flatten" -> \A i \in flattened :
            /\ SubSeq(f.body, i + 1, Len(f.body)) \in {<<>>, <<Return(Const("None"))>>}
            /\ inverted(f.body[i].cond) =>
                 \A t \in f.body[i].cond.tests : t.op \in {"eq", "ne"} \/ t.var = "l"
       [] strategy = "extract" ->
            /\ f.helper = {} /\ f.module.place # "future"
            /\ Reads(_find_compound_if(f).cond.tests) \subseteq Params
       [] OTHER -> TRUE

\* A function that lends itself to its strategy does what it did before, whatever
\* it is given: it leaves the same trace, and returns or raises the same; and so does
\* the import of its module.
RefactoringKeepsBehaviour ==
  [][current' # current /\ Lends(current) => Behaviour(current') = Behaviour(current)]_rfVars

\* "transformations are validated via round-trip AST parsing, metric delta checks,
\* and behavioral equivalence": also for those that do not lend themselves.
RefactoringsAreEquivalent ==
  Behaviour(current) = Behaviour(original)
=============================================================================
