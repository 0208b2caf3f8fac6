------------------------------ MODULE MCToolbox ------------------------------
(***************************************************************************)
(* TLC instance of Toolbox: for the batch tools, inputs in which each      *)
(* construct they tell apart occurs; for the ledger one objective without  *)
(* a budget, which gates, and one with a budget, which steers.             *)
(***************************************************************************)
EXTENDS Toolbox, MCDocFences, TLC

CONSTANTS f, C, m1, m2, i1, i2, v1, v2, fa, ga

Method(name, body) == [name |-> name, body |-> body]
Attribute == Method(Absent, v1)

Bodies == {<<>>, <<Def(f, v1)>>, <<Def(f, v2)>>, <<Plain(v1)>>, <<Plain(v2), Plain(v1)>>}
          \cup {<<Import(i), Def(f, v1)>> : i \in {i1, i2}}
          \cup {<<Plain(v1), Class(C, v1, members)>> : members \in
                  {<<Attribute>>, <<Method(m1, v1)>>, <<Method(m1, v2)>>, <<Method(m1, v1), Method(m2, v1)>>,
                   <<Attribute, Method(m2, v2)>>, <<Method(m1, v2), Method(m1, v1)>>}}
          \cup {<<Class(C, v2, members)>> : members \in {<<Method(m1, v1)>>, <<Attribute, Method(m1, v1)>>}}

AllMerges == [base : Bodies, ours : Bodies, theirs : Bodies]

Packed == {[FULL |-> x, DOCSTRINGS |-> y, SIGNATURES |-> z] : x, y \in {2, 9}, z \in {1, 2}}

AllPacks == [symbols : UNION {[1..l -> Packed] : l \in 0..3}, budget : 0..5]

\* What rolls over is told by its labels; of what is closed they do not count.
\* GitHub clears closed_at when an issue is reopened.
Issues ==
  [open : {TRUE}, p0 : BOOLEAN, epic : BOOLEAN, created : BOOLEAN, closed : {FALSE}]
  \cup [open : {FALSE}, p0 : {FALSE}, epic : {FALSE}, created : BOOLEAN, closed : BOOLEAN]

Numbered(l) == {[k \in 1..l |-> s[k] @@ [number |-> k]] : s \in [1..l -> Issues]}

AllMilestones == {{s[k] : k \in DOMAIN s} : s \in Numbered(3) \cup Numbered(4)}

Violations == {[rule |-> r, at |-> p] : r \in {"CEGIS001", "CEGIS002"}, p \in {1, 2}}

\* Programs with the same tree have the same violations.
AllPrograms == {[tree |-> V, violations |-> V] : V \in SUBSET Violations}

\* Told apart by a number, for several may be alike.
Resources ==
  [violations : {0}, leaks : 0..1, warm : {FALSE}, suite : {NotRun}]
  \cup [violations : 0..1, leaks : {0}, warm : BOOLEAN,
        suite : [failed : 0..2, broken : BOOLEAN, warnings : 0..2]]

AllRepositories ==
  {{s[k] @@ [number |-> k] : k \in DOMAIN s} : s \in UNION {[1..l -> Resources] : l \in 0..2}}

Branch(key, value) == [key |-> Const(key), value |-> Const(value)]
Rungs == <<Branch(0, "a"), Branch(1, "b"), Branch(2, "a")>>

Asserting == {AssertEqual({Test("eq", "x")}), AssertEqual({Test("ne", "l")}),
              AssertTrue(When({Test("ge", "l")}))}

Statements ==
  {Do(1), Return(Const("a")), Return(Const("None")),
   Ladder("x", Rungs, Const("c"), <<>>), Ladder("x", Rungs, Unset, <<>>),
   Ladder("l", Rungs, Const("c"), <<>>), Ladder("x", Append(Rungs, Branch(1, "a")), Const("c"), <<>>),
   If(When({Test("eq", "x")}), <<Return(Const("a"))>>, <<Do(2)>>),
   If(When({Test("lt", "x")}), <<Do(2), Return(Const("a"))>>, <<>>),
   If([When({Test("ge", "x")}) EXCEPT !.neg = TRUE], <<Do(2), Do(3)>>, <<>>),
   If(When({Test("ne", "x")}), <<Do(4), If(When({Test("eq", "x"), Test("eq", "l")}), <<Do(5)>>, <<>>)>>, <<>>),
   If(When({Test("ge", "x"), Test("ne", "x")}), <<Do(6)>>, <<>>)} \cup Asserting

\* Constants, calls of what the module has, what needs the parameter, and what raises.
Exprs == {Const("a"), Expr(<<7>>, {"earlier"}, FALSE, "a"), Expr(<<>>, {"later"}, FALSE, "a"),
          Expr(<<7>>, {"x"}, FALSE, "a"), Expr(<<>>, {}, TRUE, "ValueError")}

\* Ladders whose first value, last key, fallback or rest is more than a constant.
Ladders ==
  {Ladder("x", <<[key |-> Const(0), value |-> e], Branch(1, "b"), [key |-> k, value |-> Const("a")]>>, fb, r) :
     e \in Exprs, k \in {Const(2), Expr(<<8>>, {"earlier"}, FALSE, 2)}, fb \in Exprs \cup {Unset},
     r \in {<<>>, <<9>>}}

AllFunctions ==
  {Function("top", FALSE, b) : b \in UNION {[1..l -> Statements] : l \in 1..3}}
  \cup {Function("top", TRUE, b) : b \in UNION {[1..l -> Asserting \cup {Do(1)}] : l \in 3..5}}
  \cup {Function(place, FALSE, b) : place \in Places \ {"top"}, b \in UNION {[1..l -> Statements] : l \in 1..2}}
  \cup {Function(place, FALSE, b) : place \in Places, b \in UNION {{<<l>>, <<Do(1), l>>, <<l, Do(1)>>} : l \in Ladders}}

AllReports == {[inv |-> <<1, 1>>, rate |-> <<1, 2>>], [inv |-> <<0, 1>>, rate |-> <<2, 2>>]}

AllObjectives ==
  {[sli |-> "inv", target |-> 100, least |-> 1, gating |-> TRUE],
   [sli |-> "rate", target |-> 60, least |-> 2, gating |-> FALSE]}

\* Cycles that share nodes, one that is not reached from a symbol, an edge to a node
\* that is none, and one that defines.
Edge(a, b) == [source |-> a, target |-> b, defines |-> FALSE]
Listed ==
  <<Edge("s", "t"), Edge("t", "s"), Edge("t", "u"), Edge("u", "s"), Edge("s", "s"),
    [Edge("u", "t") EXCEPT !.defines = TRUE], Edge("u", "v"), Edge("v", "t"), Edge("v", "v")>>

AllGraphs ==
  [symbols : {<<"s", "t">>, <<"t", "s", "u">>},
   edges : {SelectSeq(Listed, LAMBDA e : e \in E) : E \in SUBSET ToSet(Listed)}]

Texts == UNION {[1..l -> {"a", NewLine}] : l \in 0..5}
Showing(Shows(_)) == {t \in Texts : Shows(t)}
Shown ==
  {Showing(LAMBDA t : "a" \in ToSet(t)), Showing(LAMBDA t : Len(_lines(t)) >= 2),
   Showing(LAMBDA t : t # <<>> /\ Head(t) = NewLine), Showing(LAMBDA t : Len(t) \in {1, 3}),
   Showing(LAMBDA t : Len(SelectSeq(t, LAMBDA c : c = "a")) = 2), {}}

Fault(prop, gates, texts) == [prop |-> prop, detail |-> prop, gates |-> gates, texts |-> texts]

AllCampaigns ==
  [faults : {<<Fault("crash", TRUE, x), Fault("non_idempotent", TRUE, y), Fault("slow", FALSE, z)>> :
               x, y, z \in Shown},
   cases : {<<t>> : t \in [1..5 -> {"a", NewLine}]}
           \cup {<<t, u>> : t \in [1..2 -> {"a", NewLine}], u \in [1..4 -> {"a", NewLine}]}]

Renamings == [old : {"p", "q", "r"}, new : {"p", "q", "r"}]
Schema(parameters, required, migrations) ==
  [parameters |-> parameters, required |-> required, migrations |-> migrations]

AllEvolutions ==
  [old : {Schema(ps, rs, <<>>) : ps \in {{"p"}, {"p", "q"}}, rs \in SUBSET {"p"}},
   new : UNION {{Schema(ps, rs, ms) : rs \in SUBSET ps, ms \in UNION {[1..l -> Renamings] : l \in 0..2}} :
                  ps \in SUBSET {"p", "q", "r"}},
   call : {[p \in P |-> p] : P \in SUBSET {"p", "q"}}]

\* A function with an optional argument, with none, a class, and calls that match
\* them or do not, from another function and from the module.
Signature(least, most) == [least |-> least, most |-> most]
Calling(from, to, args) == [from |-> from, to |-> to, args |-> args]

AllSources ==
  [defs : {<<>>, fa :> Signature(0, 1), fa :> Signature(1, 1), ga :> Signature(2, 2),
           fa :> Signature(1, 9) @@ ga :> NoSignature},
   calls : {{}, {Calling(ModuleLevel, fa, 0), Calling(ModuleLevel, ga, 1)}}]
  \cup [defs : {ga :> Signature(0, 0)},
        calls : {{Calling(ga, fa, k)} : k \in 0..2}
                \cup {{Calling(ga, fa, 0), Calling(ModuleLevel, fa, 2)}}]

\* Texts in which the audit and the repair meet what they tell apart, with and without
\* an ended last line, in and behind the header.
AllBuffers ==
  {<<"">>, <<"address">>, <<"curt waiver">>, <<"code", "subdomain", "">>, <<"waiver", "address", "">>,
   <<"curt waiver", "address", "">>, <<"bare waiver", "marked address", "complex", "">>,
   <<"code", "foreign waiver", "curt waiver", "">>, <<"address in a comment", "broken", "">>,
   <<"address in a comment", "code", "bare waiver">>}

\* Files of one name are found fault with in two directories.
AllDefects == {[title |-> "finding", place |-> p] : p \in 1..2}
AllDeliverables == {[title |-> t, place |-> 1] : t \in {"item", "other"}}

Sym == Permutations(User)
=============================================================================
