---------------------------- MODULE AstReconciler ----------------------------
(***************************************************************************)
(* The three-way merge of Python modules (ast_reconciler.py), as operators.*)
(* A module is a sequence of top-level statements; what a statement says   *)
(* is an opaque body, and two statements are the same when their hashes    *)
(* are, hence when they are equal.  A class is a header, that is its bases *)
(* and decorators, and a sequence of members: methods, which have a name,  *)
(* and everything else.  The order of the merged statements, the module's  *)
(* docstring and the telemetry are left out.                               *)
(***************************************************************************)
EXTENDS Integers, Sequences, FiniteSets

CONSTANTS Absent, Collision

\* Statements of the four kinds the merge tells apart.
Import(what) == [kind |-> "import", body |-> what]
Def(name, body) == [kind |-> "def", name |-> name, body |-> body]
Plain(body) == [kind |-> "plain", body |-> body]
Class(name, header, members) ==
  [kind |-> "class", name |-> name, header |-> header, members |-> members]

\* The key of the i-th statement: its name, or for want of one its place.
classify_statement_symbol(stmt, i) ==
  IF stmt.kind = "plain" THEN <<"stmt", i>> ELSE <<"name", stmt.name>>

IsImport(stmt) == stmt.kind = "import"
IsBody(stmt) == stmt.kind # "import"

extract_import_statements(module) ==
  {module[i].body : i \in {j \in DOMAIN module : IsImport(module[j])}}

Greatest(S) == CHOOSE i \in S : \A j \in S : j <= i

\* A dictionary comprehension over the elements of a kind: the last of several
\* entries under a key counts.  The others have no place.
LastOf(s, Picks(_), Key(_, _)) ==
  LET picked == {i \in DOMAIN s : Picks(s[i])}
      key(i) == Key(s[i], Cardinality({j \in picked : j <= i}))
  IN [k \in {key(i) : i \in picked} |-> s[Greatest({i \in picked : key(i) = k})]]

extract_symbol_map(module) == LastOf(module, IsBody, classify_statement_symbol)

Get(map, key) == IF key \in DOMAIN map THEN map[key] ELSE Absent

reconcile_import_sets(base, ours, theirs) ==
  (base \cap ours \cap theirs) \cup (ours \ base) \cup (theirs \ base)

\* Mutant of Arbitrate: ours wins where theirs has nothing.
ArbitrateKeep(base, ours, theirs) ==
  CASE ours = base /\ theirs # Absent -> theirs
    [] ours # base /\ theirs = base -> ours
    [] ours = theirs \/ theirs = Absent -> ours
    [] OTHER -> Collision

\* _arbitrate_single_node: a side that has not changed yields to the other.
Arbitrate(base, ours, theirs) ==
  CASE ours = base -> theirs
    [] ours # base /\ (theirs = base \/ ours = theirs) -> ours
    [] OTHER -> Collision

IsMethod(member) == member.name # Absent
MemberName(member, i) == member.name
_extract_methods_map(class) == LastOf(class.members, IsMethod, MemberName)

\* Methods by name, arbitrated one by one; the class is built from them alone,
\* with the header ours has.
MergedMethods(base, ours, theirs) ==
  LET b == _extract_methods_map(base)
      o == _extract_methods_map(ours)
      t == _extract_methods_map(theirs)
  IN [n \in DOMAIN b \cup DOMAIN o \cup DOMAIN t |->
        Arbitrate(Get(b, n), Get(o, n), Get(t, n))]

reconcile_class_methods(base, ours, theirs) ==
  LET merged == MergedMethods(base, ours, theirs)
  IN IF \E n \in DOMAIN merged : merged[n] = Collision
       THEN Collision
       ELSE [header |-> ours.header,
             methods |-> {merged[n] : n \in DOMAIN merged} \ {Absent}]

IsClass(stmt) == stmt # Absent /\ stmt.kind = "class"

\* A class on all three sides is merged by its methods; failing that, as a whole.
arbitrate_symbol(base, ours, theirs) ==
  LET class == reconcile_class_methods(base, ours, theirs)
  IN IF IsClass(base) /\ IsClass(ours) /\ IsClass(theirs) /\ class # Collision
       THEN class
       ELSE Arbitrate(base, ours, theirs)

\* One collision, and nothing is emitted.
reconcile_3way(base, ours, theirs) ==
  LET b == extract_symbol_map(base)
      o == extract_symbol_map(ours)
      t == extract_symbol_map(theirs)
      merged == [k \in DOMAIN b \cup DOMAIN o \cup DOMAIN t |->
                   arbitrate_symbol(Get(b, k), Get(o, k), Get(t, k))]
      collisions == {k \in DOMAIN merged : merged[k] = Collision}
  IN [imports |-> reconcile_import_sets(extract_import_statements(base),
                    extract_import_statements(ours), extract_import_statements(theirs)),
      symbols |-> [k \in {n \in DOMAIN merged : merged[n] \notin {Absent, Collision}} |-> merged[k]],
      collisions |-> collisions]
=============================================================================
