--------------------------- MODULE AstCrdtProofs ---------------------------
(***************************************************************************)
(* Replicas of a syntax tree, for any finite set of agents, any positions  *)
(* and any number of edits and syncs.  That a replica stays a tree rests   *)
(* on causality: sync_peers replays logs in order, so that an operation    *)
(* never reaches a replica before the nodes it names.                      *)
(***************************************************************************)
EXTENDS AstCrdt, FiniteSetTheorems, SequenceTheorems, WellFoundedInduction, TLAPS

Inserts(op, n) == op.type = "INSERT_NODE" /\ op.node = n

\* The nodes an operation takes for granted.
Needs(op) ==
  (IF op.type = "INSERT_NODE" THEN {} ELSE {op.node}) \cup ({op.parent} \cap Node)

\* The operations the agents create have what their type asks for.
Whole(op) == op.type # "DELETE_NODE" => op.parent \in Node \cup {Root} /\ op.pos \in Pos

OpsAreWhole == \A a \in Agent : \A op \in LogSet(a) : Whole(op)

\* Every insertion that was ever logged used up a value of its agent's counter.
MintedByCounter ==
  \A a \in Agent : \A op \in LogSet(a) :
    op.type = "INSERT_NODE" => op.node[2] <= counter[op.node[1]]

\* In every log, nodes are inserted before they are used.
LogsAreCausal ==
  \A a \in Agent : \A i \in 1 .. Len(op_log[a]) : \A n \in Needs(op_log[a][i]) :
    \E j \in 1 .. i - 1 : Inserts(op_log[a][j], n)

\* What a sync still applies comes from a log, and finds the nodes it needs.
PendingIsCausal ==
  \A i \in 1 .. Len(pending) :
    /\ \E a \in Agent : pending[i][2] \in LogSet(a)
    /\ \A n \in Needs(pending[i][2]) :
         \/ node_map[pending[i][1]][n] # None
         \/ \E j \in 1 .. i - 1 : pending[j][1] = pending[i][1] /\ Inserts(pending[j][2], n)

\* A replica's rows say what its log says: which nodes were inserted, which
\* deleted, and where the nodes are that were never moved.
RowFollows(row, ops, n) ==
  /\ row # None <=> Inserted(ops, n) # {}
  /\ row # None =>
       /\ row.tomb <=> Deleted(ops, n)
       /\ ~Moved(ops, n) => \A op \in Inserted(ops, n) : row.parent = op.parent /\ row.pos = op.pos

MapsFollowLogs == \A a \in Agent : \A n \in Node : RowFollows(node_map[a][n], LogSet(a), n)

RootedMap(map) ==
  \A group \in SUBSET Held(map) :
    group # {} => \E n \in group : map[n].parent \in ({Root} \cup Held(map)) \ group

CrdtInv ==
  /\ TypeOK /\ OpsAreWhole
  /\ MintedByCounter /\ NodeIdsAreUnique /\ ClockIsAhead
  /\ LogsAreCausal /\ PendingIsCausal /\ MapsFollowLogs
  /\ \A a \in Agent : RootedMap(node_map[a])
-----------------------------------------------------------------------------
\* Induction over the naturals, from the well-foundedness of < alone.
Below == {ij \in Nat \X Nat : ij[1] < ij[2]}

\* The order of the naturals is well founded: a non-empty set of them has a
\* least member.
LEMMA BelowIsWellFounded == IsWellFoundedOn(Below, Nat)
<1>1. IsWellFoundedOn(OpToRel(<, Nat), Nat)
  BY NatLessThanWellFounded, Zenon
<1>2. OpToRel(<, Nat) = Below
  BY DEF OpToRel, Below
<1> QED BY <1>1, <1>2

\* Every non-empty set of naturals has a least element.
LEMMA LeastNatural ==
  ASSUME NEW T \in SUBSET Nat, T # {}
  PROVE  \E m \in T : \A n \in T : m <= n
<1>1. PICK m \in T : \A n \in T : <<n, m>> \notin Below
  BY BelowIsWellFounded, WFMin, Zenon
<1>2. ASSUME NEW n \in T PROVE m <= n
  <2>1. <<n, m>> \notin Below /\ <<n, m>> \in Nat \X Nat
    BY <1>1
  <2> QED BY <2>1 DEF Below
<1> QED BY <1>2

\* A walk that takes the same kind of step lim times exists.
LEMMA WalkExists ==
  ASSUME NEW map, NEW ancestor, NEW target, NEW lim \in Nat
  PROVE  \E f : f = [k \in 0 .. lim |->
           IF k = 0 THEN target
           ELSE IF f[k - 1] \in {None, ancestor} THEN f[k - 1] ELSE NextParent(map, f[k - 1])]
<1> DEFINE Step(x) == IF x \in {None, ancestor} THEN x ELSE NextParent(map, x)
           Good(m) == \E f : f = [k \in 0 .. m |-> IF k = 0 THEN target ELSE Step(f[k - 1])]
           Bad == {m \in Nat : ~Good(m)}
<1> HIDE DEF Step
<1>1. ASSUME Bad # {} PROVE FALSE
  <2>1. PICK m \in Bad : \A n \in Bad : m <= n
    BY <1>1, LeastNatural
  <2>2. m # 0
    <3> DEFINE g == [k \in 0 .. 0 |-> target]
    <3>1. g = [k \in 0 .. 0 |-> IF k = 0 THEN target ELSE Step(g[k - 1])]
      OBVIOUS
    <3> QED BY <3>1, <2>1
  <2>3. m - 1 \in Nat /\ Good(m - 1)
    <3>1. m - 1 \in Nat /\ ~(m <= m - 1)
      BY <2>2
    <3> QED BY <3>1, <2>1
  <2>4. PICK f : f = [k \in 0 .. m - 1 |-> IF k = 0 THEN target ELSE Step(f[k - 1])]
    BY <2>3
  <2> DEFINE g == [k \in 0 .. m |-> IF k = m THEN Step(f[m - 1]) ELSE f[k]]
  <2>5. g = [k \in 0 .. m |-> IF k = 0 THEN target ELSE Step(g[k - 1])]
    BY <2>1, <2>2, <2>4
  <2> QED BY <2>5, <2>1
<1>2. Good(lim)
  BY <1>1
<1> QED BY <1>2 DEF Step

\* Rows have parents, and neither the root nor a missing node is one.
LEMMA NamesDiffer ==
  /\ Root \notin Node /\ None \notin Node /\ Root # None
  /\ \A row \in Row : row # None /\ row.parent \in Node \cup {Root} /\ row.parent # None
BY CrdtAssumption, MissingAssumption DEF Node, Row

\* When is_ancestor says no, the nodes on the way up from target are closed
\* under parents and ancestor is not among them: the loop's bound is never what
\* ended it, for then a node was visited twice and the nodes between would
\* hang under one another.
LEMMA NotAncestor ==
  ASSUME NEW map \in [Node -> Row \cup {None}], IsFiniteSet(Held(map)), RootedMap(map),
         NEW ancestor \in Node, NEW target \in Held(map) \cup {Root},
         ~is_ancestor(map, ancestor, target)
  PROVE  \E T \in SUBSET Held(map) :
           /\ ancestor \notin T
           /\ target \in T \cup {Root}
           /\ \A n \in T : map[n].parent \in T \cup {Root}
<1> DEFINE limit == Cardinality(Held(map)) + 3
           Step(x) == IF x \in {None, ancestor} THEN x ELSE NextParent(map, x)
           W == CHOOSE f : f = [k \in 0 .. limit |->
                  IF k = 0 THEN target
                  ELSE IF f[k - 1] \in {None, ancestor} THEN f[k - 1] ELSE NextParent(map, f[k - 1])]
<1>1. limit \in Nat
  BY FS_CardinalityType
<1>2. W = [k \in 0 .. limit |-> IF k = 0 THEN target ELSE Step(W[k - 1])]
  BY <1>1, WalkExists
<1>3. W[limit] # ancestor
  BY DEF is_ancestor
<1> HIDE DEF W
<1>4. W[0] = target /\ \A k \in 1 .. limit : W[k] = Step(W[k - 1])
  BY <1>1, <1>2
<1>5. ASSUME NEW k \in 0 .. limit, W[k] = ancestor PROVE FALSE
  <2> DEFINE Left == {j \in Nat : j \in k .. limit /\ W[j] # ancestor}
  <2>1. limit \in Left
    BY <1>1, <1>3
  <2>2. PICK m \in Left : \A j \in Left : m <= j
    BY <2>1, LeastNatural
  <2>3. m - 1 \in k .. limit /\ m \in 1 .. limit /\ W[m - 1] = ancestor
    BY <1>1, <1>5, <2>2
  <2> QED BY <2>2, <2>3, <1>4
<1>6. \A n \in Held(map) : /\ n \in Node /\ n # None /\ map[n] \in Row
                           /\ map[n].parent \in Held(map) \cup {Root}
  <2> TAKE n \in Held(map)
  <2>1. n \in Node /\ n # None /\ map[n] \in Row
    BY NamesDiffer DEF Held
  <2>2. {n} \in SUBSET Held(map) /\ {n} # {}
    OBVIOUS
  <2> QED BY <2>1, <2>2 DEF RootedMap
<1>7. /\ \A x \in Held(map) \ {ancestor} : Step(x) = map[x].parent
      /\ Step(Root) = None /\ Step(None) = None
  BY <1>6, NamesDiffer DEF NextParent, Held
<1> HIDE DEF Step, limit
<1>8. \A k \in 0 .. limit : W[k] \in Held(map) \cup {Root, None}
  <2> DEFINE Out == {k \in Nat : k \in 0 .. limit /\ W[k] \notin Held(map) \cup {Root, None}}
  <2>1. ASSUME Out # {} PROVE FALSE
    <3>1. PICK m \in Out : \A k \in Out : m <= k
      BY <2>1, LeastNatural
    <3>2. m # 0
      BY <1>4, <3>1
    <3>3. m - 1 \in 0 .. limit /\ m \in 1 .. limit /\ m - 1 \notin Out
      BY <1>1, <3>1, <3>2
    <3>4. W[m - 1] \in (Held(map) \ {ancestor}) \cup {Root, None} /\ W[m] = Step(W[m - 1])
      BY <1>4, <1>5, <3>3
    <3> QED BY <1>6, <1>7, <3>1, <3>4
  <2> QED BY <1>1, <2>1
<1> DEFINE T == {x \in Held(map) : \E k \in 0 .. limit : W[k] = x}
<1>9. W[limit] \notin Held(map)
  <2> SUFFICES ASSUME W[limit] \in Held(map) PROVE FALSE
    OBVIOUS
  <2>1. \A k \in 0 .. limit : W[k] \in Held(map)
    <3> DEFINE Out == {d \in Nat : d \in 0 .. limit /\ W[limit - d] \notin Held(map)}
    <3>1. ASSUME Out # {} PROVE FALSE
      <4>1. PICK d \in Out : \A e \in Out : d <= e
        BY <3>1, LeastNatural
      <4>2. d # 0
        BY <1>1, <4>1
      <4>3. /\ limit - d \in 0 .. limit /\ limit - d + 1 \in 1 .. limit
            /\ W[limit - d] \notin Held(map)
            /\ W[limit - d + 1] = Step(W[limit - d])
        BY <1>1, <1>4, <4>1, <4>2
      <4>4. d - 1 \in Nat /\ d - 1 \in 0 .. limit /\ d - 1 \notin Out
        BY <1>1, <4>1, <4>2
      <4>5. limit - (d - 1) = limit - d + 1
        BY <1>1, <4>1
      <4>6. W[limit - d + 1] \in Held(map)
        BY <4>4, <4>5
      <4> QED BY <4>3, <4>6, <1>6, <1>7, <1>8
    <3>2. ASSUME NEW k \in 0 .. limit PROVE W[k] \in Held(map)
      <4>1. limit - k \in Nat /\ limit - k \in 0 .. limit /\ limit - (limit - k) = k
        BY <1>1
      <4> QED BY <3>1, <4>1
    <3> QED BY <3>2
  <2>2. PICK i \in 0 .. limit, j \in 0 .. limit : i < j /\ W[i] = W[j]
    <3>1. IsFiniteSet(0 .. limit) /\ Cardinality(0 .. limit) = limit + 1
      BY <1>1, FS_Interval
    <3>2. Cardinality(Held(map)) < Cardinality(0 .. limit)
      BY <3>1, <1>1, FS_CardinalityType DEF limit
    <3>3. W \in [0 .. limit -> Held(map)]
      BY <1>2, <2>1
    <3>4. \E i, j \in 0 .. limit : i # j /\ W[i] = W[j]
      BY <3>1, <3>2, <3>3, FS_PigeonHole
    <3> QED BY <3>4, <1>1
  <2> DEFINE G == {W[k] : k \in i .. j - 1}
  <2>3. G \in SUBSET Held(map) /\ W[i] \in G
    BY <1>1, <2>1, <2>2
  <2>4. ASSUME NEW n \in G PROVE map[n].parent \in G
    <3>1. PICK k \in i .. j - 1 : n = W[k]
      OBVIOUS
    <3>2. k \in 0 .. limit /\ k + 1 \in 1 .. limit /\ k + 1 \in i .. j
      BY <1>1, <2>2
    <3>3. W[k + 1] = Step(W[k])
      BY <1>4, <3>2
    <3>4. W[k + 1] = map[n].parent
      BY <3>1, <3>2, <3>3, <1>5, <1>7, <2>1
    <3> QED BY <3>2, <3>4, <2>2
  <2> QED BY <2>3, <2>4 DEF RootedMap
<1>10. ASSUME NEW n \in T PROVE map[n].parent \in T \cup {Root}
  <2>1. PICK k \in 0 .. limit : W[k] = n
    OBVIOUS
  <2>2. k # limit
    BY <2>1, <1>9
  <2>3. k + 1 \in 0 .. limit /\ W[k + 1] = Step(W[k])
    BY <1>1, <1>4, <2>2
  <2>4. W[k + 1] = map[n].parent
    BY <2>1, <2>3, <1>5, <1>7
  <2> QED BY <2>3, <2>4, <1>6
<1>11. ancestor \notin T /\ target \in T \cup {Root}
  BY <1>1, <1>4, <1>5
<1> QED BY <1>10, <1>11
-----------------------------------------------------------------------------
\* There are finitely many nodes, so every walk is finite.
LEMMA HeldIsFinite ==
  ASSUME NEW map
  PROVE  IsFiniteSet(Held(map))
<1>1. IsFiniteSet(1 .. MaxInserts)
  BY CrdtAssumption, FS_Interval
<1>2. IsFiniteSet(Node)
  BY <1>1, CrdtAssumption, FS_Product DEF Node
<1> QED BY <1>2, FS_Subset DEF Held

\* A new leaf under a node that is held keeps the tree a tree.
LEMMA LeafKeepsRooted ==
  ASSUME NEW map \in [Node -> Row \cup {None}], RootedMap(map),
         NEW n \in Node, map[n] = None,
         NEW row \in Row, row.parent \in Held(map) \cup {Root}
  PROVE  RootedMap([map EXCEPT ![n] = row])
<1> DEFINE new == [map EXCEPT ![n] = row]
<1>1. Held(new) = Held(map) \cup {n} /\ n \notin Held(map) /\ new[n] = row
  BY NamesDiffer DEF Held
<1>2. \A m \in Held(map) : new[m] = map[m]
  BY <1>1 DEF Held
<1> HIDE DEF new
<1>3. ASSUME NEW group \in SUBSET Held(new), group # {}
      PROVE  \E m \in group : new[m].parent \in ({Root} \cup Held(new)) \ group
  <2>1. CASE group \ {n} = {}
    BY <2>1, <1>1, <1>3, NamesDiffer
  <2>2. CASE group \ {n} # {}
    <3>1. group \ {n} \in SUBSET Held(map)
      BY <1>1
    <3>2. PICK m \in group \ {n} : map[m].parent \in ({Root} \cup Held(map)) \ (group \ {n})
      BY <2>2, <3>1 DEF RootedMap
    <3>3. map[m].parent # n
      BY <1>1, <3>2, NamesDiffer
    <3> QED BY <3>1, <3>2, <3>3, <1>1, <1>2
  <2> QED BY <2>1, <2>2
<1> QED BY <1>3 DEF RootedMap, new

\* A tombstone moves nothing.
LEMMA TombKeepsRooted ==
  ASSUME NEW map \in [Node -> Row \cup {None}], RootedMap(map), NEW n \in Held(map)
  PROVE  RootedMap([map EXCEPT ![n].tomb = TRUE])
<1> DEFINE new == [map EXCEPT ![n].tomb = TRUE]
<1>1. n \in Node /\ map[n] \in Row
  BY DEF Held
<1>2. new[n] \in Row /\ \A m \in Held(map) : new[m].parent = map[m].parent
  BY <1>1 DEF Row, Held
<1>3. Held(new) = Held(map)
  BY <1>1, <1>2, NamesDiffer DEF Held
<1> HIDE DEF new
<1>4. RootedMap(new)
  BY <1>2, <1>3 DEF RootedMap
<1> QED BY <1>4 DEF new

\* A move that is_ancestor lets through makes no cycle.
LEMMA MoveKeepsRooted ==
  ASSUME NEW map \in [Node -> Row \cup {None}], RootedMap(map), NEW n \in Held(map),
         NEW parent \in Held(map) \cup {Root}, ~is_ancestor(map, n, parent),
         NEW row \in Row, row.parent = parent
  PROVE  RootedMap([map EXCEPT ![n] = row])
<1> DEFINE new == [map EXCEPT ![n] = row]
<1>1. n \in Node
  BY DEF Held
<1>2. Held(new) = Held(map) /\ new[n] = row
  BY <1>1, NamesDiffer DEF Held
<1>3. \A m \in Held(map) \ {n} : new[m] = map[m]
  BY DEF Held
<1> HIDE DEF new
<1>4. PICK T \in SUBSET Held(map) :
        n \notin T /\ parent \in T \cup {Root} /\ \A m \in T : map[m].parent \in T \cup {Root}
  BY <1>1, HeldIsFinite, NotAncestor
<1>5. Root \notin Held(map)
  BY NamesDiffer DEF Held
<1>6. ASSUME NEW group \in SUBSET Held(map), group # {}
      PROVE  \E m \in group : new[m].parent \in ({Root} \cup Held(map)) \ group
  <2>1. CASE n \notin group
    <3>1. PICK m \in group : map[m].parent \in ({Root} \cup Held(map)) \ group
      BY <1>6 DEF RootedMap
    <3> QED BY <2>1, <3>1, <1>3
  <2>2. CASE n \in group /\ parent \notin group
    BY <2>2, <1>2
  <2>3. CASE n \in group /\ parent \in group
    <3>1. group \cap T \in SUBSET Held(map) /\ group \cap T # {}
      BY <2>3, <1>4, <1>5
    <3>2. PICK m \in group \cap T : map[m].parent \in ({Root} \cup Held(map)) \ (group \cap T)
      BY <3>1 DEF RootedMap
    <3>3. map[m].parent \notin group
      BY <3>2, <1>4, <1>5
    <3> QED BY <3>2, <3>3, <1>3, <1>4
  <2> QED BY <2>1, <2>2, <2>3
<1> QED BY <1>2, <1>6 DEF RootedMap, new

\* apply_operation adds the operation to one log, at its end.
LEMMA LogGrows ==
  ASSUME NEW a \in Agent, NEW op \in Op, op_log \in [Agent -> Seq(Op)],
         op_log' = [op_log EXCEPT ![a] = Append(@, op)]
  PROVE  /\ op_log' \in [Agent -> Seq(Op)]
         /\ LogSet(a)' = LogSet(a) \cup {op}
         /\ \A b \in Agent \ {a} : LogSet(b)' = LogSet(b) /\ op_log'[b] = op_log[b]
         /\ Len(op_log'[a]) = Len(op_log[a]) + 1
         /\ \A i \in 1 .. Len(op_log[a]) : op_log'[a][i] = op_log[a][i]
         /\ op_log'[a][Len(op_log[a]) + 1] = op
<1>1. /\ op_log' \in [Agent -> Seq(Op)] /\ op_log'[a] = Append(op_log[a], op)
      /\ \A b \in Agent \ {a} : op_log'[b] = op_log[b]
      /\ op_log[a] \in Seq(Op)
  OBVIOUS
<1>2. /\ Len(op_log'[a]) = Len(op_log[a]) + 1 /\ Len(op_log[a]) \in Nat
      /\ \A i \in 1 .. Len(op_log[a]) : op_log'[a][i] = op_log[a][i]
      /\ op_log'[a][Len(op_log[a]) + 1] = op
  BY <1>1
<1>3. LogSet(a)' = LogSet(a) \cup {op}
  BY <1>2 DEF LogSet
<1> QED BY <1>1, <1>2, <1>3 DEF LogSet

-----------------------------------------------------------------------------
\* What every call of apply_operation may rely on: the operation is whole, the
\* nodes it names are held, an insertion names a node no other insertion named,
\* from a counter value that is used up, and the time is not in the past.
Applicable(a, op, time) ==
  /\ a \in Agent /\ op \in Op /\ time \in Nat /\ clock[a] <= time
  /\ Whole(op) /\ Needs(op) \subseteq Held(node_map[a])
  /\ op.type = "INSERT_NODE" =>
       \A b \in Agent : \A p \in Inserted(LogSet(b), op.node) : p = op

\* Only what was inserted is deleted.
LEMMA DeletedWasInserted ==
  ASSUME TypeOK, LogsAreCausal, NEW a \in Agent, NEW n \in Node, Deleted(LogSet(a), n)
  PROVE  Inserted(LogSet(a), n) # {}
<1>1. PICK i \in 1 .. Len(op_log[a]) : op_log[a][i].type = "DELETE_NODE" /\ op_log[a][i].node = n
  BY DEF Deleted, LogSet
<1>2. n \in Needs(op_log[a][i])
  BY <1>1 DEF Needs
<1>3. PICK j \in 1 .. i - 1 : Inserts(op_log[a][j], n)
  BY <1>2 DEF LogsAreCausal
<1>4. j \in 1 .. Len(op_log[a])
  BY <1>3, <1>1 DEF TypeOK
<1> QED BY <1>3, <1>4 DEF Inserted, Inserts, LogSet

\* An operation on another node does not change what the log says of this one.
LEMMA OtherNode ==
  ASSUME NEW ops, NEW op, NEW n, op.node # n
  PROVE  \A row : RowFollows(row, ops, n) => RowFollows(row, ops \cup {op}, n)
<1>1. Inserted(ops \cup {op}, n) = Inserted(ops, n)
  BY DEF Inserted
<1>2. /\ Deleted(ops \cup {op}, n) <=> Deleted(ops, n)
      /\ Moved(ops \cup {op}, n) <=> Moved(ops, n)
  BY DEF Deleted, Moved
<1> QED BY <1>1, <1>2, Zenon DEF RowFollows

\* The row of a deleted node, and of a moved one, follow the log.
LEMMA RowAfterDelete ==
  ASSUME NEW ops, NEW op, NEW n, NEW old, NEW new, RowFollows(old, ops, n), old # None,
         op.type = "DELETE_NODE", op.node = n,
         new # None, new.tomb, new.parent = old.parent, new.pos = old.pos
  PROVE  RowFollows(new, ops \cup {op}, n)
<1>1. /\ Inserted(ops \cup {op}, n) = Inserted(ops, n)
      /\ Deleted(ops \cup {op}, n)
      /\ Moved(ops \cup {op}, n) <=> Moved(ops, n)
  BY DEF Inserted, Deleted, Moved
<1> QED BY <1>1, Zenon DEF RowFollows

\* A move leaves a row's tombstone alone, so the row still follows the log
\* with the move in it.
LEMMA RowAfterMove ==
  ASSUME NEW ops, NEW op, NEW n, NEW old, NEW new, RowFollows(old, ops, n), old # None,
         op.type = "MOVE_NODE", op.node = n, new # None, new.tomb = old.tomb
  PROVE  RowFollows(new, ops \cup {op}, n)
<1>1. /\ Inserted(ops \cup {op}, n) = Inserted(ops, n)
      /\ Deleted(ops \cup {op}, n) <=> Deleted(ops, n)
      /\ Moved(ops \cup {op}, n)
  BY DEF Inserted, Deleted, Moved
<1> QED BY <1>1, Zenon DEF RowFollows

\* What apply_operation does to a replica's rows: they stay rows, follow the
\* log that has grown, hang together as a tree, and none is lost or revived.
RowsKeep(a, op) ==
  /\ node_map' \in [Agent -> [Node -> Row \cup {None}]]
  /\ \A b \in Agent \ {a} : node_map'[b] = node_map[b]
  /\ \A n \in Node : RowFollows(node_map'[a][n], LogSet(a) \cup {op}, n)
  /\ RootedMap(node_map'[a])
  /\ \A n \in Node : node_map[a][n] # None =>
       node_map'[a][n] # None /\ (node_map[a][n].tomb => node_map'[a][n].tomb)
  /\ op.type = "INSERT_NODE" => node_map'[a][op.node] # None

\* apply_insert: the rows of the replica follow its log again.
LEMMA InsertKeepsRows ==
  ASSUME CrdtInv, NEW a, NEW op, NEW time, Applicable(a, op, time),
         op.type = "INSERT_NODE", ApplyInsert(a, op)
  PROVE  RowsKeep(a, op)
<1> USE DEF CrdtInv, Applicable
<1> DEFINE n == op.node
           map == node_map[a]
           row == [parent |-> op.parent, pos |-> op.pos, tomb |-> FALSE]
<1>0. RootedMap(map)
  OBVIOUS
<1>1. /\ n \in Node /\ op.parent \in Node \cup {Root} /\ op.pos \in Pos
      /\ map \in [Node -> Row \cup {None}] /\ node_map \in [Agent -> [Node -> Row \cup {None}]]
  BY DEF Op, Whole, TypeOK
<1>2. Present(map, op.parent) /\ op.parent \in Held(map) \cup {Root}
  BY <1>1 DEF Present, Needs, Held
<1>3. \A m \in Node \ {n} : RowFollows(map[m], LogSet(a) \cup {op}, m)
  BY OtherNode, <1>1 DEF MapsFollowLogs
<1>4. Inserted(LogSet(a) \cup {op}, n) = {op}
  BY DEF Inserted
<1>5. CASE map[n] # None
  <2>1. node_map' = node_map
    BY <1>5 DEF ApplyInsert
  <2>2. RowFollows(map[n], LogSet(a), n)
    BY <1>1 DEF MapsFollowLogs
  <2>3. Inserted(LogSet(a), n) = {op}
    BY <1>5, <2>2 DEF RowFollows, Inserted
  <2>4. RowFollows(map[n], LogSet(a) \cup {op}, n)
    BY <1>4, <2>2, <2>3 DEF RowFollows, Deleted, Moved
  <2> QED BY <1>1, <1>3, <1>5, <2>1, <2>4 DEF RowsKeep
<1>6. CASE map[n] = None
  <2>1. node_map' = [node_map EXCEPT ![a][n] = row]
    BY <1>2, <1>6 DEF ApplyInsert
  <2>2. row \in Row
    BY <1>1 DEF Row
  <2>3. /\ node_map'[a] = [map EXCEPT ![n] = row]
        /\ node_map' \in [Agent -> [Node -> Row \cup {None}]]
        /\ \A b \in Agent \ {a} : node_map'[b] = node_map[b]
    BY <1>1, <2>1, <2>2
  <2>4. RootedMap(node_map'[a])
    <3>1. RootedMap([map EXCEPT ![n] = row])
      BY <1>0, <1>1, <1>2, <1>6, <2>2, LeafKeepsRooted
    <3> QED BY <3>1, <2>3
  <2>5. ~Deleted(LogSet(a) \cup {op}, n)
    <3>1. Inserted(LogSet(a), n) = {}
      BY <1>1, <1>6 DEF MapsFollowLogs, RowFollows
    <3>2. ~Deleted(LogSet(a), n)
      BY <1>1, <3>1, DeletedWasInserted
    <3> QED BY <3>2 DEF Deleted
  <2>6. RowFollows(row, LogSet(a) \cup {op}, n)
    BY <1>4, <2>2, <2>5, NamesDiffer DEF RowFollows
  <2>7. node_map'[a][n] = row /\ \A m \in Node \ {n} : node_map'[a][m] = map[m]
    BY <1>1, <2>3
  <2>8. \A m \in Node : RowFollows(node_map'[a][m], LogSet(a) \cup {op}, m)
    BY <1>3, <2>6, <2>7
  <2> QED BY <1>6, <2>2, <2>3, <2>4, <2>7, <2>8, NamesDiffer DEF RowsKeep
<1> QED BY <1>5, <1>6

\* apply_delete: the rows of the replica follow its log again.
LEMMA DeleteKeepsRows ==
  ASSUME CrdtInv, NEW a, NEW op, NEW time, Applicable(a, op, time),
         op.type = "DELETE_NODE", ApplyDelete(a, op)
  PROVE  RowsKeep(a, op)
<1> USE DEF CrdtInv, Applicable
<1> DEFINE n == op.node
           map == node_map[a]
           row == [map[n] EXCEPT !.tomb = TRUE]
<1>0. RootedMap(map)
  OBVIOUS
<1>1. /\ n \in Node /\ n \in Held(map)
      /\ map \in [Node -> Row \cup {None}] /\ node_map \in [Agent -> [Node -> Row \cup {None}]]
  BY DEF Op, TypeOK, Needs, Held
<1>2. map[n] # None /\ map[n] \in Row /\ row \in Row
  BY <1>1 DEF Held, Row
<1>3. node_map' = [node_map EXCEPT ![a][n].tomb = TRUE]
  BY <1>2 DEF ApplyDelete
<1>4. /\ node_map'[a] = [map EXCEPT ![n].tomb = TRUE]
      /\ node_map' \in [Agent -> [Node -> Row \cup {None}]]
      /\ \A b \in Agent \ {a} : node_map'[b] = node_map[b]
      /\ node_map'[a][n] = row /\ \A m \in Node \ {n} : node_map'[a][m] = map[m]
  BY <1>1, <1>2, <1>3
<1>5. RootedMap(node_map'[a])
  <2>1. RootedMap([map EXCEPT ![n].tomb = TRUE])
    BY <1>0, <1>1, TombKeepsRooted
  <2> QED BY <2>1, <1>4
<1>7. row.tomb = TRUE /\ row.parent = map[n].parent /\ row.pos = map[n].pos /\ row # None
  BY <1>2, NamesDiffer DEF Row
<1>8. RowFollows(row, LogSet(a) \cup {op}, n)
  BY <1>1, <1>2, <1>7, RowAfterDelete DEF MapsFollowLogs
<1>9. \A m \in Node : RowFollows(node_map'[a][m], LogSet(a) \cup {op}, m)
  BY <1>4, <1>8, OtherNode DEF MapsFollowLogs
<1> QED BY <1>4, <1>5, <1>7, <1>9 DEF RowsKeep

\* apply_move, done or skipped as a cycle: the rows of the replica follow its
\* log again.
LEMMA MoveKeepsRows ==
  ASSUME CrdtInv, NEW a, NEW op, NEW time, Applicable(a, op, time),
         op.type = "MOVE_NODE", ApplyMove(a, op)
  PROVE  RowsKeep(a, op)
<1> USE DEF CrdtInv, Applicable
<1> DEFINE n == op.node
           map == node_map[a]
           row == [map[n] EXCEPT !.parent = op.parent, !.pos = op.pos]
<1>0. RootedMap(map)
  OBVIOUS
<1>1. /\ n \in Node /\ n \in Held(map) /\ op.parent \in Node \cup {Root} /\ op.pos \in Pos
      /\ map \in [Node -> Row \cup {None}] /\ node_map \in [Agent -> [Node -> Row \cup {None}]]
  BY DEF Op, Whole, TypeOK, Needs, Held
<1>2. map[n] # None /\ map[n] \in Row /\ row \in Row
  BY <1>1 DEF Held, Row
<1>3. op.parent \in Held(map) \cup {Root}
  BY <1>1 DEF Needs
<1>5. \A m \in Node \ {n} : RowFollows(map[m], LogSet(a) \cup {op}, m)
  BY OtherNode, <1>1 DEF MapsFollowLogs
<1>6. CASE is_ancestor(map, n, op.parent)
  <2>1. node_map' = node_map
    BY <1>2, <1>6 DEF ApplyMove
  <2>2. RowFollows(map[n], LogSet(a) \cup {op}, n)
    BY <1>1, <1>2, RowAfterMove DEF MapsFollowLogs
  <2> QED BY <1>1, <1>5, <2>1, <2>2 DEF RowsKeep
<1>7. CASE ~is_ancestor(map, n, op.parent)
  <2>1. node_map' = [node_map EXCEPT ![a][n].parent = op.parent, ![a][n].pos = op.pos]
    BY <1>2, <1>7 DEF ApplyMove
  <2>2. /\ node_map'[a] = [map EXCEPT ![n] = row]
        /\ node_map' \in [Agent -> [Node -> Row \cup {None}]]
        /\ \A b \in Agent \ {a} : node_map'[b] = node_map[b]
        /\ node_map'[a][n] = row /\ \A m \in Node \ {n} : node_map'[a][m] = map[m]
    BY <1>1, <1>2, <2>1
  <2>3. row.parent = op.parent /\ row.tomb = map[n].tomb /\ row # None
    BY <1>2, NamesDiffer DEF Row
  <2>4. RootedMap(node_map'[a])
    <3>1. RootedMap([map EXCEPT ![n] = row])
      BY <1>0, <1>1, <1>2, <1>3, <1>7, <2>3, MoveKeepsRooted
    <3> QED BY <3>1, <2>2
  <2>5. RowFollows(row, LogSet(a) \cup {op}, n)
    BY <1>1, <1>2, <2>3, RowAfterMove DEF MapsFollowLogs
  <2> QED BY <1>5, <2>2, <2>3, <2>4, <2>5 DEF RowsKeep
<1> QED BY <1>6, <1>7

\* apply_operation, whatever the operation.
LEMMA ApplyKeepsRows ==
  ASSUME CrdtInv, NEW a, NEW op, NEW time, Applicable(a, op, time), apply_operation(a, op, time)
  PROVE  RowsKeep(a, op)
<1>1. op.type \in {"INSERT_NODE", "DELETE_NODE", "MOVE_NODE"}
  BY DEF Applicable, Op
<1> QED BY <1>1, InsertKeepsRows, DeleteKeepsRows, MoveKeepsRows DEF apply_operation

\* What the rest of apply_operation keeps: the log is whole, causal and behind
\* the clock, and node ids stay unique over all logs.
LogsKeep(a, op) ==
  /\ clock' \in [Agent -> Nat] /\ op_log' \in [Agent -> Seq(Op)]
  /\ LogSet(a)' = LogSet(a) \cup {op} /\ \A b \in Agent \ {a} : LogSet(b)' = LogSet(b)
  /\ OpsAreWhole' /\ NodeIdsAreUnique' /\ ClockIsAhead' /\ LogsAreCausal'

\* apply_operation: the log grows by the operation, and stays within what was
\* issued.
LEMMA ApplyKeepsLogs ==
  ASSUME CrdtInv, NEW a, NEW op, NEW time, Applicable(a, op, time), apply_operation(a, op, time)
  PROVE  LogsKeep(a, op)
<1> DEFINE last == Len(op_log[a]) + 1
<1>1. /\ a \in Agent /\ op \in Op /\ time \in Nat /\ clock[a] <= time /\ op.lamport \in Nat
      /\ clock \in [Agent -> Nat] /\ op_log \in [Agent -> Seq(Op)]
      /\ op_log' = [op_log EXCEPT ![a] = Append(@, op)]
      /\ clock' = [clock EXCEPT ![a] = (IF op.lamport > time THEN op.lamport ELSE time) + 1]
  BY DEF CrdtInv, TypeOK, Applicable, apply_operation, Op
<1>2. /\ op_log' \in [Agent -> Seq(Op)]
      /\ LogSet(a)' = LogSet(a) \cup {op}
      /\ \A b \in Agent \ {a} : LogSet(b)' = LogSet(b) /\ op_log'[b] = op_log[b]
      /\ Len(op_log'[a]) = last
      /\ \A i \in 1 .. Len(op_log[a]) : op_log'[a][i] = op_log[a][i]
      /\ op_log'[a][last] = op
  BY <1>1, LogGrows
<1>3. last \in Nat /\ 1 .. last = (1 .. Len(op_log[a])) \cup {last}
  BY <1>1
<1>4. clock' \in [Agent -> Nat] /\ clock'[a] > op.lamport /\ clock'[a] > clock[a]
      /\ \A b \in Agent \ {a} : clock'[b] = clock[b]
  BY <1>1
<1>5. OpsAreWhole'
  BY <1>2 DEF OpsAreWhole, CrdtInv, Applicable
<1>6. NodeIdsAreUnique'
  <2> SUFFICES ASSUME NEW b \in Agent, NEW c \in Agent, NEW n \in Node,
                      NEW p \in Inserted(LogSet(b)', n), NEW q \in Inserted(LogSet(c)', n)
               PROVE  p = q
    BY DEF NodeIdsAreUnique
  <2>1. p \in LogSet(b) \cup {op} /\ q \in LogSet(c) \cup {op}
    BY <1>2 DEF Inserted
  <2>2. /\ p.type = "INSERT_NODE" /\ p.node = n
        /\ q.type = "INSERT_NODE" /\ q.node = n
    BY DEF Inserted
  <2>3. CASE p \in LogSet(b) /\ q \in LogSet(c)
    BY <2>2, <2>3 DEF Inserted, NodeIdsAreUnique, CrdtInv
  <2>4. CASE p = op \/ q = op
    BY <2>1, <2>2, <2>4 DEF Inserted, Applicable
  <2> QED BY <2>1, <2>3, <2>4
<1>7. ClockIsAhead'
  <2> SUFFICES ASSUME NEW b \in Agent, NEW i \in 1 .. Len(op_log'[b])
               PROVE  op_log'[b][i].lamport < clock'[b]
    BY DEF ClockIsAhead
  <2>1. CASE b # a
    BY <2>1, <1>2, <1>4 DEF ClockIsAhead, CrdtInv
  <2>2. CASE b = a /\ i = last
    BY <2>2, <1>1, <1>2, <1>4
  <2>3. CASE b = a /\ i # last
    <3>1. i \in 1 .. Len(op_log[a])
      BY <2>3, <1>2, <1>3
    <3>2. op_log[a][i] \in Op /\ op_log[a][i].lamport < clock[a]
      BY <3>1, <1>1 DEF ClockIsAhead, CrdtInv
    <3>3. op_log[a][i].lamport \in Nat
      BY <3>2 DEF Op
    <3> QED BY <2>3, <3>1, <3>2, <3>3, <1>1, <1>2, <1>4
  <2> QED BY <2>1, <2>2, <2>3
<1>8. LogsAreCausal'
  <2> SUFFICES ASSUME NEW b \in Agent, NEW i \in 1 .. Len(op_log'[b]),
                      NEW n \in Needs(op_log'[b][i])
               PROVE  \E j \in 1 .. i - 1 : Inserts(op_log'[b][j], n)
    BY DEF LogsAreCausal
  <2>1. CASE b # a
    BY <2>1, <1>2 DEF LogsAreCausal, CrdtInv
  <2>2. CASE b = a /\ i = last
    <3>1. n \in Node /\ node_map[a][n] # None
      BY <2>2, <1>2 DEF Applicable, Held
    <3>2. Inserted(LogSet(a), n) # {}
      BY <3>1, <1>1 DEF CrdtInv, MapsFollowLogs, RowFollows
    <3>3. PICK j \in 1 .. Len(op_log[a]) : Inserts(op_log[a][j], n)
      BY <3>2 DEF Inserted, Inserts, LogSet
    <3>4. j \in 1 .. i - 1 /\ op_log'[a][j] = op_log[a][j]
      BY <2>2, <1>2, <1>3
    <3> QED BY <2>2, <3>3, <3>4
  <2>3. CASE b = a /\ i # last
    <3>1. i \in 1 .. Len(op_log[a]) /\ n \in Needs(op_log[a][i])
      BY <2>3, <1>2, <1>3
    <3>2. PICK j \in 1 .. i - 1 : Inserts(op_log[a][j], n)
      BY <3>1, <1>1 DEF LogsAreCausal, CrdtInv
    <3>3. j \in 1 .. Len(op_log[a])
      BY <3>1, <3>2, <1>1
    <3> QED BY <2>3, <3>2, <3>3, <1>2
  <2> QED BY <2>1, <2>2, <2>3
<1> QED BY <1>2, <1>4, <1>5, <1>6, <1>7, <1>8 DEF LogsKeep

\* With what both lemmas say, the invariant's replica part is kept by any call
\* that also accounts for the ids it mints and for what is pending.
LEMMA ApplyKeeps ==
  ASSUME CrdtInv, NEW a, NEW op, NEW time, Applicable(a, op, time), apply_operation(a, op, time),
         counter' \in [Agent -> 0 .. MaxInserts], \A b \in Agent : counter[b] <= counter'[b],
         op.type = "INSERT_NODE" => op.node[2] <= counter'[op.node[1]],
         pending' \in Seq(Agent \X Op), edits' \in 0 .. MaxEdits, syncs' \in 0 .. MaxSyncs,
         PendingIsCausal'
  PROVE  CrdtInv'
<1>1. RowsKeep(a, op) /\ LogsKeep(a, op)
  BY ApplyKeepsRows, ApplyKeepsLogs
<1>2. TypeOK'
  BY <1>1 DEF TypeOK, RowsKeep, LogsKeep
<1>3. MintedByCounter'
  <2> SUFFICES ASSUME NEW b \in Agent, NEW p \in LogSet(b)', p.type = "INSERT_NODE"
               PROVE  p.node[2] <= counter'[p.node[1]]
    BY DEF MintedByCounter
  <2>1. CASE p \in LogSet(b)
    <3>1. p \in Op
      BY <2>1 DEF LogSet, CrdtInv, TypeOK
    <3>2. p.node[1] \in Agent /\ p.node[2] \in Int
      BY <3>1 DEF Op, Node
    <3>3. p.node[2] <= counter[p.node[1]]
      BY <2>1 DEF CrdtInv, MintedByCounter
    <3>4. counter[p.node[1]] \in Int /\ counter'[p.node[1]] \in Int
      BY <3>2 DEF CrdtInv, TypeOK
    <3>5. counter[p.node[1]] <= counter'[p.node[1]]
      BY <3>2
    <3> QED BY <3>2, <3>3, <3>4, <3>5
  <2>2. CASE p \notin LogSet(b)
    BY <2>2, <1>1 DEF LogsKeep
  <2> QED BY <2>1, <2>2
<1>4. MapsFollowLogs'
  <2> SUFFICES ASSUME NEW b \in Agent, NEW n \in Node
               PROVE  RowFollows(node_map'[b][n], LogSet(b)', n)
    BY DEF MapsFollowLogs, RowFollows
  <2>1. CASE b = a
    BY <2>1, <1>1 DEF RowsKeep, LogsKeep
  <2>2. CASE b # a
    <3>1. RowFollows(node_map[b][n], LogSet(b), n)
      BY Zenon DEF MapsFollowLogs, CrdtInv
    <3>2. node_map'[b] = node_map[b] /\ LogSet(b)' = LogSet(b)
      BY <2>2, <1>1 DEF RowsKeep, LogsKeep
    <3> QED BY <3>1, <3>2, Zenon
  <2> QED BY <2>1, <2>2
<1>5. \A b \in Agent : RootedMap(node_map[b])'
  BY <1>1 DEF RowsKeep, CrdtInv
<1> QED BY <1>1, <1>2, <1>3, <1>4, <1>5 DEF CrdtInv, LogsKeep

\* A new operation may be applied where it was created: its node is new, or it
\* is held, and so is the parent it names.
LEMMA InsertApplies ==
  ASSUME CrdtInv, NEW a \in Agent, NEW parent \in Node \cup {Root}, NEW pos \in Pos,
         Insert(a, parent, pos)
  PROVE  \E op \in Op : /\ op.type = "INSERT_NODE" /\ op.node = <<a, counter[a] + 1>>
                        /\ Applicable(a, op, clock[a] + 1) /\ apply_operation(a, op, clock[a] + 1)
<1>0. PICK op : op = [type |-> "INSERT_NODE", node |-> NodeId(a, counter[a] + 1),
                      parent |-> parent, pos |-> pos, lamport |-> clock[a] + 1, agent |-> a]
  OBVIOUS
<1>1. /\ counter \in [Agent -> 0 .. MaxInserts] /\ clock[a] \in Nat /\ counter[a] < MaxInserts
      /\ Present(node_map[a], parent) /\ apply_operation(a, op, clock[a] + 1)
  BY <1>0 DEF CrdtInv, TypeOK, Insert
<1>2. op.node = <<a, counter[a] + 1>> /\ op.node \in Node /\ op.type = "INSERT_NODE"
  BY <1>0, <1>1, CrdtAssumption DEF NodeId, Node
<1>3. op \in Op /\ Whole(op)
  BY <1>0, <1>1, <1>2 DEF Op, Whole
<1>4. Needs(op) \subseteq Held(node_map[a])
  BY <1>0, <1>1, NamesDiffer DEF Needs, Present, Held
<1>5. ASSUME NEW b \in Agent, NEW p \in Inserted(LogSet(b), op.node)
      PROVE  FALSE
  <2>1. p.node[2] <= counter[p.node[1]] /\ p.node = op.node
    BY DEF Inserted, CrdtInv, MintedByCounter
  <2> QED BY <2>1, <1>1, <1>2
<1> QED BY <1>1, <1>2, <1>3, <1>4, <1>5 DEF Applicable

\* A local delete applies an operation of its own at the replica's next time.
LEMMA DeleteApplies ==
  ASSUME CrdtInv, NEW a \in Agent, NEW n \in Node, Delete(a, n)
  PROVE  \E op \in Op : /\ op.type = "DELETE_NODE"
                        /\ Applicable(a, op, clock[a]) /\ apply_operation(a, op, clock[a])
<1>0. PICK op : op = [type |-> "DELETE_NODE", node |-> n, parent |-> None, pos |-> None,
                      lamport |-> clock[a], agent |-> a]
  OBVIOUS
<1>1. clock[a] \in Nat /\ node_map[a][n] # None
  BY DEF CrdtInv, TypeOK, Delete
<1>2. op \in Op /\ op.type = "DELETE_NODE" /\ Whole(op) /\ Needs(op) \subseteq Held(node_map[a])
  BY <1>0, <1>1, NamesDiffer DEF Op, Whole, Needs, Held
<1>3. apply_operation(a, op, clock[a])
  BY <1>0 DEF Delete
<1> QED BY <1>1, <1>2, <1>3 DEF Applicable

\* A local move applies an operation of its own at the replica's next time.
LEMMA MoveApplies ==
  ASSUME CrdtInv, NEW a \in Agent, NEW n \in Node, NEW parent \in Node \cup {Root}, NEW pos \in Pos,
         Move(a, n, parent, pos)
  PROVE  \E op \in Op : /\ op.type = "MOVE_NODE"
                        /\ Applicable(a, op, clock[a]) /\ apply_operation(a, op, clock[a])
<1>0. PICK op : op = [type |-> "MOVE_NODE", node |-> n, parent |-> parent, pos |-> pos,
                      lamport |-> clock[a], agent |-> a]
  OBVIOUS
<1>1. clock[a] \in Nat /\ node_map[a][n] # None /\ Present(node_map[a], parent)
  BY DEF CrdtInv, TypeOK, Move
<1>2. op \in Op /\ op.type = "MOVE_NODE" /\ Whole(op) /\ Needs(op) \subseteq Held(node_map[a])
  BY <1>0, <1>1, NamesDiffer DEF Op, Whole, Needs, Held, Present
<1>3. apply_operation(a, op, clock[a])
  BY <1>0 DEF Move
<1> QED BY <1>1, <1>2, <1>3 DEF Applicable

\* A local insert keeps the invariant.
LEMMA InsertKeeps ==
  ASSUME CrdtInv, NEW a \in Agent, NEW parent \in Node \cup {Root}, NEW pos \in Pos,
         Insert(a, parent, pos)
  PROVE  CrdtInv'
<1>1. PICK op \in Op : /\ op.type = "INSERT_NODE" /\ op.node = <<a, counter[a] + 1>>
                       /\ Applicable(a, op, clock[a] + 1) /\ apply_operation(a, op, clock[a] + 1)
  BY InsertApplies
<1>2. /\ counter \in [Agent -> 0 .. MaxInserts] /\ counter[a] < MaxInserts
      /\ counter' = [counter EXCEPT ![a] = @ + 1] /\ pending = <<>> /\ pending' = pending
      /\ edits' \in 0 .. MaxEdits /\ syncs' \in 0 .. MaxSyncs
  BY CrdtAssumption DEF CrdtInv, TypeOK, Insert, Edit
<1>3. /\ counter' \in [Agent -> 0 .. MaxInserts] /\ \A b \in Agent : counter[b] <= counter'[b]
      /\ op.node[2] <= counter'[op.node[1]]
  BY <1>1, <1>2, CrdtAssumption
<1>4. pending' \in Seq(Agent \X Op) /\ PendingIsCausal'
  BY <1>2 DEF PendingIsCausal
<1> QED BY <1>1, <1>2, <1>3, <1>4, ApplyKeeps

\* A deletion or a move mints nothing.
LEMMA EditKeeps ==
  ASSUME CrdtInv, NEW a \in Agent, NEW op \in Op, Edit, UNCHANGED counter,
         op.type # "INSERT_NODE", Applicable(a, op, clock[a]), apply_operation(a, op, clock[a])
  PROVE  CrdtInv'
<1>1. /\ counter \in [Agent -> 0 .. MaxInserts] /\ clock[a] \in Nat
      /\ pending = <<>> /\ pending' = pending
      /\ edits' \in 0 .. MaxEdits /\ syncs' \in 0 .. MaxSyncs
  BY CrdtAssumption DEF CrdtInv, TypeOK, Edit
<1>2. pending' \in Seq(Agent \X Op) /\ PendingIsCausal'
  BY <1>1 DEF PendingIsCausal
<1>3. counter' \in [Agent -> 0 .. MaxInserts] /\ \A b \in Agent : counter[b] <= counter'[b]
  BY <1>1
<1> QED BY <1>1, <1>2, <1>3, ApplyKeeps

\* A local delete keeps the invariant.
LEMMA DeleteKeeps ==
  ASSUME CrdtInv, NEW a \in Agent, NEW n \in Node, Delete(a, n)
  PROVE  CrdtInv'
<1>1. Edit /\ UNCHANGED counter
  BY DEF Delete
<1> QED BY <1>1, DeleteApplies, EditKeeps

\* A local move keeps the invariant.
LEMMA MoveKeeps ==
  ASSUME CrdtInv, NEW a \in Agent, NEW n \in Node, NEW parent \in Node \cup {Root}, NEW pos \in Pos,
         Move(a, n, parent, pos)
  PROVE  CrdtInv'
<1>1. Edit /\ UNCHANGED counter
  BY DEF Move
<1> QED BY <1>1, MoveApplies, EditKeeps

\* A step that leaves the replicas alone keeps what is said of them.
LEMMA SameReplicas ==
  ASSUME CrdtInv, UNCHANGED <<clock, counter, node_map, op_log>>
  PROVE  /\ OpsAreWhole' /\ MintedByCounter' /\ NodeIdsAreUnique' /\ ClockIsAhead'
         /\ LogsAreCausal' /\ MapsFollowLogs' /\ \A c \in Agent : RootedMap(node_map[c])'
<1>1. \A c \in Agent : LogSet(c)' = LogSet(c)
  BY DEF LogSet
<1>2. OpsAreWhole' /\ MintedByCounter'
  BY <1>1 DEF CrdtInv, OpsAreWhole, MintedByCounter
<1>3. NodeIdsAreUnique'
  BY <1>1 DEF CrdtInv, NodeIdsAreUnique
<1>4. ClockIsAhead' /\ LogsAreCausal'
  BY DEF CrdtInv, ClockIsAhead, LogsAreCausal
<1>5. MapsFollowLogs'
  BY <1>1 DEF CrdtInv, MapsFollowLogs
<1>6. \A c \in Agent : RootedMap(node_map[c])'
  BY DEF CrdtInv
<1> QED BY <1>2, <1>3, <1>4, <1>5, <1>6

\* The operations of two logs, addressed to two replicas, one log after the other.
LEMMA TwoLogs ==
  ASSUME NEW s \in Seq(Op), NEW t \in Seq(Op), NEW a \in Agent, NEW b \in Agent,
         NEW both, both = [i \in 1 .. Len(s) |-> <<b, s[i]>>] \o [i \in 1 .. Len(t) |-> <<a, t[i]>>]
  PROVE  /\ both \in Seq(Agent \X Op) /\ Len(both) = Len(s) + Len(t)
         /\ \A i \in 1 .. Len(s) : both[i] = <<b, s[i]>>
         /\ \A i \in 1 .. Len(t) : both[Len(s) + i] = <<a, t[i]>>
<1> DEFINE first == [i \in 1 .. Len(s) |-> <<b, s[i]>>]
           second == [i \in 1 .. Len(t) |-> <<a, t[i]>>]
<1>1. /\ first \in Seq(Agent \X Op) /\ Len(first) = Len(s)
      /\ second \in Seq(Agent \X Op) /\ Len(second) = Len(t)
      /\ \A i \in 1 .. Len(s) : first[i] = <<b, s[i]>>
      /\ \A i \in 1 .. Len(t) : second[i] = <<a, t[i]>>
      /\ Len(s) \in Nat /\ Len(t) \in Nat
  OBVIOUS
<1>2. both = first \o second
  OBVIOUS
<1> HIDE DEF first, second
<1>3. /\ both \in Seq(Agent \X Op) /\ Len(both) = Len(s) + Len(t)
      /\ \A i \in 1 .. Len(both) : both[i] = IF i <= Len(s) THEN first[i] ELSE second[i - Len(s)]
  <2>1. first \in Seq(Agent \X Op) /\ second \in Seq(Agent \X Op)
    BY <1>1
  <2>2. /\ first \o second \in Seq(Agent \X Op)
        /\ Len(first \o second) = Len(first) + Len(second)
        /\ \A i \in 1 .. Len(first) + Len(second) :
             (first \o second)[i] = IF i <= Len(first) THEN first[i] ELSE second[i - Len(first)]
    BY <2>1, ConcatProperties, Zenon
  <2> QED BY <1>1, <1>2, <2>2
<1>4. ASSUME NEW i \in 1 .. Len(t)
      PROVE  both[Len(s) + i] = <<a, t[i]>>
  <2>1. Len(s) + i \in 1 .. Len(both) /\ ~(Len(s) + i <= Len(s)) /\ (Len(s) + i) - Len(s) = i
    BY <1>1, <1>3
  <2> QED BY <1>1, <1>3, <2>1
<1>5. ASSUME NEW i \in 1 .. Len(s)
      PROVE  both[i] = <<b, s[i]>>
  <2>1. i \in 1 .. Len(both) /\ i <= Len(s)
    BY <1>1, <1>3
  <2> QED BY <1>1, <1>3, <2>1
<1> QED BY <1>3, <1>4, <1>5

\* Two logs one after the other are causal because each is.
LEMMA SyncKeeps ==
  ASSUME CrdtInv, NEW a \in Agent, NEW b \in Agent, sync_peers(a, b)
  PROVE  CrdtInv'
<1>1. PICK s \in Seq(Op), t \in Seq(Op) : s = op_log[a] /\ t = op_log[b]
  BY DEF CrdtInv, TypeOK
<1>a. PICK both :
        both = [i \in 1 .. Len(s) |-> <<b, s[i]>>] \o [i \in 1 .. Len(t) |-> <<a, t[i]>>]
  OBVIOUS
<1>2. /\ pending' = both
      /\ UNCHANGED <<clock, counter, node_map, op_log, findings, edits>>
      /\ syncs' \in 0 .. MaxSyncs
  BY <1>1, <1>a, CrdtAssumption DEF CrdtInv, TypeOK, sync_peers, replicas
<1>3. /\ pending' \in Seq(Agent \X Op) /\ Len(pending') = Len(s) + Len(t)
      /\ \A i \in 1 .. Len(s) : pending'[i] = <<b, s[i]>>
      /\ \A i \in 1 .. Len(t) : pending'[Len(s) + i] = <<a, t[i]>>
  BY <1>2, <1>a, TwoLogs
<1>4. /\ \A i \in 1 .. Len(s) : s[i] \in LogSet(a)' /\ \A n \in Needs(s[i]) :
           \E j \in 1 .. i - 1 : Inserts(s[j], n)
      /\ \A i \in 1 .. Len(t) : t[i] \in LogSet(b)' /\ \A n \in Needs(t[i]) :
           \E j \in 1 .. i - 1 : Inserts(t[j], n)
  BY <1>1, <1>2 DEF CrdtInv, LogsAreCausal, LogSet
<1>5. PendingIsCausal'
  <2> SUFFICES ASSUME NEW i \in 1 .. Len(pending')
               PROVE  /\ \E c \in Agent : pending'[i][2] \in LogSet(c)'
                      /\ \A n \in Needs(pending'[i][2]) : \E j \in 1 .. i - 1 :
                           pending'[j][1] = pending'[i][1] /\ Inserts(pending'[j][2], n)
    BY DEF PendingIsCausal
  <2>1. CASE i \in 1 .. Len(s)
    <3>1. pending'[i] = <<b, s[i]>>
      BY <2>1, <1>3
    <3>2. ASSUME NEW n \in Needs(s[i])
          PROVE  \E j \in 1 .. i - 1 : pending'[j][1] = b /\ Inserts(pending'[j][2], n)
      <4>1. PICK j \in 1 .. i - 1 : Inserts(s[j], n)
        BY <2>1, <1>4
      <4>2. j \in 1 .. Len(s)
        BY <2>1
      <4>3. pending'[j] = <<b, s[j]>>
        BY <4>2, <1>3
      <4> QED BY <4>1, <4>3
    <3> QED BY <2>1, <3>1, <3>2, <1>4
  <2>2. CASE i \notin 1 .. Len(s)
    <3>1. PICK k \in 1 .. Len(t) : i = Len(s) + k
      <4>1. i - Len(s) \in 1 .. Len(t) /\ i = Len(s) + (i - Len(s))
        BY <2>2, <1>3
      <4> QED BY <4>1
    <3>2. pending'[i] = <<a, t[k]>>
      BY <3>1, <1>3
    <3>3. ASSUME NEW n \in Needs(t[k])
          PROVE  \E j \in 1 .. i - 1 : pending'[j][1] = a /\ Inserts(pending'[j][2], n)
      <4>1. PICK j \in 1 .. k - 1 : Inserts(t[j], n)
        BY <1>4
      <4>2. j \in 1 .. Len(t) /\ Len(s) + j \in 1 .. i - 1
        BY <3>1
      <4>3. pending'[Len(s) + j] = <<a, t[j]>>
        BY <4>2, <1>3
      <4> QED BY <4>1, <4>2, <4>3
    <3> QED BY <3>2, <3>3, <1>4
  <2> QED BY <2>1, <2>2
<1>6. TypeOK'
  BY <1>2, <1>3 DEF CrdtInv, TypeOK
<1> QED BY <1>2, <1>5, <1>6, SameReplicas DEF CrdtInv

\* A replayed operation finds what it needs, and names what its author named.
LEMMA ReplayApplies ==
  ASSUME CrdtInv, Replay, NEW a, NEW op, Head(pending) = <<a, op>>
  PROVE  Applicable(a, op, clock[a]) /\ apply_operation(a, op, clock[a])
<1>1. /\ pending \in Seq(Agent \X Op) /\ pending # <<>> /\ Head(pending) = pending[1]
      /\ 1 \in 1 .. Len(pending) /\ a \in Agent /\ op \in Op
      /\ clock[a] \in Nat /\ apply_operation(a, op, clock[a])
  BY DEF CrdtInv, TypeOK, Replay
<1>2. PICK b \in Agent : op \in LogSet(b)
  BY <1>1 DEF CrdtInv, PendingIsCausal
<1>3. Needs(op) \subseteq Held(node_map[a])
  <2>1. Needs(op) \subseteq Node
    BY <1>1 DEF Needs, Op
  <2>2. pending[1][1] = a /\ pending[1][2] = op /\ 1 .. 1 - 1 = {}
    BY <1>1
  <2>3. \A n \in Needs(op) : node_map[a][n] # None
    BY <1>1, <2>2 DEF CrdtInv, PendingIsCausal
  <2> QED BY <2>1, <2>3 DEF Held
<1>4. op.type = "INSERT_NODE" => \A c \in Agent : \A p \in Inserted(LogSet(c), op.node) : p = op
  <2>1. op.node \in Node /\ (op.type = "INSERT_NODE" => op \in Inserted(LogSet(b), op.node))
    BY <1>1, <1>2 DEF Op, Inserted
  <2> QED BY <2>1 DEF CrdtInv, NodeIdsAreUnique
<1>5. Whole(op)
  BY <1>2 DEF CrdtInv, OpsAreWhole
<1> QED BY <1>1, <1>3, <1>4, <1>5 DEF Applicable

\* One turn of a synchronisation, a peer's operation applied, keeps the invariant.
LEMMA ReplayKeeps ==
  ASSUME CrdtInv, Replay
  PROVE  CrdtInv'
<1>0. PICK a \in Agent, op \in Op : Head(pending) = <<a, op>>
  BY DEF CrdtInv, TypeOK, Replay
<1>1. /\ pending \in Seq(Agent \X Op) /\ pending # <<>> /\ Head(pending) = pending[1]
      /\ pending[1] = <<a, op>> /\ 1 \in 1 .. Len(pending)
      /\ pending' = Tail(pending) /\ UNCHANGED <<counter, edits, syncs>>
      /\ counter \in [Agent -> 0 .. MaxInserts]
      /\ edits \in 0 .. MaxEdits /\ syncs \in 0 .. MaxSyncs
  BY <1>0 DEF CrdtInv, TypeOK, Replay
<1>2. Applicable(a, op, clock[a]) /\ apply_operation(a, op, clock[a])
  BY <1>0, ReplayApplies
<1>3. /\ pending' \in Seq(Agent \X Op) /\ Len(pending') = Len(pending) - 1
      /\ \A i \in 1 .. Len(pending') : pending'[i] = pending[i + 1] /\ i + 1 \in 1 .. Len(pending)
  BY <1>1
<1>4. PICK b \in Agent : op \in LogSet(b)
  BY <1>1 DEF CrdtInv, PendingIsCausal
<1>5. op.type = "INSERT_NODE" => op.node[2] <= counter'[op.node[1]]
  BY <1>1, <1>4 DEF CrdtInv, MintedByCounter
<1>6. RowsKeep(a, op) /\ LogsKeep(a, op)
  BY <1>2, ApplyKeepsRows, ApplyKeepsLogs
<1>7. PendingIsCausal'
  <2> SUFFICES ASSUME NEW i \in 1 .. Len(pending')
               PROVE  /\ \E c \in Agent : pending'[i][2] \in LogSet(c)'
                      /\ \A n \in Needs(pending'[i][2]) :
                           \/ node_map'[pending'[i][1]][n] # None
                           \/ \E j \in 1 .. i - 1 :
                                pending'[j][1] = pending'[i][1] /\ Inserts(pending'[j][2], n)
    BY DEF PendingIsCausal
  <2> DEFINE who == pending'[i][1]
             what == pending'[i][2]
  <2>1. pending'[i] = pending[i + 1] /\ i + 1 \in 1 .. Len(pending) /\ i \in Nat
    BY <1>3
  <2>2. who \in Agent /\ what \in Op
    BY <2>1, <1>1
  <2>3. PICK c \in Agent : what \in LogSet(c)
    BY <2>1 DEF CrdtInv, PendingIsCausal
  <2>4. what \in LogSet(c)'
    <3>1. CASE c = a
      BY <3>1, <2>3, <1>6 DEF LogsKeep
    <3>2. CASE c # a
      BY <3>2, <2>3, <1>6 DEF LogsKeep
    <3> QED BY <3>1, <3>2
  <2>5. ASSUME NEW n \in Needs(what), node_map'[who][n] = None
        PROVE  \E j \in 1 .. i - 1 : pending'[j][1] = who /\ Inserts(pending'[j][2], n)
    <3>1. n \in Node
      BY <2>2 DEF Needs, Op
    <3>2. node_map[who][n] = None
      BY <2>2, <2>5, <3>1, <1>6 DEF RowsKeep
    <3>3. PICK j \in 1 .. i : pending[j][1] = who /\ Inserts(pending[j][2], n)
      <4>1. (i + 1) - 1 = i
        BY <2>1
      <4> QED BY <2>1, <3>2, <4>1 DEF CrdtInv, PendingIsCausal
    <3>4. j # 1 /\ j \in Int
      BY <2>5, <3>3, <1>1, <1>6 DEF RowsKeep, Inserts
    <3>5. j - 1 \in 1 .. i - 1 /\ j - 1 \in 1 .. Len(pending') /\ (j - 1) + 1 = j
      BY <2>1, <3>4
    <3>6. pending'[j - 1] = pending[j]
      BY <3>5, <1>3
    <3> QED BY <3>3, <3>5, <3>6
  <2> QED BY <2>4, <2>5
<1>8. \A c \in Agent : counter[c] <= counter'[c]
  BY <1>1
<1> QED BY <1>1, <1>2, <1>3, <1>5, <1>7, <1>8, ApplyKeeps

-----------------------------------------------------------------------------
\* Empty replicas satisfy the invariant.
LEMMA CrdtInitSound == Init => CrdtInv
<1> SUFFICES ASSUME Init PROVE CrdtInv
  OBVIOUS
<1>1. \A a \in Agent : op_log[a] = <<>> /\ LogSet(a) = {} /\ \A n \in Node : node_map[a][n] = None
  BY DEF Init, LogSet
<1>2. TypeOK
  BY CrdtAssumption DEF Init, TypeOK
<1>3. OpsAreWhole /\ MintedByCounter /\ NodeIdsAreUnique
  BY <1>1 DEF OpsAreWhole, MintedByCounter, NodeIdsAreUnique, Inserted
<1>4. ClockIsAhead /\ LogsAreCausal /\ PendingIsCausal
  BY <1>1 DEF Init, ClockIsAhead, LogsAreCausal, PendingIsCausal
<1>5. MapsFollowLogs
  BY <1>1 DEF MapsFollowLogs, RowFollows, Inserted
<1>6. \A a \in Agent : RootedMap(node_map[a])
  BY <1>1 DEF RootedMap, Held
<1> QED BY <1>2, <1>3, <1>4, <1>5, <1>6 DEF CrdtInv

\* CrdtInv is inductive: every edit, every sync and every replayed operation
\* keeps it.
THEOREM StepKeepsReplicas == CrdtInv /\ [Next]_vars => CrdtInv'
<1> SUFFICES ASSUME CrdtInv, [Next]_vars
             PROVE  CrdtInv'
  OBVIOUS
<1>1. CASE UNCHANGED vars
  <2>1. UNCHANGED <<clock, counter, node_map, op_log, findings, pending, edits, syncs>>
    BY <1>1 DEF vars, replicas
  <2>2. TypeOK'
    BY <2>1 DEF CrdtInv, TypeOK
  <2>3. PendingIsCausal'
    <3>1. \A a : LogSet(a)' = LogSet(a)
      BY <2>1, Zenon DEF LogSet
    <3>2. PendingIsCausal
      BY DEF CrdtInv
    <3> QED BY <2>1, <3>1, <3>2, Zenon DEF PendingIsCausal
  <2> QED BY <2>1, <2>2, <2>3, SameReplicas DEF CrdtInv
<1>2. CASE Next
  BY <1>2, InsertKeeps, DeleteKeeps, MoveKeeps, SyncKeeps, ReplayKeeps DEF Next
<1> QED BY <1>1, <1>2

\* The invariant the proofs are about.
LEMMA CrdtInvariant == Spec => []CrdtInv
BY CrdtInitSound, StepKeepsReplicas, PTL DEF Spec

\* Under any edits and syncs every replica is a tree of nodes that were named
\* once, its clock ahead of every timestamp it has seen: moves that could close
\* a cycle are refused by is_ancestor, whose loop bound never cuts a walk short.
THEOREM Trees == Spec => []ReplicasAreTrees
<1>1. CrdtInv => ReplicasAreTrees
  BY DEF CrdtInv, ReplicasAreTrees, EveryNodeIsRooted, RootedMap
<1> QED BY <1>1, CrdtInvariant, PTL

\* Replicas with the same operations agree on nodes, tombstones and on the
\* place of every node that no operation moved, in whatever order and however
\* often the logs were replayed.
THEOREM Convergence == Spec => []ConvergesUpToMoves
<1>1. CrdtInv => ConvergesUpToMoves
  <2> SUFFICES ASSUME CrdtInv, NEW a \in Agent, NEW b \in Agent, LogSet(a) = LogSet(b),
                      NEW n \in Node
               PROVE  /\ (node_map[a][n] = None) <=> (node_map[b][n] = None)
                      /\ node_map[a][n] # None =>
                           /\ node_map[a][n].tomb = node_map[b][n].tomb
                           /\ ~Moved(LogSet(a), n) => node_map[a][n] = node_map[b][n]
    BY DEF ConvergesUpToMoves
  <2>1. RowFollows(node_map[a][n], LogSet(a), n) /\ RowFollows(node_map[b][n], LogSet(a), n)
    BY DEF CrdtInv, MapsFollowLogs
  <2>2. (node_map[a][n] = None) <=> (node_map[b][n] = None)
    BY <2>1 DEF RowFollows
  <2>3. ASSUME node_map[a][n] # None
        PROVE  /\ node_map[a][n].tomb = node_map[b][n].tomb
               /\ ~Moved(LogSet(a), n) => node_map[a][n] = node_map[b][n]
    <3>1. node_map[a][n] \in Row /\ node_map[b][n] \in Row /\ node_map[b][n] # None
      BY <2>2, <2>3 DEF CrdtInv, TypeOK
    <3>2. node_map[a][n].tomb \in BOOLEAN /\ node_map[b][n].tomb \in BOOLEAN
      BY <3>1 DEF Row
    <3>3. node_map[a][n].tomb <=> node_map[b][n].tomb
      BY <2>1, <2>3, <3>1, Zenon DEF RowFollows
    <3>4. node_map[a][n].tomb = node_map[b][n].tomb
      BY <3>2, <3>3
    <3>5. ASSUME ~Moved(LogSet(a), n)
          PROVE  node_map[a][n] = node_map[b][n]
      <4>1. PICK op \in Inserted(LogSet(a), n) : TRUE
        BY <2>1, <2>3 DEF RowFollows
      <4>2. /\ node_map[a][n].parent = op.parent /\ node_map[a][n].pos = op.pos
            /\ node_map[b][n].parent = op.parent /\ node_map[b][n].pos = op.pos
        BY <2>1, <2>3, <3>1, <3>5, <4>1, Zenon DEF RowFollows
      <4> QED BY <3>1, <3>4, <4>2 DEF Row
    <3> QED BY <3>4, <3>5
  <2> QED BY <2>2, <2>3
<1> QED BY <1>1, CrdtInvariant, PTL

\* No step brings a deleted node back or loses a node: RowsKeep says so of
\* every operation, replayed or new.
THEOREM Tombstones == Spec => TombstonesAreForever
<1> DEFINE Kept == \A a \in Agent : \A n \in Node : node_map[a][n] # None =>
                     node_map'[a][n] # None /\ (node_map[a][n].tomb => node_map'[a][n].tomb)
<1>1. ASSUME CrdtInv, NEW a, NEW op, NEW time, Applicable(a, op, time), apply_operation(a, op, time)
      PROVE  Kept
  BY <1>1, ApplyKeepsRows DEF RowsKeep
<1>2. ASSUME CrdtInv, Next PROVE Kept
  <2>1. CASE \E a, b \in Agent : sync_peers(a, b)
    <3>1. UNCHANGED node_map
      BY <2>1 DEF sync_peers, replicas
    <3> QED BY <3>1
  <2>2. CASE Replay
    <3>1. PICK a \in Agent, op \in Op : Head(pending) = <<a, op>>
      BY <1>2, <2>2 DEF CrdtInv, TypeOK, Replay
    <3>2. PICK time : time = clock[a]
      OBVIOUS
    <3> QED BY <1>1, <1>2, <2>2, <3>1, <3>2, ReplayApplies
  <2>3. ASSUME NEW a \in Agent, NEW parent \in Node \cup {Root}, NEW pos \in Pos,
               Insert(a, parent, pos)
        PROVE  Kept
    BY <1>1, <1>2, <2>3, InsertApplies
  <2>4. ASSUME NEW a \in Agent, NEW n \in Node, Delete(a, n)
        PROVE  Kept
    BY <1>1, <1>2, <2>4, DeleteApplies
  <2>5. ASSUME NEW a \in Agent, NEW n \in Node, NEW parent \in Node \cup {Root}, NEW pos \in Pos,
               Move(a, n, parent, pos)
        PROVE  Kept
    BY <1>1, <1>2, <2>5, MoveApplies
  <2> QED BY <1>2, <2>1, <2>2, <2>3, <2>4, <2>5 DEF Next
<1>3. CrdtInv /\ [Next]_vars => [Kept]_vars
  BY <1>2
<1> QED BY <1>3, CrdtInvariant, PTL DEF Spec, TombstonesAreForever
=============================================================================
