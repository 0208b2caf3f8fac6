------------------------------ MODULE AstCrdt ------------------------------
(***************************************************************************)
(* examples/ast-crdt-collaborative-editor/ast_crdt.py: a replicated syntax *)
(* tree edited by several agents.  An agent applies its own operations at  *)
(* once; sync_peers replays two replicas' whole logs into each other, in   *)
(* log order, one apply_operation at a time.  sync_peers runs to its end   *)
(* before anything else happens: the operations it still has to apply are  *)
(* in pending, and no edit or other sync starts before they are applied.   *)
(***************************************************************************)
EXTENDS Integers, Sequences, FiniteSets

CONSTANTS
  Agent,      \* agents, each with a replica
  Pos,        \* fractional sibling positions
  Root,       \* the node id "root", present in every replica
  None,       \* the empty parent id, and a missing node
  MaxInserts, \* bound on the nodes an agent mints
  MaxEdits,   \* bound on the operations the agents create
  MaxSyncs    \* bound on the syncs

ASSUME CrdtAssumption ==
  /\ MaxInserts \in Nat /\ MaxEdits \in Nat /\ MaxSyncs \in Nat
  /\ Root # None
  /\ Root \notin Agent \X Nat /\ None \notin Agent \X Nat
  /\ IsFiniteSet(Agent)

VARIABLES
  clock,      \* ASTTreeCRDT.clock of each replica
  counter,    \* ASTTreeCRDT.counter
  node_map,   \* ASTTreeCRDT.node_map, None for an id it does not hold
  op_log,     \* ASTTreeCRDT.op_log
  findings,   \* ASTTreeCRDT.findings, as the set of <<rule, target>> reported
  pending,    \* what a sync in progress still applies: <<replica, operation>>
  edits,      \* operations created so far
  syncs       \* syncs started so far

replicas == <<clock, counter, node_map, op_log, findings>>
vars == <<replicas, pending, edits, syncs>>

\* NodeId: the agent and its counter.  The Lamport value the string also holds
\* adds nothing to its uniqueness.
NodeId(a, n) == <<a, n>>

Node == Agent \X (1 .. MaxInserts)

\* CRDTNode: a replica's row of a node.
Row == [parent : Node \cup {Root}, pos : Pos, tomb : BOOLEAN]

ASSUME MissingAssumption == None \notin Row

Op ==
  [type : {"INSERT_NODE", "DELETE_NODE", "MOVE_NODE"}, node : Node,
   parent : Node \cup {Root, None}, pos : Pos \cup {None},
   lamport : Nat, agent : Agent]

Init ==
  /\ clock = [a \in Agent |-> 0]
  /\ counter = [a \in Agent |-> 0]
  /\ node_map = [a \in Agent |-> [n \in Node |-> None]]
  /\ op_log = [a \in Agent |-> <<>>]
  /\ findings = [a \in Agent |-> {}]
  /\ pending = <<>>
  /\ edits = 0
  /\ syncs = 0

Present(map, n) == n = Root \/ (n \in Node /\ map[n] # None)

\* _next_parent
NextParent(map, n) == IF n \in Node /\ map[n] # None THEN map[n].parent ELSE None

\* The nodes of a replica's node_map, the root aside.
Held(map) == {n \in Node : map[n] # None}

\* Mutant of is_ancestor: looks at the destination and its parent only.
is_ancestor_shallow(map, ancestor, target) ==
  ancestor \in {target, NextParent(map, target)}

\* The loop: where the walk up from target stands after k steps.  It stops at
\* the ancestor, where there is no parent, and after len(node_map) + 2 steps.
is_ancestor(map, ancestor, target) ==
  LET limit == Cardinality(Held(map)) + 3
      curr[k \in 0 .. limit] ==
        IF k = 0 THEN target
        ELSE LET prev == curr[k - 1]
             IN IF prev \in {None, ancestor} THEN prev ELSE NextParent(map, prev)
  IN curr[limit] = ancestor

\* Mutant of ApplyInsert: the node is written again when it is already there.
ApplyInsertOver(a, op) ==
  LET held == Present(node_map[a], op.parent)
  IN /\ node_map' = [node_map EXCEPT ![a][op.node] =
            [parent |-> IF held THEN op.parent ELSE Root, pos |-> op.pos, tomb |-> FALSE]]
     /\ findings' = [findings EXCEPT ![a] =
            IF held THEN @ ELSE @ \cup {<<"CRDT002", op.parent>>}]

\* Under a parent the replica does not hold, the node hangs under the root.
ApplyInsert(a, op) ==
  LET held == Present(node_map[a], op.parent)
  IN IF node_map[a][op.node] # None
       THEN UNCHANGED <<node_map, findings>>
       ELSE /\ node_map' = [node_map EXCEPT ![a][op.node] =
                 [parent |-> IF held THEN op.parent ELSE Root, pos |-> op.pos, tomb |-> FALSE]]
            /\ findings' = [findings EXCEPT ![a] =
                 IF held THEN @ ELSE @ \cup {<<"CRDT002", op.parent>>}]

\* Mutant of ApplyDelete: the node is dropped instead of marked.
ApplyDeleteForgets(a, op) ==
  /\ node_map' = [node_map EXCEPT ![a][op.node] = None]
  /\ UNCHANGED findings

ApplyDelete(a, op) ==
  /\ IF node_map[a][op.node] = None
       THEN UNCHANGED node_map
       ELSE node_map' = [node_map EXCEPT ![a][op.node].tomb = TRUE]
  /\ UNCHANGED findings

\* A node is never moved under its own descendant; the destination need not exist.
ApplyMove(a, op) ==
  IF node_map[a][op.node] = None
    THEN UNCHANGED <<node_map, findings>>
    ELSE IF is_ancestor(node_map[a], op.node, op.parent)
      THEN /\ findings' = [findings EXCEPT ![a] = @ \cup {<<"CRDT001", op.node>>}]
           /\ UNCHANGED node_map
      ELSE /\ node_map' = [node_map EXCEPT ![a][op.node].parent = op.parent,
                                           ![a][op.node].pos = op.pos]
           /\ UNCHANGED findings

\* time is the replica's clock when apply_operation is entered.
apply_operation(a, op, time) ==
  /\ clock' = [clock EXCEPT ![a] = (IF op.lamport > time THEN op.lamport ELSE time) + 1]
  /\ op_log' = [op_log EXCEPT ![a] = Append(@, op)]
  /\ CASE op.type = "INSERT_NODE" -> ApplyInsert(a, op)
       [] op.type = "DELETE_NODE" -> ApplyDelete(a, op)
       [] op.type = "MOVE_NODE" -> ApplyMove(a, op)

\* An agent creates an operation when no sync is running.
Edit == pending = <<>> /\ edits < MaxEdits /\ edits' = edits + 1 /\ UNCHANGED <<pending, syncs>>

\* next_node_id, create_insert_op and apply_operation.
Insert(a, parent, pos) ==
  /\ Edit /\ counter[a] < MaxInserts
  /\ Present(node_map[a], parent)
  /\ counter' = [counter EXCEPT ![a] = @ + 1]
  /\ apply_operation(a, [type |-> "INSERT_NODE", node |-> NodeId(a, counter[a] + 1),
                         parent |-> parent, pos |-> pos, lamport |-> clock[a] + 1,
                         agent |-> a], clock[a] + 1)

\* create_delete_op and apply_operation.
Delete(a, n) ==
  /\ Edit /\ node_map[a][n] # None
  /\ apply_operation(a, [type |-> "DELETE_NODE", node |-> n, parent |-> None,
                         pos |-> None, lamport |-> clock[a], agent |-> a], clock[a])
  /\ UNCHANGED counter

\* create_move_op and apply_operation.
Move(a, n, parent, pos) ==
  /\ Edit /\ node_map[a][n] # None /\ Present(node_map[a], parent)
  /\ apply_operation(a, [type |-> "MOVE_NODE", node |-> n, parent |-> parent, pos |-> pos,
                         lamport |-> clock[a], agent |-> a], clock[a])
  /\ UNCHANGED counter

\* sync_peers takes both logs as they are when it starts.
sync_peers(a, b) ==
  /\ pending = <<>> /\ a # b
  /\ syncs < MaxSyncs /\ syncs' = syncs + 1
  /\ pending' = [i \in 1 .. Len(op_log[a]) |-> <<b, op_log[a][i]>>]
                \o [i \in 1 .. Len(op_log[b]) |-> <<a, op_log[b][i]>>]
  /\ UNCHANGED <<replicas, edits>>

\* One turn of sync_peers' loops.
Replay ==
  /\ pending # <<>>
  /\ LET a == Head(pending)[1]
         op == Head(pending)[2]
     IN apply_operation(a, op, clock[a])
  /\ pending' = Tail(pending)
  /\ UNCHANGED <<counter, edits, syncs>>

Next ==
  \/ \E a \in Agent, parent \in Node \cup {Root}, pos \in Pos : Insert(a, parent, pos)
  \/ \E a \in Agent, n \in Node : Delete(a, n)
  \/ \E a \in Agent, n \in Node, parent \in Node \cup {Root}, pos \in Pos : Move(a, n, parent, pos)
  \/ \E a, b \in Agent : sync_peers(a, b)
  \/ Replay

Spec == Init /\ [][Next]_vars
-----------------------------------------------------------------------------
\* Every variable keeps its type: a replica's rows are whole CRDTNodes whatever
\* operations sync_peers replays into it, and the log keeps operations as they
\* were created.
TypeOK ==
  /\ clock \in [Agent -> Nat] /\ counter \in [Agent -> 0 .. MaxInserts]
  /\ node_map \in [Agent -> [Node -> Row \cup {None}]]
  /\ op_log \in [Agent -> Seq(Op)]
  /\ pending \in Seq(Agent \X Op)
  /\ edits \in 0 .. MaxEdits /\ syncs \in 0 .. MaxSyncs

LogSet(a) == {op_log[a][i] : i \in 1 .. Len(op_log[a])}

Inserted(ops, n) == {op \in ops : op.type = "INSERT_NODE" /\ op.node = n}
Deleted(ops, n) == \E op \in ops : op.type = "DELETE_NODE" /\ op.node = n
Moved(ops, n) == \E op \in ops : op.type = "MOVE_NODE" /\ op.node = n

\* Two nodes never get the same id, in all the logs together.
NodeIdsAreUnique ==
  \A a, b \in Agent : \A n \in Node :
    \A p \in Inserted(LogSet(a), n), q \in Inserted(LogSet(b), n) : p = q

\* Strong eventual consistency as far as it goes: replicas that have applied
\* the same operations hold the same nodes and tombstones, and agree on the
\* place of every node that no operation moved, however often and in whatever
\* pairing the logs were replayed.
ConvergesUpToMoves ==
  \A a, b \in Agent : LogSet(a) = LogSet(b) =>
    \A n \in Node :
      /\ (node_map[a][n] = None) <=> (node_map[b][n] = None)
      /\ node_map[a][n] # None =>
           /\ node_map[a][n].tomb = node_map[b][n].tomb
           /\ ~Moved(LogSet(a), n) => node_map[a][n] = node_map[b][n]

\* The tree stays a tree under any edits and syncs: among any nodes of a
\* replica, one hangs under the root or under a node outside the group.
EveryNodeIsRooted ==
  \A a \in Agent : \A group \in SUBSET Held(node_map[a]) :
    group # {} => \E n \in group :
      node_map[a][n].parent \in ({Root} \cup Held(node_map[a])) \ group

\* Deleted nodes stay deleted, and nodes are never lost: replaying a log that
\* still contains the insertion does not bring a node back.
TombstonesAreForever ==
  [][\A a \in Agent : \A n \in Node : node_map[a][n] # None =>
       node_map'[a][n] # None /\ (node_map[a][n].tomb => node_map'[a][n].tomb)]_vars

\* Lamport's condition: a replica's next timestamp exceeds every timestamp it
\* has seen.
ClockIsAhead ==
  \A a \in Agent : \A i \in 1 .. Len(op_log[a]) : op_log[a][i].lamport < clock[a]

\* What is true of every replica while operations are exchanged: it is a tree of
\* nodes that were named once.
ReplicasAreTrees == TypeOK /\ NodeIdsAreUnique /\ EveryNodeIsRooted /\ ClockIsAhead

\* ast_crdt.py: "guaranteeing Strong Eventual Consistency (SEC)"; README.md:
\* concurrent moves are arbitrated "using Lamport timestamps, deterministically
\* rejecting the lower-priority move".
StrongEventualConsistency ==
  pending = <<>> =>
    \A a, b \in Agent : LogSet(a) = LogSet(b) => node_map[a] = node_map[b]
=============================================================================
