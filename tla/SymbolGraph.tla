----------------------------- MODULE SymbolGraph -----------------------------
(***************************************************************************)
(* The searches of the semantic code memory (code_memory.py), as           *)
(* operators.  A graph is the symbols it indexes, in order, and edges      *)
(* [source, target, defines] in order; an edge may lead to or from a node  *)
(* that is no symbol: a module, an import, a name that is not resolved.    *)
(***************************************************************************)
EXTENDS Integers, FiniteSets, Sequences, SequencesExt, FiniteSetsExt

CONSTANT CycleLimit   \* cycles after which no further node is entered, 10

ASSUME GraphAssumption == CycleLimit \in Nat \ {0}

\* Mutant of _step_blast_radius: who defines a symbol is affected by it.
_step_blast_radius_defines(graph, search, current) ==
  FoldLeft(LAMBDA s, e :
             IF e.target # current \/ e.source \in s.visited THEN s
             ELSE [visited |-> s.visited \cup {e.source}, queue |-> Append(s.queue, e.source)],
           search, graph.edges)

_step_blast_radius(graph, search, current) ==
  FoldLeft(LAMBDA s, e :
             IF e.target # current \/ e.defines \/ e.source \in s.visited THEN s
             ELSE [visited |-> s.visited \cup {e.source}, queue |-> Append(s.queue, e.source)],
           search, graph.edges)

\* What is queued but for the symbol is new, and the source of an edge: the queue is
\* empty in time.
calculate_blast_radius(graph, symbol) ==
  LET search[n \in 0..(Len(graph.edges) + 1)] ==
        IF n = 0 THEN [visited |-> {}, queue |-> <<symbol>>]
        ELSE LET s == search[n - 1]
             IN IF s.queue = <<>> THEN s
                ELSE _step_blast_radius(graph, [s EXCEPT !.queue = Tail(@)], Head(s.queue))
  IN search[Len(graph.edges) + 1].visited \ {symbol}
-----------------------------------------------------------------------------
\* The search for cycles: the symbols it has begun with, the calls that are not
\* done, that is its path, with the edges each has passed, the nodes it has left,
\* and the cycles it has found.
Called(node) == [node |-> node, passed |-> 0]

_step_cycle_edge(search, next) ==
  LET calls == search.calls
      on == {i \in DOMAIN calls : calls[i].node = next}
      cycle == [i \in 1..(Len(calls) + 1 - Min(on)) |-> calls[Min(on) + i - 1].node]
  IN CASE on # {} -> [search EXCEPT !.cycles = Append(@, Append(cycle, next))]
       [] on = {} /\ next \notin search.left /\ Len(search.cycles) < CycleLimit ->
            [search EXCEPT !.calls = Append(@, Called(next))]
       [] OTHER -> search

\* The last call passes an edge, or returns.
_dfs_cycle(graph, search) ==
  LET depth == Len(search.calls)
      call == search.calls[depth]
      edge == graph.edges[call.passed + 1]
      passing == [search EXCEPT !.calls[depth].passed = @ + 1]
  IN IF call.passed = Len(graph.edges)
       THEN [search EXCEPT !.calls = Front(@), !.left = @ \cup {call.node}]
     ELSE IF edge.source = call.node THEN _step_cycle_edge(passing, edge.target) ELSE passing

\* The next symbol is begun with, unless it has been left.
_next_symbol(graph, search) ==
  LET node == graph.symbols[search.begun + 1]
      begun == [search EXCEPT !.begun = @ + 1]
  IN IF search.begun = Len(graph.symbols) THEN search
     ELSE IF node \in search.left THEN begun ELSE [begun EXCEPT !.calls = <<Called(node)>>]

\* Every node is called for once at most, and passes every edge.
detect_dependency_cycles(graph) ==
  LET nodes == Len(graph.symbols) + Len(graph.edges)
      steps == Len(graph.symbols) + nodes * (Len(graph.edges) + 1)
      search[n \in 0..steps] ==
        IF n = 0 THEN [begun |-> 0, calls |-> <<>>, left |-> {}, cycles |-> <<>>]
        ELSE LET s == search[n - 1]
             IN IF s.calls = <<>> THEN _next_symbol(graph, s) ELSE _dfs_cycle(graph, s)
  IN search[steps].cycles
=============================================================================
