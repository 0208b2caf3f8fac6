----------------------------- MODULE Instruments -----------------------------
(***************************************************************************)
(* Four more tools that compute on what they are given and keep nothing:   *)
(* the searches of the code memory, the checks and repairs of fenced code, *)
(* a campaign of the fuzz harness with the replay of what it keeps, and    *)
(* the migration of a tool's calls.                                        *)
(***************************************************************************)
EXTENDS SymbolGraph, DocFences, FuzzCampaign, ToolSchemas

CONSTANTS
  Graphs,     \* of symbols
  Documents,  \* sequences of lines
  Campaigns,  \* faults of an instrument and cases
  Evolutions, \* an old schema, a new one, and a call
  Unanswered

ASSUME GraphsAssumption ==
  \A graph \in Graphs :
    /\ graph = [symbols |-> graph.symbols, edges |-> graph.edges]
    /\ graph.symbols \in Seq(ToSet(graph.symbols)) /\ graph.edges \in Seq(ToSet(graph.edges))
    /\ \A e \in ToSet(graph.edges) :
         e \in [source : {e.source}, target : {e.target}, defines : BOOLEAN]

\* A line that is a fence has no text, and no line is the block that is not there.
IsLine(line) ==
  /\ line \in [run : {NoFence, "tick", "tilde"}, length : Nat, info : {line.info}, deep : BOOLEAN,
               text : {"clean", "trailing", "unquoted"}]
  /\ Fence(line) => line.text = "clean"

IsDocument(doc) == doc \in Seq(ToSet(doc)) /\ \A i \in DOMAIN doc : IsLine(doc[i])

ASSUME DocumentAssumption ==
  \A doc \in Documents : IsDocument(doc) /\ \A i \in DOMAIN doc : doc[i] # NoBlock

\* A fault is told by its class, and its property tells whether it gates a release.
ASSUME CampaignAssumption ==
  \A c \in Campaigns :
    /\ c.faults \in Seq(ToSet(c.faults)) /\ NoFailure \notin ToSet(c.faults)
    /\ \A f, g \in ToSet(c.faults) :
         /\ f.prop = g.prop => f.gates = g.gates
         /\ _failure_class(f) = _failure_class(g) => f = g
    /\ c.cases \in Seq(ToSet(c.cases)) /\ \A text \in ToSet(c.cases) : text \in Seq(ToSet(text))

\* A schema requires nothing that it does not have.
ASSUME EvolutionAssumption ==
  \A e \in Evolutions :
    /\ e.new.required \subseteq e.new.parameters
    /\ e.new.migrations \in Seq(ToSet(e.new.migrations))
    /\ e.call = [p \in DOMAIN e.call |-> e.call[p]]

VARIABLES instrument, given, answer

insVars == <<instrument, given, answer>>

InsInit ==
  /\ answer = Unanswered
  /\ \/ instrument = "graph" /\ given \in Graphs
     \/ instrument = "fences" /\ given \in Documents
     \/ instrument = "fuzz" /\ given \in Campaigns
     \/ instrument = "schema" /\ given \in Evolutions

Answers(name) == instrument = name /\ answer = Unanswered /\ UNCHANGED <<instrument, given>>

Search ==
  /\ Answers("graph")
  /\ answer' = [radius |-> [s \in ToSet(given.symbols) |-> calculate_blast_radius(given, s)],
                cycles |-> detect_dependency_cycles(given)]

Repair == Answers("fences") /\ answer' = auto_fix_content(given)

\* Exploring keeps texts, and the gate replays them.
Explore ==
  /\ Answers("fuzz")
  /\ LET campaign == explore(given.faults, given.cases)
     IN answer' = [campaign |-> campaign, replayed |-> replay(given.faults, campaign.corpus)]

Adapt ==
  /\ Answers("schema")
  /\ answer' = [findings |-> diff_schemas(given.old, given.new),
                adapted |-> adapt_arguments(given.new, given.call)]

InsNext == Search \/ Repair \/ Explore \/ Adapt

InsSpec == InsInit /\ [][InsNext]_insVars
-----------------------------------------------------------------------------
Answered(name) == instrument = name /\ answer # Unanswered

\* The nodes from which there is a path to a node, over edges of which none defines.
Reaching(graph, node) ==
  LET pairs == {<<e.source, e.target>> : e \in {x \in ToSet(graph.edges) : ~x.defines}}
      nodes == {p[1] : p \in pairs} \cup {p[2] : p \in pairs}
      closed == {S \in SUBSET nodes : \A p \in pairs : p[2] \in S \cup {node} => p[1] \in S}
  IN {n \in nodes : \A S \in closed : n \in S}

\* The blast radius of a symbol is whatever depends on it, directly or not, each
\* once, also around cycles; the symbol itself is not in it.
RadiusIsTheClosure ==
  Answered("graph") =>
    \A s \in DOMAIN answer.radius : answer.radius[s] = Reaching(given, s) \ {s}

\* A cycle is reported if and only if a symbol reaches one, and what is reported
\* is a closed path along edges that enters no other node twice.
CyclesAreFound ==
  Answered("graph") =>
    LET edge(a, b) == \E e \in ToSet(given.edges) : e.source = a /\ e.target = b
        whole == [given EXCEPT !.edges = [i \in DOMAIN @ |-> [@[i] EXCEPT !.defines = FALSE]]]
        cyclic == {n \in {e.source : e \in ToSet(given.edges)} : n \in Reaching(whole, n)}
    IN /\ answer.cycles # <<>> <=>
            \E n \in cyclic : n \in ToSet(given.symbols)
                              \/ ToSet(given.symbols) \cap Reaching(whole, n) # {}
       /\ \A i \in DOMAIN answer.cycles : LET cycle == answer.cycles[i] IN
            /\ cycle[1] = Last(cycle) /\ IsInjective(Tail(cycle))
            /\ \A j \in 1..(Len(cycle) - 1) : edge(cycle[j], cycle[j + 1])

\* Both searches of the graph find all there is, and nothing else.
SearchesAreExact == RadiusIsTheClosure /\ CyclesAreFound

\* No fence is indented too far, and none stands inside a block but the one that
\* closes it.
PlainFences(doc) ==
  LET states == ReadBy(_process_fence_line, doc)
  IN \A i \in DOMAIN doc : Fence(doc[i]) =>
       /\ ~doc[i].deep
       /\ states[i] # NoBlock => Closes(doc[i], states[i])

\* Five readers decide for themselves what is fenced.  Where no fence stands in a
\* block they agree: on all blocks, and on those of diagrams.
ReadersAgree ==
  instrument = "fences" /\ PlainFences(given) =>
    LET checked == ReadBy(_process_fence_line, given)
        diagrams == ReadBy(_process_mermaid_line, given)
    IN /\ fenced_line_flags(given) = Flags(checked)
       /\ Flags(ReadBy(_handle_fence_transition, given)) = Flags(checked)
       /\ Flags(ReadBy(_track_fence_marker, given)) = Flags(checked)
       /\ Flags(ReadBy(extract_fenced_blocks, given)) = Flags(diagrams)
       /\ \A i \in DOMAIN checked : diagrams[i] # NoBlock <=>
            checked[i] # NoBlock /\ OpensMermaid(checked[i])

\* "A repair a second pass would change again is a hook that never reaches a fixed
\* point": every document is repaired in one application.
FixConverges == Answered("fences") => auto_fix_content(answer) = answer

\* What the repair is for is repaired: a block that is open at the end is closed,
\* and no line of a block is touched but the labels of diagrams.
FixRepairs ==
  Answered("fences") /\ PlainFences(given) =>
    LET held == ReadBy(_process_fence_line, given)
    IN /\ Accepted(answer)
       /\ \A i \in DOMAIN given :
            held[i] # NoBlock => answer[i] = given[i] \/ (OpensMermaid(held[i]) /\ given[i].text = "unquoted")

\* What is fenced is one thing to every reader and to the repair, which ends.
FencesAreAgreedOn == ReadersAgree /\ FixConverges /\ FixRepairs

\* The repair closes "any unclosed code fence at document end": a document of which
\* the checker accepts the fences is still accepted when it has been repaired.
FixKeepsAcceptedDocuments == Answered("fences") /\ Accepted(given) => Accepted(answer)

\* What a campaign has found stays found: for every case that fails there is a text
\* that is kept and fails the same property, so the gate stops what the campaign stopped.
NoDefectIsLost ==
  Answered("fuzz") =>
    /\ \A i \in DOMAIN given.cases : LET failure == FirstFailure(given.faults, given.cases[i]) IN
         failure # NoFailure =>
           /\ failure \in answer.campaign.failures
           /\ \E text \in answer.campaign.corpus : StillFails(given.faults, failure.prop, text)
    /\ gating_failures(answer.replayed) # {} <=> gating_failures(answer.campaign.failures) # {}

\* A text that is kept fails no more without its last character.
CasesAreMinimal ==
  Answered("fuzz") =>
    \A text \in answer.campaign.corpus :
      text = <<>> \/ \E f \in answer.campaign.failures :
        StillFails(given.faults, f.prop, text) /\ ~StillFails(given.faults, f.prop, Front(text))

\* A campaign keeps every defect, in its least form.
CampaignKeepsWhatItFound == NoDefectIsLost /\ CasesAreMinimal

\* Rules that do not undo one another: each renames a parameter that is gone into
\* one that is new, or that a later rule renames; what is required now was required
\* or is new.
Orderly(old, new) ==
  LET rule == new.migrations IN
  /\ new.required \cap old.parameters \subseteq old.required
  /\ \A i \in DOMAIN rule :
       /\ rule[i].old \notin new.parameters /\ rule[i].new \notin old.parameters
       /\ \A j \in DOMAIN rule : rule[i].old = rule[j].old => i = j
       /\ rule[i].new \in new.parameters \/ \E j \in DOMAIN rule : j > i /\ rule[j].old = rule[i].new

\* A schema in which nothing is found to break its callers does not break them: a
\* call that was valid is adapted to one that is.
PassedSchemasAcceptOldCalls ==
  Answered("schema") /\ answer.findings = {} /\ Orderly(given.old, given.new) /\ Valid(given.old, given.call) =>
    Valid(given.new, answer.adapted)
=============================================================================
