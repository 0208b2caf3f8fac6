----------------------------- MODULE AppFactory -----------------------------
(***************************************************************************)
(* One generated application (app_factory.py): the factory writes the      *)
(* contract layer and the answers anew each time, and adds to the handlers *)
(* what they lack; the developer fills in stubs, and the template moves    *)
(* on.  A template is the operations it declares and the variables it asks *)
(* for; of the answers there is which were asked for, and which are not    *)
(* the default.  A run may die before a write, or in one.                  *)
(***************************************************************************)
EXTENDS Integers, Sequences, FiniteSets, SequencesExt

CONSTANTS
  Operation, Variable,
  Missing,                        \* no such file
  MaxRuns, MaxChanges, MaxDeadRuns   \* bounds of the runs

\* handlers.py: whether it parses, and the names it binds in order: which are
\* implemented, and which are functions.
HandlerFile == [parses : BOOLEAN, defs : Seq([op : Operation, done : BOOLEAN, function : BOOLEAN])]

ASSUME FactoryAssumption == IsFiniteSet(Operation) /\ Missing \notin HandlerFile

VARIABLES
  afTemplate,   \* the published contract
  afLayer,      \* the contract layer: its operations, and the answers in it
  afHandlers,   \* handlers.py: whether it parses, and its definitions in order
  afAnswers,    \* the recorded answers; a file cut short records none
  afRun,        \* where the run of the factory is, if there is one
  afLast,       \* how the last run ended
  afCount,      \* runs, changes and dead runs so far
  afDone,       \* the operations the developer has implemented
  afHidden      \* handlers.py was cut, or added to when its functions were not to be seen

afVars == <<afTemplate, afLayer, afHandlers, afAnswers, afRun, afLast, afCount, afDone, afHidden>>

NoRun == [step |-> "none"]
Templates == [ops : SUBSET Operation \ {{}}, variables : SUBSET Variable]

\* A function, or a name bound in some other way.
Stub(op) == [op |-> op, done |-> FALSE, function |-> TRUE]
Stubs(ops) == LET order == SetToSeq(ops) IN [i \in DOMAIN order |-> Stub(order[i])]

Defined == IF afHandlers = Missing THEN {} ELSE {d.op : d \in ToSet(afHandlers.defs)}

\* Of two definitions of one name Python takes the later.
Handler(op) ==
  SelectLastInSeq(afHandlers.defs, LAMBDA d : d.op = op)

AfInit ==
  /\ afTemplate \in Templates
  /\ afLayer = Missing /\ afHandlers = Missing /\ afAnswers = Missing
  /\ afRun = NoRun /\ afLast = "none"
  /\ afDone = {} /\ afHidden = FALSE
  /\ afCount = [runs |-> 0, changes |-> 0, dead |-> 0]

Changes ==
  /\ afCount.changes < MaxChanges /\ afCount' = [afCount EXCEPT !.changes = @ + 1]
  /\ UNCHANGED <<afLayer, afAnswers, afRun, afLast, afHidden>>

Publish ==
  /\ Changes /\ afTemplate' \in Templates \ {afTemplate}
  /\ UNCHANGED <<afHandlers, afDone>>

FillIn ==
  /\ Changes /\ afHandlers # Missing
  /\ \E op \in Defined, function \in BOOLEAN :
       /\ afHandlers' = [afHandlers EXCEPT !.defs[Handler(op)] =
                           [op |-> op, done |-> TRUE, function |-> function]]
       /\ afDone' = afDone \cup {op}
  /\ UNCHANGED afTemplate

\* A syntax error comes in, or is put right.
BreakOrMend ==
  /\ Changes /\ afHandlers # Missing
  /\ afHandlers' = [afHandlers EXCEPT !.parses = ~@]
  /\ UNCHANGED <<afTemplate, afDone>>

\* The contract is loaded, and its variables resolved, before anything is written.
Begins(command, answers) ==
  /\ afRun = NoRun /\ afCount.runs < MaxRuns
  /\ afCount' = [afCount EXCEPT !.runs = @ + 1]
  /\ afRun' = [step |-> "layer", command |-> command, ops |-> afTemplate.ops, answers |-> answers]
  /\ UNCHANGED <<afTemplate, afLayer, afHandlers, afAnswers, afLast, afDone, afHidden>>

_handle_new ==
  \E supplied \in SUBSET afTemplate.variables :
    Begins("new", [asked |-> afTemplate.variables, typed |-> supplied])

\* The recorded answers are supplied again, and one that the template does not
\* ask for any more is an error.  Without them the contract has to be named.
update_in_place ==
  \E supplied \in SUBSET afTemplate.variables, named \in BOOLEAN :
    LET recorded == IF afAnswers = Missing THEN [asked |-> {}, typed |-> {}] ELSE afAnswers
    IN /\ afLayer # Missing \/ afHandlers # Missing
       /\ named \/ afAnswers # Missing
       /\ recorded.asked \subseteq afTemplate.variables
       /\ Begins("update", [asked |-> afTemplate.variables, typed |-> recorded.typed \cup supplied])

Step(name) == afRun.step = name
Then(name) == afRun' = IF name = "none" THEN NoRun ELSE [afRun EXCEPT !.step = name]

_write_contract_layer ==
  /\ Step("layer") /\ Then("handlers")
  /\ afLayer' = [ops |-> afRun.ops, answers |-> afRun.answers]
  /\ UNCHANGED <<afTemplate, afHandlers, afAnswers, afLast, afCount, afDone, afHidden>>

\* Mutant of _declared_handler_names: a file that does not parse is taken as complete.
_declared_handler_names_trusting ==
  IF afHandlers.parses THEN {d.op : d \in {e \in ToSet(afHandlers.defs) : e.function}} ELSE Operation

_declared_handler_names ==
  IF afHandlers.parses THEN {d.op : d \in {e \in ToSet(afHandlers.defs) : e.function}} ELSE {}

\* Handlers that are there are left alone; an update adds stubs at their end.
NewHandlers ==
  IF afHandlers = Missing THEN [parses |-> TRUE, defs |-> Stubs(afRun.ops)]
  ELSE IF afRun.command = "new" THEN afHandlers
  ELSE [afHandlers EXCEPT !.defs = @ \o Stubs(afRun.ops \ _declared_handler_names)]

Blind == afHandlers # Missing /\ NewHandlers # afHandlers
           /\ (~afHandlers.parses \/ \E d \in ToSet(afHandlers.defs) : ~d.function)

_reconcile_handlers ==
  /\ Step("handlers") /\ Then("answers")
  /\ afHandlers' = NewHandlers
  /\ afHidden' = (afHidden \/ Blind)
  /\ UNCHANGED <<afTemplate, afLayer, afAnswers, afLast, afCount, afDone>>

Recorded == afRun.answers

_save_update_answers ==
  /\ Step("answers") /\ Then("none")
  /\ afAnswers' = Recorded
  /\ afLast' = afRun.command
  /\ UNCHANGED <<afTemplate, afLayer, afHandlers, afCount, afDone, afHidden>>

\* write_text truncates a file before it writes it.
DieInRun ==
  /\ afRun # NoRun /\ afCount.dead < MaxDeadRuns
  /\ afCount' = [afCount EXCEPT !.dead = @ + 1]
  /\ afRun' = NoRun /\ afLast' = "died"
  /\ \/ UNCHANGED <<afLayer, afHandlers, afAnswers, afHidden>>
     \/ Step("layer") /\ afLayer' = Missing /\ UNCHANGED <<afHandlers, afAnswers, afHidden>>
     \/ /\ Step("handlers") /\ NewHandlers # afHandlers
        /\ afHandlers' = [parses |-> TRUE, defs |-> <<>>] /\ afHidden' = TRUE
        /\ UNCHANGED <<afLayer, afAnswers>>
     \/ Step("answers") /\ afAnswers' = Missing /\ UNCHANGED <<afLayer, afHandlers, afHidden>>
  /\ UNCHANGED <<afTemplate, afDone>>

AfNext ==
  \/ Publish \/ FillIn \/ BreakOrMend
  \/ _handle_new \/ update_in_place
  \/ _write_contract_layer \/ _reconcile_handlers \/ _save_update_answers \/ DieInRun

AfSpec == AfInit /\ [][AfNext]_afVars
-----------------------------------------------------------------------------
\* "never overwritten": what the developer has implemented is what runs, however
\* often the contract is published and applied anew, and wherever a run dies but
\* in the rewriting of the handlers; provided that the functions can be seen, in
\* a file that parses, when stubs are added.
LogicSurvives ==
  ~afHidden => \A op \in afDone : op \in Defined /\ afHandlers.defs[Handler(op)].done

\* An update leaves no operation of the contract layer without a handler, also
\* after a run that died half-way, or over handlers that do not parse.
EveryOperationIsHandled == afLast = "update" /\ afRun = NoRun => afLayer.ops \subseteq Defined

\* Replaying the recorded answers gives the contract layer there is, also after a
\* run that died before, and for variables that were not asked for at first.
AnswersReplay == afLast \in {"new", "update"} /\ afRun = NoRun => afAnswers = afLayer.answers

\* Publishing a contract anew keeps the developer's work, serves every operation,
\* and can be repeated.
UpdatesAreSafe == LogicSurvives /\ EveryOperationIsHandled /\ AnswersReplay
=============================================================================
