------------------------------- MODULE Toolbox -------------------------------
(***************************************************************************)
(* Eleven parts that have nothing in common but the repository: two sets   *)
(* of tools that keep nothing, the refactorer, the ledger, the baseline,   *)
(* the crawlers, the application factory, the workbench, the code memory's *)
(* index, the project board, and the sentinel's language server.  One is   *)
(* at work in each behaviour; the others rest as they began.               *)
(***************************************************************************)
EXTENDS BatchTools, Instruments, AstRefactorer, SloLedger, FindingBaseline, DomainStrategies,
        AppFactory, IterationWorkbench, CodeMemory, ProjectBoard, SentinelServer

VARIABLE part

Parts == {"batch", "instruments", "ledger", "baseline", "crawler", "factory", "workbench", "memory", "board",
          "sentinel", "refactorer"}

partVars == <<part, vars, insVars, sloVars, blVars, dsVars, afVars, wbVars, cmVars, pbVars, lsVars, rfVars>>

\* What is not at work has one way to begin.
ToolboxInit ==
  /\ part \in Parts
  /\ IF part = "batch" THEN Init ELSE tool = None /\ input = None /\ output = None
  /\ IF part = "instruments" THEN InsInit
     ELSE instrument = Unanswered /\ given = Unanswered /\ answer = Unanswered
  /\ SloInit /\ (part = "ledger" \/ sloKind = "shards")
  /\ BlInit /\ (part = "baseline" \/ blCode = {})
  /\ DsInit /\ (part = "crawler" \/ dsLast = CHOOSE p \in Crawler : TRUE)
  /\ AfInit /\ (part = "factory" \/ afTemplate = [ops |-> Operation, variables |-> {}])
  /\ WbInit
  /\ IF part = "memory" THEN CmInit
     ELSE IndexesNothing([file \in SourceFile |-> CHOOSE source \in Sources : TRUE])
  /\ PbInit
  /\ LsInit /\ (part = "sentinel" \/ lsRules = Invariants)
  /\ IF part = "refactorer" THEN RfInit ELSE original = Unset /\ current = Unset

\* The part that is at work takes its own steps.
Works(name) == part = name /\ UNCHANGED part

ToolboxNext ==
  \/ /\ Works("batch") /\ Next
     /\ UNCHANGED <<insVars, sloVars, blVars, dsVars, afVars, wbVars, cmVars, pbVars, lsVars, rfVars>>
  \/ /\ Works("instruments") /\ InsNext
     /\ UNCHANGED <<vars, sloVars, blVars, dsVars, afVars, wbVars, cmVars, pbVars, lsVars, rfVars>>
  \/ /\ Works("ledger") /\ SloNext
     /\ UNCHANGED <<vars, insVars, blVars, dsVars, afVars, wbVars, cmVars, pbVars, lsVars, rfVars>>
  \/ /\ Works("baseline") /\ BlNext
     /\ UNCHANGED <<vars, insVars, sloVars, dsVars, afVars, wbVars, cmVars, pbVars, lsVars, rfVars>>
  \/ /\ Works("crawler") /\ DsNext
     /\ UNCHANGED <<vars, insVars, sloVars, blVars, afVars, wbVars, cmVars, pbVars, lsVars, rfVars>>
  \/ /\ Works("factory") /\ AfNext
     /\ UNCHANGED <<vars, insVars, sloVars, blVars, dsVars, wbVars, cmVars, pbVars, lsVars, rfVars>>
  \/ /\ Works("workbench") /\ WbNext
     /\ UNCHANGED <<vars, insVars, sloVars, blVars, dsVars, afVars, cmVars, pbVars, lsVars, rfVars>>
  \/ /\ Works("memory") /\ CmNext
     /\ UNCHANGED <<vars, insVars, sloVars, blVars, dsVars, afVars, wbVars, pbVars, lsVars, rfVars>>
  \/ /\ Works("board") /\ PbNext
     /\ UNCHANGED <<vars, insVars, sloVars, blVars, dsVars, afVars, wbVars, cmVars, lsVars, rfVars>>
  \/ /\ Works("sentinel") /\ LsNext
     /\ UNCHANGED <<vars, insVars, sloVars, blVars, dsVars, afVars, wbVars, cmVars, pbVars, rfVars>>
  \/ /\ Works("refactorer") /\ Refactor
     /\ UNCHANGED <<vars, insVars, sloVars, blVars, dsVars, afVars, wbVars, cmVars, pbVars, lsVars>>

ToolboxSpec == ToolboxInit /\ [][ToolboxNext]_partVars
=============================================================================
