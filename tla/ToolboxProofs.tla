---------------------------- MODULE ToolboxProofs ----------------------------
(***************************************************************************)
(* What holds of the parts of the toolbox that keep something, for every   *)
(* value of their constants and any number of steps: the baseline, the     *)
(* code memory, the crawlers, the workbench, the board, the application    *)
(* factory, the language server and the ledger; and, at the end, of a      *)
(* command under a time limit and of PathOracle, which run by themselves.  *)
(* Each has an inductive invariant of its own; none is about another part, *)
(* and the theorems are of each part's specification alone.                *)
(***************************************************************************)
EXTENDS TimedCommand, PathOracle, FindingBaseline, CodeMemory, DomainStrategies,
        IterationWorkbench, ProjectBoard, AppFactory, SentinelServer, SloLedger,
        FiniteSetTheorems, SequenceTheorems, WellFoundedInduction, TLAPS
\* Findings: the commands of finding_baseline.py and sarif_report.py.

BlLogType == [results : SUBSET Fingerprint, code : SUBSET Fingerprint, filtered : BOOLEAN]
BlReport == [step : {"report"}, found : SUBSET Fingerprint, apply : BOOLEAN]
BlSave == [step : {"save", "write"}, entries : SUBSET Fingerprint, gone : SUBSET Fingerprint,
           next : {Resting} \cup BlReport]
BlPrune == [step : {"prune"}, log : BlLogType, gone : SUBSET Fingerprint]

BlTypeOK ==
  /\ blCode \subseteq Fingerprint
  /\ blFile \in (SUBSET Fingerprint) \cup {Cut}
  /\ blLog \in BlLogType
  /\ blDoing \in [User -> {Resting} \cup BlReport \cup BlSave \cup BlPrune]

\* An unfiltered log lists all that the code gave rise to.
LogIsWhole == ~blLog.filtered => blLog.results = blLog.code

\* A pruned baseline about to be written is a part of what was accepted, without
\* what is gone now or, if no two commands overlapped, was pruned before.
PruningsAreSound ==
  \A u \in User :
    /\ blDoing[u].step = "prune" /\ ~blDoing[u].log.filtered =>
         blDoing[u].gone \cap blDoing[u].log.code = {}
    /\ blDoing[u].step \in {"save", "write"} /\ blDoing[u].gone # {} =>
         /\ blDoing[u].entries \subseteq blAsked
         /\ blDoing[u].entries \cap blDoing[u].gone = {}
         /\ ~blCrossed => blDoing[u].entries \cap blPruned = {}

OneAtATime ==
  ~blCrossed => \A u, v \in User : blDoing[u] # Resting /\ blDoing[v] # Resting => u = v

BlInv ==
  /\ BlTypeOK /\ LogIsWhole /\ PruningsAreSound /\ OneAtATime
  /\ AcceptedOnlyIfAsked /\ ReintroducedIsReported

\* A step of one user's command in which no baseline is written.
LEMMA BlCommandMovesOn ==
  ASSUME BlInv, NEW u \in User,
         NEW d \in {Resting} \cup BlReport \cup BlSave \cup BlPrune,
         blDoing' = [blDoing EXCEPT ![u] = d],
         blCode' \subseteq Fingerprint, blFile' \in {blFile, Cut}, blLog' \in BlLogType, LogIsWhole',
         UNCHANGED <<blAsked, blPruned>>,
         \/ blCrossed' = blCrossed /\ (~blCrossed => d = Resting \/ blDoing[u] # Resting)
         \/ blCrossed' = (blCrossed \/ \E v \in User : blDoing[v] # Resting)
         \/ blCrossed' = TRUE,
         d.step = "prune" /\ ~d.log.filtered => d.gone \cap d.log.code = {},
         d.step \in {"save", "write"} /\ d.gone # {} =>
           /\ d.entries \subseteq blAsked /\ d.entries \cap d.gone = {}
           /\ ~blCrossed' => d.entries \cap blPruned = {}
  PROVE  BlInv'
<1>1. /\ blDoing'[u] = d /\ \A v \in User \ {u} : blDoing'[v] = blDoing[v]
      /\ blDoing' \in [User -> {Resting} \cup BlReport \cup BlSave \cup BlPrune]
  BY DEF BlInv, BlTypeOK
<1>2. BlTypeOK'
  <2>1. blFile' \in (SUBSET Fingerprint) \cup {Cut}
    BY DEF BlInv, BlTypeOK
  <2> QED BY <1>1, <2>1 DEF BlTypeOK
<1>3. blCrossed => blCrossed'
  OBVIOUS
<1>4. PruningsAreSound'
  BY <1>1, <1>3 DEF BlInv, PruningsAreSound
<1>5. OneAtATime'
  BY <1>1, <1>3 DEF BlInv, OneAtATime
<1>6. AcceptedOnlyIfAsked' /\ ReintroducedIsReported'
  BY <1>3 DEF BlInv, AcceptedOnlyIfAsked, ReintroducedIsReported
<1> QED BY <1>2, <1>4, <1>5, <1>6 DEF BlInv

\* The baseline is written: as it was asked for, or less what was pruned.
LEMMA BlWriteKeeps ==
  ASSUME BlInv, NEW u \in User, Write(u)
  PROVE  BlInv'
<1> DEFINE c == blDoing[u]
<1>1. c \in BlSave /\ c.step = "write" /\ c.next \in {Resting} \cup BlReport
  BY DEF Write, BlInv, BlTypeOK, BlReport, BlSave, BlPrune, Resting
<1>2. /\ blFile' = c.entries /\ blDoing' = [blDoing EXCEPT ![u] = c.next]
      /\ blAsked' = IF c.gone = {} THEN blAsked \cup c.entries ELSE blAsked
      /\ blPruned' = (blPruned \ (IF c.gone = {} THEN c.entries ELSE {})) \cup c.gone
      /\ UNCHANGED <<blCode, blLog, blCount, blCrossed>>
  BY DEF Write, Goes
<1>3. c.gone # {} =>
        /\ c.entries \subseteq blAsked /\ c.entries \cap c.gone = {}
        /\ ~blCrossed => c.entries \cap blPruned = {}
  BY <1>1 DEF BlInv, PruningsAreSound
<1>4. /\ blDoing'[u] = c.next /\ \A v \in User \ {u} : blDoing'[v] = blDoing[v]
      /\ blDoing' \in [User -> {Resting} \cup BlReport \cup BlSave \cup BlPrune]
  BY <1>1, <1>2 DEF BlInv, BlTypeOK
<1>5. c # Resting /\ c.next.step \in {"rest", "report"}
  BY <1>1 DEF Resting, BlReport
<1>6. blAsked \subseteq blAsked' /\ c.entries \subseteq blAsked' /\ c.entries \subseteq Fingerprint
  BY <1>1, <1>2, <1>3 DEF BlSave
<1>7. ~blCrossed => \A v \in User \ {u} : blDoing[v] = Resting
  BY <1>5 DEF BlInv, OneAtATime
<1> HIDE DEF c
<1>8. BlTypeOK' /\ LogIsWhole'
  BY <1>2, <1>4, <1>6 DEF BlInv, BlTypeOK, LogIsWhole
<1>9. PruningsAreSound'
  <2> SUFFICES ASSUME NEW v \in User
               PROVE  /\ blDoing'[v].step = "prune" /\ ~blDoing'[v].log.filtered =>
                           blDoing'[v].gone \cap blDoing'[v].log.code = {}
                      /\ blDoing'[v].step \in {"save", "write"} /\ blDoing'[v].gone # {} =>
                           /\ blDoing'[v].entries \subseteq blAsked'
                           /\ blDoing'[v].entries \cap blDoing'[v].gone = {}
                           /\ ~blCrossed' => blDoing'[v].entries \cap blPruned' = {}
    BY DEF PruningsAreSound
  <2>1. CASE v = u
    BY <1>4, <1>5, <2>1
  <2>2. CASE v # u
    <3>1. blDoing'[v] = blDoing[v] /\ (~blCrossed' => blDoing[v] = Resting)
      BY <1>2, <1>4, <1>7, <2>2
    <3>2. Resting.step = "rest"
      BY DEF Resting
    <3> QED BY <1>6, <3>1, <3>2 DEF BlInv, PruningsAreSound
  <2> QED BY <2>1, <2>2
<1>10. OneAtATime'
  BY <1>2, <1>4, <1>5, <1>7 DEF OneAtATime
<1>11. AcceptedOnlyIfAsked' /\ ReintroducedIsReported'
  BY <1>2, <1>3, <1>6 DEF AcceptedOnlyIfAsked, ReintroducedIsReported
<1> QED BY <1>8, <1>9, <1>10, <1>11 DEF BlInv

\* The commands of the baseline, an edit of the code and a death keep BlInv.
LEMMA StepKeepsTheBaseline == BlInv /\ [BlNext]_blVars => BlInv'
<1> SUFFICES ASSUME BlInv, [BlNext]_blVars PROVE BlInv'
  OBVIOUS
<1> DEFINE Doings == {Resting} \cup BlReport \cup BlSave \cup BlPrune
<1>1. CASE Edit
  <2>1. blCode' \subseteq Fingerprint
    BY <1>1 DEF Edit, BlInv, BlTypeOK
  <2>2. BlTypeOK'
    BY <1>1, <2>1 DEF Edit, BlInv, BlTypeOK
  <2>3. LogIsWhole' /\ PruningsAreSound' /\ OneAtATime'
    BY <1>1 DEF Edit, BlInv, LogIsWhole, PruningsAreSound, OneAtATime
  <2> QED BY <1>1, <2>2, <2>3 DEF Edit, BlInv, AcceptedOnlyIfAsked, ReintroducedIsReported
<1>2. CASE UNCHANGED blVars
  <2>1. BlTypeOK' /\ LogIsWhole' /\ PruningsAreSound' /\ OneAtATime'
    BY <1>2 DEF blVars, BlInv, BlTypeOK, LogIsWhole, PruningsAreSound, OneAtATime
  <2> QED BY <1>2, <2>1 DEF blVars, BlInv, AcceptedOnlyIfAsked, ReintroducedIsReported
<1>3. ASSUME NEW u \in User, _handle_record(u) PROVE BlInv'
  <2> DEFINE d == [step |-> "save", entries |-> blLog.results, gone |-> {}, next |-> Resting]
  <2>1. d \in Doings /\ d.step = "save" /\ d.gone = {}
    BY DEF BlInv, BlTypeOK, BlLogType, BlSave
  <2>2. /\ blDoing' = [blDoing EXCEPT ![u] = d]
        /\ blCrossed' = (blCrossed \/ \E v \in User : blDoing[v] # Resting)
        /\ UNCHANGED <<blCode, blFile, blLog, blAsked, blPruned>>
    BY <1>3 DEF _handle_record, Starts
  <2> HIDE DEF d
  <2>3. blCode' \subseteq Fingerprint /\ blLog' \in BlLogType /\ LogIsWhole'
    BY <2>2 DEF BlInv, BlTypeOK, LogIsWhole
  <2> QED BY <2>1, <2>2, <2>3, BlCommandMovesOn
<1>4. ASSUME NEW u \in User, _handle_report(u) PROVE BlInv'
  <2>1. PICK apply \in BOOLEAN, accept \in BOOLEAN :
          LET report == [step |-> "report", found |-> blCode, apply |-> apply]
          IN Starts(u, IF accept THEN [step |-> "save", entries |-> blCode, gone |-> {}, next |-> report]
                       ELSE report)
    BY <1>4 DEF _handle_report
  <2> DEFINE report == [step |-> "report", found |-> blCode, apply |-> apply]
             d == IF accept THEN [step |-> "save", entries |-> blCode, gone |-> {}, next |-> report]
                  ELSE report
  <2>2. report \in BlReport
    BY DEF BlInv, BlTypeOK, BlReport
  <2>3. d \in Doings /\ d.step # "prune" /\ (d.step \in {"save", "write"} => d.gone = {})
    BY <2>2 DEF BlInv, BlTypeOK, BlSave
  <2>4. /\ blDoing' = [blDoing EXCEPT ![u] = d]
        /\ blCrossed' = (blCrossed \/ \E v \in User : blDoing[v] # Resting)
        /\ UNCHANGED <<blCode, blFile, blLog, blAsked, blPruned>>
    BY <1>4, <2>1 DEF _handle_report, Starts
  <2> HIDE DEF d
  <2>5. blCode' \subseteq Fingerprint /\ blLog' \in BlLogType /\ LogIsWhole'
    BY <2>4 DEF BlInv, BlTypeOK, LogIsWhole
  <2> QED BY <2>3, <2>4, <2>5, BlCommandMovesOn
<1>5. ASSUME NEW u \in User, _apply_baseline(u) PROVE BlInv'
  <2> DEFINE c == blDoing[u]
  <2>1. c \in BlReport /\ c # Resting
    BY <1>5 DEF _apply_baseline, BlInv, BlTypeOK, BlReport, BlSave, BlPrune, Resting
  <2>2. /\ blDoing' = [blDoing EXCEPT ![u] = Resting]
        /\ UNCHANGED <<blCode, blFile, blAsked, blPruned, blCrossed>>
        /\ blLog' = IF c.apply /\ blFile = Cut THEN blLog
                    ELSE [results |-> IF c.apply THEN c.found \ blFile ELSE c.found,
                          code |-> c.found, filtered |-> c.apply]
    BY <1>5 DEF _apply_baseline, Goes
  <2>3. c.found \subseteq Fingerprint /\ c.apply \in BOOLEAN
    BY <2>1 DEF BlReport
  <2> HIDE DEF c
  <2>4. blLog' \in BlLogType
    BY <2>2, <2>3 DEF BlInv, BlTypeOK, BlLogType
  <2>5. LogIsWhole'
    BY <2>2, <2>3 DEF BlInv, LogIsWhole
  <2>6. Resting \in Doings /\ Resting.step = "rest"
    BY DEF Resting
  <2>7. blCode' \subseteq Fingerprint
    BY <2>2 DEF BlInv, BlTypeOK
  <2> QED BY <2>2, <2>4, <2>5, <2>6, <2>7, BlCommandMovesOn
<1>6. ASSUME NEW u \in User, _handle_prune(u) PROVE BlInv'
  <2> DEFINE resolved == Resolved(blFile, blLog.results)
             d == IF blFile = Cut \/ resolved = {} THEN Resting
                  ELSE [step |-> "prune", log |-> blLog, gone |-> resolved]
  <2>1. blLog \in BlLogType /\ (blFile # Cut => resolved \subseteq Fingerprint)
        /\ resolved \cap blLog.results = {}
    <3>1. blLog \in BlLogType /\ (blFile # Cut => blFile \subseteq Fingerprint)
      BY DEF BlInv, BlTypeOK
    <3>2. resolved \cap blLog.results = {} /\ resolved \subseteq blFile
      BY DEF Resolved
    <3> HIDE DEF resolved
    <3> QED BY <3>1, <3>2
  <2>2. d \in Doings /\ d.step \in {"rest", "prune"}
    BY <2>1 DEF Resting, BlPrune
  <2>3. d.step = "prune" /\ ~d.log.filtered => d.gone \cap d.log.code = {}
    BY <2>1 DEF BlInv, LogIsWhole, Resting
  <2>4. /\ blDoing' = [blDoing EXCEPT ![u] = d]
        /\ blCrossed' = (blCrossed \/ \E v \in User : blDoing[v] # Resting)
        /\ UNCHANGED <<blCode, blFile, blLog, blAsked, blPruned>>
    BY <1>6 DEF _handle_prune, Starts
  <2> HIDE DEF d
  <2>5. blCode' \subseteq Fingerprint /\ blLog' \in BlLogType /\ LogIsWhole'
    BY <2>4 DEF BlInv, BlTypeOK, LogIsWhole
  <2> QED BY <2>2, <2>3, <2>4, <2>5, BlCommandMovesOn
<1>7. ASSUME NEW u \in User, prune(u) PROVE BlInv'
  <2> DEFINE c == blDoing[u]
             d == IF blFile = Cut THEN Resting
                  ELSE [step |-> "save", entries |-> Kept(c), gone |-> c.gone, next |-> Resting]
  <2>1. c \in BlPrune /\ c # Resting
    BY <1>7 DEF prune, BlInv, BlTypeOK, BlReport, BlSave, BlPrune, Resting
  <2>2. /\ blDoing' = [blDoing EXCEPT ![u] = d]
        /\ UNCHANGED <<blCode, blFile, blLog, blAsked, blPruned, blCrossed>>
    BY <1>7 DEF prune, Goes
  <2>3. c.gone \subseteq Fingerprint
    BY <2>1 DEF BlPrune
  <2>4. blFile # Cut =>
          /\ Kept(c) \subseteq Fingerprint /\ Kept(c) \subseteq blAsked /\ Kept(c) \cap c.gone = {}
          /\ ~blCrossed => Kept(c) \cap blPruned = {}
    <3>1. Kept(c) \subseteq blFile /\ Kept(c) \cap c.gone = {}
      BY DEF Kept
    <3>2. blFile # Cut => blFile \subseteq Fingerprint /\ blFile \subseteq blAsked
      BY DEF BlInv, BlTypeOK, AcceptedOnlyIfAsked
    <3>3. blFile # Cut /\ ~blCrossed => blFile \cap blPruned = {}
      BY DEF BlInv, ReintroducedIsReported
    <3> HIDE DEF c
    <3> QED BY <3>1, <3>2, <3>3
  <2>5. d \in Doings /\ d.step # "prune"
    <3> HIDE DEF c
    <3> QED BY <2>3, <2>4 DEF BlSave, Resting
  <2>6. d.step \in {"save", "write"} /\ d.gone # {} =>
           /\ d.entries \subseteq blAsked /\ d.entries \cap d.gone = {}
           /\ ~blCrossed' => d.entries \cap blPruned = {}
    <3> HIDE DEF c
    <3> QED BY <2>2, <2>4 DEF Resting
  <2>7. blDoing[u] # Resting
    BY <2>1
  <2> HIDE DEF d, c
  <2>8. blCode' \subseteq Fingerprint /\ blLog' \in BlLogType /\ LogIsWhole'
    BY <2>2 DEF BlInv, BlTypeOK, LogIsWhole
  <2> QED BY <2>2, <2>5, <2>6, <2>7, <2>8, BlCommandMovesOn
<1>8. ASSUME NEW u \in User, Truncate(u) PROVE BlInv'
  <2> DEFINE c == blDoing[u]
             d == [blDoing[u] EXCEPT !.step = "write"]
  <2>1. c \in BlSave /\ c # Resting /\ c.step = "save"
    BY <1>8 DEF Truncate, BlInv, BlTypeOK, BlReport, BlSave, BlPrune, Resting
  <2>2. d \in BlSave /\ d.step = "write" /\ d.entries = c.entries /\ d.gone = c.gone
    BY <2>1 DEF BlSave
  <2>3. c.gone # {} =>
           /\ c.entries \subseteq blAsked /\ c.entries \cap c.gone = {}
           /\ ~blCrossed => c.entries \cap blPruned = {}
    BY <2>1 DEF BlInv, PruningsAreSound
  <2>4. /\ blDoing' = [blDoing EXCEPT ![u] = d] /\ blFile' = Cut
        /\ UNCHANGED <<blCode, blLog, blAsked, blPruned, blCrossed>>
    BY <1>8 DEF Truncate, Goes
  <2>5. blDoing[u] # Resting
    BY <2>1
  <2> HIDE DEF d, c
  <2>6. blCode' \subseteq Fingerprint /\ blLog' \in BlLogType /\ LogIsWhole'
    BY <2>4 DEF BlInv, BlTypeOK, LogIsWhole
  <2> QED BY <2>2, <2>3, <2>4, <2>5, <2>6, BlCommandMovesOn
<1>9. ASSUME NEW u \in User, Kill(u) PROVE BlInv'
  <2>1. /\ blDoing' = [blDoing EXCEPT ![u] = Resting] /\ blCrossed' = TRUE
        /\ UNCHANGED <<blCode, blFile, blLog, blAsked, blPruned>>
    BY <1>9 DEF Kill
  <2>2. Resting \in Doings /\ Resting.step = "rest"
    BY DEF Resting
  <2>3. blCode' \subseteq Fingerprint /\ blLog' \in BlLogType /\ LogIsWhole'
    BY <2>1 DEF BlInv, BlTypeOK, LogIsWhole
  <2> QED BY <2>1, <2>2, <2>3, BlCommandMovesOn
<1> QED BY <1>1, <1>2, <1>3, <1>4, <1>5, <1>6, <1>7, <1>8, <1>9, BlWriteKeeps DEF BlNext

\* Whatever commands overlap or die, the baseline suppresses only what somebody
\* accepted; and without overlaps and deaths nothing that was pruned since.
THEOREM BaselineHonest == BlSpec => []BaselineIsHonest
<1>1. BlInit => BlInv
  <2> SUFFICES ASSUME BlInit PROVE BlInv
    OBVIOUS
  <2>1. BlTypeOK
    BY DEF BlInit, BlTypeOK, BlLogType
  <2>2. \A u \in User : blDoing[u] = Resting
    BY DEF BlInit
  <2>3. LogIsWhole /\ PruningsAreSound /\ OneAtATime
    BY <2>2 DEF BlInit, LogIsWhole, PruningsAreSound, OneAtATime, Resting
  <2> QED BY <2>1, <2>3 DEF BlInit, BlInv, AcceptedOnlyIfAsked, ReintroducedIsReported
<1>2. BlInv => BaselineIsHonest
  BY DEF BlInv, PruningsAreSound, BaselineIsHonest, PrunedWereFixed
<1> QED BY <1>1, <1>2, StepKeepsTheBaseline, PTL DEF BlSpec

-----------------------------------------------------------------------------
\* The code memory: code_memory.py's index of sources that change.

\* The index when nothing but its three fields is known of it.
CmIndexOK ==
  /\ cmIndex = [symbols |-> cmIndex.symbols, edges |-> cmIndex.edges, hashes |-> cmIndex.hashes]
  /\ cmIndex.hashes \in [SourceFile -> Sources \cup {Unparsable}]
  /\ cmDisk \in [SourceFile -> Sources \cup {Unparsable}]
  /\ \A s \in cmIndex.symbols : s.file \in SourceFile
  /\ \A e \in cmIndex.edges : e.file \in SourceFile

\* What a file should have in an index that has its source.
SymbolsOf(hashes, file) == IF hashes[file] = Unparsable THEN {} ELSE Symbols(file, hashes[file])
EdgesOf(hashes, file) == IF hashes[file] = Unparsable THEN {} ELSE Edges(file, hashes[file])

\* A file that has always parsed has its symbols and no others, all its edges,
\* and no others but such as are made at the level of a module.
IsIndexed(file) ==
  /\ {s \in cmIndex.symbols : s.file = file} = SymbolsOf(cmIndex.hashes, file)
  /\ EdgesOf(cmIndex.hashes, file) \subseteq cmIndex.edges
  /\ \A e \in cmIndex.edges :
       e.file = file /\ e.from # ModuleLevel => e \in EdgesOf(cmIndex.hashes, file)

CmInv == CmIndexOK /\ \A f \in SourceFile \ cmMarred : IsIndexed(f)

\* Symbols and edges bear the name of their file.
LEMMA ArtifactsAreNamed ==
  ASSUME NEW file, NEW source
  PROVE  /\ \A s \in Symbols(file, source) : s.file = file
         /\ \A e \in Edges(file, source) : e.file = file
  BY DEF Symbols, Edges

\* A file is read anew: whatever others have in the index stays.
LEMMA IndexFileKeeps ==
  ASSUME CmInv, NEW f \in SourceFile, NEW removed, removed = _remove_file_symbols(cmIndex, f),
         UNCHANGED cmDisk,
         IF cmDisk[f] = Unparsable
           THEN cmIndex' = removed /\ cmMarred' = cmMarred \cup {f}
         ELSE cmIndex' = _add_file_artifacts(removed, f, cmDisk[f]) /\ cmMarred' = cmMarred \ {f}
  PROVE  CmInv'
<1> DEFINE source == cmDisk[f]
<1>1. /\ removed = [symbols |-> removed.symbols, edges |-> removed.edges, hashes |-> removed.hashes]
      /\ removed.symbols = {s \in cmIndex.symbols : s.file # f}
      /\ removed.edges = {e \in cmIndex.edges : e.file # f \/ e.from = ModuleLevel}
      /\ removed.hashes = cmIndex.hashes
  BY DEF CmInv, CmIndexOK, _remove_file_symbols
<1>2. /\ cmIndex.hashes \in [SourceFile -> Sources \cup {Unparsable}]
      /\ source \in Sources \cup {Unparsable}
      /\ cmDisk' \in [SourceFile -> Sources \cup {Unparsable}]
  BY DEF CmInv, CmIndexOK
<1>3. CASE source = Unparsable
  <2>1. cmIndex' = removed /\ cmMarred' = cmMarred \cup {f}
    BY <1>3
  <2>2. CmIndexOK'
    BY <1>1, <1>2, <2>1 DEF CmInv, CmIndexOK
  <2>3. ASSUME NEW g \in SourceFile \ cmMarred' PROVE IsIndexed(g)'
    <3>1. g # f /\ IsIndexed(g)
      BY <2>1, <2>3 DEF CmInv
    <3>2. {s \in removed.symbols : s.file = g} = {s \in cmIndex.symbols : s.file = g}
      BY <1>1, <3>1
    <3>3. \A e : e.file = g => (e \in removed.edges <=> e \in cmIndex.edges)
      BY <1>1, <3>1
    <3>4. \A e \in EdgesOf(cmIndex.hashes, g) : e.file = g
      BY ArtifactsAreNamed DEF EdgesOf
    <3>5. /\ {s \in removed.symbols : s.file = g} = SymbolsOf(removed.hashes, g)
          /\ EdgesOf(removed.hashes, g) \subseteq removed.edges
          /\ \A e \in removed.edges :
               e.file = g /\ e.from # ModuleLevel => e \in EdgesOf(removed.hashes, g)
      BY <1>1, <3>1, <3>2, <3>3, <3>4 DEF IsIndexed
    <3> QED BY <2>1, <3>5 DEF IsIndexed
  <2> QED BY <2>2, <2>3 DEF CmInv
<1>4. CASE source # Unparsable
  <2> DEFINE hashes == [cmIndex.hashes EXCEPT ![f] = source]
             symbols == removed.symbols \cup Symbols(f, source)
             edges == removed.edges \cup Edges(f, source)
  <2>1. /\ cmIndex' = [symbols |-> symbols, edges |-> edges, hashes |-> hashes]
        /\ cmMarred' = cmMarred \ {f}
    BY <1>1, <1>4 DEF _add_file_artifacts
  <2>2. /\ hashes \in [SourceFile -> Sources \cup {Unparsable}]
        /\ hashes[f] = source /\ \A g \in SourceFile \ {f} : hashes[g] = cmIndex.hashes[g]
    BY <1>2
  <2>3. (\A s \in symbols : s.file \in SourceFile) /\ \A e \in edges : e.file \in SourceFile
    BY <1>1, ArtifactsAreNamed DEF CmInv, CmIndexOK
  <2> HIDE DEF hashes, symbols, edges, source
  <2>4. CmIndexOK'
    BY <1>2, <2>1, <2>2, <2>3 DEF CmIndexOK
  <2>5. ASSUME NEW g \in SourceFile \ cmMarred'
        PROVE  /\ {s \in symbols : s.file = g} = SymbolsOf(hashes, g)
               /\ EdgesOf(hashes, g) \subseteq edges
               /\ \A e \in edges : e.file = g /\ e.from # ModuleLevel => e \in EdgesOf(hashes, g)
    <3>1. CASE g = f
      <4>1. SymbolsOf(hashes, g) = Symbols(f, source) /\ EdgesOf(hashes, g) = Edges(f, source)
        BY <1>4, <2>2, <3>1 DEF SymbolsOf, EdgesOf
      <4>2. {s \in symbols : s.file = g} = Symbols(f, source)
        BY <1>1, <3>1, ArtifactsAreNamed DEF symbols
      <4>3. /\ Edges(f, source) \subseteq edges
            /\ \A e \in edges : e.file = g /\ e.from # ModuleLevel => e \in Edges(f, source)
        BY <1>1, <3>1 DEF edges
      <4> QED BY <4>1, <4>2, <4>3
    <3>2. CASE g # f
      <4>1. IsIndexed(g)
        BY <2>1, <2>5, <3>2 DEF CmInv
      <4>2. SymbolsOf(hashes, g) = SymbolsOf(cmIndex.hashes, g)
            /\ EdgesOf(hashes, g) = EdgesOf(cmIndex.hashes, g)
        BY <2>2, <3>2 DEF SymbolsOf, EdgesOf
      <4>3. {s \in symbols : s.file = g} = {s \in cmIndex.symbols : s.file = g}
        BY <1>1, <3>2, ArtifactsAreNamed DEF symbols
      <4>4. \A e : e.file = g => (e \in edges <=> e \in cmIndex.edges)
        BY <1>1, <3>2, ArtifactsAreNamed DEF edges
      <4>5. \A e \in EdgesOf(cmIndex.hashes, g) : e.file = g
        BY ArtifactsAreNamed DEF EdgesOf
      <4> QED BY <4>1, <4>2, <4>3, <4>4, <4>5 DEF IsIndexed
    <3> QED BY <3>1, <3>2
  <2>6. ASSUME NEW g \in SourceFile \ cmMarred' PROVE IsIndexed(g)'
    <3>1. cmIndex'.symbols = symbols /\ cmIndex'.edges = edges /\ cmIndex'.hashes = hashes
      BY <2>1
    <3> QED BY <2>5, <3>1 DEF IsIndexed
  <2> QED BY <2>4, <2>6 DEF CmInv
<1> QED BY <1>3, <1>4

\* Every step of the code memory keeps its invariant.
LEMMA StepKeepsTheIndex == CmInv /\ [CmNext]_cmVars => CmInv'
<1> SUFFICES ASSUME CmInv, [CmNext]_cmVars PROVE CmInv'
  OBVIOUS
<1>1. CASE WriteSource
  <2>1. PICK f \in SourceFile, source \in Sources \cup {Unparsable} : cmDisk' = [cmDisk EXCEPT ![f] = source]
    BY <1>1 DEF WriteSource
  <2>2. cmDisk' \in [SourceFile -> Sources \cup {Unparsable}] /\ UNCHANGED <<cmIndex, cmMarred>>
    BY <1>1, <2>1 DEF WriteSource, CmInv, CmIndexOK
  <2>3. CmIndexOK'
    BY <2>2 DEF CmInv, CmIndexOK
  <2>4. \A g \in SourceFile \ cmMarred' : IsIndexed(g)'
    BY <2>2 DEF CmInv, IsIndexed
  <2> QED BY <2>3, <2>4 DEF CmInv
<1>2. CASE index_file
  <2>1. PICK f \in SourceFile :
          LET removed == _remove_file_symbols(cmIndex, f)
          IN IF cmDisk[f] = Unparsable
               THEN cmIndex' = removed /\ cmMarred' = cmMarred \cup {f}
             ELSE cmIndex' = _add_file_artifacts(removed, f, cmDisk[f]) /\ cmMarred' = cmMarred \ {f}
    BY <1>2 DEF index_file
  <2> QED BY <1>2, <2>1, IndexFileKeeps DEF index_file
<1>3. CASE UNCHANGED cmVars
  <2>1. CmIndexOK'
    BY <1>3 DEF cmVars, CmInv, CmIndexOK
  <2>2. \A g \in SourceFile \ cmMarred' : IsIndexed(g)'
    BY <1>3 DEF cmVars, CmInv, IsIndexed
  <2> QED BY <2>1, <2>2 DEF CmInv
<1> QED BY <1>1, <1>2, <1>3 DEF CmNext

\* In whatever order any number of files are edited and indexed, an audit of the
\* index reports the mismatches that an index made anew would.
THEOREM AuditIsSound == CmSpec => []AuditFollowsTheSources
<1>1. CmInit => CmInv
  <2> SUFFICES ASSUME CmInit PROVE CmInv
    OBVIOUS
  <2>1. PICK disk \in [SourceFile -> Sources] : IndexesNothing(disk)
    BY DEF CmInit
  <2>2. /\ cmDisk = disk /\ cmIndex.symbols = {} /\ cmIndex.edges = {}
        /\ cmIndex.hashes = [f \in SourceFile |-> Unparsable]
        /\ cmIndex = [symbols |-> {}, edges |-> {}, hashes |-> [f \in SourceFile |-> Unparsable]]
    BY <2>1 DEF IndexesNothing
  <2>3. CmIndexOK
    BY <2>2 DEF CmIndexOK
  <2>4. \A f \in SourceFile : IsIndexed(f)
    BY <2>2 DEF IsIndexed, SymbolsOf, EdgesOf
  <2> QED BY <2>3, <2>4 DEF CmInv
<1>2. CmInv => AuditFollowsTheSources
  <2> SUFFICES ASSUME CmInv, cmMarred = {}
               PROVE  /\ audit_signature_mismatches(Fresh) \subseteq audit_signature_mismatches(cmIndex)
                      /\ \A e \in audit_signature_mismatches(cmIndex) :
                           e.from # ModuleLevel => e \in audit_signature_mismatches(Fresh)
    BY DEF AuditFollowsTheSources, NoMismatchIsMissed, MismatchesAreMade
  <2>1. \A f \in SourceFile : IsIndexed(f)
    BY DEF CmInv
  <2>2. /\ Fresh.symbols = UNION {SymbolsOf(cmIndex.hashes, f) : f \in SourceFile}
        /\ Fresh.edges = UNION {EdgesOf(cmIndex.hashes, f) : f \in SourceFile}
    BY DEF Fresh, SymbolsOf, EdgesOf
  <2>3. Fresh.symbols = cmIndex.symbols
    <3>1. \A s : s \in cmIndex.symbols => s \in Fresh.symbols
      BY <2>1, <2>2 DEF IsIndexed, CmInv, CmIndexOK
    <3>2. \A s : s \in Fresh.symbols => s \in cmIndex.symbols
      BY <2>1, <2>2 DEF IsIndexed
    <3> QED BY <3>1, <3>2
  <2>4. Fresh.edges \subseteq cmIndex.edges
    BY <2>1, <2>2 DEF IsIndexed
  <2>5. \A e \in cmIndex.edges : e.from # ModuleLevel => e \in Fresh.edges
    BY <2>1, <2>2 DEF IsIndexed, CmInv, CmIndexOK
  <2>6. \A name : _resolve_target_symbol(Fresh, name) = _resolve_target_symbol(cmIndex, name)
    BY <2>3 DEF _resolve_target_symbol
  <2> QED BY <2>4, <2>5, <2>6 DEF audit_signature_mismatches
<1> QED BY <1>1, <1>2, StepKeepsTheIndex, PTL DEF CmSpec

-----------------------------------------------------------------------------
\* The crawlers: crawler.py's strategies, in memory and on file.

DsStrategy == [tier : {"static_http", "headless_browser"}, requires_js : BOOLEAN,
               delay : 1..MaxDelay, consecutive_successes : Nat, total_crawls : Nat]

\* A strategy after so many pages.
Sound(s, pages) ==
  s \in DsStrategy /\ (s.requires_js <=> s.tier = "headless_browser") /\ s.total_crawls <= pages

\* All that is known of any domain is sound.
AllSound(memory, pages) == \A d \in DOMAIN memory : Sound(memory[d], pages)

DsPage == [step : {"static_http", "headless_browser"}, domain : Domain]
DsSaving == {c \in [step : {"save", "write"}, domain : Domain,
             next : {Between} \cup [step : {"headless_browser"}, domain : Domain]] :
               c.next = Between \/ c.next.domain = c.domain}

\* Fetching, or about to fetch, a page that is not counted yet.
Ahead(c) == c.step \in {"static_http", "headless_browser"}
            \/ (c.step \in {"save", "write"} /\ c.next # Between)

\* A crawler that fetches a page has a strategy for its domain, that has not
\* counted the page, and is static if the crawler takes it for static.
AtItsPage(p) ==
  Ahead(dsDoing[p]) =>
    /\ dsDoing[p].domain \in DOMAIN dsMemory[p]
    /\ dsMemory[p][dsDoing[p].domain].total_crawls < dsPages
    /\ dsDoing[p].step = "static_http" => dsMemory[p][dsDoing[p].domain].tier = "static_http"

\* The crawler that saved last has on file what it knows, until it learns more.
OnFile(p) ==
  dsLast = p /\ dsDoing[p].step \notin {"save", "write"} /\ dsFile # Short =>
    \A d \in Domain : Recall(dsMemory[p], d) = Recall(dsFile, d)

DsInv ==
  /\ dsPages \in Nat /\ dsRestarts \in Nat
  /\ dsDoing \in [Crawler -> {Between} \cup DsPage \cup DsSaving]
  /\ dsMemory = [p \in Crawler |-> dsMemory[p]]
  /\ \A p \in Crawler : AllSound(dsMemory[p], dsPages) /\ AtItsPage(p) /\ OnFile(p)
  /\ dsFile # Short => AllSound(dsFile, dsPages)

\* Strategies stay sound as they are changed, and a page adds one to the count.
LEMMA StrategiesStaySound ==
  ASSUME NEW pages \in Nat, NEW s, Sound(s, pages)
  PROVE  /\ Sound(s, pages + 1)
         /\ Sound(Escalated(s), pages) /\ Escalated(s).tier = "headless_browser"
         /\ Escalated(s).total_crawls = s.total_crawls
         /\ Sound(Limited(s), pages) /\ Limited(s).tier = s.tier
         /\ s.total_crawls < pages =>
              \A tier \in {"static_http", "headless_browser"} :
                Sound(Succeeded(s, tier), pages) /\ Succeeded(s, tier).tier = tier
<1> USE DelayAssumption DEF Sound, DsStrategy
<1>1. Sound(s, pages + 1)
  OBVIOUS
<1>2. /\ Sound(Escalated(s), pages) /\ Escalated(s).tier = "headless_browser"
      /\ Escalated(s).total_crawls = s.total_crawls
  BY DEF Escalated
<1>3. Sound(Limited(s), pages) /\ Limited(s).tier = s.tier
  <2> DEFINE delay == IF 2 * s.delay < MaxDelay THEN 2 * s.delay ELSE MaxDelay
  <2>1. delay \in 1..MaxDelay
    OBVIOUS
  <2>2. Limited(s) = [s EXCEPT !.delay = delay]
    BY DEF Limited
  <2> HIDE DEF delay
  <2> QED BY <2>1, <2>2
<1>4. ASSUME s.total_crawls < pages, NEW tier \in {"static_http", "headless_browser"}
      PROVE  Sound(Succeeded(s, tier), pages) /\ Succeeded(s, tier).tier = tier
  <2>1. ASSUME NEW js \in BOOLEAN, NEW n \in Nat, NEW k \in Nat
        PROVE  [s EXCEPT !.tier = tier, !.requires_js = js,
                         !.consecutive_successes = n, !.total_crawls = k] \in DsStrategy
    OBVIOUS
  <2>2. s.consecutive_successes + 1 \in Nat /\ s.total_crawls + 1 \in Nat
        /\ (tier = "headless_browser") \in BOOLEAN
    OBVIOUS
  <2>3. Succeeded(s, tier) \in DsStrategy
    BY <2>1, <2>2 DEF Succeeded
  <2>4. /\ Succeeded(s, tier).tier = tier
        /\ Succeeded(s, tier).total_crawls = s.total_crawls + 1
        /\ Succeeded(s, tier).requires_js <=> Succeeded(s, tier).tier = "headless_browser"
    BY DEF Succeeded
  <2> QED BY <1>4, <2>3, <2>4
<1> QED BY <1>1, <1>2, <1>3, <1>4

\* What is not known yet is sound.
LEMMA RecallIsSound ==
  ASSUME NEW pages \in Nat, NEW memory, AllSound(memory, pages), NEW d
  PROVE  Sound(Recall(memory, d), pages)
  BY DelayAssumption DEF AllSound, Sound, Recall, Unknown, DsStrategy

\* Learning one strategy leaves the others.
LEMMA LearnKeeps ==
  ASSUME NEW memory, NEW d, NEW s
  PROVE  /\ DOMAIN Learn(memory, d, s) = DOMAIN memory \cup {d}
         /\ Learn(memory, d, s)[d] = s
         /\ \A e \in DOMAIN memory \ {d} : Learn(memory, d, s)[e] = memory[e]
         /\ \A pages : AllSound(memory, pages) /\ Sound(s, pages) => AllSound(Learn(memory, d, s), pages)
         /\ \A e : e # d => Recall(Learn(memory, d, s), e) = Recall(memory, e)
         /\ s = Recall(memory, d) => \A e : Recall(Learn(memory, d, s), e) = Recall(memory, e)
  BY DEF Learn, AllSound, Recall

\* Strategies that are sound stay so when more pages are taken up.
LEMMA SoundLonger ==
  ASSUME NEW pages \in Nat, NEW memory, AllSound(memory, pages)
  PROVE  AllSound(memory, pages + 1)
  BY StrategiesStaySound DEF AllSound

\* One crawler's step, when file, page count and last saver stay as they are.
LEMMA OthersAreLeft ==
  ASSUME DsInv, NEW p \in Crawler, NEW m, NEW c \in {Between} \cup DsPage \cup DsSaving,
         dsMemory' = [dsMemory EXCEPT ![p] = m], dsDoing' = [dsDoing EXCEPT ![p] = c],
         dsPages' \in {dsPages, dsPages + 1}, dsRestarts' \in Nat, UNCHANGED <<dsFile, dsLast>>,
         AllSound(m, dsPages'),
         Ahead(c) =>
           /\ c.domain \in DOMAIN m /\ m[c.domain].total_crawls < dsPages'
           /\ c.step = "static_http" => m[c.domain].tier = "static_http",
         dsLast = p /\ c.step \notin {"save", "write"} /\ dsFile # Short =>
           \A d \in Domain : Recall(m, d) = Recall(dsFile, d)
  PROVE  DsInv'
<1>1. /\ dsMemory'[p] = m /\ dsDoing'[p] = c /\ dsMemory' = [q \in Crawler |-> dsMemory'[q]]
      /\ \A q \in Crawler \ {p} : dsMemory'[q] = dsMemory[q] /\ dsDoing'[q] = dsDoing[q]
      /\ dsDoing' \in [Crawler -> {Between} \cup DsPage \cup DsSaving]
  BY DEF DsInv
<1>2. dsPages \in Nat /\ dsPages' \in Nat
  BY DEF DsInv
<1>3. \A memory : AllSound(memory, dsPages) => AllSound(memory, dsPages')
  BY <1>2, SoundLonger
<1>4. ASSUME NEW q \in Crawler PROVE (AllSound(dsMemory[q], dsPages) /\ AtItsPage(q) /\ OnFile(q))'
  <2>1. CASE q = p
    BY <1>1, <2>1 DEF AtItsPage, OnFile
  <2>2. CASE q # p
    <3>1. dsMemory'[q] = dsMemory[q] /\ dsDoing'[q] = dsDoing[q]
      BY <1>1, <2>2
    <3>2. AllSound(dsMemory[q], dsPages) /\ AtItsPage(q) /\ OnFile(q)
      BY DEF DsInv
    <3>3. AllSound(dsMemory[q], dsPages)'
      BY <1>3, <3>1, <3>2
    <3>4. AtItsPage(q)'
      <4>1. CASE Ahead(dsDoing[q])
        <5>1. dsDoing[q].domain \in DOMAIN dsMemory[q]
              /\ dsMemory[q][dsDoing[q].domain].total_crawls < dsPages
          BY <3>2, <4>1 DEF AtItsPage
        <5>2. dsMemory[q][dsDoing[q].domain].total_crawls \in Nat
          BY <3>2, <5>1 DEF AllSound, Sound, DsStrategy
        <5> QED BY <1>2, <3>1, <3>2, <5>1, <5>2 DEF AtItsPage
      <4>2. CASE ~Ahead(dsDoing[q])
        BY <3>1, <4>2 DEF AtItsPage
      <4> QED BY <4>1, <4>2
    <3>5. OnFile(q)'
      BY <3>1, <3>2 DEF OnFile
    <3> QED BY <3>3, <3>4, <3>5
  <2> QED BY <2>1, <2>2
<1>5. (dsFile # Short => AllSound(dsFile, dsPages))'
  BY <1>3 DEF DsInv
<1> QED BY <1>1, <1>2, <1>4, <1>5 DEF DsInv

\* A strategy is recorded for the page a crawler is at: it is sound, and not a
\* static one in the place of one that needs the browser.
RecordIsSound(p, s, next) ==
  /\ Sound(s, dsPages)
  /\ next \in {Between} \cup [step : {"headless_browser"}, domain : Domain]
  /\ next # Between => s.total_crawls < dsPages /\ next.domain = dsDoing[p].domain

\* Writing a sound record into a crawler's memory keeps the invariant.
LEMMA RecordKeeps ==
  ASSUME DsInv, NEW p \in Crawler, NEW s, NEW next, Record(p, s, next), RecordIsSound(p, s, next),
         dsDoing[p] \in DsPage, UNCHANGED <<dsFile, dsPages, dsRestarts, dsLast>>
  PROVE  DsInv'
<1> DEFINE d == dsDoing[p].domain
           m == Learn(dsMemory[p], d, s)
           c == [step |-> "save", domain |-> d, next |-> next]
<1>1. d \in Domain
  BY DEF DsPage
<1>2. c \in DsSaving /\ c.step = "save" /\ c.domain = d /\ c.next = next
  BY <1>1 DEF DsSaving, RecordIsSound
<1>3. dsMemory' = [dsMemory EXCEPT ![p] = m] /\ dsDoing' = [dsDoing EXCEPT ![p] = c]
  BY DEF Record, DsInv
<1>4. AllSound(m, dsPages)
  BY LearnKeeps DEF DsInv, RecordIsSound
<1>5. d \in DOMAIN m /\ m[d] = s
  BY DEF Learn
<1> HIDE DEF m, c, d
<1>6. Ahead(c) => c.domain \in DOMAIN m /\ m[c.domain].total_crawls < dsPages
  BY <1>2, <1>5 DEF Ahead, RecordIsSound
<1> QED BY <1>2, <1>3, <1>4, <1>6, OthersAreLeft DEF DsInv

\* A crawler gives up on its page.
LEMMA LeaveKeeps ==
  ASSUME DsInv, NEW p \in Crawler, Leave(p), dsDoing[p] \in DsPage,
         UNCHANGED <<dsFile, dsPages, dsRestarts, dsLast>>
  PROVE  DsInv'
<1>1. dsMemory' = [dsMemory EXCEPT ![p] = dsMemory[p]] /\ dsDoing' = [dsDoing EXCEPT ![p] = Between]
  <2>1. dsMemory = [dsMemory EXCEPT ![p] = dsMemory[p]]
    BY DEF DsInv
  <2> QED BY <2>1 DEF Leave
<1>2. Between \in {Between} /\ ~Ahead(Between) /\ Between.step = "between"
  BY DEF Between, Ahead
<1>3. AllSound(dsMemory[p], dsPages)
  BY DEF DsInv
<1>4. dsLast = p /\ dsFile # Short => \A d \in Domain : Recall(dsMemory[p], d) = Recall(dsFile, d)
  BY DEF DsInv, OnFile, DsPage
<1> QED BY <1>1, <1>2, <1>3, <1>4, OthersAreLeft DEF DsInv

\* What a crawler knows of the page it fetches.
LEMMA PageIsKnown ==
  ASSUME DsInv, NEW p \in Crawler, dsDoing[p].step \in {"static_http", "headless_browser"}
  PROVE  /\ dsDoing[p] \in DsPage
         /\ dsDoing[p].domain \in DOMAIN dsMemory[p]
         /\ Recall(dsMemory[p], dsDoing[p].domain) = dsMemory[p][dsDoing[p].domain]
         /\ Sound(dsMemory[p][dsDoing[p].domain], dsPages)
         /\ dsMemory[p][dsDoing[p].domain].total_crawls < dsPages
         /\ dsDoing[p].step = "static_http" => dsMemory[p][dsDoing[p].domain].tier = "static_http"
<1>1. dsDoing[p] \in DsPage
  BY DEF DsInv, Between, DsPage, DsSaving
<1>2. AllSound(dsMemory[p], dsPages) /\ AtItsPage(p)
  BY DEF DsInv
<1>3. Ahead(dsDoing[p])
  BY DEF Ahead
<1> QED BY <1>1, <1>2, <1>3 DEF AtItsPage, AllSound, Recall

\* The two fetches, whatever comes of them, keep the invariant and never turn a
\* domain that needs the browser into a static one.
LEMMA FetchKeeps ==
  ASSUME DsInv, NEW p \in Crawler, _attempt_static_extract(p) \/ _attempt_headless_extract(p)
  PROVE  DsInv' /\ EscalationSticks
<1> DEFINE d == dsDoing[p].domain
           s == dsMemory[p][d]
<1>1. /\ dsDoing[p] \in DsPage /\ d \in DOMAIN dsMemory[p] /\ Recall(dsMemory[p], d) = s
      /\ Sound(s, dsPages) /\ s.total_crawls < dsPages
      /\ dsDoing[p].step = "static_http" => s.tier = "static_http"
  BY PageIsKnown DEF _attempt_static_extract, _attempt_headless_extract
<1>2. UNCHANGED <<dsFile, dsPages, dsRestarts, dsLast>>
  BY DEF _attempt_static_extract, _attempt_headless_extract
<1>3. \/ Leave(p)
      \/ \E t, next : Record(p, t, next) /\ RecordIsSound(p, t, next)
                      /\ (s.tier = "headless_browser" => t.tier = "headless_browser")
  <2>1. dsPages \in Nat /\ d \in Domain
    BY <1>1 DEF DsInv, DsPage
  <2>2. /\ RecordIsSound(p, Succeeded(s, "static_http"), Between)
        /\ RecordIsSound(p, Succeeded(s, "headless_browser"), Between)
        /\ Succeeded(s, "headless_browser").tier = "headless_browser"
        /\ RecordIsSound(p, Limited(s), Between) /\ Limited(s).tier = s.tier
    BY <1>1, <2>1, StrategiesStaySound DEF RecordIsSound
  <2>3. [step |-> "headless_browser", domain |-> d] \in [step : {"headless_browser"}, domain : Domain]
    BY <2>1
  <2>4. /\ RecordIsSound(p, Escalated(s), [step |-> "headless_browser", domain |-> d])
        /\ Escalated(s).tier = "headless_browser"
    BY <1>1, <2>1, <2>3, StrategiesStaySound DEF RecordIsSound
  <2>5. CASE _attempt_static_extract(p)
    <3>1. dsDoing[p].step = "static_http" /\ s.tier # "headless_browser"
      BY <1>1, <2>5 DEF _attempt_static_extract
    <3>2. \/ Record(p, Succeeded(s, "static_http"), Between)
          \/ Record(p, Escalated(s), [step |-> "headless_browser", domain |-> d])
          \/ Record(p, Limited(s), Between) \/ Leave(p)
      BY <1>1, <2>5 DEF _attempt_static_extract
    <3> HIDE DEF s, d
    <3> QED BY <2>2, <2>4, <3>1, <3>2
  <2>6. CASE _attempt_headless_extract(p)
    <3>1. \/ Record(p, Succeeded(s, "headless_browser"), Between)
          \/ Record(p, Limited(s), Between) \/ Leave(p)
      BY <1>1, <2>6 DEF _attempt_headless_extract
    <3> HIDE DEF s, d
    <3> QED BY <2>2, <3>1
  <2> QED BY <2>5, <2>6
<1>4. CASE Leave(p)
  <2>1. EscalationSticks
    BY <1>4 DEF Leave, EscalationSticks
  <2> QED BY <1>1, <1>2, <1>4, <2>1, LeaveKeeps
<1>5. ASSUME NEW t, NEW next, Record(p, t, next), RecordIsSound(p, t, next),
             s.tier = "headless_browser" => t.tier = "headless_browser"
      PROVE  DsInv' /\ EscalationSticks
  <2>1. DsInv'
    BY <1>1, <1>2, <1>5, RecordKeeps
  <2>2. ASSUME NEW q \in Crawler, NEW e \in DOMAIN dsMemory[q],
               dsMemory[q][e].tier = "headless_browser"
        PROVE  dsMemory'[q][e].tier = "headless_browser"
    <3>1. /\ dsMemory'[p] = Learn(dsMemory[p], d, t)
          /\ \A r \in Crawler \ {p} : dsMemory'[r] = dsMemory[r]
      BY <1>5 DEF Record, DsInv
    <3>2. CASE q # p
      BY <2>2, <3>1, <3>2
    <3>3. CASE q = p /\ e # d
      BY <2>2, <3>1, <3>3 DEF Learn
    <3>4. CASE q = p /\ e = d
      BY <1>5, <2>2, <3>1, <3>4 DEF Learn
    <3> QED BY <3>2, <3>3, <3>4
  <2> QED BY <2>1, <2>2 DEF EscalationSticks
<1> QED BY <1>3, <1>4, <1>5

\* crawl_page: the invariant is kept, and an escalated strategy stays.
LEMMA CrawlPageKeeps ==
  ASSUME DsInv, NEW p \in Crawler, crawl_page(p)
  PROVE  DsInv' /\ EscalationSticks
<1>1. PICK d \in Domain :
        /\ dsMemory' = [dsMemory EXCEPT ![p] = Learn(dsMemory[p], d, Recall(dsMemory[p], d))]
        /\ dsDoing' = [dsDoing EXCEPT ![p] = [step |-> Recall(dsMemory[p], d).tier, domain |-> d]]
  BY DEF crawl_page, DsInv
<1> DEFINE s == Recall(dsMemory[p], d)
           m == Learn(dsMemory[p], d, s)
           c == [step |-> s.tier, domain |-> d]
<1>2. /\ dsDoing[p] = Between /\ dsPages' = dsPages + 1 /\ dsPages \in Nat
      /\ UNCHANGED <<dsFile, dsRestarts, dsLast>>
  BY DEF crawl_page, DsInv
<1>3. Sound(s, dsPages) /\ AllSound(dsMemory[p], dsPages)
  BY <1>2, RecallIsSound DEF DsInv
<1>4. s.tier \in {"static_http", "headless_browser"} /\ s.total_crawls \in Nat /\ s.total_crawls <= dsPages
  BY <1>3 DEF Sound, DsStrategy
<1>5. c \in DsPage /\ c.step = s.tier /\ c.domain = d
  BY <1>4 DEF DsPage
<1>6. /\ AllSound(m, dsPages) /\ d \in DOMAIN m /\ m[d] = s
      /\ \A e : Recall(m, e) = Recall(dsMemory[p], e)
      /\ \A e \in DOMAIN dsMemory[p] : m[e] = dsMemory[p][e]
  <2>1. AllSound(m, dsPages)
    BY <1>3, LearnKeeps
  <2>2. d \in DOMAIN m /\ m[d] = s /\ \A e \in DOMAIN dsMemory[p] : m[e] = dsMemory[p][e]
    BY DEF Learn, Recall
  <2>3. \A e : Recall(m, e) = Recall(dsMemory[p], e)
    BY DEF Learn, Recall
  <2> QED BY <2>1, <2>2, <2>3
<1>7. AllSound(m, dsPages')
  BY <1>2, <1>6, SoundLonger
<1>8. dsLast = p /\ dsFile # Short => \A e \in Domain : Recall(dsMemory[p], e) = Recall(dsFile, e)
  BY <1>2 DEF DsInv, OnFile, Between
<1>9. m[c.domain].total_crawls < dsPages'
  BY <1>2, <1>4, <1>5, <1>6
<1>10. dsMemory' = [dsMemory EXCEPT ![p] = m] /\ dsDoing' = [dsDoing EXCEPT ![p] = c]
  BY <1>1
<1> HIDE DEF m, c, s
<1>11. DsInv'
  BY <1>2, <1>4, <1>5, <1>6, <1>7, <1>8, <1>9, <1>10, OthersAreLeft DEF DsInv
<1>12. EscalationSticks
  BY <1>6, <1>10 DEF DsInv, EscalationSticks
<1> QED BY <1>11, <1>12

\* The truncation that starts a save keeps the invariant.
LEMMA SaveTruncatesKeeps ==
  ASSUME DsInv, NEW p \in Crawler, SaveTruncates(p)
  PROVE  DsInv' /\ EscalationSticks
<1> DEFINE c == [dsDoing[p] EXCEPT !.step = "write"]
<1>1. /\ dsDoing[p] \in DsSaving /\ dsFile' = Short /\ dsDoing' = [dsDoing EXCEPT ![p] = c]
      /\ UNCHANGED <<dsMemory, dsPages, dsRestarts, dsLast>>
  BY DEF SaveTruncates, DsInv, Between, DsPage, DsSaving
<1>2. /\ c \in DsSaving /\ c.step = "write" /\ c.next = dsDoing[p].next
      /\ c.domain = dsDoing[p].domain
  BY <1>1 DEF DsSaving
<1>3. Ahead(c) => Ahead(dsDoing[p])
  BY <1>1, <1>2 DEF Ahead, DsSaving
<1> HIDE DEF c
<1>4. /\ dsDoing'[p] = c /\ \A q \in Crawler \ {p} : dsDoing'[q] = dsDoing[q]
      /\ dsDoing' \in [Crawler -> {Between} \cup DsPage \cup DsSaving]
  BY <1>1, <1>2 DEF DsInv
<1>5. ASSUME NEW q \in Crawler PROVE (AllSound(dsMemory[q], dsPages) /\ AtItsPage(q) /\ OnFile(q))'
  <2>1. AllSound(dsMemory[q], dsPages)' /\ OnFile(q)'
    BY <1>1 DEF DsInv, OnFile
  <2>2. AtItsPage(q)'
    <3>1. AtItsPage(q)
      BY DEF DsInv
    <3>2. CASE q = p
      BY <1>1, <1>2, <1>3, <1>4, <3>1, <3>2 DEF AtItsPage
    <3>3. CASE q # p
      BY <1>1, <1>4, <3>1, <3>3 DEF AtItsPage
    <3> QED BY <3>2, <3>3
  <2> QED BY <2>1, <2>2
<1>6. DsInv'
  BY <1>1, <1>4, <1>5 DEF DsInv
<1> QED BY <1>1, <1>6 DEF EscalationSticks

\* The write that ends a save keeps the invariant.
LEMMA SaveWritesKeeps ==
  ASSUME DsInv, NEW p \in Crawler, SaveWrites(p)
  PROVE  DsInv' /\ EscalationSticks
<1> DEFINE c == dsDoing[p].next
<1>1. /\ dsDoing[p] \in DsSaving /\ dsFile' = dsMemory[p] /\ dsDoing' = [dsDoing EXCEPT ![p] = c]
      /\ dsLast' = p /\ UNCHANGED <<dsMemory, dsPages, dsRestarts>>
      /\ dsDoing[p].step = "write"
  BY DEF SaveWrites, Dump, DsInv, Between, DsPage, DsSaving
<1>2. c = Between \/ c \in [step : {"headless_browser"}, domain : Domain]
  BY <1>1 DEF DsSaving
<1>3. c \in {Between} \cup DsPage /\ c.step \in {"between", "headless_browser"}
  BY <1>2 DEF DsPage, Between
<1>4. Ahead(c) => c # Between
  BY DEF Ahead, Between
<1> HIDE DEF c
<1>5. /\ dsDoing'[p] = c /\ \A q \in Crawler \ {p} : dsDoing'[q] = dsDoing[q]
      /\ dsDoing' \in [Crawler -> {Between} \cup DsPage \cup DsSaving]
  BY <1>1, <1>3 DEF DsInv
<1>6. AtItsPage(p)'
  <2>1. CASE c = Between
    BY <1>4, <1>5, <2>1 DEF AtItsPage
  <2>2. CASE c # Between
    <3>1. Ahead(dsDoing[p])
      BY <1>1, <2>2 DEF Ahead, c
    <3>2. c.step = "headless_browser" /\ c.domain \in Domain
      BY <1>2, <2>2
    <3>3. c.domain = dsDoing[p].domain
      BY <2>2, <1>1 DEF c, DsSaving
    <3> QED BY <1>1, <1>5, <3>1, <3>2, <3>3 DEF DsInv, AtItsPage
  <2> QED BY <2>1, <2>2
<1>7. ASSUME NEW q \in Crawler PROVE (AllSound(dsMemory[q], dsPages) /\ AtItsPage(q) /\ OnFile(q))'
  <2>1. AllSound(dsMemory[q], dsPages)'
    BY <1>1 DEF DsInv
  <2>2. OnFile(q)'
    BY <1>1 DEF OnFile
  <2>3. AtItsPage(q)'
    <3>1. CASE q = p
      BY <1>6, <3>1
    <3>2. CASE q # p
      BY <1>1, <1>5, <3>2 DEF DsInv, AtItsPage
    <3> QED BY <3>1, <3>2
  <2> QED BY <2>1, <2>2, <2>3
<1>8. DsInv'
  BY <1>1, <1>5, <1>7 DEF DsInv
<1> QED BY <1>1, <1>8 DEF EscalationSticks

\* A new crawler has whatever can be read of the file, and no page.
LEMMA RestartKeeps ==
  ASSUME DsInv, NEW p \in Crawler, Restart(p)
  PROVE  DsInv' /\ EscalationSticks
<1>1. /\ dsMemory' = [dsMemory EXCEPT ![p] = _load] /\ dsDoing' = [dsDoing EXCEPT ![p] = Between]
      /\ dsRestarts \in Nat /\ dsRestarts' = dsRestarts + 1
      /\ UNCHANGED <<dsFile, dsPages, dsLast>>
  BY DEF Restart, DsInv
<1>2. AllSound(_load, dsPages)
  BY DEF DsInv, AllSound, _load
<1>3. ~Ahead(Between)
  BY DEF Ahead, Between
<1>4. dsFile # Short => _load = dsFile
  BY DEF _load
<1>5. DsInv'
  <2>1. AllSound(_load, dsPages') /\ dsPages' \in {dsPages, dsPages + 1} /\ dsRestarts' \in Nat
    BY <1>1, <1>2
  <2>2. Between \in {Between} \cup DsPage \cup DsSaving
    OBVIOUS
  <2>3. dsFile # Short => \A d \in Domain : Recall(_load, d) = Recall(dsFile, d)
    BY <1>4
  <2> QED BY <1>1, <1>3, <2>1, <2>2, <2>3, OthersAreLeft
<1>6. dsRestarts' # dsRestarts
  BY <1>1
<1> QED BY <1>5, <1>6 DEF EscalationSticks

\* Every step of a crawler keeps the invariant, and forgets no escalation.
LEMMA StepKeepsTheStrategies ==
  DsInv /\ [DsNext]_dsVars => DsInv' /\ EscalationSticks
<1> SUFFICES ASSUME DsInv, [DsNext]_dsVars PROVE DsInv' /\ EscalationSticks
  OBVIOUS
<1>1. CASE UNCHANGED dsVars
  <2>1. DsInv'
    BY <1>1 DEF dsVars, DsInv, AtItsPage, OnFile
  <2> QED BY <1>1, <2>1 DEF dsVars, EscalationSticks
<1>2. CASE DsNext
  BY <1>2, CrawlPageKeeps, FetchKeeps, SaveTruncatesKeeps, SaveWritesKeeps, RestartKeeps DEF DsNext
<1> QED BY <1>1, <1>2

\* However crawlers share the file, die in the middle of a save and start again:
\* what any of them knows and what is on file is sound, a save loses nothing of
\* what its crawler learned, and a domain that needs the browser keeps it.
THEOREM CrawlersRemember == DsSpec => StrategiesAreRemembered
<1>1. DsInit => DsInv
  <2> SUFFICES ASSUME DsInit PROVE DsInv
    OBVIOUS
  <2>1. dsFile = <<>> /\ dsMemory = [p \in Crawler |-> <<>>] /\ dsDoing = [p \in Crawler |-> Between]
        /\ dsPages = 0 /\ dsRestarts = 0
    BY DEF DsInit
  <2>2. AllSound(<<>>, 0)
    BY DEF AllSound
  <2>3. ~Ahead(Between)
    BY DEF Ahead, Between
  <2> QED BY <2>1, <2>2, <2>3 DEF DsInv, AtItsPage, OnFile
<1>2. DsInv => StrategiesAreSound /\ LearnedIsOnFile
  <2> SUFFICES ASSUME DsInv PROVE StrategiesAreSound /\ LearnedIsOnFile
    OBVIOUS
  <2>1. StrategiesAreSound
    BY DEF DsInv, AllSound, Sound, DsStrategy, StrategiesAreSound
  <2>2. LearnedIsOnFile
    BY DEF DsInv, OnFile, Between, LearnedIsOnFile
  <2> QED BY <2>1, <2>2
<1>3. DsInv /\ [DsNext]_dsVars => [StrategiesAreSound' /\ LearnedIsOnFile' /\ EscalationSticks]_dsVars
  <2> SUFFICES ASSUME DsInv, [DsNext]_dsVars
               PROVE  StrategiesAreSound' /\ LearnedIsOnFile' /\ EscalationSticks
    OBVIOUS
  <2>1. DsInv' /\ EscalationSticks
    BY StepKeepsTheStrategies
  <2>2. StrategiesAreSound' /\ LearnedIsOnFile'
    BY <1>2, <2>1, PTL
  <2> QED BY <2>1, <2>2
<1> QED BY <1>1, <1>2, <1>3, StepKeepsTheStrategies, PTL DEF DsSpec, StrategiesAreRemembered
-----------------------------------------------------------------------------
\* The watch loop: resource_iteration_workbench.py among editors and other runs.

Times == [File -> {Nothing} \cup Nat]
SnapshotTick == [step : {"snapshot"}, todo : SUBSET File, found : Times]
ScanTick == [step : {"scan"}, found : Times, todo : SUBSET File, scans : [File -> {Nothing} \cup AScan]]
TestTick == [step : {"test"}, found : Times, scans : [File -> {Nothing} \cup AScan], base : Times]

WbTypeOK ==
  /\ wbFiles \in [File -> {Nothing} \cup AFile] /\ wbTouched \in [File -> Nat]
  /\ wbClock \in Nat /\ wbCount \in [edits : Nat, runs : Nat]
  /\ wbSnapshot \in Times /\ wbBaseline \in Times
  /\ wbReport \in [File -> {Nothing} \cup AReport]
  /\ wbTick \in {Asleep} \cup SnapshotTick \cup ScanTick \cup TestTick

\* The time of a file is that of its last edit, which is not to come.
TimesAreTrue ==
  \A f \in File : /\ wbTouched[f] <= wbClock
                  /\ wbFiles[f] # Nothing => wbFiles[f].mtime = wbTouched[f]

\* Times that were found are of the last edit or of one before.
Past(times, touched) == \A f \in File : times[f] = Nothing \/ times[f] <= touched[f]

\* As far as the times tell, the file is as it was when they were found.
Unchanged(f, times) == wbFiles[f] # Nothing /\ f \notin wbBlurred /\ times[f] = wbFiles[f].mtime

\* What has been scanned since the times were found is the file as it is.
ScansAreCurrent ==
  \A f \in File :
    wbTick.step \in {"scan", "test"} /\ Unchanged(f, wbTick.found) =>
      \/ wbTick.step = "scan" /\ f \in wbTick.todo
      \/ wbTick.scans[f] # Nothing /\ wbTick.scans[f].edit = wbFiles[f].edit

\* So is what was reported when the snapshot was kept.
ReportIsCurrent ==
  \A f \in File : Unchanged(f, wbSnapshot) => wbReport[f] # Nothing /\ wbReport[f].edit = wbFiles[f].edit

\* The baseline is the last report's, on file and where it is loaded.
BaselineIsTheReports ==
  ~wbDisturbed => /\ wbBaseline = Complexities(wbReport)
                  /\ wbTick.step = "test" => wbTick.base = Complexities(wbReport)

WbInv ==
  /\ WbTypeOK /\ TimesAreTrue /\ Past(wbSnapshot, wbTouched)
  /\ wbTick.step # "asleep" => Past(wbTick.found, wbTouched)
  /\ ScansAreCurrent /\ ReportIsCurrent /\ BaselineIsTheReports

\* Which kind of tick it is, its step tells.
LEMMA StepsAreTold ==
  ASSUME WbTypeOK
  PROVE  /\ wbTick.step \in {"asleep", "snapshot", "scan", "test"}
         /\ wbTick.step = "asleep" => wbTick = Asleep
         /\ wbTick.step = "snapshot" => wbTick \in SnapshotTick
         /\ wbTick.step = "scan" => wbTick \in ScanTick
         /\ wbTick.step = "test" => wbTick \in TestTick
  BY DEF WbTypeOK, Asleep, SnapshotTick, ScanTick, TestTick

\* A file that is touched is blurred or shows it, by any times found before.
LEMMA TouchShows ==
  ASSUME WbTypeOK, TimesAreTrue, Touch, NEW times \in Times, Past(times, wbTouched),
         NEW g \in File, Unchanged(g, times)'
  PROVE  Unchanged(g, times) /\ wbFiles'[g] = wbFiles[g]
<1>1. PICK f \in File :
        /\ \E new \in {Nothing} \cup
             [edit : {wbCount'.edits}, mtime : {wbClock}, complexity : 1..MaxComplexity] :
             wbFiles' = [wbFiles EXCEPT ![f] = new]
        /\ wbTouched' = [wbTouched EXCEPT ![f] = wbClock]
        /\ wbBlurred' = IF wbTouched[f] = wbClock THEN wbBlurred \cup {f} ELSE wbBlurred
  BY DEF Touch
<1>2. PICK new \in {Nothing} \cup
             [edit : {wbCount'.edits}, mtime : {wbClock}, complexity : 1..MaxComplexity] :
             wbFiles' = [wbFiles EXCEPT ![f] = new]
  BY <1>1
<1>3. CASE g = f
  <2>1. wbFiles'[f] = new /\ new # Nothing /\ times[f] = new.mtime /\ wbTouched[f] # wbClock
    BY <1>1, <1>2, <1>3 DEF WbTypeOK, Unchanged
  <2>2. new.mtime = wbClock
    BY <2>1
  <2>3. wbTouched[f] < wbClock /\ wbClock \in Nat
    BY <2>1 DEF WbTypeOK, TimesAreTrue
  <2> QED BY <2>1, <2>2, <2>3, NothingAssumption DEF Past, WbTypeOK
<1>4. CASE g # f
  BY <1>1, <1>2, <1>4 DEF WbTypeOK, Unchanged
<1> QED BY <1>3, <1>4

\* An edit keeps the invariant.
LEMMA TouchKeeps ==
  ASSUME WbInv, Touch
  PROVE  WbInv'
<1>1. PICK f \in File, new \in {Nothing} \cup
             [edit : {wbCount'.edits}, mtime : {wbClock}, complexity : 1..MaxComplexity] :
        /\ wbFiles' = [wbFiles EXCEPT ![f] = new]
        /\ wbTouched' = [wbTouched EXCEPT ![f] = wbClock]
  BY DEF Touch
<1>2. /\ wbCount' = [wbCount EXCEPT !.edits = @ + 1]
      /\ UNCHANGED <<wbClock, wbSnapshot, wbTick, wbReport, wbBaseline, wbDisturbed>>
  BY DEF Touch
<1>3. WbTypeOK /\ TimesAreTrue
  BY DEF WbInv
<1>4. wbCount' \in [edits : Nat, runs : Nat] /\ wbCount'.edits \in Nat
  BY <1>2, <1>3 DEF WbTypeOK
<1>5. new \in {Nothing} \cup AFile /\ (new # Nothing => new.mtime = wbClock)
  BY <1>1, <1>3, <1>4 DEF WbTypeOK, AFile
<1>6. WbTypeOK'
  BY <1>1, <1>2, <1>3, <1>4, <1>5 DEF WbTypeOK
<1>7. TimesAreTrue'
  BY <1>1, <1>2, <1>3, <1>5 DEF WbTypeOK, TimesAreTrue
<1>8. \A times \in Times : Past(times, wbTouched) => Past(times, wbTouched')
  <2> SUFFICES ASSUME NEW times \in Times, Past(times, wbTouched), NEW g \in File
               PROVE  times[g] = Nothing \/ times[g] <= wbTouched'[g]
    BY DEF Past
  <2>1. times[g] = Nothing \/ (times[g] \in Nat /\ times[g] <= wbTouched[g])
    BY DEF Past, Times
  <2>2. wbTouched[g] <= wbTouched'[g] /\ wbTouched[g] \in Nat /\ wbTouched'[g] \in Nat
    BY <1>1, <1>3 DEF WbTypeOK, TimesAreTrue
  <2> QED BY <2>1, <2>2
<1>9. wbTick.step # "asleep" => wbTick.found \in Times
  BY <1>3, StepsAreTold DEF SnapshotTick, ScanTick, TestTick
<1>10. Past(wbSnapshot', wbTouched')
  BY <1>2, <1>3, <1>8 DEF WbInv, WbTypeOK
<1>11. (wbTick.step # "asleep" => Past(wbTick.found, wbTouched))'
  BY <1>2, <1>8, <1>9 DEF WbInv
<1>12. ScansAreCurrent'
  <2> SUFFICES ASSUME NEW g \in File, wbTick.step \in {"scan", "test"}, Unchanged(g, wbTick.found)'
               PROVE  \/ wbTick.step = "scan" /\ g \in wbTick.todo
                      \/ wbTick.scans[g] # Nothing /\ wbTick.scans[g].edit = wbFiles'[g].edit
    BY <1>2 DEF ScansAreCurrent
  <2>1. Unchanged(g, wbTick.found) /\ wbFiles'[g] = wbFiles[g]
    <3> DEFINE times == wbTick.found
    <3>1. times \in Times /\ Past(times, wbTouched)
      BY <1>9 DEF WbInv
    <3>2. Unchanged(g, times)'
      OBVIOUS
    <3>3. wbFiles'[g] # Nothing /\ g \notin wbBlurred' /\ times[g] = wbFiles'[g].mtime
      BY <1>2, <3>2 DEF Unchanged
    <3> QED BY <1>3, <3>1, <3>3, TouchShows DEF Unchanged
  <2> QED BY <2>1 DEF WbInv, ScansAreCurrent
<1>13. ReportIsCurrent'
  <2> SUFFICES ASSUME NEW g \in File, Unchanged(g, wbSnapshot)'
               PROVE  wbReport[g] # Nothing /\ wbReport[g].edit = wbFiles'[g].edit
    BY <1>2 DEF ReportIsCurrent
  <2>1. Unchanged(g, wbSnapshot) /\ wbFiles'[g] = wbFiles[g]
    <3>1. wbSnapshot \in Times /\ Past(wbSnapshot, wbTouched)
      BY <1>3 DEF WbInv, WbTypeOK
    <3>2. wbFiles'[g] # Nothing /\ g \notin wbBlurred' /\ wbSnapshot[g] = wbFiles'[g].mtime
      BY <1>2 DEF Unchanged
    <3> QED BY <1>3, <3>1, <3>2, TouchShows DEF Unchanged
  <2> QED BY <2>1 DEF WbInv, ReportIsCurrent
<1>14. BaselineIsTheReports'
  BY <1>2 DEF WbInv, BaselineIsTheReports, Complexities
<1> QED BY <1>6, <1>7, <1>10, <1>11, <1>12, <1>13, <1>14 DEF WbInv

\* Time passes, or another run saves its own baseline.
LEMMA ElapseKeeps ==
  ASSUME WbInv, Elapse \/ OtherRun
  PROVE  WbInv'
<1>1. UNCHANGED <<wbFiles, wbTouched, wbSnapshot, wbTick, wbReport, wbBlurred>>
  BY DEF Elapse, OtherRun
<1>2. /\ wbClock' \in Nat /\ wbClock' >= wbClock
      /\ wbCount' \in [edits : Nat, runs : Nat]
      /\ wbBaseline' \in Times
  <2>1. CASE Elapse
    BY <2>1 DEF Elapse, WbInv, WbTypeOK
  <2>2. CASE OtherRun
    <3>1. wbClock' = wbClock /\ wbCount' = [wbCount EXCEPT !.runs = @ + 1]
      BY <2>2 DEF OtherRun
    <3>2. PICK matching \in SUBSET Present :
            wbBaseline' = [f \in File |-> IF f \in matching THEN wbFiles[f].complexity ELSE Nothing]
      BY <2>2 DEF OtherRun
    <3>3. \A f \in matching : wbFiles[f].complexity \in Nat
      BY DEF WbInv, WbTypeOK, Present, AFile
    <3> QED BY <3>1, <3>2, <3>3 DEF WbInv, WbTypeOK, Times
  <2> QED BY <2>1, <2>2
<1>3. WbTypeOK'
  BY <1>1, <1>2 DEF WbInv, WbTypeOK
<1>4. TimesAreTrue'
  BY <1>1, <1>2 DEF WbInv, WbTypeOK, TimesAreTrue
<1>5. Past(wbSnapshot', wbTouched') /\ (wbTick'.step # "asleep" => Past(wbTick'.found, wbTouched'))
  BY <1>1 DEF WbInv
<1>6. ScansAreCurrent' /\ ReportIsCurrent'
  BY <1>1 DEF WbInv, ScansAreCurrent, ReportIsCurrent, Unchanged
<1>7. BaselineIsTheReports'
  <2>1. CASE Elapse
    BY <1>1, <2>1 DEF Elapse, WbInv, BaselineIsTheReports, Complexities
  <2>2. CASE OtherRun
    BY <2>2 DEF OtherRun, BaselineIsTheReports
  <2> QED BY <2>1, <2>2
<1> QED BY <1>3, <1>4, <1>5, <1>6, <1>7 DEF WbInv

\* The steps of a tick before its end change nothing but the tick.
LEMMA TicksKeep ==
  ASSUME WbInv,
         UNCHANGED <<wbFiles, wbTouched, wbClock, wbCount, wbBlurred,
                     wbSnapshot, wbReport, wbBaseline, wbDisturbed>>,
         wbTick' \in {Asleep} \cup SnapshotTick \cup ScanTick \cup TestTick,
         wbTick'.step # "asleep" => Past(wbTick'.found, wbTouched),
         ScansAreCurrent',
         wbTick'.step = "test" => wbTick'.base = wbBaseline \/ wbDisturbed
  PROVE  WbInv'
<1>1. WbTypeOK' /\ TimesAreTrue'
  BY DEF WbInv, WbTypeOK, TimesAreTrue
<1>2. Past(wbSnapshot', wbTouched') /\ (wbTick'.step # "asleep" => Past(wbTick'.found, wbTouched'))
  BY DEF WbInv
<1>3. ReportIsCurrent'
  BY DEF WbInv, ReportIsCurrent, Unchanged
<1>4. BaselineIsTheReports'
  BY DEF WbInv, BaselineIsTheReports, Complexities
<1> QED BY <1>1, <1>2, <1>3, <1>4 DEF WbInv

\* A tick begins, looks at the times file by file, and scans if any differs.
LEMMA LookingKeeps ==
  ASSUME WbInv, watch_tick \/ snapshot \/ StartCycle
  PROVE  WbInv'
<1>1. UNCHANGED <<wbFiles, wbTouched, wbClock, wbCount, wbBlurred,
                  wbSnapshot, wbReport, wbBaseline, wbDisturbed>>
  BY DEF watch_tick, snapshot, StartCycle, Ticks
<1>2. WbTypeOK
  BY DEF WbInv
<1>3. CASE watch_tick
  <2>1. wbTick' = [step |-> "snapshot", todo |-> File, found |-> NoFiles]
    BY <1>3 DEF watch_tick, Ticks
  <2>2. NoFiles \in Times /\ Past(NoFiles, wbTouched)
    BY DEF NoFiles, Times, Past
  <2>3. wbTick' \in SnapshotTick /\ wbTick'.step = "snapshot" /\ wbTick'.found = NoFiles
    BY <2>1, <2>2 DEF SnapshotTick
  <2>4. ScansAreCurrent'
    BY <2>3 DEF ScansAreCurrent
  <2> QED BY <1>1, <2>2, <2>3, <2>4, TicksKeep
<1>4. CASE snapshot
  <2>1. PICK f \in wbTick.todo :
          wbTick' = [wbTick EXCEPT !.todo = @ \ {f}, !.found[f] = _safe_mtime(f)]
    BY <1>4 DEF snapshot, Ticks
  <2> DEFINE found == [wbTick.found EXCEPT ![f] = _safe_mtime(f)]
  <2>2. wbTick.step = "snapshot" /\ wbTick \in SnapshotTick /\ f \in File
    BY <1>2, <1>4, StepsAreTold DEF snapshot, SnapshotTick
  <2>3. /\ _safe_mtime(f) \in {Nothing} \cup Nat
        /\ _safe_mtime(f) = Nothing \/ _safe_mtime(f) <= wbTouched[f]
    BY <1>2, <2>2, NothingAssumption DEF _safe_mtime, Present, WbInv, WbTypeOK, AFile, TimesAreTrue
  <2>4. found \in Times /\ Past(found, wbTouched)
    BY <2>2, <2>3 DEF SnapshotTick, Times, WbInv, Past
  <2>5. wbTick' = [step |-> "snapshot", todo |-> wbTick.todo \ {f}, found |-> found]
    BY <2>1, <2>2 DEF SnapshotTick
  <2> HIDE DEF found
  <2>6. wbTick' \in SnapshotTick /\ wbTick'.step = "snapshot" /\ wbTick'.found = found
    BY <2>2, <2>4, <2>5 DEF SnapshotTick
  <2>7. ScansAreCurrent'
    BY <2>6 DEF ScansAreCurrent
  <2> QED BY <1>1, <2>4, <2>6, <2>7, TicksKeep
<1>5. CASE StartCycle
  <2>1. wbTick.step = "snapshot" /\ wbTick \in SnapshotTick /\ Past(wbTick.found, wbTouched)
    BY <1>2, <1>5, StepsAreTold DEF StartCycle, WbInv
  <2>2. \/ wbTick' = Asleep
        \/ wbTick' = [step |-> "scan", found |-> wbTick.found, todo |-> Present, scans |-> NoFiles]
    BY <1>5 DEF StartCycle, Ticks
  <2>3. CASE wbTick' = Asleep
    <3>1. wbTick'.step = "asleep"
      BY <2>3 DEF Asleep
    <3>2. ScansAreCurrent'
      BY <3>1 DEF ScansAreCurrent
    <3> QED BY <1>1, <2>3, <3>1, <3>2, TicksKeep
  <2>4. CASE wbTick' = [step |-> "scan", found |-> wbTick.found, todo |-> Present, scans |-> NoFiles]
    <3>1. NoFiles \in [File -> {Nothing} \cup AScan] /\ Present \in SUBSET File
      BY DEF NoFiles, Present
    <3>2. /\ wbTick' \in ScanTick /\ wbTick'.step = "scan" /\ wbTick'.found = wbTick.found
          /\ wbTick'.todo = Present
      BY <2>1, <2>4, <3>1 DEF ScanTick, SnapshotTick
    <3>3. ScansAreCurrent'
      BY <1>1, <3>2 DEF ScansAreCurrent, Unchanged, Present
    <3> QED BY <1>1, <2>1, <3>2, <3>3, TicksKeep
  <2> QED BY <2>2, <2>3, <2>4
<1> QED BY <1>3, <1>4, <1>5

\* The files are scanned, and the baseline loaded.
LEMMA ScanningKeeps ==
  ASSUME WbInv, scan_python_file \/ _load_baseline
  PROVE  WbInv'
<1>1. UNCHANGED <<wbFiles, wbTouched, wbClock, wbCount, wbBlurred,
                  wbSnapshot, wbReport, wbBaseline, wbDisturbed>>
  BY DEF scan_python_file, _load_baseline, Ticks
<1>2. WbTypeOK /\ wbTick.step = "scan" /\ wbTick \in ScanTick /\ Past(wbTick.found, wbTouched)
  BY StepsAreTold DEF WbInv, scan_python_file, _load_baseline
<1>3. CASE scan_python_file
  <2>1. PICK f \in wbTick.todo :
          wbTick' = [wbTick EXCEPT !.todo = @ \ {f}, !.scans[f] =
            IF f \in Present THEN [edit |-> wbFiles[f].edit, complexity |-> wbFiles[f].complexity]
            ELSE [edit |-> Nothing, complexity |-> 1]]
    BY <1>3 DEF scan_python_file, Ticks
  <2> DEFINE scan == IF f \in Present
                       THEN [edit |-> wbFiles[f].edit, complexity |-> wbFiles[f].complexity]
                     ELSE [edit |-> Nothing, complexity |-> 1]
             read == [wbTick.scans EXCEPT ![f] = scan]
  <2>2. f \in File
    BY <1>2 DEF ScanTick
  <2>3. scan \in AScan /\ (f \in Present => scan.edit = wbFiles[f].edit)
    BY <1>2, <2>2 DEF Present, WbTypeOK, AFile, AScan
  <2>4. wbTick' = [step |-> "scan", found |-> wbTick.found, todo |-> wbTick.todo \ {f}, scans |-> read]
    BY <1>2, <2>1 DEF ScanTick
  <2> HIDE DEF scan
  <2>5. /\ read \in [File -> {Nothing} \cup AScan] /\ read[f] = scan
        /\ \A g \in File \ {f} : read[g] = wbTick.scans[g]
    BY <1>2, <2>2, <2>3 DEF ScanTick
  <2> HIDE DEF read
  <2>6. /\ wbTick' \in ScanTick /\ wbTick'.step = "scan" /\ wbTick'.found = wbTick.found
        /\ wbTick'.todo = wbTick.todo \ {f} /\ wbTick'.scans = read
    BY <1>2, <2>4, <2>5 DEF ScanTick
  <2>7. ScansAreCurrent'
    <3> SUFFICES ASSUME NEW g \in File, Unchanged(g, wbTick.found), ~(g \in wbTick.todo \ {f})
                 PROVE  read[g] # Nothing /\ read[g].edit = wbFiles[g].edit
      BY <1>1, <2>6 DEF ScansAreCurrent, Unchanged
    <3>1. CASE g = f
      BY <2>3, <2>5, <3>1, NothingAssumption DEF Unchanged, Present
    <3>2. CASE g # f
      BY <1>2, <2>5, <3>2 DEF WbInv, ScansAreCurrent
    <3> QED BY <3>1, <3>2
  <2> QED BY <1>1, <1>2, <2>6, <2>7, TicksKeep
<1>4. CASE _load_baseline
  <2>1. /\ wbTick.todo = {}
        /\ wbTick' = [step |-> "test", found |-> wbTick.found, scans |-> wbTick.scans, base |-> wbBaseline]
    BY <1>4 DEF _load_baseline, Ticks, Loaded
  <2>2. /\ wbTick' \in TestTick /\ wbTick'.step = "test" /\ wbTick'.found = wbTick.found
        /\ wbTick'.scans = wbTick.scans /\ wbTick'.base = wbBaseline
    BY <1>2, <2>1 DEF TestTick, ScanTick, WbTypeOK
  <2>3. ScansAreCurrent'
    BY <1>1, <1>2, <2>1, <2>2 DEF WbInv, ScansAreCurrent, Unchanged
  <2> QED BY <1>1, <1>2, <2>2, <2>3, TicksKeep
<1> QED BY <1>3, <1>4

\* The report of a cycle is made of its scans, and so is the baseline it saves.
LEMMA EndCycleKeeps ==
  ASSUME WbInv, EndCycle
  PROVE  WbInv' /\ DeltasFollowReports
<1> DEFINE read == wbTick.scans
           base == wbTick.base
           report == [f \in File |->
             IF read[f] = Nothing THEN Nothing
             ELSE [edit |-> read[f].edit, complexity |-> read[f].complexity, delta |-> Delta(f)]]
<1>1. WbTypeOK /\ wbTick.step = "test" /\ wbTick \in TestTick
  BY StepsAreTold DEF WbInv, EndCycle, Ticks
<1>2. /\ wbTick' = Asleep /\ wbReport' = report /\ wbBaseline' = Complexities(read)
      /\ wbSnapshot' = wbTick.found /\ wbDisturbed' = FALSE
      /\ UNCHANGED <<wbFiles, wbTouched, wbClock, wbCount, wbBlurred>>
  BY DEF EndCycle, Ticks, Remembered
<1>3. read \in [File -> {Nothing} \cup AScan] /\ base \in Times /\ wbTick.found \in Times
  BY <1>1 DEF TestTick
<1>4. \A f \in File : read[f] # Nothing => Delta(f) \in Int \cup {Nothing}
  BY <1>3 DEF Delta, Times, AScan
<1>5. ASSUME NEW f \in File
      PROVE  /\ read[f] = Nothing => report[f] = Nothing
             /\ read[f] # Nothing => /\ report[f] \in AReport /\ report[f] # Nothing
                                      /\ report[f].edit = read[f].edit
                                      /\ report[f].complexity = read[f].complexity
                                      /\ report[f].delta = Delta(f)
  <2>1. CASE read[f] = Nothing
    BY <2>1
  <2>2. CASE read[f] # Nothing
    <3> DEFINE r == [edit |-> read[f].edit, complexity |-> read[f].complexity, delta |-> Delta(f)]
    <3>1. report[f] = r
      BY <2>2
    <3>2. read[f] \in AScan /\ Delta(f) \in Int \cup {Nothing}
      BY <1>3, <1>4, <2>2
    <3>3. r \in AReport
      BY <3>2 DEF AScan, AReport
    <3> QED BY <2>2, <3>1, <3>3, NothingAssumption
  <2> QED BY <2>1, <2>2
<1>6. report = [f \in File |-> report[f]]
  OBVIOUS
<1> HIDE DEF report
<1>7. report \in [File -> {Nothing} \cup AReport]
  BY <1>5, <1>6
<1>8. Complexities(read) = Complexities(report)
  BY <1>5 DEF Complexities
<1>9. Complexities(read) \in Times
  BY <1>3 DEF Complexities, Times, AScan
<1>10. wbTick'.step = "asleep"
  BY <1>2 DEF Asleep
<1>11. WbTypeOK'
  BY <1>1, <1>2, <1>3, <1>7, <1>9 DEF WbTypeOK
<1>12. TimesAreTrue' /\ Past(wbSnapshot', wbTouched')
  BY <1>1, <1>2 DEF WbInv, TimesAreTrue
<1>13. ScansAreCurrent'
  BY <1>10 DEF ScansAreCurrent
<1>14. ReportIsCurrent'
  <2> SUFFICES ASSUME NEW f \in File, Unchanged(f, wbTick.found)
               PROVE  report[f] # Nothing /\ report[f].edit = wbFiles[f].edit
    BY <1>2 DEF ReportIsCurrent, Unchanged
  <2>1. read[f] # Nothing /\ read[f].edit = wbFiles[f].edit
    BY <1>1 DEF WbInv, ScansAreCurrent
  <2> QED BY <1>5, <2>1
<1>15. BaselineIsTheReports'
  <2>1. Complexities(report)' = Complexities(report')
    BY DEF Complexities
  <2> QED BY <1>2, <1>8, <1>10 DEF BaselineIsTheReports
<1>16. WbInv'
  BY <1>10, <1>11, <1>12, <1>13, <1>14, <1>15 DEF WbInv
<1>17. DeltasFollowReports
  <2> SUFFICES ASSUME ~wbDisturbed, NEW f \in File, wbReport[f] # Nothing, report[f] # Nothing
               PROVE  report[f].delta = report[f].complexity - wbReport[f].complexity
    BY <1>2 DEF DeltasFollowReports
  <2>1. read[f] # Nothing /\ report[f].delta = Delta(f) /\ report[f].complexity = read[f].complexity
    BY <1>5
  <2>2. base[f] = wbReport[f].complexity
    BY <1>1 DEF WbInv, BaselineIsTheReports, Complexities
  <2>3. wbReport[f].complexity \in Nat
    BY <1>1 DEF WbTypeOK, AReport
  <2> QED BY <2>1, <2>2, <2>3, NothingAssumption DEF Delta
<1> QED BY <1>16, <1>17

\* Every step keeps the invariant, and a report follows the one before.
LEMMA StepKeepsTheReports ==
  WbInv /\ [WbNext]_wbVars => WbInv' /\ DeltasFollowReports
<1> SUFFICES ASSUME WbInv, [WbNext]_wbVars PROVE WbInv' /\ DeltasFollowReports
  OBVIOUS
<1>1. CASE EndCycle
  BY <1>1, EndCycleKeeps
<1>2. ASSUME wbReport' = wbReport PROVE DeltasFollowReports
  BY <1>2 DEF DeltasFollowReports
<1>3. CASE Touch
  BY <1>2, <1>3, TouchKeeps DEF Touch
<1>4. CASE Elapse \/ OtherRun
  BY <1>2, <1>4, ElapseKeeps DEF Elapse, OtherRun
<1>5. CASE watch_tick \/ snapshot \/ StartCycle
  BY <1>2, <1>5, LookingKeeps DEF watch_tick, snapshot, StartCycle
<1>6. CASE scan_python_file \/ _load_baseline
  BY <1>2, <1>6, ScanningKeeps DEF scan_python_file, _load_baseline
<1>7. CASE UNCHANGED wbVars
  <2>1. WbTypeOK' /\ TimesAreTrue' /\ Past(wbSnapshot', wbTouched')
        /\ (wbTick'.step # "asleep" => Past(wbTick'.found, wbTouched'))
    BY <1>7 DEF wbVars, WbInv, WbTypeOK, TimesAreTrue
  <2>2. ScansAreCurrent' /\ ReportIsCurrent' /\ BaselineIsTheReports'
    BY <1>7 DEF wbVars, WbInv, ScansAreCurrent, ReportIsCurrent, BaselineIsTheReports, Unchanged, Complexities
  <2> QED BY <1>2, <1>7, <2>1, <2>2 DEF WbInv, wbVars
<1> QED BY <1>1, <1>3, <1>4, <1>5, <1>6, <1>7 DEF WbNext

\* However edits, other runs and the loop's own steps are interleaved: what the
\* next tick will find unchanged is reported as it is, and a delta is against the
\* report before.
THEOREM ReportsFollow == WbSpec => ReportsAreCurrent
<1>1. WbInit => WbInv
  <2> SUFFICES ASSUME WbInit PROVE WbInv
    OBVIOUS
  <2>1. wbTick.step = "asleep" /\ NoFiles \in Times /\ NoFiles \in [File -> {Nothing} \cup AReport]
    BY DEF WbInit, Asleep, NoFiles, Times
  <2>2. [edit |-> 0, mtime |-> 0, complexity |-> 1] \in AFile
    BY DEF AFile
  <2>3. WbTypeOK
    BY <2>1, <2>2 DEF WbInit, WbTypeOK
  <2>4. TimesAreTrue
    BY DEF WbInit, TimesAreTrue
  <2>5. Past(wbSnapshot, wbTouched) /\ ScansAreCurrent
    BY <2>1 DEF WbInit, Past, NoFiles, ScansAreCurrent
  <2>6. ReportIsCurrent
    BY NothingAssumption DEF WbInit, ReportIsCurrent, Unchanged, NoFiles
  <2>7. BaselineIsTheReports
    BY <2>1 DEF WbInit, BaselineIsTheReports, NoFiles, Complexities
  <2> QED BY <2>1, <2>3, <2>4, <2>5, <2>6, <2>7 DEF WbInv
<1>2. WbInv => NothingIsMissed
  BY DEF WbInv, ReportIsCurrent, Unchanged, NothingIsMissed, _safe_mtime, Present
<1>3. WbInv /\ [WbNext]_wbVars => [NothingIsMissed' /\ DeltasFollowReports]_wbVars
  <2> SUFFICES ASSUME WbInv, [WbNext]_wbVars PROVE NothingIsMissed' /\ DeltasFollowReports
    OBVIOUS
  <2>1. WbInv' /\ DeltasFollowReports
    BY StepKeepsTheReports
  <2> QED BY <1>2, <2>1, PTL
<1> QED BY <1>1, <1>3, StepKeepsTheReports, PTL DEF WbSpec, ReportsAreCurrent
-----------------------------------------------------------------------------
\* The project board: sdlc_project_manager.py's passes of sync.

Cardlike == Defect \cup Deliverable
PbCard == [state : {"Backlog", "Ready", "In Progress", "Done"}, blocked : BOOLEAN, score : {1, 2, 3}]

\* Cards; those of defects all weigh the same and wait for nothing.
Cards(cards) ==
  /\ cards = [t \in DOMAIN cards |-> cards[t]]
  /\ \A t \in DOMAIN cards :
       /\ t \in Cardlike /\ cards[t] \in PbCard
       /\ t \in Defect => ~cards[t].blocked /\ cards[t].score = 2

AllInBacklog(cards) == \A t \in DOMAIN cards : cards[t].state = "Backlog"

\* A pass has the cards it has read, the board's as long as nobody else writes it.
PassIsSound ==
  /\ pbPass.step \in {"rest", "scan", "write"}
  /\ pbPass.step \in {"scan", "write"} =>
       Cards(pbPass.board) /\ (~pbDisturbed => pbPass.board = pbBoard)
  /\ pbPass.step = "write" =>
       /\ Cards(pbPass.scan) /\ pbPass.index \in Indexes(pbPass.scan)
       /\ AllInBacklog(pbPass.scan) \/ (~pbDisturbed => pbPass.scan = pbPass.board)
       /\ pbPass.merged \in advance_ready_item(reconcile_backlog(pbPass.board, pbPass.scan, pbPass.index))

RoadmapIsSound ==
  /\ pbRoadmap = [t \in DOMAIN pbRoadmap |-> pbRoadmap[t]]
  /\ DOMAIN pbRoadmap \subseteq Deliverable
  /\ \A t \in DOMAIN pbRoadmap : pbRoadmap[t] \in [score : {1, 3}, blocked : BOOLEAN]

PbInv ==
  /\ RoadmapIsSound /\ PassIsSound
  /\ pbScan # Truncated => Cards(pbScan) /\ AllInBacklog(pbScan)
  /\ pbBoard # Truncated => Cards(pbBoard)

\* What becomes of one card that the board has.
KeptOf(board, scan, index, c) ==
  IF c \in Deliverable THEN _reconcile_roadmap_card(board[c], c.title, scan, index)
  ELSE _reconcile_defect_card(board[c], c.title \in DOMAIN index)

KnownOf(board, scan, index) == {c \in DOMAIN board : KeptOf(board, scan, index, c) # {}}

WithState(card, state) == [card EXCEPT !.state = state]

\* An index has every title of the scan, under which is a card of that title.
LEMMA IndexOf ==
  ASSUME NEW scan, NEW index \in Indexes(scan)
  PROVE  /\ DOMAIN index = TitlesOf(scan)
         /\ \A title \in TitlesOf(scan) : index[title] \in DOMAIN scan /\ index[title].title = title
BY DEF Indexes

\* What the reconciliation makes of cards: nothing that is open is dropped, each title
\* of the scan is there with what the scan says of it, and what the scan could have
\* reported and does not is done.
LEMMA Reconciled ==
  ASSUME NEW board, NEW scan, Cards(board), Cards(scan), NEW index \in Indexes(scan),
         NEW r, r = reconcile_backlog(board, scan, index)
  PROVE  /\ Cards(r) /\ TitlesOf(scan) \subseteq TitlesOf(r)
         /\ \A c \in DOMAIN board \ DOMAIN r : board[c].state = "Done"
         /\ \A c \in DOMAIN r \cap DOMAIN board : r[c].state \in {board[c].state, "Done"}
         /\ \A c \in DOMAIN r \ DOMAIN board : c \in DOMAIN scan /\ r[c] = scan[c]
         /\ \A c \in DOMAIN r : c.title \in TitlesOf(scan) =>
              /\ r[c].blocked = scan[index[c.title]].blocked
              /\ r[c].score = scan[index[c.title]].score
         /\ \A c \in DOMAIN r : c.title \notin TitlesOf(scan) =>
              /\ c \in DOMAIN board
              /\ c \in Defect \/ roadmap_ingested(scan) => r[c].state = "Done"
              /\ c \notin Defect /\ ~roadmap_ingested(scan) => r[c] = board[c]
<1> DEFINE T == TitlesOf(scan)
           known == KnownOf(board, scan, index)
           unseen == _append_unseen_tasks(known, index)
           says(c) == scan[index[c.title]]
<1>0. DOMAIN index = T /\ \A title \in T : index[title] \in DOMAIN scan /\ index[title].title = title
  BY IndexOf
<1>1. /\ r = [c \in DOMAIN r |-> r[c]]
      /\ DOMAIN r = known \cup unseen
      /\ \A c \in known : r[c] \in KeptOf(board, scan, index, c)
      /\ \A c \in DOMAIN r \ known : r[c] = scan[c]
  <2>1. r = [c \in known \cup unseen |->
               IF c \in known THEN CHOOSE card \in KeptOf(board, scan, index, c) : TRUE ELSE scan[c]]
    BY DEF reconcile_backlog, KnownOf, KeptOf
  <2>2. \A c \in known : (CHOOSE card \in KeptOf(board, scan, index, c) : TRUE) \in KeptOf(board, scan, index, c)
    BY DEF KnownOf
  <2> HIDE DEF known, unseen
  <2> QED BY <2>1, <2>2
<1>2. /\ \A c \in DOMAIN board : c \in Cardlike /\ board[c] \in PbCard
                                 /\ (c \in Defect => ~board[c].blocked /\ board[c].score = 2)
      /\ \A c \in DOMAIN scan : c \in Cardlike /\ scan[c] \in PbCard
                                /\ (c \in Defect => ~scan[c].blocked /\ scan[c].score = 2)
  BY DEF Cards
<1>3. \A c \in Cardlike : (c \in Defect /\ c \notin Deliverable) \/ (c \in Deliverable /\ c \notin Defect)
  BY TitleAssumption DEF Cardlike
<1>4. ASSUME NEW c \in DOMAIN board
      PROVE  IF c \in Defect
               THEN IF c.title \in T THEN KeptOf(board, scan, index, c) = {board[c]}
                    ELSE IF board[c].state = "Done" THEN KeptOf(board, scan, index, c) = {}
                    ELSE KeptOf(board, scan, index, c) = {WithState(board[c], "Done")}
             ELSE IF c.title \in T THEN KeptOf(board, scan, index, c) = {WithState(says(c), board[c].state)}
             ELSE IF roadmap_ingested(scan) THEN KeptOf(board, scan, index, c) = {WithState(board[c], "Done")}
             ELSE KeptOf(board, scan, index, c) = {board[c]}
  <2> HIDE DEF T
  <2>1. c \in Deliverable <=> c \notin Defect
    BY <1>2, <1>3
  <2> QED BY <1>0, <2>1 DEF KeptOf, WithState, _reconcile_defect_card, _reconcile_roadmap_card,
                            _refresh_roadmap_card
<1>5. ASSUME NEW card \in PbCard, NEW state \in {"Backlog", "Ready", "In Progress", "Done"}
      PROVE  /\ WithState(card, state) \in PbCard
             /\ WithState(card, state).state = state
             /\ WithState(card, state).blocked = card.blocked
             /\ WithState(card, state).score = card.score
  BY DEF PbCard, WithState
<1>6. ASSUME NEW c \in Cardlike, c.title \in T
      PROVE  /\ says(c) \in PbCard
             /\ c \in Defect => ~says(c).blocked /\ says(c).score = 2
  <2> DEFINE d == index[c.title]
  <2>1. d \in DOMAIN scan /\ d.title = c.title
    BY <1>0, <1>6
  <2>2. d \in Cardlike /\ scan[d] \in PbCard /\ (d \in Defect => ~scan[d].blocked /\ scan[d].score = 2)
    BY <1>2, <2>1
  <2>3. c \in Defect => d \in Defect
    BY <2>1, <2>2, TitleAssumption DEF Cardlike
  <2> QED BY <2>2, <2>3
<1> HIDE DEF T, says
<1>7. ASSUME NEW c \in DOMAIN board
      PROVE  \/ c \notin known /\ c.title \notin T /\ board[c].state = "Done"
             \/ /\ c \in known /\ r[c] \in PbCard
                /\ c \in Defect => ~r[c].blocked /\ r[c].score = 2
                /\ r[c].state \in {board[c].state, "Done"}
                /\ c.title \in T => r[c].blocked = says(c).blocked /\ r[c].score = says(c).score
                /\ c.title \notin T /\ (c \in Defect \/ roadmap_ingested(scan)) => r[c].state = "Done"
                /\ c.title \notin T /\ c \notin Defect /\ ~roadmap_ingested(scan) => r[c] = board[c]
  <2>0. /\ c \in Cardlike /\ board[c] \in PbCard /\ board[c].state \in {"Backlog", "Ready", "In Progress", "Done"}
        /\ c \in Defect => ~board[c].blocked /\ board[c].score = 2
        /\ board[c].blocked \in BOOLEAN
    BY <1>2 DEF PbCard
  <2>1. CASE c \in Defect /\ c.title \in T
    <3>1. c \in known /\ r[c] = board[c]
      BY <1>1, <1>4, <2>1 DEF KnownOf
    <3>2. ~says(c).blocked /\ says(c).score = 2 /\ says(c).blocked \in BOOLEAN
      BY <1>6, <2>0, <2>1 DEF PbCard
    <3>3. r[c].blocked = FALSE /\ says(c).blocked = FALSE
      BY <2>0, <2>1, <3>1, <3>2
    <3> QED BY <2>0, <2>1, <3>1, <3>2, <3>3
  <2>2. CASE c \in Defect /\ c.title \notin T /\ board[c].state = "Done"
    BY <1>4, <2>2 DEF KnownOf
  <2>3. CASE c.title \notin T /\ IF c \in Defect THEN board[c].state # "Done" ELSE roadmap_ingested(scan)
    <3>1. c \in known /\ r[c] = WithState(board[c], "Done")
      BY <1>1, <1>4, <2>3 DEF KnownOf
    <3>2. PICK new, old, state : new = r[c] /\ old = board[c] /\ state = "Done"
      OBVIOUS
    <3>3. old \in PbCard /\ state \in {"Backlog", "Ready", "In Progress", "Done"} /\ new = WithState(old, state)
      BY <2>0, <3>1, <3>2
    <3>4. new \in PbCard /\ new.state = state /\ new.blocked = old.blocked /\ new.score = old.score
      BY <1>5, <3>3
    <3> QED BY <2>0, <2>3, <3>1, <3>2, <3>4
  <2>4. CASE c \notin Defect /\ c.title \in T
    <3>1. c \in known /\ r[c] = WithState(says(c), board[c].state)
      BY <1>1, <1>4, <2>4 DEF KnownOf
    <3>2. PICK new, old, state : new = r[c] /\ old = says(c) /\ state = board[c].state
      OBVIOUS
    <3>3. old \in PbCard /\ state \in {"Backlog", "Ready", "In Progress", "Done"} /\ new = WithState(old, state)
      BY <1>6, <2>0, <2>4, <3>1, <3>2
    <3>4. new \in PbCard /\ new.state = state /\ new.blocked = old.blocked /\ new.score = old.score
      BY <1>5, <3>3
    <3> QED BY <2>0, <2>4, <3>1, <3>2, <3>4
  <2>5. CASE c \notin Defect /\ c.title \notin T /\ ~roadmap_ingested(scan)
    <3>1. c \in known /\ r[c] = board[c]
      BY <1>1, <1>4, <2>5 DEF KnownOf
    <3> QED BY <2>0, <2>5, <3>1
  <2> QED BY <2>1, <2>2, <2>3, <2>4, <2>5
<1>8. \A c \in unseen : /\ c \in DOMAIN scan /\ c.title \in T /\ c = index[c.title]
                        /\ c.title \notin {d.title : d \in known}
  BY <1>0 DEF _append_unseen_tasks
<1>9. known \subseteq DOMAIN board
  BY DEF KnownOf
<1> HIDE DEF known
<1>10. \A c \in unseen : c \notin DOMAIN board /\ c \notin known
  BY <1>7, <1>8
<1>11. \A c \in DOMAIN r \ DOMAIN board : c \in unseen /\ c \in DOMAIN scan /\ r[c] = scan[c]
  BY <1>1, <1>8, <1>9
<1>12. \A c \in unseen : r[c] = says(c)
  BY <1>1, <1>8, <1>10 DEF says
<1>13. T \subseteq TitlesOf(r)
  <2> SUFFICES ASSUME NEW title \in T PROVE \E c \in DOMAIN r : c.title = title
    BY DEF TitlesOf
  <2>1. CASE title \in {c.title : c \in known}
    BY <1>1, <2>1
  <2>2. CASE title \notin {c.title : c \in known}
    <3>1. index[title] \in unseen /\ index[title].title = title
      BY <1>0, <2>2 DEF _append_unseen_tasks
    <3> QED BY <1>1, <3>1
  <2> QED BY <2>1, <2>2
<1> HIDE DEF unseen
<1>14. Cards(r)
  <2>1. ASSUME NEW c \in DOMAIN r
        PROVE  c \in Cardlike /\ r[c] \in PbCard /\ (c \in Defect => ~r[c].blocked /\ r[c].score = 2)
    <3>1. CASE c \in DOMAIN board
      BY <1>1, <1>2, <1>7, <1>10, <3>1
    <3>2. CASE c \notin DOMAIN board
      BY <1>2, <1>11, <3>2
    <3> QED BY <3>1, <3>2
  <2> QED BY <1>1, <2>1 DEF Cards
<1>15. ASSUME NEW c \in DOMAIN r
       PROVE  IF c.title \in T THEN r[c].blocked = says(c).blocked /\ r[c].score = says(c).score
              ELSE /\ c \in DOMAIN board
                   /\ c \in Defect \/ roadmap_ingested(scan) => r[c].state = "Done"
                   /\ c \notin Defect /\ ~roadmap_ingested(scan) => r[c] = board[c]
  <2>1. CASE c \in unseen
    BY <1>8, <1>12, <2>1
  <2>2. CASE c \in known
    BY <1>7, <1>9, <2>2
  <2> QED BY <1>1, <2>1, <2>2
<1>16. /\ \A c \in DOMAIN board \ DOMAIN r : board[c].state = "Done"
       /\ \A c \in DOMAIN r \cap DOMAIN board : r[c].state \in {board[c].state, "Done"}
  BY <1>1, <1>7, <1>10
<1> QED BY <1>11, <1>13, <1>14, <1>15, <1>16 DEF T, says

\* What is promoted is of one title, that of a card in the backlog that nothing blocks
\* and that none of those outweighs; the others stay.
LEMMA Advanced ==
  ASSUME NEW r, Cards(r), NEW m \in advance_ready_item(r)
  PROVE  /\ Cards(m) /\ DOMAIN m = DOMAIN r
         /\ \A c \in DOMAIN r : m[c].state \in {r[c].state, "Ready"}
         /\ \/ m = r
            \/ \E target \in Eligible(r) :
                 /\ \A c \in DOMAIN r : IF c.title = target.title THEN m[c].state = "Ready" ELSE m[c] = r[c]
                 /\ \A d \in Eligible(r) : r[d].score <= r[target].score
<1>1. CASE m = r
  BY <1>1
<1>2. ASSUME NEW target \in _find_promotion_candidate(r),
             m = [c \in DOMAIN r |-> _promote_card(c.title, r[c], target.title)]
      PROVE  /\ Cards(m) /\ DOMAIN m = DOMAIN r
             /\ \A c \in DOMAIN r : m[c].state \in {r[c].state, "Ready"}
             /\ target \in Eligible(r)
             /\ \A c \in DOMAIN r : IF c.title = target.title THEN m[c].state = "Ready" ELSE m[c] = r[c]
             /\ \A d \in Eligible(r) : r[d].score <= r[target].score
  <2>1. DOMAIN m = DOMAIN r /\ m = [c \in DOMAIN m |-> m[c]]
    BY <1>2
  <2>2. ASSUME NEW c \in DOMAIN r
        PROVE  /\ c \in Cardlike /\ m[c] \in PbCard /\ (c \in Defect => ~m[c].blocked /\ m[c].score = 2)
               /\ m[c].state \in {r[c].state, "Ready"}
               /\ IF c.title = target.title THEN m[c].state = "Ready" ELSE m[c] = r[c]
    <3>1. PICK old, new : old = r[c] /\ new = m[c]
      OBVIOUS
    <3>2. old \in PbCard /\ c \in Cardlike /\ (c \in Defect => ~old.blocked /\ old.score = 2)
      BY <3>1 DEF Cards
    <3>3. new = IF c.title = target.title THEN [old EXCEPT !.state = "Ready"] ELSE old
      BY <1>2, <3>1 DEF _promote_card
    <3>4. /\ new \in PbCard /\ (c \in Defect => ~new.blocked /\ new.score = 2)
          /\ new.state \in {old.state, "Ready"}
          /\ IF c.title = target.title THEN new.state = "Ready" ELSE new = old
      BY <3>2, <3>3 DEF PbCard
    <3> QED BY <3>1, <3>2, <3>4
  <2>3. Cards(m)
    BY <2>1, <2>2 DEF Cards
  <2> QED BY <1>2, <2>1, <2>2, <2>3 DEF _find_promotion_candidate
<1>3. m = r \/ \E target \in _find_promotion_candidate(r) :
                 m = [c \in DOMAIN r |-> _promote_card(c.title, r[c], target.title)]
  BY DEF advance_ready_item
<1> QED BY <1>1, <1>2, <1>3

\* What a pass makes of the board and the scan it has read.
LEMMA PassIsFaithful ==
  ASSUME PbInv, Passed
  PROVE  NothingVanishes /\ BoardFollowsTheScan /\ PromotionIsCurrent
<1>1. PICK board, scan, index, m :
        board = pbPass.board /\ scan = pbPass.scan /\ index = pbPass.index /\ m = pbPass.merged
  OBVIOUS
<1>2. /\ pbBoard = board /\ pbBoard' = m /\ Cards(board) /\ Cards(scan) /\ index \in Indexes(scan)
      /\ m \in advance_ready_item(reconcile_backlog(board, scan, index))
      /\ AllInBacklog(scan) \/ scan = board
  BY <1>1 DEF PbInv, PassIsSound, Passed
<1>3. PICK r : r = reconcile_backlog(board, scan, index)
  OBVIOUS
<1> DEFINE T == TitlesOf(scan)
           says(c) == scan[index[c.title]]
<1>4. /\ Cards(r) /\ T \subseteq TitlesOf(r)
      /\ \A c \in DOMAIN board \ DOMAIN r : board[c].state = "Done"
      /\ \A c \in DOMAIN r \cap DOMAIN board : r[c].state \in {board[c].state, "Done"}
      /\ \A c \in DOMAIN r \ DOMAIN board : c \in DOMAIN scan /\ r[c] = scan[c]
  BY <1>2, <1>3, Reconciled
<1>5. \A c \in DOMAIN r : c.title \in T => r[c].blocked = says(c).blocked /\ r[c].score = says(c).score
  BY <1>2, <1>3, Reconciled
<1>6. \A c \in DOMAIN r : c.title \notin T =>
        /\ c \in DOMAIN board
        /\ c \in Defect \/ roadmap_ingested(scan) => r[c].state = "Done"
        /\ c \notin Defect /\ ~roadmap_ingested(scan) => r[c] = board[c]
  BY <1>2, <1>3, Reconciled
<1>7. /\ Cards(m) /\ DOMAIN m = DOMAIN r
      /\ \A c \in DOMAIN r : m[c].state \in {r[c].state, "Ready"}
      /\ \/ m = r
         \/ \E target \in Eligible(r) :
              /\ \A c \in DOMAIN r : IF c.title = target.title THEN m[c].state = "Ready" ELSE m[c] = r[c]
              /\ \A d \in Eligible(r) : r[d].score <= r[target].score
  BY <1>2, <1>3, <1>4, Advanced
<1>8. NothingVanishes
  BY <1>2, <1>4, <1>7 DEF NothingVanishes
<1> HIDE DEF T, says
<1>9. ASSUME NEW c \in DOMAIN m, c.title \notin T
      PROVE  IF c \in Defect \/ roadmap_ingested(scan) THEN m[c].state = "Done"
             ELSE c \in DOMAIN board /\ m[c].state \in {board[c].state, "Ready"}
  <2>1. CASE c \in Defect \/ roadmap_ingested(scan)
    <3>1. r[c].state = "Done"
      BY <1>6, <1>7, <1>9, <2>1
    <3>2. ASSUME NEW target \in Eligible(r), target.title = c.title PROVE FALSE
      <4>1. target \in DOMAIN r /\ r[target].state = "Backlog"
        BY <3>2 DEF Eligible
      <4>2. c \in Defect => target \in Defect
        BY <1>4, <3>2, <4>1, TitleAssumption DEF Cards, Cardlike
      <4>3. r[target].state = "Done"
        BY <1>6, <1>9, <2>1, <3>2, <4>1, <4>2
      <4> QED BY <4>1, <4>3
    <3>3. m[c] = r[c]
      BY <1>7, <3>2
    <3> QED BY <2>1, <3>1, <3>3
  <2>2. CASE ~(c \in Defect \/ roadmap_ingested(scan))
    BY <1>6, <1>7, <1>9, <2>2
  <2> QED BY <2>1, <2>2
<1>10. BoardFollowsTheScan
  <2>1. T \subseteq TitlesOf(m)
    BY <1>4, <1>7 DEF TitlesOf
  <2> QED BY <1>1, <1>2, <1>9, <2>1 DEF BoardFollowsTheScan, roadmap_ingested, T
<1>11. PromotionIsCurrent
  <2> DEFINE reported == {c \in DOMAIN m : c.title \in T}
             ready == {c \in DOMAIN m : m[c].state = "Ready" /\
                         ~(c \in DOMAIN board /\ board[c].state = "Ready")}
  <2>1. ASSUME NEW c \in ready PROVE c \in DOMAIN r /\ m[c] # r[c]
    <3>1. c \in DOMAIN r /\ m[c].state = "Ready"
      BY <1>7
    <3>2. r[c].state # "Ready"
      <4>1. CASE c \in DOMAIN board
        BY <1>4, <3>1, <4>1
      <4>2. CASE c \notin DOMAIN board
        <5>1. c \in DOMAIN scan /\ r[c] = scan[c]
          BY <1>4, <3>1, <4>2
        <5>2. AllInBacklog(scan)
          BY <1>2, <4>2, <5>1
        <5>3. scan[c].state = "Backlog"
          BY <5>1, <5>2 DEF AllInBacklog
        <5> QED BY <5>1, <5>3
      <4> QED BY <4>1, <4>2
    <3> QED BY <3>1, <3>2
  <2>2. ASSUME NEW c0 \in ready
        PROVE  \E target \in ready :
                 /\ \A c \in ready : c.title = target.title
                 /\ target \in DOMAIN board => board[target].state = "Backlog"
                 /\ target \in reported => ~says(target).blocked
                 /\ \A c \in reported :
                      m[c].state = "Backlog" /\ ~says(c).blocked /\ target \in reported =>
                        says(c).score <= says(target).score
    <3>1. m # r
      BY <2>1, <2>2
    <3>2. PICK target \in Eligible(r) :
            /\ \A c \in DOMAIN r : IF c.title = target.title THEN m[c].state = "Ready" ELSE m[c] = r[c]
            /\ \A d \in Eligible(r) : r[d].score <= r[target].score
      BY <1>7, <3>1
    <3>3. target \in DOMAIN r /\ r[target].state = "Backlog" /\ ~r[target].blocked
      BY DEF Eligible
    <3>4. target \in DOMAIN board => board[target].state = "Backlog"
      BY <1>4, <3>3
    <3>5. target \in ready
      BY <1>7, <3>2, <3>3, <3>4
    <3>6. \A c \in ready : c.title = target.title
      BY <2>1, <3>2
    <3>7. target \in reported => ~says(target).blocked
      BY <1>5, <3>3
    <3>8. ASSUME NEW c \in reported, m[c].state = "Backlog", ~says(c).blocked, target \in reported
          PROVE  says(c).score <= says(target).score
      <4>1. c \in DOMAIN r /\ r[c].state = "Backlog" /\ ~r[c].blocked
        BY <1>5, <1>7, <3>8
      <4>2. r[c].score <= r[target].score
        BY <3>2, <4>1 DEF Eligible
      <4> QED BY <1>5, <3>3, <3>8, <4>1, <4>2
    <3> HIDE DEF ready, reported
    <3> QED BY <3>4, <3>5, <3>6, <3>7, <3>8
  <2>3. ready # {} =>
          \E target \in ready :
            /\ \A c \in ready : c.title = target.title
            /\ target \in DOMAIN board => board[target].state = "Backlog"
            /\ target \in reported => ~says(target).blocked
            /\ \A c \in reported :
                 m[c].state = "Backlog" /\ ~says(c).blocked /\ target \in reported =>
                   says(c).score <= says(target).score
    <3> HIDE DEF ready, reported
    <3> QED BY <2>2
  <2>4. pbBoard = board /\ pbBoard' = m /\ pbPass.scan = scan /\ pbPass.index = index
    BY <1>1, <1>2
  <2> QED BY <2>3, <2>4 DEF PromotionIsCurrent, T, says
<1> QED BY <1>8, <1>10, <1>11

\* What a file has besides the roadmap stays, and the roadmap's cards are new.
LEMMA IngestedCards ==
  ASSUME RoadmapIsSound, NEW file, file # Truncated => Cards(file)
  PROVE  /\ Cards(Ingested(file))
         /\ (file # Truncated => AllInBacklog(file)) => AllInBacklog(Ingested(file))
<1> DEFINE others == IF file = Truncated THEN {} ELSE DOMAIN file \ Deliverable
<1>1. PICK cards : cards = Ingested(file)
  OBVIOUS
<1>3. /\ cards = [t \in DOMAIN cards |-> cards[t]]
      /\ DOMAIN cards = others \cup DOMAIN pbRoadmap
      /\ \A t \in DOMAIN cards : IF t \in DOMAIN pbRoadmap THEN cards[t] = to_backlog_task(pbRoadmap[t])
                                 ELSE cards[t] = file[t]
  BY <1>1 DEF Ingested
<1>4. ASSUME NEW t \in DOMAIN cards
      PROVE  /\ t \in Cardlike /\ cards[t] \in PbCard
             /\ t \in Defect => ~cards[t].blocked /\ cards[t].score = 2
             /\ (file # Truncated => AllInBacklog(file)) => cards[t].state = "Backlog"
  <2>1. CASE t \in DOMAIN pbRoadmap
    <3>1. PICK card, item : card = cards[t] /\ item = pbRoadmap[t]
      OBVIOUS
    <3>2. card = to_backlog_task(item) /\ item \in [score : {1, 3}, blocked : BOOLEAN]
      BY <1>3, <2>1, <3>1 DEF RoadmapIsSound
    <3>3. card \in PbCard /\ card.state = "Backlog"
      BY <3>2 DEF to_backlog_task, PbCard
    <3>4. t \in Cardlike /\ t \notin Defect
      BY <1>3, <2>1, TitleAssumption DEF RoadmapIsSound, Cardlike
    <3> QED BY <3>1, <3>3, <3>4
  <2>2. CASE t \notin DOMAIN pbRoadmap
    <3>1. file # Truncated /\ t \in DOMAIN file /\ cards[t] = file[t]
      BY <1>3, <2>2
    <3> QED BY <3>1 DEF Cards, AllInBacklog
  <2> QED BY <2>1, <2>2
<1> QED BY <1>1, <1>3, <1>4 DEF Cards, AllInBacklog

\* Whoever else writes the board, the pass is told; who does not, leaves it.
LEMMA PassIsLeft ==
  ASSUME PassIsSound, pbPass' = pbPass, pbDisturbed' = TRUE \/ UNCHANGED <<pbBoard, pbDisturbed>>
  PROVE  PassIsSound'
<1>1. ~pbDisturbed' => pbDisturbed' = pbDisturbed /\ pbBoard' = pbBoard
  OBVIOUS
<1>2. PICK pass : pass = pbPass
  OBVIOUS
<1> QED BY <1>1, <1>2 DEF PassIsSound

\* The export, the roadmap and the board are written by others than the pass.
LEMMA OthersKeep ==
  ASSUME PbInv, export_feedback_to_sdlc \/ Plan \/ merge_into_backlog \/ Move
  PROVE  PbInv'
<1>1. CASE export_feedback_to_sdlc
  <2>1. PICK found \in SUBSET Defect :
          \/ pbScan' = [c \in found |-> DefectCard] /\ UNCHANGED <<pbBoard, pbDisturbed>>
          \/ pbBoard' = [c \in found |-> DefectCard] /\ pbDisturbed' = TRUE /\ UNCHANGED pbScan
    BY <1>1 DEF export_feedback_to_sdlc
  <2>2. UNCHANGED <<pbRoadmap, pbPass>>
    BY <1>1 DEF export_feedback_to_sdlc
  <2>3. Cards([c \in found |-> DefectCard]) /\ AllInBacklog([c \in found |-> DefectCard])
    BY DEF Cards, AllInBacklog, DefectCard, Cardlike, PbCard
  <2>4. PassIsSound' /\ RoadmapIsSound'
    BY <2>1, <2>2, PassIsLeft DEF PbInv, RoadmapIsSound
  <2> QED BY <2>1, <2>2, <2>3, <2>4 DEF PbInv
<1>2. CASE Plan
  <2>1. UNCHANGED <<pbScan, pbBoard, pbPass, pbDisturbed>>
    BY <1>2 DEF Plan
  <2>2. PICK t \in DOMAIN pbRoadmap :
          \/ pbRoadmap' = [u \in DOMAIN pbRoadmap \ {t} |-> pbRoadmap[u]]
          \/ \E item \in [score : {1, 3}, blocked : BOOLEAN] : pbRoadmap' = [pbRoadmap EXCEPT ![t] = item]
    BY <1>2 DEF Plan, Restrict
  <2>3. RoadmapIsSound'
    <3>1. CASE pbRoadmap' = [u \in DOMAIN pbRoadmap \ {t} |-> pbRoadmap[u]]
      BY <3>1 DEF PbInv, RoadmapIsSound
    <3>2. CASE \E item \in [score : {1, 3}, blocked : BOOLEAN] : pbRoadmap' = [pbRoadmap EXCEPT ![t] = item]
      <4>1. PICK item \in [score : {1, 3}, blocked : BOOLEAN] : pbRoadmap' = [pbRoadmap EXCEPT ![t] = item]
        BY <3>2
      <4>2. /\ DOMAIN pbRoadmap' = DOMAIN pbRoadmap
            /\ \A u \in DOMAIN pbRoadmap : pbRoadmap'[u] = IF u = t THEN item ELSE pbRoadmap[u]
            /\ pbRoadmap' = [u \in DOMAIN pbRoadmap' |-> pbRoadmap'[u]]
        BY <4>1 DEF PbInv, RoadmapIsSound
      <4>3. \A u \in DOMAIN pbRoadmap' : pbRoadmap'[u] \in [score : {1, 3}, blocked : BOOLEAN]
        BY <4>2, Zenon DEF PbInv, RoadmapIsSound
      <4> QED BY <4>2, <4>3 DEF PbInv, RoadmapIsSound
    <3> QED BY <2>2, <3>1, <3>2
  <2>4. PassIsSound'
    BY <2>1, PassIsLeft DEF PbInv
  <2> QED BY <2>1, <2>3, <2>4 DEF PbInv
<1>3. CASE merge_into_backlog
  <2>1. UNCHANGED <<pbRoadmap, pbPass>> /\ RoadmapIsSound
    BY <1>3 DEF merge_into_backlog, PbInv
  <2>2. PassIsSound' /\ RoadmapIsSound'
    BY <1>3, <2>1, PassIsLeft DEF merge_into_backlog, PbInv, RoadmapIsSound
  <2>3. Cards(Ingested(pbScan)) /\ AllInBacklog(Ingested(pbScan))
    BY <2>1, IngestedCards DEF PbInv
  <2>4. Cards(Ingested(pbBoard))
    BY <2>1, IngestedCards DEF PbInv
  <2> QED BY <1>3, <2>1, <2>2, <2>3, <2>4 DEF merge_into_backlog, PbInv
<1>4. CASE Move
  <2>1. PICK t \in DOMAIN pbBoard, state \in {"In Progress", "Done"} :
          pbBoard' = [pbBoard EXCEPT ![t] = [pbBoard[t] EXCEPT !.state = state]]
    BY <1>4 DEF Move
  <2>2. pbDisturbed' = TRUE /\ UNCHANGED <<pbRoadmap, pbScan, pbPass>> /\ Cards(pbBoard)
    BY <1>4 DEF Move, PbInv
  <2>3. PICK board, old : board = pbBoard /\ old = pbBoard[t]
    OBVIOUS
  <2> DEFINE new == [old EXCEPT !.state = state]
             moved == [board EXCEPT ![t] = new]
  <2>4. old \in PbCard /\ t \in Cardlike /\ (t \in Defect => ~old.blocked /\ old.score = 2)
    BY <2>2, <2>3 DEF Cards
  <2>5. new \in PbCard /\ (t \in Defect => ~new.blocked /\ new.score = 2)
    BY <2>4 DEF PbCard
  <2>6. pbBoard' = moved
    BY <2>1, <2>3
  <2> HIDE DEF new
  <2>7. /\ DOMAIN moved = DOMAIN board /\ moved[t] = new /\ t \in DOMAIN board
        /\ moved = [u \in DOMAIN moved |-> moved[u]]
        /\ \A u \in DOMAIN board \ {t} : moved[u] = board[u]
    BY <2>2, <2>3 DEF Cards
  <2> HIDE DEF moved
  <2>8. Cards(moved)
    <3>1. PICK m : m = moved[t]
      OBVIOUS
    <3>2. m \in PbCard /\ (t \in Defect => ~m.blocked /\ m.score = 2)
      BY <2>5, <2>7, <3>1
    <3>3. \A u \in DOMAIN moved \ {t} :
            u \in Cardlike /\ moved[u] \in PbCard /\ (u \in Defect => ~moved[u].blocked /\ moved[u].score = 2)
      BY <2>2, <2>3, <2>7 DEF Cards
    <3>4. \A u \in DOMAIN moved :
            u \in Cardlike /\ moved[u] \in PbCard /\ (u \in Defect => ~moved[u].blocked /\ moved[u].score = 2)
      BY <2>4, <2>7, <3>1, <3>2, <3>3
    <3> QED BY <2>7, <3>4 DEF Cards
  <2>9. PassIsSound' /\ RoadmapIsSound'
    BY <2>2, PassIsLeft DEF PbInv, RoadmapIsSound
  <2> QED BY <2>2, <2>6, <2>8, <2>9 DEF PbInv
<1> QED BY <1>1, <1>2, <1>3, <1>4

\* The pass itself, and what ends it.
LEMMA PassKeeps ==
  ASSUME PbInv, ReadBoard \/ ReadScan \/ WriteBoard \/ Break
  PROVE  PbInv'
<1>1. UNCHANGED pbRoadmap /\ RoadmapIsSound'
  BY DEF ReadBoard, ReadScan, WriteBoard, Break, PbInv, RoadmapIsSound
<1>2. CASE ReadBoard
  <2>1. /\ pbBoard # Truncated /\ pbPass' = [step |-> "scan", board |-> pbBoard]
        /\ UNCHANGED <<pbScan, pbBoard>>
    BY <1>2 DEF ReadBoard
  <2>2. Cards(pbBoard) /\ pbPass'.step = "scan" /\ pbPass'.board = pbBoard
    BY <2>1 DEF PbInv
  <2>3. PassIsSound'
    BY <2>1, <2>2 DEF PassIsSound
  <2> QED BY <1>1, <2>1, <2>3 DEF PbInv
<1>3. CASE ReadScan
  <2>1. pbPass.step = "scan" /\ UNCHANGED <<pbScan, pbBoard, pbDisturbed>>
    BY <1>3 DEF ReadScan
  <2>0. PICK scan \in {pbScan, pbBoard} \ {Truncated} : \E index \in Indexes(scan) :
          \E merged \in advance_ready_item(reconcile_backlog(pbPass.board, scan, index)) :
            pbPass' = [step |-> "write", board |-> pbPass.board, scan |-> scan, index |-> index,
                       merged |-> merged]
    BY <1>3 DEF ReadScan
  <2>2. PICK index \in Indexes(scan) :
          \E merged \in advance_ready_item(reconcile_backlog(pbPass.board, scan, index)) :
            pbPass' = [step |-> "write", board |-> pbPass.board, scan |-> scan, index |-> index,
                       merged |-> merged]
    BY <2>0
  <2>3. PICK merged \in advance_ready_item(reconcile_backlog(pbPass.board, scan, index)) :
          pbPass' = [step |-> "write", board |-> pbPass.board, scan |-> scan, index |-> index,
                     merged |-> merged]
    BY <2>2
  <2>4. PICK board : board = pbPass.board
    OBVIOUS
  <2>5. Cards(board) /\ (~pbDisturbed => board = pbBoard)
    BY <2>1, <2>4 DEF PbInv, PassIsSound
  <2>6. Cards(scan) /\ (AllInBacklog(scan) \/ (~pbDisturbed => scan = board))
    BY <2>0, <2>5 DEF PbInv
  <2>7. /\ pbPass'.step = "write" /\ pbPass'.board = board /\ pbPass'.scan = scan
        /\ pbPass'.index = index /\ pbPass'.merged = merged
    BY <2>3, <2>4
  <2>8. merged \in advance_ready_item(reconcile_backlog(board, scan, index)) /\ index \in Indexes(scan)
    BY <2>2, <2>3, <2>4
  <2>9. PassIsSound'
    BY <2>1, <2>5, <2>6, <2>7, <2>8 DEF PassIsSound
  <2> QED BY <1>1, <2>1, <2>9 DEF PbInv
<1>4. CASE WriteBoard
  <2>1. /\ pbPass.step = "write" /\ pbPass' = AtRest /\ pbBoard' = pbPass.merged
        /\ UNCHANGED <<pbScan, pbDisturbed>>
    BY <1>4 DEF WriteBoard
  <2>2. PICK board, scan, index, m :
          board = pbPass.board /\ scan = pbPass.scan /\ index = pbPass.index /\ m = pbPass.merged
    OBVIOUS
  <2>3. /\ Cards(board) /\ Cards(scan) /\ index \in Indexes(scan)
        /\ m \in advance_ready_item(reconcile_backlog(board, scan, index))
    BY <2>1, <2>2 DEF PbInv, PassIsSound
  <2>4. PICK r : r = reconcile_backlog(board, scan, index)
    OBVIOUS
  <2>5. Cards(r)
    BY <2>3, <2>4, Reconciled
  <2>6. Cards(m)
    BY <2>3, <2>4, <2>5, Advanced
  <2>7. PassIsSound'
    BY <2>1 DEF PassIsSound, AtRest
  <2> QED BY <1>1, <2>1, <2>2, <2>6, <2>7 DEF PbInv
<1>5. CASE Break
  <2>1. \/ pbPass' = AtRest /\ pbBoard' = Truncated /\ UNCHANGED pbScan
        \/ pbScan' = Truncated /\ UNCHANGED <<pbBoard, pbPass, pbDisturbed>>
    BY <1>5 DEF Break
  <2>2. PassIsSound'
    <3>1. CASE pbPass' = AtRest
      BY <3>1 DEF PassIsSound, AtRest
    <3>2. CASE UNCHANGED <<pbBoard, pbPass, pbDisturbed>>
      BY <3>2, PassIsLeft DEF PbInv
    <3> QED BY <2>1, <3>1, <3>2
  <2> QED BY <1>1, <2>1, <2>2 DEF PbInv
<1> QED BY <1>2, <1>3, <1>4, <1>5

\* Every step keeps the cards and the pass sound, and a pass that nobody disturbed
\* is faithful to what it has read.
LEMMA StepKeepsTheBoard ==
  PbInv /\ [PbNext]_pbVars => PbInv'
<1> SUFFICES ASSUME PbInv, [PbNext]_pbVars PROVE PbInv'
  OBVIOUS
<1>1. CASE UNCHANGED pbVars
  <2>1. PassIsSound' /\ RoadmapIsSound'
    BY <1>1, PassIsLeft DEF pbVars, PbInv, RoadmapIsSound
  <2> QED BY <1>1, <2>1 DEF pbVars, PbInv
<1>2. CASE PbNext
  BY <1>2, OthersKeep, PassKeeps DEF PbNext
<1> QED BY <1>1, <1>2

\* Whatever the audits, the roadmap and the hands on the board do between the reads
\* and the write of a pass, and however many cards have one title, a pass that nobody
\* else's write has disturbed drops no open card, follows its scan title by title, and
\* promotes one title, that of an open card that outweighs the rest.
THEOREM PassesKeepFaith == PbSpec => PassesAreFaithful
<1>1. PbInit => PbInv
  <2> SUFFICES ASSUME PbInit PROVE PbInv
    OBVIOUS
  <2>1. /\ pbRoadmap = [t \in Deliverable |-> [score |-> 3, blocked |-> FALSE]]
        /\ pbScan = <<>> /\ pbBoard = <<>> /\ pbPass.step = "rest"
    BY DEF PbInit, AtRest
  <2>2. RoadmapIsSound
    BY <2>1 DEF RoadmapIsSound
  <2>3. Cards(<<>>) /\ AllInBacklog(<<>>)
    BY DEF Cards, AllInBacklog
  <2> QED BY <2>1, <2>2, <2>3 DEF PbInv, PassIsSound
<1>2. PbInv /\ [PbNext]_pbVars =>
        [Passed => NothingVanishes /\ BoardFollowsTheScan /\ PromotionIsCurrent]_pbVars
  BY PassIsFaithful
<1> QED BY <1>1, <1>2, StepKeepsTheBoard, PTL DEF PbSpec, PassesAreFaithful
-----------------------------------------------------------------------------
\* Every non-empty set of naturals has a least element.
LEMMA LeastOfNaturals ==
  ASSUME NEW T \in SUBSET Nat, T # {}
  PROVE  \E m \in T : \A n \in T : m <= n
<1> DEFINE R == {p \in Nat \X Nat : p[1] < p[2]}
<1>1. IsWellFoundedOn(R, Nat)
  BY NatLessThanWellFounded DEF OpToRel
<1>2. PICK m \in T : \A n \in T : <<n, m>> \notin R
  BY <1>1, WFMin, Zenon
<1>3. ASSUME NEW n \in T PROVE m <= n
  <2>1. <<n, m>> \notin R /\ <<n, m>> \in Nat \X Nat
    BY <1>2
  <2> QED BY <2>1
<1> QED BY <1>3
-----------------------------------------------------------------------------
\* The application factory: app_factory.py's handlers, under runs that die.

AfDef == [op : Operation, done : BOOLEAN, function : BOOLEAN]

\* The names a file binds, and the one that is in force.
Names(file) == IF file = Missing THEN {} ELSE {file.defs[i].op : i \in DOMAIN file.defs}
IsLast(defs, op, i) ==
  i \in DOMAIN defs /\ defs[i].op = op /\ \A j \in DOMAIN defs : j > i => defs[j].op # op

\* What runs is the developer's.
Implemented(file, op) == file # Missing /\ \E i \in DOMAIN file.defs : IsLast(file.defs, op, i) /\ file.defs[i].done

AfInv ==
  /\ afTemplate.ops \subseteq Operation
  /\ afHandlers \in {Missing} \cup HandlerFile
  /\ afRun.step \in {"none", "layer", "handlers", "answers"}
  /\ afRun.step # "none" =>
       /\ afRun = [step |-> afRun.step, command |-> afRun.command, ops |-> afRun.ops, answers |-> afRun.answers]
       /\ afRun.ops \subseteq Operation
  /\ afRun.step \in {"handlers", "answers"} => afLayer = [ops |-> afRun.ops, answers |-> afRun.answers]
  /\ afRun.step = "answers" /\ afRun.command = "update" => afRun.ops \subseteq Names(afHandlers)
  /\ afRun.step = "none" /\ afLast = "update" => afLayer.ops \subseteq Names(afHandlers)
  /\ afRun.step = "none" /\ afLast \in {"new", "update"} => afAnswers = afLayer.answers
  /\ ~afHidden => \A op \in afDone : Implemented(afHandlers, op)

\* Of the places where a name is bound there is a last.
LEMMA LastPlace ==
  ASSUME NEW n \in Nat, NEW I \in SUBSET (1..n), I # {}
  PROVE  Max(I) \in I /\ \A j \in I : j <= Max(I)
<1> DEFINE T == {n - i : i \in I}
<1>1. T \in SUBSET Nat /\ T # {}
  <2>1. \A i \in I : i \in Int /\ i <= n
    OBVIOUS
  <2>2. \A i \in I : n - i \in Nat
    BY <2>1
  <2> QED BY <2>2
<1>2. PICK m \in T : \A k \in T : m <= k
  BY <1>1, LeastOfNaturals
<1>3. PICK i \in I : m = n - i
  BY <1>2
<1>4. \A j \in I : i >= j
  <2> SUFFICES ASSUME NEW j \in I PROVE i >= j
    OBVIOUS
  <2>1. n - i <= n - j
    BY <1>2, <1>3
  <2> QED BY <1>3, <2>1
<1> QED BY <1>3, <1>4 DEF Max

\* The handler of a defined operation is the last of its name in the file.
LEMMA HandlerIsInForce ==
  ASSUME afHandlers \in HandlerFile, NEW op \in Defined
  PROVE  IsLast(afHandlers.defs, op, Handler(op))
<1> DEFINE defs == afHandlers.defs
           I == {i \in 1..Len(defs) : defs[i].op = op}
<1>1. defs \in Seq(AfDef) /\ Len(defs) \in Nat /\ DOMAIN defs = 1..Len(defs)
  BY DEF HandlerFile, AfDef
<1>2. I # {}
  BY <1>1, FactoryAssumption DEF Defined, ToSet
<1>3. Handler(op) = Max(I)
  BY <1>2 DEF Handler, SelectLastInSeq
<1>4. Max(I) \in I /\ \A j \in I : j <= Max(I)
  BY <1>1, <1>2, LastPlace
<1>5. PICK last : last = Max(I)
  OBVIOUS
<1>6. last \in 1..Len(defs) /\ defs[last].op = op
  BY <1>4, <1>5
<1>7. \A j \in DOMAIN defs : j > last => defs[j].op # op
  <2> SUFFICES ASSUME NEW j \in 1..Len(defs), j > last, defs[j].op = op PROVE FALSE
    BY <1>1
  <2>1. j \in I
    OBVIOUS
  <2>2. j <= last
    BY <1>4, <1>5, <2>1
  <2> QED BY <1>1, <1>6, <2>2
<1> QED BY <1>1, <1>3, <1>5, <1>6, <1>7 DEF IsLast

\* The stubs are for all the operations that lack one, and for no other.
LEMMA StubsCover ==
  ASSUME NEW ops \in SUBSET Operation
  PROVE  Stubs(ops) \in Seq(AfDef) /\ {Stubs(ops)[i].op : i \in DOMAIN Stubs(ops)} = ops
<1> DEFINE n == Cardinality(ops)
           order == SetToSeq(ops)
<1>1. IsFiniteSet(ops)
  BY FactoryAssumption, FS_Subset
<1>2. n \in Nat /\ ExistsBijection(1..n, ops)
  BY <1>1, FS_CardinalityType
<1>3. \E f \in [1..n -> ops] : IsInjective(f)
  BY <1>2 DEF ExistsBijection, Bijection, Injection
<1>4. order \in [1..n -> ops] /\ IsInjective(order)
  BY <1>3 DEF SetToSeq
<1>5. IsFiniteSet(1..n) /\ Cardinality(1..n) = n
  BY <1>2, FS_Interval
<1>6. order \in Surjection(1..n, ops)
  BY <1>1, <1>4, <1>5, FS_Injection DEF Injection
<1> HIDE DEF n, order
<1>7. Stubs(ops) = [i \in 1..n |-> [op |-> order[i], done |-> FALSE, function |-> TRUE]]
  BY <1>4 DEF Stubs, Stub, order
<1>8. \A i \in 1..n : [op |-> order[i], done |-> FALSE, function |-> TRUE] \in AfDef
  BY <1>4 DEF AfDef
<1>9. Stubs(ops) \in Seq(AfDef)
  BY <1>2, <1>7, <1>8
<1>10. \A o : o \in ops <=> \E i \in 1..n : order[i] = o
  BY <1>4, <1>6 DEF Surjection
<1> QED BY <1>7, <1>9, <1>10

\* More at the end hides nothing but what it names.
LEMMA AddedAtTheEnd ==
  ASSUME NEW defs \in Seq(AfDef), NEW more \in Seq(AfDef)
  PROVE  /\ defs \o more \in Seq(AfDef)
         /\ {(defs \o more)[i].op : i \in DOMAIN (defs \o more)}
              = {defs[i].op : i \in DOMAIN defs} \cup {more[i].op : i \in DOMAIN more}
         /\ \A op, i : IsLast(defs, op, i) /\ op \notin {more[j].op : j \in DOMAIN more} =>
              IsLast(defs \o more, op, i) /\ (defs \o more)[i] = defs[i]
<1> DEFINE all == defs \o more
<1>1. /\ all \in Seq(AfDef) /\ Len(all) = Len(defs) + Len(more)
      /\ DOMAIN all = 1..Len(all) /\ DOMAIN defs = 1..Len(defs) /\ DOMAIN more = 1..Len(more)
      /\ Len(defs) \in Nat /\ Len(more) \in Nat
  OBVIOUS
<1>2. /\ \A i \in 1..Len(defs) : all[i] = defs[i]
      /\ \A i \in 1..Len(more) : all[Len(defs) + i] = more[i]
      /\ \A i \in 1..Len(all) : i > Len(defs) => i - Len(defs) \in 1..Len(more) /\ all[i] = more[i - Len(defs)]
  OBVIOUS
<1> HIDE DEF all
<1>3. \A op : (\E i \in DOMAIN all : all[i].op = op)
                <=> (\E i \in DOMAIN defs : defs[i].op = op) \/ (\E i \in DOMAIN more : more[i].op = op)
  <2> SUFFICES ASSUME NEW op
               PROVE  (\E i \in DOMAIN all : all[i].op = op)
                        <=> (\E i \in DOMAIN defs : defs[i].op = op) \/ (\E i \in DOMAIN more : more[i].op = op)
    OBVIOUS
  <2>1. ASSUME NEW i \in DOMAIN all, all[i].op = op
        PROVE  (\E j \in DOMAIN defs : defs[j].op = op) \/ (\E j \in DOMAIN more : more[j].op = op)
    <3>1. CASE i <= Len(defs)
      BY <1>1, <1>2, <2>1, <3>1
    <3>2. CASE i > Len(defs)
      BY <1>1, <1>2, <2>1, <3>2
    <3> QED BY <1>1, <3>1, <3>2
  <2>2. ASSUME NEW i \in DOMAIN defs, defs[i].op = op PROVE \E j \in DOMAIN all : all[j].op = op
    BY <1>1, <1>2, <2>2
  <2>3. ASSUME NEW i \in DOMAIN more, more[i].op = op PROVE \E j \in DOMAIN all : all[j].op = op
    <3>1. Len(defs) + i \in DOMAIN all /\ all[Len(defs) + i] = more[i]
      BY <1>1, <1>2
    <3> QED BY <2>3, <3>1
  <2> QED BY <2>1, <2>2, <2>3
<1>4. ASSUME NEW op, NEW i, IsLast(defs, op, i), op \notin {more[j].op : j \in DOMAIN more}
      PROVE  IsLast(all, op, i) /\ all[i] = defs[i]
  <2>1. i \in DOMAIN all /\ all[i] = defs[i] /\ all[i].op = op
    BY <1>1, <1>2, <1>4 DEF IsLast
  <2>2. ASSUME NEW j \in DOMAIN all, j > i PROVE all[j].op # op
    <3>1. CASE j <= Len(defs)
      BY <1>1, <1>2, <1>4, <2>2, <3>1 DEF IsLast
    <3>2. CASE j > Len(defs)
      BY <1>1, <1>2, <1>4, <2>2, <3>2
    <3> QED BY <1>1, <3>1, <3>2
  <2> QED BY <2>1, <2>2 DEF IsLast
<1> QED BY <1>1, <1>3, <1>4 DEF all

\* The operations defined are the names of the file's definitions.
LEMMA DefinedAreNames == Defined = Names(afHandlers)
  BY DEF Defined, Names, ToSet

\* What the factory makes of the handlers: nothing that is bound is lost, an update
\* binds all operations, and hides nothing if all functions can be seen.
LEMMA HandlersGrow ==
  ASSUME AfInv, afRun.step = "handlers"
  PROVE  /\ NewHandlers \in HandlerFile
         /\ Names(afHandlers) \subseteq Names(NewHandlers)
         /\ afRun.command = "update" => afRun.ops \subseteq Names(NewHandlers)
         /\ ~Blind => \A op : Implemented(afHandlers, op) => Implemented(NewHandlers, op)
<1>1. afRun.ops \in SUBSET Operation
  BY DEF AfInv
<1>2. CASE afHandlers = Missing
  <2>1. NewHandlers = [parses |-> TRUE, defs |-> Stubs(afRun.ops)]
    BY <1>2 DEF NewHandlers
  <2>2. NewHandlers \in HandlerFile /\ NewHandlers.defs = Stubs(afRun.ops)
    BY <1>1, <2>1, StubsCover DEF HandlerFile, AfDef
  <2>3. Names(NewHandlers) = afRun.ops
    <3>1. PICK stubs : stubs = Stubs(afRun.ops)
      OBVIOUS
    <3>2. {stubs[i].op : i \in DOMAIN stubs} = afRun.ops
      BY <1>1, <3>1, StubsCover
    <3>3. NewHandlers # Missing /\ NewHandlers.defs = stubs
      BY <2>2, <3>1, FactoryAssumption
    <3> QED BY <3>2, <3>3 DEF Names
  <2> QED BY <1>2, <2>2, <2>3 DEF Names, Implemented
<1>3. CASE afHandlers # Missing /\ afRun.command = "new"
  <2>1. NewHandlers = afHandlers /\ afHandlers \in HandlerFile
    BY <1>3 DEF NewHandlers, AfInv
  <2> QED BY <1>3, <2>1
<1>4. CASE afHandlers # Missing /\ afRun.command # "new"
  <2> DEFINE more == Stubs(afRun.ops \ _declared_handler_names)
             new == [afHandlers EXCEPT !.defs = @ \o more]
  <2>1. NewHandlers = new /\ afHandlers \in HandlerFile
    BY <1>4 DEF NewHandlers, AfInv
  <2>2. afHandlers.defs \in Seq(AfDef) /\ afHandlers.parses \in BOOLEAN
    BY <2>1 DEF HandlerFile, AfDef
  <2>3. /\ more \in Seq(AfDef)
        /\ {more[i].op : i \in DOMAIN more} = afRun.ops \ _declared_handler_names
    BY <1>1, StubsCover
  <2>4. _declared_handler_names \subseteq Names(afHandlers)
    BY <1>4 DEF _declared_handler_names, Names, ToSet
  <2> HIDE DEF more
  <2>5. new.defs = afHandlers.defs \o more /\ new.defs \in Seq(AfDef)
    BY <2>1, <2>2, <2>3, AddedAtTheEnd DEF HandlerFile
  <2>6. new \in HandlerFile
    BY <2>1, <2>5 DEF HandlerFile, AfDef
  <2> HIDE DEF new
  <2>7. Names(new) = Names(afHandlers) \cup (afRun.ops \ _declared_handler_names)
    <3>1. PICK defs, all : defs = afHandlers.defs /\ all = defs \o more
      OBVIOUS
    <3>2. {all[i].op : i \in DOMAIN all}
            = {defs[i].op : i \in DOMAIN defs} \cup {more[i].op : i \in DOMAIN more}
      <4>1. defs \in Seq(AfDef) /\ more \in Seq(AfDef)
        BY <2>2, <2>3, <3>1
      <4>2. {(defs \o more)[i].op : i \in DOMAIN (defs \o more)}
              = {defs[i].op : i \in DOMAIN defs} \cup {more[i].op : i \in DOMAIN more}
        BY <4>1, AddedAtTheEnd, Zenon
      <4> QED BY <3>1, <4>2
    <3>3. new # Missing /\ new.defs = all
      BY <2>5, <2>6, <3>1, FactoryAssumption
    <3>4. Names(new) = {all[i].op : i \in DOMAIN all}
      BY <3>3 DEF Names
    <3>5. Names(afHandlers) = {defs[i].op : i \in DOMAIN defs}
      BY <1>4, <3>1 DEF Names
    <3> QED BY <2>3, <3>2, <3>4, <3>5
  <2>8. ASSUME ~Blind, NEW op, Implemented(afHandlers, op) PROVE Implemented(new, op)
    <3>1. PICK i \in DOMAIN afHandlers.defs : IsLast(afHandlers.defs, op, i) /\ afHandlers.defs[i].done
      BY <2>8 DEF Implemented
    <3>2. CASE new = afHandlers
      BY <2>8, <3>2
    <3>3. CASE new # afHandlers
      <4>1. afHandlers.parses /\ \A d \in ToSet(afHandlers.defs) : d.function
        BY <1>4, <2>1, <2>8, <3>3 DEF Blind
      <4>2. op \in _declared_handler_names
        BY <3>1, <4>1 DEF _declared_handler_names, ToSet, IsLast
      <4>3. op \notin {more[j].op : j \in DOMAIN more}
        BY <2>3, <4>2
      <4>4. PICK all : all = afHandlers.defs \o more
        OBVIOUS
      <4>5. IsLast(all, op, i) /\ all[i] = afHandlers.defs[i]
        BY <2>2, <2>3, <3>1, <4>3, <4>4, AddedAtTheEnd
      <4>6. all[i].done
        BY <3>1, <4>5
      <4>7. new.defs = all /\ new # Missing /\ i \in DOMAIN all
        BY <2>5, <2>6, <4>4, <4>5, FactoryAssumption DEF IsLast
      <4> QED BY <4>5, <4>6, <4>7 DEF Implemented
    <3> QED BY <3>2, <3>3
  <2> QED BY <2>1, <2>4, <2>6, <2>7, <2>8
<1> QED BY <1>2, <1>3, <1>4

\* What a developer fills in is what runs, and hides nothing of another name.
LEMMA FillInKeeps ==
  ASSUME AfInv, FillIn
  PROVE  AfInv'
<1>1. PICK op \in Defined, function \in BOOLEAN :
        /\ afHandlers' = [afHandlers EXCEPT !.defs[Handler(op)] =
                            [op |-> op, done |-> TRUE, function |-> function]]
        /\ afDone' = afDone \cup {op}
  BY DEF FillIn
<1>2. /\ afHandlers # Missing /\ afHandlers \in HandlerFile
      /\ UNCHANGED <<afTemplate, afLayer, afAnswers, afRun, afLast, afHidden>>
  BY DEF FillIn, Changes, AfInv
<1> DEFINE defs == afHandlers.defs
           d == [op |-> op, done |-> TRUE, function |-> function]
<1>3. PICK h : h = Handler(op)
  OBVIOUS
<1>4. IsLast(defs, op, h) /\ h \in DOMAIN defs /\ defs[h].op = op
  BY <1>2, <1>3, HandlerIsInForce DEF IsLast
<1>5. defs \in Seq(AfDef)
  BY <1>2 DEF HandlerFile, AfDef
<1>6. op \in Operation
  <2>1. PICK e : e = defs[h]
    OBVIOUS
  <2>2. e \in AfDef
    BY <1>4, <1>5, <2>1
  <2> QED BY <1>4, <2>1, <2>2 DEF AfDef
<1>7. d \in AfDef /\ d.op = op /\ d.done
  BY <1>6 DEF AfDef
<1> DEFINE new == [defs EXCEPT ![h] = d]
<1>8. afHandlers' = [parses |-> afHandlers.parses, defs |-> new] /\ afHandlers.parses \in BOOLEAN
  BY <1>1, <1>2, <1>3 DEF HandlerFile
<1> HIDE DEF d
<1>9. /\ new \in Seq(AfDef) /\ DOMAIN new = DOMAIN defs /\ new[h] = d
      /\ \A i \in DOMAIN defs \ {h} : new[i] = defs[i]
      /\ \A i \in DOMAIN defs : new[i].op = defs[i].op
  BY <1>4, <1>5, <1>7
<1> HIDE DEF new, defs
<1>10. afHandlers' \in HandlerFile /\ afHandlers' # Missing /\ afHandlers'.defs = new
  BY <1>8, <1>9, FactoryAssumption DEF HandlerFile, AfDef
<1>11. Names(afHandlers') = Names(afHandlers)
  BY <1>2, <1>9, <1>10 DEF Names, defs
<1>12. Implemented(afHandlers', op)
  <2>1. IsLast(new, op, h)
    BY <1>4, <1>9 DEF IsLast
  <2> QED BY <1>4, <1>7, <1>9, <1>10, <2>1 DEF Implemented
<1>13. ASSUME NEW o, o # op, Implemented(afHandlers, o) PROVE Implemented(afHandlers', o)
  <2>1. PICK i \in DOMAIN defs : IsLast(defs, o, i) /\ defs[i].done
    BY <1>13 DEF Implemented, defs
  <2>2. i # h
    BY <1>4, <1>13, <2>1 DEF IsLast
  <2>3. new[i] = defs[i] /\ i \in DOMAIN new
    BY <1>9, <2>1, <2>2
  <2>4. IsLast(new, o, i)
    BY <1>9, <2>1 DEF IsLast
  <2>5. new[i].done
    BY <2>1, <2>3
  <2> QED BY <1>10, <2>3, <2>4, <2>5 DEF Implemented
<1>14. ~afHidden' => \A o \in afDone' : Implemented(afHandlers', o)
  BY <1>1, <1>2, <1>12, <1>13 DEF AfInv
<1> QED BY <1>2, <1>10, <1>11, <1>14 DEF AfInv

\* Whatever leaves handlers, layer, answers and the run as they are, but for a run
\* that begins.
LEMMA OthersLeaveTheApplication ==
  ASSUME AfInv, Publish \/ BreakOrMend \/ _handle_new \/ update_in_place
  PROVE  AfInv'
<1>1. CASE Publish
  <2>1. /\ UNCHANGED <<afLayer, afHandlers, afAnswers, afRun, afLast, afDone, afHidden>>
        /\ afTemplate'.ops \subseteq Operation
    BY <1>1 DEF Publish, Changes, Templates
  <2> QED BY <2>1 DEF AfInv
<1>2. CASE BreakOrMend
  <2>1. /\ UNCHANGED <<afTemplate, afLayer, afAnswers, afRun, afLast, afDone, afHidden>>
        /\ afHandlers # Missing /\ afHandlers \in HandlerFile
        /\ afHandlers' = [afHandlers EXCEPT !.parses = ~@]
    BY <1>2 DEF BreakOrMend, Changes, AfInv
  <2>2. PICK p \in BOOLEAN : p = ~afHandlers.parses
    OBVIOUS
  <2>3. afHandlers' = [parses |-> p, defs |-> afHandlers.defs]
    BY <2>1, <2>2 DEF HandlerFile
  <2>4. afHandlers' \in HandlerFile /\ afHandlers' # Missing /\ afHandlers'.defs = afHandlers.defs
    BY <2>1, <2>3, FactoryAssumption DEF HandlerFile
  <2>5. Names(afHandlers') = Names(afHandlers)
    BY <2>1, <2>4 DEF Names
  <2>6. \A op : Implemented(afHandlers, op) => Implemented(afHandlers', op)
    BY <2>1, <2>4 DEF Implemented
  <2> QED BY <2>1, <2>4, <2>5, <2>6 DEF AfInv
<1>3. CASE _handle_new \/ update_in_place
  <2>1. PICK command, answers : Begins(command, answers)
    BY <1>3 DEF _handle_new, update_in_place
  <2>2. afRun' = [step |-> "layer", command |-> command, ops |-> afTemplate.ops, answers |-> answers]
    BY <2>1 DEF Begins
  <2>3. UNCHANGED <<afTemplate, afLayer, afHandlers, afAnswers, afLast, afDone, afHidden>>
    BY <2>1 DEF Begins
  <2> QED BY <2>2, <2>3 DEF AfInv
<1> QED BY <1>1, <1>2, <1>3

\* The three writes of a run, and its death in one or between two.
LEMMA RunKeeps ==
  ASSUME AfInv,
         _write_contract_layer \/ _reconcile_handlers \/ _save_update_answers \/ DieInRun
  PROVE  AfInv'
<1>1. PICK run : run = afRun
  OBVIOUS
<1>2. CASE _write_contract_layer
  <2>1. /\ run.step = "layer" /\ afRun' = [run EXCEPT !.step = "handlers"]
        /\ afLayer' = [ops |-> run.ops, answers |-> run.answers]
        /\ UNCHANGED <<afTemplate, afHandlers, afAnswers, afLast, afDone, afHidden>>
    BY <1>1, <1>2 DEF _write_contract_layer, Step, Then
  <2>2. /\ run = [step |-> run.step, command |-> run.command, ops |-> run.ops, answers |-> run.answers]
        /\ run.ops \subseteq Operation
    BY <1>1, <2>1 DEF AfInv
  <2>3. afRun' = [step |-> "handlers", command |-> run.command, ops |-> run.ops, answers |-> run.answers]
    BY <2>1, <2>2
  <2> QED BY <2>1, <2>2, <2>3 DEF AfInv
<1>3. CASE _reconcile_handlers
  <2>1. /\ run.step = "handlers" /\ afRun' = [run EXCEPT !.step = "answers"]
        /\ afHandlers' = NewHandlers /\ afHidden' = (afHidden \/ Blind)
        /\ UNCHANGED <<afTemplate, afLayer, afAnswers, afLast, afDone>>
    BY <1>1, <1>3 DEF _reconcile_handlers, Step, Then
  <2>2. /\ run = [step |-> run.step, command |-> run.command, ops |-> run.ops, answers |-> run.answers]
        /\ run.ops \subseteq Operation /\ afLayer = [ops |-> run.ops, answers |-> run.answers]
    BY <1>1, <2>1 DEF AfInv
  <2>3. afRun' = [step |-> "answers", command |-> run.command, ops |-> run.ops, answers |-> run.answers]
    BY <2>1, <2>2
  <2>4. PICK new : new = NewHandlers
    OBVIOUS
  <2>5. /\ new \in HandlerFile /\ (run.command = "update" => run.ops \subseteq Names(new))
        /\ ~Blind => \A op : Implemented(afHandlers, op) => Implemented(new, op)
    BY <1>1, <2>1, <2>4, HandlersGrow
  <2>6. ~afHidden' => \A op \in afDone : Implemented(new, op)
    BY <2>1, <2>5 DEF AfInv
  <2> QED BY <2>1, <2>2, <2>3, <2>4, <2>5, <2>6 DEF AfInv
<1>4. CASE _save_update_answers
  <2>1. /\ run.step = "answers" /\ afRun' = NoRun
        /\ afAnswers' = run.answers /\ afLast' = run.command
        /\ UNCHANGED <<afTemplate, afLayer, afHandlers, afDone, afHidden>>
    BY <1>1, <1>4 DEF _save_update_answers, Step, Then, Recorded
  <2>2. /\ afLayer = [ops |-> run.ops, answers |-> run.answers]
        /\ run.command = "update" => run.ops \subseteq Names(afHandlers)
    BY <1>1, <2>1 DEF AfInv
  <2>3. afRun'.step = "none"
    BY <2>1 DEF NoRun
  <2> QED BY <2>1, <2>2, <2>3 DEF AfInv
<1>5. CASE DieInRun
  <2>1. /\ afRun' = NoRun /\ afLast' = "died" /\ UNCHANGED <<afTemplate, afDone>>
        /\ \/ UNCHANGED <<afHandlers, afHidden>>
           \/ afHandlers' = [parses |-> TRUE, defs |-> <<>>] /\ afHidden' = TRUE
    BY <1>5 DEF DieInRun
  <2>2. afRun'.step = "none"
    BY <2>1 DEF NoRun
  <2>3. afHandlers' \in {Missing} \cup HandlerFile
    <3>1. [parses |-> TRUE, defs |-> <<>>] \in HandlerFile
      BY DEF HandlerFile
    <3> QED BY <2>1, <3>1 DEF AfInv
  <2>4. ~afHidden' => \A op \in afDone' : Implemented(afHandlers', op)
    BY <2>1 DEF AfInv
  <2> QED BY <2>1, <2>2, <2>3, <2>4 DEF AfInv
<1> QED BY <1>2, <1>3, <1>4, <1>5

\* Every step of the factory keeps its invariant.
LEMMA StepKeepsTheApplication == AfInv /\ [AfNext]_afVars => AfInv'
<1> SUFFICES ASSUME AfInv, [AfNext]_afVars PROVE AfInv'
  OBVIOUS
<1>1. CASE UNCHANGED afVars
  BY <1>1 DEF afVars, AfInv
<1>2. CASE AfNext
  BY <1>2, FillInKeeps, OthersLeaveTheApplication, RunKeeps DEF AfNext
<1> QED BY <1>1, <1>2

\* However often a contract is published and applied anew, and wherever a run
\* dies: the developer's handlers are what runs, an update serves all operations,
\* and its answers give the layer there is.
THEOREM UpdatesStaySafe == AfSpec => []UpdatesAreSafe
<1>1. AfInit => AfInv
  BY DEF AfInit, AfInv, NoRun, Templates
<1>2. AfInv => UpdatesAreSafe
  <2> SUFFICES ASSUME AfInv PROVE UpdatesAreSafe
    OBVIOUS
  <2>1. LogicSurvives
    <3> SUFFICES ASSUME ~afHidden, NEW op \in afDone
                 PROVE  op \in Defined /\ afHandlers.defs[Handler(op)].done
      BY DEF LogicSurvives
    <3>1. Implemented(afHandlers, op)
      BY DEF AfInv
    <3>2. afHandlers # Missing /\ afHandlers \in HandlerFile
      BY <3>1 DEF Implemented, AfInv
    <3>3. PICK i \in DOMAIN afHandlers.defs : IsLast(afHandlers.defs, op, i) /\ afHandlers.defs[i].done
      BY <3>1 DEF Implemented
    <3>4. op \in Defined
      BY <3>2, <3>3, DefinedAreNames DEF Names, IsLast
    <3>5. PICK h : h = Handler(op)
      OBVIOUS
    <3>6. IsLast(afHandlers.defs, op, h)
      BY <3>2, <3>4, <3>5, HandlerIsInForce
    <3>7. i \in Int /\ h \in Int
      BY <3>2, <3>3, <3>6 DEF HandlerFile, IsLast
    <3>8. i = h
      BY <3>3, <3>6, <3>7 DEF IsLast
    <3> QED BY <3>3, <3>4, <3>5, <3>8
  <2>2. afRun = NoRun => afRun.step = "none"
    BY DEF NoRun
  <2>3. EveryOperationIsHandled /\ AnswersReplay
    BY <2>2, DefinedAreNames DEF AfInv, EveryOperationIsHandled, AnswersReplay
  <2> QED BY <2>1, <2>3 DEF UpdatesAreSafe
<1> QED BY <1>1, <1>2, StepKeepsTheApplication, PTL DEF AfSpec
-----------------------------------------------------------------------------
\* The language server: SentinelServer's editor, server, and the two streams.

LsLines == Seq(Line) \ {<<>>}
LsFindings == SUBSET (Nat \X Invariants)
LsChange == [method : {"change"}, uri : Uri, text : LsLines]
LsClose == [method : {"close"}, uri : Uri]
LsAction == [method : {"codeAction"}, uri : Uri, id : Nat]
LsPublish == [uri : Uri, diagnostics : LsFindings]
LsAnswer == [id : Nat, edit : [new : Seq(Line), lines : Nat]]

LsRequest == [id : Nat, uri : Uri, current : BOOLEAN]

LsTypeOK ==
  /\ lsText \in [Uri -> LsLines \cup {Unopened}] /\ lsOpenDocs \in [Uri -> LsLines \cup {Unopened}]
  /\ lsShown \in [Uri -> LsFindings]
  /\ lsAsked \in Seq(LsRequest)
  /\ lsToServer \in Seq(LsChange \cup LsClose \cup LsAction)
  /\ lsToEditor \in Seq(LsPublish \cup LsAnswer)
  /\ lsFixes \in Nat

\* A message that tells about a text: to the server what has become of it, to the
\* editor what is found in it.
About(m, u) == "id" \notin DOMAIN m /\ m.uri = u
Carried(m) == IF m.method = "change" THEN m.text ELSE Unopened

\* No message after the i-th is about the text.
NoneAfter(messages, i, u) == \A j \in DOMAIN messages : j > i => ~About(messages[j], u)

\* The last message about a text brings the server what the editor has; without
\* one the server has it.
Arrive(messages, texts, docs) ==
  \A u \in Uri :
    /\ \A i \in DOMAIN messages :
         About(messages[i], u) /\ NoneAfter(messages, i, u) => Carried(messages[i]) = texts[u]
    /\ NoneAfter(messages, 0, u) => docs[u] = texts[u]

\* The same of what the server has found in a text it has.
Found(messages, docs, shown, rules) ==
  \A u \in Uri : docs[u] # Unopened =>
    /\ \A i \in DOMAIN messages :
         About(messages[i], u) /\ NoneAfter(messages, i, u) =>
           messages[i].diagnostics = audit_source(docs[u], rules)
    /\ NoneAfter(messages, 0, u) => shown[u] = audit_source(docs[u], rules)

\* AnswersComeInOrder, of any three lists.
InLine(asked, answers, open) ==
  /\ Ids(asked) = Ids(answers) \cup Ids(open)
  /\ InOrder(asked) /\ InOrder(answers) /\ InOrder(open)
  /\ \A a \in Ids(answers), o \in Ids(open) : a < o

\* A request is not overtaken by a change of the text it is about.
Untouched(id, u, open) ==
  \A i \in Requests(open) : open[i].id = id => open[i].uri = u /\ NoneAfter(open, i, u)

\* Its answer is about the text as it is.
Answered(id, u, answers, texts, rules) ==
  \A i \in Requests(answers) : answers[i].id = id => answers[i].edit = _handle_code_action(u, texts, rules)

\* So it is with every request about a text that has not changed since.
Current(asked, answers, open, texts, rules) ==
  \A k \in DOMAIN asked : asked[k].current =>
    /\ Untouched(asked[k].id, asked[k].uri, open)
    /\ Answered(asked[k].id, asked[k].uri, answers, texts, rules)

Numbered(asked, n) == \A id \in Ids(asked) : id <= n

LsInv ==
  /\ LsTypeOK
  /\ Arrive(lsToServer, lsText, lsOpenDocs)
  /\ Found(lsToEditor, lsOpenDocs, lsShown, lsRules)
  /\ InLine(lsAsked, lsToEditor, lsToServer)
  /\ Numbered(lsAsked, lsFixes)
  /\ Current(lsAsked, lsToEditor, lsToServer, lsText, lsRules)

-----------------------------------------------------------------------------
\* Lists of messages that grow at the end and shrink at the beginning.

\* A list with one more message at its end.
LEMMA Appended ==
  ASSUME NEW T, NEW s \in Seq(T), NEW e \in T, NEW t, t = Append(s, e)
  PROVE  /\ t \in Seq(T) /\ Len(s) \in Nat /\ DOMAIN s = 1 .. Len(s) /\ DOMAIN t = 1 .. Len(s) + 1
         /\ \A i \in 1 .. Len(s) : t[i] = s[i]
         /\ t[Len(s) + 1] = e
<1>1. Len(s) \in Nat /\ DOMAIN s = 1 .. Len(s)
  BY LenProperties
<1>2. t \in Seq(T) /\ Len(t) = Len(s) + 1
  BY AppendProperties
<1>3. DOMAIN t = 1 .. Len(s) + 1
  BY <1>2, LenProperties
<1>4. \A i \in 1 .. Len(s) : t[i] = s[i]
  BY <1>1, AppendProperties
<1>5. t[Len(s) + 1] = e
  BY AppendProperties
<1> QED BY <1>1, <1>2, <1>3, <1>4, <1>5

\* A list without its first message.
LEMMA Taken ==
  ASSUME NEW T, NEW s \in Seq(T), s # <<>>, NEW t, t = Tail(s)
  PROVE  /\ t \in Seq(T) /\ Len(s) \in Nat \ {0}
         /\ DOMAIN s = 1 .. Len(s) /\ DOMAIN t = 1 .. Len(s) - 1
         /\ \A i \in 1 .. Len(s) - 1 : t[i] = s[i + 1]
         /\ Head(s) = s[1] /\ Head(s) \in T
<1>1. Len(s) \in Nat \ {0} /\ DOMAIN s = 1 .. Len(s)
  BY LenProperties, EmptySeq
<1>2. /\ t \in Seq(T) /\ Len(t) = Len(s) - 1 /\ Head(s) \in T
      /\ \A i \in 1 .. Len(t) : t[i] = s[i + 1]
  BY HeadTailProperties
<1>3. DOMAIN t = 1 .. Len(s) - 1
  BY <1>2, LenProperties
<1>4. Head(s) = s[1]
  BY <1>1
<1> QED BY <1>1, <1>2, <1>3, <1>4

\* The numbers of the requests in a list that grows.
LEMMA IdsAppended ==
  ASSUME NEW T, NEW s \in Seq(T), NEW e \in T, NEW t, t = Append(s, e)
  PROVE  /\ Ids(t) = Ids(s) \cup (IF "id" \in DOMAIN e THEN {e.id} ELSE {})
         /\ InOrder(s) /\ ("id" \in DOMAIN e => \A id \in Ids(s) : id < e.id) => InOrder(t)
<1> DEFINE n == Len(s)
<1>1. /\ n \in Nat /\ DOMAIN s = 1 .. n /\ DOMAIN t = 1 .. n + 1
      /\ \A i \in 1 .. n : t[i] = s[i]
      /\ t[n + 1] = e
  BY Appended
<1> HIDE DEF n
<1>2. Requests(s) = {i \in 1 .. n : "id" \in DOMAIN s[i]}
  BY <1>1 DEF Requests
<1>3. Requests(t) = Requests(s) \cup (IF "id" \in DOMAIN e THEN {n + 1} ELSE {})
  BY <1>1, <1>2 DEF Requests
<1>4. Ids(t) = Ids(s) \cup (IF "id" \in DOMAIN e THEN {e.id} ELSE {})
  <2>1. \A i \in Requests(s) : t[i].id = s[i].id
    BY <1>1, <1>2
  <2>2. CASE "id" \in DOMAIN e
    <3>1. Requests(t) = Requests(s) \cup {n + 1} /\ t[n + 1].id = e.id
      BY <1>1, <1>3, <2>2
    <3>2. ASSUME NEW id \in Ids(t) PROVE id \in Ids(s) \/ id = e.id
      <4>1. PICK i \in Requests(t) : id = t[i].id
        BY DEF Ids
      <4>2. CASE i \in Requests(s)
        BY <2>1, <4>1, <4>2 DEF Ids
      <4>3. CASE i = n + 1
        BY <3>1, <4>1, <4>3
      <4> QED BY <3>1, <4>2, <4>3
    <3>3. ASSUME NEW id \in Ids(s) PROVE id \in Ids(t)
      <4>1. PICK i \in Requests(s) : id = s[i].id
        BY DEF Ids
      <4>2. i \in Requests(t) /\ t[i].id = id
        BY <2>1, <3>1, <4>1
      <4> QED BY <4>2 DEF Ids
    <3>4. e.id \in Ids(t)
      BY <3>1 DEF Ids
    <3>5. Ids(t) = Ids(s) \cup {e.id}
      BY <3>2, <3>3, <3>4
    <3> QED BY <2>2, <3>5
  <2>3. CASE "id" \notin DOMAIN e
    BY <1>3, <2>1, <2>3 DEF Ids
  <2> QED BY <2>2, <2>3
<1>5. ASSUME InOrder(s), "id" \in DOMAIN e => \A id \in Ids(s) : id < e.id PROVE InOrder(t)
  <2> SUFFICES ASSUME NEW i \in Requests(t), NEW j \in Requests(t), i < j PROVE t[i].id < t[j].id
    BY DEF InOrder
  <2>1. i \in 1 .. n /\ i \in Requests(s) /\ t[i] = s[i]
    BY <1>1, <1>2, <1>3
  <2>2. CASE j \in Requests(s)
    <3>1. s[i].id < s[j].id
      BY <1>5, <2>1, <2>2 DEF InOrder
    <3>2. t[j] = s[j]
      BY <1>1, <1>2, <2>2
    <3> QED BY <2>1, <3>1, <3>2
  <2>3. CASE j \notin Requests(s)
    <3>1. "id" \in DOMAIN e /\ j = n + 1
      BY <1>3, <2>3
    <3>2. s[i].id \in Ids(s)
      BY <2>1 DEF Ids
    <3>3. s[i].id < e.id
      BY <1>5, <3>1, <3>2
    <3> QED BY <1>1, <2>1, <3>1, <3>3
  <2> QED BY <2>2, <2>3
<1> QED BY <1>4, <1>5

\* The numbers of the requests in a list whose first message is taken.
LEMMA IdsTaken ==
  ASSUME NEW T, \A m \in T : "id" \in DOMAIN m => m.id \in Nat,
         NEW s \in Seq(T), s # <<>>, NEW t, t = Tail(s), InOrder(s)
  PROVE  /\ InOrder(t) /\ Ids(s) \subseteq Nat
         /\ "id" \in DOMAIN Head(s) =>
              /\ Head(s).id \in Ids(s) /\ Ids(t) = Ids(s) \ {Head(s).id}
              /\ \A id \in Ids(t) : Head(s).id < id
         /\ "id" \notin DOMAIN Head(s) => Ids(t) = Ids(s)
<1> DEFINE n == Len(s)
<1>1. /\ t \in Seq(T) /\ n \in Nat \ {0} /\ DOMAIN s = 1 .. n /\ DOMAIN t = 1 .. n - 1
      /\ \A i \in 1 .. n - 1 : t[i] = s[i + 1]
      /\ Head(s) = s[1] /\ Head(s) \in T
  BY Taken
<1>2. \A i \in 1 .. n : s[i] \in T
  BY <1>1, ElementOfSeq
<1> HIDE DEF n
<1>3. /\ \A i : i \in Requests(s) <=> i \in 1 .. n /\ "id" \in DOMAIN s[i]
      /\ \A i : i \in Requests(t) <=> i \in 1 .. n - 1 /\ "id" \in DOMAIN t[i]
  BY <1>1 DEF Requests
<1>4. ASSUME NEW i \in Requests(t) PROVE i + 1 \in Requests(s) /\ t[i] = s[i + 1] /\ i \in Nat \ {0}
  BY <1>1, <1>3
<1>5. ASSUME NEW j \in Requests(s), j # 1 PROVE j - 1 \in Requests(t) /\ t[j - 1] = s[j]
  <2>1. j \in 1 .. n /\ j - 1 \in 1 .. n - 1 /\ (j - 1) + 1 = j
    BY <1>1, <1>3, <1>5
  <2>2. t[j - 1] = s[(j - 1) + 1]
    BY <1>1, <2>1
  <2>3. t[j - 1] = s[j]
    BY <2>1, <2>2
  <2> QED BY <1>3, <2>1, <2>3
<1>6. \A i \in Requests(s) : s[i].id \in Nat
  BY <1>2, <1>3
<1>7. Ids(s) \subseteq Nat
  BY <1>6 DEF Ids
<1>8. InOrder(t)
  <2> SUFFICES ASSUME NEW i \in Requests(t), NEW j \in Requests(t), i < j PROVE t[i].id < t[j].id
    BY DEF InOrder
  <2>1. i + 1 \in Requests(s) /\ t[i] = s[i + 1] /\ i \in Nat
    BY <1>4
  <2>2. j + 1 \in Requests(s) /\ t[j] = s[j + 1] /\ j \in Nat
    BY <1>4
  <2>3. i + 1 < j + 1
    BY <2>1, <2>2
  <2>4. s[i + 1].id < s[j + 1].id
    BY <2>1, <2>2, <2>3 DEF InOrder
  <2> QED BY <2>1, <2>2, <2>4
<1>9. ASSUME NEW id \in Ids(t) PROVE \E j \in Requests(s) : j # 1 /\ s[j].id = id /\ 1 < j
  <2>1. PICK i \in Requests(t) : id = t[i].id
    BY DEF Ids
  <2>2. i + 1 \in Requests(s) /\ t[i] = s[i + 1] /\ i \in Nat \ {0}
    BY <1>4
  <2>3. i + 1 # 1 /\ 1 < i + 1
    BY <2>2
  <2>4. s[i + 1].id = id
    BY <2>1, <2>2, Zenon
  <2> QED BY <2>2, <2>3, <2>4
<1>10. ASSUME NEW j \in Requests(s), j # 1 PROVE s[j].id \in Ids(t)
  <2>1. j - 1 \in Requests(t) /\ t[j - 1] = s[j]
    BY <1>5, <1>10
  <2> QED BY <2>1 DEF Ids
<1>11. CASE "id" \in DOMAIN Head(s)
  <2>1. 1 \in Requests(s) /\ s[1] = Head(s)
    BY <1>1, <1>3, <1>11
  <2>2. Head(s).id \in Ids(s)
    BY <2>1 DEF Ids
  <2>3. \A j \in Requests(s) : 1 < j => Head(s).id < s[j].id
    BY <2>1 DEF InOrder
  <2>4. \A id \in Ids(t) : Head(s).id < id /\ id \in Ids(s)
    <3> SUFFICES ASSUME NEW id \in Ids(t) PROVE Head(s).id < id /\ id \in Ids(s)
      OBVIOUS
    <3>1. PICK j \in Requests(s) : j # 1 /\ s[j].id = id /\ 1 < j
      BY <1>9
    <3> QED BY <2>3, <3>1 DEF Ids
  <2>5. Head(s).id \in Nat
    BY <1>7, <2>2
  <2>6. \A id \in Ids(s) : id # Head(s).id => id \in Ids(t)
    <3> SUFFICES ASSUME NEW id \in Ids(s), id # Head(s).id PROVE id \in Ids(t)
      OBVIOUS
    <3>1. PICK j \in Requests(s) : s[j].id = id
      BY DEF Ids
    <3>2. j # 1
      BY <2>1, <3>1
    <3> QED BY <1>10, <3>1, <3>2
  <2>7. \A id \in Ids(t) : id # Head(s).id
    BY <1>7, <2>4, <2>5
  <2>8. Ids(t) = Ids(s) \ {Head(s).id}
    BY <2>4, <2>6, <2>7
  <2> QED BY <1>7, <1>8, <1>11, <2>2, <2>4, <2>8
<1>12. CASE "id" \notin DOMAIN Head(s)
  <2>1. 1 \notin Requests(s)
    BY <1>1, <1>3, <1>12
  <2>2. \A id \in Ids(s) : id \in Ids(t)
    <3> SUFFICES ASSUME NEW id \in Ids(s) PROVE id \in Ids(t)
      OBVIOUS
    <3>1. PICK j \in Requests(s) : s[j].id = id
      BY DEF Ids
    <3> QED BY <1>10, <2>1, <3>1
  <2>3. \A id \in Ids(t) : id \in Ids(s)
    BY <1>9 DEF Ids
  <2> QED BY <1>7, <1>8, <1>12, <2>2, <2>3
<1> QED BY <1>11, <1>12

\* Later messages about a text, in a list that grows.
LEMMA NoneAfterAppended ==
  ASSUME NEW T, NEW s \in Seq(T), NEW e \in T, NEW t, t = Append(s, e), NEW u
  PROVE  /\ \A i \in 0 .. Len(s) : NoneAfter(t, i, u) <=> NoneAfter(s, i, u) /\ ~About(e, u)
         /\ NoneAfter(t, Len(s) + 1, u)
<1> DEFINE n == Len(s)
<1>1. /\ n \in Nat /\ DOMAIN s = 1 .. n /\ DOMAIN t = 1 .. n + 1
      /\ \A i \in 1 .. n : t[i] = s[i]
      /\ t[n + 1] = e
  BY Appended
<1> HIDE DEF n
<1>2. ASSUME NEW i \in 0 .. n PROVE NoneAfter(t, i, u) <=> NoneAfter(s, i, u) /\ ~About(e, u)
  <2>1. ASSUME NoneAfter(t, i, u) PROVE NoneAfter(s, i, u) /\ ~About(e, u)
    BY <1>1, <2>1 DEF NoneAfter
  <2>2. ASSUME NoneAfter(s, i, u), ~About(e, u), NEW j \in 1 .. n + 1, j > i PROVE ~About(t[j], u)
    <3>1. CASE j \in 1 .. n
      BY <1>1, <2>2, <3>1 DEF NoneAfter
    <3>2. CASE j = n + 1
      BY <1>1, <2>2, <3>2
    <3> QED BY <1>1, <3>1, <3>2
  <2>3. NoneAfter(s, i, u) /\ ~About(e, u) => NoneAfter(t, i, u)
    BY <1>1, <2>2 DEF NoneAfter
  <2> QED BY <2>1, <2>3
<1>3. NoneAfter(t, n + 1, u)
  BY <1>1 DEF NoneAfter
<1> QED BY <1>2, <1>3 DEF n

\* Later messages about a text, in a list whose first message is taken.
LEMMA NoneAfterTaken ==
  ASSUME NEW T, NEW s \in Seq(T), s # <<>>, NEW t, t = Tail(s), NEW u
  PROVE  /\ \A i \in 0 .. Len(s) - 1 : NoneAfter(t, i, u) <=> NoneAfter(s, i + 1, u)
         /\ NoneAfter(s, 0, u) <=> NoneAfter(t, 0, u) /\ ~About(Head(s), u)
<1> DEFINE n == Len(s)
<1>1. /\ n \in Nat \ {0} /\ DOMAIN s = 1 .. n /\ DOMAIN t = 1 .. n - 1
      /\ \A i \in 1 .. n - 1 : t[i] = s[i + 1]
      /\ Head(s) = s[1]
  BY Taken
<1> HIDE DEF n
<1>2. ASSUME NEW j \in 2 .. n PROVE j - 1 \in 1 .. n - 1 /\ t[j - 1] = s[j]
  <2>1. j - 1 \in 1 .. n - 1 /\ (j - 1) + 1 = j
    BY <1>1
  <2>2. t[j - 1] = s[(j - 1) + 1]
    BY <1>1, <2>1
  <2> QED BY <2>1, <2>2
<1>3. ASSUME NEW i \in 0 .. n - 1 PROVE NoneAfter(t, i, u) <=> NoneAfter(s, i + 1, u)
  <2>1. ASSUME NoneAfter(t, i, u), NEW j \in 1 .. n, j > i + 1 PROVE ~About(s[j], u)
    <3>1. j \in 2 .. n /\ j - 1 > i
      BY <1>1, <2>1
    <3>2. j - 1 \in 1 .. n - 1 /\ t[j - 1] = s[j]
      BY <1>2, <3>1
    <3>3. ~About(t[j - 1], u)
      BY <1>1, <2>1, <3>1, <3>2 DEF NoneAfter
    <3> QED BY <3>2, <3>3
  <2>2. ASSUME NoneAfter(s, i + 1, u), NEW j \in 1 .. n - 1, j > i PROVE ~About(t[j], u)
    <3>1. j + 1 \in 1 .. n /\ j + 1 > i + 1
      BY <1>1, <2>2
    <3>2. ~About(s[j + 1], u)
      BY <1>1, <2>2, <3>1 DEF NoneAfter
    <3> QED BY <1>1, <3>2
  <2>3. NoneAfter(t, i, u) => NoneAfter(s, i + 1, u)
    BY <1>1, <2>1 DEF NoneAfter
  <2>4. NoneAfter(s, i + 1, u) => NoneAfter(t, i, u)
    BY <1>1, <2>2 DEF NoneAfter
  <2> QED BY <2>3, <2>4
<1>4. NoneAfter(s, 0, u) <=> NoneAfter(s, 1, u) /\ ~About(s[1], u)
  BY <1>1 DEF NoneAfter
<1>5. NoneAfter(t, 0, u) <=> NoneAfter(s, 1, u)
  <2>1. PICK z \in 0 .. n - 1 : z = 0
    BY <1>1
  <2>2. NoneAfter(t, z, u) <=> NoneAfter(s, z + 1, u)
    BY <1>3
  <2>3. z + 1 = 1
    BY <2>1
  <2> QED BY <2>1, <2>2, <2>3, Zenon
<1>6. NoneAfter(s, 0, u) <=> NoneAfter(t, 0, u) /\ ~About(Head(s), u)
  BY <1>1, <1>4, <1>5
<1> QED BY <1>3, <1>6 DEF n

\* A list with one more piece at its end, and without it.
LEMMA Extended ==
  ASSUME NEW T, NEW s \in Seq(T), NEW e \in T, NEW t, t = Append(s, e)
  PROVE  t \in Seq(T) /\ t # <<>> /\ Last(t) = e /\ Front(t) = s /\ s \o <<e>> = t
<1>1. PICK n \in Nat : n = Len(s) /\ DOMAIN s = 1 .. n
  BY LenProperties
<1>2. t \in Seq(T) /\ Len(t) = n + 1 /\ t[n + 1] = e /\ \A i \in 1 .. n : t[i] = s[i]
  BY <1>1, AppendProperties
<1>3. t # <<>>
  BY <1>1, <1>2, EmptySeq
<1>4. Last(t) = e
  BY <1>2 DEF Last
<1>5. Len(t) - 1 = n
  BY <1>1, <1>2
<1>6. Front(t) = SubSeq(t, 1, n)
  BY <1>5 DEF Front
<1>7. SubSeq(t, 1, n) = s
  <2>1. t = s \o <<e>>
    BY AppendIsConcat
  <2>2. t = SubSeq(t, 1, Len(t))
    BY <1>2, SubSeqFull
  <2>3. 1 \in 1 .. Len(t) /\ Len(t) \in 1 .. Len(t)
    BY <1>1, <1>2
  <2>4. SubSeq(t, 1, Len(t)) = SubSeq(t, 1, Len(t) - 1) \o <<t[Len(t)]>>
    BY <1>2, <2>3, SubSeqRecursiveSecond
  <2>5. t = SubSeq(t, 1, n) \o <<e>>
    BY <1>2, <1>5, <2>2, <2>4, Zenon
  <2>6. \A i \in 1 .. n : t[i] \in T
    BY <1>1, <1>2, ElementOfSeq
  <2>7. SubSeq(t, 1, n) \in Seq(T)
    BY <1>1, <1>2, <2>6
  <2>8. <<e>> \in Seq(T)
    OBVIOUS
  <2> QED BY <2>1, <2>5, <2>7, <2>8, ConcatSimplifications
<1>8. Front(t) = s
  BY <1>6, <1>7
<1>9. s \o <<e>> = t
  BY AppendIsConcat
<1> QED BY <1>2, <1>3, <1>4, <1>8, <1>9

\* What stands behind the lines of a text.
LEMMA Rest ==
  ASSUME NEW T, NEW s \in Seq(T), s # <<>>
  PROVE  /\ SubSeq(s, Len(s), Len(s)) = <<s[Len(s)]>>
         /\ SubSeq(s, Len(s) + 1, Len(s)) = <<>>
<1>1. PICK n \in Nat \ {0} : n = Len(s) /\ n \in 1 .. n
  BY LenProperties, EmptySeq
<1>2. SubSeq(s, n + 1, n) = <<>>
  BY <1>1, SubSeqEmpty
<1>3. SubSeq(s, n, n) = <<s[n]>> \o SubSeq(s, n + 1, n)
  <2>1. n \in 1 .. Len(s) /\ n \in n .. Len(s)
    BY <1>1
  <2> QED BY <2>1, SubSeqRecursiveFirst
<1>4. s[n] \in T
  BY <1>1, ElementOfSeq
<1>5. <<s[n]>> \o <<>> = <<s[n]>>
  <2>1. <<s[n]>> \in Seq(T)
    BY <1>4
  <2> QED BY <2>1, ConcatEmptySeq
<1> QED BY <1>1, <1>2, <1>3, <1>5, Zenon

-----------------------------------------------------------------------------
\* What is on its way to the server.

\* Nothing is different but of one text.
SameButOf(f, g, u) == \A x \in Uri : x # u => f[x] = g[x]

\* A change or a close that is sent says what the editor has now.
LEMMA ArriveSent ==
  ASSUME NEW T, NEW s \in Seq(T), NEW e \in T, NEW t, t = Append(s, e),
         NEW texts, NEW docs, NEW texts2, Arrive(s, texts, docs),
         NEW u \in Uri, About(e, u), SameButOf(texts2, texts, u),
         Carried(e) = texts2[u]
  PROVE  Arrive(t, texts2, docs)
<1> DEFINE n == Len(s)
<1>1. /\ n \in Nat /\ DOMAIN s = 1 .. n /\ DOMAIN t = 1 .. n + 1
      /\ \A i \in 1 .. n : t[i] = s[i]
      /\ t[n + 1] = e
  BY Appended
<1>2. \A x \in Uri, i \in 0 .. n : NoneAfter(t, i, x) <=> NoneAfter(s, i, x) /\ ~About(e, x)
  BY NoneAfterAppended
<1> HIDE DEF n
<1>3. ~\E x \in Uri : x # u /\ About(e, x)
  BY DEF About
<1>4. ASSUME NEW x \in Uri, NEW i \in 1 .. n + 1, About(t[i], x), NoneAfter(t, i, x)
      PROVE  Carried(t[i]) = texts2[x]
  <2>1. CASE i = n + 1
    <3>1. t[i] = e /\ x = u
      BY <1>1, <1>3, <1>4, <2>1
    <3> QED BY <3>1
  <2>2. CASE i \in 1 .. n
    <3>1. t[i] = s[i] /\ NoneAfter(s, i, x) /\ x # u
      BY <1>1, <1>2, <1>4, <2>2
    <3>2. Carried(s[i]) = texts[x]
      BY <1>1, <1>4, <2>2, <3>1 DEF Arrive
    <3> QED BY <3>1, <3>2 DEF SameButOf
  <2> QED BY <1>1, <1>4, <2>1, <2>2
<1>5. ASSUME NEW x \in Uri, NoneAfter(t, 0, x) PROVE docs[x] = texts2[x]
  <2>1. NoneAfter(s, 0, x) /\ x # u
    BY <1>1, <1>2, <1>5
  <2> QED BY <2>1 DEF Arrive, SameButOf
<1> QED BY <1>1, <1>4, <1>5 DEF Arrive

\* A request changes nothing about it.
LEMMA ArriveAsked ==
  ASSUME NEW T, NEW s \in Seq(T), NEW e \in T, NEW t, t = Append(s, e),
         NEW texts, NEW docs, Arrive(s, texts, docs), "id" \in DOMAIN e
  PROVE  Arrive(t, texts, docs)
<1> DEFINE n == Len(s)
<1>1. /\ n \in Nat /\ DOMAIN s = 1 .. n /\ DOMAIN t = 1 .. n + 1
      /\ \A i \in 1 .. n : t[i] = s[i]
      /\ t[n + 1] = e
  BY Appended
<1>2. \A x \in Uri, i \in 0 .. n : NoneAfter(t, i, x) <=> NoneAfter(s, i, x) /\ ~About(e, x)
  BY NoneAfterAppended
<1> HIDE DEF n
<1>3. \A x : ~About(e, x)
  BY DEF About
<1>4. ASSUME NEW x \in Uri, NEW i \in 1 .. n + 1, About(t[i], x), NoneAfter(t, i, x)
      PROVE  Carried(t[i]) = texts[x]
  <2>1. i \in 1 .. n
    BY <1>1, <1>3, <1>4
  <2>2. t[i] = s[i] /\ NoneAfter(s, i, x)
    BY <1>1, <1>2, <1>4, <2>1
  <2>3. Carried(s[i]) = texts[x]
    BY <1>1, <1>4, <2>1, <2>2 DEF Arrive
  <2> QED BY <2>2, <2>3
<1>5. ASSUME NEW x \in Uri, NoneAfter(t, 0, x) PROVE docs[x] = texts[x]
  <2>1. NoneAfter(s, 0, x)
    BY <1>1, <1>2, <1>5
  <2> QED BY <2>1 DEF Arrive
<1> QED BY <1>1, <1>4, <1>5 DEF Arrive

\* The server takes a message, and what it carries if it is about a text.
LEMMA ArriveTaken ==
  ASSUME NEW T, NEW s \in Seq(T), s # <<>>, NEW t, t = Tail(s),
         NEW texts, NEW docs, NEW docs2, Arrive(s, texts, docs),
         \A x \in Uri : ~About(Head(s), x) => docs2[x] = docs[x],
         \A x \in Uri : About(Head(s), x) => docs2[x] = Carried(Head(s))
  PROVE  Arrive(t, texts, docs2)
<1> DEFINE n == Len(s)
<1>1. /\ n \in Nat \ {0} /\ DOMAIN s = 1 .. n /\ DOMAIN t = 1 .. n - 1
      /\ \A i \in 1 .. n - 1 : t[i] = s[i + 1]
      /\ Head(s) = s[1]
  BY Taken
<1>2. \A x \in Uri : \A i \in 0 .. n - 1 : NoneAfter(t, i, x) <=> NoneAfter(s, i + 1, x)
  BY NoneAfterTaken
<1>3. \A x \in Uri : NoneAfter(s, 0, x) <=> NoneAfter(t, 0, x) /\ ~About(Head(s), x)
  BY NoneAfterTaken
<1> HIDE DEF n
<1>4. ASSUME NEW x \in Uri, NEW i \in 1 .. n - 1, About(t[i], x), NoneAfter(t, i, x)
      PROVE  Carried(t[i]) = texts[x]
  <2>1. i + 1 \in 1 .. n /\ t[i] = s[i + 1] /\ NoneAfter(s, i + 1, x)
    BY <1>1, <1>2, <1>4
  <2>2. Carried(s[i + 1]) = texts[x]
    BY <1>1, <1>4, <2>1 DEF Arrive
  <2> QED BY <2>1, <2>2
<1>5. ASSUME NEW x \in Uri, NoneAfter(t, 0, x) PROVE docs2[x] = texts[x]
  <2>1. CASE About(Head(s), x)
    <3>1. NoneAfter(s, 1, x)
      <4>1. PICK z \in 0 .. n - 1 : z = 0
        BY <1>1
      <4>2. z + 1 = 1
        BY <4>1
      <4> QED BY <1>2, <1>5, <4>1, <4>2, Zenon
    <3>2. Carried(s[1]) = texts[x]
      BY <1>1, <2>1, <3>1 DEF Arrive
    <3> QED BY <1>1, <2>1, <3>2
  <2>2. CASE ~About(Head(s), x)
    <3>1. docs[x] = texts[x]
      BY <1>3, <1>5, <2>2 DEF Arrive
    <3> QED BY <2>2, <3>1
  <2> QED BY <2>1, <2>2
<1> QED BY <1>1, <1>4, <1>5 DEF Arrive
-----------------------------------------------------------------------------
\* What is on its way to the editor.

\* The server publishes what it finds in the text that it has just received.
LEMMA FoundPublished ==
  ASSUME NEW T, NEW s \in Seq(T), NEW e \in T, NEW t, t = Append(s, e),
         NEW docs, NEW docs2, NEW shown, NEW rules, Found(s, docs, shown, rules),
         NEW u \in Uri, About(e, u), SameButOf(docs2, docs, u),
         e.diagnostics = audit_source(docs2[u], rules)
  PROVE  Found(t, docs2, shown, rules)
<1> DEFINE n == Len(s)
<1>1. /\ n \in Nat /\ DOMAIN s = 1 .. n /\ DOMAIN t = 1 .. n + 1
      /\ \A i \in 1 .. n : t[i] = s[i]
      /\ t[n + 1] = e
  BY Appended
<1>2. \A x \in Uri, i \in 0 .. n : NoneAfter(t, i, x) <=> NoneAfter(s, i, x) /\ ~About(e, x)
  BY NoneAfterAppended
<1> HIDE DEF n
<1>3. ~\E x \in Uri : x # u /\ About(e, x)
  BY DEF About
<1>4. ASSUME NEW x \in Uri, docs2[x] # Unopened, NEW i \in 1 .. n + 1, About(t[i], x), NoneAfter(t, i, x)
      PROVE  t[i].diagnostics = audit_source(docs2[x], rules)
  <2>1. CASE i = n + 1
    <3>1. t[i] = e /\ x = u
      BY <1>1, <1>3, <1>4, <2>1
    <3> QED BY <3>1
  <2>2. CASE i \in 1 .. n
    <3>1. t[i] = s[i] /\ NoneAfter(s, i, x) /\ x # u
      BY <1>1, <1>2, <1>4, <2>2
    <3>2. docs2[x] = docs[x]
      BY <3>1 DEF SameButOf
    <3>3. s[i].diagnostics = audit_source(docs[x], rules)
      BY <1>1, <1>4, <2>2, <3>1, <3>2 DEF Found
    <3> QED BY <3>1, <3>2, <3>3
  <2> QED BY <1>1, <1>4, <2>1, <2>2
<1>5. ASSUME NEW x \in Uri, docs2[x] # Unopened, NoneAfter(t, 0, x) PROVE shown[x] = audit_source(docs2[x], rules)
  <2>1. NoneAfter(s, 0, x) /\ x # u
    BY <1>1, <1>2, <1>5
  <2>2. docs2[x] = docs[x]
    BY <2>1 DEF SameButOf
  <2> QED BY <1>5, <2>1, <2>2 DEF Found
<1> QED BY <1>1, <1>4, <1>5 DEF Found

\* An answer changes nothing about it.
LEMMA FoundAnswered ==
  ASSUME NEW T, NEW s \in Seq(T), NEW e \in T, NEW t, t = Append(s, e), "id" \in DOMAIN e,
         NEW docs, NEW shown, NEW rules, Found(s, docs, shown, rules)
  PROVE  Found(t, docs, shown, rules)
<1> DEFINE n == Len(s)
<1>1. /\ n \in Nat /\ DOMAIN s = 1 .. n /\ DOMAIN t = 1 .. n + 1
      /\ \A i \in 1 .. n : t[i] = s[i]
      /\ t[n + 1] = e
  BY Appended
<1>2. \A x \in Uri, i \in 0 .. n : NoneAfter(t, i, x) <=> NoneAfter(s, i, x) /\ ~About(e, x)
  BY NoneAfterAppended
<1> HIDE DEF n
<1>3. \A x : ~About(e, x)
  BY DEF About
<1>4. ASSUME NEW x \in Uri, docs[x] # Unopened, NEW i \in 1 .. n + 1, About(t[i], x), NoneAfter(t, i, x)
      PROVE  t[i].diagnostics = audit_source(docs[x], rules)
  <2>1. i \in 1 .. n
    BY <1>1, <1>3, <1>4
  <2>2. t[i] = s[i] /\ NoneAfter(s, i, x)
    BY <1>1, <1>2, <1>4, <2>1
  <2>3. s[i].diagnostics = audit_source(docs[x], rules)
    BY <1>1, <1>4, <2>1, <2>2 DEF Found
  <2> QED BY <2>2, <2>3
<1>5. ASSUME NEW x \in Uri, docs[x] # Unopened, NoneAfter(t, 0, x) PROVE shown[x] = audit_source(docs[x], rules)
  <2>1. NoneAfter(s, 0, x)
    BY <1>1, <1>2, <1>5
  <2> QED BY <1>5, <2>1 DEF Found
<1> QED BY <1>1, <1>4, <1>5 DEF Found

\* The editor takes a message, and shows what it tells if it is about a text.
LEMMA FoundTaken ==
  ASSUME NEW T, NEW s \in Seq(T), s # <<>>, NEW t, t = Tail(s),
         NEW docs, NEW shown, NEW shown2, NEW rules, Found(s, docs, shown, rules),
         \A x \in Uri : ~About(Head(s), x) => shown2[x] = shown[x],
         \A x \in Uri : About(Head(s), x) => shown2[x] = Head(s).diagnostics
  PROVE  Found(t, docs, shown2, rules)
<1> DEFINE n == Len(s)
<1>1. /\ n \in Nat \ {0} /\ DOMAIN s = 1 .. n /\ DOMAIN t = 1 .. n - 1
      /\ \A i \in 1 .. n - 1 : t[i] = s[i + 1]
      /\ Head(s) = s[1]
  BY Taken
<1>2. \A x \in Uri : \A i \in 0 .. n - 1 : NoneAfter(t, i, x) <=> NoneAfter(s, i + 1, x)
  BY NoneAfterTaken
<1>3. \A x \in Uri : NoneAfter(s, 0, x) <=> NoneAfter(t, 0, x) /\ ~About(Head(s), x)
  BY NoneAfterTaken
<1> HIDE DEF n
<1>4. ASSUME NEW x \in Uri, docs[x] # Unopened, NEW i \in 1 .. n - 1, About(t[i], x), NoneAfter(t, i, x)
      PROVE  t[i].diagnostics = audit_source(docs[x], rules)
  <2>1. i + 1 \in 1 .. n /\ t[i] = s[i + 1] /\ NoneAfter(s, i + 1, x)
    BY <1>1, <1>2, <1>4
  <2>2. s[i + 1].diagnostics = audit_source(docs[x], rules)
    BY <1>1, <1>4, <2>1 DEF Found
  <2> QED BY <2>1, <2>2
<1>5. ASSUME NEW x \in Uri, docs[x] # Unopened, NoneAfter(t, 0, x) PROVE shown2[x] = audit_source(docs[x], rules)
  <2>1. CASE About(Head(s), x)
    <3>1. NoneAfter(s, 1, x)
      <4>1. PICK z \in 0 .. n - 1 : z = 0
        BY <1>1
      <4>2. z + 1 = 1
        BY <4>1
      <4> QED BY <1>2, <1>5, <4>1, <4>2, Zenon
    <3>2. s[1].diagnostics = audit_source(docs[x], rules)
      BY <1>1, <1>5, <2>1, <3>1 DEF Found
    <3> QED BY <1>1, <2>1, <3>2
  <2>2. CASE ~About(Head(s), x)
    <3>1. shown[x] = audit_source(docs[x], rules)
      BY <1>3, <1>5, <2>2 DEF Found
    <3> QED BY <2>2, <3>1
  <2> QED BY <2>1, <2>2
<1> QED BY <1>1, <1>4, <1>5 DEF Found

-----------------------------------------------------------------------------
\* Requests and answers, in line.

\* The editor asks with the next number.
LEMMA InLineAsked ==
  ASSUME NEW S, NEW asked \in Seq(S), NEW r \in S, NEW asked2, asked2 = Append(asked, r),
         NEW T, NEW open \in Seq(T), NEW m \in T, NEW open2, open2 = Append(open, m),
         NEW answers, NEW n \in Nat, InLine(asked, answers, open), Numbered(asked, n),
         Ids(asked) \subseteq Nat, "id" \in DOMAIN r, "id" \in DOMAIN m, r.id = n + 1, m.id = n + 1
  PROVE  InLine(asked2, answers, open2) /\ Numbered(asked2, n + 1)
<1>1. \A id \in Ids(asked) : id \in Nat /\ id <= n /\ id < n + 1
  BY DEF Numbered
<1>2. Ids(asked2) = Ids(asked) \cup {n + 1} /\ InOrder(asked2)
  <2>1. InOrder(asked) /\ \A id \in Ids(asked) : id < r.id
    BY <1>1 DEF InLine
  <2>2. Ids(asked2) = Ids(asked) \cup (IF "id" \in DOMAIN r THEN {r.id} ELSE {}) /\ InOrder(asked2)
    BY <2>1, IdsAppended
  <2> QED BY <2>2
<1>3. Ids(open) \subseteq Ids(asked) /\ Ids(answers) \subseteq Ids(asked)
  BY DEF InLine
<1>4. Ids(open2) = Ids(open) \cup {n + 1} /\ InOrder(open2)
  <2>1. InOrder(open) /\ \A id \in Ids(open) : id < m.id
    BY <1>1, <1>3 DEF InLine
  <2>2. Ids(open2) = Ids(open) \cup (IF "id" \in DOMAIN m THEN {m.id} ELSE {}) /\ InOrder(open2)
    BY <2>1, IdsAppended
  <2> QED BY <2>2
<1>5. Ids(asked2) = Ids(answers) \cup Ids(open2)
  BY <1>2, <1>4 DEF InLine
<1>6. \A a \in Ids(answers), o \in Ids(open2) : a < o
  BY <1>1, <1>3, <1>4 DEF InLine
<1>7. Numbered(asked2, n + 1)
  BY <1>1, <1>2 DEF Numbered
<1> QED BY <1>2, <1>4, <1>5, <1>6, <1>7 DEF InLine

\* The server answers the request that it takes.
LEMMA InLineAnswered ==
  ASSUME NEW T, \A m \in T : "id" \in DOMAIN m => m.id \in Nat,
         NEW open \in Seq(T), open # <<>>, NEW open2, open2 = Tail(open),
         NEW A, NEW answers \in Seq(A), NEW e \in A, NEW answers2, answers2 = Append(answers, e),
         NEW asked, InLine(asked, answers, open),
         "id" \in DOMAIN Head(open), "id" \in DOMAIN e, e.id = Head(open).id
  PROVE  InLine(asked, answers2, open2)
<1>1. /\ InOrder(open2) /\ Ids(open2) = Ids(open) \ {e.id} /\ e.id \in Ids(open)
      /\ \A o \in Ids(open2) : e.id < o
  BY IdsTaken DEF InLine
<1>2. \A a \in Ids(answers) : a < e.id
  BY <1>1 DEF InLine
<1>3. Ids(answers2) = Ids(answers) \cup {e.id} /\ InOrder(answers2)
  BY <1>2, IdsAppended DEF InLine
<1>4. Ids(asked) = Ids(answers2) \cup Ids(open2)
  BY <1>1, <1>3 DEF InLine
<1>5. \A a \in Ids(answers2), o \in Ids(open2) : a < o
  BY <1>1, <1>3 DEF InLine
<1> QED BY <1>1, <1>3, <1>4, <1>5 DEF InLine

\* What is no request leaves the line as it is when it is sent,
LEMMA InLineTold ==
  ASSUME NEW T, NEW open \in Seq(T), NEW m \in T, NEW open2, open2 = Append(open, m), "id" \notin DOMAIN m,
         NEW asked, NEW answers, InLine(asked, answers, open)
  PROVE  InLine(asked, answers, open2)
<1>1. Ids(open2) = Ids(open) /\ InOrder(open2)
  BY IdsAppended DEF InLine
<1> QED BY <1>1 DEF InLine

\* What is no request, and is taken by the server, leaves the line as it is.
LEMMA InLineTaken ==
  ASSUME NEW T, \A m \in T : "id" \in DOMAIN m => m.id \in Nat,
         NEW open \in Seq(T), open # <<>>, NEW open2, open2 = Tail(open), "id" \notin DOMAIN Head(open),
         NEW asked, NEW answers, InLine(asked, answers, open)
  PROVE  InLine(asked, answers, open2)
<1>1. Ids(open2) = Ids(open) /\ InOrder(open2)
  BY IdsTaken DEF InLine
<1> QED BY <1>1 DEF InLine

\* and so does what is no answer.
LEMMA InLinePublished ==
  ASSUME NEW A, NEW answers \in Seq(A), NEW e \in A, NEW answers2, answers2 = Append(answers, e),
         "id" \notin DOMAIN e, NEW asked, NEW open, InLine(asked, answers, open)
  PROVE  InLine(asked, answers2, open)
<1>1. Ids(answers2) = Ids(answers) /\ InOrder(answers2)
  BY IdsAppended DEF InLine
<1> QED BY <1>1 DEF InLine

\* What is no answer, and is taken by the editor, leaves the line as it is.
LEMMA InLineShown ==
  ASSUME NEW A, \A m \in A : "id" \in DOMAIN m => m.id \in Nat,
         NEW answers \in Seq(A), answers # <<>>, NEW answers2, answers2 = Tail(answers), "id" \notin DOMAIN Head(answers),
         NEW asked, NEW open, InLine(asked, answers, open)
  PROVE  InLine(asked, answers2, open)
<1>1. Ids(answers2) = Ids(answers) /\ InOrder(answers2)
  BY IdsTaken DEF InLine
<1> QED BY <1>1 DEF InLine

\* An answer that arrives is to the request that has waited longest.
LEMMA InLineReceived ==
  ASSUME NEW A, \A m \in A : "id" \in DOMAIN m => m.id \in Nat,
         NEW S, \A r \in S : "id" \in DOMAIN r /\ r.id \in Nat,
         NEW answers \in Seq(A), answers # <<>>, NEW answers2, answers2 = Tail(answers), "id" \in DOMAIN Head(answers),
         NEW asked \in Seq(S), NEW open, InLine(asked, answers, open),
         NEW asked2, asked2 = Tail(asked)
  PROVE  asked # <<>> /\ Head(asked).id = Head(answers).id /\ InLine(asked2, answers2, open)
<1> DEFINE id == Head(answers).id
<1>1. /\ InOrder(answers2) /\ Ids(answers2) = Ids(answers) \ {id} /\ id \in Ids(answers)
      /\ \A a \in Ids(answers2) : id < a
  BY IdsTaken DEF InLine
<1> HIDE DEF id
<1>2. id \in Ids(asked)
  BY <1>1 DEF InLine
<1>3. asked # <<>>
  BY <1>2 DEF Ids, Requests
<1>4. Head(asked) \in S
  BY <1>3, HeadTailProperties
<1>5. Ids(asked) \subseteq Nat /\ InOrder(asked)
  BY IdsTaken, <1>3 DEF InLine
<1>6. /\ InOrder(asked2) /\ Ids(asked2) = Ids(asked) \ {Head(asked).id} /\ Head(asked).id \in Ids(asked)
      /\ \A o \in Ids(asked2) : Head(asked).id < o
  BY IdsTaken, <1>3, <1>4 DEF InLine
<1>7. \A x \in Ids(asked) : x = id \/ id < x
  BY <1>1 DEF InLine
<1>8. Head(asked).id = id
  <2>1. id = Head(asked).id \/ Head(asked).id < id
    BY <1>2, <1>6
  <2>2. Head(asked).id = id \/ id < Head(asked).id
    BY <1>6, <1>7
  <2>3. id \in Nat /\ Head(asked).id \in Nat
    BY <1>2, <1>5, <1>6
  <2> QED BY <2>1, <2>2, <2>3
<1>9. id \notin Ids(open)
  <2>1. id \in Nat
    BY <1>2, <1>5
  <2>2. \A o \in Ids(open) : id < o
    BY <1>1 DEF InLine
  <2> QED BY <2>1, <2>2
<1>10. Ids(asked2) = Ids(answers2) \cup Ids(open)
  BY <1>1, <1>6, <1>8, <1>9 DEF InLine
<1>11. \A a \in Ids(answers2), o \in Ids(open) : a < o
  BY <1>1 DEF InLine
<1> QED BY <1>1, <1>3, <1>6, <1>8, <1>10, <1>11 DEF InLine, id

\* The numbers of the editor's requests.
LEMMA AskedIds ==
  ASSUME NEW asked \in Seq(LsRequest) PROVE Ids(asked) \subseteq Nat
<1>1. \A i \in DOMAIN asked : asked[i] \in LsRequest
  BY ElementOfSeq, LenProperties
<1> QED BY <1>1 DEF Ids, Requests, LsRequest

-----------------------------------------------------------------------------
\* Requests about texts that do not change.

\* A message to the server that is not about the text, and no other request of that number.
LEMMA UntouchedSent ==
  ASSUME NEW T, NEW s \in Seq(T), NEW e \in T, NEW t, t = Append(s, e), NEW id, NEW u,
         Untouched(id, u, s), ~About(e, u), "id" \in DOMAIN e => e.id # id
  PROVE  Untouched(id, u, t)
<1> DEFINE n == Len(s)
<1>1. /\ n \in Nat /\ DOMAIN s = 1 .. n /\ DOMAIN t = 1 .. n + 1
      /\ \A i \in 1 .. n : t[i] = s[i]
      /\ t[n + 1] = e
  BY Appended
<1>2. \A i \in 0 .. n : NoneAfter(t, i, u) <=> NoneAfter(s, i, u) /\ ~About(e, u)
  BY NoneAfterAppended
<1> HIDE DEF n
<1> SUFFICES ASSUME NEW i \in Requests(t), t[i].id = id PROVE t[i].uri = u /\ NoneAfter(t, i, u)
  BY DEF Untouched
<1>3. i \in 1 .. n
  BY <1>1 DEF Requests
<1>4. i \in Requests(s) /\ t[i] = s[i]
  BY <1>1, <1>3 DEF Requests
<1>5. s[i].uri = u /\ NoneAfter(s, i, u)
  BY <1>4 DEF Untouched
<1> QED BY <1>1, <1>2, <1>3, <1>4, <1>5

\* The request itself, when it is sent.
LEMMA UntouchedAsked ==
  ASSUME NEW T, NEW s \in Seq(T), NEW e \in T, NEW t, t = Append(s, e), "id" \in DOMAIN e, e.id \notin Ids(s)
  PROVE  Untouched(e.id, e.uri, t)
<1> DEFINE n == Len(s)
<1>1. /\ n \in Nat /\ DOMAIN s = 1 .. n /\ DOMAIN t = 1 .. n + 1
      /\ \A i \in 1 .. n : t[i] = s[i]
      /\ t[n + 1] = e
  BY Appended
<1>2. NoneAfter(t, n + 1, e.uri)
  BY NoneAfterAppended
<1> HIDE DEF n
<1> SUFFICES ASSUME NEW i \in Requests(t), t[i].id = e.id PROVE t[i].uri = e.uri /\ NoneAfter(t, i, e.uri)
  BY DEF Untouched
<1>3. i = n + 1
  <2> SUFFICES ASSUME i \in 1 .. n PROVE FALSE
    BY <1>1 DEF Requests
  <2>1. i \in Requests(s) /\ t[i] = s[i]
    BY <1>1 DEF Requests
  <2> QED BY <2>1 DEF Ids
<1> QED BY <1>1, <1>2, <1>3

\* A message that the server takes, be it a request or not.
LEMMA UntouchedTaken ==
  ASSUME NEW T, NEW s \in Seq(T), s # <<>>, NEW t, t = Tail(s), NEW id, NEW u, Untouched(id, u, s)
  PROVE  Untouched(id, u, t)
<1> DEFINE n == Len(s)
<1>1. /\ n \in Nat \ {0} /\ DOMAIN s = 1 .. n /\ DOMAIN t = 1 .. n - 1
      /\ \A i \in 1 .. n - 1 : t[i] = s[i + 1]
  BY Taken
<1>2. \A i \in 0 .. n - 1 : NoneAfter(t, i, u) <=> NoneAfter(s, i + 1, u)
  BY NoneAfterTaken
<1> HIDE DEF n
<1> SUFFICES ASSUME NEW i \in Requests(t), t[i].id = id PROVE t[i].uri = u /\ NoneAfter(t, i, u)
  BY DEF Untouched
<1>3. i \in 1 .. n - 1 /\ i \in 0 .. n - 1
  BY <1>1 DEF Requests
<1>4. i + 1 \in Requests(s) /\ t[i] = s[i + 1]
  BY <1>1, <1>3 DEF Requests
<1>5. s[i + 1].uri = u /\ NoneAfter(s, i + 1, u)
  BY <1>4 DEF Untouched
<1> QED BY <1>2, <1>3, <1>4, <1>5

\* What the server has of the text when it takes the request.
LEMMA UntouchedRead ==
  ASSUME NEW T, NEW s \in Seq(T), s # <<>>, NEW u \in Uri, "id" \in DOMAIN Head(s), Untouched(Head(s).id, u, s),
         NEW texts, NEW docs, Arrive(s, texts, docs)
  PROVE  Head(s).uri = u /\ docs[u] = texts[u]
<1>1. PICK t : t = Tail(s)
  OBVIOUS
<1> DEFINE n == Len(s)
<1>2. n \in Nat \ {0} /\ DOMAIN s = 1 .. n /\ Head(s) = s[1]
  BY <1>1, Taken
<1>3. \A i \in 0 .. n - 1 : NoneAfter(t, i, u) <=> NoneAfter(s, i + 1, u)
  BY <1>1, NoneAfterTaken
<1>4. NoneAfter(s, 0, u) <=> NoneAfter(t, 0, u) /\ ~About(Head(s), u)
  BY <1>1, NoneAfterTaken
<1> HIDE DEF n
<1>5. 1 \in Requests(s)
  BY <1>2 DEF Requests
<1>6. s[1].uri = u /\ NoneAfter(s, 1, u)
  BY <1>2, <1>5 DEF Untouched
<1>7. NoneAfter(t, 0, u)
  <2>1. PICK z \in 0 .. n - 1 : z = 0
    BY <1>2
  <2>2. z + 1 = 1
    BY <2>1
  <2> QED BY <1>3, <1>6, <2>1, <2>2, Zenon
<1>8. NoneAfter(s, 0, u)
  BY <1>4, <1>7 DEF About
<1> QED BY <1>2, <1>6, <1>8 DEF Arrive

\* Answers to other requests, and messages that are none.
LEMMA AnsweredSent ==
  ASSUME NEW A, NEW s \in Seq(A), NEW e \in A, NEW t, t = Append(s, e),
         NEW id, NEW u, NEW texts, NEW rules, Answered(id, u, s, texts, rules),
         "id" \in DOMAIN e /\ e.id = id => e.edit = _handle_code_action(u, texts, rules)
  PROVE  Answered(id, u, t, texts, rules)
<1> DEFINE n == Len(s)
<1>1. /\ n \in Nat /\ DOMAIN s = 1 .. n /\ DOMAIN t = 1 .. n + 1
      /\ \A i \in 1 .. n : t[i] = s[i]
      /\ t[n + 1] = e
  BY Appended
<1> HIDE DEF n
<1> SUFFICES ASSUME NEW i \in Requests(t), t[i].id = id PROVE t[i].edit = _handle_code_action(u, texts, rules)
  BY DEF Answered
<1>2. CASE i = n + 1
  <2>1. "id" \in DOMAIN e /\ e.id = id /\ t[i] = e
    BY <1>1, <1>2 DEF Requests
  <2> QED BY <2>1
<1>3. CASE i \in 1 .. n
  <2>1. i \in Requests(s) /\ t[i] = s[i]
    BY <1>1, <1>3 DEF Requests
  <2> QED BY <2>1 DEF Answered
<1> QED BY <1>1, <1>2, <1>3 DEF Requests

\* A message that the editor takes, be it an answer or not.
LEMMA AnsweredTaken ==
  ASSUME NEW A, NEW s \in Seq(A), s # <<>>, NEW t, t = Tail(s),
         NEW id, NEW u, NEW texts, NEW rules, Answered(id, u, s, texts, rules)
  PROVE  Answered(id, u, t, texts, rules)
<1> DEFINE n == Len(s)
<1>1. /\ n \in Nat \ {0} /\ DOMAIN s = 1 .. n /\ DOMAIN t = 1 .. n - 1
      /\ \A i \in 1 .. n - 1 : t[i] = s[i + 1]
  BY Taken
<1> HIDE DEF n
<1> SUFFICES ASSUME NEW i \in Requests(t), t[i].id = id PROVE t[i].edit = _handle_code_action(u, texts, rules)
  BY DEF Answered
<1>2. i + 1 \in Requests(s) /\ t[i] = s[i + 1]
  BY <1>1 DEF Requests
<1> QED BY <1>2 DEF Answered

\* An answer that has arrived is to the request that has waited longest.
LEMMA AnsweredRead ==
  ASSUME NEW A, NEW s \in Seq(A), s # <<>>, "id" \in DOMAIN Head(s),
         NEW u, NEW texts, NEW rules, Answered(Head(s).id, u, s, texts, rules)
  PROVE  Head(s).edit = _handle_code_action(u, texts, rules)
<1>1. PICK t : t = Tail(s)
  OBVIOUS
<1>2. 1 \in DOMAIN s /\ Head(s) = s[1]
  BY <1>1, Taken
<1>3. 1 \in Requests(s)
  BY <1>2 DEF Requests
<1> QED BY <1>2, <1>3 DEF Answered

-----------------------------------------------------------------------------
\* What the server makes of a text.

\* A text by its lines: without the empty piece behind the end of the last.
LEMMA Lines ==
  ASSUME NEW text \in LsLines
  PROVE  LET n == Len(text)
             lines == splitlines(text)
         IN /\ n \in Nat \ {0} /\ DOMAIN text = 1 .. n /\ \A i \in 1 .. n : text[i] \in Line
            /\ lines \in Seq(Line)
            /\ text[n] = "" => Len(lines) = n - 1 /\ DOMAIN lines = 1 .. n - 1 /\ \A i \in 1 .. n - 1 : lines[i] = text[i]
            /\ text[n] # "" => lines = text
<1> DEFINE n == Len(text)
           lines == splitlines(text)
<1>1. n \in Nat \ {0} /\ DOMAIN text = 1 .. n /\ text \in Seq(Line) /\ text # <<>>
  BY LenProperties, EmptySeq DEF LsLines
<1>2. \A i \in 1 .. n : text[i] \in Line
  BY <1>1, ElementOfSeq
<1>3. CASE text[n] = ""
  <2>1. lines = SubSeq(text, 1, n - 1)
    BY <1>1, <1>3 DEF splitlines, Front, Last
  <2>2. lines \in Seq(Line) /\ Len(lines) = n - 1 /\ \A i \in 1 .. n - 1 : lines[i] = text[i]
    <3>1. 1 \in 1 .. n + 1 /\ n - 1 \in 0 .. n /\ 1 <= n - 1 + 1
      BY <1>1
    <3>2. SubSeq(text, 1, n - 1) \in Seq(Line) /\ Len(SubSeq(text, 1, n - 1)) = n - 1
      BY <1>1, <1>2
    <3>3. \A i \in 1 .. n - 1 : SubSeq(text, 1, n - 1)[i] = text[i]
      BY <1>1
    <3> QED BY <2>1, <3>2, <3>3
  <2>3. DOMAIN lines = 1 .. n - 1
    BY <2>2, LenProperties
  <2> QED BY <1>1, <1>2, <1>3, <2>2, <2>3
<1>4. CASE text[n] # ""
  <2>1. lines = text
    BY <1>1, <1>4 DEF splitlines, Last
  <2> QED BY <1>1, <1>2, <1>4, <2>1
<1> QED BY <1>3, <1>4

\* What an audit finds are places and names of invariants.
LEMMA Placed ==
  ASSUME NEW places \in SUBSET Nat, NEW name \in Invariants
  PROVE  {<<i, name>> : i \in places} \in SUBSET (Nat \X Invariants)
<1>1. \A i \in places : <<i, name>> \in Nat \X Invariants
  OBVIOUS
<1> QED BY <1>1

\* An audit finds nothing else, whatever the text and the rules.
LEMMA AuditIsFindings ==
  ASSUME NEW text \in LsLines, NEW rules
  PROVE  audit_source(text, rules) \in LsFindings
<1> DEFINE lines == splitlines(text)
<1>1. lines \in Seq(Line)
  BY Lines
<1>2. DOMAIN lines \subseteq Nat
  BY <1>1, LenProperties
<1> HIDE DEF lines
<1> "SyntaxIntegrity" \in Invariants /\ "ZeroTrustSanitization" \in Invariants
    /\ "CyclomaticComplexity" \in Invariants /\ "WaiverIntegrity" \in Invariants
  BY DEF Invariants
<1>3. Unparsed(lines) \in SUBSET (Nat \X Invariants)
  <2>1. {j \in DOMAIN lines : lines[j] = "broken"} \in SUBSET Nat
    BY <1>2
  <2> QED BY <2>1, Placed DEF Unparsed
<1>4. _run_visitors(lines) \in SUBSET (Nat \X Invariants)
  <2>1. {j \in DOMAIN lines : lines[j] \in Leaks} \in SUBSET Nat /\ {j \in DOMAIN lines : lines[j] = "complex"} \in SUBSET Nat
    BY <1>2
  <2> DEFINE a == {<<i, "ZeroTrustSanitization">> : i \in {j \in DOMAIN lines : lines[j] \in Leaks}}
             b == {<<i, "CyclomaticComplexity">> : i \in {j \in DOMAIN lines : lines[j] = "complex"}}
  <2>2. a \in SUBSET (Nat \X Invariants) /\ b \in SUBSET (Nat \X Invariants)
    BY <2>1, Placed
  <2>3. _run_visitors(lines) = a \cup b
    BY DEF _run_visitors
  <2> HIDE DEF a, b
  <2> QED BY <2>2, <2>3
<1>5. _scan_waivers(lines) \in SUBSET (Nat \X Invariants)
  <2> DEFINE places == {j \in DOMAIN lines :
                          IF InHeader(j) THEN lines[j] \in Defective
                          ELSE lines[j] \in Pragmas /\ (lines[j] = "foreign waiver" \/ ~Waives(lines))}
  <2>1. places \in SUBSET Nat
    BY <1>2
  <2>2. _scan_waivers(lines) = {<<i, "WaiverIntegrity">> : i \in places}
    BY DEF _scan_waivers
  <2> HIDE DEF places
  <2> QED BY <2>1, <2>2, Placed
<1>6. _filter_active_violations(lines, rules) \in SUBSET (Nat \X Invariants)
  BY <1>4, <1>5 DEF _filter_active_violations
<1> QED BY <1>3, <1>6 DEF audit_source, lines, LsFindings

\* What a repair makes of a line.
Mended(line, new) ==
  /\ new \in Line /\ Fixed(new) = new
  /\ new = "" <=> line = ""
  /\ new \notin {"address", "subdomain", "address in a comment", "curt waiver", "bare waiver"}
  /\ new = "marked address" <=> line = "marked address"
  /\ new = "complex" <=> line = "complex"
  /\ new = "foreign waiver" <=> line = "foreign waiver"
  /\ new = "broken" <=> line = "broken"
  /\ new = "waiver" <=> line \in {"waiver", "curt waiver", "bare waiver"}

\* Every kind of line, repaired: no repair is undone or repaired again.
LEMMA Repaired ==
  ASSUME NEW line \in Line
  PROVE  Mended(line, Fixed(line))
<1>1. /\ Fixed("code") = "code" /\ Fixed("comment") = "comment" /\ Fixed("waiver") = "waiver"
      /\ "code" \in Line /\ "comment" \in Line /\ "waiver" \in Line
  BY DEF Fixed, Line
<1>2. CASE line \in {"address", "subdomain"}
  <2>1. Fixed(line) = "code"
    BY <1>2 DEF Fixed
  <2> QED BY <1>1, <1>2, <2>1 DEF Mended
<1>3. CASE line = "address in a comment"
  <2>1. Fixed(line) = "comment"
    BY <1>3 DEF Fixed
  <2> QED BY <1>1, <1>3, <2>1 DEF Mended
<1>4. CASE line \in {"curt waiver", "bare waiver"}
  <2>1. Fixed(line) = "waiver"
    BY <1>4 DEF Fixed
  <2> QED BY <1>1, <1>4, <2>1 DEF Mended
<1>5. CASE line \notin {"address", "subdomain", "address in a comment", "curt waiver", "bare waiver"}
  <2>1. Fixed(line) = line
    BY <1>5 DEF Fixed
  <2> QED BY <1>5, <2>1 DEF Mended
<1> QED BY <1>2, <1>3, <1>4, <1>5

\* A text with its lines repaired.
Mends(text) == [i \in DOMAIN text |-> Fixed(text[i])]

\* The repaired lines are a text, of as many pieces.
LEMMA Candidate ==
  ASSUME NEW text \in LsLines, NEW cand, cand = Mends(text)
  PROVE  /\ cand \in LsLines /\ Len(cand) = Len(text) /\ DOMAIN cand = 1 .. Len(text)
         /\ \A i \in 1 .. Len(text) : cand[i] = Fixed(text[i])
<1> DEFINE n == Len(text)
<1>1. n \in Nat \ {0} /\ DOMAIN text = 1 .. n /\ \A i \in 1 .. n : text[i] \in Line
  BY Lines
<1> HIDE DEF n
<1>2. \A i \in 1 .. n : Fixed(text[i]) \in Line
  BY <1>1, Repaired DEF Mended
<1>3. cand = [i \in 1 .. n |-> Fixed(text[i])]
  BY <1>1 DEF Mends
<1>4. cand \in Seq(Line)
  BY <1>1, <1>2, <1>3, IsASeq
<1>5. Len(cand) = n
  BY <1>1, <1>3, <1>4, LenProperties
<1>6. cand # <<>>
  BY <1>1, <1>5, EmptySeq
<1> QED BY <1>1, <1>3, <1>4, <1>5, <1>6 DEF n, LsLines

\* What a quick fix makes of a text: every line repaired, and at most an empty piece more.
QuickFix(text, rules) ==
  Applied([new |-> auto_fix_source(text, rules), lines |-> Len(splitlines(text))], text)

\* The text has the repaired lines, and parses.
LEMMA FixedText ==
  ASSUME NEW text \in LsLines, NEW rules, auto_fix_source(text, rules) # text
  PROVE  /\ QuickFix(text, rules) = Mends(text) \/ QuickFix(text, rules) = Append(Mends(text), "")
         /\ splitlines(QuickFix(text, rules)) = Mends(text)
         /\ auto_fix_source(text, rules) \in Seq(Line)
         /\ Unparsed(splitlines(Mends(text))) = {}
<1> DEFINE fixed == auto_fix_source(text, rules)
           cand == Mends(text)
           new == QuickFix(text, rules)
<1>1. PICK n \in Nat \ {0} : n = Len(text) /\ n \in 1 .. n
  BY LenProperties, EmptySeq DEF LsLines
<1>2. /\ text \in Seq(Line) /\ text # <<>> /\ text[n] \in Line
      /\ text[n] = "" => Len(splitlines(text)) = n - 1
      /\ text[n] # "" => Len(splitlines(text)) = n
  BY <1>1, Lines DEF LsLines
<1>3. cand \in Seq(Line) /\ cand # <<>> /\ Len(cand) = n /\ cand[n] = Fixed(text[n])
  BY <1>1, Candidate DEF LsLines
<1>4. cand[n] = "" <=> text[n] = ""
  BY <1>2, <1>3, Repaired DEF Mended
<1>5. Unparsed(splitlines(cand)) = {}
  BY DEF auto_fix_source, Mends
<1>6. fixed = IF Last(text) # Last(cand) /\ Last(cand) = "waiver" THEN Append(cand, "") ELSE cand
  BY DEF auto_fix_source, Mends
<1>7. Last(text) = text[n] /\ Last(cand) = cand[n]
  BY <1>1, <1>3 DEF Last
<1>8. PICK more : more = Append(cand, "")
  OBVIOUS
<1>9. PICK e \in Line : e = ""
  BY DEF Line
<1>10. more \in Seq(Line) /\ more # <<>> /\ Last(more) = "" /\ Front(more) = cand /\ cand \o <<"">> = more
  <2>1. more = Append(cand, e) /\ e \in Line
    BY <1>8, <1>9
  <2>2. more \in Seq(Line) /\ more # <<>>
    BY <1>3, <2>1, Extended
  <2>3. \A s \in Seq(Line), p \in Line : Last(Append(s, p)) = p /\ Front(Append(s, p)) = s
    BY Extended
  <2>4. Last(more) = e /\ Front(more) = cand
    BY <1>3, <2>1, <2>3, Zenon
  <2>5. cand \o <<e>> = more
    BY <1>3, <2>1, Extended
  <2> QED BY <1>9, <2>2, <2>3, <2>4, <2>5
<1>11. splitlines(more) = cand
  BY <1>10 DEF splitlines
<1>12. fixed \in Seq(Line)
  BY <1>3, <1>6, <1>8, <1>10
<1>13. new = fixed \o SubSeq(text, Len(splitlines(text)) + 1, n)
  BY <1>1 DEF Applied, QuickFix
<1> HIDE DEF fixed, cand, new
<1>14. SubSeq(text, n, n) = <<text[n]>> /\ SubSeq(text, n + 1, n) = <<>>
  BY <1>1, <1>2, Rest, Zenon
<1>15. CASE text[n] = ""
  <2>1. fixed = cand
    BY <1>4, <1>6, <1>7, <1>15
  <2>2. Len(splitlines(text)) + 1 = n
    <3>1. (n - 1) + 1 = n
      BY <1>1
    <3> QED BY <1>2, <1>15, <3>1, Zenon
  <2>3. new = cand \o <<"">>
    BY <1>13, <1>14, <1>15, <2>1, <2>2, Zenon
  <2>4. new = Append(cand, "") /\ splitlines(new) = cand
    BY <1>8, <1>10, <1>11, <2>3, Zenon
  <2> QED BY <1>5, <1>12, <2>4 DEF fixed, cand, new
<1>16. CASE text[n] # ""
  <2>1. Len(splitlines(text)) = n
    BY <1>2, <1>16
  <2>2. new = fixed \o <<>>
    BY <1>13, <1>14, <2>1, Zenon
  <2>3. new = fixed
    BY <1>12, <2>2, ConcatEmptySeq
  <2>4. splitlines(cand) = cand
    BY <1>4, <1>7, <1>16 DEF splitlines
  <2>5. (new = cand \/ new = Append(cand, "")) /\ splitlines(new) = cand
    BY <1>6, <1>8, <1>11, <2>3, <2>4
  <2> QED BY <1>5, <1>12, <2>5 DEF fixed, cand, new
<1> QED BY <1>15, <1>16

\* The three promises of QuickFixRepairs, of any text.
Repairs(old, new, rules) ==
  LET lines == splitlines(old)
  IN /\ \A i \in DOMAIN new : new[i] = IF i \in DOMAIN lines THEN Fixed(lines[i]) ELSE ""
     /\ auto_fix_source(new, rules) = new
     /\ (\A i \in DOMAIN lines : lines[i] = "bare waiver" => InHeader(i)) =>
          audit_source(new, rules) \subseteq audit_source(old, rules)

\* A quick fix, of any text that has something to repair, keeps the three.
LEMMA FixRepairs ==
  ASSUME NEW text \in LsLines, NEW rules, auto_fix_source(text, rules) # text, NEW new, new = QuickFix(text, rules)
  PROVE  new \in LsLines /\ Repairs(text, new, rules) /\ auto_fix_source(text, rules) \in Seq(Line)
<1> DEFINE lines == splitlines(text)
<1>1. PICK n \in Nat \ {0} : n = Len(text) /\ n \in 1 .. n
  BY LenProperties, EmptySeq DEF LsLines
<1>2. /\ \A i \in 1 .. n : text[i] \in Line
      /\ text[n] = "" => DOMAIN lines = 1 .. n - 1 /\ \A i \in 1 .. n - 1 : lines[i] = text[i]
      /\ text[n] # "" => lines = text
      /\ DOMAIN text = 1 .. n
  BY <1>1, Lines
<1>3. PICK cand : cand = Mends(text)
  OBVIOUS
<1>4. cand \in LsLines /\ Len(cand) = n /\ DOMAIN cand = 1 .. n /\ \A i \in 1 .. n : cand[i] = Fixed(text[i])
  BY <1>1, <1>3, Candidate
\* What became of every line.
<1>16. \A i \in 1 .. n : Mended(text[i], cand[i])
  BY <1>2, <1>4, Repaired
<1>5. /\ new = cand \/ new = Append(cand, "")
      /\ splitlines(new) = cand
      /\ Unparsed(splitlines(cand)) = {}
      /\ auto_fix_source(text, rules) \in Seq(Line)
  BY <1>3, FixedText
<1> HIDE DEF lines
\* The lines of the text before, and a place behind them in which there is nothing.
<1>6. \A i \in 1 .. n : (i \in DOMAIN lines /\ lines[i] = text[i]) \/ (i \notin DOMAIN lines /\ text[i] = "")
  <2>1. CASE text[n] = ""
    <3> SUFFICES ASSUME NEW i \in 1 .. n
                 PROVE  (i \in DOMAIN lines /\ lines[i] = text[i]) \/ (i \notin DOMAIN lines /\ text[i] = "")
      OBVIOUS
    <3>1. i = n \/ i \in 1 .. n - 1
      BY <1>1
    <3>2. n \notin 1 .. n - 1
      BY <1>1
    <3> QED BY <1>2, <2>1, <3>1, <3>2
  <2>2. CASE text[n] # ""
    BY <1>2, <2>2
  <2> QED BY <2>1, <2>2
<1>7. DOMAIN lines \subseteq 1 .. n
  <2>1. 1 .. n - 1 \subseteq 1 .. n
    BY <1>1
  <2> QED BY <1>2, <2>1
<1>8. "" \in Line
  BY DEF Line
<1>9. \A i \in DOMAIN new : (i \in 1 .. n /\ new[i] = cand[i]) \/ (i \notin 1 .. n /\ new[i] = "")
  <2>1. CASE new = cand
    BY <1>4, <2>1
  <2>2. CASE new = Append(cand, "")
    <3>1. PICK e \in Line : e = ""
      BY <1>8
    <3>2. cand \in Seq(Line) /\ new = Append(cand, e) /\ e \in Line
      BY <1>4, <2>2, <3>1 DEF LsLines
    <3>3. DOMAIN new = 1 .. n + 1 /\ (\A i \in 1 .. n : new[i] = cand[i]) /\ new[n + 1] = e
      BY <1>4, <3>2, Appended
    <3>4. \A i \in 1 .. n + 1 : i \in 1 .. n \/ (i = n + 1 /\ i \notin 1 .. n)
      BY <1>1
    <3> QED BY <3>1, <3>3, <3>4
  <2> QED BY <1>5, <2>1, <2>2
<1>10. new \in LsLines
  <2>1. CASE new = cand
    BY <1>4, <2>1
  <2>2. CASE new = Append(cand, "")
    <3>1. PICK e \in Line : e = ""
      BY <1>8
    <3>2. cand \in Seq(Line) /\ new = Append(cand, e) /\ e \in Line
      BY <1>4, <2>2, <3>1 DEF LsLines
    <3> QED BY <3>2, Extended DEF LsLines
  <2> QED BY <1>5, <2>1, <2>2
\* Every line is repaired,
<1>11. \A i \in DOMAIN new : new[i] = IF i \in DOMAIN lines THEN Fixed(lines[i]) ELSE ""
  <2> SUFFICES ASSUME NEW i \in DOMAIN new PROVE new[i] = IF i \in DOMAIN lines THEN Fixed(lines[i]) ELSE ""
    OBVIOUS
  <2>1. CASE i \notin 1 .. n
    BY <1>7, <1>9, <2>1
  <2>2. CASE i \in 1 .. n /\ i \in DOMAIN lines
    BY <1>4, <1>6, <1>9, <2>2
  <2>3. CASE i \in 1 .. n /\ i \notin DOMAIN lines
    <3>1. new[i] = Fixed("")
      BY <1>4, <1>6, <1>9, <2>3
    <3>2. Fixed("") = ""
      BY <1>8, Repaired DEF Mended
    <3> QED BY <2>3, <3>1, <3>2
  <2> QED BY <2>1, <2>2, <2>3
\* so that nothing is left to repair.
<1>12. auto_fix_source(new, rules) = new
  <2>1. \A i \in DOMAIN new : Fixed(new[i]) = new[i]
    <3> SUFFICES ASSUME NEW i \in DOMAIN new PROVE Fixed(new[i]) = new[i]
      OBVIOUS
    <3>1. CASE i \in 1 .. n
      <4>1. new[i] = cand[i]
        BY <1>9, <3>1
      <4> QED BY <1>16, <3>1, <4>1 DEF Mended
    <3>2. CASE i \notin 1 .. n
      <4>1. new[i] = ""
        BY <1>9, <3>2
      <4>2. Fixed("") = ""
        BY <1>8, Repaired DEF Mended
      <4> QED BY <4>1, <4>2
    <3> QED BY <3>1, <3>2
  <2>2. ~Fixable(new)
    BY <2>1 DEF Fixable
  <2> QED BY <2>2 DEF auto_fix_source
\* Neither text has a line that does not parse.
<1>13. \A i \in 1 .. n : text[i] # "broken"
  <2> SUFFICES ASSUME NEW i \in 1 .. n, text[i] = "broken" PROVE FALSE
    OBVIOUS
  <2>1. cand[i] = "broken"
    BY <1>16 DEF Mended
  <2>2. i \in DOMAIN splitlines(cand) /\ splitlines(cand)[i] = cand[i]
    <3>1. CASE cand[n] = ""
      <4>1. i \in 1 .. n - 1
        <5>1. i # n
          BY <2>1, <3>1
        <5> QED BY <1>1, <5>1
      <4>2. DOMAIN splitlines(cand) = 1 .. n - 1 /\ \A j \in 1 .. n - 1 : splitlines(cand)[j] = cand[j]
        BY <1>4, <3>1, Lines
      <4> QED BY <4>1, <4>2
    <3>2. CASE cand[n] # ""
      <4>1. splitlines(cand) = cand
        BY <1>4, <3>2, Lines
      <4> QED BY <1>4, <4>1
    <3> QED BY <3>1, <3>2
  <2>3. <<i, "SyntaxIntegrity">> \in Unparsed(splitlines(cand))
    BY <2>1, <2>2 DEF Unparsed
  <2> QED BY <1>5, <2>3
<1>14. Unparsed(cand) = {} /\ Unparsed(lines) = {}
  <2>1. \A i \in 1 .. n : cand[i] # "broken"
    BY <1>16, <1>13 DEF Mended
  <2>2. \A i \in DOMAIN lines : lines[i] # "broken"
    BY <1>6, <1>7, <1>13
  <2> QED BY <1>4, <2>1, <2>2 DEF Unparsed
<1>15. ASSUME \A i \in DOMAIN lines : lines[i] = "bare waiver" => InHeader(i)
       PROVE  audit_source(new, rules) \subseteq audit_source(text, rules)
  <2>1. audit_source(new, rules) = _filter_active_violations(cand, rules)
    BY <1>5, <1>14 DEF audit_source
  <2>2. audit_source(text, rules) = _filter_active_violations(lines, rules)
    BY <1>14 DEF audit_source, lines
  <2>3. Waives(lines) => Waives(cand)
    <3> SUFFICES ASSUME NEW i \in DOMAIN lines, InHeader(i), lines[i] = "waiver" PROVE Waives(cand)
      BY DEF Waives
    <3>1. i \in 1 .. n /\ text[i] = "waiver" /\ text[i] \in Line
      BY <1>2, <1>6, <1>7
    <3>2. cand[i] = "waiver"
      BY <1>16, <3>1 DEF Mended
    <3> QED BY <1>4, <3>1, <3>2 DEF Waives
  \* What is found in a repaired line was found in it before.
  <2>4. ASSUME NEW i \in 1 .. n, cand[i] # "",
               NEW kept \in {"marked address", "complex", "foreign waiver"}, cand[i] = kept
        PROVE  i \in DOMAIN lines /\ lines[i] = kept
    <3>1. text[i] = kept
      BY <1>16, <2>4 DEF Mended
    <3> QED BY <1>6, <2>4, <3>1
  <2>5. \A i \in 1 .. n : cand[i] \notin {"address", "subdomain", "curt waiver", "bare waiver"}
    BY <1>16 DEF Mended
  <2>6. _run_visitors(cand) \subseteq _run_visitors(lines)
    <3> SUFFICES ASSUME NEW v \in _run_visitors(cand) PROVE v \in _run_visitors(lines)
      OBVIOUS
    <3>1. CASE \E i \in DOMAIN cand : cand[i] \in Leaks /\ v = <<i, "ZeroTrustSanitization">>
      <4>1. PICK i \in 1 .. n : cand[i] \in Leaks /\ v = <<i, "ZeroTrustSanitization">>
        BY <1>4, <3>1
      <4>2. cand[i] = "marked address"
        BY <2>5, <4>1 DEF Leaks
      <4>3. i \in DOMAIN lines /\ lines[i] \in Leaks
        BY <2>4, <4>2 DEF Leaks
      <4> QED BY <4>1, <4>3 DEF _run_visitors
    <3>2. CASE \E i \in DOMAIN cand : cand[i] = "complex" /\ v = <<i, "CyclomaticComplexity">>
      <4>1. PICK i \in 1 .. n : cand[i] = "complex" /\ v = <<i, "CyclomaticComplexity">>
        BY <1>4, <3>2
      <4>2. i \in DOMAIN lines /\ lines[i] = "complex"
        BY <2>4, <4>1
      <4> QED BY <4>1, <4>2 DEF _run_visitors
    <3> QED BY <3>1, <3>2 DEF _run_visitors
  <2>7. _scan_waivers(cand) \subseteq _scan_waivers(lines)
    <3> SUFFICES ASSUME NEW i \in 1 .. n,
                        IF InHeader(i) THEN cand[i] \in Defective
                        ELSE cand[i] \in Pragmas /\ (cand[i] = "foreign waiver" \/ ~Waives(cand))
                 PROVE  <<i, "WaiverIntegrity">> \in _scan_waivers(lines)
      BY <1>4 DEF _scan_waivers
    <3>1. CASE cand[i] \in {"marked address", "foreign waiver"}
      <4>1. i \in DOMAIN lines /\ lines[i] = cand[i]
        BY <2>4, <3>1
      <4>2. IF InHeader(i) THEN lines[i] \in Defective
            ELSE lines[i] \in Pragmas /\ (lines[i] = "foreign waiver" \/ ~Waives(lines))
        BY <2>3, <4>1
      <4> QED BY <4>1, <4>2 DEF _scan_waivers
    <3>2. CASE cand[i] = "waiver"
      <4>1. ~InHeader(i) /\ ~Waives(lines)
        BY <2>3, <3>2 DEF Defective
      <4>2. text[i] \in {"waiver", "curt waiver", "bare waiver"}
        BY <1>16, <3>2 DEF Mended
      <4>3. i \in DOMAIN lines /\ lines[i] = text[i]
        BY <1>6, <4>2
      <4>4. lines[i] \in Pragmas
        BY <1>15, <4>1, <4>2, <4>3 DEF Pragmas
      <4> QED BY <4>1, <4>3, <4>4 DEF _scan_waivers
    <3> QED BY <2>5, <3>1, <3>2 DEF Defective, Pragmas
  <2> QED BY <2>1, <2>2, <2>3, <2>6, <2>7 DEF _filter_active_violations
<1> QED BY <1>5, <1>10, <1>11, <1>12, <1>15 DEF Repairs, lines

-----------------------------------------------------------------------------
\* The requests that the editor keeps.

\* The same requests, none of them current that is about the text.
SameRequests(asked2, asked, u) ==
  /\ DOMAIN asked2 = DOMAIN asked
  /\ \A i \in DOMAIN asked : /\ asked2[i].id = asked[i].id /\ asked2[i].uri = asked[i].uri
                             /\ "id" \in DOMAIN asked[i] /\ "id" \in DOMAIN asked2[i]
                             /\ asked2[i].current => asked[i].current /\ asked[i].uri # u

\* An edit marks requests, and changes nothing else about them.
LEMMA Forgetting ==
  ASSUME lsAsked \in Seq(LsRequest), NEW u, NEW t, t = Forgotten(u)
  PROVE  t \in Seq(LsRequest) /\ SameRequests(t, lsAsked, u)
<1>1. PICK n \in Nat : n = Len(lsAsked) /\ DOMAIN lsAsked = 1 .. n
  BY LenProperties
<1>2. t = [i \in 1 .. n |-> [lsAsked[i] EXCEPT !.current = @ /\ lsAsked[i].uri # u]]
  BY <1>1 DEF Forgotten
<1>3. ASSUME NEW i \in 1 .. n
      PROVE  /\ t[i] \in LsRequest /\ t[i].id = lsAsked[i].id /\ t[i].uri = lsAsked[i].uri
             /\ t[i].current => lsAsked[i].current /\ lsAsked[i].uri # u
             /\ "id" \in DOMAIN lsAsked[i] /\ "id" \in DOMAIN t[i]
  <2>1. PICK r : r = lsAsked[i]
    OBVIOUS
  <2>2. r \in LsRequest
    BY <1>1, <2>1, ElementOfSeq
  <2>3. t[i] = [r EXCEPT !.current = r.current /\ r.uri # u]
    BY <1>2, <2>1
  <2>4. PICK c \in BOOLEAN : c = (r.current /\ r.uri # u)
    OBVIOUS
  <2>5. t[i] = [r EXCEPT !.current = c]
    BY <2>3, <2>4
  <2>6. /\ t[i] \in LsRequest /\ t[i].id = r.id /\ t[i].uri = r.uri /\ t[i].current = c
        /\ "id" \in DOMAIN r /\ "id" \in DOMAIN t[i]
    BY <2>2, <2>5 DEF LsRequest
  <2> QED BY <2>1, <2>4, <2>6
<1>4. t \in Seq(LsRequest) /\ DOMAIN t = 1 .. n
  <2>1. t = [i \in 1 .. n |-> t[i]]
    BY <1>2
  <2>2. \A i \in 1 .. n : t[i] \in LsRequest
    BY <1>3
  <2> QED BY <1>2, <2>1, <2>2, IsASeq
<1> QED BY <1>1, <1>3, <1>4 DEF SameRequests

\* Marked or not, they are as many and in the same order.
LEMMA SameIds ==
  ASSUME NEW asked, NEW asked2, NEW u, SameRequests(asked2, asked, u)
  PROVE  Ids(asked2) = Ids(asked) /\ (InOrder(asked) => InOrder(asked2))
<1>1. Requests(asked2) = Requests(asked) /\ \A i \in Requests(asked) : asked2[i].id = asked[i].id
  BY DEF SameRequests, Requests
<1> QED BY <1>1 DEF Ids, InOrder

\* The texts of the other requests have not changed.
OtherTexts(asked, texts2, texts, u) ==
  \A i \in DOMAIN asked : asked[i].uri # u => texts2[asked[i].uri] = texts[asked[i].uri]

\* A change of a text: what was asked about it before is not current any more.
LEMMA CurrentEdited ==
  ASSUME NEW T, NEW open \in Seq(T), NEW m \in T, NEW open2, open2 = Append(open, m),
         NEW u, About(m, u), NEW asked, NEW asked2, SameRequests(asked2, asked, u),
         NEW texts, NEW texts2, NEW answers, NEW rules, Current(asked, answers, open, texts, rules),
         OtherTexts(asked, texts2, texts, u)
  PROVE  Current(asked2, answers, open2, texts2, rules)
<1> SUFFICES ASSUME NEW k \in DOMAIN asked2, asked2[k].current
             PROVE  /\ Untouched(asked2[k].id, asked2[k].uri, open2)
                    /\ Answered(asked2[k].id, asked2[k].uri, answers, texts2, rules)
  BY DEF Current
<1>1. PICK id, x : id = asked[k].id /\ x = asked[k].uri
  OBVIOUS
<1>2. k \in DOMAIN asked /\ asked2[k].id = id /\ asked2[k].uri = x /\ asked[k].current /\ x # u
  BY <1>1 DEF SameRequests
<1>3. Untouched(id, x, open) /\ Answered(id, x, answers, texts, rules)
  BY <1>1, <1>2 DEF Current
<1>4. texts2[x] = texts[x]
  BY <1>1, <1>2 DEF OtherTexts
<1>5. Answered(id, x, answers, texts2, rules)
  BY <1>3, <1>4 DEF Answered, _handle_code_action
<1>6. ~About(m, x) /\ "id" \notin DOMAIN m
  BY <1>2 DEF About
<1>7. Untouched(id, x, open2)
  BY <1>3, <1>6, UntouchedSent
<1> QED BY <1>2, <1>5, <1>7

\* A new request.
LEMMA CurrentAsked ==
  ASSUME NEW S, NEW asked \in Seq(S), NEW r \in S, NEW asked2, asked2 = Append(asked, r),
         NEW T, NEW open \in Seq(T), NEW m \in T, NEW open2, open2 = Append(open, m), "id" \in DOMAIN m,
         m.id = r.id, m.uri = r.uri, \A s \in S : "id" \in DOMAIN s,
         NEW answers, NEW texts, NEW rules, Current(asked, answers, open, texts, rules),
         r.id \notin Ids(asked), Ids(open) \subseteq Ids(asked), Ids(answers) \subseteq Ids(asked)
  PROVE  Current(asked2, answers, open2, texts, rules)
<1>1. PICK n \in Nat : /\ DOMAIN asked = 1 .. n /\ DOMAIN asked2 = 1 .. n + 1
                       /\ \A i \in 1 .. n : asked2[i] = asked[i]
                       /\ asked2[n + 1] = r
  BY Appended
<1> SUFFICES ASSUME NEW k \in DOMAIN asked2, asked2[k].current
             PROVE  /\ Untouched(asked2[k].id, asked2[k].uri, open2)
                    /\ Answered(asked2[k].id, asked2[k].uri, answers, texts, rules)
  BY DEF Current
<1>2. CASE k \in 1 .. n
  <2>1. PICK id, x : id = asked[k].id /\ x = asked[k].uri
    OBVIOUS
  <2>2. asked2[k].id = id /\ asked2[k].uri = x /\ asked[k].current
    BY <1>1, <1>2, <2>1
  <2>3. Untouched(id, x, open) /\ Answered(id, x, answers, texts, rules)
    BY <1>1, <1>2, <2>1, <2>2 DEF Current
  <2>4. id \in Ids(asked)
    <3>1. asked[k] \in S
      BY <1>1, <1>2, ElementOfSeq, LenProperties
    <3>2. k \in Requests(asked)
      BY <1>1, <1>2, <3>1 DEF Requests
    <3> QED BY <2>1, <3>2 DEF Ids
  <2>5. m.id # id /\ ~About(m, x)
    BY <2>4 DEF About
  <2>6. Untouched(id, x, open2)
    BY <2>3, <2>5, UntouchedSent
  <2> QED BY <2>2, <2>3, <2>6
<1>3. CASE k = n + 1
  <2>1. asked2[k] = r
    BY <1>1, <1>3
  <2>2. Untouched(m.id, m.uri, open2)
    BY UntouchedAsked
  <2>3. Answered(r.id, r.uri, answers, texts, rules)
    BY DEF Answered, Ids
  <2> QED BY <2>1, <2>2, <2>3
<1> QED BY <1>1, <1>2, <1>3

\* The server takes a message, and answers it if it is a request.
LEMMA CurrentTaken ==
  ASSUME NEW T, NEW open \in Seq(T), open # <<>>, NEW open2, open2 = Tail(open),
         NEW asked, NEW answers, NEW texts, NEW rules, Current(asked, answers, open, texts, rules)
  PROVE  Current(asked, answers, open2, texts, rules)
<1> SUFFICES ASSUME NEW k \in DOMAIN asked, asked[k].current PROVE Untouched(asked[k].id, asked[k].uri, open2)
  BY DEF Current
<1>1. Untouched(asked[k].id, asked[k].uri, open)
  BY DEF Current
<1> QED BY <1>1, UntouchedTaken

\* What the server sends is about the text as it is, if it answers a request that is current.
LEMMA CurrentAnswered ==
  ASSUME NEW A, NEW answers \in Seq(A), NEW e \in A, NEW answers2, answers2 = Append(answers, e),
         NEW asked, NEW open, NEW texts, NEW rules, Current(asked, answers, open, texts, rules),
         \A k \in DOMAIN asked : asked[k].current /\ "id" \in DOMAIN e /\ e.id = asked[k].id =>
           e.edit = _handle_code_action(asked[k].uri, texts, rules)
  PROVE  Current(asked, answers2, open, texts, rules)
<1> SUFFICES ASSUME NEW k \in DOMAIN asked, asked[k].current
             PROVE  Answered(asked[k].id, asked[k].uri, answers2, texts, rules)
  BY DEF Current
<1>1. PICK id, x : id = asked[k].id /\ x = asked[k].uri
  OBVIOUS
<1>2. Answered(id, x, answers, texts, rules)
  BY <1>1 DEF Current
<1>3. "id" \in DOMAIN e /\ e.id = id => e.edit = _handle_code_action(x, texts, rules)
  BY <1>1
<1>4. Answered(id, x, answers2, texts, rules)
  BY <1>2, <1>3, AnsweredSent
<1> QED BY <1>1, <1>4

\* The editor takes a message, and forgets the request if it is an answer.
LEMMA CurrentReceived ==
  ASSUME NEW A, NEW answers \in Seq(A), answers # <<>>, NEW answers2, answers2 = Tail(answers),
         NEW asked, NEW open, NEW texts, NEW rules, Current(asked, answers, open, texts, rules)
  PROVE  Current(asked, answers2, open, texts, rules)
<1> SUFFICES ASSUME NEW k \in DOMAIN asked, asked[k].current
             PROVE  Answered(asked[k].id, asked[k].uri, answers2, texts, rules)
  BY DEF Current
<1>1. Answered(asked[k].id, asked[k].uri, answers, texts, rules)
  BY DEF Current
<1> QED BY <1>1, AnsweredTaken

\* The request that has waited longest is forgotten.
LEMMA CurrentForgotten ==
  ASSUME NEW S, NEW asked \in Seq(S), asked # <<>>, NEW asked2, asked2 = Tail(asked),
         NEW answers, NEW open, NEW texts, NEW rules, Current(asked, answers, open, texts, rules)
  PROVE  Current(asked2, answers, open, texts, rules)
<1>1. PICK n \in Nat \ {0} : /\ DOMAIN asked = 1 .. n /\ DOMAIN asked2 = 1 .. n - 1
                             /\ \A i \in 1 .. n - 1 : asked2[i] = asked[i + 1]
  BY Taken
<1> SUFFICES ASSUME NEW k \in DOMAIN asked2, asked2[k].current
             PROVE  /\ Untouched(asked2[k].id, asked2[k].uri, open)
                    /\ Answered(asked2[k].id, asked2[k].uri, answers, texts, rules)
  BY DEF Current
<1>2. k + 1 \in DOMAIN asked /\ asked2[k] = asked[k + 1]
  BY <1>1
<1> QED BY <1>2 DEF Current

-----------------------------------------------------------------------------
\* The steps of the editor and of the server.

LsMessage == LsChange \cup LsClose \cup LsAction
LsReply == LsPublish \cup LsAnswer

\* What the kinds of messages have in common, and what tells them apart.
LEMMA Messages ==
  /\ \A m \in LsMessage :
       /\ m.method \in {"change", "close", "codeAction"} /\ m.uri \in Uri
       /\ "id" \in DOMAIN m <=> m.method = "codeAction"
       /\ "id" \in DOMAIN m => m.id \in Nat
       /\ m.method = "change" => m.text \in LsLines
  /\ \A m \in LsReply :
       /\ "id" \in DOMAIN m => m.id \in Nat /\ m.edit.new \in Seq(Line) /\ m.edit.lines \in Nat
       /\ "id" \notin DOMAIN m => m.uri \in Uri /\ m.diagnostics \in LsFindings
  /\ \A r \in LsRequest : "id" \in DOMAIN r /\ r.id \in Nat /\ r.uri \in Uri
<1>1. ASSUME NEW m \in LsMessage
      PROVE  /\ m.method \in {"change", "close", "codeAction"} /\ m.uri \in Uri
             /\ "id" \in DOMAIN m <=> m.method = "codeAction"
             /\ "id" \in DOMAIN m => m.id \in Nat
             /\ m.method = "change" => m.text \in LsLines
  <2>1. CASE m \in LsChange
    BY <2>1 DEF LsChange
  <2>2. CASE m \in LsClose
    BY <2>2 DEF LsClose
  <2>3. CASE m \in LsAction
    BY <2>3 DEF LsAction
  <2> QED BY <2>1, <2>2, <2>3 DEF LsMessage
<1>2. ASSUME NEW m \in LsReply
      PROVE  /\ "id" \in DOMAIN m => m.id \in Nat /\ m.edit.new \in Seq(Line) /\ m.edit.lines \in Nat
             /\ "id" \notin DOMAIN m => m.uri \in Uri /\ m.diagnostics \in LsFindings
  <2>1. CASE m \in LsPublish
    BY <2>1 DEF LsPublish
  <2>2. CASE m \in LsAnswer
    BY <2>2 DEF LsAnswer
  <2> QED BY <2>1, <2>2 DEF LsReply
<1>3. \A r \in LsRequest : "id" \in DOMAIN r /\ r.id \in Nat /\ r.uri \in Uri
  BY DEF LsRequest
<1> QED BY <1>1, <1>2, <1>3

\* The types, with the kinds of messages taken together.
LEMMA LsTyped ==
  ASSUME LsInv
  PROVE  /\ lsText \in [Uri -> LsLines \cup {Unopened}] /\ lsOpenDocs \in [Uri -> LsLines \cup {Unopened}]
         /\ lsShown \in [Uri -> LsFindings] /\ lsAsked \in Seq(LsRequest)
         /\ lsToServer \in Seq(LsMessage) /\ lsToEditor \in Seq(LsReply) /\ lsFixes \in Nat
         /\ \A k \in DOMAIN lsAsked : lsAsked[k] \in LsRequest
<1>1. lsAsked \in Seq(LsRequest)
  BY DEF LsInv, LsTypeOK
<1>2. \A k \in DOMAIN lsAsked : lsAsked[k] \in LsRequest
  BY <1>1, ElementOfSeq, LenProperties
<1> QED BY <1>2 DEF LsInv, LsTypeOK, LsMessage, LsReply

\* A text is changed or closed.
LEMMA Editing ==
  ASSUME LsInv, NEW u \in Uri, NEW x \in LsLines \cup {Unopened}, NEW texts, texts = [lsText EXCEPT ![u] = x],
         NEW m \in LsMessage, About(m, u), Carried(m) = x, NEW open, open = Append(lsToServer, m),
         NEW asked, SameRequests(asked, lsAsked, u)
  PROVE  /\ texts \in [Uri -> LsLines \cup {Unopened}] /\ open \in Seq(LsMessage)
         /\ Arrive(open, texts, lsOpenDocs)
         /\ InLine(asked, lsToEditor, open) /\ Numbered(asked, lsFixes)
         /\ Current(asked, lsToEditor, open, texts, lsRules)
<1>1. /\ lsText \in [Uri -> LsLines \cup {Unopened}] /\ lsToServer \in Seq(LsMessage)
      /\ \A k \in DOMAIN lsAsked : lsAsked[k] \in LsRequest
  BY LsTyped
<1>2. texts \in [Uri -> LsLines \cup {Unopened}] /\ texts[u] = x /\ SameButOf(texts, lsText, u)
  BY <1>1 DEF SameButOf
<1>3. open \in Seq(LsMessage)
  BY <1>1, AppendProperties
<1>4. Arrive(open, texts, lsOpenDocs)
  <2>1. Arrive(lsToServer, lsText, lsOpenDocs)
    BY DEF LsInv
  <2> QED BY <1>1, <1>2, <2>1, ArriveSent
<1>5. Ids(asked) = Ids(lsAsked) /\ (InOrder(lsAsked) => InOrder(asked))
  BY SameIds
<1>6. InLine(asked, lsToEditor, lsToServer)
  BY <1>5 DEF InLine, LsInv
<1>7. InLine(asked, lsToEditor, open)
  <2>1. "id" \notin DOMAIN m
    BY DEF About
  <2> QED BY <1>1, <1>6, <2>1, InLineTold
<1>8. Numbered(asked, lsFixes)
  BY <1>5 DEF Numbered, LsInv
<1>9. Current(asked, lsToEditor, open, texts, lsRules)
  <2>1. Current(lsAsked, lsToEditor, lsToServer, lsText, lsRules)
    BY DEF LsInv
  <2>2. OtherTexts(lsAsked, texts, lsText, u)
    BY <1>1, <1>2, Messages DEF OtherTexts, SameButOf
  <2> QED BY <1>1, <2>1, <2>2, CurrentEdited
<1> QED BY <1>2, <1>3, <1>4, <1>7, <1>8, <1>9

\* What the next state has to show, part by part.
LEMMA LsInvNext ==
  ASSUME lsText' \in [Uri -> LsLines \cup {Unopened}], lsOpenDocs' \in [Uri -> LsLines \cup {Unopened}],
         lsShown' \in [Uri -> LsFindings], lsAsked' \in Seq(LsRequest),
         lsToServer' \in Seq(LsMessage), lsToEditor' \in Seq(LsReply), lsFixes' \in Nat,
         Arrive(lsToServer', lsText', lsOpenDocs'), Found(lsToEditor', lsOpenDocs', lsShown', lsRules'),
         InLine(lsAsked', lsToEditor', lsToServer'), Numbered(lsAsked', lsFixes'),
         Current(lsAsked', lsToEditor', lsToServer', lsText', lsRules')
  PROVE  LsInv'
BY DEF LsInv, LsTypeOK, LsMessage, LsReply

\* The user types.
LEMMA LsTypes ==
  ASSUME LsInv, NEW u \in Uri, Type(u) PROVE LsInv'
<1>1. PICK text \in Buffers \ {lsText[u]} : Edits(u, text)
  BY DEF Type
<1>2. text \in LsLines /\ text \in LsLines \cup {Unopened}
  BY SentinelAssumption DEF LsLines
<1>3. PICK m : m = [method |-> "change", uri |-> u, text |-> text]
  OBVIOUS
<1>4. m \in LsMessage /\ About(m, u) /\ Carried(m) = text
  <2>1. m \in LsChange
    BY <1>2, <1>3 DEF LsChange
  <2> QED BY <1>3, <2>1 DEF LsMessage, About, Carried
<1>5. lsText' = [lsText EXCEPT ![u] = text] /\ lsToServer' = Append(lsToServer, m)
  BY <1>1, <1>3 DEF Edits, Send
<1>6. lsAsked' \in Seq(LsRequest) /\ SameRequests(lsAsked', lsAsked, u)
  BY LsTyped, Forgetting DEF Type
<1>7. /\ lsText' \in [Uri -> LsLines \cup {Unopened}] /\ lsToServer' \in Seq(LsMessage)
      /\ Arrive(lsToServer', lsText', lsOpenDocs)
      /\ InLine(lsAsked', lsToEditor, lsToServer') /\ Numbered(lsAsked', lsFixes)
      /\ Current(lsAsked', lsToEditor, lsToServer', lsText', lsRules)
  BY <1>2, <1>4, <1>5, <1>6, Editing
<1>8. /\ lsOpenDocs' = lsOpenDocs /\ lsShown' = lsShown /\ lsToEditor' = lsToEditor
      /\ lsFixes' = lsFixes /\ lsRules' = lsRules
  BY DEF Type
<1>9. Found(lsToEditor, lsOpenDocs, lsShown, lsRules)
  BY DEF LsInv
<1> QED BY <1>6, <1>7, <1>8, <1>9, LsTyped, LsInvNext

\* The user closes a document.
LEMMA LsCloses ==
  ASSUME LsInv, NEW u \in Uri, Close(u) PROVE LsInv'
<1>1. PICK m : m = [method |-> "close", uri |-> u]
  OBVIOUS
<1>2. m \in LsMessage /\ About(m, u) /\ Carried(m) = Unopened
  <2>1. m \in LsClose
    BY <1>1 DEF LsClose
  <2> QED BY <1>1, <2>1 DEF LsMessage, About, Carried
<1>3. lsText' = [lsText EXCEPT ![u] = Unopened] /\ lsToServer' = Append(lsToServer, m)
  BY <1>1 DEF Close, Send
<1>4. lsAsked' \in Seq(LsRequest) /\ SameRequests(lsAsked', lsAsked, u)
  BY LsTyped, Forgetting DEF Close
<1>5. Unopened \in LsLines \cup {Unopened}
  OBVIOUS
<1>6. /\ lsText' \in [Uri -> LsLines \cup {Unopened}] /\ lsToServer' \in Seq(LsMessage)
      /\ Arrive(lsToServer', lsText', lsOpenDocs)
      /\ InLine(lsAsked', lsToEditor, lsToServer') /\ Numbered(lsAsked', lsFixes)
      /\ Current(lsAsked', lsToEditor, lsToServer', lsText', lsRules)
  BY <1>2, <1>3, <1>4, <1>5, Editing
<1>7. /\ lsOpenDocs' = lsOpenDocs /\ lsShown' = lsShown /\ lsToEditor' = lsToEditor
      /\ lsFixes' = lsFixes /\ lsRules' = lsRules
  BY DEF Close
<1>8. Found(lsToEditor, lsOpenDocs, lsShown, lsRules)
  BY DEF LsInv
<1> QED BY <1>4, <1>6, <1>7, <1>8, LsTyped, LsInvNext

\* The user asks for a fix.
LEMMA LsAsks ==
  ASSUME LsInv, NEW u \in Uri, AskForFix(u) PROVE LsInv'
<1>1. PICK n \in Nat : n = lsFixes
  BY LsTyped
<1>2. PICK m : m = [method |-> "codeAction", uri |-> u, id |-> n + 1]
  OBVIOUS
<1>3. PICK r : r = [id |-> n + 1, uri |-> u, current |-> TRUE]
  OBVIOUS
<1>4. m \in LsMessage /\ "id" \in DOMAIN m /\ m.id = n + 1 /\ m.uri = u
  <2>1. n + 1 \in Nat
    BY <1>1
  <2>2. m \in LsAction
    BY <1>2, <2>1 DEF LsAction
  <2> QED BY <1>2, <2>2 DEF LsMessage
<1>5. r \in LsRequest /\ "id" \in DOMAIN r /\ r.id = n + 1 /\ r.uri = u
  <2>1. n + 1 \in Nat
    BY <1>1
  <2> QED BY <1>3, <2>1 DEF LsRequest
<1>6. /\ lsToServer' = Append(lsToServer, m) /\ lsAsked' = Append(lsAsked, r) /\ lsFixes' = n + 1
      /\ lsText' = lsText /\ lsOpenDocs' = lsOpenDocs /\ lsShown' = lsShown
      /\ lsToEditor' = lsToEditor /\ lsRules' = lsRules
  BY <1>1, <1>2, <1>3 DEF AskForFix, Send
<1>7. lsToServer \in Seq(LsMessage) /\ lsAsked \in Seq(LsRequest)
  BY LsTyped
<1>8. lsToServer' \in Seq(LsMessage) /\ lsAsked' \in Seq(LsRequest)
  BY <1>4, <1>5, <1>6, <1>7, AppendProperties
<1>9. /\ Arrive(lsToServer, lsText, lsOpenDocs) /\ Found(lsToEditor, lsOpenDocs, lsShown, lsRules)
      /\ InLine(lsAsked, lsToEditor, lsToServer) /\ Numbered(lsAsked, n)
      /\ Current(lsAsked, lsToEditor, lsToServer, lsText, lsRules)
  BY <1>1 DEF LsInv
<1>10. Arrive(lsToServer', lsText, lsOpenDocs)
  BY <1>4, <1>6, <1>7, <1>9, ArriveAsked
<1>11. Ids(lsAsked) \subseteq Nat
  BY <1>7, AskedIds
<1>12. InLine(lsAsked', lsToEditor, lsToServer') /\ Numbered(lsAsked', n + 1)
  BY <1>4, <1>5, <1>6, <1>7, <1>9, <1>11, InLineAsked
<1>13. Current(lsAsked', lsToEditor, lsToServer', lsText, lsRules)
  <2>1. r.id \notin Ids(lsAsked)
    <3>1. \A id \in Ids(lsAsked) : id \in Nat /\ id <= n
      BY <1>9, <1>11 DEF Numbered
    <3>2. ~(n + 1 <= n)
      BY <1>1
    <3> QED BY <1>5, <3>1, <3>2
  <2>2. Ids(lsToServer) \subseteq Ids(lsAsked) /\ Ids(lsToEditor) \subseteq Ids(lsAsked)
    BY <1>9 DEF InLine
  <2>3. \A s \in LsRequest : "id" \in DOMAIN s
    BY Messages
  <2>4. m.id = r.id /\ m.uri = r.uri
    BY <1>4, <1>5
  <2> QED BY <1>4, <1>5, <1>6, <1>7, <1>9, <2>1, <2>2, <2>3, <2>4, CurrentAsked
<1>14. n + 1 \in Nat
  BY <1>1
<1> QED BY <1>6, <1>8, <1>9, <1>10, <1>12, <1>13, <1>14, LsTyped, LsInvNext

\* The server receives a text, and publishes what it finds.
LEMMA LsChanges ==
  ASSUME LsInv, _on_did_change_doc PROVE LsInv'
<1>1. lsToServer \in Seq(LsMessage) /\ lsToServer # <<>> /\ lsToEditor \in Seq(LsReply) /\ lsOpenDocs \in [Uri -> LsLines \cup {Unopened}]
  BY LsTyped DEF _on_did_change_doc, Receives
<1>2. PICK m : m = Head(lsToServer)
  OBVIOUS
<1>3. m \in LsMessage /\ m.method = "change"
  BY <1>1, <1>2, HeadTailProperties DEF _on_did_change_doc, Receives
<1>4. m.uri \in Uri /\ "id" \notin DOMAIN m /\ m.text \in LsLines
  BY <1>3, Messages
<1>5. PICK u, text : u = m.uri /\ text = m.text
  OBVIOUS
<1>6. PICK e : e = Published(u, text)
  OBVIOUS
<1>7. e \in LsReply /\ "id" \notin DOMAIN e /\ e.uri = u /\ e.diagnostics = audit_source(text, lsRules)
  <2>1. audit_source(text, lsRules) \in LsFindings
    BY <1>4, <1>5, AuditIsFindings
  <2>2. e = [uri |-> u, diagnostics |-> audit_source(text, lsRules)]
    BY <1>6 DEF Published
  <2>3. e \in LsPublish
    BY <1>4, <1>5, <2>1, <2>2 DEF LsPublish
  <2> QED BY <2>2, <2>3 DEF LsReply
<1>8. /\ lsOpenDocs' = [lsOpenDocs EXCEPT ![u] = text]
      /\ lsToEditor' = Append(lsToEditor, e) /\ lsToServer' = Tail(lsToServer)
      /\ lsText' = lsText /\ lsShown' = lsShown /\ lsAsked' = lsAsked /\ lsFixes' = lsFixes /\ lsRules' = lsRules
  BY <1>2, <1>5, <1>6 DEF _on_did_change_doc, Receives
<1>9. /\ lsOpenDocs' \in [Uri -> LsLines \cup {Unopened}] /\ lsOpenDocs'[u] = text
      /\ \A x \in Uri : x # u => lsOpenDocs'[x] = lsOpenDocs[x]
  BY <1>1, <1>4, <1>5, <1>8
<1>10. lsToServer' \in Seq(LsMessage) /\ lsToEditor' \in Seq(LsReply)
  BY <1>1, <1>7, <1>8, AppendProperties, HeadTailProperties
<1>11. /\ Arrive(lsToServer, lsText, lsOpenDocs) /\ Found(lsToEditor, lsOpenDocs, lsShown, lsRules)
       /\ InLine(lsAsked, lsToEditor, lsToServer) /\ Numbered(lsAsked, lsFixes)
       /\ Current(lsAsked, lsToEditor, lsToServer, lsText, lsRules)
  BY DEF LsInv
<1>12. Arrive(lsToServer', lsText, lsOpenDocs')
  <2>1. \A x \in Uri : About(Head(lsToServer), x) <=> x = u
    BY <1>2, <1>4, <1>5 DEF About
  <2>2. Carried(Head(lsToServer)) = text
    BY <1>2, <1>3, <1>5 DEF Carried
  <2>3. \A x \in Uri : ~About(Head(lsToServer), x) => lsOpenDocs'[x] = lsOpenDocs[x]
    BY <1>9, <2>1
  <2>4. \A x \in Uri : About(Head(lsToServer), x) => lsOpenDocs'[x] = Carried(Head(lsToServer))
    BY <1>9, <2>1, <2>2
  <2>5. /\ lsToServer \in Seq(LsMessage) /\ lsToServer # <<>> /\ lsToServer' = Tail(lsToServer)
        /\ Arrive(lsToServer, lsText, lsOpenDocs)
    BY <1>1, <1>8, <1>11
  <2> QED BY <2>3, <2>4, <2>5, ArriveTaken, Zenon
<1>13. Found(lsToEditor', lsOpenDocs', lsShown, lsRules)
  <2>1. About(e, u) /\ e.diagnostics = audit_source(lsOpenDocs'[u], lsRules) /\ u \in Uri
    BY <1>4, <1>5, <1>7, <1>9 DEF About
  <2>2. lsToEditor \in Seq(LsReply) /\ e \in LsReply /\ lsToEditor' = Append(lsToEditor, e)
    BY <1>1, <1>7, <1>8
  <2>3. Found(lsToEditor, lsOpenDocs, lsShown, lsRules) /\ SameButOf(lsOpenDocs', lsOpenDocs, u)
    BY <1>9, <1>11 DEF SameButOf
  <2> QED BY <2>1, <2>2, <2>3, FoundPublished
<1>14. InLine(lsAsked, lsToEditor', lsToServer')
  <2>1. InLine(lsAsked, lsToEditor', lsToServer)
    BY <1>1, <1>7, <1>8, <1>11, InLinePublished
  <2>2. \A x \in LsMessage : "id" \in DOMAIN x => x.id \in Nat
    BY Messages
  <2>3. "id" \notin DOMAIN Head(lsToServer)
    BY <1>2, <1>4
  <2> QED BY <1>1, <1>8, <2>1, <2>2, <2>3, InLineTaken
<1>15. Current(lsAsked, lsToEditor', lsToServer', lsText, lsRules)
  <2>1. Current(lsAsked, lsToEditor, lsToServer', lsText, lsRules)
    BY <1>1, <1>8, <1>11, CurrentTaken
  <2> QED BY <1>1, <1>7, <1>8, <2>1, CurrentAnswered
<1> QED BY <1>8, <1>9, <1>10, <1>11, <1>12, <1>13, <1>14, <1>15, LsTyped, LsInvNext

\* The server forgets a document that is closed.
LEMMA LsServerCloses ==
  ASSUME LsInv, _on_did_close PROVE LsInv'
<1>1. lsToServer \in Seq(LsMessage) /\ lsToServer # <<>> /\ lsOpenDocs \in [Uri -> LsLines \cup {Unopened}]
  BY LsTyped DEF _on_did_close, Receives
<1>2. PICK m : m = Head(lsToServer)
  OBVIOUS
<1>3. m \in LsMessage /\ m.method = "close"
  BY <1>1, <1>2, HeadTailProperties DEF _on_did_close, Receives
<1>4. m.uri \in Uri /\ "id" \notin DOMAIN m
  BY <1>3, Messages
<1>5. PICK u : u = m.uri
  OBVIOUS
<1>6. /\ lsOpenDocs' = [lsOpenDocs EXCEPT ![u] = Unopened] /\ lsToServer' = Tail(lsToServer)
      /\ lsToEditor' = lsToEditor /\ lsText' = lsText /\ lsShown' = lsShown /\ lsAsked' = lsAsked
      /\ lsFixes' = lsFixes /\ lsRules' = lsRules
  BY <1>2, <1>5 DEF _on_did_close, Receives
<1>7. /\ lsOpenDocs' \in [Uri -> LsLines \cup {Unopened}] /\ lsOpenDocs'[u] = Unopened
      /\ \A x \in Uri : x # u => lsOpenDocs'[x] = lsOpenDocs[x]
  BY <1>1, <1>4, <1>5, <1>6
<1>8. lsToServer' \in Seq(LsMessage)
  BY <1>1, <1>6, HeadTailProperties
<1>9. /\ Arrive(lsToServer, lsText, lsOpenDocs) /\ Found(lsToEditor, lsOpenDocs, lsShown, lsRules)
      /\ InLine(lsAsked, lsToEditor, lsToServer) /\ Numbered(lsAsked, lsFixes)
      /\ Current(lsAsked, lsToEditor, lsToServer, lsText, lsRules)
  BY DEF LsInv
<1>10. Arrive(lsToServer', lsText, lsOpenDocs')
  <2>1. \A x \in Uri : About(Head(lsToServer), x) <=> x = u
    BY <1>2, <1>4, <1>5 DEF About
  <2>2. Carried(Head(lsToServer)) = Unopened
    BY <1>2, <1>3 DEF Carried
  <2>3. \A x \in Uri : ~About(Head(lsToServer), x) => lsOpenDocs'[x] = lsOpenDocs[x]
    BY <1>7, <2>1
  <2>4. \A x \in Uri : About(Head(lsToServer), x) => lsOpenDocs'[x] = Carried(Head(lsToServer))
    BY <1>7, <2>1, <2>2
  <2> QED BY <1>1, <1>6, <1>9, <2>3, <2>4, ArriveTaken, Zenon
<1>11. Found(lsToEditor, lsOpenDocs', lsShown, lsRules)
  <2>1. \A x \in Uri : lsOpenDocs'[x] # Unopened => lsOpenDocs'[x] = lsOpenDocs[x]
    BY <1>7
  <2> QED BY <1>9, <2>1 DEF Found
<1>12. InLine(lsAsked, lsToEditor, lsToServer')
  <2>1. \A x \in LsMessage : "id" \in DOMAIN x => x.id \in Nat
    BY Messages
  <2>2. "id" \notin DOMAIN Head(lsToServer)
    BY <1>2, <1>4
  <2> QED BY <1>1, <1>6, <1>9, <2>1, <2>2, InLineTaken
<1>13. Current(lsAsked, lsToEditor, lsToServer', lsText, lsRules)
  BY <1>1, <1>6, <1>9, CurrentTaken
<1> QED BY <1>6, <1>7, <1>8, <1>9, <1>10, <1>11, <1>12, <1>13, LsTyped, LsInvNext

\* The answer to a request is about the text as the editor has it, if that has not
\* changed since.
LEMMA LsAnswers ==
  ASSUME LsInv, _handle_lsp_request PROVE LsInv'
<1>1. lsToServer \in Seq(LsMessage) /\ lsToServer # <<>> /\ lsToEditor \in Seq(LsReply) /\ lsOpenDocs \in [Uri -> LsLines \cup {Unopened}]
  BY LsTyped DEF _handle_lsp_request, Receives
<1>2. PICK m : m = Head(lsToServer)
  OBVIOUS
<1>3. m \in LsMessage /\ m.method = "codeAction"
  BY <1>1, <1>2, HeadTailProperties DEF _handle_lsp_request, Receives
<1>4. m.uri \in Uri /\ "id" \in DOMAIN m /\ m.id \in Nat
  BY <1>3, Messages
<1>5. PICK id, edit : id = m.id /\ edit = _handle_code_action(m.uri, lsOpenDocs, lsRules)
  OBVIOUS
<1>6. edit \in [new : Seq(Line), lines : Nat]
  <2>1. CASE edit = NoEdit
    BY <2>1 DEF NoEdit
  <2>2. CASE edit # NoEdit
    <3>1. PICK source : source = lsOpenDocs[m.uri]
      OBVIOUS
    <3>2. /\ source # Unopened /\ auto_fix_source(source, lsRules) # source
          /\ edit = [new |-> auto_fix_source(source, lsRules), lines |-> Len(splitlines(source))]
      BY <1>5, <2>2, <3>1 DEF _handle_code_action
    <3>3. source \in LsLines
      BY <1>1, <1>4, <3>1, <3>2
    <3>4. auto_fix_source(source, lsRules) \in Seq(Line)
      BY <3>2, <3>3, FixedText
    <3>5. Len(splitlines(source)) \in Nat
      BY <3>3, Lines, LenProperties
    <3> QED BY <3>2, <3>4, <3>5
  <2> QED BY <2>1, <2>2
<1>7. PICK e : e = [id |-> id, edit |-> edit]
  OBVIOUS
<1>8. e \in LsReply /\ "id" \in DOMAIN e /\ e.id = id /\ e.edit = edit
  <2>1. e \in LsAnswer
    BY <1>4, <1>5, <1>6, <1>7 DEF LsAnswer
  <2> QED BY <1>7, <2>1 DEF LsReply
<1>9. /\ lsToEditor' = Append(lsToEditor, e) /\ lsToServer' = Tail(lsToServer) /\ lsOpenDocs' = lsOpenDocs
      /\ lsText' = lsText /\ lsShown' = lsShown /\ lsAsked' = lsAsked /\ lsFixes' = lsFixes /\ lsRules' = lsRules
  BY <1>2, <1>5, <1>7 DEF _handle_lsp_request, Receives
<1>10. lsToServer' \in Seq(LsMessage) /\ lsToEditor' \in Seq(LsReply)
  BY <1>1, <1>8, <1>9, AppendProperties, HeadTailProperties
<1>11. /\ Arrive(lsToServer, lsText, lsOpenDocs) /\ Found(lsToEditor, lsOpenDocs, lsShown, lsRules)
       /\ InLine(lsAsked, lsToEditor, lsToServer) /\ Numbered(lsAsked, lsFixes)
       /\ Current(lsAsked, lsToEditor, lsToServer, lsText, lsRules)
  BY DEF LsInv
<1>12. Arrive(lsToServer', lsText, lsOpenDocs)
  <2>1. \A x \in Uri : ~About(Head(lsToServer), x)
    BY <1>2, <1>4 DEF About
  <2>2. \A x \in Uri : ~About(Head(lsToServer), x) => lsOpenDocs[x] = lsOpenDocs[x]
    OBVIOUS
  <2>3. \A x \in Uri : About(Head(lsToServer), x) => lsOpenDocs[x] = Carried(Head(lsToServer))
    BY <2>1
  <2> QED BY <1>1, <1>9, <1>11, <2>2, <2>3, ArriveTaken, Zenon
<1>13. Found(lsToEditor', lsOpenDocs, lsShown, lsRules)
  BY <1>1, <1>8, <1>9, <1>11, FoundAnswered
<1>14. InLine(lsAsked, lsToEditor', lsToServer')
  <2>1. \A x \in LsMessage : "id" \in DOMAIN x => x.id \in Nat
    BY Messages
  <2>2. "id" \in DOMAIN Head(lsToServer) /\ e.id = Head(lsToServer).id
    BY <1>2, <1>4, <1>5, <1>8
  <2> QED BY <1>1, <1>8, <1>9, <1>11, <2>1, <2>2, InLineAnswered
<1>15. Current(lsAsked, lsToEditor', lsToServer', lsText, lsRules)
  <2>1. Current(lsAsked, lsToEditor, lsToServer', lsText, lsRules)
    BY <1>1, <1>9, <1>11, CurrentTaken
  <2>2. ASSUME NEW k \in DOMAIN lsAsked, lsAsked[k].current, e.id = lsAsked[k].id
        PROVE  e.edit = _handle_code_action(lsAsked[k].uri, lsText, lsRules)
    <3>1. PICK x : x = lsAsked[k].uri
      OBVIOUS
    <3>2. x \in Uri
      BY <3>1, LsTyped, Messages
    <3>3. Untouched(m.id, x, lsToServer)
      <4>1. Untouched(lsAsked[k].id, lsAsked[k].uri, lsToServer)
        BY <1>11, <2>2 DEF Current
      <4> QED BY <1>5, <1>8, <2>2, <3>1, <4>1
    <3>4. m.uri = x /\ lsOpenDocs[x] = lsText[x]
      <4>1. "id" \in DOMAIN Head(lsToServer) /\ Untouched(Head(lsToServer).id, x, lsToServer)
        BY <1>2, <1>4, <3>3
      <4>2. Head(lsToServer).uri = x /\ lsOpenDocs[x] = lsText[x]
        BY <1>1, <1>11, <3>2, <4>1, UntouchedRead
      <4> QED BY <1>2, <4>2
    <3> QED BY <1>5, <1>8, <3>1, <3>4 DEF _handle_code_action
  <2> QED BY <1>1, <1>8, <1>9, <2>1, <2>2, CurrentAnswered
<1> QED BY <1>9, <1>10, <1>11, <1>12, <1>13, <1>14, <1>15, LsTyped, LsInvNext

\* The editor shows what is published.
LEMMA LsShows ==
  ASSUME LsInv, ReceiveDiagnostics PROVE LsInv'
<1>1. lsToEditor \in Seq(LsReply) /\ lsToEditor # <<>> /\ lsShown \in [Uri -> LsFindings]
  BY LsTyped DEF ReceiveDiagnostics
<1>2. PICK m : m = Head(lsToEditor)
  OBVIOUS
<1>3. m \in LsReply /\ "id" \notin DOMAIN m
  BY <1>1, <1>2, HeadTailProperties DEF ReceiveDiagnostics
<1>4. PICK u, found : u = m.uri /\ found = m.diagnostics
  OBVIOUS
<1>5. u \in Uri /\ found \in LsFindings
  BY <1>3, <1>4, Messages
<1>6. /\ lsShown' = [lsShown EXCEPT ![u] = found] /\ lsToEditor' = Tail(lsToEditor)
      /\ lsText' = lsText /\ lsOpenDocs' = lsOpenDocs /\ lsToServer' = lsToServer /\ lsAsked' = lsAsked
      /\ lsFixes' = lsFixes /\ lsRules' = lsRules
  BY <1>2, <1>4 DEF ReceiveDiagnostics
<1>7. /\ lsShown' \in [Uri -> LsFindings] /\ lsShown'[u] = found
      /\ \A x \in Uri : x # u => lsShown'[x] = lsShown[x]
  BY <1>1, <1>5, <1>6
<1>8. lsToEditor' \in Seq(LsReply)
  BY <1>1, <1>6, HeadTailProperties
<1>9. /\ Arrive(lsToServer, lsText, lsOpenDocs) /\ Found(lsToEditor, lsOpenDocs, lsShown, lsRules)
      /\ InLine(lsAsked, lsToEditor, lsToServer) /\ Numbered(lsAsked, lsFixes)
      /\ Current(lsAsked, lsToEditor, lsToServer, lsText, lsRules)
  BY DEF LsInv
<1>10. Found(lsToEditor', lsOpenDocs, lsShown', lsRules)
  <2>1. \A x \in Uri : About(Head(lsToEditor), x) <=> x = u
    BY <1>2, <1>3, <1>4 DEF About
  <2>2. Head(lsToEditor).diagnostics = found
    BY <1>2, <1>4
  <2>3. \A x \in Uri : ~About(Head(lsToEditor), x) => lsShown'[x] = lsShown[x]
    BY <1>7, <2>1
  <2>4. \A x \in Uri : About(Head(lsToEditor), x) => lsShown'[x] = Head(lsToEditor).diagnostics
    BY <1>7, <2>1, <2>2
  <2> QED BY <1>1, <1>6, <1>9, <2>3, <2>4, FoundTaken, Zenon
<1>11. InLine(lsAsked, lsToEditor', lsToServer)
  <2>1. \A x \in LsReply : "id" \in DOMAIN x => x.id \in Nat
    BY Messages
  <2>2. "id" \notin DOMAIN Head(lsToEditor)
    BY <1>2, <1>3
  <2> QED BY <1>1, <1>6, <1>9, <2>1, <2>2, InLineShown
<1>12. Current(lsAsked, lsToEditor', lsToServer, lsText, lsRules)
  BY <1>1, <1>6, <1>9, CurrentReceived
<1> QED BY <1>6, <1>7, <1>8, <1>9, <1>10, <1>11, <1>12, LsTyped, LsInvNext

\* An answer is taken, and the request it answers forgotten.
LEMMA Answering ==
  ASSUME LsInv, lsToEditor # <<>>, "id" \in DOMAIN Head(lsToEditor), NEW answers, answers = Tail(lsToEditor),
         NEW asked \in Seq(LsRequest), NEW asked2, asked2 = Tail(asked),
         NEW open, NEW texts, InLine(asked, lsToEditor, open), Numbered(asked, lsFixes),
         Current(asked, lsToEditor, open, texts, lsRules)
  PROVE  /\ answers \in Seq(LsReply) /\ asked2 \in Seq(LsRequest)
         /\ asked # <<>> /\ Head(asked).id = Head(lsToEditor).id
         /\ Found(answers, lsOpenDocs, lsShown, lsRules)
         /\ InLine(asked2, answers, open) /\ Numbered(asked2, lsFixes)
         /\ Current(asked2, answers, open, texts, lsRules)
<1>1. lsToEditor \in Seq(LsReply)
  BY LsTyped
<1>2. /\ \A x \in LsReply : "id" \in DOMAIN x => x.id \in Nat
      /\ \A r \in LsRequest : "id" \in DOMAIN r /\ r.id \in Nat
  BY Messages
<1>3. asked # <<>> /\ Head(asked).id = Head(lsToEditor).id /\ InLine(asked2, answers, open)
  BY <1>1, <1>2, InLineReceived
<1>4. answers \in Seq(LsReply) /\ asked2 \in Seq(LsRequest)
  BY <1>1, <1>3, HeadTailProperties
<1>5. Found(answers, lsOpenDocs, lsShown, lsRules)
  <2>1. Found(lsToEditor, lsOpenDocs, lsShown, lsRules)
    BY DEF LsInv
  <2>2. \A x \in Uri : ~About(Head(lsToEditor), x)
    BY DEF About
  <2>3. \A x \in Uri : ~About(Head(lsToEditor), x) => lsShown[x] = lsShown[x]
    OBVIOUS
  <2>4. \A x \in Uri : About(Head(lsToEditor), x) => lsShown[x] = Head(lsToEditor).diagnostics
    BY <2>2
  <2> QED BY <1>1, <2>1, <2>3, <2>4, FoundTaken, Zenon
<1>6. Numbered(asked2, lsFixes)
  <2>1. InOrder(asked) /\ "id" \in DOMAIN Head(asked)
    BY <1>2, <1>3, HeadTailProperties DEF InLine
  <2>2. Ids(asked2) = Ids(asked) \ {Head(asked).id}
    BY <1>2, <1>3, <2>1, IdsTaken
  <2> QED BY <2>2 DEF Numbered
<1>7. Current(asked2, answers, open, texts, lsRules)
  <2>1. Current(asked, answers, open, texts, lsRules)
    BY <1>1, CurrentReceived
  <2> QED BY <1>3, <2>1, CurrentForgotten
<1> QED BY <1>3, <1>4, <1>5, <1>6, <1>7

\* What the user applies is the quick fix of the text as it is.
LEMMA AppliedFix ==
  ASSUME LsInv, lsToEditor # <<>>, "id" \in DOMAIN Head(lsToEditor),
         Head(lsAsked).current, Head(lsToEditor).edit # NoEdit,
         NEW u, u = Head(lsAsked).uri, NEW new, new = Applied(Head(lsToEditor).edit, lsText[u])
  PROVE  u \in Uri /\ lsText[u] \in LsLines /\ new \in LsLines /\ Repairs(lsText[u], new, lsRules)
<1>1. lsAsked \in Seq(LsRequest) /\ lsToEditor \in Seq(LsReply) /\ lsText \in [Uri -> LsLines \cup {Unopened}]
  BY LsTyped
<1>2. lsAsked # <<>> /\ Head(lsAsked).id = Head(lsToEditor).id
  <2>1. /\ InLine(lsAsked, lsToEditor, lsToServer) /\ Numbered(lsAsked, lsFixes)
        /\ Current(lsAsked, lsToEditor, lsToServer, lsText, lsRules)
    BY DEF LsInv
  <2>2. PICK answers, asked : answers = Tail(lsToEditor) /\ asked = Tail(lsAsked)
    OBVIOUS
  <2> QED BY <1>1, <2>1, <2>2, Answering
<1>3. Head(lsAsked) = lsAsked[1] /\ 1 \in DOMAIN lsAsked /\ Head(lsAsked) \in LsRequest
  <2>1. PICK t : t = Tail(lsAsked)
    OBVIOUS
  <2> QED BY <1>1, <1>2, <2>1, Taken
<1>4. u \in Uri
  BY <1>3, Messages
<1>5. Answered(Head(lsToEditor).id, u, lsToEditor, lsText, lsRules)
  <2>1. Answered(lsAsked[1].id, lsAsked[1].uri, lsToEditor, lsText, lsRules)
    BY <1>3 DEF LsInv, Current
  <2> QED BY <1>2, <1>3, <2>1
<1>6. Head(lsToEditor).edit = _handle_code_action(u, lsText, lsRules)
  BY <1>1, <1>5, AnsweredRead
<1>7. PICK source : source = lsText[u]
  OBVIOUS
<1>8. /\ source # Unopened /\ auto_fix_source(source, lsRules) # source
      /\ Head(lsToEditor).edit = [new |-> auto_fix_source(source, lsRules), lines |-> Len(splitlines(source))]
  BY <1>6, <1>7 DEF _handle_code_action
<1>9. source \in LsLines
  BY <1>1, <1>4, <1>7, <1>8
<1>10. new = QuickFix(source, lsRules)
  BY <1>7, <1>8, Zenon DEF QuickFix
<1>11. new \in LsLines /\ Repairs(source, new, lsRules)
  BY <1>8, <1>9, <1>10, FixRepairs
<1> QED BY <1>4, <1>7, <1>9, <1>11

\* The editor receives an answer, and the user applies it or does not.
LEMMA LsReceives ==
  ASSUME LsInv, ReceiveAnswer
  PROVE  LsInv' /\ QuickFixRepairs
<1>1. lsToEditor # <<>> /\ "id" \in DOMAIN Head(lsToEditor)
  BY DEF ReceiveAnswer
<1>2. /\ lsToEditor' = Tail(lsToEditor)
      /\ lsRules' = lsRules /\ lsShown' = lsShown /\ lsOpenDocs' = lsOpenDocs /\ lsFixes' = lsFixes
  BY DEF ReceiveAnswer
<1>3. lsAsked \in Seq(LsRequest) /\ lsText \in [Uri -> LsLines \cup {Unopened}]
  BY LsTyped
<1>4. CASE lsText' = lsText /\ lsToServer' = lsToServer /\ lsAsked' = Tail(lsAsked)
  <2>1. /\ InLine(lsAsked, lsToEditor, lsToServer) /\ Numbered(lsAsked, lsFixes)
        /\ Current(lsAsked, lsToEditor, lsToServer, lsText, lsRules)
        /\ Arrive(lsToServer, lsText, lsOpenDocs)
    BY DEF LsInv
  <2>2. /\ lsToEditor' \in Seq(LsReply) /\ lsAsked' \in Seq(LsRequest)
        /\ Found(lsToEditor', lsOpenDocs, lsShown, lsRules)
        /\ InLine(lsAsked', lsToEditor', lsToServer) /\ Numbered(lsAsked', lsFixes)
        /\ Current(lsAsked', lsToEditor', lsToServer, lsText, lsRules)
    BY <1>1, <1>2, <1>3, <1>4, <2>1, Answering
  <2>3. LsInv'
    BY <1>2, <1>4, <2>1, <2>2, LsTyped, LsInvNext
  <2> QED BY <1>4, <2>3 DEF QuickFixRepairs
<1>5. ASSUME Head(lsAsked).current, Head(lsToEditor).edit # NoEdit,
             Edits(Head(lsAsked).uri, Applied(Head(lsToEditor).edit, lsText[Head(lsAsked).uri])),
             lsAsked' = Tail(Forgotten(Head(lsAsked).uri))
      PROVE  LsInv' /\ QuickFixRepairs
  <2>1. PICK u : u = Head(lsAsked).uri
    OBVIOUS
  <2>2. PICK new : new = Applied(Head(lsToEditor).edit, lsText[u])
    OBVIOUS
  <2>3. u \in Uri /\ lsText[u] \in LsLines /\ new \in LsLines /\ Repairs(lsText[u], new, lsRules)
    BY <1>1, <1>5, <2>1, <2>2, AppliedFix
  <2>4. PICK m : m = [method |-> "change", uri |-> u, text |-> new]
    OBVIOUS
  <2>5. m \in LsMessage /\ About(m, u) /\ Carried(m) = new
    <3>1. m \in LsChange
      BY <2>3, <2>4 DEF LsChange
    <3> QED BY <2>4, <3>1 DEF LsMessage, About, Carried
  <2>6. Edits(u, new)
    BY <1>5, <2>1, <2>2
  <2>7. lsText' = [lsText EXCEPT ![u] = new] /\ lsToServer' = Append(lsToServer, m)
    BY <2>4, <2>6 DEF Edits, Send
  <2>8. PICK asked : asked = Forgotten(u)
    OBVIOUS
  <2>9. asked \in Seq(LsRequest) /\ SameRequests(asked, lsAsked, u)
    BY <1>3, <2>8, Forgetting
  <2>10. lsAsked' = Tail(asked)
    BY <1>5, <2>1, <2>8
  <2>11. new \in LsLines \cup {Unopened}
    BY <2>3
  <2>12. /\ lsText' \in [Uri -> LsLines \cup {Unopened}] /\ lsToServer' \in Seq(LsMessage)
         /\ Arrive(lsToServer', lsText', lsOpenDocs)
         /\ InLine(asked, lsToEditor, lsToServer') /\ Numbered(asked, lsFixes)
         /\ Current(asked, lsToEditor, lsToServer', lsText', lsRules)
    BY <2>3, <2>5, <2>7, <2>9, <2>11, Editing
  <2>13. /\ lsToEditor' \in Seq(LsReply) /\ lsAsked' \in Seq(LsRequest)
         /\ Found(lsToEditor', lsOpenDocs, lsShown, lsRules)
         /\ InLine(lsAsked', lsToEditor', lsToServer') /\ Numbered(lsAsked', lsFixes)
         /\ Current(lsAsked', lsToEditor', lsToServer', lsText', lsRules)
    BY <1>1, <1>2, <2>9, <2>10, <2>12, Answering
  <2>14. LsInv'
    BY <1>2, <2>12, <2>13, LsTyped, LsInvNext
  <2>15. QuickFixRepairs
    <3>1. \A x \in Uri : lsText'[x] # lsText[x] => x = u /\ lsText'[x] = new
      BY <1>3, <2>7
    <3>2. \A x \in Uri : lsText'[x] # lsText[x] => Repairs(lsText[x], lsText'[x], lsRules)
      BY <2>3, <3>1
    <3> QED BY <3>2, Zenon DEF QuickFixRepairs, Repairs
  <2> QED BY <2>14, <2>15
<1> QED BY <1>4, <1>5 DEF ReceiveAnswer

\* The end of the server, and steps of no one.
LEMMA LsExits ==
  ASSUME LsInv, Exit \/ UNCHANGED lsVars
  PROVE  LsInv'
<1>1. /\ lsText' = lsText /\ lsOpenDocs' = lsOpenDocs /\ lsShown' = lsShown /\ lsAsked' = lsAsked
      /\ lsToServer' = lsToServer /\ lsToEditor' = lsToEditor /\ lsFixes' = lsFixes /\ lsRules' = lsRules
  BY DEF Exit, lsVars
<1> QED BY <1>1 DEF LsInv, LsTypeOK

\* Nothing is open and nothing on its way.
LEMMA LsStarts ==
  ASSUME LsInit PROVE LsInv
<1>1. /\ lsText = [u \in Uri |-> Unopened] /\ lsShown = [u \in Uri |-> {}]
      /\ lsAsked = <<>> /\ lsToServer = <<>> /\ lsToEditor = <<>>
      /\ lsOpenDocs = [u \in Uri |-> Unopened] /\ lsFixes = 0
  BY DEF LsInit
<1>2. LsTypeOK
  BY <1>1 DEF LsTypeOK, LsFindings
<1>3. Arrive(lsToServer, lsText, lsOpenDocs)
  BY <1>1 DEF Arrive
<1>4. Found(lsToEditor, lsOpenDocs, lsShown, lsRules)
  BY <1>1 DEF Found
<1>5. Ids(lsAsked) = {} /\ Ids(lsToServer) = {} /\ Ids(lsToEditor) = {}
      /\ Requests(lsAsked) = {} /\ Requests(lsToServer) = {} /\ Requests(lsToEditor) = {}
  BY <1>1 DEF Ids, Requests
<1>6. InLine(lsAsked, lsToEditor, lsToServer) /\ Numbered(lsAsked, lsFixes)
  BY <1>5 DEF InLine, InOrder, Numbered
<1>7. Current(lsAsked, lsToEditor, lsToServer, lsText, lsRules)
  BY <1>1 DEF Current
<1> QED BY <1>2, <1>3, <1>4, <1>6, <1>7 DEF LsInv

\* What the invariant is for.
LEMMA LsInvServes ==
  ASSUME LsInv PROVE ShownIsOfTheText /\ AnswersComeInOrder
<1>1. AnswersComeInOrder
  BY DEF LsInv, InLine, AnswersComeInOrder
<1>2. ASSUME lsToServer = <<>>, lsToEditor = <<>>, NEW u \in Uri, lsText[u] # Unopened
      PROVE  lsOpenDocs[u] = lsText[u] /\ lsShown[u] = audit_source(lsText[u], lsRules)
  <2>1. NoneAfter(lsToServer, 0, u) /\ NoneAfter(lsToEditor, 0, u)
    BY <1>2 DEF NoneAfter
  <2>2. lsOpenDocs[u] = lsText[u]
    BY <2>1 DEF LsInv, Arrive
  <2>3. lsShown[u] = audit_source(lsOpenDocs[u], lsRules)
    BY <1>2, <2>1, <2>2 DEF LsInv, Found
  <2> QED BY <2>2, <2>3
<1> QED BY <1>1, <1>2 DEF ShownIsOfTheText

\* Nothing but a quick fix changes a text when the editor takes a message.
LEMMA LsKeepsTexts ==
  ASSUME NEW u \in Uri,
         \/ Type(u) \/ Close(u) \/ AskForFix(u) \/ Exit \/ ReceiveDiagnostics
         \/ _on_did_change_doc \/ _on_did_close \/ _handle_lsp_request \/ UNCHANGED lsVars
  PROVE  QuickFixRepairs
<1>1. lsToEditor' = lsToEditor \/ lsText' = lsText
  BY DEF Type, Close, AskForFix, Exit, ReceiveDiagnostics, _on_did_change_doc, _on_did_close,
         _handle_lsp_request, Receives, lsVars
<1> QED BY <1>1 DEF QuickFixRepairs

\* What the server of sentinel.py is for: however texts, requests, findings and
\* answers are on their way, the editor shows what an audit finds in the text as it is
\* once nothing is, every answer is to the request that has waited longest, and a fix
\* that is applied repairs the text that it is applied to.
THEOREM EditorsServed == LsSpec => EditorsAreServed
<1>1. LsInit => LsInv
  BY LsStarts
<1>2. LsInv /\ [LsNext]_lsVars => LsInv' /\ QuickFixRepairs
  <2> SUFFICES ASSUME LsInv, [LsNext]_lsVars PROVE LsInv' /\ QuickFixRepairs
    OBVIOUS
  <2>1. CASE \E u \in Uri : Type(u) \/ Close(u) \/ AskForFix(u)
    BY <2>1, LsTypes, LsCloses, LsAsks, LsKeepsTexts
  <2>2. CASE ReceiveAnswer
    BY <2>2, LsReceives
  <2>3. CASE \/ Exit \/ ReceiveDiagnostics \/ _on_did_change_doc \/ _on_did_close
             \/ _handle_lsp_request \/ UNCHANGED lsVars
    <3>1. LsInv'
      BY <2>3, LsExits, LsShows, LsChanges, LsServerCloses, LsAnswers
    <3>2. QuickFixRepairs
      <4>1. CASE Uri = {}
        BY <4>1 DEF QuickFixRepairs
      <4>2. CASE Uri # {}
        BY <2>3, <4>2, LsKeepsTexts
      <4> QED BY <4>1, <4>2
    <3> QED BY <3>1, <3>2
  <2> QED BY <2>1, <2>2, <2>3 DEF LsNext
<1>3. LsInv' => ShownIsOfTheText' /\ AnswersComeInOrder'
  <2>1. LsInv => ShownIsOfTheText /\ AnswersComeInOrder
    BY LsInvServes
  <2> QED BY <2>1, PTL
<1> QED BY <1>1, <1>2, <1>3, PTL DEF LsSpec, EditorsAreServed
-----------------------------------------------------------------------------
\* The ledger of iterations: reliability_slo.py, with recorders that die.

\* g sums a over each finite part of S that it is asked about, up to k elements.
Some(s) == CHOOSE x \in s : TRUE
SumsUp(g, a, S, k) ==
  \A s \in SUBSET S : Cardinality(s) <= k => g[s] = IF s = {} THEN 0 ELSE a[Some(s)] + g[s \ {Some(s)}]

\* Taking one element out of a finite set leaves one less.
LEMMA LessSome ==
  ASSUME NEW S, IsFiniteSet(S), NEW s \in SUBSET S, s # {}
  PROVE  /\ Some(s) \in s /\ s \ {Some(s)} \in SUBSET S
         /\ IsFiniteSet(s) /\ Cardinality(s) \in Nat
         /\ Cardinality(s \ {Some(s)}) = Cardinality(s) - 1
<1>1. Some(s) \in s
  BY DEF Some
<1>2. IsFiniteSet(s)
  BY FS_Subset, Zenon
<1> QED BY <1>1, <1>2, FS_RemoveElement, FS_CardinalityType, Zenon

\* There is such a function: one step further for each more element.
LEMMA SumsExist ==
  ASSUME NEW S, IsFiniteSet(S), NEW a
  PROVE  \E g : DOMAIN g = SUBSET S /\ g = [s \in SUBSET S |-> g[s]] /\ SumsUp(g, a, S, Cardinality(S))
<1> DEFINE Fcn(g) == DOMAIN g = SUBSET S /\ g = [s \in SUBSET S |-> g[s]]
          Bad == {k \in Nat : ~ \E g : Fcn(g) /\ SumsUp(g, a, S, k)}
<1>1. Cardinality(S) \in Nat
  BY FS_CardinalityType
<1>2. ASSUME Bad # {} PROVE FALSE
  <2>1. PICK k \in Bad : \A n \in Bad : k <= n
    BY <1>2, LeastOfNaturals, Zenon
  <2>2. k # 0
    <3> DEFINE z == [s \in SUBSET S |-> 0]
    <3>1. SumsUp(z, a, S, 0)
      <4>1. ASSUME NEW s \in SUBSET S, Cardinality(s) <= 0 PROVE s = {}
        BY <4>1, FS_Subset, FS_EmptySet, FS_CardinalityType
      <4> QED BY <4>1 DEF SumsUp
    <3>2. Fcn(z)
      OBVIOUS
    <3> QED BY <3>1, <3>2, <2>1
  <2>3. k - 1 \in Nat /\ k - 1 \notin Bad
    <3>1. k \in Nat
      BY <2>1
    <3> HIDE DEF Bad
    <3> QED BY <3>1, <2>1, <2>2
  <2>4. PICK g : Fcn(g) /\ SumsUp(g, a, S, k - 1)
    BY <2>3
  <2> DEFINE h == [s \in SUBSET S |-> IF s = {} THEN 0 ELSE a[Some(s)] + g[s \ {Some(s)}]]
  <2>5. ASSUME NEW s \in SUBSET S, s # {}, Cardinality(s) <= k
        PROVE  h[s] = a[Some(s)] + h[s \ {Some(s)}]
    <3> DEFINE r == s \ {Some(s)}
    <3>1. r \in SUBSET S /\ Cardinality(r) <= k - 1
      BY <2>1, <2>5, LessSome
    <3>2. g[r] = IF r = {} THEN 0 ELSE a[Some(r)] + g[r \ {Some(r)}]
      BY <3>1, <2>4, Zenon DEF SumsUp
    <3>3. g[r] = h[r]
      BY <3>1, <3>2, Zenon
    <3>4. h[s] = a[Some(s)] + g[r]
      BY <2>5, Zenon
    <3> QED BY <3>3, <3>4, Zenon
  <2>6. SumsUp(h, a, S, k)
    BY <2>5 DEF SumsUp
  <2>7. Fcn(h)
    OBVIOUS
  <2> QED BY <2>1, <2>6, <2>7
<1>3. Cardinality(S) \notin Bad
  BY <1>2
<1> QED BY <1>1, <1>3

\* Of what is at most another, and somewhere less, the sum is less.
LEMMA SumsCompare ==
  ASSUME NEW S, IsFiniteSet(S), NEW a, NEW b, NEW g, NEW h,
         SumsUp(g, a, S, Cardinality(S)), SumsUp(h, b, S, Cardinality(S)),
         \A x \in S : a[x] \in Nat /\ b[x] \in Nat /\ a[x] <= b[x]
  PROVE  /\ g[S] \in Nat /\ h[S] \in Nat /\ g[S] <= h[S]
         /\ (\E x \in S : a[x] < b[x]) => g[S] < h[S]
<1> DEFINE Good(s) == /\ g[s] \in Nat /\ h[s] \in Nat /\ g[s] <= h[s]
                      /\ (\E x \in s : a[x] < b[x]) => g[s] < h[s]
           Bad == {k \in Nat : \E s \in SUBSET S : Cardinality(s) = k /\ ~Good(s)}
<1>0. \A s \in SUBSET S : Cardinality(s) \in Nat /\ Cardinality(s) <= Cardinality(S)
  BY FS_Subset, FS_CardinalityType
<1>1. ASSUME NEW s \in SUBSET S
      PROVE  /\ g[s] = IF s = {} THEN 0 ELSE a[Some(s)] + g[s \ {Some(s)}]
             /\ h[s] = IF s = {} THEN 0 ELSE b[Some(s)] + h[s \ {Some(s)}]
  BY <1>0, Zenon DEF SumsUp
<1>2. ASSUME Bad # {} PROVE FALSE
  <2>1. PICK k \in Bad : \A n \in Bad : k <= n
    BY <1>2, LeastOfNaturals, Zenon
  <2>2. PICK s \in SUBSET S : Cardinality(s) = k /\ ~Good(s)
    BY <2>1
  <2>3. s # {}
    BY <1>1, <2>2
  <2> DEFINE r == s \ {Some(s)}
  <2>4. Some(s) \in s /\ r \in SUBSET S /\ Cardinality(r) = k - 1 /\ k - 1 \in Nat
    BY <2>2, <2>3, LessSome, <1>0
  <2>5. Good(r)
    <3>1. k - 1 \notin Bad
      BY <2>1, <2>4
    <3> QED BY <3>1, <2>4
  <2>6. g[s] = a[Some(s)] + g[r] /\ h[s] = b[Some(s)] + h[r]
    BY <1>1, <2>3, Zenon
  <2>7. a[Some(s)] \in Nat /\ b[Some(s)] \in Nat /\ a[Some(s)] <= b[Some(s)]
    BY <2>4
  <2>8. \A x \in s : x = Some(s) \/ x \in r
    OBVIOUS
  <2>9. (\E x \in s : a[x] < b[x]) => a[Some(s)] < b[Some(s)] \/ \E x \in r : a[x] < b[x]
    BY <2>8, Zenon
  <2> HIDE DEF r
  <2> QED BY <2>2, <2>5, <2>6, <2>7, <2>9
<1>3. Good(S)
  <2>1. S \in SUBSET S
    OBVIOUS
  <2>2. Cardinality(S) \notin Bad
    BY <1>2
  <2> QED BY <1>0, <2>1, <2>2, Zenon
<1> QED BY <1>3

\* What the window adds up to: as many good events as valid ones or fewer.
LEMMA Totals ==
  ASSUME NEW H, NEW sli, IsFiniteSet(DOMAIN H),
         \A n \in DOMAIN H : /\ H[n].report[sli] \in Nat \X Nat
                             /\ H[n].report[sli][1] <= H[n].report[sli][2]
  PROVE  /\ Total(H, sli, 1) \in Nat /\ Total(H, sli, 2) \in Nat
         /\ Total(H, sli, 1) <= Total(H, sli, 2)
         /\ (\E n \in Newest(DOMAIN H, Window) : H[n].report[sli][1] < H[n].report[sli][2])
              => Total(H, sli, 1) < Total(H, sli, 2)
<1> DEFINE S == Newest(DOMAIN H, Window)
           A(w) == [n \in S |-> H[n].report[sli][w]]
<1>1. S \subseteq DOMAIN H /\ IsFiniteSet(S)
  BY FS_Subset DEF Newest
<1>2. ASSUME NEW w \in {1, 2}
      PROVE  \E g : SumsUp(g, A(w), S, Cardinality(S)) /\ Total(H, sli, w) = g[S]
  <2> DEFINE Eq(g) == g = [s \in SUBSET S |-> IF s = {} THEN 0
                             ELSE H[CHOOSE x \in s : TRUE].report[sli][w] + g[s \ {CHOOSE x \in s : TRUE}]]
             it == CHOOSE g : Eq(g)
  <2>1. PICK g : g = [s \in SUBSET S |-> g[s]] /\ SumsUp(g, A(w), S, Cardinality(S))
    <3> HIDE DEF A
    <3> QED BY <1>1, SumsExist, Zenon
  <2>2. ASSUME NEW s \in SUBSET S
        PROVE  g[s] = IF s = {} THEN 0
                        ELSE H[CHOOSE x \in s : TRUE].report[sli][w] + g[s \ {CHOOSE x \in s : TRUE}]
    <3>1. Cardinality(s) <= Cardinality(S)
      BY <1>1, FS_Subset
    <3>2. g[s] = IF s = {} THEN 0 ELSE A(w)[Some(s)] + g[s \ {Some(s)}]
      BY <3>1, <2>1, Zenon DEF SumsUp
    <3>3. s # {} => Some(s) \in S
      BY DEF Some
    <3>4. s # {} => A(w)[Some(s)] = H[Some(s)].report[sli][w]
      BY <3>3, Zenon
    <3> QED BY <3>2, <3>4, Zenon DEF Some
  <2>3. Eq(g)
    BY <2>1, <2>2, Zenon
  <2>4. Eq(it)
    <3> HIDE DEF Eq
    <3> QED BY <2>3, Zenon
  <2>5. Total(H, sli, w) = it[S]
    BY Zenon DEF Total, MapThenSumSet, MapThenFoldSet
  <2>6. SumsUp(it, A(w), S, Cardinality(S))
    <3>1. ASSUME NEW s \in SUBSET S
          PROVE  it[s] = IF s = {} THEN 0 ELSE A(w)[Some(s)] + it[s \ {Some(s)}]
      <4>1. it[s] = IF s = {} THEN 0
                      ELSE H[CHOOSE x \in s : TRUE].report[sli][w] + it[s \ {CHOOSE x \in s : TRUE}]
        <5> HIDE DEF it
        <5> QED BY <2>4, Zenon
      <4>3. s # {} => Some(s) \in S
        BY DEF Some
      <4>4. s # {} => A(w)[Some(s)] = H[Some(s)].report[sli][w]
        BY <4>3, Zenon
      <4> HIDE DEF it
      <4> QED BY <4>1, <4>4, Zenon DEF Some
    <3> HIDE DEF it, A
    <3> QED BY <3>1, Zenon DEF SumsUp
  <2> QED BY <2>5, <2>6, Zenon
<1>3. PICK g : SumsUp(g, A(1), S, Cardinality(S)) /\ Total(H, sli, 1) = g[S]
  BY <1>2
<1>4. PICK h : SumsUp(h, A(2), S, Cardinality(S)) /\ Total(H, sli, 2) = h[S]
  BY <1>2
<1>5. \A x \in S : A(1)[x] \in Nat /\ A(2)[x] \in Nat /\ A(1)[x] <= A(2)[x]
  BY <1>1
<1>6. /\ g[S] \in Nat /\ h[S] \in Nat /\ g[S] <= h[S]
      /\ (\E x \in S : A(1)[x] < A(2)[x]) => g[S] < h[S]
  <2> HIDE DEF A, S
  <2> QED BY <1>1, <1>3, <1>4, <1>5, SumsCompare
<1>7. (\E n \in S : H[n].report[sli][1] < H[n].report[sli][2]) => \E x \in S : A(1)[x] < A(2)[x]
  BY Zenon
<1> QED BY <1>3, <1>4, <1>6, <1>7

SloName == Nat \X Nat
SloEntry == [id : Nat, second : Nat, report : Reports]
IsLedger(L) ==
  /\ DOMAIN L \subseteq SloName /\ IsFiniteSet(DOMAIN L)
  /\ \A n \in DOMAIN L : L[n] \in SloEntry \cup {Torn}

NewerThan(names, n) == {m \in names : Before(n, m)}

\* Of names there is an earliest.
LEMMA EarliestName ==
  ASSUME NEW S \in SUBSET SloName, S # {}
  PROVE  \E n \in S : \A m \in S : ~Before(m, n)
<1> DEFINE Firsts == {n[1] : n \in S}
<1>1. PICK a \in Firsts : \A b \in Firsts : a <= b
  <2>1. Firsts \subseteq Nat /\ Firsts # {}
    BY DEF SloName
  <2> HIDE DEF Firsts
  <2> QED BY <2>1, LeastOfNaturals, Zenon
<1> DEFINE Seconds == {n[2] : n \in {m \in S : m[1] = a}}
<1>2. PICK c \in Seconds : \A b \in Seconds : c <= b
  <2>1. Seconds \subseteq Nat /\ Seconds # {}
    BY <1>1 DEF SloName
  <2> HIDE DEF Seconds
  <2> QED BY <2>1, LeastOfNaturals, Zenon
<1>3. PICK n \in S : n[1] = a /\ n[2] = c
  BY <1>2
<1>4. ASSUME NEW m \in S, Before(m, n) PROVE FALSE
  <2>1. m \in SloName /\ n \in SloName
    OBVIOUS
  <2>2. a <= m[1]
    BY <1>1
  <2>3. m[1] = a => c <= m[2]
    BY <1>2
  <2> QED BY <1>3, <1>4, <2>1, <2>2, <2>3 DEF Before, SloName
<1> QED BY <1>4

\* The newest k are k at most.
LEMMA NewestAreFew ==
  ASSUME NEW S \in SUBSET SloName, IsFiniteSet(S), NEW k \in Nat
  PROVE  Cardinality(Newest(S, k)) <= k
<1> DEFINE N == Newest(S, k)
<1>1. N \subseteq S
  BY DEF Newest
<1>2. IsFiniteSet(N) /\ Cardinality(N) \in Nat
  BY <1>1, FS_Subset, FS_CardinalityType
<1>3. CASE N = {}
  BY <1>3, FS_EmptySet
<1>4. CASE N # {}
  <2>1. PICK n \in N : \A m \in N : ~Before(m, n)
    <3> HIDE DEF N
    <3> QED BY <1>1, <1>4, EarliestName
  <2>2. N \ {n} \subseteq NewerThan(S, n)
    <3>1. ASSUME NEW m \in N, m # n PROVE Before(n, m)
      <4>1. m \in SloName /\ n \in SloName
        BY <1>1
      <4> QED BY <2>1, <3>1, <4>1 DEF Before, SloName
    <3> QED BY <1>1, <3>1 DEF NewerThan
  <2>3. IsFiniteSet(NewerThan(S, n)) /\ Cardinality(NewerThan(S, n)) \in Nat
    <3>1. NewerThan(S, n) \in SUBSET S
      BY DEF NewerThan
    <3> QED BY <3>1, FS_Subset, FS_CardinalityType
  <2>4. Cardinality(NewerThan(S, n)) < k
    BY DEF Newest, NewerThan
  <2>5. Cardinality(N \ {n}) <= Cardinality(NewerThan(S, n))
    BY <2>2, <2>3, FS_Subset
  <2>6. Cardinality(N \ {n}) = Cardinality(N) - 1
    BY <1>2, FS_RemoveElement
  <2>7. Cardinality(N) <= k
    <3> HIDE DEF N
    <3> QED BY <1>2, <2>3, <2>4, <2>5, <2>6
  <2> QED BY <2>7
<1> QED BY <1>3, <1>4

\* Of fewer names one is the more among the newest.
LEMMA StaysNewest ==
  ASSUME NEW T, IsFiniteSet(T), NEW S \in SUBSET T, NEW n \in S,
         NEW k \in Nat, Cardinality(NewerThan(T, n)) < k
  PROVE  n \in Newest(S, k)
<1>1. NewerThan(S, n) \in SUBSET NewerThan(T, n) /\ NewerThan(T, n) \in SUBSET T
  BY DEF NewerThan
<1>2. IsFiniteSet(NewerThan(T, n)) /\ IsFiniteSet(NewerThan(S, n))
      /\ Cardinality(NewerThan(S, n)) <= Cardinality(NewerThan(T, n))
  BY <1>1, FS_Subset
<1>3. Cardinality(NewerThan(S, n)) \in Nat /\ Cardinality(NewerThan(T, n)) \in Nat
  BY <1>2, FS_CardinalityType
<1> QED BY <1>2, <1>3 DEF NewerThan, Newest

\* What a reader of the ledger has in hand.
LEMMA HistoryLoaded ==
  ASSUME NEW L, IsLedger(L)
  PROVE  LET H == load_history(L) IN
         /\ DOMAIN H = Newest({n \in DOMAIN L : L[n] # Torn}, Retention)
         /\ DOMAIN H \subseteq SloName /\ IsFiniteSet(DOMAIN H)
         /\ \A n \in DOMAIN H : H[n] = L[n] /\ H[n] \in SloEntry
<1> DEFINE R == {n \in DOMAIN L : L[n] # Torn}
           N == Newest(R, Retention)
<1>1. N \subseteq R /\ R \subseteq DOMAIN L
  BY DEF Newest
<1>2. load_history(L) = [n \in DOMAIN L \ (DOMAIN L \ N) |-> L[n]]
  BY DEF load_history, Without
<1>3. DOMAIN L \ (DOMAIN L \ N) = N
  BY <1>1
<1>4. IsFiniteSet(N)
  BY <1>1, FS_Subset DEF IsLedger
<1>5. \A n \in N : L[n] \in SloEntry
  BY <1>1 DEF IsLedger
<1> DEFINE H == load_history(L)
<1>6. DOMAIN H = N /\ \A n \in N : H[n] = L[n]
  <2> HIDE DEF N
  <2> QED BY <1>2, <1>3
<1>7. N \subseteq SloName
  BY <1>1 DEF IsLedger
<1> QED BY <1>4, <1>5, <1>6, <1>7, Zenon

\* A target of all events is missed by one; what blocks has missed some.
LEMMA Statuses ==
  ASSUME NEW L, IsLedger(L), NEW o \in Objectives
  PROVE  LET H == load_history(L) IN
         /\ (\E n \in Newest(DOMAIN H, Window) : H[n].report[o.sli][1] < H[n].report[o.sli][2])
              => Total(H, o.sli, 1) < Total(H, o.sli, 2)
         /\ o.target = 100 /\ Total(H, o.sli, 1) < Total(H, o.sli, 2) => Status(o, H) = "EXHAUSTED"
         /\ Status(o, H) \in {"EXHAUSTED", "BURNING"} => Total(H, o.sli, 1) < Total(H, o.sli, 2)
<1> DEFINE H == load_history(L)
           sli == o.sli
<1>1. /\ DOMAIN H \subseteq SloName /\ IsFiniteSet(DOMAIN H)
      /\ \A n \in DOMAIN H : H[n] \in SloEntry
  BY HistoryLoaded
<1>2. \A n \in DOMAIN H : H[n].report[sli] \in Nat \X Nat /\ H[n].report[sli][1] <= H[n].report[sli][2]
  BY <1>1, LedgerAssumption DEF SloEntry
<1> HIDE DEF H
<1> DEFINE good == Total(H, sli, 1)
           valid == Total(H, sli, 2)
<1>3. /\ good \in Nat /\ valid \in Nat /\ good <= valid
      /\ (\E n \in Newest(DOMAIN H, Window) : H[n].report[sli][1] < H[n].report[sli][2]) => good < valid
  BY <1>1, <1>2, Totals, Zenon
<1> DEFINE iterations == Cardinality(Newest(DOMAIN H, Window))
<1>4. iterations \in Nat
  <2>1. Newest(DOMAIN H, Window) \in SUBSET DOMAIN H
    BY DEF Newest
  <2> QED BY <1>1, <2>1, FS_Subset, FS_CardinalityType
<1> HIDE DEF good, valid, iterations
<1> DEFINE failing == 100 * (valid - good)
           budget == (100 - o.target) * valid
<1>5. failing \in Nat /\ budget \in Nat /\ (failing > 0 <=> good < valid)
  BY <1>3, LedgerAssumption
<1>6. o.target = 100 => budget = 0 /\ o.least <= 1
  BY <1>3, LedgerAssumption
<1>7. CriticalBurn * iterations * budget \in Nat
  BY <1>4, <1>5, LedgerAssumption
<1>8. failing = 0 => failing * Window = 0
  BY LedgerAssumption
<1> HIDE DEF failing, budget
<1>9. failing * Window > CriticalBurn * iterations * budget => failing > 0
  BY <1>5, <1>7, <1>8
<1> DEFINE burning == failing * Window > CriticalBurn * iterations * budget /\ iterations >= MinIterations
           unspent == iterations = Window /\ failing = 0
<1>10. burning => failing > 0
  BY <1>9
<1> HIDE DEF burning, unspent
<1>11. Status(o, H) =
        CASE valid < o.least -> "INSUFFICIENT_DATA"
          [] valid >= o.least /\ Exhausted(failing, budget) -> "EXHAUSTED"
          [] OTHER -> IF burning THEN "BURNING" ELSE IF unspent THEN "UNSPENT" ELSE "HEALTHY"
  BY Zenon DEF Status, good, valid, iterations, failing, budget, burning, unspent
<1>12. o.least \in Nat
  BY LedgerAssumption
<1>13. o.target = 100 /\ good < valid => Status(o, H) = "EXHAUSTED"
  <2> SUFFICES ASSUME o.target = 100, good < valid PROVE Status(o, H) = "EXHAUSTED"
    OBVIOUS
  <2>1. valid >= o.least /\ ~(valid < o.least) /\ Exhausted(failing, budget)
    BY <1>3, <1>5, <1>6, <1>12 DEF Exhausted
  <2> QED BY <1>11, <2>1
<1>14. Status(o, H) \in {"EXHAUSTED", "BURNING"} => good < valid
  <2> SUFFICES ASSUME Status(o, H) \in {"EXHAUSTED", "BURNING"}, ~(good < valid) PROVE FALSE
    OBVIOUS
  <2>1. ~burning /\ ~Exhausted(failing, budget)
    BY <1>5, <1>10 DEF Exhausted
  <2> QED BY <1>11, <2>1
<1> QED BY <1>3, <1>13, <1>14 DEF H, good, valid

\* What blocks, and what only does.
LEMMA Blocking ==
  ASSUME NEW L
  PROVE  ReleaseBlocked(L) <=>
           \E o \in gating_states : Status(o, load_history(L)) \in {"EXHAUSTED", "BURNING"}
<1> DEFINE statuses == {Status(o, load_history(L)) : o \in gating_states}
<1>1. ReleaseBlocked(L) <=> decide_phase(statuses) = "REACTIVE"
  BY Zenon DEF ReleaseBlocked
<1>2. statuses \cap {"EXHAUSTED", "BURNING"} # {} <=>
        \E o \in gating_states : Status(o, load_history(L)) \in {"EXHAUSTED", "BURNING"}
  OBVIOUS
<1> HIDE DEF statuses
<1>3. decide_phase(statuses) = "REACTIVE" <=> statuses \cap {"EXHAUSTED", "BURNING"} # {}
  BY DEF decide_phase
<1> QED BY <1>1, <1>2, <1>3

\* A breach that is among the newest of the ledger blocks the release.
LEMMA BreachInWindow ==
  ASSUME NEW L, IsLedger(L), NEW n \in DOMAIN L, L[n] \in SloEntry, Breaches(L[n]),
         Cardinality(NewerThan(DOMAIN L, n)) < Window
  PROVE  ReleaseBlocked(L)
<1> DEFINE H == load_history(L)
           R == {m \in DOMAIN L : L[m] # Torn}
<1>1. n \in R /\ R \subseteq DOMAIN L
  BY LedgerAssumption DEF SloEntry
<1>2. DOMAIN H = Newest(R, Retention) /\ (\A m \in DOMAIN H : H[m] = L[m])
  BY HistoryLoaded
<1>3. Cardinality(NewerThan(DOMAIN L, n)) < Retention
  <2>1. NewerThan(DOMAIN L, n) \in SUBSET DOMAIN L
    BY DEF NewerThan
  <2>2. Cardinality(NewerThan(DOMAIN L, n)) \in Nat
    BY <2>1, FS_Subset, FS_CardinalityType DEF IsLedger
  <2> QED BY <2>2, LedgerAssumption
<1>4. n \in DOMAIN H /\ DOMAIN H \subseteq DOMAIN L
  <2>1. n \in Newest(R, Retention)
    BY <1>1, <1>3, StaysNewest, LedgerAssumption DEF IsLedger
  <2> QED BY <1>1, <1>2, <2>1 DEF Newest
<1>5. n \in Newest(DOMAIN H, Window)
  <2> HIDE DEF H
  <2> QED BY <1>4, StaysNewest, LedgerAssumption DEF IsLedger
<1>6. PICK o \in Objectives : o.gating /\ o.target = 100 /\ L[n].report[o.sli][1] < L[n].report[o.sli][2]
  BY DEF Breaches
<1>7. H[n].report[o.sli][1] < H[n].report[o.sli][2]
  BY <1>2, <1>4, <1>6, Zenon
<1>8. Total(H, o.sli, 1) < Total(H, o.sli, 2)
  BY <1>5, <1>7, Statuses, Zenon
<1>9. Status(o, H) = "EXHAUSTED"
  BY <1>6, <1>8, Statuses, Zenon
<1>10. o \in gating_states
  BY <1>6 DEF gating_states
<1> QED BY <1>9, <1>10, Blocking

\* Nothing blocks a release but a gating objective that has lost events.
LEMMA OnlyLossesBlock ==
  ASSUME NEW L, IsLedger(L), ReleaseBlocked(L)
  PROVE  \E o \in gating_states : Total(load_history(L), o.sli, 1) < Total(load_history(L), o.sli, 2)
<1>1. PICK o \in gating_states : Status(o, load_history(L)) \in {"EXHAUSTED", "BURNING"}
  BY Blocking
<1>2. o \in Objectives
  BY DEF gating_states
<1> QED BY <1>1, <1>2, Statuses, Zenon

\* An iteration that two have shared the second of, or newer ones have replaced.
DisplacedIn(B, s) ==
  \/ \E e, f \in B : e # f /\ e.second = s /\ f.second = s
  \/ Cardinality({f \in B : f.second > s}) >= Retention

\* In no set of seconds are there more shards than iterations.
CountIn(N, E) ==
  \A T \in SUBSET Nat : Cardinality({n \in N : n[1] \in T}) <= Cardinality({f \in E : f.second \in T})

\* A file of iterations, each in its place, with all of W that are to be kept.
FileIs(B, L) == \A n \in DOMAIN L : \E f \in B : n = <<f.id, 0>> /\ L[n] = f
FileHas(B, L, W) ==
  \A e \in W : Cardinality({f \in B : f.id > e.id}) < Retention =>
    <<e.id, 0>> \in DOMAIN L /\ L[<<e.id, 0>>] = e

LedgerTyped ==
  /\ sloKind \in {"shards", "file"} /\ sloSecond \in Nat /\ sloDeaths \in Nat /\ sloCrossed \in BOOLEAN
  /\ IsLedger(sloLedger)
  /\ sloBegun \in Seq(SloEntry)
  /\ IsFiniteSet(Begun) /\ Begun \subseteq SloEntry
  /\ \A e \in Begun : e.id <= Len(sloBegun)
  /\ \A e, f \in Begun : e.id = f.id => e = f
  /\ sloWritten \subseteq Begun

\* Where a recorder can be, and what it has read there, for begun and written iterations.
RecordingIn(kind, B, W, d) ==
  /\ kind = "shards" =>
       /\ d.step \in {"idle", "begun", "counted", "open", "filled", "pruning"}
       /\ d.step \in {"counted", "open"} => d.read \in Nat
       /\ d.step = "pruning" => d.read \in SUBSET SloName /\ d.read # {}
  /\ kind = "file" =>
       /\ d.step \in {"idle", "begun", "read", "open"}
       /\ d.step \in {"read", "open"} =>
            IsLedger(d.read) /\ Cardinality(DOMAIN d.read) <= Retention /\ FileIs(B, d.read)
  /\ d.step # "idle" => d.entry \in B
  /\ d.step \in {"begun", "counted", "open", "read"} => d.entry \notin W

RecordersTyped ==
  /\ sloDoing = [p \in Recorder |-> sloDoing[p]]
  /\ \A p \in Recorder : RecordingIn(sloKind, Begun, sloWritten, sloDoing[p])
  /\ \A p, q \in Recorder :
       ~Idle(p) /\ ~Idle(q) /\ sloDoing[p].entry = sloDoing[q].entry => p = q

\* The iterations that have a shard, had one, or never will.
Opened ==
  {e \in Begun : \A p \in Recorder : sloDoing[p].step \in {"begun", "counted"} => sloDoing[p].entry # e}

PendingAreDisplaced ==
  \A p \in Recorder : sloDoing[p].step = "pruning" => \A n \in sloDoing[p].read : DisplacedIn(Begun, n[1])
WrittenAreThere ==
  \A e \in sloWritten : DisplacedIn(Begun, e.second)
                        \/ \E n \in DOMAIN sloLedger : n[1] = e.second /\ sloLedger[n] = e
OpenAreThere ==
  \A p \in Recorder : sloDoing[p].step = "open" =>
    DisplacedIn(Begun, sloDoing[p].entry.second) \/ _shard_name(p) \in DOMAIN sloLedger

\* Who has added a shard and not looked yet for what is too many; what nobody is about to unlink.
Unlisted == {p \in Recorder : sloDoing[p].step \in {"open", "filled"}}
Unpending ==
  {n \in DOMAIN sloLedger : \A p \in Recorder : sloDoing[p].step = "pruning" => n \notin sloDoing[p].read}

ShardsKept ==
  sloKind = "shards" =>
    /\ CountIn(DOMAIN sloLedger, Opened)
    /\ PendingAreDisplaced /\ WrittenAreThere /\ OpenAreThere
    /\ sloDeaths = 0 =>
         IsFiniteSet(Unlisted) /\ Cardinality(Unpending) <= Retention + Cardinality(Unlisted)

FileKept ==
  sloKind = "file" =>
    /\ FileIs(Begun, sloLedger)
    /\ Cardinality(DOMAIN sloLedger) <= Retention
    /\ ~sloCrossed /\ sloDeaths = 0 =>
         /\ (\A p \in Recorder : sloDoing[p].step # "open") => FileHas(Begun, sloLedger, sloWritten)
         /\ \A p \in Recorder : sloDoing[p].step \in {"read", "open"} =>
              FileHas(Begun, sloDoing[p].read, sloWritten \cup {sloDoing[p].entry})

SloAlone == ~sloCrossed => \A p, q \in Recorder : ~Idle(p) /\ ~Idle(q) => p = q

SloInv == LedgerTyped /\ RecordersTyped /\ ShardsKept /\ FileKept /\ SloAlone

\* What has been displaced stays so.
LEMMA DisplacedStays ==
  ASSUME NEW C, IsFiniteSet(C), NEW B \in SUBSET C, NEW s, DisplacedIn(B, s)
  PROVE  DisplacedIn(C, s)
<1> DEFINE b == {f \in B : f.second > s}
           c == {f \in C : f.second > s}
<1>1. b \in SUBSET c /\ c \in SUBSET C
  OBVIOUS
<1>2. IsFiniteSet(c) /\ IsFiniteSet(b) /\ Cardinality(b) <= Cardinality(c)
  BY <1>1, FS_Subset
<1>3. Cardinality(b) \in Nat /\ Cardinality(c) \in Nat
  BY <1>2, FS_CardinalityType
<1>4. CASE Cardinality(b) >= Retention
  <2>1. Cardinality(c) >= Retention
    BY <1>2, <1>3, <1>4, LedgerAssumption
  <2> QED BY <2>1 DEF DisplacedIn
<1>5. CASE \E e, f \in B : e # f /\ e.second = s /\ f.second = s
  BY <1>5 DEF DisplacedIn
<1> QED BY <1>4, <1>5 DEF DisplacedIn

\* The count allows for fewer shards and more iterations.
LEMMA CountLess ==
  ASSUME NEW N, NEW E, CountIn(N, E), IsFiniteSet(N), NEW M \in SUBSET N,
         NEW F, IsFiniteSet(F), E \subseteq F
  PROVE  CountIn(M, F)
<1> SUFFICES ASSUME NEW T \in SUBSET Nat
             PROVE  Cardinality({n \in M : n[1] \in T}) <= Cardinality({f \in F : f.second \in T})
  BY DEF CountIn
<1> DEFINE m == {n \in M : n[1] \in T}
           k == {n \in N : n[1] \in T}
           e == {f \in E : f.second \in T}
           g == {f \in F : f.second \in T}
<1>1. m \in SUBSET k /\ e \in SUBSET g /\ k \in SUBSET N /\ g \in SUBSET F
  OBVIOUS
<1>2. IsFiniteSet(k) /\ IsFiniteSet(g)
  BY <1>1, FS_Subset
<1>3. /\ IsFiniteSet(m) /\ IsFiniteSet(e)
      /\ Cardinality(m) <= Cardinality(k) /\ Cardinality(e) <= Cardinality(g)
  BY <1>1, <1>2, FS_Subset
<1>4. Cardinality(k) <= Cardinality(e)
  BY DEF CountIn
<1>5. /\ Cardinality(m) \in Nat /\ Cardinality(k) \in Nat
      /\ Cardinality(e) \in Nat /\ Cardinality(g) \in Nat
  BY <1>2, <1>3, FS_CardinalityType
<1> HIDE DEF m, k, e, g
<1>6. Cardinality(m) <= Cardinality(g)
  BY <1>3, <1>4, <1>5
<1> QED BY <1>6 DEF m, g

\* Another iteration takes one more shard at most.
LEMMA CountMore ==
  ASSUME NEW N, NEW E, CountIn(N, E), IsFiniteSet(N), IsFiniteSet(E),
         NEW n, NEW e, e \notin E, n[1] = e.second
  PROVE  CountIn(N \cup {n}, E \cup {e})
<1> SUFFICES ASSUME NEW T \in SUBSET Nat
             PROVE  Cardinality({m \in N \cup {n} : m[1] \in T})
                      <= Cardinality({f \in E \cup {e} : f.second \in T})
  BY DEF CountIn
<1> DEFINE k == {m \in N : m[1] \in T}
           g == {f \in E : f.second \in T}
           k2 == {m \in N \cup {n} : m[1] \in T}
           g2 == {f \in E \cup {e} : f.second \in T}
<1>1. Cardinality(k) <= Cardinality(g)
  BY DEF CountIn
<1>2. k \in SUBSET N /\ g \in SUBSET E
  OBVIOUS
<1>3. IsFiniteSet(k) /\ IsFiniteSet(g)
  BY <1>2, FS_Subset
<1>4. Cardinality(k) \in Nat /\ Cardinality(g) \in Nat
  BY <1>3, FS_CardinalityType
<1>5. CASE n[1] \in T
  <2>1. k2 = k \cup {n} /\ g2 = g \cup {e} /\ e \notin g
    BY <1>5
  <2> HIDE DEF k, g, k2, g2
  <2>2. Cardinality(k \cup {n}) <= Cardinality(k) + 1
    <3>1. Cardinality(k \cup {n}) = IF n \in k THEN Cardinality(k) ELSE Cardinality(k) + 1
      BY <1>3, FS_AddElement
    <3> QED BY <1>4, <3>1
  <2>3. Cardinality(g \cup {e}) = Cardinality(g) + 1
    BY <1>3, <2>1, FS_AddElement
  <2>4. Cardinality(k \cup {n}) \in Nat
    BY <1>3, FS_AddElement, FS_CardinalityType
  <2>5. Cardinality(k2) <= Cardinality(g2)
    BY <1>1, <1>4, <2>1, <2>2, <2>3, <2>4
  <2> QED BY <2>5 DEF k2, g2
<1>6. CASE n[1] \notin T
  <2>1. k2 = k /\ g2 = g
    BY <1>6
  <2> QED BY <1>1, <2>1
<1> QED BY <1>5, <1>6

\* Shards newer than the only one of its second stand for newer iterations.
LEMMA CountNewer ==
  ASSUME NEW N \in SUBSET SloName, NEW B \in SUBSET SloEntry, CountIn(N, B),
         IsFiniteSet(N), IsFiniteSet(B), NEW n \in N,
         \A e, f \in B : e.second = n[1] /\ f.second = n[1] => e = f
  PROVE  /\ Cardinality(NewerThan(N, n)) <= Cardinality({f \in B : f.second > n[1]})
         /\ Cardinality(NewerThan(N, n)) \in Nat
         /\ Cardinality({f \in B : f.second > n[1]}) \in Nat
<1> DEFINE s == n[1]
           same == {m \in N : m[1] \in {s}}
           sameB == {f \in B : f.second \in {s}}
           later == {t \in Nat : t > s}
           more == {m \in N : m[1] \in later}
           moreB == {f \in B : f.second \in later}
<1>0. s \in Nat /\ n \in SloName
  BY DEF SloName
<1>1. \A m \in N : m \in SloName
  OBVIOUS
<1>2. moreB = {f \in B : f.second > s}
  BY DEF SloEntry
<1>3. /\ IsFiniteSet(same) /\ IsFiniteSet(sameB) /\ IsFiniteSet(more) /\ IsFiniteSet(moreB)
      /\ Cardinality(same) \in Nat /\ Cardinality(sameB) \in Nat
      /\ Cardinality(more) \in Nat /\ Cardinality(moreB) \in Nat
  <2>1. same \in SUBSET N /\ more \in SUBSET N /\ sameB \in SUBSET B /\ moreB \in SUBSET B
    OBVIOUS
  <2> HIDE DEF same, more, sameB, moreB
  <2>2. IsFiniteSet(same) /\ IsFiniteSet(sameB) /\ IsFiniteSet(more) /\ IsFiniteSet(moreB)
    BY <2>1, FS_Subset
  <2> QED BY <2>2, FS_CardinalityType
<1>4. Cardinality(same) <= Cardinality(sameB) /\ Cardinality(more) <= Cardinality(moreB)
  <2>1. {s} \in SUBSET Nat /\ later \in SUBSET Nat
    BY <1>0
  <2> HIDE DEF later, s
  <2> QED BY <2>1, Zenon DEF CountIn
<1>5. Cardinality(sameB) <= 1
  <2>1. CASE sameB = {}
    BY <2>1, FS_EmptySet
  <2>2. CASE sameB # {}
    <3>1. PICK f \in sameB : TRUE
      BY <2>2
    <3>2. sameB = {f}
      BY <3>1
    <3> QED BY <3>2, FS_Singleton
  <2> QED BY <2>1, <2>2
<1>6. ASSUME NEW m \in same, m # n PROVE FALSE
  <2>1. {n, m} \in SUBSET same
    BY <1>6
  <2>2. {n, m} = {n} \cup {m} /\ m \notin {n}
    BY <1>6
  <2> HIDE DEF same
  <2>3. Cardinality({n, m}) = 2
    <3>1. IsFiniteSet({n}) /\ Cardinality({n}) = 1
      BY FS_Singleton
    <3>2. Cardinality({n} \cup {m}) = 1 + 1
      BY <2>2, <3>1, FS_AddElement
    <3> QED BY <2>2, <3>2
  <2>4. Cardinality({n, m}) <= Cardinality(same)
    BY <1>3, <2>1, FS_Subset
  <2> HIDE DEF sameB, more, moreB
  <2> QED BY <1>3, <1>4, <1>5, <2>3, <2>4
<1>7. NewerThan(N, n) \in SUBSET more
  <2> SUFFICES ASSUME NEW m \in N, Before(n, m) PROVE m[1] \in later
    BY DEF NewerThan
  <2>1. m[1] \in Nat /\ m[2] \in Nat /\ n[2] \in Nat
    BY <1>0, <1>1 DEF SloName
  <2>2. m # n
    BY <1>0, <2>1 DEF Before
  <2>3. m[1] # s
    BY <1>6, <2>2
  <2> QED BY <1>0, <2>1, <2>3 DEF Before
<1>8. IsFiniteSet(NewerThan(N, n)) /\ Cardinality(NewerThan(N, n)) <= Cardinality(more)
  BY <1>3, <1>7, FS_Subset
<1>9. Cardinality(NewerThan(N, n)) \in Nat
  BY <1>8, FS_CardinalityType
<1> HIDE DEF more, moreB
<1>10. Cardinality(NewerThan(N, n)) <= Cardinality(moreB)
  BY <1>3, <1>4, <1>8, <1>9
<1> QED BY <1>2, <1>3, <1>9, <1>10

\* What a recorder finds to be too old is.
LEMMA StaleIsDisplaced ==
  ASSUME NEW N \in SUBSET SloName, NEW B \in SUBSET SloEntry, CountIn(N, B),
         IsFiniteSet(N), IsFiniteSet(B), NEW n \in Stale(N)
  PROVE  DisplacedIn(B, n[1])
<1>1. CASE \A e, f \in B : e.second = n[1] /\ f.second = n[1] => e = f
  <2>1. n \in N /\ ~(Cardinality(NewerThan(N, n)) < Retention)
    BY DEF Stale, Newest, NewerThan
  <2>2. /\ Cardinality(NewerThan(N, n)) <= Cardinality({f \in B : f.second > n[1]})
        /\ Cardinality(NewerThan(N, n)) \in Nat
        /\ Cardinality({f \in B : f.second > n[1]}) \in Nat
    BY <1>1, <2>1, CountNewer
  <2>3. Cardinality({f \in B : f.second > n[1]}) >= Retention
    BY <2>1, <2>2, LedgerAssumption
  <2> QED BY <2>3 DEF DisplacedIn
<1> QED BY <1>1, Zenon DEF DisplacedIn

\* Places of a file that are later stand for later iterations.
LEMMA FileNewer ==
  ASSUME NEW B \in SUBSET SloEntry, IsFiniteSet(B), NEW L, FileIs(B, L), NEW e \in B,
         \A d, f \in B : d.id = f.id => d = f
  PROVE  LET newer == NewerThan(DOMAIN L, <<e.id, 0>>)
             later == {f \in B : f.id > e.id}
         IN  Cardinality(newer) <= Cardinality(later) /\ Cardinality(newer) \in Nat /\ Cardinality(later) \in Nat
<1> DEFINE newer == NewerThan(DOMAIN L, <<e.id, 0>>)
           later == {f \in B : f.id > e.id}
           g == [m \in newer |-> CHOOSE f \in later : m = <<f.id, 0>>]
<1>1. ASSUME NEW m \in newer PROVE \E f \in later : m = <<f.id, 0>>
  <2>1. m \in DOMAIN L /\ Before(<<e.id, 0>>, m)
    BY DEF NewerThan
  <2>2. PICK f \in B : m = <<f.id, 0>>
    BY <2>1 DEF FileIs
  <2>3. f.id > e.id
    BY <2>1, <2>2 DEF Before, SloEntry
  <2> QED BY <2>2, <2>3
<1>2. \A m \in newer : g[m] \in later /\ m = <<g[m].id, 0>>
  BY <1>1
<1>3. g \in Injection(newer, later)
  <2> HIDE DEF newer, later
  <2>1. g \in [newer -> later]
    BY <1>2
  <2>2. \A a, b \in newer : g[a] = g[b] => a = b
    <3> HIDE DEF g
    <3> QED BY <1>2, Zenon
  <2> HIDE DEF g
  <2> QED BY <2>1, <2>2 DEF Injection, IsInjective
<1>4. IsFiniteSet(later) /\ Cardinality(later) \in Nat
  <2>1. later \in SUBSET B
    OBVIOUS
  <2> QED BY <2>1, FS_Subset, FS_CardinalityType
<1>5. IsFiniteSet(newer) /\ Cardinality(newer) <= Cardinality(later)
  <2> HIDE DEF newer, later, g
  <2> QED BY <1>3, <1>4, FS_Injection
<1> QED BY <1>4, <1>5, FS_CardinalityType

\* One recorder has moved; the others are where they were.
Moved(p, d) ==
  /\ p \in Recorder /\ sloDoing'[p] = d
  /\ \A q \in Recorder \ {p} : sloDoing'[q] = sloDoing[q]

\* In the same or in more iterations the file is as good.
LEMMA FileLonger ==
  ASSUME NEW C, IsFiniteSet(C), NEW B \in SUBSET C, NEW L
  PROVE  /\ FileIs(B, L) => FileIs(C, L)
         /\ \A W : FileHas(B, L, W) => FileHas(C, L, W)
<1>1. FileIs(B, L) => FileIs(C, L)
  BY DEF FileIs
<1>2. ASSUME NEW W, FileHas(B, L, W), NEW e \in W, Cardinality({f \in C : f.id > e.id}) < Retention
      PROVE  <<e.id, 0>> \in DOMAIN L /\ L[<<e.id, 0>>] = e
  <2> DEFINE b == {f \in B : f.id > e.id}
             c == {f \in C : f.id > e.id}
  <2>1. b \in SUBSET c /\ c \in SUBSET C
    OBVIOUS
  <2>2. IsFiniteSet(c) /\ IsFiniteSet(b) /\ Cardinality(b) <= Cardinality(c)
    BY <2>1, FS_Subset
  <2>3. Cardinality(b) \in Nat /\ Cardinality(c) \in Nat
    BY <2>2, FS_CardinalityType
  <2>4. Cardinality(b) < Retention
    BY <1>2, <2>2, <2>3, LedgerAssumption
  <2> QED BY <1>2, <2>4, Zenon DEF FileHas
<1> QED BY <1>1, <1>2, Zenon DEF FileHas

\* A recorder goes on with its iteration, or begins one that is new.
RecorderStep(p, d) ==
  /\ sloDoing' = [sloDoing EXCEPT ![p] = d] /\ sloKind' = sloKind
  /\ Begun \subseteq Begun' /\ IsFiniteSet(Begun')
  /\ sloWritten' = sloWritten \/ (~Idle(p) /\ sloWritten' = sloWritten \cup {sloDoing[p].entry})
  /\ RecordingIn(sloKind, Begun', sloWritten', d)
  /\ d.step # "idle" => d.entry \notin Begun \/ (~Idle(p) /\ d.entry = sloDoing[p].entry)

\* The recorders stay as they are typed.
LEMMA RecorderMoves ==
  ASSUME LedgerTyped, RecordersTyped, NEW p \in Recorder, NEW d, RecorderStep(p, d)
  PROVE  RecordersTyped' /\ Moved(p, d)
<1> USE DEF RecorderStep
<1>1. Moved(p, d) /\ sloDoing' = [q \in Recorder |-> sloDoing'[q]]
  BY DEF Moved, RecordersTyped
<1>2. ASSUME NEW q \in Recorder \ {p}
      PROVE  RecordingIn(sloKind', Begun', sloWritten', sloDoing'[q])
  <2> DEFINE c == sloDoing[q]
  <2>1. sloDoing'[q] = c
    BY <1>1 DEF Moved
  <2>2. RecordingIn(sloKind, Begun, sloWritten, c)
    BY DEF RecordersTyped
  <2>3. c.step \in {"begun", "counted", "open", "read"} => c.entry \notin sloWritten'
    <3> SUFFICES ASSUME c.step \in {"begun", "counted", "open", "read"}, c.entry \in sloWritten' PROVE FALSE
      OBVIOUS
    <3>1. c.entry \notin sloWritten /\ ~Idle(q)
      BY <2>2 DEF RecordingIn, Idle
    <3>2. ~Idle(p) /\ c.entry = sloDoing[p].entry
      BY <3>1
    <3> QED BY <3>1, <3>2, Zenon DEF RecordersTyped
  <2>4. FileIs(Begun, c.read) => FileIs(Begun', c.read)
    BY FileLonger, Zenon
  <2> HIDE DEF c
  <2> QED BY <2>1, <2>2, <2>3, <2>4 DEF RecordingIn
<1>3. ASSUME NEW q \in Recorder, NEW r \in Recorder, sloDoing'[q].step # "idle", sloDoing'[r].step # "idle",
             sloDoing'[q].entry = sloDoing'[r].entry
      PROVE  q = r
  <2>1. \A s \in Recorder \ {p} : sloDoing'[s].step # "idle" => sloDoing[s].entry \in Begun /\ ~Idle(s)
    BY <1>1 DEF Moved, RecordersTyped, RecordingIn, Idle
  <2>2. \A s \in Recorder \ {p} : sloDoing'[s] = sloDoing[s]
    BY <1>1 DEF Moved
  <2>3. \A s \in Recorder \ {p} : d.step # "idle" /\ ~Idle(s) /\ sloDoing[s].entry \in Begun => d.entry # sloDoing[s].entry
    BY Zenon DEF RecordersTyped
  <2>4. sloDoing'[p] = d
    BY <1>1 DEF Moved
  <2>5. CASE q = p /\ r # p
    BY <1>3, <2>1, <2>2, <2>3, <2>4, <2>5
  <2>6. CASE q # p /\ r = p
    BY <1>3, <2>1, <2>2, <2>3, <2>4, <2>6
  <2>7. CASE q # p /\ r # p
    BY <1>3, <2>1, <2>2, <2>7, Zenon DEF RecordersTyped
  <2> QED BY <2>5, <2>6, <2>7
<1>4. RecordingIn(sloKind', Begun', sloWritten', sloDoing'[p])
  BY <1>1 DEF Moved
<1>5. RecordersTyped'
  BY <1>1, <1>2, <1>3, <1>4, Zenon DEF RecordersTyped, Idle
<1> QED BY <1>1, <1>5

\* A step of one who begins, counts, or dies.
LedgerRests(p, d) ==
  /\ sloKind' = sloKind /\ sloLedger' = sloLedger /\ sloWritten' = sloWritten
  /\ Begun \subseteq Begun' /\ IsFiniteSet(Begun')
  /\ d.step \in {"idle", "begun", "counted"}
  /\ d.step # "idle" => d.entry \notin Begun \/ (sloDoing[p].step = "begun" /\ d.entry = sloDoing[p].entry)
  /\ sloDeaths' = 0 => sloDeaths = 0 /\ sloDoing[p].step \in {"idle", "begun"}
  /\ sloCrossed' \in BOOLEAN /\ (~sloCrossed' => ~sloCrossed)

\* Nothing is done to the shards by one who begins, counts, or dies.
LEMMA ShardsRest ==
  ASSUME LedgerTyped, RecordersTyped, ShardsKept, NEW p, NEW d, Moved(p, d),
         LedgerRests(p, d)
  PROVE  ShardsKept'
<1> USE DEF LedgerRests
<1> SUFFICES ASSUME sloKind = "shards" PROVE ShardsKept'
  BY DEF ShardsKept
<1> USE DEF Moved
<1>1. CountIn(DOMAIN sloLedger', Opened')
  <2>1. Opened \subseteq Opened'
    BY DEF Opened
  <2>2. IsFiniteSet(Opened')
    <3>1. Opened' \in SUBSET Begun'
      BY DEF Opened
    <3> QED BY <3>1, FS_Subset
  <2> QED BY <2>1, <2>2, CountLess DEF ShardsKept, LedgerTyped, IsLedger
<1>2. \A s : DisplacedIn(Begun, s) => DisplacedIn(Begun', s)
  BY DisplacedStays, Zenon
<1>3. PendingAreDisplaced'
  BY <1>2 DEF ShardsKept, PendingAreDisplaced
<1>4. WrittenAreThere'
  BY <1>2 DEF ShardsKept, WrittenAreThere
<1>5. OpenAreThere'
  BY <1>2 DEF ShardsKept, OpenAreThere, _shard_name
<1>6. sloDeaths' = 0 => IsFiniteSet(Unlisted') /\ Cardinality(Unpending') <= Retention + Cardinality(Unlisted')
  <2> SUFFICES ASSUME sloDeaths' = 0
               PROVE  IsFiniteSet(Unlisted') /\ Cardinality(Unpending') <= Retention + Cardinality(Unlisted')
    OBVIOUS
  <2>1. Unlisted' = Unlisted
    BY DEF Unlisted
  <2>2. Unpending' = Unpending
    BY DEF Unpending
  <2> QED BY <2>1, <2>2 DEF ShardsKept
<1> QED BY <1>1, <1>3, <1>4, <1>5, <1>6 DEF ShardsKept

\* Nor to the file.
LEMMA FileRests ==
  ASSUME LedgerTyped, RecordersTyped, FileKept, NEW p, NEW d, Moved(p, d),
         LedgerRests(p, d)
  PROVE  FileKept'
<1> USE DEF LedgerRests
<1> SUFFICES ASSUME sloKind = "file" PROVE FileKept'
  BY DEF FileKept
<1> USE DEF Moved
<1>1. FileIs(Begun', sloLedger')
  BY FileLonger, Zenon DEF FileKept
<1>2. \A L, W : FileHas(Begun, L, W) => FileHas(Begun', L, W)
  BY FileLonger, Zenon
<1>3. ASSUME ~sloCrossed', sloDeaths' = 0
      PROVE  /\ (\A q \in Recorder : sloDoing'[q].step # "open") => FileHas(Begun', sloLedger', sloWritten')
             /\ \A q \in Recorder : sloDoing'[q].step \in {"read", "open"} =>
                  FileHas(Begun', sloDoing'[q].read, sloWritten' \cup {sloDoing'[q].entry})
  <2>1. (\A q \in Recorder : sloDoing'[q].step # "open") => \A q \in Recorder : sloDoing[q].step # "open"
    BY <1>3
  <2>2. ASSUME NEW q \in Recorder, sloDoing'[q].step \in {"read", "open"}
        PROVE  sloDoing'[q] = sloDoing[q]
    BY <2>2
  <2> QED BY <1>2, <1>3, <2>1, <2>2 DEF FileKept
<1> QED BY <1>1, <1>3 DEF FileKept

\* A new iteration has the next number.
LEMMA BeginKeeps ==
  ASSUME SloInv, NEW p \in Recorder, record_iteration(p)
  PROVE  SloInv'
<1> USE DEF SloInv
<1>1. PICK r \in Reports :
        /\ sloBegun' = Append(sloBegun, [id |-> Len(sloBegun) + 1, second |-> sloSecond, report |-> r])
        /\ sloDoing' = [sloDoing EXCEPT ![p] =
             [step |-> "begun", entry |-> [id |-> Len(sloBegun) + 1, second |-> sloSecond, report |-> r]]]
  BY DEF record_iteration
<1> DEFINE e == [id |-> Len(sloBegun) + 1, second |-> sloSecond, report |-> r]
           d == [step |-> "begun", entry |-> e]
<1>2. /\ sloKind' = sloKind /\ sloLedger' = sloLedger /\ sloSecond' = sloSecond
      /\ sloWritten' = sloWritten /\ sloDeaths' = sloDeaths /\ Idle(p)
      /\ sloCrossed' = (sloCrossed \/ \E q \in Recorder : ~Idle(q))
  BY DEF record_iteration
<1>3. e \in SloEntry /\ e.id = Len(sloBegun) + 1 /\ Len(sloBegun) \in Nat
  BY DEF LedgerTyped, SloEntry
<1>4. e \notin Begun /\ Begun' = Begun \cup {e}
  <2>1. e \notin Begun
    BY <1>3 DEF LedgerTyped
  <2>2. sloBegun' \in Seq(SloEntry) /\ Len(sloBegun') = Len(sloBegun) + 1
        /\ \A i \in 1..Len(sloBegun') : sloBegun'[i] = IF i <= Len(sloBegun) THEN sloBegun[i] ELSE e
    <3> HIDE DEF e
    <3> QED BY <1>1, <1>3 DEF LedgerTyped, e
  <2>3. DOMAIN sloBegun = 1..Len(sloBegun) /\ DOMAIN sloBegun' = 1..(Len(sloBegun) + 1)
    BY <2>2 DEF LedgerTyped
  <2>4. Begun' \subseteq Begun \cup {e}
    <3> HIDE DEF e
    <3> QED BY <2>2, <2>3, <1>3 DEF Begun
  <2>5. \A i \in DOMAIN sloBegun : sloBegun[i] \in Begun'
    <3> HIDE DEF e
    <3> QED BY <2>2, <2>3, <1>3 DEF Begun
  <2>6. e \in Begun'
    <3>1. Len(sloBegun) + 1 \in DOMAIN sloBegun' /\ sloBegun'[Len(sloBegun) + 1] = e
      <4> HIDE DEF e
      <4> QED BY <2>2, <2>3, <1>3
    <3> HIDE DEF e
    <3> QED BY <3>1, Zenon DEF Begun
  <2>7. Begun \subseteq Begun'
    BY <2>5, Zenon DEF Begun
  <2> QED BY <2>1, <2>4, <2>6, <2>7
<1>5. sloBegun' \in Seq(SloEntry) /\ Len(sloBegun') = Len(sloBegun) + 1
  <2> HIDE DEF e
  <2> QED BY <1>1, <1>3 DEF LedgerTyped, e
<1>6. IsFiniteSet(Begun') /\ Begun \subseteq Begun'
  BY <1>4, FS_AddElement DEF LedgerTyped
<1> HIDE DEF e
<1>7. LedgerTyped'
  <2>1. \A f \in Begun' : f.id <= Len(sloBegun')
    BY <1>3, <1>4, <1>5 DEF LedgerTyped, SloEntry
  <2>2. \A f, g \in Begun' : f.id = g.id => f = g
    BY <1>3, <1>4 DEF LedgerTyped, SloEntry
  <2>3. sloCrossed' \in BOOLEAN
    BY <1>2 DEF LedgerTyped
  <2>4. Begun' \subseteq SloEntry /\ sloWritten' \subseteq Begun'
    BY <1>2, <1>3, <1>4 DEF LedgerTyped
  <2> QED BY <1>2, <1>5, <1>6, <2>1, <2>2, <2>3, <2>4 DEF LedgerTyped, IsLedger
<1>8. RecordingIn(sloKind, Begun', sloWritten', d)
  BY <1>2, <1>4 DEF RecordingIn, LedgerTyped
<1>9. sloDoing' = [sloDoing EXCEPT ![p] = d] /\ d.step = "begun" /\ d.entry \notin Begun
  BY <1>1, <1>4 DEF e
<1> HIDE DEF d
<1>10. RecordersTyped' /\ Moved(p, d)
  <2>1. RecorderStep(p, d)
    BY <1>2, <1>6, <1>8, <1>9 DEF RecorderStep
  <2> QED BY <2>1, RecorderMoves, Zenon
<1>11. LedgerRests(p, d)
  BY <1>2, <1>6, <1>9 DEF Idle, LedgerTyped, LedgerRests
<1>12. ShardsKept' /\ FileKept'
  BY <1>10, <1>11, ShardsRest, FileRests, Zenon
<1>13. SloAlone'
  BY <1>2, <1>10 DEF SloAlone, Moved, Idle, LedgerTyped
<1> QED BY <1>7, <1>10, <1>12, <1>13

\* Who does not change the clock nor begin leaves all else as it is typed.
SloGoesOn(p) ==
  /\ sloKind' = sloKind /\ sloSecond' = sloSecond /\ sloBegun' = sloBegun /\ sloCrossed' = sloCrossed
  /\ ~Idle(p)

\* So the iterations begun are the same.
LEMMA GoingOn ==
  ASSUME LedgerTyped, NEW p \in Recorder, SloGoesOn(p)
  PROVE  Begun' = Begun /\ IsFiniteSet(Begun) /\ Begun \subseteq Begun'
BY DEF SloGoesOn, Begun, LedgerTyped

\* Nobody else has begun.
LEMMA AloneKept ==
  ASSUME SloAlone, NEW p \in Recorder, SloGoesOn(p), NEW d, Moved(p, d)
  PROVE  SloAlone'
BY DEF SloAlone, Moved, SloGoesOn, Idle

\* An iteration that is written had begun.
LEMMA TypedKept ==
  ASSUME LedgerTyped, RecordersTyped, NEW p \in Recorder, SloGoesOn(p), IsLedger(sloLedger'), sloDeaths' \in Nat,
         sloWritten' = sloWritten \/ sloWritten' = sloWritten \cup {sloDoing[p].entry}
  PROVE  LedgerTyped'
<1>1. sloDoing[p].entry \in Begun
  BY DEF RecordersTyped, RecordingIn, SloGoesOn, Idle
<1>2. sloWritten' \subseteq Begun
  BY <1>1 DEF LedgerTyped
<1>3. Begun' = Begun
  BY GoingOn
<1> QED BY <1>2, <1>3 DEF LedgerTyped, SloGoesOn, IsLedger

\* The shards are counted.
LEMMA CountKeeps ==
  ASSUME SloInv, NEW p \in Recorder, CountShards(p)
  PROVE  SloInv'
<1> USE DEF SloInv
<1> DEFINE c == Cardinality(DOMAIN sloLedger)
           d == [step |-> "counted", entry |-> sloDoing[p].entry, read |-> c]
<1>1. /\ sloKind = "shards" /\ sloDoing[p].step = "begun"
      /\ sloLedger' = sloLedger /\ sloWritten' = sloWritten /\ sloDeaths' = sloDeaths
      /\ sloDoing' = [sloDoing EXCEPT ![p] = d]
  BY DEF CountShards, At, Go
<1>2. SloGoesOn(p)
  BY <1>1 DEF CountShards, SloGoesOn, Idle
<1>3. c \in Nat
  BY FS_CardinalityType DEF LedgerTyped, IsLedger
<1> HIDE DEF c
<1>4. RecordingIn(sloKind, Begun, sloWritten, d)
  BY <1>1, <1>3 DEF RecordersTyped, RecordingIn
<1>5. d.step = "counted" /\ d.entry = sloDoing[p].entry
  OBVIOUS
<1> HIDE DEF d
<1>6. Begun' = Begun /\ IsFiniteSet(Begun) /\ Begun \subseteq Begun'
  BY <1>2, GoingOn
<1>7. RecordersTyped' /\ Moved(p, d)
  <2>1. RecorderStep(p, d)
    BY <1>1, <1>2, <1>4, <1>5, <1>6 DEF RecorderStep, SloGoesOn
  <2> QED BY <2>1, RecorderMoves, Zenon
<1>8. LedgerTyped'
  BY <1>1, <1>2, TypedKept DEF LedgerTyped
<1>9. ShardsKept'
  <2>1. LedgerRests(p, d)
    BY <1>1, <1>2, <1>5, <1>6 DEF LedgerRests, SloGoesOn, LedgerTyped
  <2> QED BY <2>1, <1>7, ShardsRest, Zenon
<1>10. FileKept'
  BY <1>1, <1>2 DEF FileKept, SloGoesOn
<1>11. SloAlone'
  BY <1>2, <1>7, AloneKept
<1> QED BY <1>7, <1>8, <1>9, <1>10, <1>11

\* One dies, and leaves the ledger as it is.
LEMMA DeathKeeps ==
  ASSUME SloInv, NEW p \in Recorder, RecorderDies(p)
  PROVE  SloInv'
<1> USE DEF SloInv
<1> DEFINE d == [step |-> "idle"]
<1>1. /\ sloLedger' = sloLedger /\ sloWritten' = sloWritten /\ sloDeaths' = sloDeaths + 1
      /\ sloDoing' = [sloDoing EXCEPT ![p] = d]
  BY DEF RecorderDies
<1>2. SloGoesOn(p)
  BY DEF RecorderDies, SloGoesOn
<1>3. sloDeaths' \in Nat /\ sloDeaths' # 0
  BY <1>1 DEF LedgerTyped
<1>4. RecordingIn(sloKind, Begun, sloWritten, d) /\ d.step = "idle"
  BY DEF LedgerTyped, RecordingIn
<1> HIDE DEF d
<1>6. Begun' = Begun /\ IsFiniteSet(Begun) /\ Begun \subseteq Begun'
  BY <1>2, GoingOn
<1>7. RecordersTyped' /\ Moved(p, d)
  <2>1. RecorderStep(p, d)
    BY <1>1, <1>2, <1>4, <1>6 DEF RecorderStep, SloGoesOn
  <2> QED BY <2>1, RecorderMoves, Zenon
<1>8. LedgerTyped'
  BY <1>1, <1>2, <1>3, TypedKept DEF LedgerTyped
<1>9. LedgerRests(p, d)
  BY <1>1, <1>2, <1>3, <1>4, <1>6 DEF LedgerRests, SloGoesOn, LedgerTyped
<1>10. ShardsKept' /\ FileKept'
  BY <1>7, <1>9, ShardsRest, FileRests, Zenon
<1>11. SloAlone'
  BY <1>2, <1>7, AloneKept
<1> QED BY <1>7, <1>8, <1>9, <1>10, <1>11

\* The clock goes on.
LEMMA SecondKeeps == SloInv /\ NextSecond => SloInv'
<1> SUFFICES ASSUME SloInv, NextSecond PROVE SloInv'
  OBVIOUS
<1>1. /\ sloKind' = sloKind /\ sloLedger' = sloLedger /\ sloDoing' = sloDoing /\ sloBegun' = sloBegun
      /\ sloWritten' = sloWritten /\ sloDeaths' = sloDeaths /\ sloCrossed' = sloCrossed
      /\ sloSecond' = sloSecond + 1
  BY DEF NextSecond
<1>2. Begun' = Begun /\ Opened' = Opened /\ Unlisted' = Unlisted /\ Unpending' = Unpending
  BY <1>1 DEF Begun, Opened, Unlisted, Unpending
<1>3. LedgerTyped'
  BY <1>1, <1>2 DEF SloInv, LedgerTyped
<1>4. RecordersTyped'
  BY <1>1, <1>2 DEF SloInv, RecordersTyped, Idle
<1>5. ShardsKept'
  BY <1>1, <1>2 DEF SloInv, ShardsKept, PendingAreDisplaced, WrittenAreThere, OpenAreThere, _shard_name
<1>6. FileKept'
  BY <1>1, <1>2 DEF SloInv, FileKept
<1>7. SloAlone'
  BY <1>1 DEF SloInv, SloAlone, Idle
<1> QED BY <1>3, <1>4, <1>5, <1>6, <1>7 DEF SloInv

\* What else has to be shown of a step with the shards.
LEMMA ShardStep ==
  ASSUME SloInv, NEW p \in Recorder, SloGoesOn(p), NEW d, RecorderStep(p, d), sloKind = "shards",
         IsLedger(sloLedger'), sloDeaths' = sloDeaths, ShardsKept'
  PROVE  SloInv'
<1>1. RecordersTyped' /\ Moved(p, d)
  BY RecorderMoves, Zenon DEF SloInv
<1>2. LedgerTyped'
  <2>1. sloWritten' = sloWritten \/ sloWritten' = sloWritten \cup {sloDoing[p].entry}
    BY DEF RecorderStep
  <2>2. LedgerTyped /\ RecordersTyped /\ sloDeaths' \in Nat
    BY DEF SloInv, LedgerTyped
  <2> QED BY <2>1, <2>2, TypedKept, Zenon
<1>3. FileKept'
  BY DEF FileKept, SloGoesOn
<1>4. SloAlone'
  BY <1>1, AloneKept, Zenon DEF SloInv
<1> QED BY <1>1, <1>2, <1>3, <1>4 DEF SloInv

\* In a second that two iterations share nothing is promised.
LEMMA Shared ==
  ASSUME NEW e \in Begun, NEW f \in Begun, e # f, e.second = f.second
  PROVE  DisplacedIn(Begun, e.second)
BY DEF DisplacedIn

\* All that is counted is finite.
LEMMA OpenedFinite ==
  ASSUME LedgerTyped
  PROVE  Opened \in SUBSET Begun /\ IsFiniteSet(Opened) /\ IsFiniteSet(Begun) /\ Unpending \in SUBSET DOMAIN sloLedger
         /\ IsFiniteSet(Unpending) /\ Cardinality(Unpending) \in Nat
<1>1. Opened \in SUBSET Begun /\ Unpending \in SUBSET DOMAIN sloLedger
  BY DEF Opened, Unpending
<1>2. IsFiniteSet(Opened) /\ IsFiniteSet(Unpending)
  BY <1>1, FS_Subset DEF LedgerTyped, IsLedger
<1> QED BY <1>1, <1>2, FS_CardinalityType DEF LedgerTyped

\* A shard is made and is empty.
LEMMA OpenKeeps ==
  ASSUME SloInv, NEW p \in Recorder, OpenShard(p)
  PROVE  SloInv'
<1> USE DEF SloInv
<1> DEFINE e == sloDoing[p].entry
           c == sloDoing[p].read
           n == <<e.second, c>>
           d == [step |-> "open", entry |-> e, read |-> c]
<1>1. /\ sloKind = "shards" /\ sloDoing[p].step = "counted"
      /\ sloLedger' = With(sloLedger, n, Torn) /\ sloWritten' = sloWritten /\ sloDeaths' = sloDeaths
      /\ sloDoing' = [sloDoing EXCEPT ![p] = d]
  BY DEF OpenShard, At, Go, _shard_name
<1>2. SloGoesOn(p)
  BY <1>1 DEF OpenShard, SloGoesOn, Idle
<1>3. c \in Nat /\ e \in Begun /\ e \in SloEntry /\ e \notin sloWritten
  BY <1>1 DEF RecordersTyped, RecordingIn, LedgerTyped
<1>4. n \in SloName /\ n[1] = e.second
  BY <1>3 DEF SloName, SloEntry
<1>5. RecordingIn(sloKind, Begun, sloWritten, d) /\ d.step = "open" /\ d.entry = e /\ d.read = c
  BY <1>1, <1>3 DEF RecordingIn
<1>6. Begun' = Begun /\ IsFiniteSet(Begun) /\ Begun \subseteq Begun'
  BY <1>2, GoingOn
<1> HIDE DEF d
<1>7. RecorderStep(p, d)
  BY <1>1, <1>2, <1>5, <1>6 DEF RecorderStep, SloGoesOn
<1>8. RecordersTyped' /\ Moved(p, d)
  BY <1>7, RecorderMoves, Zenon
<1>9. /\ DOMAIN sloLedger' = DOMAIN sloLedger \cup {n}
      /\ \A m \in DOMAIN sloLedger : m # n => sloLedger'[m] = sloLedger[m]
      /\ sloLedger'[n] = Torn
  <2> HIDE DEF n
  <2> QED BY <1>1 DEF With
<1> HIDE DEF n, c
<1>10. IsLedger(sloLedger')
  <2>1. IsFiniteSet(DOMAIN sloLedger \cup {n})
    BY FS_AddElement DEF LedgerTyped, IsLedger
  <2> QED BY <1>4, <1>9, <2>1 DEF LedgerTyped, IsLedger
<1>11. \A q \in Recorder \ {p} : ~Idle(q) => sloDoing[q].entry # e
  BY <1>2 DEF RecordersTyped, SloGoesOn
<1>12. CountIn(DOMAIN sloLedger', Opened')
  <2>1. e \notin Opened
    BY <1>1 DEF Opened
  <2>2. CountIn(DOMAIN sloLedger \cup {n}, Opened \cup {e})
    BY <1>1, <1>4, <2>1, OpenedFinite, CountMore DEF ShardsKept, LedgerTyped, IsLedger
  <2>3. Opened \cup {e} \subseteq Opened'
    BY <1>3, <1>5, <1>6, <1>8, <1>11 DEF Opened, Moved, Idle
  <2>4. IsFiniteSet(Opened')
    <3>1. Opened' \in SUBSET Begun'
      BY DEF Opened
    <3> QED BY <1>6, <3>1, FS_Subset
  <2> QED BY <1>9, <1>10, <2>2, <2>3, <2>4, CountLess DEF IsLedger
<1>13. PendingAreDisplaced'
  BY <1>1, <1>5, <1>6, <1>8 DEF ShardsKept, PendingAreDisplaced, Moved
<1>14. WrittenAreThere'
  <2> SUFFICES ASSUME NEW f \in sloWritten, ~DisplacedIn(Begun, f.second)
               PROVE  \E m \in DOMAIN sloLedger' : m[1] = f.second /\ sloLedger'[m] = f
    BY <1>1, <1>6 DEF WrittenAreThere
  <2>1. PICK m \in DOMAIN sloLedger : m[1] = f.second /\ sloLedger[m] = f
    BY <1>1 DEF ShardsKept, WrittenAreThere
  <2>2. m # n
    <3>1. f \in Begun /\ f # e
      BY <1>3 DEF LedgerTyped
    <3> QED BY <1>3, <1>4, <2>1, <3>1, Shared, Zenon
  <2> QED BY <1>9, <2>1, <2>2
<1>15. OpenAreThere'
  <2> SUFFICES ASSUME NEW q \in Recorder, sloDoing'[q].step = "open"
               PROVE  DisplacedIn(Begun, sloDoing'[q].entry.second)
                      \/ <<sloDoing'[q].entry.second, sloDoing'[q].read>> \in DOMAIN sloLedger'
    BY <1>6 DEF OpenAreThere, _shard_name
  <2>1. CASE q = p
    BY <1>5, <1>8, <1>9, <2>1 DEF Moved, n
  <2>2. CASE q # p
    BY <1>1, <1>8, <1>9, <2>2 DEF Moved, ShardsKept, OpenAreThere, _shard_name
  <2> QED BY <2>1, <2>2
<1>16. ASSUME sloDeaths' = 0
       PROVE  IsFiniteSet(Unlisted') /\ Cardinality(Unpending') <= Retention + Cardinality(Unlisted')
  <2>1. Unlisted' = Unlisted \cup {p} /\ p \notin Unlisted
    BY <1>1, <1>5, <1>8 DEF Unlisted, Moved
  <2>2. IsFiniteSet(Unlisted) /\ Cardinality(Unpending) <= Retention + Cardinality(Unlisted)
    BY <1>1, <1>16 DEF ShardsKept
  <2>3. Unpending' \subseteq Unpending \cup {n}
    BY <1>1, <1>5, <1>8, <1>9 DEF Unpending, Moved
  <2>4. IsFiniteSet(Unpending) /\ Cardinality(Unpending) \in Nat /\ Cardinality(Unlisted) \in Nat
    BY <2>2, OpenedFinite, FS_CardinalityType
  <2>5. IsFiniteSet(Unlisted') /\ Cardinality(Unlisted') = Cardinality(Unlisted) + 1
    BY <2>1, <2>2, FS_AddElement
  <2> DEFINE U == Unpending \cup {n}
             V == Unpending'
  <2>6. /\ IsFiniteSet(U)
        /\ Cardinality(U) = IF n \in Unpending THEN Cardinality(Unpending) ELSE Cardinality(Unpending) + 1
    BY <2>4, FS_AddElement
  <2>7. V \in SUBSET U
    BY <2>3
  <2> HIDE DEF U, V
  <2>8. IsFiniteSet(V) /\ Cardinality(V) <= Cardinality(U)
    BY <2>6, <2>7, FS_Subset
  <2>9. Cardinality(V) \in Nat
    BY <2>8, FS_CardinalityType
  <2>10. Cardinality(V) <= Retention + Cardinality(Unlisted')
    BY <2>2, <2>4, <2>5, <2>6, <2>8, <2>9, LedgerAssumption
  <2> QED BY <2>5, <2>10 DEF V
<1>17. ShardsKept'
  BY <1>12, <1>13, <1>14, <1>15, <1>16 DEF ShardsKept
<1> QED BY <1>1, <1>2, <1>7, <1>10, <1>17, ShardStep, Zenon

\* Its content comes, if it is still there.
LEMMA FillKeeps ==
  ASSUME SloInv, NEW p \in Recorder, FillShard(p)
  PROVE  SloInv'
<1> USE DEF SloInv
<1> DEFINE e == sloDoing[p].entry
           n == <<e.second, sloDoing[p].read>>
           d == [step |-> "filled", entry |-> e, read |-> {}]
<1>1. /\ sloKind = "shards" /\ sloDoing[p].step = "open"
      /\ sloLedger' = IF n \in DOMAIN sloLedger THEN [sloLedger EXCEPT ![n] = e] ELSE sloLedger
      /\ sloWritten' = sloWritten \cup {e} /\ sloDeaths' = sloDeaths
      /\ sloDoing' = [sloDoing EXCEPT ![p] = d]
  BY DEF FillShard, At, Go, _shard_name
<1>2. SloGoesOn(p)
  BY <1>1 DEF FillShard, SloGoesOn, Idle
<1>3. e \in Begun /\ e \in SloEntry /\ e \notin sloWritten
  BY <1>1 DEF RecordersTyped, RecordingIn, LedgerTyped
<1>4. n[1] = e.second
  OBVIOUS
<1>5. RecordingIn(sloKind, Begun, sloWritten', d) /\ d.step = "filled" /\ d.entry = e
  BY <1>1, <1>3 DEF RecordingIn
<1>6. Begun' = Begun /\ IsFiniteSet(Begun) /\ Begun \subseteq Begun'
  BY <1>2, GoingOn
<1> HIDE DEF d
<1>7. RecorderStep(p, d)
  BY <1>1, <1>2, <1>5, <1>6 DEF RecorderStep, SloGoesOn
<1>8. RecordersTyped' /\ Moved(p, d)
  BY <1>7, RecorderMoves, Zenon
<1>9. /\ DOMAIN sloLedger' = DOMAIN sloLedger
      /\ \A m \in DOMAIN sloLedger : m # n => sloLedger'[m] = sloLedger[m]
      /\ n \in DOMAIN sloLedger => sloLedger'[n] = e
  <2> HIDE DEF n
  <2> QED BY <1>1
<1>10. DisplacedIn(Begun, e.second) \/ n \in DOMAIN sloLedger
  BY <1>1 DEF ShardsKept, OpenAreThere, _shard_name
<1> HIDE DEF n
<1>11. IsLedger(sloLedger')
  BY <1>3, <1>9 DEF LedgerTyped, IsLedger
<1>12. CountIn(DOMAIN sloLedger', Opened')
  <2>1. Opened' = Opened
    BY <1>1, <1>5, <1>6, <1>8 DEF Opened, Moved
  <2> QED BY <1>1, <1>9, <2>1 DEF ShardsKept
<1>13. PendingAreDisplaced'
  BY <1>1, <1>5, <1>6, <1>8 DEF ShardsKept, PendingAreDisplaced, Moved
<1>14. WrittenAreThere'
  <2> SUFFICES ASSUME NEW f \in sloWritten', ~DisplacedIn(Begun, f.second)
               PROVE  \E m \in DOMAIN sloLedger' : m[1] = f.second /\ sloLedger'[m] = f
    BY <1>6 DEF WrittenAreThere
  <2>1. CASE f = e
    BY <1>4, <1>9, <1>10, <2>1
  <2>2. CASE f # e
    <3>1. f \in sloWritten
      BY <1>1, <2>2
    <3>2. PICK m \in DOMAIN sloLedger : m[1] = f.second /\ sloLedger[m] = f
      BY <1>1, <3>1 DEF ShardsKept, WrittenAreThere
    <3>3. f \in Begun
      BY <3>1 DEF LedgerTyped
    <3>4. m # n
      BY <1>3, <1>4, <2>2, <3>2, <3>3, Shared, Zenon
    <3> QED BY <1>9, <3>2, <3>4
  <2> QED BY <2>1, <2>2
<1>15. OpenAreThere'
  BY <1>1, <1>5, <1>6, <1>8, <1>9 DEF Moved, ShardsKept, OpenAreThere, _shard_name
<1>16. ASSUME sloDeaths' = 0
       PROVE  IsFiniteSet(Unlisted') /\ Cardinality(Unpending') <= Retention + Cardinality(Unlisted')
  <2>1. Unlisted' = Unlisted
    BY <1>1, <1>5, <1>8 DEF Unlisted, Moved
  <2>2. Unpending' = Unpending
    BY <1>1, <1>5, <1>8, <1>9 DEF Unpending, Moved
  <2> QED BY <1>1, <1>16, <2>1, <2>2 DEF ShardsKept
<1>17. ShardsKept'
  BY <1>12, <1>13, <1>14, <1>15, <1>16 DEF ShardsKept
<1> QED BY <1>1, <1>2, <1>7, <1>11, <1>17, ShardStep, Zenon

\* Where a recorder is that has S left to unlink.
Leaves(p, S) ==
  IF S # {} THEN [step |-> "pruning", entry |-> sloDoing[p].entry, read |-> S] ELSE [step |-> "idle"]

\* With nothing left it returns.
LEMMA Pruned ==
  ASSUME NEW p \in Recorder, NEW S, Prune(p, S)
  PROVE  /\ sloDoing' = [sloDoing EXCEPT ![p] = Leaves(p, S)]
         /\ Leaves(p, S).step \in {"pruning", "idle"}
         /\ Leaves(p, S).step = "pruning" <=> S # {}
         /\ Leaves(p, S).step = "pruning" => Leaves(p, S).entry = sloDoing[p].entry /\ Leaves(p, S).read = S
BY DEF Prune, Go, Leaves

\* What is too old is looked for.
LEMMA ListKeeps ==
  ASSUME SloInv, NEW p \in Recorder, ListStale(p)
  PROVE  SloInv'
<1> USE DEF SloInv
<1> DEFINE S == Stale(DOMAIN sloLedger)
           d == Leaves(p, S)
<1>1. /\ sloKind = "shards" /\ sloDoing[p].step = "filled"
      /\ sloLedger' = sloLedger /\ sloWritten' = sloWritten /\ sloDeaths' = sloDeaths
      /\ Prune(p, S)
  BY DEF ListStale, At
<1>2. SloGoesOn(p)
  BY <1>1 DEF ListStale, SloGoesOn, Idle
<1>3. sloDoing[p].entry \in Begun
  BY <1>1 DEF RecordersTyped, RecordingIn
<1>4. S \in SUBSET DOMAIN sloLedger /\ DOMAIN sloLedger \in SUBSET SloName /\ IsFiniteSet(DOMAIN sloLedger)
  BY DEF Stale, LedgerTyped, IsLedger
<1>5. /\ sloDoing' = [sloDoing EXCEPT ![p] = d]
      /\ d.step \in {"pruning", "idle"} /\ (d.step = "pruning" <=> S # {})
      /\ d.step = "pruning" => d.entry = sloDoing[p].entry /\ d.read = S
  <2> HIDE DEF S
  <2> QED BY <1>1, Pruned
<1> HIDE DEF S, d
<1>6. Begun' = Begun /\ IsFiniteSet(Begun) /\ Begun \subseteq Begun'
  BY <1>2, GoingOn
<1>7. RecorderStep(p, d)
  <2>1. RecordingIn(sloKind, Begun, sloWritten, d)
    BY <1>1, <1>3, <1>4, <1>5 DEF RecordingIn
  <2> QED BY <1>1, <1>2, <1>5, <1>6, <2>1 DEF RecorderStep, SloGoesOn
<1>8. RecordersTyped' /\ Moved(p, d)
  BY <1>7, RecorderMoves, Zenon
<1>9. IsLedger(sloLedger')
  BY <1>1 DEF LedgerTyped
<1>10. CountIn(DOMAIN sloLedger, Begun)
  BY <1>1, <1>4, OpenedFinite, CountLess DEF ShardsKept
<1>11. CountIn(DOMAIN sloLedger', Opened')
  <2>1. Opened' = Opened
    BY <1>1, <1>5, <1>6, <1>8 DEF Opened, Moved
  <2> QED BY <1>1, <2>1 DEF ShardsKept
<1>12. PendingAreDisplaced'
  <2> SUFFICES ASSUME NEW q \in Recorder, sloDoing'[q].step = "pruning", NEW m \in sloDoing'[q].read
               PROVE  DisplacedIn(Begun, m[1])
    BY <1>6 DEF PendingAreDisplaced
  <2>1. CASE q = p
    <3>1. m \in Stale(DOMAIN sloLedger)
      BY <1>5, <1>8, <2>1 DEF Moved, S
    <3>2. Begun \in SUBSET SloEntry
      BY DEF LedgerTyped
    <3> QED BY <1>4, <1>6, <1>10, <3>1, <3>2, StaleIsDisplaced
  <2>2. CASE q # p
    BY <1>1, <1>8, <2>2 DEF Moved, ShardsKept, PendingAreDisplaced
  <2> QED BY <2>1, <2>2
<1>13. WrittenAreThere'
  BY <1>1, <1>6 DEF ShardsKept, WrittenAreThere
<1>14. OpenAreThere'
  BY <1>1, <1>5, <1>6, <1>8 DEF ShardsKept, OpenAreThere, _shard_name, Moved
<1>15. ASSUME sloDeaths' = 0
       PROVE  IsFiniteSet(Unlisted') /\ Cardinality(Unpending') <= Retention + Cardinality(Unlisted')
  <2> DEFINE V == Unpending'
             W == Newest(DOMAIN sloLedger, Retention)
  <2>1. Unlisted' \in SUBSET Unlisted
    BY <1>1, <1>5, <1>8 DEF Unlisted, Moved
  <2>2. IsFiniteSet(Unlisted)
    BY <1>1, <1>15 DEF ShardsKept
  <2>3. IsFiniteSet(Unlisted') /\ Cardinality(Unlisted') \in Nat
    BY <2>1, <2>2, FS_Subset, FS_CardinalityType
  <2>4. V \in SUBSET W
    BY <1>1, <1>5, <1>8 DEF Unpending, Moved, S, Stale
  <2>5. W \in SUBSET DOMAIN sloLedger /\ Cardinality(W) <= Retention
    <3>1. W \in SUBSET DOMAIN sloLedger
      BY DEF Newest
    <3> QED BY <1>4, <3>1, NewestAreFew, LedgerAssumption
  <2> HIDE DEF V, W
  <2>6. IsFiniteSet(W)
    BY <1>4, <2>5, FS_Subset
  <2>7. IsFiniteSet(V) /\ Cardinality(V) <= Cardinality(W)
    BY <2>4, <2>6, FS_Subset
  <2>8. Cardinality(V) \in Nat /\ Cardinality(W) \in Nat
    BY <2>6, <2>7, FS_CardinalityType
  <2>9. Cardinality(V) <= Retention + Cardinality(Unlisted')
    BY <2>3, <2>5, <2>7, <2>8, LedgerAssumption
  <2> QED BY <2>3, <2>9 DEF V
<1>16. ShardsKept'
  BY <1>11, <1>12, <1>13, <1>14, <1>15 DEF ShardsKept
<1> QED BY <1>1, <1>2, <1>7, <1>9, <1>16, ShardStep, Zenon

\* A shard that newer ones have displaced goes.
LEMMA UnlinkKeeps ==
  ASSUME SloInv, NEW p \in Recorder, UnlinkStale(p)
  PROVE  SloInv'
<1> USE DEF SloInv
<1> DEFINE R == sloDoing[p].read
           n == CHOOSE n \in R : \A m \in R : ~Before(m, n)
           S == R \ {n}
           d == Leaves(p, S)
<1>1. /\ sloKind = "shards" /\ sloDoing[p].step = "pruning"
      /\ sloLedger' = Without(sloLedger, {n}) /\ sloWritten' = sloWritten /\ sloDeaths' = sloDeaths
      /\ Prune(p, S)
  BY Zenon DEF UnlinkStale, At
<1>2. SloGoesOn(p)
  BY <1>1 DEF UnlinkStale, SloGoesOn, Idle
<1>3. sloDoing[p].entry \in Begun /\ R \in SUBSET SloName /\ R # {}
  BY <1>1 DEF RecordersTyped, RecordingIn
<1>4. n \in R
  <2>1. \E m \in R : \A l \in R : ~Before(l, m)
    BY <1>3, EarliestName, Zenon
  <2> QED BY <2>1, Zenon
<1>5. /\ sloDoing' = [sloDoing EXCEPT ![p] = d]
      /\ d.step \in {"pruning", "idle"} /\ (d.step = "pruning" <=> S # {})
      /\ d.step = "pruning" => d.entry = sloDoing[p].entry /\ d.read = S
  <2> HIDE DEF S
  <2> QED BY <1>1, Pruned
<1> HIDE DEF n, d
<1>6. Begun' = Begun /\ IsFiniteSet(Begun) /\ Begun \subseteq Begun'
  BY <1>2, GoingOn
<1>7. RecorderStep(p, d)
  <2>1. RecordingIn(sloKind, Begun, sloWritten, d)
    BY <1>1, <1>3, <1>5 DEF RecordingIn
  <2> QED BY <1>1, <1>2, <1>5, <1>6, <2>1 DEF RecorderStep, SloGoesOn
<1>8. RecordersTyped' /\ Moved(p, d)
  BY <1>7, RecorderMoves, Zenon
<1>9. DOMAIN sloLedger' = DOMAIN sloLedger \ {n} /\ \A m \in DOMAIN sloLedger' : sloLedger'[m] = sloLedger[m]
  BY <1>1 DEF Without
<1>10. IsLedger(sloLedger')
  <2>1. IsFiniteSet(DOMAIN sloLedger \ {n})
    BY FS_RemoveElement DEF LedgerTyped, IsLedger
  <2> QED BY <1>9, <2>1 DEF LedgerTyped, IsLedger
<1>11. DisplacedIn(Begun, n[1])
  BY <1>1, <1>4 DEF ShardsKept, PendingAreDisplaced
<1>12. CountIn(DOMAIN sloLedger', Opened')
  <2>1. Opened' = Opened
    BY <1>1, <1>5, <1>6, <1>8 DEF Opened, Moved
  <2> QED BY <1>1, <1>9, <2>1, OpenedFinite, CountLess DEF ShardsKept, LedgerTyped, IsLedger
<1>13. PendingAreDisplaced'
  BY <1>1, <1>5, <1>6, <1>8 DEF ShardsKept, PendingAreDisplaced, Moved
<1>14. WrittenAreThere'
  <2> SUFFICES ASSUME NEW f \in sloWritten, ~DisplacedIn(Begun, f.second)
               PROVE  \E m \in DOMAIN sloLedger' : m[1] = f.second /\ sloLedger'[m] = f
    BY <1>1, <1>6 DEF WrittenAreThere
  <2>1. PICK m \in DOMAIN sloLedger : m[1] = f.second /\ sloLedger[m] = f
    BY <1>1 DEF ShardsKept, WrittenAreThere
  <2>2. m # n
    BY <1>11, <2>1, Zenon
  <2> QED BY <1>9, <2>1, <2>2
<1>15. OpenAreThere'
  <2> SUFFICES ASSUME NEW q \in Recorder, sloDoing'[q].step = "open", ~DisplacedIn(Begun, sloDoing'[q].entry.second)
               PROVE  <<sloDoing'[q].entry.second, sloDoing'[q].read>> \in DOMAIN sloLedger'
    BY <1>6 DEF OpenAreThere, _shard_name
  <2>1. sloDoing'[q] = sloDoing[q]
    BY <1>5, <1>8 DEF Moved
  <2>2. <<sloDoing[q].entry.second, sloDoing[q].read>> \in DOMAIN sloLedger
    BY <1>1, <2>1 DEF ShardsKept, OpenAreThere, _shard_name
  <2>3. <<sloDoing[q].entry.second, sloDoing[q].read>> # n
    BY <1>11, <2>1
  <2> QED BY <1>9, <2>1, <2>2, <2>3
<1>16. ASSUME sloDeaths' = 0
       PROVE  IsFiniteSet(Unlisted') /\ Cardinality(Unpending') <= Retention + Cardinality(Unlisted')
  <2> DEFINE V == Unpending'
  <2>1. Unlisted' = Unlisted
    BY <1>1, <1>5, <1>8 DEF Unlisted, Moved
  <2>2. IsFiniteSet(Unlisted) /\ Cardinality(Unpending) <= Retention + Cardinality(Unlisted)
    BY <1>1, <1>16 DEF ShardsKept
  <2>3. V \in SUBSET Unpending
    <3> SUFFICES ASSUME NEW m \in V, NEW q \in Recorder, sloDoing[q].step = "pruning", m \in sloDoing[q].read
                 PROVE  FALSE
      BY <1>9 DEF Unpending
    <3>1. m # n /\ (sloDoing'[q].step = "pruning" => m \notin sloDoing'[q].read)
      BY <1>9 DEF Unpending
    <3>2. CASE q = p
      BY <1>5, <1>8, <3>1, <3>2 DEF Moved
    <3>3. CASE q # p
      BY <1>8, <3>1, <3>3 DEF Moved
    <3> QED BY <3>2, <3>3
  <2> HIDE DEF V
  <2>4. IsFiniteSet(Unpending) /\ Cardinality(Unpending) \in Nat /\ Cardinality(Unlisted) \in Nat
    BY <2>2, OpenedFinite, FS_CardinalityType
  <2>5. IsFiniteSet(V) /\ Cardinality(V) <= Cardinality(Unpending)
    BY <2>3, <2>4, FS_Subset
  <2>6. Cardinality(V) \in Nat
    BY <2>5, FS_CardinalityType
  <2>7. Cardinality(V) <= Retention + Cardinality(Unlisted)
    BY <2>2, <2>4, <2>5, <2>6, LedgerAssumption
  <2> QED BY <2>1, <2>2, <2>7 DEF V
<1>17. ShardsKept'
  BY <1>12, <1>13, <1>14, <1>15, <1>16 DEF ShardsKept
<1> QED BY <1>1, <1>2, <1>7, <1>10, <1>17, ShardStep, Zenon

\* What else has to be shown of a step with the file.
LEMMA FileStep ==
  ASSUME SloInv, NEW p \in Recorder, SloGoesOn(p), NEW d, RecorderStep(p, d), sloKind = "file",
         IsLedger(sloLedger'), sloDeaths' = sloDeaths, FileKept'
  PROVE  SloInv'
<1>1. RecordersTyped' /\ Moved(p, d)
  BY RecorderMoves, Zenon DEF SloInv
<1>2. LedgerTyped'
  <2>1. sloWritten' = sloWritten \/ sloWritten' = sloWritten \cup {sloDoing[p].entry}
    BY DEF RecorderStep
  <2>2. LedgerTyped /\ RecordersTyped /\ sloDeaths' \in Nat
    BY DEF SloInv, LedgerTyped
  <2> QED BY <2>1, <2>2, TypedKept, Zenon
<1>3. ShardsKept'
  BY DEF ShardsKept, SloGoesOn
<1>4. SloAlone'
  BY <1>1, AloneKept, Zenon DEF SloInv
<1> QED BY <1>1, <1>2, <1>3, <1>4 DEF SloInv

\* While recordings have not overlapped whoever is recording is the only one.
LEMMA OnlyOne ==
  ASSUME SloAlone, ~sloCrossed, NEW p \in Recorder, ~Idle(p), NEW q \in Recorder \ {p}
  PROVE  sloDoing[q].step = "idle"
BY DEF SloAlone, Idle

\* A file with one more iteration at its end, and cut at its start.
LEMMA Extending ==
  ASSUME LedgerTyped, IsLedger(sloLedger), FileIs(Begun, sloLedger), NEW e \in Begun
  PROVE  LET X == With(sloLedger, <<e.id, 0>>, e)
             R == Without(X, Stale(DOMAIN X))
         IN  /\ IsLedger(R) /\ Cardinality(DOMAIN R) <= Retention /\ FileIs(Begun, R)
             /\ FileHas(Begun, sloLedger, sloWritten) => FileHas(Begun, R, sloWritten \cup {e})
<1> DEFINE n == <<e.id, 0>>
           X == With(sloLedger, n, e)
           N == Newest(DOMAIN X, Retention)
           R == Without(X, Stale(DOMAIN X))
<1>1. e \in SloEntry /\ n \in SloName
  BY DEF LedgerTyped, SloEntry, SloName
<1>2. /\ DOMAIN X = DOMAIN sloLedger \cup {n} /\ X[n] = e
      /\ \A m \in DOMAIN sloLedger : m # n => X[m] = sloLedger[m]
  <2> HIDE DEF n
  <2> QED BY DEF With
<1>3. FileIs(Begun, X)
  <2> SUFFICES ASSUME NEW m \in DOMAIN X PROVE \E f \in Begun : m = <<f.id, 0>> /\ X[m] = f
    BY DEF FileIs
  <2>1. CASE m = n
    BY <1>2, <2>1
  <2>2. CASE m # n
    BY <1>2, <2>2 DEF FileIs
  <2> QED BY <2>1, <2>2
<1>4. DOMAIN X \in SUBSET SloName /\ IsFiniteSet(DOMAIN X) /\ \A m \in DOMAIN X : X[m] \in SloEntry \cup {Torn}
  <2>1. IsFiniteSet(DOMAIN sloLedger \cup {n})
    BY FS_AddElement DEF IsLedger
  <2> HIDE DEF n, X
  <2> QED BY <1>1, <1>2, <2>1 DEF IsLedger
<1> HIDE DEF X
<1>5. N \in SUBSET DOMAIN X /\ Cardinality(N) <= Retention
  <2>1. N \in SUBSET DOMAIN X
    BY DEF Newest
  <2> QED BY <1>4, <2>1, NewestAreFew, LedgerAssumption
<1>6. DOMAIN R = N /\ \A m \in N : R[m] = X[m]
  <2>1. DOMAIN X \ Stale(DOMAIN X) = N
    BY <1>5 DEF Stale
  <2> HIDE DEF N
  <2> QED BY <2>1 DEF Without
<1>7. IsFiniteSet(N)
  BY <1>4, <1>5, FS_Subset
<1> HIDE DEF R
<1>8. IsLedger(R) /\ Cardinality(DOMAIN R) <= Retention
  <2> HIDE DEF N
  <2> QED BY <1>4, <1>5, <1>6, <1>7 DEF IsLedger
<1>9. FileIs(Begun, R)
  <2> HIDE DEF N
  <2> QED BY <1>3, <1>5, <1>6 DEF FileIs
<1>10. ASSUME FileHas(Begun, sloLedger, sloWritten), NEW f \in sloWritten \cup {e},
              Cardinality({g \in Begun : g.id > f.id}) < Retention
       PROVE  <<f.id, 0>> \in DOMAIN R /\ R[<<f.id, 0>>] = f
  <2>1. f \in Begun /\ f \in SloEntry
    BY <1>1, <1>10 DEF LedgerTyped
  <2>2. <<f.id, 0>> \in DOMAIN X /\ X[<<f.id, 0>>] = f
    <3>1. CASE f = e
      BY <1>2, <3>1
    <3>2. CASE f # e
      <4>1. <<f.id, 0>> \in DOMAIN sloLedger /\ sloLedger[<<f.id, 0>>] = f
        BY <1>10, <3>2 DEF FileHas
      <4>2. f.id # e.id
        BY <2>1, <3>2 DEF LedgerTyped
      <4> QED BY <1>2, <4>1, <4>2
    <3> QED BY <3>1, <3>2
  <2> DEFINE newer == NewerThan(DOMAIN X, <<f.id, 0>>)
             later == {g \in Begun : g.id > f.id}
  <2>3. Cardinality(newer) <= Cardinality(later) /\ Cardinality(newer) \in Nat /\ Cardinality(later) \in Nat
    <3>1. Begun \in SUBSET SloEntry /\ IsFiniteSet(Begun) /\ \A g, h \in Begun : g.id = h.id => g = h
      BY DEF LedgerTyped
    <3> QED BY <1>3, <2>1, <3>1, FileNewer, Zenon
  <2>4. Cardinality(newer) < Retention
    <3> HIDE DEF newer
    <3> QED BY <1>10, <2>3, LedgerAssumption
  <2>5. <<f.id, 0>> \in N
    BY <1>4, <2>2, <2>4, StaysNewest, LedgerAssumption
  <2> HIDE DEF N
  <2> QED BY <1>6, <2>2, <2>5
<1>11. FileHas(Begun, sloLedger, sloWritten) => FileHas(Begun, R, sloWritten \cup {e})
  BY <1>10, Zenon DEF FileHas
<1> QED BY <1>8, <1>9, <1>11 DEF R, X

\* The file is read, and what will be written is known.
LEMMA ReadKeeps ==
  ASSUME SloInv, NEW p \in Recorder, ReadFile(p)
  PROVE  SloInv'
<1> USE DEF SloInv
<1> DEFINE e == sloDoing[p].entry
           X == With(sloLedger, <<e.id, 0>>, e)
           R == Without(X, Stale(DOMAIN X))
           d == [step |-> "read", entry |-> e, read |-> R]
<1>1. /\ sloKind = "file" /\ sloDoing[p].step = "begun"
      /\ sloLedger' = sloLedger /\ sloWritten' = sloWritten /\ sloDeaths' = sloDeaths
      /\ sloDoing' = [sloDoing EXCEPT ![p] = d]
  BY DEF ReadFile, At, Go
<1>2. SloGoesOn(p)
  BY <1>1 DEF ReadFile, SloGoesOn, Idle
<1>3. e \in Begun /\ e \notin sloWritten
  BY <1>1 DEF RecordersTyped, RecordingIn
<1>4. IsLedger(sloLedger) /\ FileIs(Begun, sloLedger)
  BY <1>1 DEF LedgerTyped, FileKept
<1>5. /\ IsLedger(R) /\ Cardinality(DOMAIN R) <= Retention /\ FileIs(Begun, R)
      /\ FileHas(Begun, sloLedger, sloWritten) => FileHas(Begun, R, sloWritten \cup {e})
  <2> HIDE DEF e
  <2> QED BY <1>3, <1>4, Extending, Zenon
<1> HIDE DEF R
<1>6. Begun' = Begun /\ IsFiniteSet(Begun) /\ Begun \subseteq Begun'
  BY <1>2, GoingOn
<1>7. RecordingIn(sloKind, Begun, sloWritten, d) /\ d.step = "read" /\ d.entry = e /\ d.read = R
  BY <1>1, <1>3, <1>5 DEF RecordingIn
<1> HIDE DEF d
<1>8. RecorderStep(p, d)
  BY <1>1, <1>2, <1>6, <1>7 DEF RecorderStep, SloGoesOn
<1>9. Moved(p, d)
  BY <1>8, RecorderMoves, Zenon
<1>10. ASSUME ~sloCrossed, sloDeaths = 0
       PROVE  /\ FileHas(Begun, sloLedger, sloWritten)
              /\ \A q \in Recorder : sloDoing'[q].step \in {"read", "open"} =>
                   FileHas(Begun, sloDoing'[q].read, sloWritten \cup {sloDoing'[q].entry})
  <2>1. \A q \in Recorder \ {p} : sloDoing[q].step = "idle"
    BY <1>2, <1>10, OnlyOne DEF SloGoesOn
  <2>2. FileHas(Begun, sloLedger, sloWritten)
    BY <1>1, <1>10, <2>1 DEF FileKept
  <2> QED BY <1>5, <1>7, <1>9, <2>1, <2>2 DEF Moved
<1>11. FileKept'
  <2>1. sloCrossed' = sloCrossed
    BY <1>2 DEF SloGoesOn
  <2> QED BY <1>1, <1>6, <1>10, <2>1 DEF FileKept
<1> QED BY <1>1, <1>2, <1>4, <1>8, <1>11, FileStep, Zenon

\* Opening it for writing leaves nothing in it.
LEMMA TruncateKeeps ==
  ASSUME SloInv, NEW p \in Recorder, TruncateFile(p)
  PROVE  SloInv'
<1> USE DEF SloInv
<1> DEFINE e == sloDoing[p].entry
           R == sloDoing[p].read
           d == [step |-> "open", entry |-> e, read |-> R]
<1>1. /\ sloKind = "file" /\ sloDoing[p].step = "read"
      /\ sloLedger' = <<>> /\ sloWritten' = sloWritten /\ sloDeaths' = sloDeaths
      /\ sloDoing' = [sloDoing EXCEPT ![p] = d]
  BY DEF TruncateFile, At, Go
<1>2. SloGoesOn(p)
  BY <1>1 DEF TruncateFile, SloGoesOn, Idle
<1>3. RecordingIn(sloKind, Begun, sloWritten, d) /\ d.step = "open" /\ d.entry = e /\ d.read = R
  BY <1>1 DEF RecordersTyped, RecordingIn
<1>4. DOMAIN sloLedger' = {}
  BY <1>1
<1>5. IsLedger(sloLedger') /\ FileIs(Begun, sloLedger') /\ Cardinality(DOMAIN sloLedger') <= Retention
  BY <1>4, FS_EmptySet, LedgerAssumption DEF IsLedger, FileIs
<1> HIDE DEF d
<1>6. Begun' = Begun /\ IsFiniteSet(Begun) /\ Begun \subseteq Begun'
  BY <1>2, GoingOn
<1>8. RecorderStep(p, d)
  BY <1>1, <1>2, <1>3, <1>6 DEF RecorderStep, SloGoesOn
<1>9. Moved(p, d)
  BY <1>8, RecorderMoves, Zenon
<1>10. ASSUME ~sloCrossed, sloDeaths = 0
       PROVE  /\ \E q \in Recorder : sloDoing'[q].step = "open"
              /\ \A q \in Recorder : sloDoing'[q].step \in {"read", "open"} =>
                   FileHas(Begun, sloDoing'[q].read, sloWritten \cup {sloDoing'[q].entry})
  <2>1. sloDoing'[p].step = "open"
    BY <1>3, <1>9 DEF Moved
  <2>2. FileHas(Begun, R, sloWritten \cup {e})
    BY <1>1, <1>10 DEF FileKept
  <2> QED BY <1>1, <1>3, <1>9, <1>10, <2>1, <2>2 DEF Moved, FileKept
<1>11. FileKept'
  <2>1. sloCrossed' = sloCrossed
    BY <1>2 DEF SloGoesOn
  <2> QED BY <1>1, <1>5, <1>6, <1>10, <2>1 DEF FileKept
<1> QED BY <1>1, <1>2, <1>5, <1>8, <1>11, FileStep, Zenon

\* And then what was to be.
LEMMA RewriteKeeps ==
  ASSUME SloInv, NEW p \in Recorder, FillFile(p)
  PROVE  SloInv'
<1> USE DEF SloInv
<1> DEFINE e == sloDoing[p].entry
           R == sloDoing[p].read
           d == [step |-> "idle"]
<1>1. /\ sloKind = "file" /\ sloDoing[p].step = "open"
      /\ sloLedger' = R /\ sloWritten' = sloWritten \cup {e} /\ sloDeaths' = sloDeaths
      /\ sloDoing' = [sloDoing EXCEPT ![p] = d]
  BY DEF FillFile, At, Prune
<1>2. SloGoesOn(p)
  BY <1>1 DEF FillFile, SloGoesOn, Idle
<1>3. RecordingIn(sloKind, Begun, sloWritten', d) /\ d.step = "idle"
  BY <1>1 DEF RecordingIn
<1>4. IsLedger(R) /\ Cardinality(DOMAIN R) <= Retention /\ FileIs(Begun, R)
  BY <1>1 DEF RecordersTyped, RecordingIn
<1> HIDE DEF d
<1>6. Begun' = Begun /\ IsFiniteSet(Begun) /\ Begun \subseteq Begun'
  BY <1>2, GoingOn
<1>8. RecorderStep(p, d)
  BY <1>1, <1>2, <1>3, <1>6 DEF RecorderStep, SloGoesOn
<1>9. Moved(p, d)
  BY <1>8, RecorderMoves, Zenon
<1>10. ASSUME ~sloCrossed, sloDeaths = 0
       PROVE  /\ FileHas(Begun, R, sloWritten \cup {e})
              /\ \A q \in Recorder : sloDoing'[q].step = "idle"
  <2>1. \A q \in Recorder \ {p} : sloDoing[q].step = "idle"
    BY <1>2, <1>10, OnlyOne DEF SloGoesOn
  <2>2. FileHas(Begun, R, sloWritten \cup {e})
    BY <1>1, <1>10 DEF FileKept
  <2> QED BY <1>3, <1>9, <2>1, <2>2 DEF Moved
<1>11. FileKept'
  <2>1. sloCrossed' = sloCrossed
    BY <1>2 DEF SloGoesOn
  <2> QED BY <1>1, <1>4, <1>6, <1>10, <2>1 DEF FileKept
<1> QED BY <1>1, <1>2, <1>4, <1>8, <1>11, FileStep, Zenon

\* Every step.
LEMMA StepKeepsTheLedger == SloInv /\ [SloNext]_sloVars => SloInv'
<1> SUFFICES ASSUME SloInv, [SloNext]_sloVars PROVE SloInv'
  OBVIOUS
<1>1. CASE NextSecond
  BY <1>1, SecondKeeps
<1>2. ASSUME NEW p \in Recorder,
             \/ record_iteration(p) \/ CountShards(p) \/ OpenShard(p) \/ FillShard(p)
             \/ ListStale(p) \/ UnlinkStale(p)
             \/ ReadFile(p) \/ TruncateFile(p) \/ FillFile(p)
             \/ RecorderDies(p)
      PROVE  SloInv'
  BY <1>2, BeginKeeps, CountKeeps, OpenKeeps, FillKeeps, ListKeeps, UnlinkKeeps,
     ReadKeeps, TruncateKeeps, RewriteKeeps, DeathKeeps, Zenon
<1>3. CASE UNCHANGED sloVars
  <2>1. /\ sloKind' = sloKind /\ sloLedger' = sloLedger /\ sloDoing' = sloDoing /\ sloSecond' = sloSecond
        /\ sloBegun' = sloBegun /\ sloWritten' = sloWritten /\ sloDeaths' = sloDeaths /\ sloCrossed' = sloCrossed
    BY <1>3 DEF sloVars
  <2>2. Begun' = Begun /\ Opened' = Opened /\ Unlisted' = Unlisted /\ Unpending' = Unpending
    BY <2>1 DEF Begun, Opened, Unlisted, Unpending
  <2>3. LedgerTyped' /\ RecordersTyped'
    BY <2>1, <2>2 DEF SloInv, LedgerTyped, RecordersTyped, Idle
  <2>4. ShardsKept'
    BY <2>1, <2>2 DEF SloInv, ShardsKept, PendingAreDisplaced, WrittenAreThere, OpenAreThere, _shard_name
  <2>5. FileKept' /\ SloAlone'
    BY <2>1, <2>2 DEF SloInv, FileKept, SloAlone, Idle
  <2> QED BY <2>3, <2>4, <2>5 DEF SloInv
<1> QED BY <1>1, <1>2, <1>3 DEF SloNext

\* The start: nothing.
LEMMA LedgerStarts == SloInit => SloInv
<1> SUFFICES ASSUME SloInit PROVE SloInv
  OBVIOUS
<1>1. /\ sloKind \in {"shards", "file"} /\ sloLedger = <<>> /\ sloSecond = 1 /\ sloDeaths = 0
      /\ sloCrossed = FALSE /\ sloBegun = <<>> /\ sloWritten = {}
      /\ \A p \in Recorder : sloDoing[p].step = "idle"
      /\ sloDoing = [p \in Recorder |-> sloDoing[p]]
  BY DEF SloInit
<1>2. DOMAIN sloLedger = {} /\ Begun = {}
  BY <1>1 DEF Begun
<1>3. LedgerTyped
  <2>1. sloBegun \in Seq(SloEntry)
    BY <1>1
  <2>2. IsLedger(sloLedger)
    BY <1>2, FS_EmptySet DEF IsLedger
  <2>3. IsFiniteSet(Begun)
    BY <1>2, FS_EmptySet
  <2> QED BY <1>1, <1>2, <2>1, <2>2, <2>3 DEF LedgerTyped
<1>4. RecordersTyped
  BY <1>1 DEF RecordersTyped, RecordingIn, Idle
<1>5. ShardsKept
  <2>1. Opened = {} /\ Unlisted = {} /\ Unpending = {}
    BY <1>1, <1>2 DEF Opened, Unlisted, Unpending
  <2>2. CountIn({}, {})
    <3>1. \A T : {n \in {} : n[1] \in T} = {} /\ {f \in {} : f.second \in T} = {}
      OBVIOUS
    <3>2. Cardinality({}) <= Cardinality({})
      BY FS_EmptySet
    <3> QED BY <3>1, <3>2 DEF CountIn
  <2>3. PendingAreDisplaced /\ WrittenAreThere /\ OpenAreThere
    BY <1>1 DEF PendingAreDisplaced, WrittenAreThere, OpenAreThere
  <2>4. IsFiniteSet(Unlisted) /\ Cardinality(Unpending) <= Retention + Cardinality(Unlisted)
    BY <2>1, FS_EmptySet, LedgerAssumption
  <2> QED BY <1>2, <2>1, <2>2, <2>3, <2>4 DEF ShardsKept
<1>6. FileKept
  <2>1. Cardinality(DOMAIN sloLedger) <= Retention
    BY <1>2, FS_EmptySet, LedgerAssumption
  <2> QED BY <1>1, <1>2, <2>1 DEF FileKept, FileIs, FileHas
<1>7. SloAlone
  BY <1>1 DEF SloAlone, Idle
<1> QED BY <1>3, <1>4, <1>5, <1>6, <1>7 DEF SloInv

\* What the ledger promises follows.
LEMMA LedgerServes == SloInv => LedgerGates
<1> SUFFICES ASSUME SloInv PROVE LedgerGates
  OBVIOUS
<1> USE DEF SloInv
<1>1. LedgerIsBounded
  <2> SUFFICES ASSUME \A p \in Recorder : Idle(p), sloDeaths = 0
               PROVE  Cardinality(DOMAIN sloLedger) <= Retention
    BY DEF LedgerIsBounded
  <2>1. CASE sloKind = "shards"
    <3>1. Unlisted = {} /\ Unpending = DOMAIN sloLedger
      BY DEF Unlisted, Unpending, Idle
    <3>2. Cardinality(Unpending) <= Retention + Cardinality(Unlisted)
      BY <2>1 DEF ShardsKept
    <3> QED BY <3>1, <3>2, FS_EmptySet, LedgerAssumption
  <2>2. CASE sloKind = "file"
    BY <2>2 DEF FileKept
  <2> QED BY <2>1, <2>2 DEF LedgerTyped
<1>2. ASSUME NEW e \in Begun, Alone(e), Cardinality(Later(e)) < Retention
      PROVE  ~DisplacedIn(Begun, e.second)
  <2>1. {f \in Begun : f.second > e.second} = Later(e)
    BY DEF Later
  <2>2. Cardinality(Later(e)) \in Nat
    <3>1. Later(e) \in SUBSET Begun
      BY DEF Later
    <3> QED BY <3>1, FS_Subset, FS_CardinalityType DEF LedgerTyped
  <2>3. ~ \E f, g \in Begun : f # g /\ f.second = e.second /\ g.second = e.second
    BY <1>2 DEF Alone
  <2> QED BY <1>2, <2>1, <2>2, <2>3, LedgerAssumption DEF DisplacedIn
<1>3. sloWritten \subseteq Begun
  BY DEF LedgerTyped
<1>4. ASSUME sloKind = "shards", NEW e \in sloWritten, Alone(e), Cardinality(Later(e)) < Retention
      PROVE  \E n \in DOMAIN sloLedger : n[1] = e.second /\ sloLedger[n] = e
  BY <1>2, <1>3, <1>4 DEF ShardsKept, WrittenAreThere
<1>5. NewestAreKept
  BY <1>4 DEF NewestAreKept
<1>6. BreachBlocks
  <2> SUFFICES ASSUME NEW e \in sloWritten, Breaches(e)
               PROVE  IF sloKind = "shards"
                        THEN Alone(e) /\ Cardinality(Later(e)) < Window => ReleaseBlocked(sloLedger)
                        ELSE /\ ~sloCrossed /\ sloDeaths = 0 /\ \A p \in Recorder : sloDoing[p].step # "open"
                             /\ Cardinality({f \in Begun : f.id > e.id}) < Window
                             => ReleaseBlocked(sloLedger)
    BY DEF BreachBlocks
  <2>0. e \in Begun /\ e \in SloEntry /\ Begun \in SUBSET SloEntry /\ IsFiniteSet(Begun) /\ IsLedger(sloLedger)
    BY <1>3 DEF LedgerTyped
  <2>1. ASSUME sloKind = "shards", Alone(e), Cardinality(Later(e)) < Window
        PROVE  ReleaseBlocked(sloLedger)
    <3>1. Cardinality(Later(e)) \in Nat
      <4>1. Later(e) \in SUBSET Begun
        BY DEF Later
      <4> QED BY <2>0, <4>1, FS_Subset, FS_CardinalityType
    <3>2. PICK n \in DOMAIN sloLedger : n[1] = e.second /\ sloLedger[n] = e
      <4>1. Cardinality(Later(e)) < Retention
        BY <2>1, <3>1, LedgerAssumption
      <4> QED BY <1>4, <2>1, <4>1
    <3>3. DOMAIN sloLedger \in SUBSET SloName /\ IsFiniteSet(DOMAIN sloLedger)
      BY <2>0 DEF IsLedger
    <3>4. CountIn(DOMAIN sloLedger, Begun)
      BY <2>0, <2>1, <3>3, OpenedFinite, CountLess DEF ShardsKept
    <3>5. \A f, g \in Begun : f.second = n[1] /\ g.second = n[1] => f = g
      BY <2>0, <2>1, <3>2 DEF Alone
    <3>6. /\ Cardinality(NewerThan(DOMAIN sloLedger, n)) <= Cardinality({f \in Begun : f.second > n[1]})
          /\ Cardinality(NewerThan(DOMAIN sloLedger, n)) \in Nat
      BY <2>0, <3>2, <3>3, <3>4, <3>5, CountNewer
    <3>7. {f \in Begun : f.second > n[1]} = Later(e)
      BY <3>2 DEF Later
    <3>8. Cardinality(NewerThan(DOMAIN sloLedger, n)) < Window
      BY <2>1, <3>1, <3>6, <3>7, LedgerAssumption
    <3> QED BY <2>0, <3>2, <3>8, BreachInWindow
  <2>2. ASSUME sloKind = "file", ~sloCrossed, sloDeaths = 0, \A p \in Recorder : sloDoing[p].step # "open",
               Cardinality({f \in Begun : f.id > e.id}) < Window
        PROVE  ReleaseBlocked(sloLedger)
    <3> DEFINE n == <<e.id, 0>>
               later == {f \in Begun : f.id > e.id}
               newer == NewerThan(DOMAIN sloLedger, n)
    <3>1. FileIs(Begun, sloLedger) /\ FileHas(Begun, sloLedger, sloWritten)
      BY <2>2 DEF FileKept
    <3>2. Cardinality(newer) <= Cardinality(later) /\ Cardinality(newer) \in Nat /\ Cardinality(later) \in Nat
      <4>1. \A g, h \in Begun : g.id = h.id => g = h
        BY DEF LedgerTyped
      <4> QED BY <2>0, <3>1, <4>1, FileNewer, Zenon
    <3> HIDE DEF newer
    <3>3. Cardinality(later) < Retention /\ Cardinality(newer) < Window
      BY <2>2, <3>2, LedgerAssumption
    <3>4. n \in DOMAIN sloLedger /\ sloLedger[n] = e
      BY <3>1, <3>3 DEF FileHas
    <3> QED BY <2>0, <3>3, <3>4, BreachInWindow DEF newer
  <2> QED BY <2>1, <2>2 DEF LedgerTyped
<1>7. OnlyGatesBlock
  BY OnlyLossesBlock DEF OnlyGatesBlock, LedgerTyped
<1> QED BY <1>1, <1>5, <1>6, <1>7 DEF LedgerGates

\* For any recorders, wherever they die: the ledger keeps the newest iterations
\* and no more, what is breached in its window blocks a release until it has
\* left it, and nothing else does (LedgerGates; _write_shard, load_history,
\* evaluate_objective, decide_phase).
THEOREM LedgerKept == SloSpec => []LedgerGates
BY LedgerStarts, StepKeepsTheLedger, LedgerServes, PTL DEF SloSpec
-----------------------------------------------------------------------------
\* Timed commands: hook_sentinel.py, sandbox.py and kinetic_probe.py.

\* Only processes that exist are in the group, and the leader does: what leads
\* from "the group is dead" to "it stays dead" under forks outside it.
GroupIsBorn ==
  /\ status[Leader] # "unborn"
  /\ \A p \in group : status[p] # "unborn"

\* Until the time runs out nobody has been signalled, and nothing is reported
\* before the call returns.
QuietUntilTimeOut ==
  /\ stage = "waiting" => \A p \in Proc : status[p] \notin {"terminated", "killed"}
  /\ stage # "returned" => ~timed_out

TcInv ==
  /\ TcTypeOK
  /\ GroupIsBorn /\ QuietUntilTimeOut
  /\ GroupIsDead /\ OutputIsComplete /\ OnlyTimeOutsAreSignalled

\* A command not yet started satisfies the invariant.
LEMMA TcInitSound == TcInit => TcInv
  BY CommandAssumption DEF TcInit, TcInv, TcTypeOK, GroupIsBorn, QuietUntilTimeOut, GroupIsDead,
     OutputIsComplete, OnlyTimeOutsAreSignalled, Running, Returned

\* A step of one of the command's processes.
TcProcessStep(p) ==
  \/ \E child \in Proc : Fork(p, child)
  \/ ClosePipe(p) \/ IgnoreTerm(p) \/ LeaveGroup(p) \/ ProcessExit(p)

\* Nothing a process does revives a dead group, reopens a closed pipe or looks
\* like a signal.
LEMMA TcProcessKeeps ==
  ASSUME TcInv, NEW p \in Proc, TcProcessStep(p)
  PROVE  TcInv'
<1> USE CommandAssumption DEF TcInv, TcTypeOK, GroupIsBorn, QuietUntilTimeOut, GroupIsDead,
      OutputIsComplete, OnlyTimeOutsAreSignalled, Running, Returned, result
<1>1. CASE \E child \in Proc : Fork(p, child)
  <2> PICK child \in Proc : Fork(p, child)
    BY <1>1
  <2>1. /\ status' = [status EXCEPT ![child] = "running"]
        /\ status[child] = "unborn" /\ status[p] = "running"
        /\ UNCHANGED <<harness, stage, timed_out, exit_code>>
    BY DEF Fork
  <2>2. TcTypeOK'
    BY <2>1 DEF Fork
  <2>3. GroupIsBorn' /\ QuietUntilTimeOut'
    BY <2>1, <2>2 DEF Fork
  <2>4. GroupIsDead' /\ OutputIsComplete'
    BY <2>1, <2>2 DEF Fork
  <2>5. OnlyTimeOutsAreSignalled'
    BY <2>1
  <2> QED BY <2>2, <2>3, <2>4, <2>5
<1>2. CASE ClosePipe(p) BY <1>2 DEF ClosePipe
<1>3. CASE IgnoreTerm(p) BY <1>3 DEF IgnoreTerm
<1>4. CASE LeaveGroup(p) BY <1>4 DEF LeaveGroup
<1>5. CASE ProcessExit(p)
  <2>1. TcTypeOK' BY <1>5 DEF ProcessExit
  <2>2. GroupIsBorn' /\ QuietUntilTimeOut' BY <1>5, <2>1 DEF ProcessExit
  <2>3. GroupIsDead' /\ OutputIsComplete' BY <1>5, <2>1 DEF ProcessExit
  <2>4. OnlyTimeOutsAreSignalled' BY <1>5 DEF ProcessExit
  <2> QED BY <2>1, <2>2, <2>3, <2>4
<1> QED BY <1>1, <1>2, <1>3, <1>4, <1>5 DEF TcProcessStep

\* What a signal leaves: the victims do not run and hold nothing.
LEMMA SignalFacts ==
  ASSUME TcTypeOK, GroupIsBorn, NEW victims, NEW how \in {"terminated", "killed"},
         End(victims, how)
  PROVE  /\ status' \in [Proc -> {"unborn", "running", "exited", "terminated", "killed"}]
         /\ Running' = Running \ victims
         /\ pipe' \subseteq Running'
         /\ group' = group /\ ignoring' = ignoring
         /\ GroupIsBorn'
<1>1. status' = [p \in Proc |-> IF p \in victims \cap Running THEN how ELSE status[p]]
  BY DEF End
<1>2. Running' = Running \ victims
  BY <1>1 DEF Running, TcTypeOK
<1>3. pipe' \subseteq Running'
  BY <1>2 DEF End, TcTypeOK
<1>4. GroupIsBorn'
  BY <1>1, CommandAssumption DEF GroupIsBorn, End, TcTypeOK
<1> QED BY <1>1, <1>2, <1>3, <1>4 DEF End, TcTypeOK

\* The steps of the harness keep the invariant.
LEMMA TcHarnessKeeps ==
  ASSUME TcInv, HarnessStep
  PROVE  TcInv'
<1> USE CommandAssumption DEF TcInv, QuietUntilTimeOut, GroupIsDead,
      OutputIsComplete, OnlyTimeOutsAreSignalled, Returned, Group
<1>1. CASE Finish
  BY <1>1 DEF Finish, Complete, TcTypeOK, GroupIsBorn, Running, tcCommand
<1>2. CASE TimeOut
  <2>1. End(group \ ignoring, "terminated") /\ stage' = "grace"
        /\ UNCHANGED <<harness, timed_out, exit_code>>
    BY <1>2 DEF TimeOut, result
  <2>2. TcTypeOK' /\ GroupIsBorn' BY <2>1, SignalFacts DEF TcTypeOK
  <2>3. ~timed_out
    BY <1>2 DEF TimeOut
  <2> QED BY <2>1, <2>2, <2>3
<1>3. CASE Escalate
  <2>1. End(group, "killed") /\ stage' = "final"
        /\ UNCHANGED <<harness, timed_out, exit_code>>
    BY <1>3 DEF Escalate, result
  <2>2. TcTypeOK' /\ GroupIsBorn' BY <2>1, SignalFacts DEF TcTypeOK
  <2>3. ~timed_out
    BY <1>3 DEF Escalate
  <2> QED BY <2>1, <2>2, <2>3
<1>4. CASE KillTree
  <2>1. End(group, "killed") /\ harness' = harness /\ harness = "sandbox"
        /\ stage' = "returned" /\ timed_out' = TRUE /\ exit_code' = "expired"
    BY <1>4 DEF KillTree
  <2>2. (Running \cap group)' = {}
    BY <2>1, SignalFacts
  <2>3. TcTypeOK' /\ GroupIsBorn' BY <2>1, SignalFacts DEF TcTypeOK
  <2> QED BY <2>1, <2>2, <2>3
<1>5. CASE KillLeader
  <2>1. End({Leader}, "killed") /\ harness' = harness /\ harness = "probe"
        /\ stage' = "returned" /\ timed_out' = TRUE /\ exit_code' = "expired"
    BY <1>5 DEF KillLeader
  <2>2. TcTypeOK' /\ GroupIsBorn' BY <2>1, SignalFacts DEF TcTypeOK
  <2> QED BY <2>1, <2>2
<1> QED BY <1>1, <1>2, <1>3, <1>4, <1>5 DEF HarnessStep

\* Every step keeps the invariant.
LEMMA TcStepSound == TcInv /\ [TcNext]_tcVars => TcInv'
<1> SUFFICES ASSUME TcInv, [TcNext]_tcVars PROVE TcInv' OBVIOUS
<1>1. CASE HarnessStep BY <1>1, TcHarnessKeeps
<1>2. CASE \E p \in Proc : TcProcessStep(p) BY <1>2, TcProcessKeeps
<1>3. CASE UNCHANGED tcVars
  BY <1>3 DEF tcVars, tcCommand, result, TcInv, TcTypeOK, GroupIsBorn, QuietUntilTimeOut, GroupIsDead,
     OutputIsComplete, OnlyTimeOutsAreSignalled, Running, Returned
<1> QED BY <1>1, <1>2, <1>3 DEF TcNext, TcProcessStep

\* The invariant holds in every reachable state.
LEMMA TcInvariance == TcSpec => []TcInv
  BY TcInitSound, TcStepSound, PTL DEF TcSpec

\* Every variable keeps its type: what the harness's Popen reports is how the
\* leader ended, and no dead process holds a pipe.
THEOREM CommandsAreTyped == TcSpec => []TcTypeOK
<1>1. TcInv => TcTypeOK BY DEF TcInv
<1> QED BY <1>1, TcInvariance, PTL

\* _terminate_process_tree of the sandbox leaves nothing running in the group,
\* however many processes it had and whatever they did about SIGTERM.
THEOREM SandboxKillsTheGroup == TcSpec => []GroupIsDead
<1>1. TcInv => GroupIsDead BY DEF TcInv
<1> QED BY <1>1, TcInvariance, PTL

\* When run_isolated_command returns, nobody can write to its pipes any more.
THEOREM HookReadsEverything == TcSpec => []OutputIsComplete
<1>1. TcInv => OutputIsComplete BY DEF TcInv
<1> QED BY <1>1, TcInvariance, PTL

\* A result that is not marked timed_out is that of a command nobody signalled.
THEOREM NoSilentSignal == TcSpec => []OnlyTimeOutsAreSignalled
<1>1. TcInv => OnlyTimeOutsAreSignalled BY DEF TcInv
<1> QED BY <1>1, TcInvariance, PTL

\* What a caller may rely on when a harness has returned: who is dead, what has been
\* read, and what was signalled, for any set of processes.
THEOREM CommandsAreSafe == TcSpec => []ReturnIsClean
  BY CommandsAreTyped, SandboxKillsTheGroup, HookReadsEverything, NoSilentSignal, PTL DEF ReturnIsClean
-----------------------------------------------------------------------------
\* PathOracle, for any number of threads, directories and listings: every directory
\* is scanned at most once, its published listing never changes, and the locking
\* protocol implements SharedListing.

USE EmptyListingAssumption, AbsenceAssumption

\* An oracle that has listed nothing satisfies the invariant.
LEMMA InitEstablishesIInv == Init => IInv
  BY DEF Init, IInv, TypeOK, CallsHaveDirs, LocksAreShared, InsideHoldsLock,
         ScansAreAccounted, ScannedAtMostOnce, Control, Inside, LockObject

\* Two threads inside the with block of one directory are the same thread.
LEMMA MutualExclusion ==
  ASSUME IInv, NEW t \in Thread, NEW u \in Thread,
         pc[t] \in Inside, pc[u] \in Inside, parent[t] = parent[u]
  PROVE  t = u
  BY DEF IInv, InsideHoldsLock, LocksAreShared

\* A call in progress is about a directory, and the thread's lock object exists.
LEMMA CallFacts ==
  ASSUME IInv, NEW t \in Thread, pc[t] # "idle"
  PROVE  /\ parent[t] \in Dir
         /\ pc[t] \in {"enter"} \cup Inside =>
              scanLock[t] = locks[parent[t]] /\ scanLock[t] \in LockObject
  <1>1. parent[t] \in Dir
    BY DEF IInv, CallsHaveDirs, TypeOK
  <1>2. ASSUME pc[t] \in {"enter"} \cup Inside
        PROVE  scanLock[t] = locks[parent[t]] /\ scanLock[t] \in LockObject
    BY <1>1, <1>2 DEF IInv, LocksAreShared, TypeOK
  <1> QED BY <1>1, <1>2

\* Every step of every thread preserves the inductive invariant.  Each action
\* moves a program counter, so each conjunct that speaks of one is re-established.
LEMMA StepPreservesIInv == IInv /\ [Next]_vars => IInv'
<1> SUFFICES ASSUME IInv, [Next]_vars PROVE IInv'
  OBVIOUS
<1> USE DEF Inside, Control, LockObject
<1>1. ASSUME NEW t \in Thread, NEW d \in Dir, Call(t, d) PROVE IInv'
  <2>1. TypeOK'
    BY <1>1 DEF IInv, TypeOK, Call, Goto
  <2>2. CallsHaveDirs'
    BY <1>1 DEF IInv, TypeOK, CallsHaveDirs, Call, Goto
  <2>3. LocksAreShared'
    BY <1>1 DEF IInv, TypeOK, LocksAreShared, Call, Goto
  <2>4. InsideHoldsLock'
    BY <1>1 DEF IInv, TypeOK, InsideHoldsLock, Call, Goto
  <2>5. ScansAreAccounted'
    BY <1>1 DEF IInv, TypeOK, ScansAreAccounted, Call, Goto
  <2>6. ScannedAtMostOnce'
    BY <1>1 DEF IInv, ScannedAtMostOnce, Call
  <2> QED BY <2>1, <2>2, <2>3, <2>4, <2>5, <2>6 DEF IInv
<1>2. ASSUME NEW t \in Thread, CachedHit(t) PROVE IInv'
  <2>0. parent[t] \in Dir
    BY <1>2, CallFacts DEF CachedHit
  <2>1. TypeOK'
    BY <1>2, <2>0 DEF IInv, TypeOK, CachedHit, Return, Goto
  <2>2. CallsHaveDirs'
    BY <1>2, <2>0 DEF IInv, TypeOK, CallsHaveDirs, CachedHit, Return, Goto
  <2>3. LocksAreShared'
    BY <1>2, <2>0 DEF IInv, TypeOK, CallsHaveDirs, LocksAreShared, CachedHit, Return, Goto
  <2>4. InsideHoldsLock'
    BY <1>2, <2>0 DEF IInv, TypeOK, CallsHaveDirs, LocksAreShared, InsideHoldsLock, CachedHit, Return, Goto
  <2>5. ScansAreAccounted'
    BY <1>2, <2>0 DEF IInv, TypeOK, CallsHaveDirs, ScansAreAccounted, CachedHit, Return, Goto
  <2>6. ScannedAtMostOnce'
    BY <1>2 DEF IInv, ScannedAtMostOnce, CachedHit
  <2> QED BY <2>1, <2>2, <2>3, <2>4, <2>5, <2>6 DEF IInv
<1>3. ASSUME NEW t \in Thread, CachedMiss(t) PROVE IInv'
  <2>0. parent[t] \in Dir
    BY <1>3, CallFacts DEF CachedMiss
  <2>1. TypeOK'
    BY <1>3, <2>0 DEF IInv, TypeOK, CachedMiss, Goto
  <2>2. CallsHaveDirs'
    BY <1>3, <2>0 DEF IInv, TypeOK, CallsHaveDirs, CachedMiss, Goto
  <2>3. LocksAreShared'
    BY <1>3, <2>0 DEF IInv, TypeOK, CallsHaveDirs, LocksAreShared, CachedMiss, Goto
  <2>4. InsideHoldsLock'
    BY <1>3, <2>0 DEF IInv, TypeOK, CallsHaveDirs, LocksAreShared, InsideHoldsLock, CachedMiss, Goto
  <2>5. ScansAreAccounted'
    BY <1>3, <2>0 DEF IInv, TypeOK, CallsHaveDirs, ScansAreAccounted, CachedMiss, Goto
  <2>6. ScannedAtMostOnce'
    BY <1>3 DEF IInv, ScannedAtMostOnce, CachedMiss
  <2> QED BY <2>1, <2>2, <2>3, <2>4, <2>5, <2>6 DEF IInv
<1>4. ASSUME NEW t \in Thread, ScanLock(t) PROVE IInv'
  <2>0. parent[t] \in Dir
    BY <1>4, CallFacts DEF ScanLock
  <2>1. TypeOK'
    BY <1>4, <2>0 DEF IInv, TypeOK, ScanLock, Goto
  <2>2. CallsHaveDirs'
    BY <1>4, <2>0 DEF IInv, TypeOK, CallsHaveDirs, ScanLock, Goto
  <2>3. LocksAreShared'
    BY <1>4, <2>0 DEF IInv, TypeOK, CallsHaveDirs, LocksAreShared, ScanLock, Goto
  <2>4. InsideHoldsLock'
    BY <1>4, <2>0 DEF IInv, TypeOK, CallsHaveDirs, LocksAreShared, InsideHoldsLock, ScanLock, Goto
  <2>5. ScansAreAccounted'
    BY <1>4, <2>0 DEF IInv, TypeOK, CallsHaveDirs, ScansAreAccounted, ScanLock, Goto
  <2>6. ScannedAtMostOnce'
    BY <1>4 DEF IInv, ScannedAtMostOnce, ScanLock
  <2> QED BY <2>1, <2>2, <2>3, <2>4, <2>5, <2>6 DEF IInv
<1>5. ASSUME NEW t \in Thread, Enter(t) PROVE IInv'
  <2>0. parent[t] \in Dir /\ scanLock[t] = locks[parent[t]] /\ scanLock[t] \in LockObject
    BY <1>5, CallFacts DEF Enter
  <2>1. TypeOK'
    BY <1>5, <2>0 DEF IInv, TypeOK, Enter, Goto
  <2>2. CallsHaveDirs'
    BY <1>5, <2>0 DEF IInv, TypeOK, CallsHaveDirs, Enter, Goto
  <2>3. LocksAreShared'
    BY <1>5, <2>0 DEF IInv, TypeOK, CallsHaveDirs, LocksAreShared, Enter, Goto
  <2>4. InsideHoldsLock'
    BY <1>5, <2>0 DEF IInv, TypeOK, CallsHaveDirs, LocksAreShared, InsideHoldsLock, Enter, Goto
  <2>5. ScansAreAccounted'
    BY <1>5, <2>0 DEF IInv, TypeOK, CallsHaveDirs, ScansAreAccounted, Enter, Goto
  <2>6. ScannedAtMostOnce'
    BY <1>5 DEF IInv, ScannedAtMostOnce, Enter
  <2> QED BY <2>1, <2>2, <2>3, <2>4, <2>5, <2>6 DEF IInv
<1>6. ASSUME NEW t \in Thread, SettledHit(t) PROVE IInv'
  <2>0. parent[t] \in Dir /\ scanLock[t] = locks[parent[t]] /\ scanLock[t] \in LockObject
    BY <1>6, CallFacts DEF SettledHit
  <2>1. TypeOK'
    BY <1>6, <2>0 DEF IInv, TypeOK, SettledHit, Return, Goto
  <2>2. CallsHaveDirs'
    BY <1>6, <2>0 DEF IInv, TypeOK, CallsHaveDirs, SettledHit, Return, Goto
  <2>3. LocksAreShared'
    BY <1>6, <2>0 DEF IInv, TypeOK, CallsHaveDirs, LocksAreShared, SettledHit, Return, Goto
  <2>4. InsideHoldsLock'
    BY <1>6, <2>0 DEF IInv, TypeOK, CallsHaveDirs, LocksAreShared, InsideHoldsLock, SettledHit, Return, Goto
  <2>5. ScansAreAccounted'
    BY <1>6, <2>0 DEF IInv, TypeOK, CallsHaveDirs, ScansAreAccounted, SettledHit, Return, Goto
  <2>6. ScannedAtMostOnce'
    BY <1>6 DEF IInv, ScannedAtMostOnce, SettledHit
  <2> QED BY <2>1, <2>2, <2>3, <2>4, <2>5, <2>6 DEF IInv
<1>7. ASSUME NEW t \in Thread, SettledMiss(t) PROVE IInv'
  <2>0. parent[t] \in Dir /\ scanLock[t] = locks[parent[t]] /\ scanLock[t] \in LockObject
    BY <1>7, CallFacts DEF SettledMiss
  <2>1. TypeOK'
    BY <1>7, <2>0 DEF IInv, TypeOK, SettledMiss, Goto
  <2>2. CallsHaveDirs'
    BY <1>7, <2>0 DEF IInv, TypeOK, CallsHaveDirs, SettledMiss, Goto
  <2>3. LocksAreShared'
    BY <1>7, <2>0 DEF IInv, TypeOK, CallsHaveDirs, LocksAreShared, SettledMiss, Goto
  <2>4. InsideHoldsLock'
    BY <1>7, <2>0 DEF IInv, TypeOK, CallsHaveDirs, LocksAreShared, InsideHoldsLock, SettledMiss, Goto
  <2>5. ScansAreAccounted'
    BY <1>7, <2>0, MutualExclusion DEF IInv, TypeOK, CallsHaveDirs, ScansAreAccounted, SettledMiss, Goto
  <2>6. ScannedAtMostOnce'
    BY <1>7 DEF IInv, ScannedAtMostOnce, SettledMiss
  <2> QED BY <2>1, <2>2, <2>3, <2>4, <2>5, <2>6 DEF IInv
<1>8. ASSUME NEW t \in Thread, Scan(t) PROVE IInv'
  <2>0. parent[t] \in Dir /\ scanLock[t] = locks[parent[t]] /\ scanLock[t] \in LockObject
    BY <1>8, CallFacts DEF Scan
  <2>1. TypeOK'
    BY <1>8, <2>0 DEF IInv, TypeOK, Scan, ScanDirectory, Goto
  <2>2. CallsHaveDirs'
    BY <1>8, <2>0 DEF IInv, TypeOK, CallsHaveDirs, Scan, ScanDirectory, Goto
  <2>3. LocksAreShared'
    BY <1>8, <2>0 DEF IInv, TypeOK, CallsHaveDirs, LocksAreShared, Scan, ScanDirectory, Goto
  <2>4. InsideHoldsLock'
    BY <1>8, <2>0 DEF IInv, TypeOK, CallsHaveDirs, LocksAreShared, InsideHoldsLock, Scan, ScanDirectory, Goto
  <2>5. ScansAreAccounted'
    BY <1>8, <2>0, MutualExclusion DEF IInv, TypeOK, CallsHaveDirs, ScansAreAccounted, Scan, ScanDirectory, Goto
  <2>6. ScannedAtMostOnce'
    BY <1>8, <2>0 DEF IInv, TypeOK, ScansAreAccounted, ScannedAtMostOnce, Scan
  <2> QED BY <2>1, <2>2, <2>3, <2>4, <2>5, <2>6 DEF IInv
<1>9. ASSUME NEW t \in Thread, Store(t) PROVE IInv'
  <2>0. parent[t] \in Dir /\ scanLock[t] = locks[parent[t]] /\ scanLock[t] \in LockObject
    BY <1>9, CallFacts DEF Store
  <2>1. TypeOK'
    BY <1>9, <2>0 DEF IInv, TypeOK, Store, Goto
  <2>2. CallsHaveDirs'
    BY <1>9, <2>0 DEF IInv, TypeOK, CallsHaveDirs, Store, Goto
  <2>3. LocksAreShared'
    BY <1>9, <2>0 DEF IInv, TypeOK, CallsHaveDirs, LocksAreShared, Store, Goto
  <2>4. InsideHoldsLock'
    BY <1>9, <2>0 DEF IInv, TypeOK, CallsHaveDirs, LocksAreShared, InsideHoldsLock, Store, Goto
  <2>5. ScansAreAccounted'
    BY <1>9, <2>0, MutualExclusion DEF IInv, TypeOK, CallsHaveDirs, ScansAreAccounted, Store, Goto
  <2>6. ScannedAtMostOnce'
    BY <1>9 DEF IInv, ScannedAtMostOnce, Store
  <2> QED BY <2>1, <2>2, <2>3, <2>4, <2>5, <2>6 DEF IInv
<1>10. ASSUME NEW t \in Thread, Unlock(t) PROVE IInv'
  <2>0. parent[t] \in Dir /\ scanLock[t] = locks[parent[t]] /\ scanLock[t] \in LockObject
    BY <1>10, CallFacts DEF Unlock
  <2>1. TypeOK'
    BY <1>10, <2>0 DEF IInv, TypeOK, Unlock, Return, Goto
  <2>2. CallsHaveDirs'
    BY <1>10, <2>0 DEF IInv, TypeOK, CallsHaveDirs, Unlock, Return, Goto
  <2>3. LocksAreShared'
    BY <1>10, <2>0 DEF IInv, TypeOK, CallsHaveDirs, LocksAreShared, Unlock, Return, Goto
  <2>4. InsideHoldsLock'
    BY <1>10, <2>0 DEF IInv, TypeOK, CallsHaveDirs, LocksAreShared, InsideHoldsLock, Unlock, Return, Goto
  <2>5. ScansAreAccounted'
    BY <1>10, <2>0 DEF IInv, TypeOK, CallsHaveDirs, ScansAreAccounted, Unlock, Return, Goto
  <2>6. ScannedAtMostOnce'
    BY <1>10 DEF IInv, ScannedAtMostOnce, Unlock
  <2> QED BY <2>1, <2>2, <2>3, <2>4, <2>5, <2>6 DEF IInv
<1>11. CASE UNCHANGED vars
  BY <1>11 DEF vars, IInv, TypeOK, CallsHaveDirs, LocksAreShared, InsideHoldsLock,
           ScansAreAccounted, ScannedAtMostOnce
<1> QED BY <1>1, <1>2, <1>3, <1>4, <1>5, <1>6, <1>7, <1>8, <1>9, <1>10, <1>11 DEF Next, ListingStep

\* The invariant holds in every reachable state.
LEMMA IInvHolds == Spec => []IInv
  BY InitEstablishesIInv, StepPreservesIInv, PTL DEF Spec

\* Every value listing() keeps or returns has the type the code gives it; in
\* particular a thread never publishes or returns a missing scan.
THEOREM TypeCorrect == Spec => []TypeOK
<1>1. IInv => TypeOK
  BY DEF IInv
<1> QED BY <1>1, IInvHolds, PTL

\* listing()'s "at most once per oracle", for any number of threads and
\* directories and whatever the scans find.
THEOREM AtMostOneScan == Spec => []ScannedAtMostOnce
<1>1. IInv => ScannedAtMostOnce
  BY DEF IInv
<1> QED BY <1>1, IInvHolds, PTL

\* No step replaces a listing that has been published: Store is reached only
\* by the one thread that holds the directory's lock and found nothing stored.
LEMMA StepKeepsListings ==
  IInv /\ [Next]_vars =>
    [\A d \in Dir : listings[d] # Unscanned => listings'[d] = listings[d]]_vars
<1> SUFFICES ASSUME IInv, Next, NEW d \in Dir, listings[d] # Unscanned
             PROVE  listings'[d] = listings[d]
  OBVIOUS
<1>1. ASSUME NEW t \in Thread, Store(t) PROVE listings'[d] = listings[d]
  <2>1. parent[t] \in Dir /\ listings[parent[t]] = Unscanned
    BY <1>1, CallFacts DEF Store, IInv, ScansAreAccounted
  <2> QED BY <1>1, <2>1 DEF Store, IInv, TypeOK
<1>2. ASSUME NEW t \in Thread, ListingStep(t), ~Store(t) PROVE listings' = listings
  BY <1>2 DEF ListingStep, CachedHit, CachedMiss, ScanLock, Enter, SettledHit,
              SettledMiss, Scan, Unlock
<1>3. ASSUME NEW t \in Thread, NEW e \in Dir, Call(t, e) PROVE listings' = listings
  BY <1>3 DEF Call
<1> QED BY <1>1, <1>2, <1>3 DEF Next

\* The published listing of a directory never changes, in every schedule.
THEOREM PublishedListingsAreStable == Spec => ListingIsStable
  BY IInvHolds, StepKeepsListings, PTL DEF Spec, ListingIsStable

\* Each step of the locking protocol is a step of SharedListing or a stutter.
LEMMA StepRefines == IInv /\ [Next]_vars => [Abstract!Next]_(Abstract!vars)
<1> SUFFICES ASSUME IInv, [Next]_vars PROVE [Abstract!Next]_(Abstract!vars)
  OBVIOUS
<1> USE DEF Inside
<1>1. ASSUME NEW t \in Thread, NEW d \in Dir, Call(t, d) PROVE Abstract!Ask(t, d)
  BY <1>1 DEF Call, Abstract!Ask, IInv, CallsHaveDirs
<1>2. ASSUME NEW t \in Thread, CachedHit(t) \/ SettledHit(t) \/ Unlock(t)
      PROVE  Abstract!Reply(t)
  <2>1. parent[t] # NoDir
    BY <1>2, CallFacts DEF CachedHit, SettledHit, Unlock
  <2>2. ASSUME Unlock(t)
        PROVE  scanned[t] = listings[parent[t]] /\ scanned[t] # Unscanned
    BY <2>2 DEF Unlock, IInv, TypeOK, ScansAreAccounted
  <2> QED BY <1>2, <2>1, <2>2 DEF CachedHit, SettledHit, Unlock, Return, Abstract!Reply
<1>3. ASSUME NEW t \in Thread, Store(t)
      PROVE  parent[t] \in Dir /\ scanned[t] \in Listing
             /\ Abstract!TakeSnapshot(parent[t], scanned[t])
  <2>1. parent[t] \in Dir
    BY <1>3, CallFacts DEF Store
  <2>2. scanned[t] \in Listing /\ listings[parent[t]] = Unscanned
    BY <1>3 DEF Store, IInv, TypeOK, ScansAreAccounted
  <2> QED BY <1>3, <2>1, <2>2 DEF Store, Abstract!TakeSnapshot
<1>4. ASSUME NEW t \in Thread,
             CachedMiss(t) \/ ScanLock(t) \/ Enter(t) \/ SettledMiss(t) \/ Scan(t)
      PROVE  UNCHANGED Abstract!vars
  BY <1>4 DEF CachedMiss, ScanLock, Enter, SettledMiss, Scan, Abstract!vars
<1>5. CASE UNCHANGED vars
  BY <1>5 DEF vars, Abstract!vars
<1> QED BY <1>1, <1>2, <1>3, <1>4, <1>5 DEF Next, ListingStep, Abstract!Next

\* The double-checked per-directory locking implements SharedListing: one
\* snapshot per directory, and every answer is that snapshot.
THEOREM RefinesSharedListing == Spec => ImplementsSharedListing
<1>1. Init => Abstract!Init
  BY DEF Init, Abstract!Init
<1> QED BY <1>1, IInvHolds, StepRefines, PTL DEF Spec, ImplementsSharedListing, Abstract!Spec

\* Any number of threads may ask one oracle: its state is whole, and no directory is
\* scanned twice.
THEOREM OracleIsSafe == Spec => []ScansAreShared
  BY TypeCorrect, AtMostOneScan, PTL DEF ScansAreShared
=============================================================================
