----------------------------- MODULE ProjectBoard -----------------------------
(***************************************************************************)
(* The board of the project manager (sdlc_project_manager.py): passes of   *)
(* sync fold the last export of defects and deliverables into it, while    *)
(* the export is rewritten (resource_iteration_workbench.py), the roadmap  *)
(* is ingested (roadmap_ingest.py) and cards are moved by hand.  The       *)
(* manager knows a card by its title, and several may have one: a headline *)
(* names a file without its directory.  A list of cards is a function on   *)
(* them; in which order it holds them is left open.  None that the tools   *)
(* write waits for another card, so nothing here does.                     *)
(***************************************************************************)
EXTENDS Integers, FiniteSets, Functions

CONSTANTS
  Defect, Deliverable,   \* of the audits and of the roadmap: a title, and a place
  Truncated,       \* a file truncated and not yet written: no JSON
  MaxPasses, MaxAudits, MaxMoves, MaxBreaks   \* bounds of the runs

\* What the roadmap's cards are called begins with [ROADMAP]; no category of a
\* finding is.
ASSUME TitleAssumption == \A f \in Defect : \A i \in Deliverable : f.title # i.title

VARIABLES
  pbRoadmap,   \* the open items: their score, and whether they are blocked
  pbScan,      \* the export: its cards, or Truncated
  pbBoard,     \* the board: its cards, or Truncated
  pbPass,      \* where the pass of sync is
  pbCount,     \* passes, audits, moves by hand and kills so far
  pbDisturbed  \* somebody else has written the board since the pass has read it

pbVars == <<pbRoadmap, pbScan, pbBoard, pbPass, pbCount, pbDisturbed>>

TitlesOf(cards) == {c.title : c \in DOMAIN cards}
AtRest == [step |-> "rest"]
Bounds == [passes |-> MaxPasses, audits |-> MaxAudits, moves |-> MaxMoves, breaks |-> MaxBreaks]

Counts(what) == pbCount[what] < Bounds[what] /\ pbCount' = [pbCount EXCEPT ![what] = @ + 1]

\* Findings all weigh the same.
DefectCard == [state |-> "Backlog", blocked |-> FALSE, score |-> 2]
to_backlog_task(item) == [state |-> "Backlog", blocked |-> item.blocked, score |-> item.score]

PbInit ==
  /\ pbRoadmap = [c \in Deliverable |-> [score |-> 3, blocked |-> FALSE]]
  /\ pbScan = <<>> /\ pbBoard = <<>>
  /\ pbPass = AtRest /\ pbDisturbed = FALSE
  /\ pbCount = [b \in DOMAIN Bounds |-> 0]

\* The workbench exports what it finds, and nothing else, to the scan or straight to
\* the board.
export_feedback_to_sdlc ==
  /\ Counts("audits")
  /\ \E found \in SUBSET Defect :
       LET exported == [c \in found |-> DefectCard] IN
       \/ pbScan' = exported /\ UNCHANGED <<pbBoard, pbDisturbed>>
       \/ pbBoard' = exported /\ pbDisturbed' = TRUE /\ UNCHANGED pbScan
  /\ UNCHANGED <<pbRoadmap, pbPass>>

\* An item is checked off, loses weight or is blocked.
Plan ==
  /\ Counts("audits")
  /\ \E c \in DOMAIN pbRoadmap :
       \/ pbRoadmap' = Restrict(pbRoadmap, DOMAIN pbRoadmap \ {c})
       \/ \E item \in {[score |-> 1, blocked |-> FALSE], [score |-> 3, blocked |-> TRUE]} :
            pbRoadmap' = [pbRoadmap EXCEPT ![c] = item]
  /\ UNCHANGED <<pbScan, pbBoard, pbPass, pbDisturbed>>

\* A file that is no JSON is taken for empty; roadmap cards are replaced.
Ingested(file) ==
  LET others == IF file = Truncated THEN {} ELSE DOMAIN file \ Deliverable
  IN [c \in others \cup DOMAIN pbRoadmap |->
        IF c \in DOMAIN pbRoadmap THEN to_backlog_task(pbRoadmap[c]) ELSE file[c]]

merge_into_backlog ==
  /\ Counts("audits")
  /\ \/ pbScan' = Ingested(pbScan) /\ UNCHANGED <<pbBoard, pbDisturbed>>
     \/ pbBoard' = Ingested(pbBoard) /\ pbDisturbed' = TRUE /\ UNCHANGED pbScan
  /\ UNCHANGED <<pbRoadmap, pbPass>>

\* A card is moved by hand.
Move ==
  /\ Counts("moves") /\ pbBoard # Truncated
  /\ \E c \in DOMAIN pbBoard : \E state \in {"In Progress", "Done"} :
       pbBoard' = [pbBoard EXCEPT ![c].state = state]
  /\ pbDisturbed' = TRUE
  /\ UNCHANGED <<pbRoadmap, pbScan, pbPass>>
-----------------------------------------------------------------------------
\* current_by_id: the cards of a scan by title, of several with one the last.
Indexes(scan) ==
  {index \in [TitlesOf(scan) -> DOMAIN scan] : \A title \in TitlesOf(scan) : index[title].title = title}

\* What is reported no more is done; what was done already is dropped.
_reconcile_defect_card(card, reported) ==
  IF reported THEN {card}
  ELSE IF card.state = "Done" THEN {} ELSE {[card EXCEPT !.state = "Done"]}

\* Mutant of _refresh_roadmap_card: the card stays as it was first ingested.
_refresh_roadmap_card_frozen(card, fresh) == card

\* The state of a card is the board's own.
_refresh_roadmap_card(card, fresh) == [fresh EXCEPT !.state = card.state]

\* A scan without roadmap cards says nothing of them.
roadmap_ingested(scan) == DOMAIN scan \cap Deliverable # {}

_reconcile_roadmap_card(card, title, scan, index) ==
  IF title \in DOMAIN index THEN {_refresh_roadmap_card(card, scan[index[title]])}
  ELSE IF roadmap_ingested(scan) THEN {[card EXCEPT !.state = "Done"]} ELSE {card}

\* Of a title that the board does not have, one card is opened.
_append_unseen_tasks(known, index) == {index[title] : title \in DOMAIN index \ {c.title : c \in known}}

reconcile_backlog(board, scan, index) ==
  LET kept(c) == IF c \in Deliverable THEN _reconcile_roadmap_card(board[c], c.title, scan, index)
                 ELSE _reconcile_defect_card(board[c], c.title \in DOMAIN index)
      known == {c \in DOMAIN board : kept(c) # {}}
  IN [c \in known \cup _append_unseen_tasks(known, index) |->
        IF c \in known THEN CHOOSE card \in kept(c) : TRUE ELSE scan[c]]

\* A candidate for promotion; one that is Ready is a candidate no more.
Eligible(board) == {c \in DOMAIN board : board[c].state = "Backlog" /\ ~board[c].blocked}

_find_promotion_candidate(board) ==
  {c \in Eligible(board) : \A d \in Eligible(board) : board[d].score <= board[c].score}

_promote_card(title, card, target_title) ==
  IF title = target_title THEN [card EXCEPT !.state = "Ready"] ELSE card

\* The first of those that weigh most is promoted, and with it every card of its
\* title, whatever became of that.
advance_ready_item(board) ==
  IF Eligible(board) = {} THEN {board}
  ELSE {[c \in DOMAIN board |-> _promote_card(c.title, board[c], target.title)] :
          target \in _find_promotion_candidate(board)}
-----------------------------------------------------------------------------
\* A file that is no JSON ends the command.
ReadBoard ==
  /\ pbPass = AtRest /\ pbBoard # Truncated /\ Counts("passes")
  /\ pbPass' = [step |-> "scan", board |-> pbBoard] /\ pbDisturbed' = FALSE
  /\ UNCHANGED <<pbRoadmap, pbScan, pbBoard>>

\* Without --scan the board is its own scan.
ReadScan ==
  /\ pbPass.step = "scan"
  /\ \E scan \in {pbScan, pbBoard} \ {Truncated} : \E index \in Indexes(scan) :
       \E merged \in advance_ready_item(reconcile_backlog(pbPass.board, scan, index)) :
         pbPass' = [step |-> "write", board |-> pbPass.board, scan |-> scan, index |-> index,
                    merged |-> merged]
  /\ UNCHANGED <<pbRoadmap, pbScan, pbBoard, pbCount, pbDisturbed>>

WriteBoard ==
  /\ pbPass.step = "write" /\ pbPass' = AtRest
  /\ pbBoard' = pbPass.merged
  /\ UNCHANGED <<pbRoadmap, pbScan, pbCount, pbDisturbed>>

\* The process dies while it writes, or the export's does.
Break ==
  /\ Counts("breaks")
  /\ \/ pbPass.step = "write" /\ pbPass' = AtRest /\ pbBoard' = Truncated /\ pbDisturbed' = TRUE
        /\ UNCHANGED pbScan
     \/ pbScan' = Truncated /\ UNCHANGED <<pbBoard, pbPass, pbDisturbed>>
  /\ UNCHANGED pbRoadmap

PbNext ==
  \/ export_feedback_to_sdlc \/ Plan \/ merge_into_backlog \/ Move
  \/ ReadBoard \/ ReadScan \/ WriteBoard \/ Break

PbSpec == PbInit /\ [][PbNext]_pbVars
-----------------------------------------------------------------------------
\* A pass ends, and nobody else has written the board since it was read.
Passed == pbPass.step = "write" /\ pbBoard' = pbPass.merged /\ pbPass' = AtRest /\ ~pbDisturbed

\* No work disappears in a pass: a card that is dropped was seen done on the board
\* before, and none goes back to the backlog that had left it.
NothingVanishes ==
  \A c \in DOMAIN pbBoard :
    IF c \in DOMAIN pbBoard' THEN pbBoard'[c].state = "Backlog" => pbBoard[c].state = "Backlog"
    ELSE pbBoard[c].state = "Done"

\* After a pass the board has every title the scan reports, and what is open on it
\* and of the kind the scan speaks of, the scan reports.
BoardFollowsTheScan ==
  LET scan == pbPass.scan IN
  /\ TitlesOf(scan) \subseteq TitlesOf(pbBoard')
  /\ \A c \in DOMAIN pbBoard' : c.title \notin TitlesOf(scan) =>
       IF c \in Defect \/ DOMAIN scan \cap Deliverable # {} THEN pbBoard'[c].state = "Done"
       ELSE c \in DOMAIN pbBoard /\ pbBoard'[c].state \in {pbBoard[c].state, "Ready"}

\* What a pass makes Ready has one title, and it does so on account of a card that
\* waited in the backlog, that nothing blocks, and that none outweighs of those that
\* are left there, by what the scan says of their titles in that pass.
PromotionIsCurrent ==
  LET says(c) == pbPass.scan[pbPass.index[c.title]]
      reported == {c \in DOMAIN pbBoard' : c.title \in TitlesOf(pbPass.scan)}
      ready == {c \in DOMAIN pbBoard' : pbBoard'[c].state = "Ready" /\
                  ~(c \in DOMAIN pbBoard /\ pbBoard[c].state = "Ready")}
  IN ready # {} =>
       \E target \in ready :
         /\ \A c \in ready : c.title = target.title
         /\ target \in DOMAIN pbBoard => pbBoard[target].state = "Backlog"
         /\ target \in reported => ~says(target).blocked
         /\ \A c \in reported :
              pbBoard'[c].state = "Backlog" /\ ~says(c).blocked /\ target \in reported =>
                says(c).score <= says(target).score

\* What a pass of the synchronisation makes of the board and the scan it has read.
PassesAreFaithful == [][Passed => NothingVanishes /\ BoardFollowsTheScan /\ PromotionIsCurrent]_pbVars
=============================================================================
