------------------------------ MODULE DocFences ------------------------------
(***************************************************************************)
(* The readers of fenced code in a document and its repair                 *)
(* (docs_validator.py, doc_core.py), as operators.  A line is a run of     *)
(* ticks or tildes, NoFence in a line of text, its length and the word     *)
(* behind it; whether it is indented so far that to CommonMark it is no    *)
(* fence, which only fenced_line_flags looks at, for the others strip the  *)
(* line; and of a line of text whether it ends in a space or holds a       *)
(* diagram's label that should be quoted.                                  *)
(***************************************************************************)
EXTENDS Integers, Sequences, SequencesExt

CONSTANTS NoFence, NoInfo, NoBlock

ASSUME FenceAssumption == NoFence \notin {"tick", "tilde"} /\ NoInfo # "mermaid"

Fence(line) == line.run # NoFence
Ticks3(line) == line.run = "tick"

\* A reader goes through the lines with the fence that is open, or NoBlock; what it
\* holds before each line and behind the last.
ReadBy(reader(_, _), doc) ==
  LET held[i \in 1..(Len(doc) + 1)] ==
        IF i = 1 THEN NoBlock ELSE reader(held[i - 1], doc[i - 1])
  IN held

\* The lines that are fenced or fences, for what a reader holds.
Flags(states) ==
  [i \in 1..(Len(states) - 1) |-> states[i] # NoBlock \/ states[i + 1] # NoBlock]

Closes(line, open) ==
  line.run = open.run /\ line.length >= open.length /\ line.info = NoInfo

_process_fence_line(open, line) ==
  IF ~Fence(line) THEN open
  ELSE IF open = NoBlock THEN line
  ELSE IF Closes(line, open) THEN NoBlock ELSE open

_update_fence_state(open, line) ==
  IF ~Fence(line) \/ line.deep THEN open
  ELSE IF open = NoBlock THEN line
  ELSE IF Closes(line, open) THEN NoBlock ELSE open

fenced_line_flags(doc) == Flags(ReadBy(_update_fence_state, doc))

_handle_fence_transition(open, line) ==
  IF ~Fence(line) THEN open ELSE IF open = NoBlock THEN line ELSE NoBlock

_track_fence_marker(open, line) ==
  IF ~Fence(line) THEN open
  ELSE IF open = NoBlock THEN line
  ELSE IF line.run = open.run THEN NoBlock ELSE open

OpensMermaid(line) == Ticks3(line) /\ line.length = 3 /\ line.info = "mermaid"

_process_mermaid_line(open, line) ==
  IF OpensMermaid(line) THEN line ELSE IF open # NoBlock /\ Ticks3(line) THEN NoBlock ELSE open

\* With closing_fence_index, for "mermaid".
extract_fenced_blocks(open, line) ==
  IF open = NoBlock THEN IF OpensMermaid(line) THEN line ELSE NoBlock
  ELSE IF Ticks3(line) THEN NoBlock ELSE open
-----------------------------------------------------------------------------
\* What is found fault with: the lines that try to open a fence inside another, and
\* the fence that is open at the end.
_check_line_fences(doc) ==
  LET states == ReadBy(_process_fence_line, doc)
  IN [nested |-> {i \in DOMAIN doc :
        /\ states[i] # NoBlock /\ doc[i].run = states[i].run
        /\ doc[i].length >= states[i].length /\ doc[i].info # NoInfo},
      unclosed |-> Last(states) # NoBlock]

Accepted(doc) == _check_line_fences(doc) = [nested |-> {}, unclosed |-> FALSE]

\* Mutant of _fix_unclosed_fences: the fence that is added is of ticks.
_fix_unclosed_fences_ticks(doc) ==
  LET open == Last(ReadBy(_track_fence_marker, doc))
  IN IF open = NoBlock THEN doc
     ELSE Append(doc, [open EXCEPT !.info = NoInfo, !.deep = FALSE, !.run = "tick"])

\* The marker that opened what is still open is repeated.
_fix_unclosed_fences(doc) ==
  LET open == Last(ReadBy(_track_fence_marker, doc))
  IN IF open = NoBlock THEN doc ELSE Append(doc, [open EXCEPT !.info = NoInfo, !.deep = FALSE])

_fix_mermaid_blocks(doc) ==
  LET states == ReadBy(_process_mermaid_line, doc)
  IN [i \in DOMAIN doc |->
        IF states[i] # NoBlock /\ states[i + 1] # NoBlock /\ doc[i].text = "unquoted"
          THEN [doc[i] EXCEPT !.text = "clean"] ELSE doc[i]]

_fix_linebreak_hygiene(doc) ==
  LET flags == fenced_line_flags(doc)
  IN [i \in DOMAIN doc |->
        IF ~flags[i] /\ doc[i].text = "trailing" THEN [doc[i] EXCEPT !.text = "clean"] ELSE doc[i]]

auto_fix_content(doc) == _fix_linebreak_hygiene(_fix_mermaid_blocks(_fix_unclosed_fences(doc)))
=============================================================================
