---------------------------- MODULE FuzzCampaign ----------------------------
(***************************************************************************)
(* A campaign of the fuzz harness against one instrument (fuzz_harness.py, *)
(* fuzz_core.py), as operators.  A text is its characters, one of which    *)
(* ends a line.  What is wrong with an instrument is its faults, in the    *)
(* order in which their properties are asked for: the property, what       *)
(* stands before the colon of the detail, whether it gates a release, and  *)
(* the texts it shows on.                                                  *)
(***************************************************************************)
EXTENDS Integers, Sequences, SequencesExt, FiniteSetsExt

CONSTANTS
  NewLine,
  NoFailure,
  MaxRounds   \* max_rounds of shrink, 400

ASSUME FuzzAssumption == MaxRounds \in Nat

FirstFailure(faults, text) ==
  LET shown == {i \in DOMAIN faults : text \in faults[i].texts}
  IN IF shown = {} THEN NoFailure ELSE faults[Min(shown)]

_failure_class(failure) == <<failure.prop, failure.detail>>

\* Lines keep what ends them.
_lines(text) ==
  FoldLeft(LAMBDA lines, c :
             IF lines = <<>> \/ Last(Last(lines)) = NewLine THEN Append(lines, <<c>>)
             ELSE [lines EXCEPT ![Len(lines)] = Append(@, c)],
           <<>>, text)

\* Mutant of StillFails: any failure will do.
StillFailsSomehow(faults, prop, text) == FirstFailure(faults, text) # NoFailure

StillFails(faults, prop, text) ==
  LET found == FirstFailure(faults, text) IN found # NoFailure /\ found.prop = prop
-----------------------------------------------------------------------------
\* A window of chunk lines is left out, or else passed over.
_try_window(faults, prop, chunk, pass) ==
  LET candidate == SubSeq(pass.kept, 1, pass.index - 1)
                   \o SubSeq(pass.kept, pass.index + chunk, Len(pass.kept))
      tried == [pass EXCEPT !.used = @ + 1]
  IN IF pass.index > Len(pass.kept) THEN pass
     ELSE IF StillFails(faults, prop, FlattenSeq(candidate))
       THEN [tried EXCEPT !.kept = candidate, !.removed = TRUE]
     ELSE [tried EXCEPT !.index = @ + chunk]

\* One pass over the lines, as far as the budget goes.
_shrink_pass(faults, prop, lines, chunk, budget) ==
  LET tries == Min({budget, Len(lines)})
      pass[n \in 0..tries] ==
        IF n = 0 THEN [kept |-> lines, index |-> 1, removed |-> FALSE, used |-> 0]
        ELSE _try_window(faults, prop, chunk, pass[n - 1])
  IN pass[tries]

_next_pass(faults, prop, shrunk) ==
  LET pass == _shrink_pass(faults, prop, shrunk.lines, shrunk.chunk, MaxRounds - shrunk.rounds)
  IN IF shrunk.chunk < 1 \/ shrunk.rounds >= MaxRounds THEN shrunk
     ELSE [lines |-> pass.kept, rounds |-> shrunk.rounds + pass.used,
           chunk |-> IF pass.removed THEN shrunk.chunk ELSE shrunk.chunk \div 2]

\* A pass uses up some of the rounds, or the window is halved.
_shrink_lines(faults, prop, lines, chunk) ==
  LET shrunk[n \in 0..(MaxRounds + chunk)] ==
        IF n = 0 THEN [lines |-> lines, chunk |-> chunk, rounds |-> 0]
        ELSE _next_pass(faults, prop, shrunk[n - 1])
  IN shrunk[MaxRounds + chunk].lines

_cut(faults, prop, tail) ==
  LET shorter == SubSeq(tail.text, 1, Len(tail.text) - tail.step)
  IN IF tail.step < 1 THEN tail
     ELSE IF Len(tail.text) >= tail.step /\ StillFails(faults, prop, shorter)
       THEN [tail EXCEPT !.text = shorter]
     ELSE [tail EXCEPT !.step = @ \div 2]

\* The text gets shorter, or what is cut off.
_shrink_tail(faults, prop, text, step) ==
  LET tail[n \in 0..(Len(text) + step)] ==
        IF n = 0 THEN [text |-> text, step |-> step] ELSE _cut(faults, prop, tail[n - 1])
  IN tail[Len(text) + step].text

shrink(faults, prop, text) ==
  LET lines == _lines(text)
      fewer == FlattenSeq(_shrink_lines(faults, prop, lines, Max({1, Len(lines) \div 2})))
  IN _shrink_tail(faults, prop, fewer, Max({1, Len(fewer) \div 2}))

\* The texts that are kept, one for each class of failures, and those failures.
explore(faults, cases) ==
  FoldLeft(LAMBDA campaign, text :
             LET failure == FirstFailure(faults, text)
             IN IF failure = NoFailure \/ _failure_class(failure) \in campaign.seen THEN campaign
                ELSE [seen |-> campaign.seen \cup {_failure_class(failure)},
                      failures |-> campaign.failures \cup {failure},
                      corpus |-> campaign.corpus \cup {shrink(faults, failure.prop, text)}],
           [seen |-> {}, failures |-> {}, corpus |-> {}], cases)

replay(faults, corpus) == {FirstFailure(faults, text) : text \in corpus} \ {NoFailure}

gating_failures(failures) == {f \in failures : f.gates}
=============================================================================
