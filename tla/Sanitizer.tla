----------------------------- MODULE Sanitizer -----------------------------
(***************************************************************************)
(* examples/streaming-reasoning-sanitizer/sanitizer.py: a parser that is   *)
(* fed a model's answer chunk by chunk and separates what lies between an  *)
(* opening and a closing tag (the thought) from the rest (visible output). *)
(* Only the longest suffix that might begin a tag is held back between     *)
(* chunks.  A character here is a member of a small set; the tags are      *)
(* sequences of them.  sanitize_reasoning_stream's loop is the             *)
(* environment: it feeds any chunks, then flushes once.                    *)
(***************************************************************************)
EXTENDS Integers, Sequences

CONSTANTS
  Char,
  open_tag, close_tag,
  max_thought_chars,
  MaxChunk,   \* bound on the length of a chunk
  MaxInput    \* bound on the length of the whole stream

ASSUME SanitizerAssumption ==
  /\ open_tag \in Seq(Char) /\ open_tag # <<>>
  /\ close_tag \in Seq(Char) /\ close_tag # <<>>
  /\ max_thought_chars \in Nat
  /\ MaxChunk \in Nat \ {0} /\ MaxInput \in Nat

VARIABLES
  phase,       \* "idle", "feeding" (inside feed's loop) or "flushed"
  state,       \* _state
  buffer,      \* _buffer
  text,        \* feed's local: what is still to be consumed
  visible_out, \* feed's local: the visible fragments of this chunk
  visible,     \* everything returned as visible_chunk so far
  thoughts,    \* _collected_thoughts
  metrics,     \* _metrics
  stream,      \* history: everything fed so far
  began        \* history: the state the parser was constructed in

vars == <<phase, state, buffer, text, visible_out, visible, thoughts, metrics, stream, began>>

State == {"EMITTING", "THINKING"}

SanitizerMetrics ==
  [total_input_chars : Nat, visible_chars : Nat, thought_chars : Nat,
   discarded_thought_chars : Nat, open_tags_detected : Nat,
   close_tags_detected : Nat, unopened_close_tags : Nat, unclosed_stream : BOOLEAN]

\* began is the constructor's starts_thinking.
Init ==
  /\ phase = "idle"
  /\ state \in State /\ began = state
  /\ buffer = <<>> /\ text = <<>> /\ visible_out = <<>>
  /\ visible = <<>> /\ thoughts = <<>> /\ stream = <<>>
  /\ metrics = [total_input_chars |-> 0, visible_chars |-> 0, thought_chars |-> 0,
                discarded_thought_chars |-> 0, open_tags_detected |-> 0,
                close_tags_detected |-> 0, unopened_close_tags |-> 0,
                unclosed_stream |-> FALSE]

First(s, n) == SubSeq(s, 1, n)
From(s, n) == SubSeq(s, n + 1, Len(s))

\* tag is at offset n of s, as str.find counts.
Offsets(s, tag) == 0 .. (Len(s) - Len(tag))
Occurs(s, tag, n) == n \in Offsets(s, tag) /\ SubSeq(s, n + 1, n + Len(tag)) = tag
Absent(s, tag) == \A n \in Offsets(s, tag) : ~Occurs(s, tag, n)

\* str.find: n is the offset of the leftmost occurrence.
Find(s, tag, n) ==
  /\ Occurs(s, tag, n)
  /\ \A m \in Offsets(s, tag) : m < n => ~Occurs(s, tag, m)

\* The offsets where a proper prefix of tag reaches to the end of s.
Partial(s, tag) ==
  {n \in 0 .. Len(s) - 1 : /\ Len(s) - n < Len(tag)
                           /\ From(s, n) = First(tag, Len(s) - n)}

\* Mutant of _find_potential_prefix: range(max_prefix_len - 1, 0, -1).
PotentialPrefixShy(s, tag, cutoff) ==
  LET found == {n \in Partial(s, tag) : Len(s) - n < Len(tag) - 1}
  IN IF found = {}
       THEN cutoff = Len(s)
       ELSE cutoff \in found /\ \A n \in found : cutoff <= n

\* _find_potential_prefix: the longest such suffix begins at cutoff.
PotentialPrefix(s, tag, cutoff) ==
  IF Partial(s, tag) = {}
    THEN cutoff = Len(s)
    ELSE cutoff \in Partial(s, tag) /\ \A n \in Partial(s, tag) : cutoff <= n

\* Mutant of feed: what was held back is not put in front of the chunk.
FeedForgets(chunk) ==
  /\ phase = "idle" /\ phase' = "feeding"
  /\ stream' = stream \o chunk
  /\ metrics' = [metrics EXCEPT !.total_input_chars = @ + Len(chunk)]
  /\ text' = chunk
  /\ buffer' = <<>>
  /\ UNCHANGED <<state, visible_out, visible, thoughts, began>>

\* feed, up to its loop.  (An empty chunk changes nothing.)
Feed(chunk) ==
  /\ phase = "idle" /\ phase' = "feeding"
  /\ stream' = stream \o chunk
  /\ metrics' = [metrics EXCEPT !.total_input_chars = @ + Len(chunk)]
  /\ text' = buffer \o chunk
  /\ buffer' = <<>>
  /\ UNCHANGED <<state, visible_out, visible, thoughts, began>>

Emitting == phase = "feeding" /\ text # <<>> /\ state = "EMITTING"
Thinking == phase = "feeding" /\ text # <<>> /\ state = "THINKING"

\* _consume_emitting, the opening tag found.
EmitUpToOpen ==
  /\ Emitting
  /\ \E n \in Offsets(text, open_tag) :
       /\ Find(text, open_tag, n)
       /\ visible_out' = visible_out \o First(text, n)
       /\ text' = From(text, n + Len(open_tag))
  /\ state' = "THINKING"
  /\ metrics' = [metrics EXCEPT !.open_tags_detected = @ + 1]
  /\ UNCHANGED <<phase, buffer, visible, thoughts, stream, began>>

\* _consume_emitting, no opening but a closing tag found.
EmitUpToClose ==
  /\ Emitting /\ Absent(text, open_tag)
  /\ \E n \in Offsets(text, close_tag) :
       /\ Find(text, close_tag, n)
       /\ visible_out' = visible_out \o First(text, n)
       /\ text' = From(text, n + Len(close_tag))
  /\ metrics' = [metrics EXCEPT !.unopened_close_tags = @ + 1]
  /\ UNCHANGED <<phase, state, buffer, visible, thoughts, stream, began>>

\* Mutant of EmitRest: holds back what may begin a closing tag.
EmitRestHoldsClose ==
  /\ Emitting /\ Absent(text, open_tag) /\ Absent(text, close_tag)
  /\ \E cutoff \in 0 .. Len(text) :
       /\ PotentialPrefix(text, close_tag, cutoff)
       /\ visible_out' = visible_out \o First(text, cutoff)
       /\ buffer' = From(text, cutoff)
  /\ text' = <<>>
  /\ UNCHANGED <<phase, state, visible, thoughts, metrics, stream, began>>

\* _consume_emitting, no tag: what may begin an opening tag is held back.
EmitRest ==
  /\ Emitting /\ Absent(text, open_tag) /\ Absent(text, close_tag)
  /\ \E cutoff \in 0 .. Len(text) :
       /\ PotentialPrefix(text, open_tag, cutoff)
       /\ visible_out' = visible_out \o First(text, cutoff)
       /\ buffer' = From(text, cutoff)
  /\ text' = <<>>
  /\ UNCHANGED <<phase, state, visible, thoughts, metrics, stream, began>>

Capacity ==
  IF max_thought_chars > metrics.thought_chars
    THEN max_thought_chars - metrics.thought_chars ELSE 0

Allowed(fragment) == IF Len(fragment) <= Capacity THEN Len(fragment) ELSE Capacity

\* _record_thought; m is the metrics but for what it changes.
Recorded(fragment, m) ==
  /\ thoughts' = thoughts \o First(fragment, Allowed(fragment))
  /\ metrics' = [m EXCEPT !.thought_chars = @ + Allowed(fragment),
                          !.discarded_thought_chars = @ + Len(fragment) - Allowed(fragment)]

\* _consume_thinking, the closing tag found.
ThinkUpToClose ==
  /\ Thinking
  /\ \E n \in Offsets(text, close_tag) :
       /\ Find(text, close_tag, n)
       /\ Recorded(First(text, n), [metrics EXCEPT !.close_tags_detected = @ + 1])
       /\ text' = From(text, n + Len(close_tag))
  /\ state' = "EMITTING"
  /\ UNCHANGED <<phase, buffer, visible_out, visible, stream, began>>

\* _consume_thinking, no tag.
ThinkRest ==
  /\ Thinking /\ Absent(text, close_tag)
  /\ \E cutoff \in 0 .. Len(text) :
       /\ PotentialPrefix(text, close_tag, cutoff)
       /\ Recorded(First(text, cutoff), metrics)
       /\ buffer' = From(text, cutoff)
  /\ text' = <<>>
  /\ UNCHANGED <<phase, state, visible_out, visible, stream, began>>

\* feed's return.
Return ==
  /\ phase = "feeding" /\ text = <<>> /\ phase' = "idle"
  /\ visible' = visible \o visible_out
  /\ visible_out' = <<>>
  /\ metrics' = [metrics EXCEPT !.visible_chars = @ + Len(visible_out)]
  /\ UNCHANGED <<state, buffer, text, thoughts, stream, began>>

FlushThinking ==
  /\ phase = "idle" /\ state = "THINKING" /\ phase' = "flushed"
  /\ Recorded(buffer, [metrics EXCEPT !.unclosed_stream = TRUE])
  /\ buffer' = <<>>
  /\ UNCHANGED <<state, text, visible_out, visible, stream, began>>

FlushEmitting ==
  /\ phase = "idle" /\ state = "EMITTING" /\ phase' = "flushed"
  /\ visible' = visible \o buffer
  /\ metrics' = [metrics EXCEPT !.visible_chars = @ + Len(buffer)]
  /\ buffer' = <<>>
  /\ UNCHANGED <<state, text, visible_out, thoughts, stream, began>>

\* The chunks the environment may still feed.
Chunk == UNION {[1 .. n -> Char] : n \in 1 .. MaxChunk}

Next ==
  \/ \E chunk \in Chunk : Len(stream) + Len(chunk) <= MaxInput /\ Feed(chunk)
  \/ EmitUpToOpen \/ EmitUpToClose \/ EmitRest
  \/ ThinkUpToClose \/ ThinkRest
  \/ Return
  \/ FlushThinking \/ FlushEmitting

Spec == Init /\ [][Next]_vars
-----------------------------------------------------------------------------
\* Every variable keeps its type; between calls, feed's locals are empty.
TypeOK ==
  /\ phase \in {"idle", "feeding", "flushed"}
  /\ state \in State /\ began \in State
  /\ buffer \in Seq(Char) /\ text \in Seq(Char) /\ visible_out \in Seq(Char)
  /\ visible \in Seq(Char) /\ thoughts \in Seq(Char) /\ stream \in Seq(Char)
  /\ metrics \in SanitizerMetrics
  /\ phase # "feeding" => text = <<>> /\ visible_out = <<>>

\* _record_thought's bound holds for the whole stream, over any number of
\* thoughts and chunks, and nothing is discarded before it is reached.
ThoughtsAreBounded ==
  /\ Len(thoughts) = metrics.thought_chars
  /\ Len(thoughts) <= max_thought_chars
  /\ metrics.discarded_thought_chars > 0 => Len(thoughts) = max_thought_chars

\* The characters of the tags that were found.
TagChars(m) ==
  Len(open_tag) * m.open_tags_detected
  + Len(close_tag) * (m.close_tags_detected + m.unopened_close_tags)

\* No character is lost or counted twice, whatever the chunking: the metrics,
\* the tags they count, and what is held back add up to the input.
CharactersAreAccounted ==
  Len(stream) = metrics.visible_chars + Len(visible_out)
                + (metrics.thought_chars + metrics.discarded_thought_chars)
                + TagChars(metrics) + Len(buffer) + Len(text)

\* Between calls, only the beginning of a tag that matters is withheld from the
\* caller: of the opening tag while emitting, of the closing tag while thinking.
HeldBackBeginsATag ==
  LET tag == IF state = "EMITTING" THEN open_tag ELSE close_tag
  IN phase = "idle" => /\ Len(buffer) < Len(tag)
                       /\ buffer = First(tag, Len(buffer))

\* What is true of the sanitizer's state between any two calls of feed.
StateIsSoundBetweenCalls == TypeOK /\ ThoughtsAreBounded /\ HeldBackBeginsATag

\* The n-th character of s, read from left to right: what r, the reading of
\* those before, becomes.  A tag is skipped from its first character on.
ReadOn(r, s, n) ==
  IF r.skip > 0 THEN [r EXCEPT !.skip = @ - 1]
  ELSE IF r.state = "EMITTING" /\ Occurs(s, open_tag, n - 1)
    THEN [r EXCEPT !.state = "THINKING", !.skip = Len(open_tag) - 1]
  ELSE IF r.state = "THINKING" /\ Occurs(s, close_tag, n - 1)
    THEN [r EXCEPT !.state = "EMITTING", !.skip = Len(close_tag) - 1]
  ELSE IF r.state = "EMITTING" /\ Occurs(s, close_tag, n - 1)
    THEN [r EXCEPT !.unopened = @ + 1, !.skip = Len(close_tag) - 1]
  ELSE IF r.state = "EMITTING"
    THEN [r EXCEPT !.visible = Append(@, s[n])]
  ELSE [r EXCEPT !.thought = Append(@, s[n])]

\* A whole stream read at once: after each of its characters the state, the
\* characters of a tag still to skip, what is visible, what is thought, and the
\* closing tags that closed nothing.
Reading(first, s) ==
  LET after[n \in 0 .. Len(s)] ==
        IF n = 0
          THEN [state |-> first, skip |-> 0, visible |-> <<>>, thought |-> <<>>, unopened |-> 0]
          ELSE ReadOn(after[n - 1], s, n)
  IN after

\* How the stream was cut into chunks does not show: as long as every closing
\* tag closes a thought, the flushed parser has returned what a reader of the
\* whole stream sees, and kept the first max_thought_chars of the thoughts.
ChunkingDoesNotShow ==
  phase = "flushed" =>
    LET whole == Reading(began, stream)[Len(stream)]
        kept == IF Len(whole.thought) <= max_thought_chars
                  THEN Len(whole.thought) ELSE max_thought_chars
    IN whole.unopened = 0 =>
         /\ visible = whole.visible
         /\ thoughts = First(whole.thought, kept)
         /\ metrics.unclosed_stream = (whole.state = "THINKING")
=============================================================================
