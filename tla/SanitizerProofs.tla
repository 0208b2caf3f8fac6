-------------------------- MODULE SanitizerProofs --------------------------
(***************************************************************************)
(* Sanitizer for every alphabet, every pair of tags, every bound on the    *)
(* thoughts and every chunking of a stream of any length: the bound holds, *)
(* the accounts balance, only a tag's beginning is ever held back, and how *)
(* the stream was cut does not show in what is returned.                   *)
(***************************************************************************)
EXTENDS Sanitizer, SequenceTheorems, WellFoundedInduction, TLAPS

\* What the parser holds back fits its state, and nothing is held back while
\* there is text to consume.
HeldBackFits ==
  LET tag == IF state = "EMITTING" THEN open_tag ELSE close_tag
  IN /\ phase # "flushed" => Len(buffer) < Len(tag) /\ buffer = First(tag, Len(buffer))
     /\ text # <<>> => buffer = <<>>

IInv == TypeOK /\ ThoughtsAreBounded /\ CharactersAreAccounted /\ HeldBackFits

\* The tags are not empty.
LEMMA TagLengths == Len(open_tag) \in Nat \ {0} /\ Len(close_tag) \in Nat \ {0}
  BY SanitizerAssumption, EmptySeq

\* The first n characters of a text are a text of length n.
LEMMA FirstIsASeq ==
  ASSUME NEW s \in Seq(Char), NEW n \in 0 .. Len(s)
  PROVE  First(s, n) \in Seq(Char) /\ Len(First(s, n)) = n
<1>1. \A i \in 1 .. n : s[i] \in Char
  BY LenProperties
<1> QED BY <1>1, SubSeqProperties DEF First

\* What follows the first n characters is a text of the remaining length.
LEMMA FromIsASeq ==
  ASSUME NEW s \in Seq(Char), NEW n \in 0 .. Len(s)
  PROVE  From(s, n) \in Seq(Char) /\ Len(From(s, n)) = Len(s) - n
<1>1. \A i \in n + 1 .. Len(s) : s[i] \in Char /\ Len(s) \in Nat
  BY LenProperties
<1>2. Len(s) \in Nat
  BY LenProperties
<1> QED BY <1>1, <1>2, SubSeqProperties DEF From

\* Two texts put together are a text, as long as both.
LEMMA ConcatIsASeq ==
  ASSUME NEW s \in Seq(Char), NEW t \in Seq(Char)
  PROVE  s \o t \in Seq(Char) /\ Len(s \o t) = Len(s) + Len(t)
  BY ConcatProperties

\* An empty buffer holds back a proper prefix of any tag.
LEMMA NothingHeldBack ==
  ASSUME NEW tag \in Seq(Char), tag # <<>>
  PROVE  Len(<<>>) < Len(tag) /\ <<>> = First(tag, Len(<<>>))
<1>1. Len(tag) \in Nat \ {0} /\ Len(<<>>) = 0
  BY EmptySeq
<1>2. First(tag, 0) = <<>>
  BY SubSeqEmpty DEF First
<1> QED BY <1>1, <1>2

\* A tag that is found lies inside the text.
LEMMA FoundInside ==
  ASSUME NEW s \in Seq(Char), NEW tag \in Seq(Char), tag # <<>>, NEW n, Find(s, tag, n)
  PROVE  n \in 0 .. Len(s) /\ n + Len(tag) \in 0 .. Len(s)
<1>1. Len(s) \in Nat /\ Len(tag) \in Nat
  BY LenProperties
<1> QED BY <1>1 DEF Find, Occurs, Offsets

\* _find_potential_prefix cuts the text so that what is held back begins the tag.
LEMMA CutoffHoldsBackATag ==
  ASSUME NEW s \in Seq(Char), NEW tag \in Seq(Char), tag # <<>>,
         NEW cutoff \in 0 .. Len(s), PotentialPrefix(s, tag, cutoff)
  PROVE  /\ Len(From(s, cutoff)) < Len(tag)
         /\ From(s, cutoff) = First(tag, Len(From(s, cutoff)))
<1>1. Len(From(s, cutoff)) = Len(s) - cutoff /\ Len(s) \in Nat
  BY FromIsASeq, LenProperties
<1>2. CASE cutoff \in Partial(s, tag)
  BY <1>1, <1>2 DEF Partial
<1>3. CASE cutoff = Len(s)
  <2>1. From(s, cutoff) = <<>>
    BY <1>1, <1>3, SubSeqEmpty DEF From
  <2> QED BY <2>1, NothingHeldBack
<1> QED BY <1>2, <1>3 DEF PotentialPrefix

\* _record_thought keeps the bound, whatever fragment it is given, and counts
\* every character of it exactly once.
LEMMA RecordedKeepsTheBound ==
  ASSUME TypeOK, ThoughtsAreBounded, NEW fragment \in Seq(Char),
         NEW m \in SanitizerMetrics, Recorded(fragment, m),
         m.thought_chars = metrics.thought_chars,
         m.discarded_thought_chars = metrics.discarded_thought_chars
  PROVE  /\ thoughts' \in Seq(Char) /\ metrics' \in SanitizerMetrics
         /\ ThoughtsAreBounded'
         /\ metrics'.thought_chars + metrics'.discarded_thought_chars
              = metrics.thought_chars + metrics.discarded_thought_chars + Len(fragment)
         /\ metrics'.visible_chars = m.visible_chars
         /\ metrics'.open_tags_detected = m.open_tags_detected
         /\ metrics'.close_tags_detected = m.close_tags_detected
         /\ metrics'.unopened_close_tags = m.unopened_close_tags
<1> DEFINE k == Allowed(fragment)
<1>1. Len(fragment) \in Nat /\ Len(thoughts) \in Nat /\ thoughts \in Seq(Char)
  BY LenProperties DEF TypeOK
<1>2. /\ metrics.thought_chars \in Nat /\ metrics.discarded_thought_chars \in Nat
      /\ Len(thoughts) = metrics.thought_chars /\ Len(thoughts) <= max_thought_chars
      /\ metrics.discarded_thought_chars > 0 => Len(thoughts) = max_thought_chars
      /\ max_thought_chars \in Nat
  BY SanitizerAssumption DEF TypeOK, SanitizerMetrics, ThoughtsAreBounded
<1>3. /\ k \in 0 .. Len(fragment)
      /\ metrics.thought_chars + k <= max_thought_chars
      /\ Len(fragment) - k > 0 => metrics.thought_chars + k = max_thought_chars
  BY <1>1, <1>2 DEF Allowed, Capacity
<1> HIDE DEF k
<1>4. /\ First(fragment, k) \in Seq(Char) /\ Len(First(fragment, k)) = k
  BY <1>3, FirstIsASeq
<1>5. thoughts' \in Seq(Char) /\ Len(thoughts') = Len(thoughts) + k
  <2>1. thoughts' = thoughts \o First(fragment, k)
    BY DEF Recorded, k
  <2>2. /\ thoughts \o First(fragment, k) \in Seq(Char)
        /\ Len(thoughts \o First(fragment, k)) = Len(thoughts) + Len(First(fragment, k))
    BY <1>1, <1>4, ConcatIsASeq, Zenon
  <2> QED BY <1>4, <2>1, <2>2, Zenon
<1> DEFINE kept == metrics.thought_chars + k
           cut == metrics.discarded_thought_chars + Len(fragment) - k
<1>6. metrics' = [m EXCEPT !.thought_chars = kept, !.discarded_thought_chars = cut]
  BY DEF Recorded, k
<1>7. kept \in Nat /\ cut \in Nat
  BY <1>1, <1>2, <1>3
<1>8. metrics' \in SanitizerMetrics
  <2> HIDE DEF kept, cut
  <2> QED BY <1>6, <1>7 DEF SanitizerMetrics
<1>9. /\ metrics'.thought_chars = metrics.thought_chars + k
      /\ metrics'.discarded_thought_chars
           = metrics.discarded_thought_chars + Len(fragment) - k
      /\ metrics'.visible_chars = m.visible_chars
      /\ metrics'.open_tags_detected = m.open_tags_detected
      /\ metrics'.close_tags_detected = m.close_tags_detected
      /\ metrics'.unopened_close_tags = m.unopened_close_tags
  BY <1>6 DEF SanitizerMetrics
<1>10. ThoughtsAreBounded'
  BY <1>1, <1>2, <1>3, <1>5, <1>9 DEF ThoughtsAreBounded
<1> QED BY <1>1, <1>2, <1>3, <1>5, <1>8, <1>9, <1>10

\* A new sanitizer satisfies the invariant.
LEMMA InitSound == Init => IInv
<1> SUFFICES ASSUME Init PROVE IInv
  OBVIOUS
<1>1. TypeOK
  BY EmptySeq DEF Init, TypeOK, SanitizerMetrics, State
<1>2. ThoughtsAreBounded
  BY SanitizerAssumption, EmptySeq DEF Init, ThoughtsAreBounded
<1>3. CharactersAreAccounted
  <2>1. TagChars(metrics) = Len(open_tag) * 0 + Len(close_tag) * (0 + 0)
    BY DEF Init, TagChars
  <2>2. TagChars(metrics) = 0
    BY <2>1, TagLengths
  <2> QED BY <2>2, EmptySeq DEF Init, CharactersAreAccounted
<1>4. HeldBackFits
  BY SanitizerAssumption, NothingHeldBack DEF Init, HeldBackFits
<1> QED BY <1>1, <1>2, <1>3, <1>4 DEF IInv

\* How the characters of the tags found grow with the counters of the tags.
LEMMA TagCharsGrow ==
  ASSUME NEW m \in SanitizerMetrics
  PROVE  /\ TagChars(m) \in Nat
         /\ \A n \in SanitizerMetrics :
              /\ /\ n.open_tags_detected = m.open_tags_detected
                 /\ n.close_tags_detected + n.unopened_close_tags
                      = m.close_tags_detected + m.unopened_close_tags
                 => TagChars(n) = TagChars(m)
              /\ /\ n.open_tags_detected = m.open_tags_detected + 1
                 /\ n.close_tags_detected + n.unopened_close_tags
                      = m.close_tags_detected + m.unopened_close_tags
                 => TagChars(n) = TagChars(m) + Len(open_tag)
              /\ /\ n.open_tags_detected = m.open_tags_detected
                 /\ n.close_tags_detected + n.unopened_close_tags
                      = m.close_tags_detected + m.unopened_close_tags + 1
                 => TagChars(n) = TagChars(m) + Len(close_tag)
<1> DEFINE o == m.open_tags_detected
           c == m.close_tags_detected + m.unopened_close_tags
<1>1. o \in Nat /\ c \in Nat /\ Len(open_tag) \in Nat /\ Len(close_tag) \in Nat
  BY TagLengths DEF SanitizerMetrics
<1>2. TagChars(m) = Len(open_tag) * o + Len(close_tag) * c
  BY DEF TagChars
<1>3. /\ Len(open_tag) * (o + 1) = Len(open_tag) * o + Len(open_tag)
      /\ Len(close_tag) * (c + 1) = Len(close_tag) * c + Len(close_tag)
      /\ Len(open_tag) * o \in Nat /\ Len(close_tag) * c \in Nat
  <2> HIDE DEF o, c
  <2> QED BY <1>1
<1>4. TagChars(m) \in Nat
  BY <1>2, <1>3
<1> SUFFICES ASSUME NEW n \in SanitizerMetrics
             PROVE  /\ n.open_tags_detected = o
                       /\ n.close_tags_detected + n.unopened_close_tags = c
                       => TagChars(n) = TagChars(m)
                    /\ n.open_tags_detected = o + 1
                       /\ n.close_tags_detected + n.unopened_close_tags = c
                       => TagChars(n) = TagChars(m) + Len(open_tag)
                    /\ n.open_tags_detected = o
                       /\ n.close_tags_detected + n.unopened_close_tags = c + 1
                       => TagChars(n) = TagChars(m) + Len(close_tag)
  BY <1>4
<1>5. TagChars(n) = Len(open_tag) * n.open_tags_detected
                    + Len(close_tag) * (n.close_tags_detected + n.unopened_close_tags)
  BY DEF TagChars
<1> HIDE DEF o, c
<1>6. ASSUME n.open_tags_detected = o, n.close_tags_detected + n.unopened_close_tags = c
      PROVE  TagChars(n) = TagChars(m)
  BY <1>2, <1>5, <1>6
<1>7. ASSUME n.open_tags_detected = o + 1,
             n.close_tags_detected + n.unopened_close_tags = c
      PROVE  TagChars(n) = TagChars(m) + Len(open_tag)
  <2>1. TagChars(n) = Len(open_tag) * (o + 1) + Len(close_tag) * c
    BY <1>5, <1>7
  <2> QED BY <1>1, <1>2, <1>3, <2>1
<1>8. ASSUME n.open_tags_detected = o,
             n.close_tags_detected + n.unopened_close_tags = c + 1
      PROVE  TagChars(n) = TagChars(m) + Len(close_tag)
  <2>1. TagChars(n) = Len(open_tag) * o + Len(close_tag) * (c + 1)
    BY <1>5, <1>8
  <2> QED BY <1>1, <1>2, <1>3, <2>1
<1> QED BY <1>6, <1>7, <1>8

\* A chunk joins what was held back.
LEMMA FeedKeeps ==
  ASSUME IInv, NEW chunk \in Chunk, Feed(chunk) PROVE IInv'
<1>1. /\ text \in Seq(Char) /\ buffer \in Seq(Char) /\ visible_out \in Seq(Char)
      /\ visible \in Seq(Char) /\ thoughts \in Seq(Char) /\ stream \in Seq(Char)
      /\ metrics \in SanitizerMetrics
      /\ open_tag \in Seq(Char) /\ close_tag \in Seq(Char)
      /\ open_tag # <<>> /\ close_tag # <<>>
  BY SanitizerAssumption, LenProperties DEF IInv, TypeOK
<1>2. TypeOK /\ ThoughtsAreBounded /\ CharactersAreAccounted /\ HeldBackFits
  BY DEF IInv
<1>3. /\ metrics.visible_chars \in Nat /\ TagChars(metrics) \in Nat
      /\ metrics.thought_chars \in Nat /\ metrics.discarded_thought_chars \in Nat
      /\ Len(open_tag) \in Nat /\ Len(close_tag) \in Nat /\ Len(stream) \in Nat
      /\ Len(text) \in Nat /\ Len(buffer) \in Nat /\ Len(visible_out) \in Nat
      /\ Len(visible) \in Nat
  BY <1>1, TagCharsGrow, TagLengths, LenProperties DEF SanitizerMetrics
<1> DEFINE in == metrics.total_input_chars + Len(chunk)
<1>a. chunk \in Seq(Char) /\ Len(chunk) \in Nat
  BY LenProperties DEF Chunk
<1>b. /\ text' = buffer \o chunk /\ buffer' = <<>> /\ phase = "idle"
      /\ stream' = stream \o chunk /\ phase' = "feeding"
      /\ metrics' = [metrics EXCEPT !.total_input_chars = in]
      /\ UNCHANGED <<state, visible_out, visible, thoughts, began>>
  BY DEF Feed
<1>c. /\ text' \in Seq(Char) /\ Len(text') = Len(buffer) + Len(chunk)
      /\ stream' \in Seq(Char) /\ Len(stream') = Len(stream) + Len(chunk)
      /\ text = <<>> /\ Len(text) = 0 /\ Len(buffer') = 0 /\ buffer' \in Seq(Char)
  BY <1>1, <1>2, <1>a, <1>b, ConcatIsASeq, EmptySeq DEF TypeOK
<1>d. in \in Nat
  BY <1>1, <1>a DEF SanitizerMetrics
<1>e. /\ metrics' \in SanitizerMetrics /\ metrics'.visible_chars = metrics.visible_chars
      /\ metrics'.thought_chars = metrics.thought_chars
      /\ metrics'.discarded_thought_chars = metrics.discarded_thought_chars
      /\ metrics'.open_tags_detected = metrics.open_tags_detected
      /\ metrics'.close_tags_detected = metrics.close_tags_detected
      /\ metrics'.unopened_close_tags = metrics.unopened_close_tags
  <2> HIDE DEF in
  <2> QED BY <1>1, <1>b, <1>d DEF SanitizerMetrics
<1>f. TagChars(metrics') = TagChars(metrics)
  BY <1>1, <1>e, TagCharsGrow
<1>4. TypeOK'
  BY <1>2, <1>b, <1>c, <1>e DEF TypeOK
<1>5. ThoughtsAreBounded'
  BY <1>2, <1>b, <1>e DEF ThoughtsAreBounded
<1>6. CharactersAreAccounted'
  <2> HIDE DEF in
  <2>1. /\ Len(stream') = Len(stream) + Len(chunk)
        /\ metrics'.visible_chars = metrics.visible_chars
        /\ Len(visible_out') = Len(visible_out)
        /\ metrics'.thought_chars + metrics'.discarded_thought_chars
             = metrics.thought_chars + metrics.discarded_thought_chars
        /\ TagChars(metrics') = TagChars(metrics)
        /\ Len(buffer') = 0
        /\ Len(text') = Len(buffer) + Len(chunk)
    BY <1>b, <1>c, <1>e, <1>f
  <2>2. Len(stream) = metrics.visible_chars + Len(visible_out)
                      + (metrics.thought_chars + metrics.discarded_thought_chars)
                      + TagChars(metrics) + Len(buffer) + 0
    BY <1>2, <1>c DEF CharactersAreAccounted
  <2>3. Len(stream) + Len(chunk)
          = metrics.visible_chars + Len(visible_out)
            + (metrics.thought_chars + metrics.discarded_thought_chars)
            + TagChars(metrics) + 0 + (Len(buffer) + Len(chunk))
    <3> DEFINE s == Len(stream)  v == metrics.visible_chars  o == Len(visible_out)
               k == metrics.thought_chars  d == metrics.discarded_thought_chars
               t == TagChars(metrics)  b == Len(buffer)  x == Len(text)  c == Len(chunk)
    <3>2. /\ s \in Nat /\ v \in Nat /\ o \in Nat /\ k \in Nat /\ d \in Nat
          /\ t \in Nat /\ b \in Nat /\ x \in Nat /\ c \in Nat
      BY <1>3, <1>a
    <3>3. s = v + o + (k + d) + t + b + 0
      BY <2>2
    <3> HIDE DEF s, v, o, k, d, t, b, x, c
    <3>4. s + c = v + o + (k + d) + t + 0 + (b + c)
      BY <3>2, <3>3
    <3> QED BY <3>4 DEF s, v, o, k, d, t, b, x, c
  <2>4. Len(stream') = metrics'.visible_chars + Len(visible_out')
                       + (metrics'.thought_chars + metrics'.discarded_thought_chars)
                       + TagChars(metrics') + Len(buffer') + Len(text')
    BY <2>1, <2>3, Zenon
  <2> QED BY <2>4 DEF CharactersAreAccounted
<1>7. HeldBackFits'
  BY <1>1, <1>b, NothingHeldBack DEF HeldBackFits
<1> QED BY <1>4, <1>5, <1>6, <1>7 DEF IInv

\* Up to the opening tag the text becomes visible.
LEMMA EmitUpToOpenKeeps ==
  ASSUME IInv, EmitUpToOpen PROVE IInv'
<1>1. /\ text \in Seq(Char) /\ buffer \in Seq(Char) /\ visible_out \in Seq(Char)
      /\ visible \in Seq(Char) /\ thoughts \in Seq(Char) /\ stream \in Seq(Char)
      /\ metrics \in SanitizerMetrics
      /\ open_tag \in Seq(Char) /\ close_tag \in Seq(Char)
      /\ open_tag # <<>> /\ close_tag # <<>>
  BY SanitizerAssumption, LenProperties DEF IInv, TypeOK
<1>2. TypeOK /\ ThoughtsAreBounded /\ CharactersAreAccounted /\ HeldBackFits
  BY DEF IInv
<1>3. /\ metrics.visible_chars \in Nat /\ TagChars(metrics) \in Nat
      /\ metrics.thought_chars \in Nat /\ metrics.discarded_thought_chars \in Nat
      /\ Len(open_tag) \in Nat /\ Len(close_tag) \in Nat /\ Len(stream) \in Nat
      /\ Len(text) \in Nat /\ Len(buffer) \in Nat /\ Len(visible_out) \in Nat
      /\ Len(visible) \in Nat
  BY <1>1, TagCharsGrow, TagLengths, LenProperties DEF SanitizerMetrics
<1> DEFINE found == metrics.open_tags_detected + 1
<1>a. PICK n \in Offsets(text, open_tag) :
        /\ Find(text, open_tag, n)
        /\ visible_out' = visible_out \o First(text, n)
        /\ text' = From(text, n + Len(open_tag))
  BY DEF EmitUpToOpen
<1>b. /\ phase = "feeding" /\ text # <<>> /\ state' \in State
      /\ metrics' = [metrics EXCEPT !.open_tags_detected = found]
      /\ UNCHANGED <<phase, buffer, visible, thoughts, stream, began>>
  BY DEF EmitUpToOpen, Emitting, State
<1>c. n \in 0 .. Len(text) /\ n + Len(open_tag) \in 0 .. Len(text)
  BY <1>1, <1>a, FoundInside
<1>d. /\ visible_out' \in Seq(Char) /\ Len(visible_out') = Len(visible_out) + n
      /\ text' \in Seq(Char) /\ Len(text') = Len(text) - (n + Len(open_tag))
  <2>1. First(text, n) \in Seq(Char) /\ Len(First(text, n)) = n
    BY <1>1, <1>c, FirstIsASeq
  <2>2. text' \in Seq(Char) /\ Len(text') = Len(text) - (n + Len(open_tag))
    BY <1>1, <1>a, <1>c, FromIsASeq
  <2>3. visible_out' \in Seq(Char) /\ Len(visible_out') = Len(visible_out) + n
    <3>1. /\ visible_out \o First(text, n) \in Seq(Char)
          /\ Len(visible_out \o First(text, n)) = Len(visible_out) + Len(First(text, n))
      BY <1>1, <2>1, ConcatIsASeq
    <3> QED BY <1>a, <2>1, <3>1
  <2> QED BY <2>2, <2>3
<1>e. /\ metrics' \in SanitizerMetrics /\ metrics'.visible_chars = metrics.visible_chars
      /\ metrics'.thought_chars = metrics.thought_chars
      /\ metrics'.discarded_thought_chars = metrics.discarded_thought_chars
      /\ TagChars(metrics') = TagChars(metrics) + Len(open_tag)
  <2>1. found \in Nat
    BY <1>1 DEF SanitizerMetrics
  <2>2. /\ metrics' \in SanitizerMetrics /\ metrics'.visible_chars = metrics.visible_chars
        /\ metrics'.thought_chars = metrics.thought_chars
        /\ metrics'.discarded_thought_chars = metrics.discarded_thought_chars
        /\ metrics'.open_tags_detected = found
        /\ metrics'.close_tags_detected = metrics.close_tags_detected
        /\ metrics'.unopened_close_tags = metrics.unopened_close_tags
    <3> HIDE DEF found
    <3> QED BY <1>1, <1>b, <2>1 DEF SanitizerMetrics
  <2>3. /\ metrics.open_tags_detected \in Nat /\ metrics.close_tags_detected \in Nat
        /\ metrics.unopened_close_tags \in Nat
    BY <1>1 DEF SanitizerMetrics
  <2>4. metrics'.close_tags_detected + metrics'.unopened_close_tags
          = metrics.close_tags_detected + metrics.unopened_close_tags
    BY <2>2, <2>3
  <2> QED BY <1>1, <2>2, <2>4, TagCharsGrow
<1>f. buffer = <<>> /\ buffer' = <<>>
  BY <1>2, <1>b DEF HeldBackFits
<1>4. TypeOK'
  BY <1>2, <1>b, <1>d, <1>e DEF TypeOK
<1>5. ThoughtsAreBounded'
  BY <1>2, <1>b, <1>e DEF ThoughtsAreBounded
<1>6. CharactersAreAccounted'
  <2>1. /\ Len(stream') = Len(stream)
        /\ metrics'.visible_chars = metrics.visible_chars
        /\ Len(visible_out') = Len(visible_out) + n
        /\ metrics'.thought_chars + metrics'.discarded_thought_chars
             = metrics.thought_chars + metrics.discarded_thought_chars
        /\ TagChars(metrics') = TagChars(metrics) + Len(open_tag)
        /\ Len(buffer') = Len(buffer)
    BY <1>b, <1>d, <1>e
  <2>2. Len(text) = Len(text') + n + Len(open_tag) /\ Len(text') \in Nat
    BY <1>3, <1>c, <1>d, LenProperties
  <2>3. Len(stream) = metrics.visible_chars + Len(visible_out)
                      + (metrics.thought_chars + metrics.discarded_thought_chars)
                      + TagChars(metrics) + Len(buffer) + Len(text)
    BY <1>2 DEF CharactersAreAccounted
  <2>4. Len(stream) = metrics.visible_chars + (Len(visible_out) + n)
                      + (metrics.thought_chars + metrics.discarded_thought_chars)
                      + (TagChars(metrics) + Len(open_tag)) + Len(buffer) + Len(text')
    <3>1. n \in Nat
      BY <1>3, <1>c
    <3> DEFINE s == Len(stream)  v == metrics.visible_chars  o == Len(visible_out)
               k == metrics.thought_chars  d == metrics.discarded_thought_chars
               t == TagChars(metrics)  b == Len(buffer)  x == Len(text)
               g == Len(open_tag)  y == Len(text')
    <3>2. /\ s \in Nat /\ v \in Nat /\ o \in Nat /\ k \in Nat /\ d \in Nat
          /\ t \in Nat /\ b \in Nat /\ x \in Nat /\ g \in Nat /\ y \in Nat
      BY <1>3, <2>2
    <3>3. s = v + o + (k + d) + t + b + x /\ x = y + n + g
      BY <2>2, <2>3
    <3> HIDE DEF s, v, o, k, d, t, b, x, g, y
    <3>4. s = v + (o + n) + (k + d) + (t + g) + b + y
      BY <3>1, <3>2, <3>3
    <3> QED BY <3>4 DEF s, v, o, k, d, t, b, x, g, y
  <2>5. Len(stream') = metrics'.visible_chars + Len(visible_out')
                       + (metrics'.thought_chars + metrics'.discarded_thought_chars)
                       + TagChars(metrics') + Len(buffer') + Len(text')
    BY <2>1, <2>4, Zenon
  <2> QED BY <2>5 DEF CharactersAreAccounted
<1>7. HeldBackFits'
  BY <1>1, <1>f, NothingHeldBack DEF HeldBackFits
<1> QED BY <1>4, <1>5, <1>6, <1>7 DEF IInv

\* Up to a closing tag that closes nothing the text becomes visible.
LEMMA EmitUpToCloseKeeps ==
  ASSUME IInv, EmitUpToClose PROVE IInv'
<1>1. /\ text \in Seq(Char) /\ buffer \in Seq(Char) /\ visible_out \in Seq(Char)
      /\ visible \in Seq(Char) /\ thoughts \in Seq(Char) /\ stream \in Seq(Char)
      /\ metrics \in SanitizerMetrics
      /\ open_tag \in Seq(Char) /\ close_tag \in Seq(Char)
      /\ open_tag # <<>> /\ close_tag # <<>>
  BY SanitizerAssumption, LenProperties DEF IInv, TypeOK
<1>2. TypeOK /\ ThoughtsAreBounded /\ CharactersAreAccounted /\ HeldBackFits
  BY DEF IInv
<1>3. /\ metrics.visible_chars \in Nat /\ TagChars(metrics) \in Nat
      /\ metrics.thought_chars \in Nat /\ metrics.discarded_thought_chars \in Nat
      /\ Len(open_tag) \in Nat /\ Len(close_tag) \in Nat /\ Len(stream) \in Nat
      /\ Len(text) \in Nat /\ Len(buffer) \in Nat /\ Len(visible_out) \in Nat
      /\ Len(visible) \in Nat
  BY <1>1, TagCharsGrow, TagLengths, LenProperties DEF SanitizerMetrics
<1> DEFINE found == metrics.unopened_close_tags + 1
<1>a. PICK n \in Offsets(text, close_tag) :
        /\ Find(text, close_tag, n)
        /\ visible_out' = visible_out \o First(text, n)
        /\ text' = From(text, n + Len(close_tag))
  BY DEF EmitUpToClose
<1>b. /\ phase = "feeding" /\ text # <<>> /\ state' = state
      /\ metrics' = [metrics EXCEPT !.unopened_close_tags = found]
      /\ UNCHANGED <<phase, buffer, visible, thoughts, stream, began>>
  BY DEF EmitUpToClose, Emitting, State
<1>c. n \in 0 .. Len(text) /\ n + Len(close_tag) \in 0 .. Len(text)
  BY <1>1, <1>a, FoundInside
<1>d. /\ visible_out' \in Seq(Char) /\ Len(visible_out') = Len(visible_out) + n
      /\ text' \in Seq(Char) /\ Len(text') = Len(text) - (n + Len(close_tag))
  <2>1. First(text, n) \in Seq(Char) /\ Len(First(text, n)) = n
    BY <1>1, <1>c, FirstIsASeq
  <2>2. text' \in Seq(Char) /\ Len(text') = Len(text) - (n + Len(close_tag))
    BY <1>1, <1>a, <1>c, FromIsASeq
  <2>3. visible_out' \in Seq(Char) /\ Len(visible_out') = Len(visible_out) + n
    <3>1. /\ visible_out \o First(text, n) \in Seq(Char)
          /\ Len(visible_out \o First(text, n)) = Len(visible_out) + Len(First(text, n))
      BY <1>1, <2>1, ConcatIsASeq
    <3> QED BY <1>a, <2>1, <3>1
  <2> QED BY <2>2, <2>3
<1>e. /\ metrics' \in SanitizerMetrics /\ metrics'.visible_chars = metrics.visible_chars
      /\ metrics'.thought_chars = metrics.thought_chars
      /\ metrics'.discarded_thought_chars = metrics.discarded_thought_chars
      /\ TagChars(metrics') = TagChars(metrics) + Len(close_tag)
  <2>1. found \in Nat
    BY <1>1 DEF SanitizerMetrics
  <2>2. /\ metrics' \in SanitizerMetrics /\ metrics'.visible_chars = metrics.visible_chars
        /\ metrics'.thought_chars = metrics.thought_chars
        /\ metrics'.discarded_thought_chars = metrics.discarded_thought_chars
        /\ metrics'.open_tags_detected = metrics.open_tags_detected
        /\ metrics'.close_tags_detected = metrics.close_tags_detected
        /\ metrics'.unopened_close_tags = found
    <3> HIDE DEF found
    <3> QED BY <1>1, <1>b, <2>1 DEF SanitizerMetrics
  <2>3. /\ metrics.open_tags_detected \in Nat /\ metrics.close_tags_detected \in Nat
        /\ metrics.unopened_close_tags \in Nat
    BY <1>1 DEF SanitizerMetrics
  <2>4. metrics'.close_tags_detected + metrics'.unopened_close_tags
          = metrics.close_tags_detected + metrics.unopened_close_tags + 1
    BY <2>2, <2>3
  <2> QED BY <1>1, <2>2, <2>4, TagCharsGrow
<1>f. buffer = <<>> /\ buffer' = <<>>
  BY <1>2, <1>b DEF HeldBackFits
<1>4. TypeOK'
  BY <1>2, <1>b, <1>d, <1>e DEF TypeOK
<1>5. ThoughtsAreBounded'
  BY <1>2, <1>b, <1>e DEF ThoughtsAreBounded
<1>6. CharactersAreAccounted'
  <2>1. /\ Len(stream') = Len(stream)
        /\ metrics'.visible_chars = metrics.visible_chars
        /\ Len(visible_out') = Len(visible_out) + n
        /\ metrics'.thought_chars + metrics'.discarded_thought_chars
             = metrics.thought_chars + metrics.discarded_thought_chars
        /\ TagChars(metrics') = TagChars(metrics) + Len(close_tag)
        /\ Len(buffer') = Len(buffer)
    BY <1>b, <1>d, <1>e
  <2>2. Len(text) = Len(text') + n + Len(close_tag) /\ Len(text') \in Nat
    BY <1>3, <1>c, <1>d, LenProperties
  <2>3. Len(stream) = metrics.visible_chars + Len(visible_out)
                      + (metrics.thought_chars + metrics.discarded_thought_chars)
                      + TagChars(metrics) + Len(buffer) + Len(text)
    BY <1>2 DEF CharactersAreAccounted
  <2>4. Len(stream) = metrics.visible_chars + (Len(visible_out) + n)
                      + (metrics.thought_chars + metrics.discarded_thought_chars)
                      + (TagChars(metrics) + Len(close_tag)) + Len(buffer) + Len(text')
    <3>1. n \in Nat
      BY <1>3, <1>c
    <3> DEFINE s == Len(stream)  v == metrics.visible_chars  o == Len(visible_out)
               k == metrics.thought_chars  d == metrics.discarded_thought_chars
               t == TagChars(metrics)  b == Len(buffer)  x == Len(text)
               g == Len(close_tag)  y == Len(text')
    <3>2. /\ s \in Nat /\ v \in Nat /\ o \in Nat /\ k \in Nat /\ d \in Nat
          /\ t \in Nat /\ b \in Nat /\ x \in Nat /\ g \in Nat /\ y \in Nat
      BY <1>3, <2>2
    <3>3. s = v + o + (k + d) + t + b + x /\ x = y + n + g
      BY <2>2, <2>3
    <3> HIDE DEF s, v, o, k, d, t, b, x, g, y
    <3>4. s = v + (o + n) + (k + d) + (t + g) + b + y
      BY <3>1, <3>2, <3>3
    <3> QED BY <3>4 DEF s, v, o, k, d, t, b, x, g, y
  <2>5. Len(stream') = metrics'.visible_chars + Len(visible_out')
                       + (metrics'.thought_chars + metrics'.discarded_thought_chars)
                       + TagChars(metrics') + Len(buffer') + Len(text')
    BY <2>1, <2>4, Zenon
  <2> QED BY <2>5 DEF CharactersAreAccounted
<1>7. HeldBackFits'
  BY <1>1, <1>f, NothingHeldBack DEF HeldBackFits
<1> QED BY <1>4, <1>5, <1>6, <1>7 DEF IInv

\* Without a tag, all becomes visible but what may begin one.
LEMMA EmitRestKeeps ==
  ASSUME IInv, EmitRest PROVE IInv'
<1>1. /\ text \in Seq(Char) /\ buffer \in Seq(Char) /\ visible_out \in Seq(Char)
      /\ visible \in Seq(Char) /\ thoughts \in Seq(Char) /\ stream \in Seq(Char)
      /\ metrics \in SanitizerMetrics
      /\ open_tag \in Seq(Char) /\ close_tag \in Seq(Char)
      /\ open_tag # <<>> /\ close_tag # <<>>
  BY SanitizerAssumption, LenProperties DEF IInv, TypeOK
<1>2. TypeOK /\ ThoughtsAreBounded /\ CharactersAreAccounted /\ HeldBackFits
  BY DEF IInv
<1>3. /\ metrics.visible_chars \in Nat /\ TagChars(metrics) \in Nat
      /\ metrics.thought_chars \in Nat /\ metrics.discarded_thought_chars \in Nat
      /\ Len(open_tag) \in Nat /\ Len(close_tag) \in Nat /\ Len(stream) \in Nat
      /\ Len(text) \in Nat /\ Len(buffer) \in Nat /\ Len(visible_out) \in Nat
      /\ Len(visible) \in Nat
  BY <1>1, TagCharsGrow, TagLengths, LenProperties DEF SanitizerMetrics
<1>a. PICK cutoff \in 0 .. Len(text) :
        /\ PotentialPrefix(text, open_tag, cutoff)
        /\ visible_out' = visible_out \o First(text, cutoff)
        /\ buffer' = From(text, cutoff)
  BY DEF EmitRest
<1>b. /\ phase = "feeding" /\ text # <<>> /\ state = "EMITTING" /\ text' = <<>>
      /\ UNCHANGED <<phase, state, visible, thoughts, metrics, stream, began>>
  BY DEF EmitRest, Emitting
<1>c. /\ visible_out' \in Seq(Char) /\ Len(visible_out') = Len(visible_out) + cutoff
      /\ buffer' \in Seq(Char) /\ Len(buffer') = Len(text) - cutoff
      /\ text' \in Seq(Char) /\ Len(text') = 0
  <2>1. First(text, cutoff) \in Seq(Char) /\ Len(First(text, cutoff)) = cutoff
    BY <1>1, FirstIsASeq
  <2>2. buffer' \in Seq(Char) /\ Len(buffer') = Len(text) - cutoff
    BY <1>1, <1>a, FromIsASeq
  <2>3. visible_out' \in Seq(Char) /\ Len(visible_out') = Len(visible_out) + cutoff
    <3>1. /\ visible_out \o First(text, cutoff) \in Seq(Char)
          /\ Len(visible_out \o First(text, cutoff))
               = Len(visible_out) + Len(First(text, cutoff))
      BY <1>1, <2>1, ConcatIsASeq
    <3> QED BY <1>a, <2>1, <3>1
  <2> QED BY <1>b, <2>2, <2>3, EmptySeq
<1>d. buffer = <<>> /\ Len(buffer) = 0
  BY <1>2, <1>b, EmptySeq DEF HeldBackFits
<1>4. TypeOK'
  BY <1>2, <1>b, <1>c DEF TypeOK
<1>5. ThoughtsAreBounded'
  BY <1>2, <1>b DEF ThoughtsAreBounded
<1>6. CharactersAreAccounted'
  <2>1. /\ Len(stream') = Len(stream)
        /\ metrics'.visible_chars = metrics.visible_chars
        /\ Len(visible_out') = Len(visible_out) + cutoff
        /\ metrics'.thought_chars + metrics'.discarded_thought_chars
             = metrics.thought_chars + metrics.discarded_thought_chars
        /\ TagChars(metrics') = TagChars(metrics)
        /\ Len(text) = Len(buffer') + cutoff /\ Len(buffer') \in Nat
        /\ Len(text') = 0
    BY <1>1, <1>3, <1>a, <1>b, <1>c, <1>d, LenProperties
  <2>2. Len(stream) = metrics.visible_chars + Len(visible_out)
                      + (metrics.thought_chars + metrics.discarded_thought_chars)
                      + TagChars(metrics) + Len(buffer) + Len(text)
    BY <1>2 DEF CharactersAreAccounted
  <2>3. Len(stream) = metrics.visible_chars + (Len(visible_out) + cutoff)
                      + (metrics.thought_chars + metrics.discarded_thought_chars)
                      + TagChars(metrics) + Len(buffer') + 0
    <3>1. cutoff \in Nat
      BY <1>3
    <3> DEFINE s == Len(stream)  v == metrics.visible_chars  o == Len(visible_out)
               k == metrics.thought_chars  d == metrics.discarded_thought_chars
               t == TagChars(metrics)  b == Len(buffer)  x == Len(text)
               y == Len(buffer')
    <3>2. /\ s \in Nat /\ v \in Nat /\ o \in Nat /\ k \in Nat /\ d \in Nat
          /\ t \in Nat /\ b \in Nat /\ x \in Nat /\ y \in Nat
      BY <1>3, <2>1
    <3>3. s = v + o + (k + d) + t + b + x /\ b = 0 /\ x = y + cutoff
      BY <1>d, <2>1, <2>2
    <3> HIDE DEF s, v, o, k, d, t, b, x, y
    <3>4. s = v + (o + cutoff) + (k + d) + t + y + 0
      BY <3>1, <3>2, <3>3
    <3> QED BY <3>4 DEF s, v, o, k, d, t, b, x, y
  <2>4. Len(stream') = metrics'.visible_chars + Len(visible_out')
                       + (metrics'.thought_chars + metrics'.discarded_thought_chars)
                       + TagChars(metrics') + Len(buffer') + Len(text')
    BY <2>1, <2>3, Zenon
  <2> QED BY <2>4 DEF CharactersAreAccounted
<1>7. HeldBackFits'
  BY <1>1, <1>a, <1>b, CutoffHoldsBackATag DEF HeldBackFits
<1> QED BY <1>4, <1>5, <1>6, <1>7 DEF IInv

\* Up to the closing tag the text is thought.
LEMMA ThinkUpToCloseKeeps ==
  ASSUME IInv, ThinkUpToClose PROVE IInv'
<1>1. /\ text \in Seq(Char) /\ buffer \in Seq(Char) /\ visible_out \in Seq(Char)
      /\ visible \in Seq(Char) /\ thoughts \in Seq(Char) /\ stream \in Seq(Char)
      /\ metrics \in SanitizerMetrics
      /\ open_tag \in Seq(Char) /\ close_tag \in Seq(Char)
      /\ open_tag # <<>> /\ close_tag # <<>>
  BY SanitizerAssumption, LenProperties DEF IInv, TypeOK
<1>2. TypeOK /\ ThoughtsAreBounded /\ CharactersAreAccounted /\ HeldBackFits
  BY DEF IInv
<1>3. /\ metrics.visible_chars \in Nat /\ TagChars(metrics) \in Nat
      /\ metrics.thought_chars \in Nat /\ metrics.discarded_thought_chars \in Nat
      /\ Len(open_tag) \in Nat /\ Len(close_tag) \in Nat /\ Len(stream) \in Nat
      /\ Len(text) \in Nat /\ Len(buffer) \in Nat /\ Len(visible_out) \in Nat
      /\ Len(visible) \in Nat
  BY <1>1, TagCharsGrow, TagLengths, LenProperties DEF SanitizerMetrics
<1> DEFINE found == metrics.close_tags_detected + 1
           m == [metrics EXCEPT !.close_tags_detected = found]
<1>a. PICK n \in Offsets(text, close_tag) :
        /\ Find(text, close_tag, n)
        /\ Recorded(First(text, n), m)
        /\ text' = From(text, n + Len(close_tag))
  BY DEF ThinkUpToClose
<1>b. /\ phase = "feeding" /\ text # <<>> /\ state' \in State
      /\ UNCHANGED <<phase, buffer, visible_out, visible, stream, began>>
  BY DEF ThinkUpToClose, Thinking, State
<1>c. n \in 0 .. Len(text) /\ n + Len(close_tag) \in 0 .. Len(text)
  BY <1>1, <1>a, FoundInside
<1>d. /\ First(text, n) \in Seq(Char) /\ Len(First(text, n)) = n
      /\ text' \in Seq(Char) /\ Len(text') = Len(text) - (n + Len(close_tag))
  BY <1>1, <1>a, <1>c, FirstIsASeq, FromIsASeq
<1>e. /\ m \in SanitizerMetrics
      /\ m.visible_chars = metrics.visible_chars
      /\ m.thought_chars = metrics.thought_chars
      /\ m.discarded_thought_chars = metrics.discarded_thought_chars
      /\ m.open_tags_detected = metrics.open_tags_detected
      /\ m.close_tags_detected = found
      /\ m.unopened_close_tags = metrics.unopened_close_tags
  <2>1. found \in Nat
    BY <1>1 DEF SanitizerMetrics
  <2> HIDE DEF found
  <2> QED BY <1>1, <2>1 DEF SanitizerMetrics
<1> HIDE DEF m
<1>f. /\ thoughts' \in Seq(Char) /\ metrics' \in SanitizerMetrics /\ ThoughtsAreBounded'
      /\ metrics'.thought_chars + metrics'.discarded_thought_chars
           = metrics.thought_chars + metrics.discarded_thought_chars + n
      /\ metrics'.visible_chars = m.visible_chars
      /\ metrics'.open_tags_detected = m.open_tags_detected
      /\ metrics'.close_tags_detected = m.close_tags_detected
      /\ metrics'.unopened_close_tags = m.unopened_close_tags
  BY <1>2, <1>a, <1>d, <1>e, RecordedKeepsTheBound
<1>g. TagChars(metrics') = TagChars(metrics) + Len(close_tag)
  <2>1. metrics'.close_tags_detected + metrics'.unopened_close_tags
          = metrics.close_tags_detected + metrics.unopened_close_tags + 1
    <3>1. metrics.close_tags_detected \in Nat /\ metrics.unopened_close_tags \in Nat
      BY <1>1 DEF SanitizerMetrics
    <3> QED BY <1>e, <1>f, <3>1
  <2> QED BY <1>1, <1>e, <1>f, <2>1, TagCharsGrow
<1>h. buffer = <<>> /\ buffer' = <<>>
  BY <1>2, <1>b DEF HeldBackFits
<1>4. TypeOK'
  BY <1>2, <1>b, <1>d, <1>f DEF TypeOK
<1>5. ThoughtsAreBounded'
  BY <1>f
<1>6. CharactersAreAccounted'
  <2>1. /\ Len(stream') = Len(stream)
        /\ metrics'.visible_chars = metrics.visible_chars
        /\ Len(visible_out') = Len(visible_out)
        /\ metrics'.thought_chars + metrics'.discarded_thought_chars
             = metrics.thought_chars + metrics.discarded_thought_chars + n
        /\ TagChars(metrics') = TagChars(metrics) + Len(close_tag)
        /\ Len(buffer') = Len(buffer)
        /\ Len(text) = Len(text') + n + Len(close_tag) /\ Len(text') \in Nat
    BY <1>1, <1>3, <1>c, <1>b, <1>d, <1>e, <1>f, <1>g, LenProperties
  <2>2. Len(stream) = metrics.visible_chars + Len(visible_out)
                      + (metrics.thought_chars + metrics.discarded_thought_chars)
                      + TagChars(metrics) + Len(buffer) + Len(text)
    BY <1>2 DEF CharactersAreAccounted
  <2>3. Len(stream) = metrics.visible_chars + Len(visible_out)
                      + (metrics.thought_chars + metrics.discarded_thought_chars + n)
                      + (TagChars(metrics) + Len(close_tag)) + Len(buffer) + Len(text')
    <3>1. n \in Nat
      BY <1>3, <1>c
    <3> DEFINE s == Len(stream)  v == metrics.visible_chars  o == Len(visible_out)
               k == metrics.thought_chars  d == metrics.discarded_thought_chars
               t == TagChars(metrics)  b == Len(buffer)  x == Len(text)
               g == Len(close_tag)  y == Len(text')
    <3>2. /\ s \in Nat /\ v \in Nat /\ o \in Nat /\ k \in Nat /\ d \in Nat
          /\ t \in Nat /\ b \in Nat /\ x \in Nat /\ g \in Nat /\ y \in Nat
      BY <1>3, <2>1
    <3>3. s = v + o + (k + d) + t + b + x /\ x = y + n + g
      BY <2>1, <2>2
    <3> HIDE DEF s, v, o, k, d, t, b, x, g, y
    <3>4. s = v + o + (k + d + n) + (t + g) + b + y
      BY <3>1, <3>2, <3>3
    <3> QED BY <3>4 DEF s, v, o, k, d, t, b, x, g, y
  <2>4. Len(stream') = metrics'.visible_chars + Len(visible_out')
                       + (metrics'.thought_chars + metrics'.discarded_thought_chars)
                       + TagChars(metrics') + Len(buffer') + Len(text')
    BY <2>1, <2>3, Zenon
  <2> QED BY <2>4 DEF CharactersAreAccounted
<1>7. HeldBackFits'
  BY <1>1, <1>h, NothingHeldBack DEF HeldBackFits
<1> QED BY <1>4, <1>5, <1>6, <1>7 DEF IInv

\* Without a closing tag, all is thought but what may begin one.
LEMMA ThinkRestKeeps ==
  ASSUME IInv, ThinkRest PROVE IInv'
<1>1. /\ text \in Seq(Char) /\ buffer \in Seq(Char) /\ visible_out \in Seq(Char)
      /\ visible \in Seq(Char) /\ thoughts \in Seq(Char) /\ stream \in Seq(Char)
      /\ metrics \in SanitizerMetrics
      /\ open_tag \in Seq(Char) /\ close_tag \in Seq(Char)
      /\ open_tag # <<>> /\ close_tag # <<>>
  BY SanitizerAssumption, LenProperties DEF IInv, TypeOK
<1>2. TypeOK /\ ThoughtsAreBounded /\ CharactersAreAccounted /\ HeldBackFits
  BY DEF IInv
<1>3. /\ metrics.visible_chars \in Nat /\ TagChars(metrics) \in Nat
      /\ metrics.thought_chars \in Nat /\ metrics.discarded_thought_chars \in Nat
      /\ Len(open_tag) \in Nat /\ Len(close_tag) \in Nat /\ Len(stream) \in Nat
      /\ Len(text) \in Nat /\ Len(buffer) \in Nat /\ Len(visible_out) \in Nat
      /\ Len(visible) \in Nat
  BY <1>1, TagCharsGrow, TagLengths, LenProperties DEF SanitizerMetrics
<1>a. PICK cutoff \in 0 .. Len(text) :
        /\ PotentialPrefix(text, close_tag, cutoff)
        /\ Recorded(First(text, cutoff), metrics)
        /\ buffer' = From(text, cutoff)
  BY DEF ThinkRest
<1>b. /\ phase = "feeding" /\ text # <<>> /\ state = "THINKING" /\ text' = <<>>
      /\ UNCHANGED <<phase, state, visible_out, visible, stream, began>>
  BY DEF ThinkRest, Thinking
<1>c. /\ First(text, cutoff) \in Seq(Char) /\ Len(First(text, cutoff)) = cutoff
      /\ buffer' \in Seq(Char) /\ Len(buffer') = Len(text) - cutoff
      /\ text' \in Seq(Char) /\ Len(text') = 0
  BY <1>1, <1>a, <1>b, FirstIsASeq, FromIsASeq, EmptySeq
<1>d. buffer = <<>> /\ Len(buffer) = 0
  BY <1>2, <1>b, EmptySeq DEF HeldBackFits
<1>f. /\ thoughts' \in Seq(Char) /\ metrics' \in SanitizerMetrics /\ ThoughtsAreBounded'
      /\ metrics'.thought_chars + metrics'.discarded_thought_chars
           = metrics.thought_chars + metrics.discarded_thought_chars + cutoff
      /\ metrics'.visible_chars = metrics.visible_chars
      /\ metrics'.open_tags_detected = metrics.open_tags_detected
      /\ metrics'.close_tags_detected = metrics.close_tags_detected
      /\ metrics'.unopened_close_tags = metrics.unopened_close_tags
  BY <1>1, <1>2, <1>a, <1>c, RecordedKeepsTheBound
<1>g. TagChars(metrics') = TagChars(metrics)
  BY <1>1, <1>f, TagCharsGrow
<1>4. TypeOK'
  BY <1>2, <1>b, <1>c, <1>f DEF TypeOK
<1>5. ThoughtsAreBounded'
  BY <1>f
<1>6. CharactersAreAccounted'
  <2>1. /\ Len(stream') = Len(stream)
        /\ metrics'.visible_chars = metrics.visible_chars
        /\ Len(visible_out') = Len(visible_out)
        /\ metrics'.thought_chars + metrics'.discarded_thought_chars
             = metrics.thought_chars + metrics.discarded_thought_chars + cutoff
        /\ TagChars(metrics') = TagChars(metrics)
        /\ Len(text) = Len(buffer') + cutoff /\ Len(buffer') \in Nat
        /\ Len(text') = 0
    BY <1>1, <1>3, <1>a, <1>b, <1>c, <1>f, <1>g, LenProperties
  <2>2. Len(stream) = metrics.visible_chars + Len(visible_out)
                      + (metrics.thought_chars + metrics.discarded_thought_chars)
                      + TagChars(metrics) + Len(buffer) + Len(text)
    BY <1>2 DEF CharactersAreAccounted
  <2>3. Len(stream) = metrics.visible_chars + Len(visible_out)
                      + (metrics.thought_chars + metrics.discarded_thought_chars + cutoff)
                      + TagChars(metrics) + Len(buffer') + 0
    <3>1. cutoff \in Nat
      BY <1>3
    <3> DEFINE s == Len(stream)  v == metrics.visible_chars  o == Len(visible_out)
               k == metrics.thought_chars  d == metrics.discarded_thought_chars
               t == TagChars(metrics)  b == Len(buffer)  x == Len(text)
               y == Len(buffer')
    <3>2. /\ s \in Nat /\ v \in Nat /\ o \in Nat /\ k \in Nat /\ d \in Nat
          /\ t \in Nat /\ b \in Nat /\ x \in Nat /\ y \in Nat
      BY <1>3, <2>1
    <3>3. s = v + o + (k + d) + t + b + x /\ b = 0 /\ x = y + cutoff
      BY <1>d, <2>1, <2>2
    <3> HIDE DEF s, v, o, k, d, t, b, x, y
    <3>4. s = v + o + (k + d + cutoff) + t + y + 0
      BY <3>1, <3>2, <3>3
    <3> QED BY <3>4 DEF s, v, o, k, d, t, b, x, y
  <2>4. Len(stream') = metrics'.visible_chars + Len(visible_out')
                       + (metrics'.thought_chars + metrics'.discarded_thought_chars)
                       + TagChars(metrics') + Len(buffer') + Len(text')
    BY <2>1, <2>3, Zenon
  <2> QED BY <2>4 DEF CharactersAreAccounted
<1>7. HeldBackFits'
  BY <1>1, <1>a, <1>b, CutoffHoldsBackATag DEF HeldBackFits
<1> QED BY <1>4, <1>5, <1>6, <1>7 DEF IInv

\* feed returns.
LEMMA ReturnKeeps ==
  ASSUME IInv, Return PROVE IInv'
<1>1. /\ text \in Seq(Char) /\ buffer \in Seq(Char) /\ visible_out \in Seq(Char)
      /\ visible \in Seq(Char) /\ thoughts \in Seq(Char) /\ stream \in Seq(Char)
      /\ metrics \in SanitizerMetrics
      /\ open_tag \in Seq(Char) /\ close_tag \in Seq(Char)
      /\ open_tag # <<>> /\ close_tag # <<>>
  BY SanitizerAssumption, LenProperties DEF IInv, TypeOK
<1>2. TypeOK /\ ThoughtsAreBounded /\ CharactersAreAccounted /\ HeldBackFits
  BY DEF IInv
<1>3. /\ metrics.visible_chars \in Nat /\ TagChars(metrics) \in Nat
      /\ metrics.thought_chars \in Nat /\ metrics.discarded_thought_chars \in Nat
      /\ Len(open_tag) \in Nat /\ Len(close_tag) \in Nat /\ Len(stream) \in Nat
      /\ Len(text) \in Nat /\ Len(buffer) \in Nat /\ Len(visible_out) \in Nat
      /\ Len(visible) \in Nat
  BY <1>1, TagCharsGrow, TagLengths, LenProperties DEF SanitizerMetrics
<1> DEFINE shown == metrics.visible_chars + Len(visible_out)
<1>a. /\ shown \in Nat /\ metrics' = [metrics EXCEPT !.visible_chars = shown]
      /\ visible' = visible \o visible_out
  BY <1>3 DEF Return
<1>b. /\ phase = "feeding" /\ phase' = "idle"
      /\ visible_out' = <<>> /\ text = <<>>
      /\ UNCHANGED <<state, buffer, text, thoughts, stream, began>>
  BY DEF Return
<1>c. /\ metrics' \in SanitizerMetrics /\ metrics'.visible_chars = shown
      /\ metrics'.thought_chars = metrics.thought_chars
      /\ metrics'.discarded_thought_chars = metrics.discarded_thought_chars
      /\ metrics'.open_tags_detected = metrics.open_tags_detected
      /\ metrics'.close_tags_detected = metrics.close_tags_detected
      /\ metrics'.unopened_close_tags = metrics.unopened_close_tags
  <2> HIDE DEF shown
  <2> QED BY <1>1, <1>a DEF SanitizerMetrics
<1>d. TagChars(metrics') = TagChars(metrics)
  BY <1>1, <1>c, TagCharsGrow
<1>e. visible' \in Seq(Char) /\ <<>> \in Seq(Char) /\ Len(<<>>) = 0
  BY <1>1, <1>a, ConcatIsASeq, EmptySeq
<1>4. TypeOK'
  BY <1>2, <1>b, <1>c, <1>e DEF TypeOK
<1>5. ThoughtsAreBounded'
  BY <1>2, <1>b, <1>c DEF ThoughtsAreBounded
<1>6. CharactersAreAccounted'
  <2>1. /\ Len(stream') = Len(stream)
        /\ metrics'.visible_chars = shown
        /\ Len(visible_out') = 0
        /\ metrics'.thought_chars + metrics'.discarded_thought_chars
             = metrics.thought_chars + metrics.discarded_thought_chars
        /\ TagChars(metrics') = TagChars(metrics)
        /\ Len(buffer') = Len(buffer)
        /\ Len(text') = Len(text)
    <3> HIDE DEF shown
    <3> QED BY <1>b, <1>c, <1>d, <1>e
  <2>2. Len(stream) = metrics.visible_chars + Len(visible_out)
                      + (metrics.thought_chars + metrics.discarded_thought_chars)
                      + TagChars(metrics) + Len(buffer) + Len(text)
    BY <1>2 DEF CharactersAreAccounted
  <2>3. Len(stream) = shown + 0
                      + (metrics.thought_chars + metrics.discarded_thought_chars)
                      + TagChars(metrics) + Len(buffer) + Len(text)
    <3> DEFINE s == Len(stream)  v == metrics.visible_chars  o == Len(visible_out)
               k == metrics.thought_chars  d == metrics.discarded_thought_chars
               t == TagChars(metrics)  b == Len(buffer)  x == Len(text)
    <3>2. /\ s \in Nat /\ v \in Nat /\ o \in Nat /\ k \in Nat
          /\ d \in Nat /\ t \in Nat /\ b \in Nat /\ x \in Nat
      BY <1>3
    <3>3. s = v + o + (k + d) + t + b + x
      BY <2>2
    <3> HIDE DEF s, v, o, k, d, t, b, x
    <3>4. s = (v + o) + 0 + (k + d) + t + b + x
      BY <3>2, <3>3
    <3> QED BY <3>4 DEF s, v, o, k, d, t, b, x
  <2> HIDE DEF shown
  <2>4. Len(stream') = metrics'.visible_chars + Len(visible_out')
                       + (metrics'.thought_chars + metrics'.discarded_thought_chars)
                       + TagChars(metrics') + Len(buffer') + Len(text')
    BY <2>1, <2>3, Zenon
  <2> QED BY <2>4 DEF CharactersAreAccounted
<1>7. HeldBackFits'
  BY <1>2, <1>b DEF HeldBackFits, TypeOK
<1> QED BY <1>4, <1>5, <1>6, <1>7 DEF IInv

\* What was held back turns out to be thought.
LEMMA FlushThinkingKeeps ==
  ASSUME IInv, FlushThinking PROVE IInv'
<1>1. /\ text \in Seq(Char) /\ buffer \in Seq(Char) /\ visible_out \in Seq(Char)
      /\ visible \in Seq(Char) /\ thoughts \in Seq(Char) /\ stream \in Seq(Char)
      /\ metrics \in SanitizerMetrics
      /\ open_tag \in Seq(Char) /\ close_tag \in Seq(Char)
      /\ open_tag # <<>> /\ close_tag # <<>>
  BY SanitizerAssumption, LenProperties DEF IInv, TypeOK
<1>2. TypeOK /\ ThoughtsAreBounded /\ CharactersAreAccounted /\ HeldBackFits
  BY DEF IInv
<1>3. /\ metrics.visible_chars \in Nat /\ TagChars(metrics) \in Nat
      /\ metrics.thought_chars \in Nat /\ metrics.discarded_thought_chars \in Nat
      /\ Len(open_tag) \in Nat /\ Len(close_tag) \in Nat /\ Len(stream) \in Nat
      /\ Len(text) \in Nat /\ Len(buffer) \in Nat /\ Len(visible_out) \in Nat
      /\ Len(visible) \in Nat
  BY <1>1, TagCharsGrow, TagLengths, LenProperties DEF SanitizerMetrics
<1> DEFINE m == [metrics EXCEPT !.unclosed_stream = TRUE]
<1>a. Recorded(buffer, m)
  BY DEF FlushThinking
<1>b. /\ phase = "idle" /\ phase' = "flushed" /\ buffer' = <<>>
      /\ UNCHANGED <<state, text, visible_out, visible, stream, began>>
  BY DEF FlushThinking
<1>c. <<>> \in Seq(Char) /\ Len(<<>>) = 0
  BY EmptySeq
<1>e. /\ m \in SanitizerMetrics
      /\ m.visible_chars = metrics.visible_chars
      /\ m.thought_chars = metrics.thought_chars
      /\ m.discarded_thought_chars = metrics.discarded_thought_chars
      /\ m.open_tags_detected = metrics.open_tags_detected
      /\ m.close_tags_detected = metrics.close_tags_detected
      /\ m.unopened_close_tags = metrics.unopened_close_tags
  BY <1>1 DEF SanitizerMetrics
<1> HIDE DEF m
<1>f. /\ thoughts' \in Seq(Char) /\ metrics' \in SanitizerMetrics /\ ThoughtsAreBounded'
      /\ metrics'.thought_chars + metrics'.discarded_thought_chars
           = metrics.thought_chars + metrics.discarded_thought_chars + Len(buffer)
      /\ metrics'.visible_chars = metrics.visible_chars
      /\ metrics'.open_tags_detected = metrics.open_tags_detected
      /\ metrics'.close_tags_detected = metrics.close_tags_detected
      /\ metrics'.unopened_close_tags = metrics.unopened_close_tags
  BY <1>1, <1>2, <1>a, <1>e, RecordedKeepsTheBound
<1>g. TagChars(metrics') = TagChars(metrics)
  BY <1>1, <1>f, TagCharsGrow
<1>4. TypeOK'
  BY <1>2, <1>b, <1>c, <1>f DEF TypeOK
<1>5. ThoughtsAreBounded'
  BY <1>f
<1>6. CharactersAreAccounted'
  <2>1. /\ Len(stream') = Len(stream)
        /\ metrics'.visible_chars = metrics.visible_chars
        /\ Len(visible_out') = Len(visible_out)
        /\ metrics'.thought_chars + metrics'.discarded_thought_chars
             = metrics.thought_chars + metrics.discarded_thought_chars + Len(buffer)
        /\ TagChars(metrics') = TagChars(metrics)
        /\ Len(buffer') = 0
        /\ Len(text') = Len(text)
    BY <1>b, <1>c, <1>f, <1>g
  <2>2. Len(stream) = metrics.visible_chars + Len(visible_out)
                      + (metrics.thought_chars + metrics.discarded_thought_chars)
                      + TagChars(metrics) + Len(buffer) + Len(text)
    BY <1>2 DEF CharactersAreAccounted
  <2>3. Len(stream) = metrics.visible_chars + Len(visible_out)
                      + (metrics.thought_chars + metrics.discarded_thought_chars + Len(buffer))
                      + TagChars(metrics) + 0 + Len(text)
    <3> DEFINE s == Len(stream)  v == metrics.visible_chars  o == Len(visible_out)
               k == metrics.thought_chars  d == metrics.discarded_thought_chars
               t == TagChars(metrics)  b == Len(buffer)  x == Len(text)
    <3>2. /\ s \in Nat /\ v \in Nat /\ o \in Nat /\ k \in Nat
          /\ d \in Nat /\ t \in Nat /\ b \in Nat /\ x \in Nat
      BY <1>3
    <3>3. s = v + o + (k + d) + t + b + x
      BY <2>2
    <3> HIDE DEF s, v, o, k, d, t, b, x
    <3>4. s = v + o + (k + d + b) + t + 0 + x
      BY <3>2, <3>3
    <3> QED BY <3>4 DEF s, v, o, k, d, t, b, x
  <2>4. Len(stream') = metrics'.visible_chars + Len(visible_out')
                       + (metrics'.thought_chars + metrics'.discarded_thought_chars)
                       + TagChars(metrics') + Len(buffer') + Len(text')
    BY <2>1, <2>3, Zenon
  <2> QED BY <2>4 DEF CharactersAreAccounted
<1>7. HeldBackFits'
  BY <1>2, <1>b DEF HeldBackFits, TypeOK
<1> QED BY <1>4, <1>5, <1>6, <1>7 DEF IInv

\* What was held back turns out to be visible.
LEMMA FlushEmittingKeeps ==
  ASSUME IInv, FlushEmitting PROVE IInv'
<1>1. /\ text \in Seq(Char) /\ buffer \in Seq(Char) /\ visible_out \in Seq(Char)
      /\ visible \in Seq(Char) /\ thoughts \in Seq(Char) /\ stream \in Seq(Char)
      /\ metrics \in SanitizerMetrics
      /\ open_tag \in Seq(Char) /\ close_tag \in Seq(Char)
      /\ open_tag # <<>> /\ close_tag # <<>>
  BY SanitizerAssumption, LenProperties DEF IInv, TypeOK
<1>2. TypeOK /\ ThoughtsAreBounded /\ CharactersAreAccounted /\ HeldBackFits
  BY DEF IInv
<1>3. /\ metrics.visible_chars \in Nat /\ TagChars(metrics) \in Nat
      /\ metrics.thought_chars \in Nat /\ metrics.discarded_thought_chars \in Nat
      /\ Len(open_tag) \in Nat /\ Len(close_tag) \in Nat /\ Len(stream) \in Nat
      /\ Len(text) \in Nat /\ Len(buffer) \in Nat /\ Len(visible_out) \in Nat
      /\ Len(visible) \in Nat
  BY <1>1, TagCharsGrow, TagLengths, LenProperties DEF SanitizerMetrics
<1> DEFINE shown == metrics.visible_chars + Len(buffer)
<1>a. /\ shown \in Nat /\ metrics' = [metrics EXCEPT !.visible_chars = shown]
      /\ visible' = visible \o buffer
  BY <1>3 DEF FlushEmitting
<1>b. /\ phase = "idle" /\ phase' = "flushed"
      /\ buffer' = <<>>
      /\ UNCHANGED <<state, text, visible_out, thoughts, stream, began>>
  BY DEF FlushEmitting
<1>c. /\ metrics' \in SanitizerMetrics /\ metrics'.visible_chars = shown
      /\ metrics'.thought_chars = metrics.thought_chars
      /\ metrics'.discarded_thought_chars = metrics.discarded_thought_chars
      /\ metrics'.open_tags_detected = metrics.open_tags_detected
      /\ metrics'.close_tags_detected = metrics.close_tags_detected
      /\ metrics'.unopened_close_tags = metrics.unopened_close_tags
  <2> HIDE DEF shown
  <2> QED BY <1>1, <1>a DEF SanitizerMetrics
<1>d. TagChars(metrics') = TagChars(metrics)
  BY <1>1, <1>c, TagCharsGrow
<1>e. visible' \in Seq(Char) /\ <<>> \in Seq(Char) /\ Len(<<>>) = 0
  BY <1>1, <1>a, ConcatIsASeq, EmptySeq
<1>4. TypeOK'
  BY <1>2, <1>b, <1>c, <1>e DEF TypeOK
<1>5. ThoughtsAreBounded'
  BY <1>2, <1>b, <1>c DEF ThoughtsAreBounded
<1>6. CharactersAreAccounted'
  <2>1. /\ Len(stream') = Len(stream)
        /\ metrics'.visible_chars = shown
        /\ Len(visible_out') = Len(visible_out)
        /\ metrics'.thought_chars + metrics'.discarded_thought_chars
             = metrics.thought_chars + metrics.discarded_thought_chars
        /\ TagChars(metrics') = TagChars(metrics)
        /\ Len(buffer') = 0
        /\ Len(text') = Len(text)
    <3> HIDE DEF shown
    <3> QED BY <1>b, <1>c, <1>d, <1>e
  <2>2. Len(stream) = metrics.visible_chars + Len(visible_out)
                      + (metrics.thought_chars + metrics.discarded_thought_chars)
                      + TagChars(metrics) + Len(buffer) + Len(text)
    BY <1>2 DEF CharactersAreAccounted
  <2>3. Len(stream) = shown + Len(visible_out)
                      + (metrics.thought_chars + metrics.discarded_thought_chars)
                      + TagChars(metrics) + 0 + Len(text)
    <3> DEFINE s == Len(stream)  v == metrics.visible_chars  o == Len(visible_out)
               k == metrics.thought_chars  d == metrics.discarded_thought_chars
               t == TagChars(metrics)  b == Len(buffer)  x == Len(text)
    <3>2. /\ s \in Nat /\ v \in Nat /\ o \in Nat /\ k \in Nat
          /\ d \in Nat /\ t \in Nat /\ b \in Nat /\ x \in Nat
      BY <1>3
    <3>3. s = v + o + (k + d) + t + b + x
      BY <2>2
    <3> HIDE DEF s, v, o, k, d, t, b, x
    <3>4. s = (v + b) + o + (k + d) + t + 0 + x
      BY <3>2, <3>3
    <3> QED BY <3>4 DEF s, v, o, k, d, t, b, x
  <2> HIDE DEF shown
  <2>4. Len(stream') = metrics'.visible_chars + Len(visible_out')
                       + (metrics'.thought_chars + metrics'.discarded_thought_chars)
                       + TagChars(metrics') + Len(buffer') + Len(text')
    BY <2>1, <2>3, Zenon
  <2> QED BY <2>4 DEF CharactersAreAccounted
<1>7. HeldBackFits'
  BY <1>2, <1>b DEF HeldBackFits, TypeOK
<1> QED BY <1>4, <1>5, <1>6, <1>7 DEF IInv

\* Every step keeps the invariant.
LEMMA StepSound == IInv /\ [Next]_vars => IInv'
<1> SUFFICES ASSUME IInv, [Next]_vars PROVE IInv'
  OBVIOUS
<1>1. ASSUME NEW chunk \in Chunk, Feed(chunk) PROVE IInv'
  BY <1>1, FeedKeeps
<1>2. CASE EmitUpToOpen
  BY <1>2, EmitUpToOpenKeeps
<1>3. CASE EmitUpToClose
  BY <1>3, EmitUpToCloseKeeps
<1>4. CASE EmitRest
  BY <1>4, EmitRestKeeps
<1>5. CASE ThinkUpToClose
  BY <1>5, ThinkUpToCloseKeeps
<1>6. CASE ThinkRest
  BY <1>6, ThinkRestKeeps
<1>7. CASE Return
  BY <1>7, ReturnKeeps
<1>8. CASE FlushThinking
  BY <1>8, FlushThinkingKeeps
<1>9. CASE FlushEmitting
  BY <1>9, FlushEmittingKeeps
<1>10. CASE UNCHANGED vars
  BY <1>10 DEF IInv, TypeOK, ThoughtsAreBounded, CharactersAreAccounted, HeldBackFits, vars
<1> QED BY <1>1, <1>2, <1>3, <1>4, <1>5, <1>6, <1>7, <1>8, <1>9, <1>10 DEF Next

\* The invariant holds in every reachable state.
LEMMA Invariance == Spec => []IInv
  BY InitSound, StepSound, PTL DEF Spec

\* feed's locals are gone between calls and every variable keeps its type.
THEOREM TypeCorrect == Spec => []TypeOK
<1>1. IInv => TypeOK
  BY DEF IInv
<1> QED BY <1>1, Invariance, PTL

\* The bound of _record_thought is never exceeded over a whole stream, and
\* thoughts are discarded only once it is reached.
THEOREM BoundHolds == Spec => []ThoughtsAreBounded
<1>1. IInv => ThoughtsAreBounded
  BY DEF IInv
<1> QED BY <1>1, Invariance, PTL

\* feed and flush lose no character and count none twice, for any chunking.
THEOREM AccountsBalance == Spec => []CharactersAreAccounted
<1>1. IInv => CharactersAreAccounted
  BY DEF IInv
<1> QED BY <1>1, Invariance, PTL

\* Between calls feed withholds a proper beginning of the tag it looks for,
\* nothing else.
THEOREM WithholdsOnlyATag == Spec => []HeldBackBeginsATag
<1>1. IInv => HeldBackBeginsATag
  BY DEF IInv, HeldBackFits, HeldBackBeginsATag
<1> QED BY <1>1, Invariance, PTL

\* Between calls the sanitizer's state is whole, its thoughts keep their bound, and
\* only the beginning of a tag is held back, however the stream is cut.
THEOREM SanitizerIsSafe == Spec => []StateIsSoundBetweenCalls
  BY TypeCorrect, BoundHolds, WithholdsOnlyATag, PTL DEF StateIsSoundBetweenCalls
-----------------------------------------------------------------------------
\* How a whole stream is read, whatever its length.

\* Induction over the naturals, from the well-foundedness of < alone.
Below == {ij \in Nat \X Nat : ij[1] < ij[2]}

\* The order of the naturals is well founded.
LEMMA BelowIsWellFounded == IsWellFoundedOn(Below, Nat)
<1>1. IsWellFoundedOn(OpToRel(<, Nat), Nat)
  BY NatLessThanWellFounded, Zenon
<1>2. OpToRel(<, Nat) = Below
  BY DEF OpToRel, Below
<1> QED BY <1>1, <1>2

\* What is true of 0, and of n + 1 if of n, is true of every natural.
LEMMA Induction ==
  ASSUME NEW T \in SUBSET Nat, 0 \in T, \A n \in T : n + 1 \in T
  PROVE  T = Nat
<1>1. ASSUME Nat \ T # {} PROVE FALSE
  <2>1. PICK m \in Nat \ T : \A n \in Nat \ T : <<n, m>> \notin Below
    <3>1. Nat \ T \subseteq Nat
      OBVIOUS
    <3> QED BY <1>1, <3>1, BelowIsWellFounded, WFMin, Zenon
  <2>2. m # 0 /\ m - 1 \in Nat
    BY <2>1
  <2>3. m - 1 \notin T
    <3>1. m - 1 \in T => (m - 1) + 1 \in T
      OBVIOUS
    <3> QED BY <2>1, <2>2, <3>1
  <2>4. <<m - 1, m>> \in Below
    BY <2>2 DEF Below
  <2> QED BY <2>1, <2>2, <2>3, <2>4
<1> QED BY <1>1

Read == [state : State, skip : Nat, visible : Seq(Char), thought : Seq(Char), unopened : Nat]
Unread(first) == [state |-> first, skip |-> 0, visible |-> <<>>, thought |-> <<>>, unopened |-> 0]

IsReading(f, first, s, len) ==
  f = [n \in 0 .. len |-> IF n = 0 THEN Unread(first) ELSE ReadOn(f[n - 1], s, n)]

\* Some function reads a stream of any length.
LEMMA ReadingExists ==
  ASSUME NEW first, NEW s, NEW len \in Nat
  PROVE  \E f : IsReading(f, first, s, len)
<1> DEFINE Good(m) == \E f : f = [n \in 0 .. m |-> IF n = 0 THEN Unread(first) ELSE ReadOn(f[n - 1], s, n)]
           T == {m \in Nat : Good(m)}
<1>1. Good(0)
  <2> DEFINE g == [n \in 0 .. 0 |-> Unread(first)]
  <2>1. g = [n \in 0 .. 0 |-> IF n = 0 THEN Unread(first) ELSE ReadOn(g[n - 1], s, n)]
    OBVIOUS
  <2> QED BY <2>1
<1>2. ASSUME NEW m \in Nat, Good(m) PROVE Good(m + 1)
  <2>1. PICK f : f = [n \in 0 .. m |-> IF n = 0 THEN Unread(first) ELSE ReadOn(f[n - 1], s, n)]
    BY <1>2
  <2> DEFINE g == [n \in 0 .. m + 1 |-> IF n = m + 1 THEN ReadOn(f[m], s, n) ELSE f[n]]
  <2>2. g = [n \in 0 .. m + 1 |-> IF n = 0 THEN Unread(first) ELSE ReadOn(g[n - 1], s, n)]
    BY <2>1
  <2> QED BY <2>2
<1>3. T = Nat
  <2> HIDE DEF Good
  <2>1. T \in SUBSET Nat /\ 0 \in T /\ \A n \in T : n + 1 \in T
    BY <1>1, <1>2
  <2> HIDE DEF T
  <2> QED BY <2>1, Induction
<1> QED BY <1>3 DEF IsReading

\* A reading starts with nothing and goes on character by character.
LEMMA ReadingIs ==
  ASSUME NEW first, NEW s \in Seq(Char)
  PROVE  /\ Reading(first, s)[0] = Unread(first)
         /\ \A n \in 1 .. Len(s) : Reading(first, s)[n] = ReadOn(Reading(first, s)[n - 1], s, n)
<1>1. Len(s) \in Nat
  BY LenProperties
<1>2. \E f : IsReading(f, first, s, Len(s))
  BY <1>1, ReadingExists
<1>3. Reading(first, s) = [n \in 0 .. Len(s) |->
        IF n = 0 THEN Unread(first) ELSE ReadOn(Reading(first, s)[n - 1], s, n)]
  BY <1>2 DEF Reading, Unread, IsReading
<1> DEFINE R == Reading(first, s)
<1> HIDE DEF R
<1>4. R = [n \in 0 .. Len(s) |-> IF n = 0 THEN Unread(first) ELSE ReadOn(R[n - 1], s, n)]
  BY <1>3 DEF R
<1>5. R[0] = Unread(first) /\ \A n \in 1 .. Len(s) : R[n] = ReadOn(R[n - 1], s, n)
  BY <1>1, <1>4
<1> QED BY <1>5 DEF R

\* Reading one more character, case by case.
LEMMA ReadsOn ==
  ASSUME NEW r \in Read, NEW s \in Seq(Char), NEW n \in 1 .. Len(s), NEW q, q = ReadOn(r, s, n)
  PROVE  /\ q \in Read /\ r.unopened <= q.unopened
         /\ r.skip > 0 =>
              /\ q.skip = r.skip - 1 /\ q.state = r.state
              /\ q.visible = r.visible /\ q.thought = r.thought
         /\ r.skip = 0 /\ r.state = "EMITTING" /\ Occurs(s, open_tag, n - 1) =>
              /\ q.skip = Len(open_tag) - 1 /\ q.state = "THINKING"
              /\ q.visible = r.visible /\ q.thought = r.thought
         /\ r.skip = 0 /\ r.state = "THINKING" /\ Occurs(s, close_tag, n - 1) =>
              /\ q.skip = Len(close_tag) - 1 /\ q.state = "EMITTING"
              /\ q.visible = r.visible /\ q.thought = r.thought
         /\ r.skip = 0 /\ r.state = "EMITTING" /\ ~Occurs(s, open_tag, n - 1) =>
              IF Occurs(s, close_tag, n - 1) THEN q.unopened = r.unopened + 1
              ELSE /\ q.skip = 0 /\ q.state = r.state
                   /\ q.visible = Append(r.visible, s[n]) /\ q.thought = r.thought
         /\ r.skip = 0 /\ r.state = "THINKING" /\ ~Occurs(s, close_tag, n - 1) =>
              /\ q.skip = 0 /\ q.state = r.state
              /\ q.visible = r.visible /\ q.thought = Append(r.thought, s[n])
<1>1. /\ r.state \in {"EMITTING", "THINKING"} /\ r.skip \in Nat /\ r.visible \in Seq(Char)
      /\ r.thought \in Seq(Char) /\ r.unopened \in Nat
      /\ Len(open_tag) - 1 \in Nat /\ Len(close_tag) - 1 \in Nat
  BY TagLengths DEF Read, State
<1>2. s[n] \in Char
  BY LenProperties
<1>3. Append(r.visible, s[n]) \in Seq(Char) /\ Append(r.thought, s[n]) \in Seq(Char)
  BY <1>1, <1>2, AppendProperties
<1>4. CASE r.skip > 0
  <2> DEFINE k == r.skip - 1
  <2>1. q = [r EXCEPT !.skip = k]
    BY <1>4 DEF ReadOn
  <2>2. k \in Nat
    BY <1>1, <1>4
  <2> HIDE DEF k
  <2>3. q \in Read /\ q.skip = k /\ q.state = r.state /\ q.visible = r.visible
        /\ q.thought = r.thought /\ q.unopened = r.unopened
    BY <2>1, <2>2 DEF Read
  <2> QED BY <1>1, <1>4, <2>3 DEF k
<1>5. CASE r.skip = 0 /\ r.state = "EMITTING" /\ Occurs(s, open_tag, n - 1)
  <2> DEFINE k == Len(open_tag) - 1
  <2>1. q = [r EXCEPT !.state = "THINKING", !.skip = k]
    BY <1>5 DEF ReadOn
  <2>2. k \in Nat
    BY <1>1
  <2> HIDE DEF k
  <2>3. q \in Read /\ q.skip = k /\ q.state = "THINKING" /\ q.visible = r.visible
        /\ q.thought = r.thought /\ q.unopened = r.unopened
    BY <2>1, <2>2 DEF Read, State
  <2> QED BY <1>1, <1>5, <2>3 DEF k
<1>6. CASE r.skip = 0 /\ r.state = "THINKING" /\ Occurs(s, close_tag, n - 1)
  <2> DEFINE k == Len(close_tag) - 1
  <2>1. q = [r EXCEPT !.state = "EMITTING", !.skip = k]
    BY <1>6 DEF ReadOn
  <2>2. k \in Nat
    BY <1>1
  <2> HIDE DEF k
  <2>3. q \in Read /\ q.skip = k /\ q.state = "EMITTING" /\ q.visible = r.visible
        /\ q.thought = r.thought /\ q.unopened = r.unopened
    BY <2>1, <2>2 DEF Read, State
  <2> QED BY <1>1, <1>6, <2>3 DEF k
<1>7. CASE r.skip = 0 /\ r.state = "EMITTING" /\ ~Occurs(s, open_tag, n - 1) /\ Occurs(s, close_tag, n - 1)
  <2> DEFINE k == Len(close_tag) - 1
             u == r.unopened + 1
  <2>1. q = [r EXCEPT !.unopened = u, !.skip = k]
    BY <1>7 DEF ReadOn
  <2>2. k \in Nat /\ u \in Nat
    BY <1>1
  <2> HIDE DEF k, u
  <2>3. q \in Read /\ q.unopened = u
    BY <2>1, <2>2 DEF Read, State
  <2> QED BY <1>1, <1>7, <2>3 DEF u
<1>8. CASE r.skip = 0 /\ r.state = "EMITTING" /\ ~Occurs(s, open_tag, n - 1) /\ ~Occurs(s, close_tag, n - 1)
  <2>1. q = [r EXCEPT !.visible = Append(r.visible, s[n])]
    BY <1>8 DEF ReadOn
  <2>2. q \in Read /\ q.skip = r.skip /\ q.state = r.state /\ q.thought = r.thought
        /\ q.visible = Append(r.visible, s[n]) /\ q.unopened = r.unopened
    BY <1>3, <2>1 DEF Read
  <2> QED BY <1>1, <1>8, <2>2
<1>9. CASE r.skip = 0 /\ r.state = "THINKING" /\ ~Occurs(s, close_tag, n - 1)
  <2>1. q = [r EXCEPT !.thought = Append(r.thought, s[n])]
    BY <1>9 DEF ReadOn
  <2>2. q \in Read /\ q.skip = r.skip /\ q.state = r.state /\ q.visible = r.visible
        /\ q.thought = Append(r.thought, s[n]) /\ q.unopened = r.unopened
    BY <1>3, <2>1 DEF Read
  <2> QED BY <1>1, <1>9, <2>2
<1> QED BY <1>1, <1>4, <1>5, <1>6, <1>7, <1>8, <1>9

\* R is how a reader who begins in first reads s, stage by stage.
Reads(R, first, s) == R = Reading(first, s)

\* Every stage of a reading is whole, and an unopened tag is not forgotten.
LEMMA ReadingIsWhole ==
  ASSUME NEW first \in State, NEW s \in Seq(Char), NEW R, Reads(R, first, s)
  PROVE  /\ \A n \in 0 .. Len(s) : R[n] \in Read
         /\ \A m, n \in 0 .. Len(s) : m <= n => R[m].unopened <= R[n].unopened
<1>1. /\ Len(s) \in Nat /\ R[0] = Unread(first)
      /\ \A n \in 1 .. Len(s) : R[n] = ReadOn(R[n - 1], s, n)
  BY ReadingIs, LenProperties DEF Reads
<1> DEFINE Whole(n) == n <= Len(s) => R[n] \in Read /\ \A m \in 0 .. n : R[m].unopened \in Nat /\ R[m].unopened <= R[n].unopened
           T == {n \in Nat : Whole(n)}
<1>2. Whole(0)
  <2>1. R[0] \in Read
    BY <1>1, EmptySeq DEF Unread, Read
  <2>2. R[0].unopened \in Nat
    BY <2>1 DEF Read
  <2> QED BY <2>1, <2>2
<1>3. ASSUME NEW n \in Nat, Whole(n) PROVE Whole(n + 1)
  <2> SUFFICES ASSUME n + 1 <= Len(s) PROVE R[n + 1] \in Read /\ \A m \in 0 .. n + 1 : R[m].unopened \in Nat /\ R[m].unopened <= R[n + 1].unopened
    OBVIOUS
  <2>1. R[n] \in Read /\ \A m \in 0 .. n : R[m].unopened \in Nat /\ R[m].unopened <= R[n].unopened
    BY <1>1, <1>3
  <2>2. n + 1 \in 1 .. Len(s) /\ R[n + 1] = ReadOn(R[n], s, n + 1)
    BY <1>1
  <2>3. R[n + 1] \in Read /\ R[n].unopened <= R[n + 1].unopened
    BY <2>1, <2>2, ReadsOn
  <2>4. R[n].unopened \in Nat /\ R[n + 1].unopened \in Nat
    BY <2>1, <2>3 DEF Read
  <2>5. ASSUME NEW m \in 0 .. n + 1 PROVE R[m].unopened \in Nat /\ R[m].unopened <= R[n + 1].unopened
    <3>1. CASE m = n + 1
      BY <2>4, <3>1
    <3>2. CASE m \in 0 .. n
      <4>1. R[m].unopened <= R[n].unopened /\ R[m].unopened \in Nat
        BY <2>1, <3>2
      <4> QED BY <2>3, <2>4, <4>1
    <3> QED BY <3>1, <3>2
  <2> QED BY <2>3, <2>5
<1>4. T = Nat
  <2> HIDE DEF Whole
  <2>1. T \in SUBSET Nat /\ 0 \in T /\ \A n \in T : n + 1 \in T
    BY <1>2, <1>3
  <2> HIDE DEF T
  <2> QED BY <2>1, Induction
<1>5. \A n \in Nat : Whole(n)
  BY <1>4
<1> QED BY <1>1, <1>5

\* None of the k offsets of s from p on begins the tag.
NoneBegins(s, tag, p, k) == \A i \in 0 .. k - 1 : ~Occurs(s, tag, p + i)

\* k characters of s from the offset p on.
Part(s, p, k) == SubSeq(s, p + 1, p + k)

\* A part of a text is a text of so many characters.
LEMMA PartIsASeq ==
  ASSUME NEW s \in Seq(Char), NEW p \in Nat, NEW k \in Nat, p + k <= Len(s)
  PROVE  Part(s, p, k) \in Seq(Char) /\ Len(Part(s, p, k)) = k
<1>1. \A i \in p + 1 .. p + k : s[i] \in Char
  BY LenProperties
<1>2. (IF p + 1 <= p + k THEN p + k - (p + 1) + 1 ELSE 0) = k
  OBVIOUS
<1>3. p + 1 \in Int /\ p + k \in Int
  OBVIOUS
<1>4. /\ SubSeq(s, p + 1, p + k) \in Seq(Char)
      /\ Len(SubSeq(s, p + 1, p + k)) = IF p + 1 <= p + k THEN p + k - (p + 1) + 1 ELSE 0
  BY <1>1, <1>3, SubSeqProperties
<1> QED BY <1>2, <1>4 DEF Part

\* A part grows by the next character.
LEMMA PartGrows ==
  ASSUME NEW v \in Seq(Char), NEW s \in Seq(Char), NEW p \in Nat, NEW k \in Nat, p + k < Len(s)
  PROVE  Append(v \o Part(s, p, k), s[p + k + 1]) = v \o Part(s, p, k + 1)
<1> DEFINE e == s[p + k + 1]
<1>1. Part(s, p, k) \in Seq(Char) /\ e \in Char
  <2>1. p + k <= Len(s) /\ p + k + 1 \in 1 .. Len(s)
    BY LenProperties
  <2> QED BY <2>1, PartIsASeq, ElementOfSeq
<1>2. Part(s, p, k + 1) = Part(s, p, k) \o <<e>>
  <2>1. /\ p + 1 \in 1 .. Len(s) /\ p + k + 1 \in p + 1 .. Len(s) /\ (p + k + 1) - 1 = p + k
        /\ p + (k + 1) = p + k + 1
    BY LenProperties
  <2>2. SubSeq(s, p + 1, p + k + 1) = SubSeq(s, p + 1, (p + k + 1) - 1) \o <<e>>
    BY <2>1, SubSeqRecursiveSecond
  <2> QED BY <2>1, <2>2 DEF Part
<1>3. <<e>> \in Seq(Char)
  BY <1>1
<1> HIDE DEF e
<1>4. v \o Part(s, p, k) \in Seq(Char)
  BY <1>1, ConcatProperties
<1>5. Append(v \o Part(s, p, k), e) = (v \o Part(s, p, k)) \o <<e>>
  BY <1>1, <1>4, AppendIsConcat
<1>6. (v \o Part(s, p, k)) \o <<e>> = v \o (Part(s, p, k) \o <<e>>)
  BY <1>1, <1>3, ConcatAssociative
<1>7. Append(v \o Part(s, p, k), e) = v \o Part(s, p, k + 1)
  BY <1>2, <1>5, <1>6, Zenon
<1> QED BY <1>7 DEF e

\* No characters, and nothing before.
LEMMA NoPart ==
  ASSUME NEW v \in Seq(Char), NEW s, NEW p \in Nat
  PROVE  v \o Part(s, p, 0) = v
<1>1. Part(s, p, 0) = <<>>
  BY SubSeqEmpty DEF Part
<1> QED BY <1>1, ConcatEmptySeq

\* The stages that follow a stage p are read from the one before.
LEMMA Stages ==
  ASSUME NEW first \in State, NEW s \in Seq(Char), NEW R, Reads(R, first, s),
         NEW p \in Nat, NEW i \in Nat, p + i < Len(s)
  PROVE  /\ R[p + i] \in Read /\ R[p + (i + 1)] \in Read
         /\ p + i + 1 \in 1 .. Len(s) /\ p + (i + 1) = p + i + 1 /\ (p + i + 1) - 1 = p + i
         /\ R[p + (i + 1)] = ReadOn(R[p + i], s, p + i + 1)
         /\ R[p + (i + 1)].unopened <= R[Len(s)].unopened
<1>1. Len(s) \in Nat
  BY LenProperties
<1>2. /\ p + i \in 0 .. Len(s) /\ p + (i + 1) \in 0 .. Len(s) /\ p + (i + 1) = p + i + 1
      /\ p + i + 1 \in 1 .. Len(s) /\ (p + i + 1) - 1 = p + i /\ Len(s) \in 0 .. Len(s)
      /\ p + (i + 1) <= Len(s)
  BY <1>1
<1>3. \A n \in 0 .. Len(s) : R[n] \in Read
  BY ReadingIsWhole
<1>4. \A m, n \in 0 .. Len(s) : m <= n => R[m].unopened <= R[n].unopened
  BY ReadingIsWhole
<1>5. R[p + i + 1] = ReadOn(R[(p + i + 1) - 1], s, p + i + 1)
  BY <1>2, ReadingIs DEF Reads
<1>6. R[p + (i + 1)].unopened <= R[Len(s)].unopened
  BY <1>2, <1>4
<1>7. R[p + (i + 1)] = ReadOn(R[p + i], s, p + i + 1)
  BY <1>2, <1>5
<1> QED BY <1>2, <1>3, <1>6, <1>7

\* The same, of one stage alone.
LEMMA NextStage ==
  ASSUME NEW first \in State, NEW s \in Seq(Char), NEW R, Reads(R, first, s),
         NEW p \in Nat, p < Len(s)
  PROVE  /\ R[p] \in Read /\ p + 1 \in 1 .. Len(s) /\ R[p + 1] = ReadOn(R[p], s, p + 1)
         /\ R[p + 1].unopened <= R[Len(s)].unopened
<1>1. PICK i \in Nat : i = 0
  OBVIOUS
<1>0. p + i < Len(s)
  BY <1>1, LenProperties
<1>2. p + i = p /\ p + (i + 1) = p + 1 /\ p + i + 1 = p + 1
  BY <1>1
<1>3. /\ R[p + i] \in Read /\ p + i + 1 \in 1 .. Len(s)
      /\ R[p + (i + 1)] = ReadOn(R[p + i], s, p + i + 1)
      /\ R[p + (i + 1)].unopened <= R[Len(s)].unopened
  BY <1>0, Stages
<1> QED BY <1>2, <1>3

\* What is still to skip of a tag is skipped.
LEMMA SkipRun ==
  ASSUME NEW first \in State, NEW s \in Seq(Char), NEW R, Reads(R, first, s),
         NEW p \in Nat, NEW k \in Nat, p + k <= Len(s), R[p].skip = k
  PROVE  /\ R[p + k].skip = 0 /\ R[p + k].state = R[p].state
         /\ R[p + k].visible = R[p].visible /\ R[p + k].thought = R[p].thought
<1> DEFINE Same(i) == i <= k =>
             /\ R[p + i].skip = k - i /\ R[p + i].state = R[p].state
             /\ R[p + i].visible = R[p].visible /\ R[p + i].thought = R[p].thought
           T == {i \in Nat : Same(i)}
<1>1. Same(0)
  OBVIOUS
<1>2. ASSUME NEW i \in Nat, Same(i) PROVE Same(i + 1)
  <2> SUFFICES ASSUME i + 1 <= k
               PROVE  /\ R[p + (i + 1)].skip = k - (i + 1) /\ R[p + (i + 1)].state = R[p].state
                      /\ R[p + (i + 1)].visible = R[p].visible /\ R[p + (i + 1)].thought = R[p].thought
    OBVIOUS
  <2>1. p + i < Len(s) /\ Len(s) \in Nat
    BY LenProperties
  <2>2. /\ R[p + i] \in Read /\ p + i + 1 \in 1 .. Len(s)
        /\ R[p + (i + 1)] = ReadOn(R[p + i], s, p + i + 1)
    BY <2>1, Stages
  <2>3. /\ R[p + i].skip = k - i /\ R[p + i].state = R[p].state
        /\ R[p + i].visible = R[p].visible /\ R[p + i].thought = R[p].thought
    BY <1>2
  <2>4. R[p + i].skip > 0
    BY <2>3
  <2>5. /\ R[p + (i + 1)].skip = R[p + i].skip - 1 /\ R[p + (i + 1)].state = R[p + i].state
        /\ R[p + (i + 1)].visible = R[p + i].visible /\ R[p + (i + 1)].thought = R[p + i].thought
    BY <2>2, <2>4, ReadsOn
  <2> QED BY <2>3, <2>5
<1>3. T = Nat
  <2> HIDE DEF Same
  <2>1. T \in SUBSET Nat /\ 0 \in T /\ \A n \in T : n + 1 \in T
    BY <1>1, <1>2
  <2> HIDE DEF T
  <2> QED BY <2>1, Induction
<1>4. Same(k)
  BY <1>3
<1> QED BY <1>4

\* Outside a thought, what begins no tag is visible, up to an opening tag.
LEMMA EmitRun ==
  ASSUME NEW first \in State, NEW s \in Seq(Char), NEW R, Reads(R, first, s),
         NEW p \in Nat, NEW k \in Nat, p + k <= Len(s),
         R[p].skip = 0, R[p].state = "EMITTING", R[Len(s)].unopened = 0,
         NoneBegins(s, open_tag, p, k)
  PROVE  /\ R[p + k].skip = 0 /\ R[p + k].state = "EMITTING" /\ R[p + k].thought = R[p].thought
         /\ R[p + k].visible = R[p].visible \o Part(s, p, k)
<1> DEFINE Plain(i) == i <= k =>
             /\ R[p + i].skip = 0 /\ R[p + i].state = "EMITTING" /\ R[p + i].thought = R[p].thought
             /\ R[p + i].visible = R[p].visible \o Part(s, p, i)
           T == {i \in Nat : Plain(i)}
<1>0. R[p] \in Read /\ Len(s) \in Nat
  <2>1. p \in 0 .. Len(s) /\ Len(s) \in Nat
    BY LenProperties
  <2> QED BY <2>1, ReadingIsWhole
<1>00. R[p].visible \in Seq(Char)
  BY <1>0 DEF Read
<1>1. Plain(0)
  <2>1. R[p].visible \o Part(s, p, 0) = R[p].visible
    BY <1>00, NoPart
  <2>2. p + 0 = p
    OBVIOUS
  <2> QED BY <2>1, <2>2
<1>2. ASSUME NEW i \in Nat, Plain(i) PROVE Plain(i + 1)
  <2> SUFFICES ASSUME i + 1 <= k
               PROVE  /\ R[p + (i + 1)].skip = 0 /\ R[p + (i + 1)].state = "EMITTING"
                      /\ R[p + (i + 1)].thought = R[p].thought
                      /\ R[p + (i + 1)].visible = R[p].visible \o Part(s, p, i + 1)
    OBVIOUS
  <2>1. p + i < Len(s) /\ i \in 0 .. k - 1
    BY <1>0
  <2>2. /\ R[p + i] \in Read /\ R[p + (i + 1)] \in Read
        /\ p + i + 1 \in 1 .. Len(s) /\ (p + i + 1) - 1 = p + i
        /\ R[p + (i + 1)] = ReadOn(R[p + i], s, p + i + 1)
        /\ R[p + (i + 1)].unopened <= R[Len(s)].unopened
    BY <2>1, Stages
  <2>3. /\ R[p + i].skip = 0 /\ R[p + i].state = "EMITTING" /\ R[p + i].thought = R[p].thought
        /\ R[p + i].visible = R[p].visible \o Part(s, p, i)
    BY <1>2
  <2>4. ~Occurs(s, open_tag, (p + i + 1) - 1)
    BY <2>1, <2>2 DEF NoneBegins
  <2>5. IF Occurs(s, close_tag, (p + i + 1) - 1) THEN R[p + (i + 1)].unopened = R[p + i].unopened + 1
        ELSE /\ R[p + (i + 1)].skip = 0 /\ R[p + (i + 1)].state = R[p + i].state
             /\ R[p + (i + 1)].visible = Append(R[p + i].visible, s[p + i + 1])
             /\ R[p + (i + 1)].thought = R[p + i].thought
    <3> DEFINE n == p + i + 1
               q == R[p + (i + 1)]
               r == R[p + i]
    <3>1. r \in Read /\ n \in 1 .. Len(s) /\ q = ReadOn(r, s, n)
      BY <2>2
    <3>2. ~Occurs(s, open_tag, n - 1) /\ r.skip = 0 /\ r.state = "EMITTING"
      BY <2>3, <2>4
    <3> HIDE DEF n, q, r
    <3>3. IF Occurs(s, close_tag, n - 1) THEN q.unopened = r.unopened + 1
          ELSE /\ q.skip = 0 /\ q.state = r.state
               /\ q.visible = Append(r.visible, s[n]) /\ q.thought = r.thought
      <4>1. r.skip = 0 /\ r.state = "EMITTING" /\ ~Occurs(s, open_tag, n - 1) =>
              IF Occurs(s, close_tag, n - 1) THEN q.unopened = r.unopened + 1
              ELSE /\ q.skip = 0 /\ q.state = r.state
                   /\ q.visible = Append(r.visible, s[n]) /\ q.thought = r.thought
        BY <3>1, ReadsOn, SMTT(20)
      <4> QED BY <3>2, <4>1, Zenon
    <3> QED BY <3>3 DEF n, q, r
  <2>6. ~Occurs(s, close_tag, (p + i + 1) - 1)
    <3>1. R[p + i].unopened \in Nat
      BY <2>2 DEF Read
    <3>2. R[p + (i + 1)].unopened # R[p + i].unopened + 1
      BY <2>2, <3>1
    <3> QED BY <2>5, <3>2
  <2>7. Append(R[p].visible \o Part(s, p, i), s[p + i + 1]) = R[p].visible \o Part(s, p, i + 1)
    BY <1>00, <2>1, PartGrows
  <2> QED BY <2>3, <2>5, <2>6, <2>7
<1>3. T = Nat
  <2> HIDE DEF Plain
  <2>1. T \in SUBSET Nat /\ 0 \in T /\ \A n \in T : n + 1 \in T
    BY <1>1, <1>2
  <2> HIDE DEF T
  <2> QED BY <2>1, Induction
<1>4. Plain(k)
  BY <1>3
<1> QED BY <1>4

\* In a thought, what begins no closing tag is thought.
LEMMA ThinkRun ==
  ASSUME NEW first \in State, NEW s \in Seq(Char), NEW R, Reads(R, first, s),
         NEW p \in Nat, NEW k \in Nat, p + k <= Len(s),
         R[p].skip = 0, R[p].state = "THINKING",
         NoneBegins(s, close_tag, p, k)
  PROVE  /\ R[p + k].skip = 0 /\ R[p + k].state = "THINKING" /\ R[p + k].visible = R[p].visible
         /\ R[p + k].thought = R[p].thought \o Part(s, p, k)
<1> DEFINE Plain(i) == i <= k =>
             /\ R[p + i].skip = 0 /\ R[p + i].state = "THINKING" /\ R[p + i].visible = R[p].visible
             /\ R[p + i].thought = R[p].thought \o Part(s, p, i)
           T == {i \in Nat : Plain(i)}
<1>0. R[p] \in Read /\ Len(s) \in Nat
  <2>1. p \in 0 .. Len(s) /\ Len(s) \in Nat
    BY LenProperties
  <2> QED BY <2>1, ReadingIsWhole
<1>00. R[p].thought \in Seq(Char)
  BY <1>0 DEF Read
<1>1. Plain(0)
  <2>1. R[p].thought \o Part(s, p, 0) = R[p].thought
    BY <1>00, NoPart
  <2>2. p + 0 = p
    OBVIOUS
  <2> QED BY <2>1, <2>2
<1>2. ASSUME NEW i \in Nat, Plain(i) PROVE Plain(i + 1)
  <2> SUFFICES ASSUME i + 1 <= k
               PROVE  /\ R[p + (i + 1)].skip = 0 /\ R[p + (i + 1)].state = "THINKING"
                      /\ R[p + (i + 1)].visible = R[p].visible
                      /\ R[p + (i + 1)].thought = R[p].thought \o Part(s, p, i + 1)
    OBVIOUS
  <2>1. p + i < Len(s) /\ i \in 0 .. k - 1
    BY <1>0
  <2>2. /\ R[p + i] \in Read /\ R[p + (i + 1)] \in Read
        /\ p + i + 1 \in 1 .. Len(s) /\ (p + i + 1) - 1 = p + i
        /\ R[p + (i + 1)] = ReadOn(R[p + i], s, p + i + 1)
        /\ R[p + (i + 1)].unopened <= R[Len(s)].unopened
    BY <2>1, Stages
  <2>3. /\ R[p + i].skip = 0 /\ R[p + i].state = "THINKING" /\ R[p + i].visible = R[p].visible
        /\ R[p + i].thought = R[p].thought \o Part(s, p, i)
    BY <1>2
  <2>4. ~Occurs(s, close_tag, (p + i + 1) - 1)
    BY <2>1, <2>2 DEF NoneBegins
  <2>5. /\ R[p + (i + 1)].skip = 0 /\ R[p + (i + 1)].state = R[p + i].state
        /\ R[p + (i + 1)].thought = Append(R[p + i].thought, s[p + i + 1])
        /\ R[p + (i + 1)].visible = R[p + i].visible
    <3> DEFINE n == p + i + 1
               q == R[p + (i + 1)]
               r == R[p + i]
    <3>1. r \in Read /\ n \in 1 .. Len(s) /\ q = ReadOn(r, s, n)
      BY <2>2
    <3>2. ~Occurs(s, close_tag, n - 1) /\ r.skip = 0 /\ r.state = "THINKING"
      BY <2>3, <2>4
    <3> HIDE DEF n, q, r
    <3>3. /\ q.skip = 0 /\ q.state = r.state
          /\ q.thought = Append(r.thought, s[n]) /\ q.visible = r.visible
      BY <3>1, <3>2, ReadsOn
    <3> QED BY <3>3 DEF n, q, r
  <2>7. Append(R[p].thought \o Part(s, p, i), s[p + i + 1]) = R[p].thought \o Part(s, p, i + 1)
    BY <1>00, <2>1, PartGrows
  <2> QED BY <2>3, <2>5, <2>7
<1>3. T = Nat
  <2> HIDE DEF Plain
  <2>1. T \in SUBSET Nat /\ 0 \in T /\ \A n \in T : n + 1 \in T
    BY <1>1, <1>2
  <2> HIDE DEF T
  <2> QED BY <2>1, Induction
<1>4. Plain(k)
  BY <1>3
<1> QED BY <1>4

\* An opening tag, or in a thought a closing one, is skipped and turns the state.
LEMMA TagRun ==
  ASSUME NEW first \in State, NEW s \in Seq(Char), NEW R, Reads(R, first, s),
         NEW p \in Nat, R[p].skip = 0, NEW tag,
         \/ R[p].state = "EMITTING" /\ tag = open_tag
         \/ R[p].state = "THINKING" /\ tag = close_tag,
         Occurs(s, tag, p)
  PROVE  /\ R[p + Len(tag)].skip = 0
         /\ R[p].state = "EMITTING" => R[p + Len(tag)].state = "THINKING"
         /\ R[p].state = "THINKING" => R[p + Len(tag)].state = "EMITTING"
         /\ R[p + Len(tag)].visible = R[p].visible /\ R[p + Len(tag)].thought = R[p].thought
<1>1. Len(tag) \in Nat \ {0} /\ Len(s) \in Nat
  BY TagLengths, LenProperties
<1>2. p + Len(tag) <= Len(s)
  BY <1>1 DEF Occurs, Offsets
<1> DEFINE k == Len(tag) - 1
           n == p + 1
<1>3. k \in Nat /\ n \in Nat /\ n + k = p + Len(tag) /\ n - 1 = p /\ n + k <= Len(s)
  BY <1>1, <1>2
<1>4. R[p] \in Read /\ n \in 1 .. Len(s) /\ R[n] = ReadOn(R[p], s, n)
  BY <1>1, <1>2, NextStage
<1>5. Occurs(s, tag, n - 1)
  BY <1>3
<1> HIDE DEF n
<1>6. /\ R[n].skip = k /\ R[n].visible = R[p].visible /\ R[n].thought = R[p].thought
      /\ R[p].state = "EMITTING" => R[n].state = "THINKING"
      /\ R[p].state = "THINKING" => R[n].state = "EMITTING"
  BY <1>4, <1>5, ReadsOn
<1> HIDE DEF k
<1>7. /\ R[n + k].skip = 0 /\ R[n + k].state = R[n].state
      /\ R[n + k].visible = R[n].visible /\ R[n + k].thought = R[n].thought
  <2>1. n \in Nat /\ k \in Nat /\ n + k <= Len(s) /\ R[n].skip = k
    BY <1>3, <1>6
  <2> QED BY <2>1, SkipRun, SMTT(20)
<1> QED BY <1>3, <1>6, <1>7

\* A closing tag outside a thought, where no opening tag begins, is counted.
LEMMA StrayClose ==
  ASSUME NEW first \in State, NEW s \in Seq(Char), NEW R, Reads(R, first, s),
         NEW p \in Nat, R[p].skip = 0, R[p].state = "EMITTING",
         ~Occurs(s, open_tag, p), Occurs(s, close_tag, p)
  PROVE  R[Len(s)].unopened # 0
<1> DEFINE n == p + 1
<1>1. Len(close_tag) \in Nat \ {0} /\ Len(s) \in Nat
  BY TagLengths, LenProperties
<1>2. p < Len(s) /\ n - 1 = p
  BY <1>1 DEF Occurs, Offsets
<1>3. /\ R[p] \in Read /\ n \in 1 .. Len(s) /\ R[n] = ReadOn(R[p], s, n)
      /\ R[n].unopened <= R[Len(s)].unopened
  BY <1>1, <1>2, NextStage
<1>4. ~Occurs(s, open_tag, n - 1) /\ Occurs(s, close_tag, n - 1)
  BY <1>2
<1> HIDE DEF n
<1>5. R[n].unopened = R[p].unopened + 1
  BY <1>3, <1>4, ReadsOn
<1>6. R[p].unopened \in Nat
  BY <1>3 DEF Read
<1> QED BY <1>3, <1>5, <1>6
-----------------------------------------------------------------------------
\* Where tags lie in a stream of which a part has been read.

\* The beginning of a text, character by character.
LEMMA FirstIs ==
  ASSUME NEW s \in Seq(Char), NEW n \in 0 .. Len(s)
  PROVE  \A i \in 1 .. n : First(s, n)[i] = s[i]
<1>1. \A i \in 1 .. n : s[i] \in Char
  BY LenProperties
<1>2. n \in Int /\ 1 \in Int
  BY LenProperties
<1>3. \A i \in 1 .. n - 1 + 1 : SubSeq(s, 1, n)[i] = s[1 + i - 1]
  BY <1>1, <1>2, SubSeqProperties
<1>4. ASSUME NEW i \in 1 .. n PROVE i \in 1 .. n - 1 + 1 /\ 1 + i - 1 = i
  BY <1>2
<1> QED BY <1>3, <1>4 DEF First

\* The end of a text, character by character.
LEMMA FromIs ==
  ASSUME NEW s \in Seq(Char), NEW n \in 0 .. Len(s)
  PROVE  \A i \in 1 .. Len(s) - n : From(s, n)[i] = s[n + i]
<1>1. Len(s) \in Nat /\ \A i \in n + 1 .. Len(s) : s[i] \in Char
  BY LenProperties
<1>2. n + 1 \in Int /\ Len(s) \in Int
  BY <1>1
<1>3. \A i \in 1 .. Len(s) - (n + 1) + 1 : SubSeq(s, n + 1, Len(s))[i] = s[n + 1 + i - 1]
  BY <1>1, <1>2, SubSeqProperties
<1>4. ASSUME NEW i \in 1 .. Len(s) - n PROVE i \in 1 .. Len(s) - (n + 1) + 1 /\ n + 1 + i - 1 = n + i
  BY <1>1
<1> QED BY <1>3, <1>4 DEF From

\* The part of a text, character by character.
LEMMA PartIs ==
  ASSUME NEW s \in Seq(Char), NEW p \in Nat, NEW k \in Nat, p + k <= Len(s)
  PROVE  \A i \in 1 .. k : Part(s, p, k)[i] = s[p + i]
<1>1. \A i \in p + 1 .. p + k : s[i] \in Char
  BY LenProperties
<1>2. p + 1 \in Int /\ p + k \in Int
  OBVIOUS
<1>3. \A i \in 1 .. p + k - (p + 1) + 1 : SubSeq(s, p + 1, p + k)[i] = s[p + 1 + i - 1]
  BY <1>1, <1>2, SubSeqProperties
<1>4. ASSUME NEW i \in 1 .. k PROVE i \in 1 .. p + k - (p + 1) + 1 /\ p + 1 + i - 1 = p + i
  OBVIOUS
<1> QED BY <1>3, <1>4 DEF Part

\* An occurrence, character by character.
LEMMA OccursIs ==
  ASSUME NEW s \in Seq(Char), NEW tag \in Seq(Char), NEW n
  PROVE  Occurs(s, tag, n) <=> n \in Offsets(s, tag) /\ \A i \in 1 .. Len(tag) : s[n + i] = tag[i]
<1>1. Len(s) \in Nat /\ Len(tag) \in Nat
  BY LenProperties
<1>2. ASSUME n \in Offsets(s, tag)
      PROVE  SubSeq(s, n + 1, n + Len(tag)) = tag <=> \A i \in 1 .. Len(tag) : s[n + i] = tag[i]
  <2> DEFINE q == SubSeq(s, n + 1, n + Len(tag))
  <2>1. n \in Nat /\ n + Len(tag) <= Len(s)
    BY <1>1, <1>2 DEF Offsets
  <2>2. q \in Seq(Char) /\ Len(q) = Len(tag)
    BY <1>1, <2>1, PartIsASeq DEF Part
  <2>3. \A i \in 1 .. Len(tag) : q[i] = s[n + i]
    BY <1>1, <2>1, PartIs DEF Part
  <2> HIDE DEF q
  <2>4. q = tag <=> \A i \in 1 .. Len(tag) : q[i] = tag[i]
    BY <2>2, SeqEqual
  <2>5. q = tag <=> \A i \in 1 .. Len(tag) : s[n + i] = tag[i]
    BY <2>3, <2>4
  <2> QED BY <2>5 DEF q
<1> QED BY <1>2 DEF Occurs

\* rest lies in s from the offset p on.
Lies(s, p, rest) == p \in Nat /\ p + Len(rest) <= Len(s) /\ \A i \in 1 .. Len(rest) : s[p + i] = rest[i]

\* What begins at p is the beginning of what lies there.
LEMMA PartOfRest ==
  ASSUME NEW s \in Seq(Char), NEW p, NEW rest \in Seq(Char), Lies(s, p, rest), NEW n \in 0 .. Len(rest)
  PROVE  Part(s, p, n) = First(rest, n)
<1>1. p \in Nat /\ n \in Nat /\ p + n <= Len(s) /\ Len(rest) \in Nat /\ Len(s) \in Nat
  BY LenProperties DEF Lies
<1>2. Part(s, p, n) \in Seq(Char) /\ Len(Part(s, p, n)) = n
  BY <1>1, PartIsASeq
<1>3. First(rest, n) \in Seq(Char) /\ Len(First(rest, n)) = n
  BY FirstIsASeq
<1>4. ASSUME NEW i \in 1 .. n PROVE Part(s, p, n)[i] = First(rest, n)[i]
  <2>1. Part(s, p, n)[i] = s[p + i]
    BY <1>1, PartIs
  <2>2. First(rest, n)[i] = rest[i]
    BY FirstIs
  <2>3. i \in 1 .. Len(rest)
    BY <1>1
  <2> QED BY <2>1, <2>2, <2>3 DEF Lies
<1> QED BY <1>2, <1>3, <1>4, SeqEqual

\* What fits into the rest occurs in the stream where it occurs in the rest.
LEMMA OccursInRest ==
  ASSUME NEW s \in Seq(Char), NEW p, NEW rest \in Seq(Char), Lies(s, p, rest),
         NEW tag \in Seq(Char), NEW n \in Nat, n + Len(tag) <= Len(rest)
  PROVE  Occurs(s, tag, p + n) <=> Occurs(rest, tag, n)
<1>1. Len(s) \in Nat /\ Len(rest) \in Nat /\ Len(tag) \in Nat /\ p \in Nat /\ p + Len(rest) <= Len(s)
  BY LenProperties DEF Lies
<1>2. n \in Offsets(rest, tag) /\ p + n \in Offsets(s, tag)
  BY <1>1 DEF Offsets
<1>3. ASSUME NEW i \in 1 .. Len(tag) PROVE s[(p + n) + i] = rest[n + i]
  <2>1. n + i \in 1 .. Len(rest) /\ (p + n) + i = p + (n + i)
    BY <1>1
  <2> QED BY <2>1 DEF Lies
<1>4. Occurs(s, tag, p + n) <=> \A i \in 1 .. Len(tag) : s[(p + n) + i] = tag[i]
  BY <1>2, OccursIs
<1>5. Occurs(rest, tag, n) <=> \A i \in 1 .. Len(tag) : rest[n + i] = tag[i]
  BY <1>2, OccursIs
<1> QED BY <1>3, <1>4, <1>5

\* However the stream goes on, no tag begins before what is held back.
LEMMA NoTagBeforeCutoff ==
  ASSUME NEW s \in Seq(Char), NEW p, NEW rest \in Seq(Char), Lies(s, p, rest),
         NEW tag \in Seq(Char), Absent(rest, tag),
         NEW cutoff \in 0 .. Len(rest), PotentialPrefix(rest, tag, cutoff)
  PROVE  NoneBegins(s, tag, p, cutoff)
<1> SUFFICES ASSUME NEW i \in 0 .. cutoff - 1, Occurs(s, tag, p + i) PROVE FALSE
  BY DEF NoneBegins
<1>1. /\ Len(s) \in Nat /\ Len(rest) \in Nat /\ Len(tag) \in Nat /\ p \in Nat /\ p + Len(rest) <= Len(s)
      /\ i \in Nat /\ i < Len(rest) /\ i < cutoff
  BY LenProperties DEF Lies
<1>2. CASE i + Len(tag) <= Len(rest)
  <2>1. Occurs(rest, tag, i)
    BY <1>1, <1>2, OccursInRest
  <2> QED BY <2>1 DEF Occurs, Absent
<1>3. CASE Len(rest) - i < Len(tag)
  <2> DEFINE k == Len(rest) - i
  <2>1. k \in Nat /\ k \in 0 .. Len(tag) /\ i \in 0 .. Len(rest)
    BY <1>1, <1>3
  <2>2. From(rest, i) \in Seq(Char) /\ Len(From(rest, i)) = k
    BY <2>1, FromIsASeq
  <2>3. First(tag, k) \in Seq(Char) /\ Len(First(tag, k)) = k
    BY <2>1, FirstIsASeq
  <2>4. \A j \in 1 .. Len(tag) : s[(p + i) + j] = tag[j]
    BY OccursIs
  <2>5. ASSUME NEW j \in 1 .. k PROVE From(rest, i)[j] = First(tag, k)[j]
    <3>1. From(rest, i)[j] = rest[i + j]
      BY <2>1, FromIs
    <3>2. First(tag, k)[j] = tag[j]
      BY <2>1, FirstIs
    <3>3. j \in 1 .. Len(tag) /\ i + j \in 1 .. Len(rest) /\ p + (i + j) = (p + i) + j
      BY <1>1, <2>1
    <3>4. s[p + (i + j)] = rest[i + j]
      BY <3>3 DEF Lies
    <3> QED BY <2>4, <3>1, <3>2, <3>3, <3>4
  <2> HIDE DEF k
  <2>6. From(rest, i) = First(tag, k)
    BY <2>2, <2>3, <2>5, SeqEqual
  <2>7. i \in Partial(rest, tag)
    BY <1>1, <1>3, <2>6 DEF Partial, k
  <2> QED BY <1>1, <2>7 DEF PotentialPrefix
<1> QED BY <1>1, <1>2, <1>3
-----------------------------------------------------------------------------
\* What the parser has returned against what a reader of the whole stream sees.

\* What is kept of the thoughts.
Kept(w) == First(w, IF Len(w) <= max_thought_chars THEN Len(w) ELSE max_thought_chars)

\* A parser that began in first and has come to the offset p of s, unless there
\* is a closing tag that closes nothing, is where a reader is.
Agrees(first, s, p, at, vis, th) ==
  LET R == Reading(first, s)
  IN R[Len(s)].unopened = 0 =>
       /\ R[p].skip = 0 /\ R[p].state = at
       /\ R[p].visible = vis /\ th = Kept(R[p].thought)

\* Past characters that begin no opening tag both have emitted the same.
LEMMA EmitAgrees ==
  ASSUME NEW first \in State, NEW s \in Seq(Char), NEW p \in Nat, NEW rest \in Seq(Char), Lies(s, p, rest),
         NEW n \in Nat, n <= Len(rest), NEW vis, NEW th, Agrees(first, s, p, "EMITTING", vis, th),
         NoneBegins(s, open_tag, p, n)
  PROVE  Agrees(first, s, p + n, "EMITTING", vis \o First(rest, n), th)
<1> SUFFICES ASSUME NEW R, Reads(R, first, s), R[Len(s)].unopened = 0
             PROVE  /\ R[p + n].skip = 0 /\ R[p + n].state = "EMITTING"
                    /\ R[p + n].visible = vis \o First(rest, n) /\ th = Kept(R[p + n].thought)
  BY DEF Agrees, Reads
<1>1. p + n <= Len(s) /\ n \in 0 .. Len(rest)
  BY LenProperties DEF Lies
<1>2. R[p].skip = 0 /\ R[p].state = "EMITTING" /\ R[p].visible = vis /\ th = Kept(R[p].thought)
  BY DEF Agrees, Reads
<1>3. Part(s, p, n) = First(rest, n)
  BY <1>1, PartOfRest
<1>5. /\ R[p + n].skip = 0 /\ R[p + n].state = "EMITTING" /\ R[p + n].thought = R[p].thought
      /\ R[p + n].visible = R[p].visible \o Part(s, p, n)
  <2>1. p + n <= Len(s)
    BY <1>1
  <2>2. R[p].skip = 0 /\ R[p].state = "EMITTING"
    BY <1>2
  <2>3. NoneBegins(s, open_tag, p, n)
    OBVIOUS
  <2> QED BY <2>1, <2>2, <2>3, EmitRun
<1> QED BY <1>2, <1>3, <1>5

\* Past characters that begin no closing tag both have thought the same.
LEMMA ThinkAgrees ==
  ASSUME NEW first \in State, NEW s \in Seq(Char), NEW p \in Nat, NEW rest \in Seq(Char), Lies(s, p, rest),
         NEW n \in Nat, n <= Len(rest), NEW vis, NEW th, Agrees(first, s, p, "THINKING", vis, th),
         NoneBegins(s, close_tag, p, n),
         NEW next, \A w \in Seq(Char) : th = Kept(w) => next = Kept(w \o First(rest, n))
  PROVE  Agrees(first, s, p + n, "THINKING", vis, next)
<1> SUFFICES ASSUME NEW R, Reads(R, first, s), R[Len(s)].unopened = 0
             PROVE  /\ R[p + n].skip = 0 /\ R[p + n].state = "THINKING"
                    /\ R[p + n].visible = vis /\ next = Kept(R[p + n].thought)
  BY DEF Agrees, Reads
<1>1. p + n <= Len(s) /\ p \in 0 .. Len(s) /\ n \in 0 .. Len(rest)
  BY LenProperties DEF Lies
<1>2. R[p].skip = 0 /\ R[p].state = "THINKING" /\ R[p].visible = vis /\ th = Kept(R[p].thought)
  BY DEF Agrees, Reads
<1>3. Part(s, p, n) = First(rest, n)
  BY <1>1, PartOfRest
<1>5. /\ R[p + n].skip = 0 /\ R[p + n].state = "THINKING" /\ R[p + n].visible = R[p].visible
      /\ R[p + n].thought = R[p].thought \o Part(s, p, n)
  <2>1. p + n <= Len(s)
    BY <1>1
  <2>2. R[p].skip = 0 /\ R[p].state = "THINKING"
    BY <1>2
  <2>3. NoneBegins(s, close_tag, p, n)
    OBVIOUS
  <2> QED BY <2>1, <2>2, <2>3, ThinkRun
<1>6. R[p].thought \in Seq(Char)
  <2>1. R[p] \in Read
    BY <1>1, ReadingIsWhole
  <2> QED BY <2>1 DEF Read
<1> QED BY <1>2, <1>3, <1>5, <1>6

\* Both skip the opening tag.
LEMMA OpenAgrees ==
  ASSUME NEW first \in State, NEW s \in Seq(Char), NEW p \in Nat, NEW vis, NEW th,
         Agrees(first, s, p, "EMITTING", vis, th), Occurs(s, open_tag, p)
  PROVE  Agrees(first, s, p + Len(open_tag), "THINKING", vis, th)
<1> DEFINE q == p + Len(open_tag)
<1> SUFFICES ASSUME NEW R, Reads(R, first, s), R[Len(s)].unopened = 0
             PROVE  /\ R[q].skip = 0 /\ R[q].state = "THINKING"
                    /\ R[q].visible = vis /\ th = Kept(R[q].thought)
  BY DEF Agrees, Reads
<1>1. R[p].skip = 0 /\ R[p].state = "EMITTING" /\ R[p].visible = vis /\ th = Kept(R[p].thought)
  BY DEF Agrees, Reads
<1>3. /\ R[p + Len(open_tag)].skip = 0
      /\ R[p].state = "EMITTING" => R[p + Len(open_tag)].state = "THINKING"
      /\ R[p + Len(open_tag)].visible = R[p].visible /\ R[p + Len(open_tag)].thought = R[p].thought
  BY <1>1, TagRun
<1> QED BY <1>1, <1>3

\* Both skip the closing tag of a thought.
LEMMA CloseAgrees ==
  ASSUME NEW first \in State, NEW s \in Seq(Char), NEW p \in Nat, NEW vis, NEW th,
         Agrees(first, s, p, "THINKING", vis, th), Occurs(s, close_tag, p)
  PROVE  Agrees(first, s, p + Len(close_tag), "EMITTING", vis, th)
<1> DEFINE q == p + Len(close_tag)
<1> SUFFICES ASSUME NEW R, Reads(R, first, s), R[Len(s)].unopened = 0
             PROVE  /\ R[q].skip = 0 /\ R[q].state = "EMITTING"
                    /\ R[q].visible = vis /\ th = Kept(R[q].thought)
  BY DEF Agrees, Reads
<1>1. R[p].skip = 0 /\ R[p].state = "THINKING" /\ R[p].visible = vis /\ th = Kept(R[p].thought)
  BY DEF Agrees, Reads
<1>3. /\ R[p + Len(close_tag)].skip = 0
      /\ R[p].state = "THINKING" => R[p + Len(close_tag)].state = "EMITTING"
      /\ R[p + Len(close_tag)].visible = R[p].visible /\ R[p + Len(close_tag)].thought = R[p].thought
  BY <1>1, TagRun
<1> QED BY <1>1, <1>3

\* A closing tag that a reader meets outside a thought ends the comparison.
LEMMA StrayAgrees ==
  ASSUME NEW first \in State, NEW s \in Seq(Char), NEW p \in Nat, NEW vis, NEW th,
         Agrees(first, s, p, "EMITTING", vis, th),
         ~Occurs(s, open_tag, p), Occurs(s, close_tag, p), NEW q, NEW at, NEW seen, NEW kept
  PROVE  Agrees(first, s, q, at, seen, kept)
<1> SUFFICES ASSUME NEW R, Reads(R, first, s), R[Len(s)].unopened = 0 PROVE FALSE
  BY DEF Agrees, Reads
<1>1. R[p].skip = 0 /\ R[p].state = "EMITTING"
  BY DEF Agrees, Reads
<1> QED BY <1>1, StrayClose

\* The beginnings of two texts put together.
LEMMA FirstOfConcat ==
  ASSUME NEW w \in Seq(Char), NEW f \in Seq(Char), NEW k \in 0 .. Len(f), NEW n \in 0 .. Len(w)
  PROVE  /\ First(w \o f, n) = First(w, n)
         /\ First(w \o f, Len(w) + k) = w \o First(f, k)
<1>1. /\ Len(w) \in Nat /\ Len(f) \in Nat /\ w \o f \in Seq(Char) /\ Len(w \o f) = Len(w) + Len(f)
      /\ \A i \in 1 .. Len(w) + Len(f) : (w \o f)[i] = IF i <= Len(w) THEN w[i] ELSE f[i - Len(w)]
  BY LenProperties, ConcatProperties
<1>2. n \in 0 .. Len(w \o f) /\ Len(w) + k \in 0 .. Len(w \o f)
  BY <1>1
<1>3. First(w \o f, n) = First(w, n)
  <2>1. First(w \o f, n) \in Seq(Char) /\ Len(First(w \o f, n)) = n
    BY <1>1, <1>2, FirstIsASeq
  <2>2. First(w, n) \in Seq(Char) /\ Len(First(w, n)) = n
    BY FirstIsASeq
  <2>3. \A i \in 1 .. n : First(w \o f, n)[i] = (w \o f)[i]
    BY <1>1, <1>2, FirstIs
  <2>4. \A i \in 1 .. n : First(w, n)[i] = w[i]
    BY FirstIs
  <2>5. \A i \in 1 .. n : (w \o f)[i] = w[i]
    BY <1>1
  <2>6. \A i \in 1 .. n : First(w \o f, n)[i] = First(w, n)[i]
    BY <2>3, <2>4, <2>5
  <2> QED BY <2>1, <2>2, <2>6, SeqEqual
<1>4. First(w \o f, Len(w) + k) = w \o First(f, k)
  <2> DEFINE m == Len(w) + k
             u == w \o First(f, k)
  <2>1. First(w \o f, m) \in Seq(Char) /\ Len(First(w \o f, m)) = m
    BY <1>1, <1>2, FirstIsASeq
  <2>2. First(f, k) \in Seq(Char) /\ Len(First(f, k)) = k
    BY FirstIsASeq
  <2>3. /\ u \in Seq(Char) /\ Len(u) = m
        /\ \A i \in 1 .. m : u[i] = IF i <= Len(w) THEN w[i] ELSE First(f, k)[i - Len(w)]
    BY <2>2, ConcatProperties
  <2>4. \A i \in 1 .. m : First(w \o f, m)[i] = (w \o f)[i]
    BY <1>1, <1>2, FirstIs
  <2>5. \A i \in 1 .. k : First(f, k)[i] = f[i]
    BY FirstIs
  <2> HIDE DEF u
  <2>6. ASSUME NEW i \in 1 .. m PROVE First(w \o f, m)[i] = u[i]
    <3>1. CASE i <= Len(w)
      BY <1>1, <2>3, <2>4, <3>1
    <3>2. CASE i > Len(w)
      <4>1. i - Len(w) \in 1 .. k /\ ~(i <= Len(w)) /\ i \in 1 .. Len(w) + Len(f)
        BY <1>1, <3>2
      <4>2. u[i] = f[i - Len(w)]
        BY <2>3, <2>5, <4>1
      <4>3. (w \o f)[i] = f[i - Len(w)]
        BY <1>1, <4>1
      <4> QED BY <2>4, <4>2, <4>3
    <3> QED BY <1>1, <3>1, <3>2
  <2>7. First(w \o f, m) = u
    <3> HIDE DEF m
    <3> QED BY <2>1, <2>3, <2>6, SeqEqual
  <2> QED BY <2>7 DEF u
<1> QED BY <1>3, <1>4

\* _record_thought keeps of the thoughts as much as it would of all at once.
LEMMA RecordedIsKept ==
  ASSUME TypeOK, ThoughtsAreBounded, NEW fragment \in Seq(Char), NEW m, Recorded(fragment, m),
         NEW w \in Seq(Char), thoughts = Kept(w)
  PROVE  thoughts' = Kept(w \o fragment)
<1> DEFINE k == Allowed(fragment)
<1>1. /\ Len(w) \in Nat /\ Len(fragment) \in Nat /\ max_thought_chars \in Nat
      /\ w \o fragment \in Seq(Char) /\ Len(w \o fragment) = Len(w) + Len(fragment)
  BY SanitizerAssumption, LenProperties, ConcatProperties
<1>2. thoughts' = thoughts \o First(fragment, k)
  BY DEF Recorded
<1>3. metrics.thought_chars = Len(thoughts)
  BY DEF ThoughtsAreBounded
<1>4. CASE Len(w) <= max_thought_chars
  <2>1. thoughts = w /\ Len(thoughts) = Len(w)
    <3>1. First(w, Len(w)) = w
      BY SubSeqFull DEF First
    <3> QED BY <1>4, <3>1 DEF Kept
  <2>2. /\ k \in 0 .. Len(fragment)
        /\ (IF Len(w \o fragment) <= max_thought_chars THEN Len(w \o fragment)
            ELSE max_thought_chars) = Len(w) + k
    BY <1>1, <1>3, <1>4, <2>1 DEF Allowed, Capacity
  <2> HIDE DEF k
  <2>3. Kept(w \o fragment) = First(w \o fragment, Len(w) + k)
    BY <2>2 DEF Kept
  <2>4. Len(w) \in 0 .. Len(w)
    BY <1>1
  <2>5. First(w \o fragment, Len(w) + k) = w \o First(fragment, k)
    BY <2>2, <2>4, FirstOfConcat
  <2> QED BY <1>2, <2>1, <2>3, <2>5
<1>5. CASE max_thought_chars < Len(w)
  <2>1. thoughts = First(w, max_thought_chars) /\ max_thought_chars \in 0 .. Len(w)
    BY <1>1, <1>5 DEF Kept
  <2>2. Len(thoughts) = max_thought_chars /\ thoughts \in Seq(Char)
    BY <2>1, FirstIsASeq
  <2>3. k = 0
    BY <1>1, <1>3, <2>2 DEF Allowed, Capacity
  <2> HIDE DEF k
  <2>4. First(fragment, k) = <<>>
    BY <2>3, SubSeqEmpty DEF First
  <2>5. thoughts' = thoughts
    BY <1>2, <2>2, <2>4, ConcatEmptySeq
  <2>6. (IF Len(w \o fragment) <= max_thought_chars THEN Len(w \o fragment)
         ELSE max_thought_chars) = max_thought_chars
    BY <1>1, <1>5
  <2>7. Kept(w \o fragment) = First(w \o fragment, max_thought_chars)
    BY <2>6 DEF Kept
  <2>8. 0 \in 0 .. Len(fragment)
    BY <1>1
  <2>9. First(w \o fragment, max_thought_chars) = First(w, max_thought_chars)
    BY <2>1, <2>8, FirstOfConcat
  <2> QED BY <2>1, <2>5, <2>7, <2>9
<1> QED BY <1>1, <1>4, <1>5
-----------------------------------------------------------------------------
\* The parser is always where a reader of the stream so far is.

\* The closing tag does not lie inside the opening one.
TagsApart == Absent(open_tag, close_tag)

\* The offset of the first character that is still held back or to consume.
Position == Len(stream) - Len(buffer) - Len(text)

\* What was fed and not consumed is the end of the stream, and however the
\* stream goes on, what was consumed was consumed as a reader reads it.
ReadSoFar ==
  /\ Lies(stream, Position, buffer) /\ Lies(stream, Position, text)
  /\ \A t \in Seq(Char) :
       Agrees(began, stream \o t, Position, state, visible \o visible_out, thoughts)

\* What a flush leaves is what a reader has at the end of the stream.
ReadToTheEnd ==
  /\ Agrees(began, stream, Len(stream), state, visible, thoughts)
  /\ metrics.unclosed_stream = (state = "THINKING")

RInv ==
  /\ phase # "flushed" => ReadSoFar /\ metrics.unclosed_stream = FALSE
  /\ phase = "flushed" => ReadToTheEnd

\* However a text goes on, what lies in it stays where it is.
LEMMA LiesOn ==
  ASSUME NEW s \in Seq(Char), NEW t \in Seq(Char), NEW p, NEW rest \in Seq(Char), Lies(s, p, rest)
  PROVE  Lies(s \o t, p, rest)
<1>1. /\ Len(s) \in Nat /\ Len(t) \in Nat /\ Len(rest) \in Nat /\ Len(s \o t) = Len(s) + Len(t)
      /\ \A i \in 1 .. Len(s) + Len(t) : (s \o t)[i] = IF i <= Len(s) THEN s[i] ELSE t[i - Len(s)]
  BY LenProperties, ConcatProperties
<1>2. p \in Nat /\ p + Len(rest) <= Len(s) /\ \A i \in 1 .. Len(rest) : s[p + i] = rest[i]
  BY DEF Lies
<1>3. ASSUME NEW i \in 1 .. Len(rest) PROVE (s \o t)[p + i] = rest[i]
  <2>1. p + i \in 1 .. Len(s) + Len(t) /\ p + i <= Len(s)
    BY <1>1, <1>2
  <2> QED BY <1>1, <1>2, <2>1
<1> QED BY <1>1, <1>2, <1>3 DEF Lies

\* What follows a part of what lies at p lies so much further.
LEMMA LiesFurther ==
  ASSUME NEW s \in Seq(Char), NEW p, NEW rest \in Seq(Char), Lies(s, p, rest), NEW n \in 0 .. Len(rest)
  PROVE  Lies(s, p + n, From(rest, n))
<1>1. Len(s) \in Nat /\ Len(rest) \in Nat /\ Len(From(rest, n)) = Len(rest) - n
  BY LenProperties, FromIsASeq
<1>2. p \in Nat /\ p + Len(rest) <= Len(s) /\ \A i \in 1 .. Len(rest) : s[p + i] = rest[i]
  BY DEF Lies
<1>3. ASSUME NEW i \in 1 .. Len(rest) - n PROVE s[(p + n) + i] = From(rest, n)[i]
  <2>1. n + i \in 1 .. Len(rest) /\ (p + n) + i = p + (n + i)
    BY <1>1, <1>2
  <2>2. From(rest, n)[i] = rest[n + i]
    BY FromIs
  <2> QED BY <1>2, <2>1, <2>2
<1>4. p + n \in Nat /\ p + n + (Len(rest) - n) <= Len(s)
  BY <1>1, <1>2
<1> QED BY <1>1, <1>3, <1>4 DEF Lies

\* An empty text lies wherever there is room.
LEMMA NothingLies ==
  ASSUME NEW s \in Seq(Char), NEW p \in 0 .. Len(s)
  PROVE  Lies(s, p, <<>>)
<1>1. Len(<<>>) = 0 /\ Len(s) \in Nat
  BY EmptySeq, LenProperties
<1>2. 1 .. Len(<<>>) = {}
  BY <1>1
<1> QED BY <1>1, <1>2 DEF Lies

\* What was held back and what is fed lie at the end of what has been fed.
LEMMA LiesAtTheEnd ==
  ASSUME NEW s \in Seq(Char), NEW t \in Seq(Char), NEW p, NEW rest \in Seq(Char),
         Lies(s, p, rest), p + Len(rest) = Len(s)
  PROVE  Lies(s \o t, p, rest \o t)
<1> DEFINE l == Len(rest)
           m == Len(s)
           k == Len(t)
<1>1. l \in Nat /\ m \in Nat /\ k \in Nat /\ p \in Nat /\ p + l = m
  BY LenProperties DEF Lies
<1>2. \A i \in 1 .. l : s[p + i] = rest[i]
  BY DEF Lies
<1>3. Len(s \o t) = m + k /\ \A i \in 1 .. m + k : (s \o t)[i] = IF i <= m THEN s[i] ELSE t[i - m]
  BY ConcatProperties
<1>4. Len(rest \o t) = l + k /\ \A i \in 1 .. l + k : (rest \o t)[i] = IF i <= l THEN rest[i] ELSE t[i - l]
  BY ConcatProperties
<1> HIDE DEF l, m, k
<1>5. ASSUME NEW i \in 1 .. l + k PROVE (s \o t)[p + i] = (rest \o t)[i]
  <2>1. PICK j \in 1 .. m + k : j = p + i
    BY <1>1
  <2>2. CASE i <= l
    <3>1. i \in 1 .. l /\ j <= m
      BY <1>1, <2>1, <2>2
    <3>2. (s \o t)[j] = s[j] /\ (rest \o t)[i] = rest[i]
      BY <1>3, <1>4, <2>2, <3>1
    <3>3. s[j] = rest[i]
      BY <1>2, <2>1, <3>1
    <3> QED BY <2>1, <3>2, <3>3
  <2>3. CASE ~(i <= l)
    <3>1. ~(j <= m) /\ j - m = i - l
      BY <1>1, <2>1, <2>3
    <3>2. (s \o t)[j] = t[j - m] /\ (rest \o t)[i] = t[i - l]
      BY <1>3, <1>4, <2>3, <3>1
    <3> QED BY <2>1, <3>1, <3>2
  <2> QED BY <2>2, <2>3
<1>6. p + (l + k) <= m + k
  BY <1>1
<1>7. Len(rest \o t) = l + k /\ Len(s \o t) = m + k
  BY <1>3, <1>4
<1> QED BY <1>1, <1>5, <1>6, <1>7 DEF Lies

\* No tag begins before the first one that str.find finds.
LEMMA NoneBeforeFound ==
  ASSUME NEW s \in Seq(Char), NEW p \in Nat, NEW rest \in Seq(Char), Lies(s, p, rest),
         NEW tag \in Seq(Char), NEW n \in Nat, Find(rest, tag, n)
  PROVE  NoneBegins(s, tag, p, n) /\ Occurs(s, tag, p + n)
<1>1. Len(rest) \in Nat /\ Len(tag) \in Nat
  BY LenProperties
<1>2. /\ n \in Offsets(rest, tag) /\ Occurs(rest, tag, n)
      /\ \A m \in Offsets(rest, tag) : m < n => ~Occurs(rest, tag, m)
  BY DEF Find, Occurs
<1>3. n + Len(tag) <= Len(rest)
  BY <1>1, <1>2 DEF Offsets
<1>4. Occurs(s, tag, p + n)
  BY <1>2, <1>3, OccursInRest
<1>5. ASSUME NEW i \in 0 .. n - 1 PROVE ~Occurs(s, tag, p + i)
  <2>1. i \in Nat /\ i < n /\ i + Len(tag) <= Len(rest)
    BY <1>1, <1>3
  <2>2. i \in Offsets(rest, tag)
    BY <1>1, <2>1 DEF Offsets
  <2>3. ~Occurs(rest, tag, i)
    BY <1>2, <2>1, <2>2
  <2> QED BY <2>1, <2>3, OccursInRest
<1> QED BY <1>4, <1>5 DEF NoneBegins

\* Up to a closing tag in a text without opening ones, none begins, though the
\* stream may go on: it would have to hold the closing tag.
LEMMA NoneBeforeClose ==
  ASSUME TagsApart, NEW s \in Seq(Char), NEW p \in Nat, NEW rest \in Seq(Char), Lies(s, p, rest),
         Absent(rest, open_tag), NEW n \in Nat, Find(rest, close_tag, n), NEW i \in 0 .. n
  PROVE  ~Occurs(s, open_tag, p + i)
<1> SUFFICES ASSUME Occurs(s, open_tag, p + i) PROVE FALSE
  OBVIOUS
<1>0. open_tag \in Seq(Char) /\ close_tag \in Seq(Char)
  BY SanitizerAssumption
<1>1. /\ Len(rest) \in Nat /\ Len(s) \in Nat /\ i \in Nat /\ i <= n
      /\ Len(open_tag) \in Nat /\ Len(close_tag) \in Nat
  BY TagLengths, LenProperties
<1>2. n + Len(close_tag) <= Len(rest) /\ Occurs(s, close_tag, p + n)
  <2>1. n \in Offsets(rest, close_tag)
    BY DEF Find, Occurs
  <2>2. n + Len(close_tag) <= Len(rest)
    BY <1>1, <2>1 DEF Offsets
  <2> QED BY <1>0, <2>2, NoneBeforeFound
<1>3. CASE i + Len(open_tag) <= Len(rest)
  <2>1. Occurs(rest, open_tag, i)
    BY <1>0, <1>1, <1>3, OccursInRest
  <2> QED BY <2>1 DEF Occurs, Absent
<1>4. CASE Len(rest) < i + Len(open_tag)
  <2> DEFINE j == n - i
  <2>1. j \in Nat /\ j + Len(close_tag) <= Len(open_tag)
    BY <1>1, <1>2, <1>4
  <2>2. j \in Offsets(open_tag, close_tag)
    BY <1>1, <2>1 DEF Offsets
  <2>3. \A k \in 1 .. Len(open_tag) : s[(p + i) + k] = open_tag[k]
    BY <1>0, OccursIs
  <2>4. \A k \in 1 .. Len(close_tag) : s[(p + n) + k] = close_tag[k]
    BY <1>0, <1>2, OccursIs
  <2>5. ASSUME NEW k \in 1 .. Len(close_tag) PROVE open_tag[j + k] = close_tag[k]
    <3>1. j + k \in 1 .. Len(open_tag) /\ (p + i) + (j + k) = (p + n) + k
      BY <1>1, <2>1
    <3>2. s[(p + i) + (j + k)] = open_tag[j + k]
      BY <2>3, <3>1
    <3> QED BY <2>4, <3>1, <3>2
  <2> HIDE DEF j
  <2>6. Occurs(open_tag, close_tag, j)
    BY <1>0, <2>2, <2>5, OccursIs
  <2> QED BY <2>2, <2>6 DEF TagsApart, Absent
<1> QED BY <1>1, <1>3, <1>4

\* A tag that is longer than what is left of the stream does not begin there.
LEMMA NoneBeginsAtTheEnd ==
  ASSUME NEW s \in Seq(Char), NEW tag \in Seq(Char), NEW p \in Nat, NEW n \in Nat,
         p + n = Len(s), n < Len(tag)
  PROVE  NoneBegins(s, tag, p, n)
<1>1. Len(tag) \in Nat /\ Len(s) \in Nat
  BY LenProperties
<1>2. ASSUME NEW i \in 0 .. n - 1 PROVE p + i \notin Offsets(s, tag)
  BY <1>1 DEF Offsets
<1> QED BY <1>2 DEF NoneBegins, Occurs
-----------------------------------------------------------------------------
\* Every action keeps the parser where the reader is.

\* What is consumed of the text brings the rest of it so much further.
LEMMA Consumes ==
  ASSUME TypeOK, Lies(stream, Position, text), buffer = <<>>,
         NEW m \in 0 .. Len(text), text' = From(text, m),
         UNCHANGED <<buffer, stream>>
  PROVE  /\ Position' = Position + m
         /\ Lies(stream', Position', buffer') /\ Lies(stream', Position', text')
<1>1. /\ stream \in Seq(Char) /\ text \in Seq(Char) /\ Len(stream) \in Nat /\ Len(text) \in Nat
      /\ Len(buffer) = 0 /\ Len(buffer') = 0
  BY LenProperties, EmptySeq DEF TypeOK
<1>2. Len(text') = Len(text) - m
  BY <1>1, FromIsASeq
<1>3. Position = Len(stream) - Len(text) /\ Position' = Len(stream) - Len(text')
  BY <1>1 DEF Position
<1>4. Position' = Position + m
  BY <1>1, <1>2, <1>3
<1>5. Position \in Nat /\ Position + Len(text) <= Len(stream)
  BY DEF Lies
<1>6. Position + m \in 0 .. Len(stream)
  BY <1>1, <1>5
<1>7. Lies(stream, Position + m, text')
  BY <1>1, LiesFurther
<1>8. Lies(stream, Position + m, <<>>)
  BY <1>1, <1>6, NothingLies
<1>9. stream' = stream /\ buffer' = <<>>
  OBVIOUS
<1> QED BY <1>4, <1>7, <1>8, <1>9, Zenon

\* What is held back of the text comes after what was consumed of it.
LEMMA HoldsBack ==
  ASSUME TypeOK, Lies(stream, Position, text), buffer = <<>>,
         NEW m \in 0 .. Len(text), buffer' = From(text, m), text' = <<>>,
         UNCHANGED stream
  PROVE  /\ Position' = Position + m
         /\ Lies(stream', Position', buffer') /\ Lies(stream', Position', text')
<1>1. /\ stream \in Seq(Char) /\ text \in Seq(Char) /\ Len(stream) \in Nat /\ Len(text) \in Nat
      /\ Len(buffer) = 0 /\ Len(text') = 0
  BY LenProperties, EmptySeq DEF TypeOK
<1>2. Len(buffer') = Len(text) - m
  BY <1>1, FromIsASeq
<1>3. Position = Len(stream) - Len(text) /\ Position' = Len(stream) - Len(buffer')
  BY <1>1, <1>2 DEF Position
<1>4. Position' = Position + m
  BY <1>1, <1>2, <1>3
<1>5. Position \in Nat /\ Position + Len(text) <= Len(stream)
  BY DEF Lies
<1>6. Position + m \in 0 .. Len(stream)
  BY <1>1, <1>5
<1>7. Lies(stream, Position + m, buffer')
  BY <1>1, LiesFurther
<1>8. Lies(stream, Position + m, <<>>)
  BY <1>1, <1>6, NothingLies
<1>9. stream' = stream /\ text' = <<>>
  OBVIOUS
<1> QED BY <1>4, <1>7, <1>8, <1>9, Zenon

\* The loop of feed: what its steps start from, for any text t still to come.
LEMMA InTheLoop ==
  ASSUME IInv, RInv, phase = "feeding", text # <<>>
  PROVE  /\ TypeOK /\ ThoughtsAreBounded /\ ReadSoFar /\ metrics.unclosed_stream = FALSE
         /\ buffer = <<>> /\ Position \in Nat /\ began \in State /\ stream \in Seq(Char)
         /\ text \in Seq(Char) /\ Len(text) \in Nat /\ visible \in Seq(Char)
         /\ visible_out \in Seq(Char) /\ Lies(stream, Position, text)
         /\ \A t \in Seq(Char) :
              /\ stream \o t \in Seq(Char) /\ Lies(stream \o t, Position, text)
              /\ Agrees(began, stream \o t, Position, state, visible \o visible_out, thoughts)
<1>1. /\ TypeOK /\ ThoughtsAreBounded /\ HeldBackFits /\ ReadSoFar
      /\ metrics.unclosed_stream = FALSE
  BY DEF IInv, RInv
<1>2. /\ began \in State /\ stream \in Seq(Char) /\ text \in Seq(Char) /\ visible \in Seq(Char)
      /\ visible_out \in Seq(Char)
  BY <1>1 DEF TypeOK
<1>3. buffer = <<>>
  BY <1>1 DEF HeldBackFits
<1>4. Lies(stream, Position, text)
  BY <1>1 DEF ReadSoFar
<1>5. Position \in Nat /\ Len(text) \in Nat
  BY <1>2, <1>4, LenProperties DEF Lies
<1>6. ASSUME NEW t \in Seq(Char)
      PROVE  /\ stream \o t \in Seq(Char) /\ Lies(stream \o t, Position, text)
             /\ Agrees(began, stream \o t, Position, state, visible \o visible_out, thoughts)
  <2>1. stream \o t \in Seq(Char)
    BY <1>2, ConcatProperties
  <2>2. Lies(stream \o t, Position, text)
    BY <1>2, <1>4, LiesOn
  <2>3. Agrees(began, stream \o t, Position, state, visible \o visible_out, thoughts)
    BY <1>1 DEF ReadSoFar
  <2> QED BY <2>1, <2>2, <2>3
<1> QED BY <1>1, <1>2, <1>3, <1>4, <1>5, <1>6

\* Visible characters may be collected before or after they are returned.
LEMMA VisibleOnward ==
  ASSUME visible \in Seq(Char), visible_out \in Seq(Char), text \in Seq(Char), NEW n \in 0 .. Len(text),
         visible_out' = visible_out \o First(text, n), visible' = visible
  PROVE  visible' \o visible_out' = (visible \o visible_out) \o First(text, n)
<1>1. First(text, n) \in Seq(Char)
  BY FirstIsASeq
<1>2. (visible \o visible_out) \o First(text, n) = visible \o (visible_out \o First(text, n))
  BY <1>1, ConcatAssociative
<1> QED BY <1>2, Zenon

\* A chunk moves nothing: it only makes more of the stream known.
LEMMA FeedReads ==
  ASSUME IInv, RInv, NEW chunk \in Chunk, Feed(chunk) PROVE RInv'
<1>1. /\ phase = "idle" /\ phase' = "feeding" /\ stream' = stream \o chunk
      /\ text' = buffer \o chunk /\ buffer' = <<>>
      /\ state' = state /\ visible_out' = visible_out /\ visible' = visible /\ thoughts' = thoughts
      /\ began' = began /\ metrics'.unclosed_stream = metrics.unclosed_stream
  BY DEF Feed, IInv, TypeOK, SanitizerMetrics
<1>2. /\ TypeOK /\ ReadSoFar /\ metrics.unclosed_stream = FALSE
  BY <1>1 DEF IInv, RInv
<1>3. /\ stream \in Seq(Char) /\ buffer \in Seq(Char) /\ text = <<>> /\ chunk \in Seq(Char)
  <2>1. stream \in Seq(Char) /\ buffer \in Seq(Char) /\ text = <<>>
    BY <1>1, <1>2 DEF TypeOK
  <2>2. chunk \in Seq(Char)
    BY LenProperties DEF Chunk
  <2> QED BY <2>1, <2>2
<1>4. /\ Len(stream) \in Nat /\ Len(buffer) \in Nat /\ Len(chunk) \in Nat
      /\ Len(text) = 0 /\ Len(buffer') = 0
      /\ Len(stream') = Len(stream) + Len(chunk) /\ Len(text') = Len(buffer) + Len(chunk)
  BY <1>1, <1>3, LenProperties, EmptySeq, ConcatProperties
<1>5. Position' = Position /\ Position + Len(buffer) = Len(stream)
  BY <1>4 DEF Position
<1>6. Lies(stream, Position, buffer) /\ Position \in Nat
  BY <1>2 DEF ReadSoFar, Lies
<1>7. Lies(stream', Position', text')
  <2>1. Lies(stream \o chunk, Position, buffer \o chunk)
    BY <1>3, <1>5, <1>6, LiesAtTheEnd
  <2> QED BY <1>1, <1>5, <2>1, Zenon
<1>8. Lies(stream', Position', buffer')
  <2>1. stream' \in Seq(Char) /\ Position \in 0 .. Len(stream')
    BY <1>1, <1>3, <1>4, <1>5, <1>6, ConcatProperties
  <2>2. Lies(stream', Position, <<>>)
    BY <2>1, NothingLies
  <2> QED BY <1>1, <1>5, <2>2, Zenon
<1>9. ASSUME NEW t \in Seq(Char)
      PROVE  Agrees(began', stream' \o t, Position', state', visible' \o visible_out', thoughts')
  <2>1. chunk \o t \in Seq(Char) /\ (stream \o chunk) \o t = stream \o (chunk \o t)
    BY <1>3, ConcatProperties, ConcatAssociative
  <2>2. Agrees(began, stream \o (chunk \o t), Position, state, visible \o visible_out, thoughts)
    BY <1>2, <2>1 DEF ReadSoFar
  <2>3. stream' \o t = stream \o (chunk \o t)
    BY <1>1, <2>1, Zenon
  <2> QED BY <1>1, <1>5, <2>2, <2>3, Zenon
<1>10. ReadSoFar'
  BY <1>7, <1>8, <1>9 DEF ReadSoFar
<1> QED BY <1>1, <1>2, <1>10 DEF RInv

\* Up to the opening tag the reader emits, and turns to thinking.
LEMMA EmitUpToOpenReads ==
  ASSUME IInv, RInv, EmitUpToOpen PROVE RInv'
<1>1. /\ phase = "feeding" /\ phase' = "feeding" /\ text # <<>> /\ state = "EMITTING"
      /\ state' = "THINKING" /\ UNCHANGED <<buffer, visible, thoughts, stream, began>>
  BY DEF EmitUpToOpen, Emitting
<1>2. PICK n \in Offsets(text, open_tag) :
        /\ Find(text, open_tag, n)
        /\ visible_out' = visible_out \o First(text, n)
        /\ text' = From(text, n + Len(open_tag))
  BY DEF EmitUpToOpen
<1>3. metrics'.unclosed_stream = metrics.unclosed_stream
  BY DEF EmitUpToOpen, IInv, TypeOK, SanitizerMetrics
<1>4. /\ TypeOK /\ metrics.unclosed_stream = FALSE
      /\ buffer = <<>> /\ Position \in Nat /\ began \in State /\ stream \in Seq(Char)
      /\ text \in Seq(Char) /\ Len(text) \in Nat /\ visible \in Seq(Char)
      /\ visible_out \in Seq(Char) /\ Lies(stream, Position, text)
      /\ \A t \in Seq(Char) :
           /\ stream \o t \in Seq(Char) /\ Lies(stream \o t, Position, text)
           /\ Agrees(began, stream \o t, Position, state, visible \o visible_out, thoughts)
  BY <1>1, InTheLoop
<1>5. /\ open_tag \in Seq(Char) /\ open_tag # <<>> /\ Len(open_tag) \in Nat
  BY SanitizerAssumption, TagLengths
<1>6. n \in 0 .. Len(text) /\ n + Len(open_tag) \in 0 .. Len(text) /\ n \in Nat /\ n <= Len(text)
  BY <1>2, <1>4, <1>5, FoundInside
<1>7. /\ Position' = Position + (n + Len(open_tag))
      /\ Lies(stream', Position', buffer') /\ Lies(stream', Position', text')
  BY <1>1, <1>2, <1>4, <1>6, Consumes
<1>8. visible' \o visible_out' = (visible \o visible_out) \o First(text, n)
  BY <1>1, <1>2, <1>4, <1>6, VisibleOnward
<1>9. ASSUME NEW t \in Seq(Char)
      PROVE  Agrees(began', stream' \o t, Position', state', visible' \o visible_out', thoughts')
  <2> DEFINE s == stream \o t
             p == Position
             vis == visible \o visible_out
  <2>1. s \in Seq(Char) /\ Lies(s, p, text) /\ Agrees(began, s, p, "EMITTING", vis, thoughts) /\ p \in Nat
    BY <1>1, <1>4, Zenon
  <2> HIDE DEF s, p, vis
  <2>2. NoneBegins(s, open_tag, p, n) /\ Occurs(s, open_tag, p + n)
    BY <1>2, <1>4, <1>5, <1>6, <2>1, NoneBeforeFound
  <2>3. Agrees(began, s, p + n, "EMITTING", vis \o First(text, n), thoughts)
    BY <1>4, <1>6, <2>1, <2>2, EmitAgrees
  <2>4. p + n \in Nat
    BY <1>6, <2>1
  <2>5. Agrees(began, s, p + n + Len(open_tag), "THINKING", vis \o First(text, n), thoughts)
    BY <1>4, <2>1, <2>2, <2>3, <2>4, OpenAgrees
  <2>6. Position' = p + n + Len(open_tag)
    BY <1>5, <1>6, <1>7, <2>1 DEF p
  <2>7. visible' \o visible_out' = vis \o First(text, n)
    BY <1>8 DEF vis
  <2>8. stream' \o t = s
    BY <1>1 DEF s
  <2> QED BY <1>1, <2>5, <2>6, <2>7, <2>8, Zenon
<1>10. ReadSoFar'
  BY <1>7, <1>9 DEF ReadSoFar
<1> QED BY <1>1, <1>3, <1>4, <1>10 DEF RInv

\* At a closing tag that closes nothing the comparison ends.
LEMMA EmitUpToCloseReads ==
  ASSUME TagsApart, IInv, RInv, EmitUpToClose PROVE RInv'
<1>1. /\ phase = "feeding" /\ phase' = "feeding" /\ text # <<>> /\ state = "EMITTING"
      /\ Absent(text, open_tag)
      /\ UNCHANGED <<state, buffer, visible, thoughts, stream, began>>
  BY DEF EmitUpToClose, Emitting
<1>2. PICK n \in Offsets(text, close_tag) :
        /\ Find(text, close_tag, n)
        /\ visible_out' = visible_out \o First(text, n)
        /\ text' = From(text, n + Len(close_tag))
  BY DEF EmitUpToClose
<1>3. metrics'.unclosed_stream = metrics.unclosed_stream
  BY DEF EmitUpToClose, IInv, TypeOK, SanitizerMetrics
<1>4. /\ TypeOK /\ metrics.unclosed_stream = FALSE
      /\ buffer = <<>> /\ Position \in Nat /\ began \in State /\ stream \in Seq(Char)
      /\ text \in Seq(Char) /\ Len(text) \in Nat /\ visible \in Seq(Char)
      /\ visible_out \in Seq(Char) /\ Lies(stream, Position, text)
      /\ \A t \in Seq(Char) :
           /\ stream \o t \in Seq(Char) /\ Lies(stream \o t, Position, text)
           /\ Agrees(began, stream \o t, Position, state, visible \o visible_out, thoughts)
  BY <1>1, InTheLoop
<1>5. /\ close_tag \in Seq(Char) /\ close_tag # <<>> /\ Len(close_tag) \in Nat
  BY SanitizerAssumption, TagLengths
<1>6. n \in 0 .. Len(text) /\ n + Len(close_tag) \in 0 .. Len(text) /\ n \in Nat /\ n <= Len(text)
  BY <1>2, <1>4, <1>5, FoundInside
<1>7. Lies(stream', Position', buffer') /\ Lies(stream', Position', text')
  BY <1>1, <1>2, <1>4, <1>6, Consumes
<1>9. ASSUME NEW t \in Seq(Char)
      PROVE  Agrees(began', stream' \o t, Position', state', visible' \o visible_out', thoughts')
  <2> DEFINE s == stream \o t
             p == Position
             vis == visible \o visible_out
  <2>1. s \in Seq(Char) /\ Lies(s, p, text) /\ Agrees(began, s, p, "EMITTING", vis, thoughts) /\ p \in Nat
    BY <1>1, <1>4, Zenon
  <2> HIDE DEF s, p, vis
  <2>2. \A i \in 0 .. n : ~Occurs(s, open_tag, p + i)
    BY <1>1, <1>2, <1>4, <1>6, <2>1, NoneBeforeClose
  <2>3. NoneBegins(s, open_tag, p, n) /\ ~Occurs(s, open_tag, p + n)
    BY <1>6, <2>2 DEF NoneBegins
  <2>4. Occurs(s, close_tag, p + n) /\ p + n \in Nat
    BY <1>2, <1>4, <1>5, <1>6, <2>1, NoneBeforeFound
  <2>5. Agrees(began, s, p + n, "EMITTING", vis \o First(text, n), thoughts)
    BY <1>4, <1>6, <2>1, <2>3, EmitAgrees
  <2>6. Agrees(began, s, Position', state', visible' \o visible_out', thoughts')
    BY <1>4, <2>1, <2>3, <2>4, <2>5, StrayAgrees
  <2>8. stream' \o t = s /\ began' = began
    BY <1>1 DEF s
  <2> QED BY <2>6, <2>8, Zenon
<1>10. ReadSoFar'
  BY <1>7, <1>9 DEF ReadSoFar
<1> QED BY <1>1, <1>3, <1>4, <1>10 DEF RInv

\* Without a tag the reader emits up to what may begin an opening one.
LEMMA EmitRestReads ==
  ASSUME IInv, RInv, EmitRest PROVE RInv'
<1>1. /\ phase = "feeding" /\ phase' = "feeding" /\ text # <<>> /\ state = "EMITTING"
      /\ Absent(text, open_tag) /\ text' = <<>>
      /\ UNCHANGED <<state, visible, thoughts, stream, began>>
  BY DEF EmitRest, Emitting
<1>2. PICK n \in 0 .. Len(text) :
        /\ PotentialPrefix(text, open_tag, n)
        /\ visible_out' = visible_out \o First(text, n)
        /\ buffer' = From(text, n)
  BY DEF EmitRest
<1>3. metrics'.unclosed_stream = metrics.unclosed_stream
  BY DEF EmitRest
<1>4. /\ TypeOK /\ metrics.unclosed_stream = FALSE
      /\ buffer = <<>> /\ Position \in Nat /\ began \in State /\ stream \in Seq(Char)
      /\ text \in Seq(Char) /\ Len(text) \in Nat /\ visible \in Seq(Char)
      /\ visible_out \in Seq(Char) /\ Lies(stream, Position, text)
      /\ \A t \in Seq(Char) :
           /\ stream \o t \in Seq(Char) /\ Lies(stream \o t, Position, text)
           /\ Agrees(began, stream \o t, Position, state, visible \o visible_out, thoughts)
  BY <1>1, InTheLoop
<1>6. n \in Nat /\ n <= Len(text) /\ open_tag \in Seq(Char)
  BY <1>4, SanitizerAssumption
<1>7. /\ Position' = Position + n
      /\ Lies(stream', Position', buffer') /\ Lies(stream', Position', text')
  BY <1>1, <1>2, <1>4, HoldsBack
<1>8. visible' \o visible_out' = (visible \o visible_out) \o First(text, n)
  BY <1>1, <1>2, <1>4, VisibleOnward
<1>9. ASSUME NEW t \in Seq(Char)
      PROVE  Agrees(began', stream' \o t, Position', state', visible' \o visible_out', thoughts')
  <2> DEFINE s == stream \o t
             p == Position
             vis == visible \o visible_out
  <2>1. s \in Seq(Char) /\ Lies(s, p, text) /\ Agrees(began, s, p, "EMITTING", vis, thoughts) /\ p \in Nat
    BY <1>1, <1>4, Zenon
  <2> HIDE DEF s, p, vis
  <2>2. NoneBegins(s, open_tag, p, n)
    BY <1>1, <1>2, <1>4, <1>6, <2>1, NoTagBeforeCutoff
  <2>3. Agrees(began, s, p + n, "EMITTING", vis \o First(text, n), thoughts)
    BY <1>4, <1>6, <2>1, <2>2, EmitAgrees
  <2>6. Position' = p + n
    BY <1>7 DEF p
  <2>7. visible' \o visible_out' = vis \o First(text, n)
    BY <1>8 DEF vis
  <2>8. stream' \o t = s
    BY <1>1 DEF s
  <2> QED BY <1>1, <2>3, <2>6, <2>7, <2>8, Zenon
<1>10. ReadSoFar'
  BY <1>7, <1>9 DEF ReadSoFar
<1> QED BY <1>1, <1>3, <1>4, <1>10 DEF RInv

\* What _record_thought leaves alone.
LEMMA RecordedLeaves ==
  ASSUME NEW fragment, NEW m \in SanitizerMetrics, Recorded(fragment, m)
  PROVE  metrics'.unclosed_stream = m.unclosed_stream
<1> DEFINE kept == m.thought_chars + Allowed(fragment)
           cut == m.discarded_thought_chars + Len(fragment) - Allowed(fragment)
<1>1. metrics' = [m EXCEPT !.thought_chars = kept, !.discarded_thought_chars = cut]
  BY DEF Recorded
<1> HIDE DEF kept, cut
<1> QED BY <1>1 DEF SanitizerMetrics

\* Up to the closing tag the reader thinks, and turns to emitting.
LEMMA ThinkUpToCloseReads ==
  ASSUME IInv, RInv, ThinkUpToClose PROVE RInv'
<1>1. /\ phase = "feeding" /\ phase' = "feeding" /\ text # <<>> /\ state = "THINKING"
      /\ state' = "EMITTING" /\ UNCHANGED <<buffer, visible_out, visible, stream, began>>
  BY DEF ThinkUpToClose, Thinking
<1> DEFINE m == [metrics EXCEPT !.close_tags_detected = @ + 1]
<1>2. PICK n \in Offsets(text, close_tag) :
        /\ Find(text, close_tag, n)
        /\ Recorded(First(text, n), m)
        /\ text' = From(text, n + Len(close_tag))
  BY DEF ThinkUpToClose
<1>4. /\ TypeOK /\ metrics.unclosed_stream = FALSE
      /\ buffer = <<>> /\ Position \in Nat /\ began \in State /\ stream \in Seq(Char)
      /\ text \in Seq(Char) /\ Len(text) \in Nat /\ visible \in Seq(Char)
      /\ visible_out \in Seq(Char) /\ Lies(stream, Position, text)
      /\ \A t \in Seq(Char) :
           /\ stream \o t \in Seq(Char) /\ Lies(stream \o t, Position, text)
           /\ Agrees(began, stream \o t, Position, state, visible \o visible_out, thoughts)
  BY <1>1, InTheLoop
<1>3. metrics'.unclosed_stream = metrics.unclosed_stream
  <2>1. m \in SanitizerMetrics /\ m.unclosed_stream = metrics.unclosed_stream
    <3> DEFINE c == metrics.close_tags_detected + 1
    <3>1. m = [metrics EXCEPT !.close_tags_detected = c] /\ c \in Nat
      BY <1>4 DEF TypeOK, SanitizerMetrics
    <3> HIDE DEF c, m
    <3> QED BY <1>4, <3>1 DEF TypeOK, SanitizerMetrics
  <2> HIDE DEF m
  <2> QED BY <1>2, <2>1, RecordedLeaves
<1> HIDE DEF m
<1>5. /\ close_tag \in Seq(Char) /\ close_tag # <<>> /\ Len(close_tag) \in Nat
  BY SanitizerAssumption, TagLengths
<1>6. n \in 0 .. Len(text) /\ n + Len(close_tag) \in 0 .. Len(text) /\ n \in Nat /\ n <= Len(text)
  BY <1>2, <1>4, <1>5, FoundInside
<1>7. /\ Position' = Position + (n + Len(close_tag))
      /\ Lies(stream', Position', buffer') /\ Lies(stream', Position', text')
  BY <1>1, <1>2, <1>4, <1>6, Consumes
<1>8. \A w \in Seq(Char) : thoughts = Kept(w) => thoughts' = Kept(w \o First(text, n))
  <2>1. First(text, n) \in Seq(Char) /\ ThoughtsAreBounded
    BY <1>4, <1>6, FirstIsASeq DEF IInv
  <2> QED BY <1>2, <1>4, <2>1, RecordedIsKept
<1>9. ASSUME NEW t \in Seq(Char)
      PROVE  Agrees(began', stream' \o t, Position', state', visible' \o visible_out', thoughts')
  <2> DEFINE s == stream \o t
             p == Position
             vis == visible \o visible_out
  <2>1. s \in Seq(Char) /\ Lies(s, p, text) /\ Agrees(began, s, p, "THINKING", vis, thoughts) /\ p \in Nat
    BY <1>1, <1>4, Zenon
  <2> HIDE DEF s, p, vis
  <2>2. NoneBegins(s, close_tag, p, n) /\ Occurs(s, close_tag, p + n)
    BY <1>2, <1>4, <1>5, <1>6, <2>1, NoneBeforeFound
  <2>3. Agrees(began, s, p + n, "THINKING", vis, thoughts')
    BY <1>4, <1>6, <1>8, <2>1, <2>2, ThinkAgrees
  <2>4. p + n \in Nat
    BY <1>6, <2>1
  <2>5. Agrees(began, s, p + n + Len(close_tag), "EMITTING", vis, thoughts')
    BY <1>4, <2>1, <2>2, <2>3, <2>4, CloseAgrees
  <2>6. Position' = p + n + Len(close_tag)
    BY <1>5, <1>6, <1>7, <2>1 DEF p
  <2>7. visible' \o visible_out' = vis
    BY <1>1 DEF vis
  <2>8. stream' \o t = s
    BY <1>1 DEF s
  <2> QED BY <1>1, <2>5, <2>6, <2>7, <2>8, Zenon
<1>10. ReadSoFar'
  BY <1>7, <1>9 DEF ReadSoFar
<1> QED BY <1>1, <1>3, <1>4, <1>10 DEF RInv

\* Without a closing tag the reader thinks up to what may begin one.
LEMMA ThinkRestReads ==
  ASSUME IInv, RInv, ThinkRest PROVE RInv'
<1>1. /\ phase = "feeding" /\ phase' = "feeding" /\ text # <<>> /\ state = "THINKING"
      /\ Absent(text, close_tag) /\ text' = <<>>
      /\ UNCHANGED <<state, visible_out, visible, stream, began>>
  BY DEF ThinkRest, Thinking
<1>2. PICK n \in 0 .. Len(text) :
        /\ PotentialPrefix(text, close_tag, n)
        /\ Recorded(First(text, n), metrics)
        /\ buffer' = From(text, n)
  BY DEF ThinkRest
<1>4. /\ TypeOK /\ metrics.unclosed_stream = FALSE
      /\ buffer = <<>> /\ Position \in Nat /\ began \in State /\ stream \in Seq(Char)
      /\ text \in Seq(Char) /\ Len(text) \in Nat /\ visible \in Seq(Char)
      /\ visible_out \in Seq(Char) /\ Lies(stream, Position, text)
      /\ \A t \in Seq(Char) :
           /\ stream \o t \in Seq(Char) /\ Lies(stream \o t, Position, text)
           /\ Agrees(began, stream \o t, Position, state, visible \o visible_out, thoughts)
  BY <1>1, InTheLoop
<1>3. metrics'.unclosed_stream = metrics.unclosed_stream
  BY <1>2, <1>4, RecordedLeaves DEF TypeOK
<1>6. n \in Nat /\ n <= Len(text) /\ close_tag \in Seq(Char)
  BY <1>4, SanitizerAssumption
<1>7. /\ Position' = Position + n
      /\ Lies(stream', Position', buffer') /\ Lies(stream', Position', text')
  BY <1>1, <1>2, <1>4, HoldsBack
<1>8. \A w \in Seq(Char) : thoughts = Kept(w) => thoughts' = Kept(w \o First(text, n))
  <2>1. First(text, n) \in Seq(Char) /\ ThoughtsAreBounded
    BY <1>4, FirstIsASeq DEF IInv
  <2> QED BY <1>2, <1>4, <2>1, RecordedIsKept
<1>9. ASSUME NEW t \in Seq(Char)
      PROVE  Agrees(began', stream' \o t, Position', state', visible' \o visible_out', thoughts')
  <2> DEFINE s == stream \o t
             p == Position
             vis == visible \o visible_out
  <2>1. s \in Seq(Char) /\ Lies(s, p, text) /\ Agrees(began, s, p, "THINKING", vis, thoughts) /\ p \in Nat
    BY <1>1, <1>4, Zenon
  <2> HIDE DEF s, p, vis
  <2>2. NoneBegins(s, close_tag, p, n)
    BY <1>1, <1>2, <1>4, <1>6, <2>1, NoTagBeforeCutoff
  <2>3. Agrees(began, s, p + n, "THINKING", vis, thoughts')
    BY <1>4, <1>6, <1>8, <2>1, <2>2, ThinkAgrees
  <2>6. Position' = p + n
    BY <1>7 DEF p
  <2>7. visible' \o visible_out' = vis
    BY <1>1 DEF vis
  <2>8. stream' \o t = s
    BY <1>1 DEF s
  <2> QED BY <1>1, <2>3, <2>6, <2>7, <2>8, Zenon
<1>10. ReadSoFar'
  BY <1>7, <1>9 DEF ReadSoFar
<1> QED BY <1>1, <1>3, <1>4, <1>10 DEF RInv

\* Between calls: what return and flush start from.
LEMMA BetweenChunks ==
  ASSUME IInv, RInv, phase # "flushed", text = <<>>
  PROVE  /\ TypeOK /\ ThoughtsAreBounded /\ ReadSoFar /\ metrics.unclosed_stream = FALSE
         /\ began \in State /\ stream \in Seq(Char) /\ buffer \in Seq(Char)
         /\ visible \in Seq(Char) /\ visible_out \in Seq(Char)
         /\ Len(buffer) \in Nat /\ Position \in Nat /\ Position + Len(buffer) = Len(stream)
         /\ Lies(stream, Position, buffer)
         /\ Agrees(began, stream, Position, state, visible \o visible_out, thoughts)
<1>1. /\ TypeOK /\ ThoughtsAreBounded /\ ReadSoFar /\ metrics.unclosed_stream = FALSE
  BY DEF IInv, RInv
<1>2. /\ began \in State /\ stream \in Seq(Char) /\ buffer \in Seq(Char) /\ visible \in Seq(Char)
      /\ visible_out \in Seq(Char)
  BY <1>1 DEF TypeOK
<1>3. Lies(stream, Position, buffer) /\ Position \in Nat
  BY <1>1 DEF ReadSoFar, Lies
<1>4. Len(stream) \in Nat /\ Len(buffer) \in Nat /\ Len(text) = 0
  BY <1>2, LenProperties, EmptySeq
<1>5. Position + Len(buffer) = Len(stream)
  BY <1>4 DEF Position
<1>6. stream \o <<>> = stream /\ <<>> \in Seq(Char)
  BY <1>2, ConcatEmptySeq, EmptySeq
<1>7. Agrees(began, stream \o <<>>, Position, state, visible \o visible_out, thoughts)
  BY <1>1, <1>6 DEF ReadSoFar
<1>8. Agrees(began, stream, Position, state, visible \o visible_out, thoughts)
  BY <1>6, <1>7, Zenon
<1> QED BY <1>1, <1>2, <1>3, <1>4, <1>5, <1>8

\* What is returned is what was visible.
LEMMA ReturnReads ==
  ASSUME IInv, RInv, Return PROVE RInv'
<1>1. /\ phase = "feeding" /\ text = <<>> /\ phase' = "idle"
      /\ visible' = visible \o visible_out /\ visible_out' = <<>>
      /\ UNCHANGED <<state, buffer, text, thoughts, stream, began>>
      /\ metrics'.unclosed_stream = metrics.unclosed_stream
  BY DEF Return, IInv, TypeOK, SanitizerMetrics
<1>2. /\ TypeOK /\ ReadSoFar /\ metrics.unclosed_stream = FALSE
      /\ visible \in Seq(Char) /\ visible_out \in Seq(Char)
  BY <1>1, BetweenChunks
<1>3. Position' = Position
  BY <1>1 DEF Position
<1>4. visible' \o visible_out' = visible \o visible_out
  <2>1. visible \o visible_out \in Seq(Char)
    BY <1>2, ConcatProperties
  <2> QED BY <1>1, <2>1, ConcatEmptySeq
<1>5. ReadSoFar'
  BY <1>1, <1>2, <1>3, <1>4 DEF ReadSoFar
<1> QED BY <1>1, <1>2, <1>5 DEF RInv

\* A flush in a thought ends it where the stream ends.
LEMMA FlushThinkingReads ==
  ASSUME IInv, RInv, FlushThinking PROVE RInv'
<1> DEFINE m == [metrics EXCEPT !.unclosed_stream = TRUE]
<1>1. /\ phase = "idle" /\ state = "THINKING" /\ phase' = "flushed" /\ Recorded(buffer, m)
      /\ UNCHANGED <<state, visible, stream, began>>
  BY DEF FlushThinking
<1>2. text = <<>> /\ visible_out = <<>>
  BY <1>1 DEF IInv, TypeOK
<1>3. /\ TypeOK /\ ThoughtsAreBounded
      /\ began \in State /\ stream \in Seq(Char) /\ buffer \in Seq(Char)
      /\ visible \in Seq(Char) /\ visible_out \in Seq(Char)
      /\ Len(buffer) \in Nat /\ Position \in Nat /\ Position + Len(buffer) = Len(stream)
      /\ Lies(stream, Position, buffer)
      /\ Agrees(began, stream, Position, state, visible \o visible_out, thoughts)
  BY <1>1, <1>2, BetweenChunks
<1>4. metrics'.unclosed_stream = TRUE
  <2>1. m \in SanitizerMetrics /\ m.unclosed_stream = TRUE
    BY <1>3 DEF TypeOK, SanitizerMetrics
  <2> HIDE DEF m
  <2> QED BY <1>1, <2>1, RecordedLeaves
<1> HIDE DEF m
<1>5. NoneBegins(stream, close_tag, Position, Len(buffer))
  <2>1. Len(buffer) < Len(close_tag) /\ close_tag \in Seq(Char)
    BY <1>1, SanitizerAssumption DEF IInv, HeldBackFits
  <2> DEFINE p == Position
             n == Len(buffer)
  <2>2. p \in Nat /\ n \in Nat /\ p + n = Len(stream) /\ n < Len(close_tag)
    BY <1>3, <2>1
  <2> HIDE DEF p, n
  <2>3. NoneBegins(stream, close_tag, p, n)
    BY <1>3, <2>1, <2>2, NoneBeginsAtTheEnd
  <2> QED BY <2>3 DEF p, n
<1>6. First(buffer, Len(buffer)) = buffer
  BY <1>3, SubSeqFull DEF First
<1>7. \A w \in Seq(Char) : thoughts = Kept(w) => thoughts' = Kept(w \o First(buffer, Len(buffer)))
  <2>1. \A w \in Seq(Char) : thoughts = Kept(w) => thoughts' = Kept(w \o buffer)
    BY <1>1, <1>3, RecordedIsKept
  <2> QED BY <1>6, <2>1, Zenon
<1>8. Agrees(began, stream, Position, "THINKING", visible, thoughts)
  <2>1. visible \o visible_out = visible
    BY <1>2, <1>3, ConcatEmptySeq
  <2> QED BY <1>1, <1>3, <2>1
<1>9. Agrees(began, stream, Position + Len(buffer), "THINKING", visible, thoughts')
  <2> DEFINE p == Position
             n == Len(buffer)
  <2>1. p \in Nat /\ n \in Nat /\ n <= Len(buffer)
    BY <1>3
  <2>2. /\ Lies(stream, p, buffer) /\ Agrees(began, stream, p, "THINKING", visible, thoughts)
        /\ NoneBegins(stream, close_tag, p, n)
        /\ \A w \in Seq(Char) : thoughts = Kept(w) => thoughts' = Kept(w \o First(buffer, n))
    BY <1>3, <1>5, <1>7, <1>8
  <2> HIDE DEF p, n
  <2>3. Agrees(began, stream, p + n, "THINKING", visible, thoughts')
    BY <1>3, <2>1, <2>2, ThinkAgrees
  <2> QED BY <2>3 DEF p, n
<1>10. Agrees(began', stream', Len(stream'), state', visible', thoughts')
  <2>1. Position + Len(buffer) = Len(stream)
    BY <1>3
  <2>2. Agrees(began, stream, Len(stream), "THINKING", visible, thoughts')
    BY <1>9, <2>1, Zenon
  <2> QED BY <1>1, <2>2, Zenon
<1> QED BY <1>1, <1>4, <1>10 DEF RInv, ReadToTheEnd

\* A flush outside a thought makes visible what was held back.
LEMMA FlushEmittingReads ==
  ASSUME IInv, RInv, FlushEmitting PROVE RInv'
<1>1. /\ phase = "idle" /\ state = "EMITTING" /\ phase' = "flushed" /\ visible' = visible \o buffer
      /\ UNCHANGED <<state, thoughts, stream, began>>
      /\ metrics'.unclosed_stream = metrics.unclosed_stream
  BY DEF FlushEmitting, IInv, TypeOK, SanitizerMetrics
<1>2. text = <<>> /\ visible_out = <<>>
  BY <1>1 DEF IInv, TypeOK
<1>3. /\ TypeOK /\ metrics.unclosed_stream = FALSE
      /\ began \in State /\ stream \in Seq(Char) /\ buffer \in Seq(Char)
      /\ visible \in Seq(Char) /\ visible_out \in Seq(Char)
      /\ Len(buffer) \in Nat /\ Position \in Nat /\ Position + Len(buffer) = Len(stream)
      /\ Lies(stream, Position, buffer)
      /\ Agrees(began, stream, Position, state, visible \o visible_out, thoughts)
  BY <1>1, <1>2, BetweenChunks
<1>5. NoneBegins(stream, open_tag, Position, Len(buffer))
  <2>1. Len(buffer) < Len(open_tag) /\ open_tag \in Seq(Char)
    BY <1>1, SanitizerAssumption DEF IInv, HeldBackFits
  <2> DEFINE p == Position
             n == Len(buffer)
  <2>2. p \in Nat /\ n \in Nat /\ p + n = Len(stream) /\ n < Len(open_tag)
    BY <1>3, <2>1
  <2> HIDE DEF p, n
  <2>3. NoneBegins(stream, open_tag, p, n)
    BY <1>3, <2>1, <2>2, NoneBeginsAtTheEnd
  <2> QED BY <2>3 DEF p, n
<1>6. First(buffer, Len(buffer)) = buffer
  BY <1>3, SubSeqFull DEF First
<1>8. Agrees(began, stream, Position, "EMITTING", visible, thoughts)
  <2>1. visible \o visible_out = visible
    BY <1>2, <1>3, ConcatEmptySeq
  <2> QED BY <1>1, <1>3, <2>1
<1>9. Agrees(began, stream, Position + Len(buffer), "EMITTING", visible \o First(buffer, Len(buffer)), thoughts)
  <2> DEFINE p == Position
             n == Len(buffer)
  <2>1. p \in Nat /\ n \in Nat /\ n <= Len(buffer)
    BY <1>3
  <2>2. /\ Lies(stream, p, buffer) /\ Agrees(began, stream, p, "EMITTING", visible, thoughts)
        /\ NoneBegins(stream, open_tag, p, n)
    BY <1>3, <1>5, <1>8
  <2> HIDE DEF p, n
  <2>3. Agrees(began, stream, p + n, "EMITTING", visible \o First(buffer, n), thoughts)
    BY <1>3, <2>1, <2>2, EmitAgrees
  <2> QED BY <2>3 DEF p, n
<1>10. Agrees(began', stream', Len(stream'), state', visible', thoughts')
  <2>1. Position + Len(buffer) = Len(stream)
    BY <1>3
  <2>2. Agrees(began, stream, Len(stream), "EMITTING", visible \o buffer, thoughts)
    BY <1>6, <1>9, <2>1, Zenon
  <2> QED BY <1>1, <2>2, Zenon
<1> QED BY <1>1, <1>3, <1>10 DEF RInv, ReadToTheEnd

\* Before any chunk nothing has been read.
LEMMA InitReads == Init => RInv
<1> SUFFICES ASSUME Init PROVE RInv
  OBVIOUS
<1>1. /\ phase = "idle" /\ began = state /\ state \in State /\ buffer = <<>> /\ text = <<>>
      /\ visible_out = <<>> /\ visible = <<>> /\ thoughts = <<>> /\ stream = <<>>
      /\ metrics.unclosed_stream = FALSE
  BY DEF Init
<1>2. /\ <<>> \in Seq(Char) /\ Len(<<>>) = 0
  BY EmptySeq
<1>3. Position = 0
  <2>1. Len(stream) = 0 /\ Len(buffer) = 0 /\ Len(text) = 0
    BY <1>1, <1>2, Zenon
  <2> QED BY <2>1 DEF Position
<1>4. Lies(stream, Position, buffer) /\ Lies(stream, Position, text)
  <2>1. 0 \in 0 .. Len(<<>>)
    BY <1>2
  <2>2. Lies(<<>>, 0, <<>>)
    BY <1>2, <2>1, NothingLies
  <2> QED BY <1>1, <1>3, <2>2, Zenon
<1>5. Kept(<<>>) = <<>>
  <2>1. (IF Len(<<>>) <= max_thought_chars THEN Len(<<>>) ELSE max_thought_chars) = 0
    BY <1>2, SanitizerAssumption
  <2>2. First(<<>>, 0) = <<>>
    BY SubSeqEmpty DEF First
  <2> QED BY <2>1, <2>2, Zenon DEF Kept
<1>6. ASSUME NEW t \in Seq(Char)
      PROVE  Agrees(began, stream \o t, Position, state, visible \o visible_out, thoughts)
  <2>1. stream \o t = t /\ visible \o visible_out = <<>>
    BY <1>1, <1>2, ConcatEmptySeq
  <2>2. Reading(began, t)[0] = Unread(began)
    BY ReadingIs
  <2>3. Agrees(began, t, 0, state, <<>>, <<>>)
    <3> DEFINE R == Reading(began, t)
    <3>1. R[0] = Unread(began)
      BY <2>2
    <3> HIDE DEF R
    <3>2. /\ R[0].skip = 0 /\ R[0].state = state /\ R[0].visible = <<>> /\ R[0].thought = <<>>
      BY <1>1, <3>1 DEF Unread
    <3>3. /\ R[0].skip = 0 /\ R[0].state = state /\ R[0].visible = <<>> /\ <<>> = Kept(R[0].thought)
      BY <1>5, <3>2
    <3> QED BY <3>3 DEF Agrees, R
  <2> QED BY <1>1, <1>3, <2>1, <2>3, Zenon
<1>7. ReadSoFar
  BY <1>4, <1>6 DEF ReadSoFar
<1> QED BY <1>1, <1>7 DEF RInv

\* Every step keeps the parser where the reader is.
LEMMA StepReads == TagsApart /\ IInv /\ RInv /\ [Next]_vars => RInv'
<1> SUFFICES ASSUME TagsApart, IInv, RInv, [Next]_vars PROVE RInv'
  OBVIOUS
<1>1. ASSUME NEW chunk \in Chunk, Feed(chunk) PROVE RInv'
  BY <1>1, FeedReads
<1>2. CASE EmitUpToOpen
  BY <1>2, EmitUpToOpenReads
<1>3. CASE EmitUpToClose
  BY <1>3, EmitUpToCloseReads
<1>4. CASE EmitRest
  BY <1>4, EmitRestReads
<1>5. CASE ThinkUpToClose
  BY <1>5, ThinkUpToCloseReads
<1>6. CASE ThinkRest
  BY <1>6, ThinkRestReads
<1>7. CASE Return
  BY <1>7, ReturnReads
<1>8. CASE FlushThinking
  BY <1>8, FlushThinkingReads
<1>9. CASE FlushEmitting
  BY <1>9, FlushEmittingReads
<1>10. CASE UNCHANGED vars
  BY <1>10 DEF RInv, ReadSoFar, ReadToTheEnd, Position, vars
<1> QED BY <1>1, <1>2, <1>3, <1>4, <1>5, <1>6, <1>7, <1>8, <1>9, <1>10 DEF Next

\* However a model's answer is cut into chunks, feed and flush return what a
\* reader of the whole answer sees, keep the first max_thought_chars of what it
\* thinks, and report an unclosed thought when it ends in one, provided every
\* closing tag closes a thought and none lies inside the opening tag.
THEOREM ChunkingIsInvisible ==
  ASSUME TagsApart PROVE Spec => []ChunkingDoesNotShow
<1>1. IInv /\ RInv => ChunkingDoesNotShow
  <2> SUFFICES ASSUME RInv, phase = "flushed"
               PROVE  LET whole == Reading(began, stream)[Len(stream)]
                          kept == IF Len(whole.thought) <= max_thought_chars
                                    THEN Len(whole.thought) ELSE max_thought_chars
                      IN whole.unopened = 0 =>
                           /\ visible = whole.visible
                           /\ thoughts = First(whole.thought, kept)
                           /\ metrics.unclosed_stream = (whole.state = "THINKING")
    BY DEF ChunkingDoesNotShow
  <2> DEFINE whole == Reading(began, stream)[Len(stream)]
  <2> SUFFICES ASSUME whole.unopened = 0
               PROVE  /\ visible = whole.visible /\ thoughts = Kept(whole.thought)
                      /\ metrics.unclosed_stream = (whole.state = "THINKING")
    BY DEF Kept
  <2>1. /\ whole.state = state /\ visible = whole.visible /\ thoughts = Kept(whole.thought)
    BY DEF RInv, ReadToTheEnd, Agrees
  <2>2. metrics.unclosed_stream = (state = "THINKING")
    BY DEF RInv, ReadToTheEnd
  <2> QED BY <2>1, <2>2
<1>2. Init => IInv /\ RInv
  BY InitSound, InitReads
<1>3. IInv /\ RInv /\ [Next]_vars => IInv' /\ RInv'
  BY StepSound, StepReads
<1> QED BY <1>1, <1>2, <1>3, PTL DEF Spec
=============================================================================
