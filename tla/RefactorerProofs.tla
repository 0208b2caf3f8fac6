-------------------------- MODULE RefactorerProofs --------------------------
(***************************************************************************)
(* Whatever the refactorer makes of a function that lends itself to its    *)
(* strategy does what the function did: what statements do one after       *)
(* another, what each of the four transformations makes of them, and that  *)
(* it is a function again.                                                 *)
(***************************************************************************)
EXTENDS AstRefactorer, BatchProofs

\* What a statement can do: what it leaves in the trace, and how it ends, if it does.
Outcome == [trace : Seq(Nat), result : Literals \cup {Unset}]

LEMMA OutcomesAreRecords ==
  ASSUME NEW r \in Outcome
  PROVE  /\ r = [trace |-> r.trace, result |-> r.result]
         /\ r.trace \in Seq(Nat) /\ r.result \in Literals \cup {Unset}
BY DEF Outcome

\* One thing after another is one thing.
LEMMA OneAfterAnother ==
  ASSUME NEW a \in Outcome, NEW b \in Outcome
  PROVE  /\ AndThen(a, b) \in Outcome /\ Silent \in Outcome
         /\ AndThen(Silent, a) = a /\ AndThen(a, Silent) = a
         /\ a.result # Unset => AndThen(a, b) = a
<1>1. a = [trace |-> a.trace, result |-> a.result] /\ a.trace \in Seq(Nat) /\ a.result \in Literals \cup {Unset}
  BY OutcomesAreRecords
<1>2. b.trace \in Seq(Nat) /\ b.result \in Literals \cup {Unset}
  BY OutcomesAreRecords
<1>3. a.trace \o b.trace \in Seq(Nat) /\ a.trace \o <<>> = a.trace /\ <<>> \o a.trace = a.trace /\ <<>> \in Seq(Nat)
  BY <1>1, <1>2, ConcatProperties, ConcatEmptySeq, EmptySeq
<1>4. AndThen(a, b) \in Outcome /\ Silent \in Outcome
  BY <1>1, <1>2, <1>3 DEF AndThen, Silent, Outcome
<1>5. AndThen(Silent, a) = [trace |-> <<>> \o a.trace, result |-> a.result]
  BY DEF AndThen, Silent
<1>6. a.result = Unset => AndThen(a, Silent) = [trace |-> a.trace \o <<>>, result |-> Unset]
  BY DEF AndThen, Silent
<1>7. a.result # Unset => AndThen(a, Silent) = a /\ AndThen(a, b) = a
  BY DEF AndThen
<1> QED BY <1>1, <1>3, <1>4, <1>5, <1>6, <1>7

LEMMA InWhateverGrouping ==
  ASSUME NEW a \in Outcome, NEW b \in Outcome, NEW c \in Outcome
  PROVE  AndThen(AndThen(a, b), c) = AndThen(a, AndThen(b, c))
<1>1. a.trace \in Seq(Nat) /\ b.trace \in Seq(Nat) /\ c.trace \in Seq(Nat)
  BY OutcomesAreRecords
<1>2. (a.trace \o b.trace) \o c.trace = a.trace \o (b.trace \o c.trace)
  <2>1. \A s, t, u \in Seq(Nat) : (s \o t) \o u = s \o (t \o u)
    BY ConcatAssociative
  <2> QED BY <1>1, <2>1, Zenon
<1>3. CASE a.result # Unset
  BY <1>3 DEF AndThen
<1>4. CASE a.result = Unset /\ b.result # Unset
  BY <1>4 DEF AndThen
<1>5. CASE a.result = Unset /\ b.result = Unset
  <2>1. AndThen(a, b) = [trace |-> a.trace \o b.trace, result |-> b.result]
    BY <1>5 DEF AndThen
  <2>2. AndThen(b, c) = [trace |-> b.trace \o c.trace, result |-> c.result]
    BY <1>5 DEF AndThen
  <2>3. AndThen(AndThen(a, b), c) = [trace |-> (a.trace \o b.trace) \o c.trace, result |-> c.result]
    BY <1>5, <2>1 DEF AndThen
  <2>4. AndThen(a, AndThen(b, c)) = [trace |-> a.trace \o (b.trace \o c.trace), result |-> c.result]
    BY <1>5, <2>2 DEF AndThen
  <2> QED BY <1>2, <2>3, <2>4
<1> QED BY <1>3, <1>4, <1>5

\* What has been done after each turn.
TurnsBy(outs, g) ==
  /\ g[0] = Silent /\ \A i \in DOMAIN outs : g[i] = AndThen(g[i - 1], outs[i])
  /\ InTurn(outs) = g[Len(outs)]

LEMMA TurnsExist ==
  ASSUME NEW outs \in Seq(Outcome)
  PROVE  \E g : TurnsBy(outs, g)
<1> DEFINE T == Outcome
           Eq(h) == h = [s \in SUBSET DOMAIN outs |->
                           IF s = {} THEN Silent ELSE AndThen(h[s \ {Max(s)}], outs[Max(s)])]
           it == CHOOSE h : Eq(h)
           step == [p \in T \X T |-> AndThen(p[1], p[2])]
<1>1. Len(outs) \in Nat /\ DOMAIN outs = 1 .. Len(outs) /\ \A i \in DOMAIN outs : outs[i] \in T
  BY LenProperties, ElementOfSeq
<1>2. Silent \in T /\ \A a, b \in T : AndThen(a, b) \in T
  BY OneAfterAnother DEF Outcome, Silent
<1>3. step \in [T \X T -> T] /\ \A a, b \in T : step[<<a, b>>] = AndThen(a, b)
  <2> HIDE DEF T
  <2> QED BY <1>2
<1>4. \E h : Eq(h)
  <2> HIDE DEF step
  <2>1. PICK h \in [SUBSET DOMAIN outs -> T] :
          \A s \in SUBSET DOMAIN outs : h[s] = IF s = {} THEN Silent ELSE step[<<h[s \ {Max(s)}], outs[Max(s)]>>]
    <3> HIDE DEF T
    <3>1. outs \in Seq(T)
      BY DEF T
    <3>2. HasTable(T, Silent, outs, step)
      BY <1>2, <1>3, <3>1, FoldTable
    <3> QED BY <3>2 DEF HasTable
  <2> HIDE DEF T
  <2>2. ASSUME NEW s \in SUBSET DOMAIN outs, s # {}
        PROVE  h[s] = AndThen(h[s \ {Max(s)}], outs[Max(s)])
    <3>1. Max(s) \in s /\ s \in SUBSET (1 .. Len(outs))
      <4>1. s \in SUBSET (1 .. Len(outs))
        BY <1>1
      <4> QED BY <1>1, <2>2, <4>1, LastIsMax
    <3>2. h[s \ {Max(s)}] \in T /\ outs[Max(s)] \in T
      BY <1>1, <3>1
    <3> QED BY <1>3, <2>1, <2>2, <3>2
  <2> QED BY <2>1, <2>2
<1>5. Eq(it)
  <2> HIDE DEF Eq
  <2> QED BY <1>4, Zenon
<1>6. InTurn(outs) = it[DOMAIN outs]
  BY Zenon DEF InTurn, FoldLeft, MapThenFoldSet
<1> HIDE DEF it
<1> DEFINE g == [i \in 0 .. Len(outs) |-> it[1 .. i]]
<1>7. g[0] = Silent
  <2>1. {} \in SUBSET DOMAIN outs /\ 1 .. 0 = {} /\ 0 \in 0 .. Len(outs)
    BY <1>1
  <2>2. it[{}] = Silent
    BY <1>5, <2>1
  <2> QED BY <2>1, <2>2
<1>8. ASSUME NEW i \in DOMAIN outs PROVE g[i] = AndThen(g[i - 1], outs[i])
  <2>1. /\ i - 1 \in 0 .. Len(outs) /\ i \in 0 .. Len(outs) /\ 1 .. i \in SUBSET DOMAIN outs /\ 1 .. i # {}
        /\ Max(1 .. i) = i /\ (1 .. i) \ {i} = 1 .. (i - 1)
    BY <1>1, Prefix, SMTT(30)
  <2>2. it[1 .. i] = AndThen(it[1 .. (i - 1)], outs[i])
    BY <1>5, <2>1
  <2> QED BY <2>1, <2>2
<1>9. InTurn(outs) = g[Len(outs)]
  BY <1>1, <1>6
<1> HIDE DEF g
<1> QED BY <1>7, <1>8, <1>9 DEF TurnsBy

LEMMA TurnsAreOutcomes ==
  ASSUME NEW outs \in Seq(Outcome), NEW g, TurnsBy(outs, g)
  PROVE  \A i \in 0 .. Len(outs) : g[i] \in Outcome
<1> DEFINE G == {i \in 0 .. Len(outs) : g[i] \in Outcome}
<1>1. Len(outs) \in Nat /\ DOMAIN outs = 1 .. Len(outs) /\ \A i \in DOMAIN outs : outs[i] \in Outcome
  BY LenProperties, ElementOfSeq
<1>2. Silent \in Outcome /\ \A a, b \in Outcome : AndThen(a, b) \in Outcome
  BY OneAfterAnother DEF Outcome, Silent
<1>3. 0 \in G
  BY <1>1, <1>2 DEF TurnsBy
<1>4. ASSUME NEW i \in 1 .. Len(outs), i - 1 \in G PROVE i \in G
  <2>1. g[i - 1] \in Outcome /\ i \in DOMAIN outs /\ i \in 0 .. Len(outs)
    BY <1>1, <1>4
  <2>2. g[i] = AndThen(g[i - 1], outs[i])
    BY <2>1 DEF TurnsBy
  <2>3. g[i] \in Outcome
    BY <1>1, <1>2, <2>1, <2>2
  <2> QED BY <2>1, <2>3
<1>5. \A i \in 0 .. Len(outs) : i \in G
  <2> HIDE DEF G
  <2> QED BY <1>1, <1>3, <1>4, UpTo
<1> QED BY <1>5

LEMMA TurnsStart ==
  /\ Silent \in Outcome /\ InTurn(<<>>) = Silent
  /\ \A outs \in Seq(Outcome) : InTurn(outs) \in Outcome
<1>1. Silent \in Outcome
  BY EmptySeq DEF Outcome, Silent
<1>2. InTurn(<<>>) = Silent
  <2>1. <<>> \in Seq(Outcome) /\ Len(<<>>) = 0
    BY EmptySeq
  <2>2. PICK g : TurnsBy(<<>>, g)
    BY <2>1, TurnsExist
  <2> QED BY <2>1, <2>2 DEF TurnsBy
<1>3. ASSUME NEW outs \in Seq(Outcome) PROVE InTurn(outs) \in Outcome
  <2>1. PICK g : TurnsBy(outs, g)
    BY TurnsExist
  <2>2. Len(outs) \in 0 .. Len(outs)
    BY LenProperties
  <2> QED BY <2>1, <2>2, TurnsAreOutcomes DEF TurnsBy
<1> QED BY <1>1, <1>2, <1>3

\* What comes last is done last.
LEMMA TurnLast ==
  ASSUME NEW outs \in Seq(Outcome), NEW r \in Outcome
  PROVE  InTurn(Append(outs, r)) = AndThen(InTurn(outs), r)
<1> DEFINE n == Len(outs)
           more == Append(outs, r)
<1>1. /\ n \in Nat /\ more \in Seq(Outcome) /\ Len(more) = n + 1 /\ DOMAIN more = 1 .. (n + 1) /\ DOMAIN outs = 1 .. n
      /\ (\A i \in 1 .. n : more[i] = outs[i]) /\ more[n + 1] = r
  BY LenProperties, AppendProperties
<1> HIDE DEF more
<1>2. PICK g : TurnsBy(more, g)
  BY <1>1, TurnsExist
<1>3. PICK h : TurnsBy(outs, h)
  BY TurnsExist
<1> DEFINE G == {i \in 0 .. n : g[i] = h[i]}
<1> HIDE DEF n
<1>4. 0 \in G
  BY <1>1, <1>2, <1>3 DEF TurnsBy
<1>5. ASSUME NEW i \in 1 .. n, i - 1 \in G PROVE i \in G
  <2>1. i \in DOMAIN more /\ i \in DOMAIN outs /\ i \in 0 .. n
    BY <1>1
  <2>2. g[i] = AndThen(g[i - 1], more[i]) /\ h[i] = AndThen(h[i - 1], outs[i])
    BY <1>2, <1>3, <2>1 DEF TurnsBy
  <2> QED BY <1>1, <1>5, <2>1, <2>2
<1>6. g[n] = h[n]
  <2> HIDE DEF G
  <2>1. \A i \in 0 .. n : i \in G
    BY <1>1, <1>4, <1>5, UpTo
  <2>2. n \in G
    BY <1>1, <2>1
  <2> QED BY <2>2 DEF G
<1>7. g[n + 1] = AndThen(g[n], r)
  <2>1. n + 1 \in DOMAIN more /\ (n + 1) - 1 = n
    BY <1>1
  <2>2. g[n + 1] = AndThen(g[(n + 1) - 1], more[n + 1])
    BY <1>2, <2>1 DEF TurnsBy
  <2> QED BY <1>1, <2>1, <2>2
<1> QED BY <1>1, <1>2, <1>3, <1>6, <1>7 DEF TurnsBy, more, n
LEMMA EndOf ==
  ASSUME NEW S, NEW seq \in Seq(S), NEW k \in Nat, k <= Len(seq)
  PROVE  /\ SubSeq(seq, k + 1, Len(seq)) \in Seq(S) /\ Len(SubSeq(seq, k + 1, Len(seq))) = Len(seq) - k
         /\ \A i \in 1 .. (Len(seq) - k) : SubSeq(seq, k + 1, Len(seq))[i] = seq[k + i] /\ k + i \in 1 .. Len(seq)
<1> DEFINE n == Len(seq)
           one == k + 1
<1>1. n \in Nat /\ one \in Int /\ n \in Int /\ \A i \in one .. n : seq[i] \in S
  BY ElementOfSeq, LenProperties
<1>2. n - one + 1 = n - k /\ (IF one <= n THEN n - one + 1 ELSE 0) = n - k
      /\ \A i \in 1 .. (n - k) : one + i - 1 = k + i /\ k + i \in 1 .. n
  BY <1>1
<1> HIDE DEF one, n
<1>3. /\ SubSeq(seq, one, n) \in Seq(S) /\ Len(SubSeq(seq, one, n)) = IF one <= n THEN n - one + 1 ELSE 0
      /\ \A i \in 1 .. (n - one + 1) : SubSeq(seq, one, n)[i] = seq[one + i - 1]
  BY <1>1, SubSeqProperties
<1>4. /\ SubSeq(seq, one, n) \in Seq(S) /\ Len(SubSeq(seq, one, n)) = n - k
      /\ \A i \in 1 .. (n - k) : SubSeq(seq, one, n)[i] = seq[k + i]
  BY <1>2, <1>3
<1> QED BY <1>2, <1>4 DEF one, n

LEMMA TurnOne ==
  ASSUME NEW r \in Outcome
  PROVE  InTurn(<<r>>) = r /\ <<r>> \in Seq(Outcome)
<1>1. <<>> \in Seq(Outcome) /\ <<r>> = Append(<<>>, r) /\ <<r>> \in Seq(Outcome)
  BY EmptySeq, AppendProperties
<1>2. InTurn(<<r>>) = AndThen(Silent, r)
  BY <1>1, TurnLast, TurnsStart
<1> QED BY <1>1, <1>2, OneAfterAnother

LEMMA TurnsConcat ==
  ASSUME NEW s \in Seq(Outcome), NEW t \in Seq(Outcome)
  PROVE  s \o t \in Seq(Outcome) /\ InTurn(s \o t) = AndThen(InTurn(s), InTurn(t))
<1> DEFINE Q(u) == InTurn(s \o u) = AndThen(InTurn(s), InTurn(u))
           G == {n \in Nat : \A u \in Seq(Outcome) : Len(u) = n => Q(u)}
<1>1. InTurn(s) \in Outcome
  BY TurnsStart
<1>2. 0 \in G
  <2>1. ASSUME NEW u \in Seq(Outcome), Len(u) = 0 PROVE Q(u)
    <3>1. u = <<>> /\ s \o u = s
      BY <2>1, EmptySeq, ConcatEmptySeq
    <3> QED BY <1>1, <3>1, TurnsStart, OneAfterAnother
  <2> HIDE DEF Q
  <2> QED BY <2>1
<1>3. ASSUME NEW n \in G PROVE n + 1 \in G
  <2>1. ASSUME NEW u \in Seq(Outcome), Len(u) = n + 1 PROVE Q(u)
    <3>1. u # <<>> /\ n \in Nat
      BY <2>1, EmptySeq
    <3>2. PICK v \in Seq(Outcome), r \in Outcome : u = Append(v, r)
      BY <3>1, SequenceEmptyOrAppend
    <3>3. Len(v) = n
      BY <2>1, <3>1, <3>2, AppendProperties, LenProperties
    <3>4. InTurn(s \o v) = AndThen(InTurn(s), InTurn(v))
      BY <1>3, <3>3
    <3>5. s \o v \in Seq(Outcome) /\ s \o u = Append(s \o v, r)
      <4>1. <<r>> \in Seq(Outcome) /\ u = v \o <<r>> /\ s \o v \in Seq(Outcome)
        BY <3>2, AppendIsConcat, ConcatProperties, TurnOne
      <4>2. s \o (v \o <<r>>) = (s \o v) \o <<r>>
        <5> DEFINE w == <<r>>
        <5>1. w \in Seq(Outcome)
          BY <4>1
        <5> HIDE DEF w
        <5>2. s \o (v \o w) = (s \o v) \o w
          BY <5>1, ConcatAssociative
        <5> QED BY <5>2 DEF w
      <4>3. (s \o v) \o <<r>> = Append(s \o v, r)
        BY <4>1, AppendIsConcat
      <4> QED BY <4>1, <4>2, <4>3
    <3>6. InTurn(s \o u) = AndThen(AndThen(InTurn(s), InTurn(v)), r)
      BY <3>4, <3>5, TurnLast
    <3>7. InTurn(u) = AndThen(InTurn(v), r) /\ InTurn(v) \in Outcome
      BY <3>2, TurnLast, TurnsStart
    <3> QED BY <1>1, <3>6, <3>7, InWhateverGrouping
  <2> HIDE DEF Q
  <2> QED BY <1>3, <2>1
<1>4. G = Nat
  <2> HIDE DEF G
  <2>1. G \in SUBSET Nat
    BY DEF G
  <2> QED BY <1>2, <1>3, <2>1, Induction
<1>5. Q(t)
  <2> HIDE DEF Q
  <2>1. Len(t) \in Nat
    BY LenProperties
  <2> QED BY <1>4, <2>1
<1> QED BY <1>5, ConcatProperties

\* What has been done before one, it, and what is done after it.
LEMMA TurnsSplit ==
  ASSUME NEW outs \in Seq(Outcome), NEW i \in 1 .. Len(outs)
  PROVE  LET before == InTurn(SubSeq(outs, 1, i - 1))
             after == InTurn(SubSeq(outs, i + 1, Len(outs)))
         IN /\ before \in Outcome /\ after \in Outcome /\ outs[i] \in Outcome
            /\ InTurn(outs) = AndThen(AndThen(before, outs[i]), after)
<1> DEFINE n == Len(outs)
           front == SubSeq(outs, 1, i - 1)
           rest == SubSeq(outs, i + 1, n)
           one == <<outs[i]>>
<1>1. /\ n \in Nat /\ i - 1 \in Nat /\ i \in Nat /\ i - 1 <= n /\ i <= n /\ outs[i] \in Outcome
      /\ \A j \in 1 .. n : j \in 1 .. (i - 1) \/ j = i \/ j - i \in 1 .. (n - i)
  BY LenProperties, ElementOfSeq
<1>2. front \in Seq(Outcome) /\ Len(front) = i - 1 /\ \A j \in 1 .. (i - 1) : front[j] = outs[j]
  BY <1>1, BeginningOf
<1>3. rest \in Seq(Outcome) /\ Len(rest) = n - i /\ \A j \in 1 .. (n - i) : rest[j] = outs[i + j]
  BY <1>1, EndOf
<1>4. one \in Seq(Outcome) /\ Len(one) = 1 /\ one[1] = outs[i] /\ InTurn(one) = outs[i]
  BY <1>1, TurnOne
<1> HIDE DEF front, rest, one
<1> DEFINE first == front \o one
           all == first \o rest
<1>5. /\ first \in Seq(Outcome) /\ Len(first) = i
      /\ \A j \in 1 .. i : first[j] = IF j <= i - 1 THEN front[j] ELSE one[j - (i - 1)]
  <2>1. Len(front) + Len(one) = i
    BY <1>1, <1>2, <1>4
  <2>2. /\ first \in Seq(Outcome) /\ Len(first) = Len(front) + Len(one)
        /\ \A j \in 1 .. (Len(front) + Len(one)) :
             first[j] = IF j <= Len(front) THEN front[j] ELSE one[j - Len(front)]
    BY <1>2, <1>4, ConcatProperties
  <2> HIDE DEF first, n
  <2> QED BY <1>2, <2>1, <2>2
<1> HIDE DEF first
<1>6. /\ all \in Seq(Outcome) /\ Len(all) = n
      /\ \A j \in 1 .. n : all[j] = IF j <= i THEN first[j] ELSE rest[j - i]
  <2>1. Len(first) + Len(rest) = n
    BY <1>1, <1>3, <1>5
  <2>2. /\ all \in Seq(Outcome) /\ Len(all) = Len(first) + Len(rest)
        /\ \A j \in 1 .. (Len(first) + Len(rest)) :
             all[j] = IF j <= Len(first) THEN first[j] ELSE rest[j - Len(first)]
    BY <1>3, <1>5, ConcatProperties
  <2> HIDE DEF all, n
  <2> QED BY <1>5, <2>1, <2>2
<1> HIDE DEF all
<1>7. ASSUME NEW j \in 1 .. n PROVE all[j] = outs[j]
  <2>1. CASE j \in 1 .. (i - 1)
    <3>1. j <= i /\ j <= i - 1 /\ j \in 1 .. i
      BY <1>1, <2>1
    <3>2. all[j] = first[j] /\ first[j] = front[j] /\ front[j] = outs[j]
      BY <1>2, <1>5, <1>6, <2>1, <3>1
    <3> QED BY <3>2
  <2>2. CASE j = i
    <3>1. j \in 1 .. i /\ ~(j <= i - 1) /\ j - (i - 1) = 1 /\ j <= i
      BY <1>1, <2>2
    <3> QED BY <1>4, <1>5, <1>6, <2>2, <3>1
  <2>3. CASE j - i \in 1 .. (n - i)
    <3>1. ~(j <= i) /\ i + (j - i) = j
      BY <1>1, <2>3
    <3> QED BY <1>3, <1>6, <2>3, <3>1
  <2> QED BY <1>1, <2>1, <2>2, <2>3
<1>8. outs = all
  <2>1. Len(all) = Len(outs)
    BY <1>6
  <2>2. \A j \in 1 .. Len(all) : all[j] = outs[j]
    BY <1>6, <1>7
  <2> QED BY <1>6, <2>1, <2>2, SeqEqual
<1>9. InTurn(outs) = AndThen(AndThen(InTurn(front), outs[i]), InTurn(rest))
  <2>1. InTurn(first \o rest) = AndThen(InTurn(first), InTurn(rest))
    BY <1>3, <1>5, TurnsConcat
  <2>2. InTurn(front \o one) = AndThen(InTurn(front), InTurn(one))
    BY <1>2, <1>4, TurnsConcat
  <2> HIDE DEF n
  <2> QED BY <1>4, <1>8, <2>1, <2>2 DEF first, all
<1> HIDE DEF n
<1>10. InTurn(front) \in Outcome /\ InTurn(rest) \in Outcome
  BY <1>2, <1>3, TurnsStart
<1> QED BY <1>1, <1>9, <1>10 DEF front, rest, n
\* What statements do, given what each of them does.
Doing(does, stmts) == InTurn([i \in DOMAIN stmts |-> does[stmts[i]]])

LEMMA DoingIs ==
  ASSUME NEW C, NEW does \in [C -> Outcome], NEW stmts \in Seq(C)
  PROVE  /\ [i \in DOMAIN stmts |-> does[stmts[i]]] \in Seq(Outcome)
         /\ Len([i \in DOMAIN stmts |-> does[stmts[i]]]) = Len(stmts) /\ Len(stmts) \in Nat
         /\ DOMAIN stmts = 1 .. Len(stmts) /\ Doing(does, stmts) \in Outcome
<1> DEFINE n == Len(stmts)
           outs == [i \in DOMAIN stmts |-> does[stmts[i]]]
<1>1. n \in Nat /\ DOMAIN stmts = 1 .. n /\ \A i \in 1 .. n : stmts[i] \in C
  BY LenProperties, ElementOfSeq
<1> HIDE DEF n
<1>2. outs = [i \in 1 .. n |-> does[stmts[i]]] /\ \A i \in 1 .. n : does[stmts[i]] \in Outcome
  BY <1>1
<1>3. outs \in Seq(Outcome) /\ Len(outs) = n
  <2> HIDE DEF outs
  <2>1. outs \in [1 .. n -> Outcome]
    BY <1>2
  <2> QED BY <1>1, <2>1, IsASeq, LenProperties
<1>4. InTurn(outs) \in Outcome
  BY <1>3, TurnsStart
<1> QED BY <1>1, <1>3, <1>4 DEF Doing, n

LEMMA DoingConcat ==
  ASSUME NEW C, NEW does \in [C -> Outcome], NEW s \in Seq(C), NEW t \in Seq(C)
  PROVE  s \o t \in Seq(C) /\ Doing(does, s \o t) = AndThen(Doing(does, s), Doing(does, t))
<1> DEFINE Outs(u) == [i \in DOMAIN u |-> does[u[i]]]
           all == s \o t
<1>1. /\ all \in Seq(C) /\ Len(all) = Len(s) + Len(t) /\ Len(s) \in Nat /\ Len(t) \in Nat
      /\ \A i \in 1 .. (Len(s) + Len(t)) : all[i] = IF i <= Len(s) THEN s[i] ELSE t[i - Len(s)]
  BY ConcatProperties, LenProperties
<1> HIDE DEF all
<1>2. ASSUME NEW u \in Seq(C)
      PROVE  /\ Outs(u) \in Seq(Outcome) /\ Len(Outs(u)) = Len(u)
             /\ \A i \in 1 .. Len(u) : Outs(u)[i] = does[u[i]]
  BY DoingIs
<1> HIDE DEF Outs
<1>3. /\ Outs(s) \o Outs(t) \in Seq(Outcome) /\ Len(Outs(s) \o Outs(t)) = Len(s) + Len(t)
      /\ \A i \in 1 .. (Len(s) + Len(t)) :
           (Outs(s) \o Outs(t))[i] = IF i <= Len(s) THEN Outs(s)[i] ELSE Outs(t)[i - Len(s)]
  <2>1. Outs(s) \in Seq(Outcome) /\ Len(Outs(s)) = Len(s) /\ Outs(t) \in Seq(Outcome) /\ Len(Outs(t)) = Len(t)
    BY <1>2
  <2>2. /\ Outs(s) \o Outs(t) \in Seq(Outcome)
        /\ Len(Outs(s) \o Outs(t)) = Len(Outs(s)) + Len(Outs(t))
        /\ \A i \in 1 .. (Len(Outs(s)) + Len(Outs(t))) :
             (Outs(s) \o Outs(t))[i] = IF i <= Len(Outs(s)) THEN Outs(s)[i] ELSE Outs(t)[i - Len(Outs(s))]
    BY <2>1, ConcatProperties
  <2> QED BY <2>1, <2>2
<1> DEFINE both == Outs(s) \o Outs(t)
<1>4. both \in Seq(Outcome) /\ Len(both) = Len(s) + Len(t)
      /\ \A i \in 1 .. (Len(s) + Len(t)) : both[i] = IF i <= Len(s) THEN Outs(s)[i] ELSE Outs(t)[i - Len(s)]
  BY <1>3
<1> HIDE DEF both
<1>5. ASSUME NEW i \in 1 .. (Len(s) + Len(t)) PROVE Outs(all)[i] = both[i]
  <2>1. Outs(all)[i] = does[all[i]]
    BY <1>1, <1>2
  <2>2. CASE i <= Len(s)
    <3>1. i \in 1 .. Len(s)
      BY <1>1, <2>2
    <3> QED BY <1>1, <1>2, <1>4, <2>1, <2>2, <3>1
  <2>3. CASE ~(i <= Len(s))
    <3>1. i - Len(s) \in 1 .. Len(t)
      BY <1>1, <2>3
    <3> QED BY <1>1, <1>2, <1>4, <2>1, <2>3, <3>1
  <2> QED BY <2>2, <2>3
<1>6. Outs(all) = both
  <2> DEFINE o == Outs(all)
  <2>1. o \in Seq(Outcome) /\ Len(o) = Len(both) /\ \A i \in 1 .. Len(o) : o[i] = both[i]
    BY <1>1, <1>2, <1>4, <1>5
  <2> HIDE DEF o
  <2>2. o = both
    BY <1>4, <2>1, SeqEqual
  <2> QED BY <2>2 DEF o
<1>7. InTurn(Outs(s) \o Outs(t)) = AndThen(InTurn(Outs(s)), InTurn(Outs(t)))
  BY <1>2, TurnsConcat
<1>8. InTurn(Outs(all)) = AndThen(InTurn(Outs(s)), InTurn(Outs(t)))
  BY <1>6, <1>7 DEF both
<1> QED BY <1>1, <1>8 DEF Doing, Outs, all

LEMMA DoingOne ==
  ASSUME NEW C, NEW does \in [C -> Outcome], NEW c \in C
  PROVE  <<c>> \in Seq(C) /\ Doing(does, <<c>>) = does[c] /\ <<>> \in Seq(C) /\ Doing(does, <<>>) = Silent
<1>1. [i \in DOMAIN <<c>> |-> does[<<c>>[i]]] = <<does[c]>>
  OBVIOUS
<1>2. [i \in DOMAIN <<>> |-> does[<<>>[i]]] = <<>>
  OBVIOUS
<1>3. does[c] \in Outcome
  OBVIOUS
<1>4. InTurn(<<does[c]>>) = does[c]
  BY <1>3, TurnOne
<1> QED BY <1>1, <1>2, <1>4, TurnsStart DEF Doing

\* What is strung together does what its parts do.
LEMMA DoingFlat ==
  ASSUME NEW C, NEW does \in [C -> Outcome], NEW blocks \in Seq(Seq(C))
  PROVE  /\ [i \in DOMAIN blocks |-> Doing(does, blocks[i])] \in Seq(Outcome)
         /\ Doing(does, FlattenSeq(blocks)) = InTurn([i \in DOMAIN blocks |-> Doing(does, blocks[i])])
<1> DEFINE Outs(bs) == [i \in DOMAIN bs |-> Doing(does, bs[i])]
           Q(bs) == Doing(does, FlattenSeq(bs)) = InTurn(Outs(bs))
           G == {n \in Nat : \A bs \in Seq(Seq(C)) : Len(bs) = n => Q(bs)}
<1>1. ASSUME NEW bs \in Seq(Seq(C))
      PROVE  /\ Outs(bs) \in Seq(Outcome) /\ Len(Outs(bs)) = Len(bs) /\ Len(bs) \in Nat /\ DOMAIN bs = 1 .. Len(bs)
             /\ \A i \in 1 .. Len(bs) : Outs(bs)[i] = Doing(does, bs[i]) /\ bs[i] \in Seq(C)
  <2> DEFINE n == Len(bs)
             outs == Outs(bs)
  <2>1. n \in Nat /\ DOMAIN bs = 1 .. n /\ \A i \in 1 .. n : bs[i] \in Seq(C)
    BY LenProperties, ElementOfSeq
  <2> HIDE DEF n
  <2>2. ASSUME NEW i \in 1 .. n PROVE Doing(does, bs[i]) \in Outcome
    BY <2>1, DoingIs
  <2>3. outs = [i \in 1 .. n |-> Doing(does, bs[i])]
    BY <2>1
  <2>4. outs \in [1 .. n -> Outcome] /\ \A i \in 1 .. n : outs[i] = Doing(does, bs[i])
    BY <2>2, <2>3
  <2> HIDE DEF outs
  <2>5. outs \in Seq(Outcome) /\ Len(outs) = n
    BY <2>1, <2>4, IsASeq, LenProperties
  <2> QED BY <2>1, <2>4, <2>5 DEF n, outs
<1>2. 0 \in G
  <2>1. ASSUME NEW bs \in Seq(Seq(C)), Len(bs) = 0 PROVE Q(bs)
    <3>1. bs = <<>>
      BY <2>1, EmptySeq
    <3>2. FlattenSeq(<<>>) = <<>>
      BY EmptySeq DEF FlattenSeq
    <3>3. Outs(<<>>) = <<>> /\ [i \in DOMAIN <<>> |-> does[<<>>[i]]] = <<>>
      OBVIOUS
    <3> QED BY <3>1, <3>2, <3>3 DEF Doing
  <2> HIDE DEF Q
  <2> QED BY <2>1
<1>3. ASSUME NEW n \in G PROVE n + 1 \in G
  <2>1. ASSUME NEW bs \in Seq(Seq(C)), Len(bs) = n + 1 PROVE Q(bs)
    <3>1. bs # <<>> /\ n \in Nat
      BY <2>1, EmptySeq
    <3>2. PICK front \in Seq(Seq(C)), last \in Seq(C) : bs = Append(front, last)
      BY <3>1, SequenceEmptyOrAppend
    <3>3. Len(front) = n /\ bs[n + 1] = last /\ \A i \in 1 .. n : bs[i] = front[i]
      BY <2>1, <3>1, <3>2, AppendProperties, LenProperties
    <3>4. Doing(does, FlattenSeq(front)) = InTurn(Outs(front))
      BY <1>3, <3>3
    <3> HIDE DEF Outs
    <3>5. FlattenSeq(front) \in Seq(C) /\ FlattenSeq(bs) = FlattenSeq(front) \o last
      BY <3>2, FlattenAppend, FlattenIsText
    <3>6. Doing(does, FlattenSeq(bs)) = AndThen(InTurn(Outs(front)), Doing(does, last))
      BY <3>2, <3>4, <3>5, DoingConcat
    <3>7. Doing(does, last) \in Outcome
      BY <3>2, DoingIs
    <3> DEFINE o == Outs(bs)
               p == Outs(front)
               q == Append(p, Doing(does, last))
    <3>8. /\ o \in Seq(Outcome) /\ Len(o) = n + 1 /\ p \in Seq(Outcome) /\ Len(p) = n
          /\ \A i \in 1 .. n : p[i] = Doing(does, front[i])
          /\ \A i \in 1 .. (n + 1) : o[i] = Doing(does, bs[i])
      BY <1>1, <2>1, <3>2, <3>3
    <3> HIDE DEF o, p
    <3>9. q \in Seq(Outcome) /\ Len(q) = n + 1 /\ (\A i \in 1 .. n : q[i] = p[i]) /\ q[n + 1] = Doing(does, last)
      BY <3>7, <3>8, AppendProperties
    <3>10. \A i \in 1 .. Len(o) : o[i] = q[i]
      <4> HIDE DEF q
      <4>1. \A i \in 1 .. (n + 1) : i \in 1 .. n \/ i = n + 1
        BY <3>1
      <4> QED BY <3>3, <3>8, <3>9, <4>1
    <3>11. o = q
      <4> HIDE DEF q
      <4> QED BY <3>8, <3>9, <3>10, SeqEqual
    <3>12. InTurn(q) = AndThen(InTurn(p), Doing(does, last))
      BY <3>7, <3>8, TurnLast
    <3> QED BY <3>6, <3>11, <3>12 DEF o, p
  <2> HIDE DEF Q
  <2> QED BY <1>3, <2>1
<1>4. G = Nat
  <2> HIDE DEF G
  <2>1. G \in SUBSET Nat
    BY DEF G
  <2> QED BY <1>2, <1>3, <2>1, Induction
<1>5. Q(blocks)
  <2> HIDE DEF Q
  <2>1. Len(blocks) \in Nat
    BY LenProperties
  <2> QED BY <1>4, <2>1
<1>6. Outs(blocks) \in Seq(Outcome)
  BY <1>1
<1> QED BY <1>5, <1>6

\* Statements of one kind, and what they do one after another.
Executed(f, env, stmts) == InTurn([i \in DOMAIN stmts |-> Outer(f, env, stmts[i])])

SimpleBlock(f, stmts) == stmts \in Seq(ToSet(stmts)) /\ \A i \in DOMAIN stmts : IsSimple(f, stmts[i])
InnerBlock(f, stmts) == stmts \in Seq(ToSet(stmts)) /\ \A i \in DOMAIN stmts : IsInner(f, stmts[i])
OuterBlock(f, stmts) == stmts \in Seq(ToSet(stmts)) /\ \A i \in DOMAIN stmts : IsOuter(f, stmts[i])

LEMMA IfsAre ==
  ASSUME NEW f, NEW stmt
  PROVE  /\ IsSimple(f, stmt) => stmt.kind # "if" /\ IsInner(f, stmt) /\ IsOuter(f, stmt)
         /\ stmt.kind # "if" => (IsInner(f, stmt) => IsSimple(f, stmt)) /\ (IsOuter(f, stmt) => IsSimple(f, stmt))
         /\ stmt.kind = "if" =>
              /\ IsInner(f, stmt) <=> /\ stmt = If(stmt.cond, stmt.body, stmt.orelse) /\ IsCond(f, stmt.cond)
                                      /\ SimpleBlock(f, stmt.body) /\ SimpleBlock(f, stmt.orelse)
              /\ IsOuter(f, stmt) <=> /\ stmt = If(stmt.cond, stmt.body, stmt.orelse) /\ IsCond(f, stmt.cond)
                                      /\ InnerBlock(f, stmt.body) /\ SimpleBlock(f, stmt.orelse)
<1>1. IsSimple(f, stmt) => stmt.kind # "if"
  BY DEF IsSimple
<1>2. IsIf(f, stmt, LAMBDA s : IsSimple(f, s)) <=>
        /\ stmt = If(stmt.cond, stmt.body, stmt.orelse) /\ IsCond(f, stmt.cond)
        /\ SimpleBlock(f, stmt.body) /\ SimpleBlock(f, stmt.orelse)
  BY DEF IsIf, IsBlock, SimpleBlock
<1>3. IsIf(f, stmt, LAMBDA s : IsInner(f, s)) <=>
        /\ stmt = If(stmt.cond, stmt.body, stmt.orelse) /\ IsCond(f, stmt.cond)
        /\ InnerBlock(f, stmt.body) /\ SimpleBlock(f, stmt.orelse)
  BY DEF IsIf, IsBlock, SimpleBlock, InnerBlock
<1>4. stmt = If(stmt.cond, stmt.body, stmt.orelse) => stmt.kind = "if"
  BY DEF If
<1>5. IsInner(f, stmt) <=> IsSimple(f, stmt) \/ IsIf(f, stmt, LAMBDA s : IsSimple(f, s))
  BY DEF IsInner
<1>6. IsOuter(f, stmt) <=> IsSimple(f, stmt) \/ IsIf(f, stmt, LAMBDA s : IsInner(f, s))
  BY DEF IsOuter
<1> QED BY <1>1, <1>2, <1>3, <1>4, <1>5, <1>6

LEMMA InnersAreOuters ==
  ASSUME NEW f, NEW stmt, IsInner(f, stmt)
  PROVE  IsOuter(f, stmt)
<1>1. CASE stmt.kind # "if"
  BY <1>1, IfsAre
<1>2. CASE stmt.kind = "if"
  <2>1. /\ stmt = If(stmt.cond, stmt.body, stmt.orelse) /\ IsCond(f, stmt.cond)
        /\ SimpleBlock(f, stmt.body) /\ SimpleBlock(f, stmt.orelse)
    BY <1>2, IfsAre
  <2>2. InnerBlock(f, stmt.body)
    BY <2>1, IfsAre DEF SimpleBlock, InnerBlock
  <2> QED BY <1>2, <2>1, <2>2, IfsAre
<1> QED BY <1>1, <1>2

\* A module, and what it has become when it has been imported.
Modules == [place : Places, imports : Outcome]

LEMMA FunctionIs ==
  ASSUME NEW f
  PROVE  IsFunction(f) <=> /\ f = [test_ |-> f.test_, body |-> f.body, table |-> f.table, helper |-> f.helper, module |-> f.module]
                           /\ f.test_ \in BOOLEAN /\ OuterBlock(f, f.body)
                           /\ f.helper \subseteq [op : DOMAIN Opposite, var : {"x", "l"}]
                           /\ (\A k \in DOMAIN f.table : f.table[k] \in Literals) /\ f.module \in Modules
BY DEF IsFunction, IsBlock, OuterBlock, Modules, Outcome

LEMMA NamesAreLiterals ==
  {"None", "NameError", "AssertionError", "SyntaxError"} \subseteq Literals \ {Unset}
BY RefactorerAssumption DEF Literals

\* To end is an outcome, with a result and nothing left.
LEMMA EndingIs ==
  ASSUME NEW r \in Literals
  PROVE  Ending(r) \in Outcome /\ Ending(r).result # Unset /\ Ending(r).trace = <<>> /\ r # Unset
BY EmptySeq, RefactorerAssumption DEF Ending, Outcome

\* What expressions do, and what constants do not.
LEMMA EvaluateDoes ==
  ASSUME NEW e, IsExpr(e), NEW scope
  PROVE  /\ Evaluate(e, scope) \in Outcome
         /\ IsQuiet(e) => Evaluate(e, Names) = Silent
         /\ IsConst(e) => Evaluate(e, scope) = Silent
<1>1. /\ e.effects \in Seq(Nat) /\ e.reads \subseteq Names /\ e.raises \in BOOLEAN
      /\ e.raises => e.value \in Literals
  BY DEF IsExpr
<1>2. Evaluate(e, scope) \in Outcome
  <2>1. Ending("NameError") \in Outcome
    BY NamesAreLiterals, EndingIs
  <2>2. [trace |-> e.effects, result |-> IF e.raises THEN e.value ELSE Unset] \in Outcome
    BY <1>1 DEF Outcome
  <2> QED BY <2>1, <2>2 DEF Evaluate
<1>3. IsQuiet(e) => Evaluate(e, Names) = Silent
  BY <1>1 DEF IsQuiet, Evaluate, Silent
<1>4. ASSUME IsConst(e) PROVE Evaluate(e, scope) = Silent
  <2>1. e.effects = <<>> /\ e.reads = {} /\ e.raises = FALSE
    BY <1>4 DEF IsConst, Const, Expr
  <2> QED BY <2>1 DEF Evaluate, Silent
<1> QED BY <1>2, <1>3, <1>4

LEMMA ReturnedDoes ==
  ASSUME NEW e, IsReturned(e)
  PROVE  /\ Returned(e) \in Outcome /\ Returned(e).result # Unset
         /\ Evaluate(e, Names) \in Outcome /\ Ending(e.value) \in Outcome
         /\ IsQuiet(e) => Evaluate(e, Names) = Silent /\ Returned(e) = Ending(e.value)
         /\ IsConst(e) => IsQuiet(e)
<1>1. IsExpr(e) /\ e.value \in Literals
  BY DEF IsReturned
<1>2. Evaluate(e, Names) \in Outcome /\ (IsQuiet(e) => Evaluate(e, Names) = Silent)
  BY <1>1, EvaluateDoes
<1>3. Ending(e.value) \in Outcome /\ Ending(e.value).result # Unset
  BY <1>1, EndingIs
<1>4. Returned(e) \in Outcome
  BY <1>2, <1>3, OneAfterAnother DEF Returned
<1>5. Returned(e).result # Unset
  BY <1>3 DEF Returned, AndThen
<1>6. IsQuiet(e) => Returned(e) = Ending(e.value)
  BY <1>2, <1>3, OneAfterAnother DEF Returned
<1>7. ASSUME IsConst(e) PROVE IsQuiet(e)
  <2>1. e.effects = <<>> /\ e.raises = FALSE
    BY <1>7 DEF IsConst, Const, Expr
  <2> QED BY <2>1 DEF IsQuiet
<1> QED BY <1>2, <1>3, <1>4, <1>5, <1>6, <1>7

LEMMA NoneIsReturned ==
  /\ IsReturned(Const("None")) /\ IsQuiet(Const("None")) /\ Returned(Const("None")) = Ending("None")
  /\ Const("None").value = "None"
<1> DEFINE none == Const("None")
<1>1. /\ none.effects = <<>> /\ none.reads = {} /\ none.raises = FALSE /\ none.value = "None"
      /\ none = Expr(none.effects, none.reads, none.raises, none.value)
  BY DEF Const, Expr
<1> HIDE DEF none
<1>2. IsReturned(none) /\ IsQuiet(none)
  BY <1>1, EmptySeq, NamesAreLiterals DEF IsReturned, IsExpr, IsQuiet
<1>3. Returned(none) = Ending("None")
  BY <1>1, <1>2, ReturnedDoes
<1> QED BY <1>1, <1>2, <1>3 DEF none

\* What does nothing in every turn does nothing.
LEMMA TurnsOfSilence ==
  ASSUME NEW n \in Nat, NEW outs \in [1 .. n -> Outcome], \A i \in 1 .. n : outs[i] = Silent
  PROVE  outs \in Seq(Outcome) /\ InTurn(outs) = Silent
<1>1. outs \in Seq(Outcome) /\ Len(outs) = n /\ DOMAIN outs = 1 .. n
  BY IsASeq, LenProperties
<1>2. PICK g : TurnsBy(outs, g)
  BY <1>1, TurnsExist
<1> DEFINE G == {i \in 0 .. n : g[i] = Silent}
<1>3. 0 \in G
  BY <1>2 DEF TurnsBy
<1>4. ASSUME NEW i \in 1 .. n, i - 1 \in G PROVE i \in G
  <2>1. g[i] = AndThen(g[i - 1], outs[i])
    BY <1>1, <1>2 DEF TurnsBy
  <2>2. g[i] = AndThen(Silent, Silent)
    BY <1>4, <2>1
  <2>3. AndThen(Silent, Silent) = Silent
    BY TurnsStart, OneAfterAnother
  <2> QED BY <2>2, <2>3
<1>5. n \in G
  <2> HIDE DEF G
  <2>1. \A i \in 0 .. n : i \in G
    BY <1>3, <1>4, UpTo
  <2> QED BY <2>1
<1> QED BY <1>1, <1>2, <1>5 DEF TurnsBy

LEMMA TurnsOf ==
  ASSUME NEW n \in Nat, NEW outs \in [1 .. n -> Outcome]
  PROVE  outs \in Seq(Outcome) /\ InTurn(outs) \in Outcome
<1>1. outs \in Seq(Outcome)
  BY IsASeq
<1> QED BY <1>1, TurnsStart

\* What goes before a function does not disturb the import, if it does nothing and
\* there is room for it.
LEMMA InsertedIs ==
  ASSUME NEW module \in Modules, NEW run \in Outcome
  PROVE  /\ Inserted(module, run) \in Modules
         /\ run = Silent /\ module.place # "future" => Inserted(module, run) = module
<1>1. /\ module = [place |-> module.place, imports |-> module.imports]
      /\ module.place \in {"top", "nested", "future"} /\ module.imports \in Outcome
  BY DEF Modules, Places
<1>2. /\ AndThen(module.imports, run) \in Outcome /\ AndThen(run, module.imports) \in Outcome
      /\ AndThen(module.imports, Silent) = module.imports /\ AndThen(Silent, module.imports) = module.imports
  BY <1>1, OneAfterAnother
<1>3. Ending("SyntaxError") \in Outcome
  BY NamesAreLiterals, EndingIs
<1> DEFINE imports == CASE module.place = "top" -> AndThen(module.imports, run)
                        [] module.place = "nested" -> AndThen(run, module.imports)
                        [] module.place = "future" -> Ending("SyntaxError")
<1>4. imports \in Outcome /\ (run = Silent /\ module.place # "future" => imports = module.imports)
  BY <1>1, <1>2, <1>3
<1>5. Inserted(module, run) = [module EXCEPT !.imports = imports]
  BY DEF Inserted
<1> HIDE DEF imports
<1>6. Inserted(module, run) = [place |-> module.place, imports |-> imports]
  BY <1>1, <1>5
<1> QED BY <1>1, <1>4, <1>6 DEF Modules, Places

\* What a simple statement does.
LEMMA SimpleDoes ==
  ASSUME NEW f, IsFunction(f), NEW env \in Env, NEW stmt, IsSimple(f, stmt)
  PROVE  /\ Simple(f, env, stmt) \in Outcome
         /\ Inner(f, env, stmt) = Simple(f, env, stmt) /\ Outer(f, env, stmt) = Simple(f, env, stmt)
<1>1. Inner(f, env, stmt) = Simple(f, env, stmt) /\ Outer(f, env, stmt) = Simple(f, env, stmt)
  <2>1. stmt.kind # "if"
    BY IfsAre
  <2> QED BY <2>1 DEF Inner, Outer, Exec
<1> SUFFICES Simple(f, env, stmt) \in Outcome
  BY <1>1
<1>2. Silent \in Outcome /\ \A r \in Literals \cup {Unset} : Ending(r) \in Outcome
  BY EmptySeq DEF Outcome, Silent, Ending
<1>3. CASE stmt.kind = "do"
  <2>1. stmt.effect \in Nat
    BY <1>3 DEF IsSimple
  <2>2. <<stmt.effect>> \in Seq(Nat)
    BY <2>1
  <2>3. Simple(f, env, stmt) = [trace |-> <<stmt.effect>>, result |-> Unset]
    BY <1>3 DEF Simple, Silent
  <2> QED BY <2>2, <2>3 DEF Outcome
<1>4. CASE stmt.kind = "return"
  <2>1. IsReturned(stmt.value) /\ Simple(f, env, stmt) = Returned(stmt.value)
    BY <1>4 DEF IsSimple, Simple
  <2> QED BY <2>1, ReturnedDoes
<1>5. CASE stmt.kind \in {"assert", "check"}
  <2>1. Simple(f, env, stmt) \in {Silent, Ending("AssertionError")}
    BY <1>5 DEF Simple
  <2> QED BY <1>2, <2>1, NamesAreLiterals
<1>6. CASE stmt.kind = "ladder"
  <2> DEFINE bs == stmt.branches
             chosen == {i \in DOMAIN bs : bs[i].key.value = env[stmt.var]}
             last == IF chosen # {} THEN Min(chosen) ELSE Len(bs)
             tried == InTurn([i \in 1 .. last |-> Evaluate(bs[i].key, Names)])
             taken == IF chosen # {} THEN Returned(bs[last].value)
                      ELSE IF stmt.fallback # Unset THEN Returned(stmt.fallback)
                      ELSE [Silent EXCEPT !.trace = stmt.rest]
  <2>1. /\ stmt.fallback = Unset \/ IsReturned(stmt.fallback)
        /\ bs \in Seq(ToSet(bs)) /\ stmt.rest \in Seq(Nat)
        /\ \A i \in DOMAIN bs : IsExpr(bs[i].key) /\ IsReturned(bs[i].value)
    BY <1>6 DEF IsSimple
  <2>2. Simple(f, env, stmt) = AndThen(tried, taken)
    BY <1>6 DEF Simple
  <2>3. DOMAIN bs = 1 .. Len(bs) /\ Len(bs) \in Nat
    BY <2>1, LenProperties
  <2>4. chosen \in SUBSET Nat /\ chosen \subseteq DOMAIN bs
    BY <2>3
  <2>5. /\ last \in Nat /\ last <= Len(bs)
        /\ chosen # {} => last \in DOMAIN bs
    <3> HIDE DEF chosen, bs
    <3>1. chosen # {} => Min(chosen) \in DOMAIN bs
      BY <2>4, FirstIsMin
    <3> QED BY <2>3, <3>1
  <2> HIDE DEF chosen, last
  <2>6. tried \in Outcome
    <3> HIDE DEF bs
    <3> DEFINE keys == [i \in 1 .. last |-> Evaluate(bs[i].key, Names)]
    <3>1. \A i \in 1 .. last : Evaluate(bs[i].key, Names) \in Outcome
      BY <2>1, <2>3, <2>5, EvaluateDoes
    <3>2. keys \in [1 .. last -> Outcome]
      BY <3>1
    <3> HIDE DEF keys
    <3>3. InTurn(keys) \in Outcome
      BY <2>5, <3>2, TurnsOf
    <3> QED BY <3>3 DEF keys
  <2> HIDE DEF tried
  <2>7. taken \in Outcome
    <3>1. [Silent EXCEPT !.trace = stmt.rest] \in Outcome
      BY <2>1 DEF Silent, Outcome
    <3>2. chosen # {} => Returned(bs[last].value) \in Outcome
      BY <2>1, <2>5, ReturnedDoes
    <3>3. stmt.fallback # Unset => Returned(stmt.fallback) \in Outcome
      BY <2>1, ReturnedDoes
    <3> QED BY <3>1, <3>2, <3>3
  <2> HIDE DEF taken
  <2> QED BY <2>2, <2>6, <2>7, OneAfterAnother
<1>7. CASE stmt.kind = "lookup"
  <2> DEFINE found == IF env[stmt.var] \in DOMAIN f.table THEN f.table[env[stmt.var]] ELSE stmt.fallback.value
  <2>1. IsReturned(stmt.fallback) /\ \A k \in DOMAIN f.table : f.table[k] \in Literals
    BY <1>7, FunctionIs DEF IsSimple
  <2>2. Simple(f, env, stmt) = AndThen(Evaluate(stmt.fallback, Names), Ending(found))
    BY <1>7 DEF Simple
  <2>3. found \in Literals
    BY <2>1 DEF IsReturned
  <2> HIDE DEF found
  <2>4. Ending(found) \in Outcome /\ Evaluate(stmt.fallback, Names) \in Outcome
    BY <1>2, <2>1, <2>3, ReturnedDoes
  <2> QED BY <2>2, <2>4, OneAfterAnother
<1>8. stmt.kind \in {"do", "return", "assert", "check", "ladder", "lookup"}
  BY DEF IsSimple
<1> QED BY <1>3, <1>4, <1>5, <1>6, <1>7, <1>8

\* A block whose statements do something does something.
LEMMA BlockDoes ==
  ASSUME NEW f, NEW env, NEW stmts, stmts \in Seq(ToSet(stmts)),
         \A i \in DOMAIN stmts : Outer(f, env, stmts[i]) \in Outcome
  PROVE  Executed(f, env, stmts) \in Outcome
<1> DEFINE C == ToSet(stmts)
           does == [s \in C |-> Outer(f, env, s)]
<1>1. \A s \in C : \E i \in DOMAIN stmts : s = stmts[i]
  BY DEF ToSet
<1>2. \A i \in DOMAIN stmts : stmts[i] \in C
  BY DEF ToSet
<1>3. stmts \in Seq(C)
  OBVIOUS
<1> HIDE DEF C
<1>4. does \in [C -> Outcome] /\ \A i \in DOMAIN stmts : does[stmts[i]] = Outer(f, env, stmts[i])
  BY <1>1, <1>2
<1> HIDE DEF does
<1>5. [i \in DOMAIN stmts |-> does[stmts[i]]] = [i \in DOMAIN stmts |-> Outer(f, env, stmts[i])]
  BY <1>4
<1>6. Doing(does, stmts) \in Outcome
  BY <1>3, <1>4, DoingIs
<1> QED BY <1>5, <1>6 DEF Doing, Executed

\* The block an if goes on with.
Chosen(f, env, stmt) == IF Truth(stmt.cond, f, env) THEN stmt.body ELSE stmt.orelse
Unnamed(f, stmt) == stmt.cond.called /\ ~(Reads(f.helper) \subseteq Params)

LEMMA InnerDoes ==
  ASSUME NEW f, IsFunction(f), NEW env \in Env, NEW stmt, IsInner(f, stmt)
  PROVE  /\ Inner(f, env, stmt) \in Outcome /\ Outer(f, env, stmt) = Inner(f, env, stmt)
         /\ stmt.kind = "if" =>
              Inner(f, env, stmt) = IF Unnamed(f, stmt) THEN Ending("NameError") ELSE Executed(f, env, Chosen(f, env, stmt))
<1>1. CASE stmt.kind # "if"
  BY <1>1, IfsAre, SimpleDoes
<1>2. CASE stmt.kind = "if"
  <2> DEFINE block == Chosen(f, env, stmt)
  <2>1. SimpleBlock(f, stmt.body) /\ SimpleBlock(f, stmt.orelse)
    BY <1>2, IfsAre
  <2>2. Inner(f, env, stmt) = IF Unnamed(f, stmt) THEN Ending("NameError")
                              ELSE InTurn([i \in DOMAIN block |-> Simple(f, env, block[i])])
    BY <1>2 DEF Inner, Exec, Unnamed, Chosen
  <2>3. Outer(f, env, stmt) = IF Unnamed(f, stmt) THEN Ending("NameError")
                              ELSE InTurn([i \in DOMAIN block |-> Inner(f, env, block[i])])
    BY <1>2 DEF Outer, Exec, Unnamed, Chosen
  <2>4. SimpleBlock(f, block)
    BY <2>1 DEF Chosen
  <2> HIDE DEF block
  <2>5. \A i \in DOMAIN block : /\ Simple(f, env, block[i]) \in Outcome
                                /\ Inner(f, env, block[i]) = Simple(f, env, block[i])
                                /\ Outer(f, env, block[i]) = Simple(f, env, block[i])
    BY <2>4, SimpleDoes DEF SimpleBlock
  <2>6. [i \in DOMAIN block |-> Inner(f, env, block[i])] = [i \in DOMAIN block |-> Simple(f, env, block[i])]
        /\ [i \in DOMAIN block |-> Outer(f, env, block[i])] = [i \in DOMAIN block |-> Simple(f, env, block[i])]
    BY <2>5
  <2>7. Executed(f, env, block) = InTurn([i \in DOMAIN block |-> Simple(f, env, block[i])])
    BY <2>6 DEF Executed
  <2>8. Executed(f, env, block) \in Outcome
    BY <2>4, <2>5, BlockDoes DEF SimpleBlock
  <2>9. Ending("NameError") \in Outcome
    BY NamesAreLiterals, EmptySeq DEF Ending, Outcome
  <2> QED BY <2>2, <2>3, <2>6, <2>7, <2>8, <2>9 DEF block
<1> QED BY <1>1, <1>2

LEMMA OuterDoes ==
  ASSUME NEW f, IsFunction(f), NEW env \in Env, NEW stmt, IsOuter(f, stmt)
  PROVE  /\ Outer(f, env, stmt) \in Outcome
         /\ stmt.kind = "if" =>
              Outer(f, env, stmt) = IF Unnamed(f, stmt) THEN Ending("NameError") ELSE Executed(f, env, Chosen(f, env, stmt))
<1>1. CASE stmt.kind # "if"
  BY <1>1, IfsAre, SimpleDoes
<1>2. CASE stmt.kind = "if"
  <2> DEFINE block == Chosen(f, env, stmt)
  <2>1. InnerBlock(f, stmt.body) /\ SimpleBlock(f, stmt.orelse)
    BY <1>2, IfsAre
  <2>2. Outer(f, env, stmt) = IF Unnamed(f, stmt) THEN Ending("NameError")
                              ELSE InTurn([i \in DOMAIN block |-> Inner(f, env, block[i])])
    BY <1>2 DEF Outer, Exec, Unnamed, Chosen
  <2>3. InnerBlock(f, block)
    <3>1. InnerBlock(f, stmt.orelse)
      BY <2>1, IfsAre DEF SimpleBlock, InnerBlock
    <3> QED BY <2>1, <3>1 DEF Chosen
  <2> HIDE DEF block
  <2>4. \A i \in DOMAIN block : /\ Inner(f, env, block[i]) \in Outcome
                                /\ Outer(f, env, block[i]) = Inner(f, env, block[i])
    BY <2>3, InnerDoes DEF InnerBlock
  <2>5. [i \in DOMAIN block |-> Outer(f, env, block[i])] = [i \in DOMAIN block |-> Inner(f, env, block[i])]
    BY <2>4
  <2>6. Executed(f, env, block) \in Outcome
    BY <2>3, <2>4, BlockDoes DEF InnerBlock
  <2>7. Ending("NameError") \in Outcome
    BY NamesAreLiterals, EmptySeq DEF Ending, Outcome
  <2> QED BY <2>2, <2>5, <2>6, <2>7 DEF block, Executed
<1> QED BY <1>1, <1>2

\* A function that has what another one has, if that has it.
Has(g, f) == (f.table # <<>> => g.table # <<>>) /\ (f.helper # {} => g.helper # {})
HasSame(g, f) == (g.table = f.table \/ f.table = <<>>) /\ (g.helper = f.helper \/ f.helper = {})

LEMMA StillOfItsKind ==
  ASSUME NEW f, NEW g, Has(g, f), NEW stmt
  PROVE  /\ \A cond : IsCond(f, cond) => IsCond(g, cond)
         /\ IsSimple(f, stmt) => IsSimple(g, stmt)
         /\ IsInner(f, stmt) => IsInner(g, stmt)
         /\ IsOuter(f, stmt) => IsOuter(g, stmt)
<1>1. \A cond : IsCond(f, cond) => IsCond(g, cond)
  BY DEF IsCond, Has
<1>2. \A s : IsSimple(f, s) => IsSimple(g, s)
  <2> SUFFICES ASSUME NEW s, IsSimple(f, s) PROVE IsSimple(g, s)
    OBVIOUS
  <2>1. f.table # <<>> => g.table # <<>>
    BY DEF Has
  <2> HIDE DEF Has
  <2>2. CASE s.kind = "check"
    BY <1>1, <2>2 DEF IsSimple
  <2>3. CASE s.kind = "lookup"
    BY <2>1, <2>3 DEF IsSimple
  <2>4. CASE s.kind \notin {"check", "lookup"}
    BY <2>4 DEF IsSimple
  <2> QED BY <2>2, <2>3, <2>4
<1>3. \A stmts : SimpleBlock(f, stmts) => SimpleBlock(g, stmts)
  BY <1>2 DEF SimpleBlock
<1>4. \A s : IsInner(f, s) => IsInner(g, s)
  <2> SUFFICES ASSUME NEW s, IsInner(f, s) PROVE IsInner(g, s)
    OBVIOUS
  <2>1. CASE s.kind # "if"
    BY <1>2, <2>1, IfsAre
  <2>2. CASE s.kind = "if"
    BY <1>1, <1>3, <2>2, IfsAre
  <2> QED BY <2>1, <2>2
<1>5. \A stmts : InnerBlock(f, stmts) => InnerBlock(g, stmts)
  BY <1>4 DEF InnerBlock
<1>6. IsOuter(f, stmt) => IsOuter(g, stmt)
  <2> SUFFICES ASSUME IsOuter(f, stmt) PROVE IsOuter(g, stmt)
    OBVIOUS
  <2>1. CASE stmt.kind # "if"
    BY <1>2, <2>1, IfsAre
  <2>2. CASE stmt.kind = "if"
    BY <1>1, <1>3, <1>5, <2>2, IfsAre
  <2> QED BY <2>1, <2>2
<1> QED BY <1>1, <1>2, <1>4, <1>6

LEMMA SameTruth ==
  ASSUME NEW f, NEW g, HasSame(g, f), NEW cond, IsCond(f, cond), NEW env
  PROVE  /\ Truth(cond, g, env) = Truth(cond, f, env)
         /\ cond.called => g.helper = f.helper
<1>1. cond.called => g.helper = f.helper
  BY DEF HasSame, IsCond
<1> QED BY <1>1 DEF Truth

LEMMA SameSimple ==
  ASSUME NEW f, NEW g, HasSame(g, f), NEW stmt, IsSimple(f, stmt), NEW env
  PROVE  Simple(g, env, stmt) = Simple(f, env, stmt)
<1>1. CASE stmt.kind = "check"
  <2>1. Truth(stmt.cond, g, env) = Truth(stmt.cond, f, env)
    BY <1>1, SameTruth DEF IsSimple
  <2> QED BY <1>1, <2>1 DEF Simple
<1>2. CASE stmt.kind = "lookup"
  <2>1. g.table = f.table
    BY <1>2 DEF IsSimple, HasSame
  <2> QED BY <1>2, <2>1 DEF Simple
<1>3. CASE stmt.kind \in {"do", "return", "assert", "ladder"}
  BY <1>3 DEF Simple
<1>4. stmt.kind \in {"do", "return", "assert", "check", "ladder", "lookup"}
  BY DEF IsSimple
<1> QED BY <1>1, <1>2, <1>3, <1>4

LEMMA SameInner ==
  ASSUME NEW f, NEW g, HasSame(g, f), NEW stmt, IsInner(f, stmt), NEW env
  PROVE  Inner(g, env, stmt) = Inner(f, env, stmt)
<1>1. CASE stmt.kind # "if"
  <2>1. Inner(g, env, stmt) = Simple(g, env, stmt) /\ Inner(f, env, stmt) = Simple(f, env, stmt)
    BY <1>1 DEF Inner, Exec
  <2> QED BY <1>1, <2>1, IfsAre, SameSimple
<1>2. CASE stmt.kind = "if"
  <2>1. IsCond(f, stmt.cond) /\ SimpleBlock(f, stmt.body) /\ SimpleBlock(f, stmt.orelse)
    BY <1>2, IfsAre
  <2>2. Chosen(g, env, stmt) = Chosen(f, env, stmt) /\ Unnamed(g, stmt) = Unnamed(f, stmt)
    BY <2>1, SameTruth DEF Chosen, Unnamed
  <2> DEFINE block == Chosen(f, env, stmt)
  <2>3. SimpleBlock(f, block)
    BY <2>1 DEF Chosen
  <2>4. \A h : Inner(h, env, stmt) = IF Unnamed(h, stmt) THEN Ending("NameError")
                 ELSE InTurn([i \in DOMAIN Chosen(h, env, stmt) |-> Simple(h, env, Chosen(h, env, stmt)[i])])
    BY <1>2 DEF Inner, Exec, Unnamed, Chosen
  <2> HIDE DEF block
  <2>5. [i \in DOMAIN block |-> Simple(g, env, block[i])] = [i \in DOMAIN block |-> Simple(f, env, block[i])]
    BY <2>3, SameSimple DEF SimpleBlock
  <2>6. Inner(g, env, stmt) = IF Unnamed(f, stmt) THEN Ending("NameError")
                              ELSE InTurn([i \in DOMAIN block |-> Simple(g, env, block[i])])
    BY <2>2, <2>4 DEF block
  <2>7. Inner(f, env, stmt) = IF Unnamed(f, stmt) THEN Ending("NameError")
                              ELSE InTurn([i \in DOMAIN block |-> Simple(f, env, block[i])])
    BY <2>4 DEF block
  <2> QED BY <2>5, <2>6, <2>7
<1> QED BY <1>1, <1>2

LEMMA SameOuter ==
  ASSUME NEW f, NEW g, HasSame(g, f), NEW stmt, IsOuter(f, stmt), NEW env
  PROVE  Outer(g, env, stmt) = Outer(f, env, stmt)
<1>1. CASE stmt.kind # "if"
  <2>1. Outer(g, env, stmt) = Simple(g, env, stmt) /\ Outer(f, env, stmt) = Simple(f, env, stmt)
    BY <1>1 DEF Outer, Exec
  <2> QED BY <1>1, <2>1, IfsAre, SameSimple
<1>2. CASE stmt.kind = "if"
  <2>1. IsCond(f, stmt.cond) /\ InnerBlock(f, stmt.body) /\ SimpleBlock(f, stmt.orelse)
    BY <1>2, IfsAre
  <2>2. Chosen(g, env, stmt) = Chosen(f, env, stmt) /\ Unnamed(g, stmt) = Unnamed(f, stmt)
    BY <2>1, SameTruth DEF Chosen, Unnamed
  <2> DEFINE block == Chosen(f, env, stmt)
  <2>3. InnerBlock(f, block)
    <3>1. InnerBlock(f, stmt.orelse)
      BY <2>1, IfsAre DEF SimpleBlock, InnerBlock
    <3> QED BY <2>1, <3>1 DEF Chosen
  <2>4. \A h : Outer(h, env, stmt) = IF Unnamed(h, stmt) THEN Ending("NameError")
                 ELSE InTurn([i \in DOMAIN Chosen(h, env, stmt) |-> Inner(h, env, Chosen(h, env, stmt)[i])])
    BY <1>2 DEF Outer, Exec, Unnamed, Chosen
  <2> HIDE DEF block
  <2>5. [i \in DOMAIN block |-> Inner(g, env, block[i])] = [i \in DOMAIN block |-> Inner(f, env, block[i])]
    BY <2>3, SameInner DEF InnerBlock
  <2>6. Outer(g, env, stmt) = IF Unnamed(f, stmt) THEN Ending("NameError")
                              ELSE InTurn([i \in DOMAIN block |-> Inner(g, env, block[i])])
    BY <2>2, <2>4 DEF block
  <2>7. Outer(f, env, stmt) = IF Unnamed(f, stmt) THEN Ending("NameError")
                              ELSE InTurn([i \in DOMAIN block |-> Inner(f, env, block[i])])
    BY <2>4 DEF block
  <2> QED BY <2>5, <2>6, <2>7
<1> QED BY <1>1, <1>2

\* What a function does in the end.
Ended(run) == IF run.result = Unset THEN [run EXCEPT !.result = "None"] ELSE run

LEMMA BehaveAlike ==
  ASSUME NEW f, NEW g, \A env \in Env : Ended(Executed(g, env, g.body)) = Ended(Executed(f, env, f.body)),
         g.module = f.module
  PROVE  Behaviour(g) = Behaviour(f)
<1>1. ASSUME NEW h PROVE Invoked(h) = [env \in Env |-> Ended(Executed(h, env, h.body))]
  BY DEF Invoked, Ended, Executed
<1>2. [env \in Env |-> Ended(Executed(g, env, g.body))] = [env \in Env |-> Ended(Executed(f, env, f.body))]
  OBVIOUS
<1>3. Invoked(g) = Invoked(f)
  BY <1>1, <1>2
<1> QED BY <1>3 DEF Behaviour

\* A body is done as its statements are.
LEMMA BodyDoes ==
  ASSUME NEW f, IsFunction(f), NEW env \in Env, NEW stmts, OuterBlock(f, stmts)
  PROVE  /\ [i \in DOMAIN stmts |-> Outer(f, env, stmts[i])] \in Seq(Outcome)
         /\ Len([i \in DOMAIN stmts |-> Outer(f, env, stmts[i])]) = Len(stmts)
         /\ Len(stmts) \in Nat /\ DOMAIN stmts = 1 .. Len(stmts)
<1> DEFINE n == Len(stmts)
           outs == [i \in DOMAIN stmts |-> Outer(f, env, stmts[i])]
<1>1. n \in Nat /\ DOMAIN stmts = 1 .. n
  BY LenProperties DEF OuterBlock
<1>2. \A i \in DOMAIN stmts : Outer(f, env, stmts[i]) \in Outcome
  BY OuterDoes DEF OuterBlock
<1> HIDE DEF n
<1>3. outs \in [1 .. n -> Outcome]
  BY <1>1, <1>2
<1> HIDE DEF outs
<1>4. outs \in Seq(Outcome) /\ Len(outs) = n
  BY <1>1, <1>3, IsASeq, LenProperties
<1> QED BY <1>1, <1>4 DEF outs, n

LEMMA SameBeginning ==
  ASSUME NEW outs \in Seq(Outcome), NEW news \in Seq(Outcome), NEW i \in 1 .. Len(outs), Len(news) = Len(outs),
         \A j \in 1 .. (i - 1) : news[j] = outs[j]
  PROVE  SubSeq(news, 1, i - 1) = SubSeq(outs, 1, i - 1)
<1> DEFINE a == SubSeq(outs, 1, i - 1)
           b == SubSeq(news, 1, i - 1)
<1>1. i - 1 \in Nat /\ i - 1 <= Len(outs) /\ i - 1 <= Len(news)
  BY LenProperties
<1>2. a \in Seq(Outcome) /\ Len(a) = i - 1 /\ \A j \in 1 .. (i - 1) : a[j] = outs[j]
  BY <1>1, BeginningOf
<1>3. b \in Seq(Outcome) /\ Len(b) = i - 1 /\ \A j \in 1 .. (i - 1) : b[j] = news[j]
  BY <1>1, BeginningOf
<1> HIDE DEF a, b
<1>4. Len(b) = Len(a) /\ \A j \in 1 .. Len(b) : b[j] = a[j]
  BY <1>2, <1>3
<1>5. b = a
  BY <1>2, <1>3, <1>4, SeqEqual
<1> QED BY <1>5 DEF a, b

LEMMA SameEnd ==
  ASSUME NEW outs \in Seq(Outcome), NEW news \in Seq(Outcome), NEW i \in 1 .. Len(outs), Len(news) = Len(outs),
         \A j \in 1 .. Len(outs) : j > i => news[j] = outs[j]
  PROVE  SubSeq(news, i + 1, Len(news)) = SubSeq(outs, i + 1, Len(outs))
<1> DEFINE n == Len(outs)
           a == SubSeq(outs, i + 1, n)
           b == SubSeq(news, i + 1, n)
<1>1. i \in Nat /\ i <= n /\ n \in Nat /\ \A j \in 1 .. (n - i) : i + j \in 1 .. n /\ i + j > i
  BY LenProperties
<1>2. a \in Seq(Outcome) /\ Len(a) = n - i /\ \A j \in 1 .. (n - i) : a[j] = outs[i + j]
  BY <1>1, EndOf
<1>3. b \in Seq(Outcome) /\ Len(b) = n - i /\ \A j \in 1 .. (n - i) : b[j] = news[i + j]
  BY <1>1, EndOf
<1> HIDE DEF a, b
<1>4. Len(b) = Len(a) /\ \A j \in 1 .. Len(b) : b[j] = a[j]
  BY <1>1, <1>2, <1>3
<1>5. b = a
  BY <1>2, <1>3, <1>4, SeqEqual
<1> QED BY <1>5 DEF a, b, n

LEMMA LeastIs ==
  ASSUME NEW s \in SUBSET Nat, s # {}
  PROVE  Min(s) \in s /\ \A i \in s : Min(s) <= i
<1>1. \E m \in s : \A i \in s : m <= i
  BY LeastNatural
<1> QED BY <1>1, Zenon DEF Min

\* A strategy is taken because of what there is.
LEMMA StrategiesFit ==
  ASSUME NEW f, diagnose_function(f) # Unset
  PROVE  /\ diagnose_function(f) \in {"consolidate", "dispatch", "flatten", "extract"}
         /\ diagnose_function(f) = "dispatch" => HasLadder(f)
         /\ diagnose_function(f) = "extract" => _has_compound_boolean(f)
<1> DEFINE simple == calculate_cyclomatic_complexity(f) < Threshold /\ calculate_nesting_depth(f) < MinDepth
           gathers == f.test_ /\ Len(Asserts(f)) >= 3
           flattens == calculate_nesting_depth(f) >= FlattenDepth /\ \E i \in DOMAIN f.body : Flattens(f.body[i])
<1>1. diagnose_function(f) =
        CASE simple -> Unset
          [] OTHER -> IF gathers THEN "consolidate"
                      ELSE IF HasLadder(f) THEN "dispatch"
                      ELSE IF flattens THEN "flatten"
                      ELSE IF _has_compound_boolean(f) THEN "extract"
                      ELSE "flatten"
  BY DEF diagnose_function
<1> HIDE DEF simple, gathers, flattens
<1>2. ~simple
  BY <1>1
<1>3. diagnose_function(f) = IF gathers THEN "consolidate"
                             ELSE IF HasLadder(f) THEN "dispatch"
                             ELSE IF flattens THEN "flatten"
                             ELSE IF _has_compound_boolean(f) THEN "extract"
                             ELSE "flatten"
  BY <1>1, <1>2
<1> QED BY <1>3

\* What the ladder and the lookup return, for whatever is given.
Hit(ladder, env) == {i \in DOMAIN ladder.branches : ladder.branches[i].key.value = env[ladder.var]}

TableOf(ladder) ==
  [k \in {ladder.branches[i].key.value : i \in DOMAIN ladder.branches} |->
     ladder.branches[Max({i \in DOMAIN ladder.branches : ladder.branches[i].key.value = k})].value.value]

FallbackOf(ladder) == IF ladder.fallback = Unset THEN Const("None") ELSE ladder.fallback

LEMMA LadderIs ==
  ASSUME NEW f, NEW ladder, IsOuter(f, ladder), IsLadder(ladder)
  PROVE  /\ ladder.kind = "ladder" /\ IsSimple(f, ladder)
         /\ ladder.fallback = Unset \/ IsReturned(ladder.fallback)
         /\ Len(ladder.branches) \in Nat /\ DOMAIN ladder.branches = 1 .. Len(ladder.branches)
         /\ Len(ladder.branches) # 0 /\ IsReturned(FallbackOf(ladder))
         /\ \A i \in DOMAIN ladder.branches :
              /\ IsExpr(ladder.branches[i].key) /\ IsReturned(ladder.branches[i].value)
              /\ ladder.branches[i].value.value \in Literals
<1>1. ladder.kind = "ladder" /\ Len(ladder.branches) >= MinBranches
  BY DEF IsLadder
<1>2. IsSimple(f, ladder)
  BY <1>1, IfsAre
<1>3. /\ ladder.fallback = Unset \/ IsReturned(ladder.fallback)
      /\ ladder.branches \in Seq(ToSet(ladder.branches))
      /\ \A i \in DOMAIN ladder.branches : IsExpr(ladder.branches[i].key) /\ IsReturned(ladder.branches[i].value)
  BY <1>1, <1>2 DEF IsSimple
<1>4. Len(ladder.branches) \in Nat /\ DOMAIN ladder.branches = 1 .. Len(ladder.branches)
  BY <1>3, LenProperties
<1>5. MinBranches \in Nat \ {0}
  BY RefactorerAssumption
<1>6. IsReturned(FallbackOf(ladder))
  BY <1>3, NoneIsReturned DEF FallbackOf
<1>7. \A i \in DOMAIN ladder.branches : ladder.branches[i].value.value \in Literals
  BY <1>3 DEF IsReturned
<1> QED BY <1>1, <1>2, <1>3, <1>4, <1>5, <1>6, <1>7

LEMMA TableIs ==
  ASSUME NEW f, NEW ladder, IsOuter(f, ladder), IsLadder(ladder)
  PROVE  /\ TableOf(ladder) # <<>> /\ \A k \in DOMAIN TableOf(ladder) : TableOf(ladder)[k] \in Literals
         /\ \A env : env[ladder.var] \in DOMAIN TableOf(ladder) <=> Hit(ladder, env) # {}
<1> DEFINE bs == ladder.branches
           keys == {bs[i].key.value : i \in DOMAIN bs}
           At(k) == {i \in DOMAIN bs : bs[i].key.value = k}
           table == TableOf(ladder)
<1>1. /\ Len(bs) \in Nat /\ DOMAIN bs = 1 .. Len(bs) /\ Len(bs) # 0
      /\ \A i \in DOMAIN bs : bs[i].value.value \in Literals
  BY LadderIs
<1>2. table = [k \in keys |-> bs[Max(At(k))].value.value]
  BY DEF TableOf
<1>3. \A env : env[ladder.var] \in keys <=> Hit(ladder, env) # {}
  BY DEF Hit
<1>4. ASSUME NEW k \in keys PROVE Max(At(k)) \in DOMAIN bs
  <2>1. At(k) \in SUBSET (1 .. Len(bs)) /\ At(k) # {}
    BY <1>1
  <2> HIDE DEF At, bs
  <2>2. Max(At(k)) \in At(k)
    BY <1>1, <2>1, LastIsMax
  <2> QED BY <1>1, <2>1, <2>2
<1>5. keys # {}
  <2>1. 1 \in DOMAIN bs
    BY <1>1
  <2> QED BY <2>1
<1> HIDE DEF table, keys, At
<1>6. DOMAIN table = keys /\ \A k \in keys : table[k] \in Literals
  <2> HIDE DEF bs
  <2> QED BY <1>1, <1>2, <1>4
<1>7. DOMAIN <<>> = {}
  OBVIOUS
<1>8. table # <<>>
  BY <1>5, <1>6, <1>7
<1> QED BY <1>3, <1>6, <1>8 DEF table

\* A ladder that may move: of constants, with a quiet end.
MayMove(ladder) ==
  /\ IsInjective([i \in DOMAIN ladder.branches |-> ladder.branches[i].key.value])
  /\ \A i \in DOMAIN ladder.branches :
       IsConst(ladder.branches[i].key) /\ IsConst(ladder.branches[i].value)
  /\ IF ladder.fallback # Unset THEN IsQuiet(ladder.fallback) ELSE ladder.rest = <<>>

\* What it comes to if nothing is hit.
MissOf(ladder) == IF ladder.fallback = Unset THEN Unset ELSE ladder.fallback.value

LEMMA LadderTries ==
  ASSUME NEW f, NEW ladder, IsOuter(f, ladder), IsLadder(ladder), MayMove(ladder), NEW env
  PROVE  Outer(f, env, ladder) =
           Ending(IF Hit(ladder, env) # {} THEN ladder.branches[Min(Hit(ladder, env))].value.value
                  ELSE MissOf(ladder))
<1> DEFINE bs == ladder.branches
           hit == Hit(ladder, env)
           last == IF hit # {} THEN Min(hit) ELSE Len(bs)
           keys == [i \in 1 .. last |-> Evaluate(bs[i].key, Names)]
           taken == IF hit # {} THEN Returned(bs[last].value)
                    ELSE IF ladder.fallback # Unset THEN Returned(ladder.fallback)
                    ELSE [Silent EXCEPT !.trace = ladder.rest]
           result == IF hit # {} THEN bs[Min(hit)].value.value ELSE MissOf(ladder)
<1>1. /\ ladder.kind = "ladder" /\ Len(bs) \in Nat /\ DOMAIN bs = 1 .. Len(bs)
      /\ \A i \in DOMAIN bs : IsExpr(bs[i].key) /\ IsReturned(bs[i].value)
      /\ ladder.fallback = Unset \/ IsReturned(ladder.fallback)
  BY LadderIs
<1>2. Outer(f, env, ladder) = AndThen(InTurn(keys), taken)
  BY <1>1 DEF Outer, Exec, Inner, Simple, Hit
<1>3. hit \in SUBSET Nat /\ hit \subseteq DOMAIN bs
  BY <1>1 DEF Hit
<1>4. last \in Nat /\ last <= Len(bs) /\ (hit # {} => last \in DOMAIN bs)
  <2> HIDE DEF hit, bs
  <2>1. hit # {} => Min(hit) \in DOMAIN bs
    BY <1>3, FirstIsMin
  <2> QED BY <1>1, <2>1
<1>5. \A i \in DOMAIN bs : IsConst(bs[i].key) /\ IsConst(bs[i].value)
  BY DEF MayMove
<1>6. taken = Ending(result)
  <2>1. CASE hit # {}
    <3>1. last = Min(hit) /\ IsReturned(bs[last].value) /\ IsConst(bs[last].value)
      BY <1>1, <1>4, <1>5, <2>1
    <3>2. Returned(bs[last].value) = Ending(bs[last].value.value)
      BY <3>1, ReturnedDoes
    <3> QED BY <2>1, <3>1, <3>2
  <2>2. CASE hit = {} /\ ladder.fallback # Unset
    <3>1. IsReturned(ladder.fallback) /\ IsQuiet(ladder.fallback)
      BY <1>1, <2>2 DEF MayMove
    <3> QED BY <2>2, <3>1, ReturnedDoes DEF MissOf
  <2>3. CASE hit = {} /\ ladder.fallback = Unset
    BY <2>3 DEF MayMove, MissOf, Silent, Ending
  <2> QED BY <2>1, <2>2, <2>3
<1>7. result \in Literals \cup {Unset}
  <2>1. \A i \in DOMAIN bs : bs[i].value.value \in Literals
    BY LadderIs
  <2>2. MissOf(ladder) \in Literals \cup {Unset}
    BY <1>1 DEF MissOf, IsReturned
  <2> QED BY <1>4, <2>1, <2>2
<1>8. InTurn(keys) = Silent
  <2> HIDE DEF bs, last, hit
  <2>1. \A i \in 1 .. last : Evaluate(bs[i].key, Names) \in Outcome /\ Evaluate(bs[i].key, Names) = Silent
    BY <1>1, <1>4, <1>5, EvaluateDoes
  <2>2. keys \in [1 .. last -> Outcome] /\ \A i \in 1 .. last : keys[i] = Silent
    BY <2>1
  <2> HIDE DEF keys
  <2> QED BY <1>4, <2>2, TurnsOfSilence
<1> HIDE DEF keys, taken, result, hit
<1>9. Ending(result) \in Outcome
  BY <1>7, EmptySeq DEF Ending, Outcome
<1>10. Outer(f, env, ladder) = Ending(result)
  BY <1>2, <1>6, <1>8, <1>9, OneAfterAnother
<1> QED BY <1>10 DEF result, hit

LEMMA LadderLooksUp ==
  ASSUME NEW f, NEW ladder, IsOuter(f, ladder), IsLadder(ladder), NEW g, g.table = TableOf(ladder),
         MayMove(ladder), NEW env
  PROVE  Outer(g, env, Lookup(ladder.var, FallbackOf(ladder))) =
           Ending(IF Hit(ladder, env) # {} THEN ladder.branches[Min(Hit(ladder, env))].value.value
                  ELSE FallbackOf(ladder).value)
<1> DEFINE bs == ladder.branches
           hit == Hit(ladder, env)
           key == env[ladder.var]
           fallback == FallbackOf(ladder)
           lookup == Lookup(ladder.var, fallback)
           found == IF key \in DOMAIN g.table THEN g.table[key] ELSE fallback.value
<1>1. /\ ladder.kind = "ladder" /\ Len(bs) \in Nat /\ DOMAIN bs = 1 .. Len(bs)
      /\ IsReturned(fallback) /\ \A k \in DOMAIN g.table : g.table[k] \in Literals
  BY LadderIs, TableIs
<1>2. IsQuiet(fallback)
  BY NoneIsReturned DEF FallbackOf, MayMove
<1>3. lookup.kind = "lookup" /\ lookup.var = ladder.var /\ lookup.fallback = fallback
  BY DEF Lookup
<1>4. Outer(g, env, lookup) = Ending(found)
  <2>1. Outer(g, env, lookup) = AndThen(Evaluate(fallback, Names), Ending(found))
    <3> HIDE DEF lookup, fallback
    <3> QED BY <1>3 DEF Outer, Exec, Inner, Simple
  <2>2. Evaluate(fallback, Names) = Silent
    BY <1>1, <1>2, ReturnedDoes
  <2>3. found \in Literals
    BY <1>1 DEF IsReturned
  <2> HIDE DEF found, fallback, lookup
  <2> QED BY <2>1, <2>2, <2>3, EndingIs, OneAfterAnother
<1>5. key \in DOMAIN g.table <=> hit # {}
  BY TableIs
<1>6. ASSUME hit # {} PROVE g.table[key] = bs[Min(hit)].value.value
  <2>1. hit = {i \in DOMAIN bs : bs[i].key.value = key} /\ hit \in SUBSET (1 .. Len(bs)) /\ hit \in SUBSET Nat
    BY <1>1 DEF Hit
  <2>2. g.table[key] = bs[Max(hit)].value.value
    <3>1. key \in {bs[i].key.value : i \in DOMAIN bs}
      BY <1>6, <2>1
    <3> QED BY <2>1, <3>1 DEF TableOf
  <2>3. \A i, j \in DOMAIN bs : bs[i].key.value = bs[j].key.value => i = j
    BY DEF MayMove, IsInjective
  <2> HIDE DEF hit, bs
  <2>4. Max(hit) \in hit
    BY <1>1, <1>6, <2>1, LastIsMax
  <2>5. Min(hit) \in hit
    BY <1>6, <2>1, LeastIs
  <2>6. Max(hit) = Min(hit)
    BY <2>1, <2>3, <2>4, <2>5
  <2> QED BY <2>2, <2>6
<1> QED BY <1>4, <1>5, <1>6

\* To build the table is an outcome, and none if nothing of it leaves anything.
LEMMA TableBuilt ==
  ASSUME NEW f, NEW ladder, IsOuter(f, ladder), IsLadder(ladder), NEW place
  PROVE  /\ _create_dict_assignment(ladder, place) \in Outcome
         /\ MayMove(ladder) => _create_dict_assignment(ladder, place) = Silent
<1> DEFINE bs == ladder.branches
           scope == IF place = "top" THEN {"earlier"} ELSE {}
           Out(i) == AndThen(Evaluate(bs[i].key, scope), Evaluate(bs[i].value, scope))
           outs == [i \in DOMAIN bs |-> Out(i)]
<1>1. /\ Len(bs) \in Nat /\ DOMAIN bs = 1 .. Len(bs)
      /\ \A i \in DOMAIN bs : IsExpr(bs[i].key) /\ IsReturned(bs[i].value)
  BY LadderIs
<1>2. _create_dict_assignment(ladder, place) = InTurn(outs)
  BY DEF _create_dict_assignment
<1> HIDE DEF scope, bs
<1>3. \A i \in DOMAIN bs : Evaluate(bs[i].key, scope) \in Outcome /\ Evaluate(bs[i].value, scope) \in Outcome
  BY <1>1, EvaluateDoes DEF IsReturned
<1>4. \A i \in DOMAIN bs : Out(i) \in Outcome
  BY <1>3, OneAfterAnother
<1>5. ASSUME MayMove(ladder), NEW i \in DOMAIN bs PROVE Out(i) = Silent
  <2>1. IsConst(bs[i].key) /\ IsConst(bs[i].value)
    BY <1>5 DEF MayMove, bs
  <2>2. Evaluate(bs[i].key, scope) = Silent /\ Evaluate(bs[i].value, scope) = Silent
    BY <1>1, <2>1, EvaluateDoes DEF IsReturned
  <2>3. AndThen(Silent, Silent) = Silent
    BY TurnsStart, OneAfterAnother
  <2> QED BY <2>2, <2>3
<1> HIDE DEF Out
<1>6. outs \in [1 .. Len(bs) -> Outcome] /\ (MayMove(ladder) => \A i \in 1 .. Len(bs) : outs[i] = Silent)
  BY <1>1, <1>4, <1>5
<1> HIDE DEF outs
<1> QED BY <1>1, <1>2, <1>6, TurnsOf, TurnsOfSilence

\* What becomes of a function with a ladder.
LEMMA DispatchedIs ==
  ASSUME NEW f, IsFunction(f), HasLadder(f)
  PROVE  LET g == TableDispatchTransformer(f)
             first == First(f.body, IsLadder)
             ladder == _find_ladder_in_body(f)
             lookup == Lookup(ladder.var, FallbackOf(ladder))
             built == _create_dict_assignment(ladder, f.module.place)
         IN /\ g = [test_ |-> f.test_, helper |-> f.helper, module |-> Inserted(f.module, built),
                    table |-> IF f.table = <<>> \/ Overrides(f) THEN TableOf(ladder) ELSE f.table,
                    body |-> [i \in DOMAIN f.body |-> IF IsLadder(f.body[i]) THEN lookup ELSE f.body[i]]]
            /\ first \in DOMAIN f.body /\ ladder = f.body[first] /\ IsLadder(ladder) /\ IsOuter(f, ladder)
            /\ \A j \in DOMAIN f.body : IsLadder(f.body[j]) => first <= j
            /\ IsFunction(g)
<1> DEFINE g == TableDispatchTransformer(f)
           first == First(f.body, IsLadder)
           ladder == _find_ladder_in_body(f)
           fallback == FallbackOf(ladder)
           lookup == Lookup(ladder.var, fallback)
           table == IF f.table = <<>> \/ Overrides(f) THEN TableOf(ladder) ELSE f.table
           built == _create_dict_assignment(ladder, f.module.place)
           module == Inserted(f.module, built)
           found == {i \in DOMAIN f.body : IsLadder(f.body[i])}
           body == [i \in DOMAIN f.body |-> IF IsLadder(f.body[i]) THEN lookup ELSE f.body[i]]
<1>1. /\ f = [test_ |-> f.test_, body |-> f.body, table |-> f.table, helper |-> f.helper, module |-> f.module] /\ OuterBlock(f, f.body)
      /\ f.test_ \in BOOLEAN /\ f.helper \subseteq [op : DOMAIN Opposite, var : {"x", "l"}]
      /\ (\A k \in DOMAIN f.table : f.table[k] \in Literals) /\ f.module \in Modules
  BY FunctionIs
<1>2. DOMAIN f.body = 1 .. Len(f.body) /\ Len(f.body) \in Nat
  BY <1>1, LenProperties DEF OuterBlock
<1>3. g = [f EXCEPT !.table = table, !.module = module, !.body = body]
  BY DEF TableDispatchTransformer, TableOf, FallbackOf
<1>4. first \in DOMAIN f.body /\ IsLadder(f.body[first]) /\ \A j \in DOMAIN f.body : IsLadder(f.body[j]) => first <= j
  <2>1. found \in SUBSET Nat /\ found # {}
    BY <1>2 DEF HasLadder
  <2>2. first = Min(found)
    BY DEF First
  <2>3. first \in found /\ \A j \in found : first <= j
    <3> HIDE DEF found, first
    <3> QED BY <2>1, <2>2, LeastIs
  <2> HIDE DEF first
  <2> QED BY <2>3
<1>5. ladder = f.body[first]
  BY DEF _find_ladder_in_body
<1> HIDE DEF body, ladder, first
<1>6. g = [test_ |-> f.test_, helper |-> f.helper, module |-> module, table |-> table, body |-> body]
  <2> HIDE DEF g, table, module
  <2> QED BY <1>1, <1>3
<1>7. IsLadder(ladder) /\ IsOuter(f, ladder)
  BY <1>1, <1>4, <1>5 DEF OuterBlock
<1>8. /\ g.table # <<>> /\ (\A k \in DOMAIN g.table : g.table[k] \in Literals) /\ g.helper = f.helper /\ g.body = body
      /\ g.test_ = f.test_ /\ g.module = module
  <2>1. table # <<>> /\ \A k \in DOMAIN table : table[k] \in Literals
    BY <1>1, <1>7, TableIs
  <2> HIDE DEF g, table, module
  <2> QED BY <1>6, <2>1
<1>9. Has(g, f)
  BY <1>8 DEF Has
<1>10. IsSimple(g, lookup)
  <2>1. IsReturned(fallback)
    BY <1>7, LadderIs
  <2>2. lookup.kind = "lookup" /\ lookup.var = ladder.var /\ lookup.fallback = fallback
    BY DEF Lookup
  <2> HIDE DEF fallback, g
  <2>3. lookup = Lookup(lookup.var, lookup.fallback)
    BY <2>2
  <2> HIDE DEF lookup
  <2> QED BY <1>8, <2>1, <2>2, <2>3 DEF IsSimple
<1>11. OuterBlock(g, body)
  <2>1. body \in Seq(ToSet(body))
    <3>1. body \in [1 .. Len(f.body) -> ToSet(body)]
      BY <1>2 DEF body, ToSet
    <3> QED BY <1>2, <3>1, IsASeq
  <2>2. ASSUME NEW i \in DOMAIN body PROVE IsOuter(g, body[i])
    <3> HIDE DEF g, lookup
    <3>1. i \in DOMAIN f.body /\ body[i] = IF IsLadder(f.body[i]) THEN lookup ELSE f.body[i]
      BY <2>2 DEF body
    <3>2. IsOuter(g, f.body[i])
      BY <1>1, <1>9, <3>1, StillOfItsKind DEF OuterBlock
    <3>3. IsOuter(g, lookup)
      BY <1>10, IfsAre
    <3> QED BY <3>1, <3>2, <3>3
  <2> QED BY <2>1, <2>2 DEF OuterBlock
<1>12. module \in Modules
  <2> HIDE DEF built
  <2>1. built \in Outcome
    BY <1>7, TableBuilt DEF built
  <2> QED BY <1>1, <2>1, InsertedIs
<1>13. IsFunction(g)
  <2> HIDE DEF g, module, table
  <2>1. g = [test_ |-> g.test_, body |-> g.body, table |-> g.table, helper |-> g.helper, module |-> g.module]
    BY <1>6
  <2> QED BY <1>1, <1>8, <1>11, <1>12, <2>1, FunctionIs
<1> QED BY <1>4, <1>5, <1>6, <1>7, <1>13 DEF body, ladder, first

\* To return nothing in the end is to end.
LEMMA NothingReturned ==
  ASSUME NEW run \in Outcome
  PROVE  /\ Ending("None") \in Outcome /\ Ended(AndThen(run, Ending("None"))) = Ended(run)
         /\ \A r \in Literals : Ending(r) \in Outcome /\ Ending(r).result # Unset
<1>1. \A r \in Literals : Ending(r) \in Outcome /\ Ending(r).result # Unset
  BY EmptySeq, RefactorerAssumption DEF Ending, Outcome
<1>2. "None" \in Literals /\ "None" # Unset
  BY NamesAreLiterals
<1>3. run = [trace |-> run.trace, result |-> run.result] /\ run.trace \in Seq(Nat)
  BY OutcomesAreRecords
<1>4. run.trace \o <<>> = run.trace
  BY <1>3, ConcatEmptySeq
<1>5. CASE run.result = Unset
  <2>1. AndThen(run, Ending("None")) = [trace |-> run.trace, result |-> "None"]
    BY <1>4, <1>5 DEF AndThen, Ending
  <2>2. Ended(run) = [trace |-> run.trace, result |-> "None"]
    <3>1. Ended(run) = [run EXCEPT !.result = "None"]
      BY <1>5 DEF Ended
    <3> QED BY <1>3, <3>1
  <2>3. Ended([trace |-> run.trace, result |-> "None"]) = [trace |-> run.trace, result |-> "None"]
    BY <1>2 DEF Ended
  <2> QED BY <1>1, <1>2, <2>1, <2>2, <2>3
<1>6. CASE run.result # Unset
  BY <1>1, <1>2, <1>6 DEF AndThen
<1> QED BY <1>5, <1>6

LEMMA ResultStays ==
  ASSUME NEW a \in Outcome, NEW b \in Outcome, NEW c \in Outcome, b.result # Unset
  PROVE  AndThen(AndThen(a, b), c) = AndThen(a, b)
<1>1. AndThen(a, b).result # Unset /\ AndThen(a, b) \in Outcome
  BY OneAfterAnother DEF AndThen
<1> QED BY <1>1, OneAfterAnother

\* A ladder that becomes a lookup in a table of its own.
LEMMA DispatchDoes ==
  ASSUME NEW f, IsFunction(f), HasLadder(f), f.table = <<>>, NEW env \in Env,
         LET ladder == _find_ladder_in_body(f)
         IN MayMove(ladder) /\ (ladder.fallback # Unset \/ First(f.body, IsLadder) = Len(f.body))
  PROVE  LET g == TableDispatchTransformer(f)
         IN Ended(Executed(g, env, g.body)) = Ended(Executed(f, env, f.body))
<1> DEFINE g == TableDispatchTransformer(f)
           first == First(f.body, IsLadder)
           ladder == _find_ladder_in_body(f)
           fallback == FallbackOf(ladder)
           lookup == Lookup(ladder.var, fallback)
           hit == Hit(ladder, env)
           value == ladder.branches[Min(hit)].value.value
           outs == [i \in DOMAIN f.body |-> Outer(f, env, f.body[i])]
           news == [i \in DOMAIN g.body |-> Outer(g, env, g.body[i])]
           n == Len(f.body)
<1> SUFFICES Ended(Executed(g, env, g.body)) = Ended(Executed(f, env, f.body))
  OBVIOUS
<1>1. /\ g.table = TableOf(ladder) /\ g.helper = f.helper
      /\ g.body = [i \in DOMAIN f.body |-> IF IsLadder(f.body[i]) THEN lookup ELSE f.body[i]]
      /\ first \in DOMAIN f.body /\ ladder = f.body[first] /\ IsLadder(ladder) /\ IsOuter(f, ladder)
      /\ \A j \in DOMAIN f.body : IsLadder(f.body[j]) => first <= j
      /\ IsFunction(g)
  <2> DEFINE table == IF f.table = <<>> \/ Overrides(f) THEN TableOf(ladder) ELSE f.table
             body == [i \in DOMAIN f.body |-> IF IsLadder(f.body[i]) THEN lookup ELSE f.body[i]]
             module == Inserted(f.module, _create_dict_assignment(ladder, f.module.place))
  <2>1. /\ g = [test_ |-> f.test_, helper |-> f.helper, module |-> module, table |-> table, body |-> body]
        /\ first \in DOMAIN f.body /\ ladder = f.body[first] /\ IsLadder(ladder) /\ IsOuter(f, ladder)
        /\ \A j \in DOMAIN f.body : IsLadder(f.body[j]) => first <= j
        /\ IsFunction(g)
    BY DispatchedIs
  <2>2. table = TableOf(ladder)
    OBVIOUS
  <2> HIDE DEF g, table, body, module, first, ladder
  <2>3. g.table = table /\ g.helper = f.helper /\ g.body = body
    BY <2>1
  <2> QED BY <2>1, <2>2, <2>3 DEF body
<1>2. ladder.fallback # Unset \/ first = n
  OBVIOUS
<1>3. MayMove(ladder)
  OBVIOUS
<1> HIDE DEF g, first, ladder
<1>4. g.table = TableOf(ladder) /\ g.helper = f.helper /\ DOMAIN g.body = DOMAIN f.body
      /\ \A i \in DOMAIN f.body : g.body[i] = IF IsLadder(f.body[i]) THEN lookup ELSE f.body[i]
  <2> HIDE DEF lookup
  <2> QED BY <1>1
<1>5. HasSame(g, f)
  BY <1>4 DEF HasSame
<1>6. OuterBlock(f, f.body) /\ OuterBlock(g, g.body)
  BY <1>1, FunctionIs
<1>7. outs \in Seq(Outcome) /\ Len(outs) = n /\ n \in Nat /\ DOMAIN f.body = 1 .. n /\ DOMAIN outs = 1 .. n
  BY <1>6, BodyDoes
<1>8. news \in Seq(Outcome) /\ Len(news) = Len(g.body)
  <2>1. IsFunction(g) /\ OuterBlock(g, g.body)
    BY <1>1, <1>6
  <2> QED BY <2>1, BodyDoes
<1>9. Len(news) = n
  <2> HIDE DEF news, outs
  <2>1. DOMAIN g.body = 1 .. Len(g.body) /\ Len(g.body) \in Nat
    BY <1>6, LenProperties DEF OuterBlock
  <2> QED BY <1>4, <1>7, <1>8, <2>1
<1>10. \A i \in 1 .. n : outs[i] = Outer(f, env, f.body[i]) /\ news[i] = Outer(g, env, g.body[i])
  BY <1>4, <1>7
<1> HIDE DEF outs, news
<1>11. \A j \in 1 .. (first - 1) : news[j] = outs[j]
  <2>1. ASSUME NEW j \in 1 .. (first - 1) PROVE news[j] = outs[j]
    <3>1. j \in 1 .. n /\ j \in DOMAIN f.body /\ ~(first <= j)
      BY <1>1, <1>7
    <3>2. g.body[j] = f.body[j]
      BY <1>1, <1>4, <3>1
    <3>3. Outer(g, env, f.body[j]) = Outer(f, env, f.body[j])
      BY <1>5, <1>6, <3>1, SameOuter DEF OuterBlock
    <3> QED BY <1>10, <3>1, <3>2, <3>3
  <2> QED BY <2>1
<1>12. /\ outs[first] = Ending(IF hit # {} THEN value ELSE MissOf(ladder))
       /\ news[first] = Ending(IF hit # {} THEN value ELSE fallback.value)
  <2>1. g.body[first] = lookup /\ f.body[first] = ladder /\ first \in 1 .. n
    BY <1>1, <1>4, <1>7
  <2>2. Outer(f, env, ladder) = Ending(IF hit # {} THEN value ELSE MissOf(ladder))
    BY <1>1, <1>3, LadderTries
  <2>3. Outer(g, env, lookup) = Ending(IF hit # {} THEN value ELSE fallback.value)
    BY <1>1, <1>3, <1>4, LadderLooksUp
  <2> QED BY <1>10, <2>1, <2>2, <2>3
<1>13. hit # {} => value \in Literals
  <2>1. /\ DOMAIN ladder.branches = 1 .. Len(ladder.branches) /\ Len(ladder.branches) \in Nat
        /\ \A i \in DOMAIN ladder.branches : ladder.branches[i].value.value \in Literals
    BY <1>1, LadderIs
  <2>2. hit \in SUBSET Nat /\ hit \subseteq DOMAIN ladder.branches
    BY <2>1 DEF Hit
  <2> HIDE DEF hit
  <2> QED BY <2>1, <2>2, LeastIs
<1>14. /\ ladder.fallback # Unset => MissOf(ladder) = fallback.value /\ fallback.value \in Literals
       /\ ladder.fallback = Unset => MissOf(ladder) = Unset /\ fallback.value = "None"
  <2>1. IsReturned(fallback)
    BY <1>1, LadderIs
  <2> QED BY <2>1, NoneIsReturned DEF MissOf, FallbackOf, IsReturned
<1> DEFINE before == InTurn(SubSeq(outs, 1, first - 1))
           after == InTurn(SubSeq(outs, first + 1, Len(outs)))
           rest == InTurn(SubSeq(news, first + 1, Len(news)))
<1>15. first \in 1 .. Len(outs) /\ first \in 1 .. Len(news)
  BY <1>1, <1>7, <1>9
<1>16. /\ before \in Outcome /\ after \in Outcome /\ outs[first] \in Outcome
       /\ InTurn(outs) = AndThen(AndThen(before, outs[first]), after)
  BY <1>7, <1>15, TurnsSplit
<1>17. /\ rest \in Outcome /\ news[first] \in Outcome
       /\ InTurn(news) = AndThen(AndThen(before, news[first]), rest)
  <2>1. SubSeq(news, 1, first - 1) = SubSeq(outs, 1, first - 1)
    BY <1>7, <1>8, <1>9, <1>11, <1>15, SameBeginning
  <2>2. /\ rest \in Outcome /\ news[first] \in Outcome
        /\ InTurn(news) = AndThen(AndThen(InTurn(SubSeq(news, 1, first - 1)), news[first]), rest)
    BY <1>8, <1>15, TurnsSplit
  <2> QED BY <2>1, <2>2
<1>18. Executed(f, env, f.body) = InTurn(outs) /\ Executed(g, env, g.body) = InTurn(news)
  BY DEF Executed, outs, news
<1>19. CASE hit # {} \/ ladder.fallback # Unset
  <2>1. outs[first] = news[first]
    BY <1>12, <1>14, <1>19
  <2>2. outs[first].result # Unset
    <3>1. (IF hit # {} THEN value ELSE MissOf(ladder)) \in Literals
      BY <1>13, <1>14, <1>19
    <3> HIDE DEF hit, value, fallback
    <3> QED BY <1>12, <1>16, <3>1, NothingReturned
  <2> HIDE DEF before, after, rest
  <2> QED BY <1>16, <1>17, <1>18, <2>1, <2>2, ResultStays
<1>20. CASE hit = {} /\ ladder.fallback = Unset
  <2>1. outs[first] = Silent /\ news[first] = Ending("None")
    BY <1>12, <1>14, <1>20 DEF Silent, Ending
  <2>2. first = n
    BY <1>2, <1>20
  <2>3. after = Silent /\ rest = Silent
    <3>1. SubSeq(outs, n + 1, n) = <<>> /\ SubSeq(news, n + 1, n) = <<>>
      BY <1>7, SubSeqEmpty
    <3> QED BY <1>7, <1>9, <2>2, <3>1, TurnsStart
  <2> HIDE DEF before, after, rest
  <2>4. InTurn(outs) = before
    BY <1>16, <2>1, <2>3, OneAfterAnother
  <2>5. InTurn(news) = AndThen(before, Ending("None"))
    <3>1. AndThen(before, Ending("None")) \in Outcome
      BY <1>16, NothingReturned, OneAfterAnother
    <3> QED BY <1>16, <1>17, <2>1, <2>3, <3>1, OneAfterAnother
  <2> QED BY <1>16, <1>18, <2>4, <2>5, NothingReturned
<1> QED BY <1>19, <1>20 DEF g

\* The import does what it did, if nothing that moves leaves anything.
LEMMA DispatchMoves ==
  ASSUME NEW f, IsFunction(f), HasLadder(f), f.module.place # "future", MayMove(_find_ladder_in_body(f))
  PROVE  TableDispatchTransformer(f).module = f.module
<1> DEFINE g == TableDispatchTransformer(f)
           ladder == _find_ladder_in_body(f)
           built == _create_dict_assignment(ladder, f.module.place)
           lookup == Lookup(ladder.var, FallbackOf(ladder))
           table == IF f.table = <<>> \/ Overrides(f) THEN TableOf(ladder) ELSE f.table
           body == [i \in DOMAIN f.body |-> IF IsLadder(f.body[i]) THEN lookup ELSE f.body[i]]
           module == Inserted(f.module, built)
<1>1. /\ g = [test_ |-> f.test_, helper |-> f.helper, module |-> module, table |-> table, body |-> body]
      /\ IsLadder(ladder) /\ IsOuter(f, ladder)
  BY DispatchedIs
<1>2. built = Silent
  <2> HIDE DEF ladder
  <2>1. MayMove(ladder)
    BY DEF ladder
  <2> QED BY <1>1, <2>1, TableBuilt
<1>3. f.module \in Modules /\ Silent \in Outcome
  BY FunctionIs, TurnsStart
<1> HIDE DEF g, table, body, built
<1>4. module = f.module
  BY <1>2, <1>3, InsertedIs
<1> HIDE DEF module
<1>5. g.module = module
  BY <1>1
<1> QED BY <1>4, <1>5 DEF g

\* Blocks, and sets of statements.
LEMMA BlocksAre ==
  ASSUME NEW f, NEW D, \A d \in D : IsOuter(f, d), NEW stmts \in Seq(D)
  PROVE  OuterBlock(f, stmts) /\ DOMAIN stmts = 1 .. Len(stmts) /\ \A i \in DOMAIN stmts : stmts[i] \in D
<1>1. Len(stmts) \in Nat /\ DOMAIN stmts = 1 .. Len(stmts) /\ \A i \in DOMAIN stmts : stmts[i] \in D
  BY LenProperties, ElementOfSeq
<1>2. stmts \in Seq(ToSet(stmts))
  <2>1. stmts \in [1 .. Len(stmts) -> ToSet(stmts)]
    <3>1. stmts \in [1 .. Len(stmts) -> D]
      BY LenProperties
    <3> QED BY <1>1, <3>1 DEF ToSet
  <2> QED BY <1>1, <2>1, IsASeq
<1> QED BY <1>1, <1>2 DEF OuterBlock

\* A block is a sequence of whatever its statements are in.
LEMMA BlocksIn ==
  ASSUME NEW stmts, stmts \in Seq(ToSet(stmts)), NEW D, \A i \in DOMAIN stmts : stmts[i] \in D
  PROVE  stmts \in Seq(D)
<1>1. ToSet(stmts) \subseteq D
  BY DEF ToSet
<1> DEFINE S == ToSet(stmts)
<1>2. stmts \in Seq(S) /\ S \subseteq D
  BY <1>1
<1> HIDE DEF S
<1> QED BY <1>2, SeqMonotonic

LEMMA OneTest ==
  ASSUME NEW f, NEW cond, IsCond(f, cond), ~cond.called, ~Compound(cond)
  PROVE  \E t \in [op : DOMAIN Opposite, var : {"x", "l"}] : cond.tests = {t}
<1>1. /\ IsFiniteSet(cond.tests) /\ cond.tests # {}
      /\ cond.tests \subseteq [op : DOMAIN Opposite, var : {"x", "l"}]
  BY DEF IsCond
<1>2. Cardinality(cond.tests) \in Nat /\ Cardinality(cond.tests) # 0 /\ ~(Cardinality(cond.tests) > 1)
  BY <1>1, FS_CardinalityType, FS_EmptySet DEF Compound
<1>3. Cardinality(cond.tests) = 1
  BY <1>2
<1>4. \E t : cond.tests = {t}
  BY <1>1, <1>3, FS_Singleton
<1> QED BY <1>1, <1>4

\* The inverse of a condition is a condition, and holds if it does not.
LEMMA InverseIs ==
  ASSUME NEW f, NEW cond, IsCond(f, cond)
  PROVE  /\ IsCond(f, invert_condition(cond)) /\ invert_condition(cond).called = cond.called
         /\ \A env \in Env :
              (~cond.neg /\ ~cond.called /\ ~Compound(cond) =>
                 \A t \in cond.tests : t.op \in {"eq", "ne"} \/ t.var = "l") =>
              Truth(invert_condition(cond), f, env) = ~Truth(cond, f, env)
<1> DEFINE inverse == invert_condition(cond)
<1>1. /\ cond.neg \in BOOLEAN /\ cond.called \in BOOLEAN
      /\ cond.tests \in SUBSET [op : DOMAIN Opposite, var : {"x", "l"}] /\ IsFiniteSet(cond.tests)
      /\ (cond.called <=> cond.tests = {}) /\ (cond.called => f.helper # {})
      /\ cond = [neg |-> cond.neg, called |-> cond.called, tests |-> cond.tests]
  BY DEF IsCond
<1>2. CASE cond.neg \/ cond.called \/ Compound(cond)
  <2>1. inverse = [neg |-> ~cond.neg, called |-> cond.called, tests |-> cond.tests]
    <3>1. CASE cond.neg
      <4>1. inverse = [cond EXCEPT !.neg = FALSE]
        BY <3>1 DEF invert_condition
      <4> HIDE DEF inverse
      <4> QED BY <1>1, <3>1, <4>1
    <3>2. CASE ~cond.neg
      <4>1. inverse = [cond EXCEPT !.neg = TRUE]
        BY <1>2, <3>2 DEF invert_condition
      <4> HIDE DEF inverse
      <4> QED BY <1>1, <3>2, <4>1
    <3> QED BY <3>1, <3>2
  <2> HIDE DEF inverse
  <2>2. IsCond(f, inverse) /\ inverse.called = cond.called
    BY <1>1, <2>1 DEF IsCond
  <2>3. ASSUME NEW env \in Env PROVE Truth(inverse, f, env) = ~Truth(cond, f, env)
    <3> DEFINE all == \A t \in IF cond.called THEN f.helper ELSE cond.tests : Holds(t, env)
    <3>1. Truth(inverse, f, env) = (inverse.neg # all) /\ Truth(cond, f, env) = (cond.neg # all)
      BY <2>1 DEF Truth
    <3>2. all \in BOOLEAN
      OBVIOUS
    <3> HIDE DEF all
    <3>3. inverse.neg = ~cond.neg
      BY <2>1
    <3> QED BY <1>1, <3>1, <3>2, <3>3
  <2> QED BY <2>2, <2>3 DEF inverse
<1>3. CASE ~cond.neg /\ ~cond.called /\ ~Compound(cond)
  <2>1. PICK t \in [op : DOMAIN Opposite, var : {"x", "l"}] : cond.tests = {t}
    BY <1>3, OneTest
  <2> DEFINE u == Test(Opposite[t.op], t.var)
  <2>2. inverse = [neg |-> FALSE, called |-> FALSE, tests |-> {u}]
    <3>1. inverse = [cond EXCEPT !.tests = {Test(Opposite[s.op], s.var) : s \in cond.tests}]
      BY <1>3 DEF invert_condition
    <3>2. {Test(Opposite[s.op], s.var) : s \in cond.tests} = {u}
      BY <2>1
    <3>3. inverse = [cond EXCEPT !.tests = {u}]
      BY <3>1, <3>2
    <3> HIDE DEF inverse, u
    <3> QED BY <1>1, <1>3, <3>3
  <2>3. t.op \in {"eq", "ne", "lt", "ge"} /\ t.var \in {"x", "l"}
    BY DEF Opposite
  <2>4. /\ u = [op |-> Opposite[t.op], var |-> t.var] /\ u.var = t.var
        /\ u.op = (CASE t.op = "eq" -> "ne" [] t.op = "ne" -> "eq" [] t.op = "lt" -> "ge" [] t.op = "ge" -> "lt")
        /\ u.op \in DOMAIN Opposite
    BY <2>3 DEF Test, Opposite
  <2>5. IsCond(f, inverse) /\ inverse.called = cond.called
    <3>1. IsFiniteSet({u})
      BY FS_Singleton
    <3>2. {u} \in SUBSET [op : DOMAIN Opposite, var : {"x", "l"}]
      BY <2>3, <2>4
    <3> HIDE DEF inverse, u
    <3> QED BY <1>3, <2>2, <3>1, <3>2 DEF IsCond
  <2>6. ASSUME NEW env \in Env, \A s \in cond.tests : s.op \in {"eq", "ne"} \/ s.var = "l"
        PROVE  Truth(inverse, f, env) = ~Truth(cond, f, env)
    <3>1. t.op \in {"eq", "ne"} \/ t.var = "l"
      BY <2>1, <2>6
    <3>2. env["l"] \in 0 .. 1
      BY DEF Env
    <3>3. env["l"] # Unordered
      BY <3>2, RefactorerAssumption
    <3> HIDE DEF u
    <3>4. Holds(u, env) = ~Holds(t, env) /\ Holds(t, env) \in BOOLEAN
      <4>1. CASE t.op = "eq"
        BY <2>4, <4>1 DEF Holds
      <4>2. CASE t.op = "ne"
        BY <2>4, <4>2 DEF Holds
      <4>3. CASE t.op = "lt"
        <5>1. t.var = "l" /\ u.var = "l" /\ u.op = "ge"
          BY <2>4, <3>1, <4>3
        <5> QED BY <3>2, <3>3, <4>3, <5>1 DEF Holds
      <4>4. CASE t.op = "ge"
        <5>1. t.var = "l" /\ u.var = "l" /\ u.op = "lt"
          BY <2>4, <3>1, <4>4
        <5> QED BY <3>2, <3>3, <4>4, <5>1 DEF Holds
      <4> QED BY <2>3, <4>1, <4>2, <4>3, <4>4
    <3>5. Truth(inverse, f, env) = (FALSE # Holds(u, env))
      <4> HIDE DEF inverse
      <4>1. (\A s \in {u} : Holds(s, env)) = Holds(u, env)
        BY <3>4
      <4>2. inverse.neg = FALSE /\ inverse.called = FALSE /\ inverse.tests = {u}
        BY <2>2
      <4> QED BY <4>1, <4>2 DEF Truth
    <3>6. Truth(cond, f, env) = (FALSE # Holds(t, env))
      <4>1. (\A s \in {t} : Holds(s, env)) = Holds(t, env)
        BY <3>4
      <4>2. cond.neg = FALSE /\ cond.called = FALSE
        BY <1>1, <1>3
      <4> QED BY <2>1, <4>1, <4>2 DEF Truth
    <3> HIDE DEF inverse
    <3> QED BY <3>4, <3>5, <3>6
  <2> QED BY <1>3, <2>5, <2>6 DEF inverse
<1> QED BY <1>2, <1>3

\* What takes the place of a statement is a block of the function.
LEMMA GuardedIs ==
  ASSUME NEW f, NEW stmt, IsOuter(f, stmt)
  PROVE  /\ Guarded(stmt) \in Seq(ToSet(Guarded(stmt)))
         /\ \A s \in ToSet(Guarded(stmt)) : IsOuter(f, s)
         /\ Flattens(stmt) =>
              LET guard == If(invert_condition(stmt.cond), <<Return(Const("None"))>>, <<>>)
              IN /\ Guarded(stmt) = <<guard>> \o stmt.body /\ IsOuter(f, guard) /\ IsCond(f, stmt.cond)
                 /\ OuterBlock(f, stmt.body) /\ IsSimple(f, Return(Const("None")))
<1>1. CASE ~Flattens(stmt)
  <2>1. Guarded(stmt) = <<stmt>>
    BY <1>1 DEF Guarded
  <2>2. ToSet(<<stmt>>) = {stmt}
    BY DEF ToSet
  <2>3. <<stmt>> \in Seq({stmt})
    OBVIOUS
  <2> QED BY <1>1, <2>1, <2>2, <2>3
<1>2. CASE Flattens(stmt)
  <2> DEFINE none == Return(Const("None"))
             inverse == invert_condition(stmt.cond)
             guard == If(inverse, <<none>>, <<>>)
             D == {guard} \cup ToSet(stmt.body)
             all == <<guard>> \o stmt.body
  <2>1. stmt.kind = "if"
    BY <1>2 DEF Flattens
  <2>2. IsCond(f, stmt.cond) /\ InnerBlock(f, stmt.body)
    BY <2>1, IfsAre
  <2>3. IsCond(f, inverse)
    BY <2>2, InverseIs
  <2>4. none.kind = "return" /\ none.value = Const("None") /\ none = Return(none.value)
    BY DEF Return
  <2>5. IsSimple(f, none) /\ IsInner(f, none)
    <3> HIDE DEF none
    <3>1. IsSimple(f, none)
      BY <2>4, NoneIsReturned DEF IsSimple
    <3> QED BY <3>1, IfsAre
  <2> HIDE DEF none, inverse
  <2>6. InnerBlock(f, <<none>>) /\ SimpleBlock(f, <<>>)
    <3>1. <<none>> \in Seq(ToSet(<<none>>))
      BY DEF ToSet
    <3>2. <<>> \in Seq(ToSet(<<>>))
      BY EmptySeq
    <3> QED BY <2>5, <3>1, <3>2 DEF InnerBlock, SimpleBlock
  <2>7. IsOuter(f, guard)
    <3>1. /\ guard.kind = "if" /\ guard = If(guard.cond, guard.body, guard.orelse)
          /\ guard.cond = inverse /\ guard.body = <<none>> /\ guard.orelse = <<>>
      BY DEF If
    <3> HIDE DEF guard
    <3> QED BY <2>3, <2>6, <3>1, IfsAre
  <2> HIDE DEF guard
  <2>8. OuterBlock(f, stmt.body)
    BY <2>2, InnersAreOuters DEF InnerBlock, OuterBlock
  <2>9. \A d \in D : IsOuter(f, d)
    BY <2>7, <2>8 DEF OuterBlock, ToSet
  <2>10. all \in Seq(D)
    <3>1. <<guard>> \in Seq(D)
      OBVIOUS
    <3>2. stmt.body \in Seq(D)
      <4>1. \A i \in DOMAIN stmt.body : stmt.body[i] \in D
        BY DEF ToSet
      <4> HIDE DEF D
      <4> QED BY <2>8, <4>1, BlocksIn DEF OuterBlock
    <3> HIDE DEF D
    <3> QED BY <3>1, <3>2, ConcatProperties
  <2>11. Guarded(stmt) = all
    BY <1>2 DEF Guarded, guard, inverse, none
  <2> HIDE DEF all, D
  <2>12. OuterBlock(f, all)
    BY <2>9, <2>10, BlocksAre
  <2>13. \A s \in ToSet(all) : IsOuter(f, s)
    BY <2>12 DEF OuterBlock, ToSet
  <2> QED BY <2>2, <2>5, <2>7, <2>8, <2>11, <2>12, <2>13 DEF OuterBlock, all, guard, inverse, none
<1> QED BY <1>1, <1>2

\* The blocks that are strung together, and what their statements are.
BlocksOf(f) == [i \in DOMAIN f.body |-> Guarded(f.body[i])]
PartsOf(f) == UNION {ToSet(Guarded(f.body[i])) : i \in DOMAIN f.body}

LEMMA FlattenedIs ==
  ASSUME NEW f, IsFunction(f)
  PROVE  LET g == GuardClauseTransformer(f)
         IN /\ g.body = FlattenSeq(BlocksOf(f)) /\ g.table = f.table /\ g.helper = f.helper
            /\ g.module = f.module /\ IsFunction(g)
            /\ BlocksOf(f) \in Seq(Seq(PartsOf(f))) /\ \A s \in PartsOf(f) : IsOuter(f, s)
            /\ \A i \in DOMAIN f.body : Guarded(f.body[i]) \in Seq(PartsOf(f))
<1> DEFINE g == GuardClauseTransformer(f)
           C == PartsOf(f)
           blocks == BlocksOf(f)
           body == FlattenSeq(blocks)
<1>1. /\ f = [test_ |-> f.test_, body |-> f.body, table |-> f.table, helper |-> f.helper, module |-> f.module] /\ OuterBlock(f, f.body)
      /\ f.test_ \in BOOLEAN /\ f.helper \subseteq [op : DOMAIN Opposite, var : {"x", "l"}]
      /\ (\A k \in DOMAIN f.table : f.table[k] \in Literals) /\ f.module \in Modules
  BY FunctionIs
<1>2. DOMAIN f.body = 1 .. Len(f.body) /\ Len(f.body) \in Nat
  BY <1>1, LenProperties DEF OuterBlock
<1>3. \A s \in C : IsOuter(f, s)
  BY <1>1, GuardedIs DEF PartsOf, OuterBlock
<1>4. ASSUME NEW i \in DOMAIN f.body PROVE Guarded(f.body[i]) \in Seq(C)
  <2> DEFINE q == Guarded(f.body[i])
  <2>1. q \in Seq(ToSet(q))
    BY <1>1, GuardedIs DEF OuterBlock
  <2>2. ToSet(q) \subseteq C
    BY DEF PartsOf
  <2> HIDE DEF q
  <2> DEFINE S == ToSet(q)
  <2>3. q \in Seq(S) /\ S \subseteq C
    BY <2>1, <2>2
  <2> HIDE DEF S, C
  <2>4. q \in Seq(C)
    BY <2>3, SeqMonotonic
  <2> QED BY <2>4 DEF q
<1>5. blocks \in Seq(Seq(C))
  <2> HIDE DEF C
  <2>1. blocks \in [1 .. Len(f.body) -> Seq(C)]
    BY <1>2, <1>4 DEF BlocksOf
  <2> HIDE DEF blocks
  <2> QED BY <1>2, <2>1, IsASeq
<1>6. g = [f EXCEPT !.body = body]
  BY DEF GuardClauseTransformer, BlocksOf
<1> HIDE DEF g, C, blocks
<1>7. body \in Seq(C)
  BY <1>5, FlattenIsText
<1> HIDE DEF body
<1>8. g = [test_ |-> f.test_, body |-> body, table |-> f.table, helper |-> f.helper, module |-> f.module]
  BY <1>1, <1>6
<1>9. g.body = body /\ g.table = f.table /\ g.helper = f.helper /\ g.test_ = f.test_
      /\ g.module = f.module
  BY <1>8
<1>10. \A s \in C : IsOuter(g, s)
  <2>1. Has(g, f)
    BY <1>9 DEF Has
  <2> QED BY <1>3, <2>1, StillOfItsKind
<1>11. OuterBlock(g, body)
  BY <1>7, <1>10, BlocksAre
<1>12. IsFunction(g)
  <2>1. g = [test_ |-> g.test_, body |-> g.body, table |-> g.table, helper |-> g.helper, module |-> g.module]
    BY <1>8, <1>9
  <2> QED BY <1>1, <1>9, <1>11, <2>1, FunctionIs
<1>13. \A i \in DOMAIN f.body : Guarded(f.body[i]) \in Seq(C)
  BY <1>4
<1> QED BY <1>3, <1>5, <1>9, <1>12, <1>13 DEF g, C, blocks, body

\* A guard returns what falling through would.
LEMMA GuardDoes ==
  ASSUME NEW f, IsFunction(f), NEW env \in Env, NEW stmt, IsOuter(f, stmt), Flattens(stmt),
         ~stmt.cond.neg /\ ~stmt.cond.called /\ ~Compound(stmt.cond) =>
           \A t \in stmt.cond.tests : t.op \in {"eq", "ne"} \/ t.var = "l",
         NEW C, \A s \in C : IsOuter(f, s), Guarded(stmt) \in Seq(C)
  PROVE  LET done == Doing([s \in C |-> Outer(f, env, s)], Guarded(stmt))
         IN \/ done = Outer(f, env, stmt)
            \/ done = Ending("None") /\ Outer(f, env, stmt) = Silent
<1> DEFINE none == Return(Const("None"))
           guard == If(invert_condition(stmt.cond), <<none>>, <<>>)
           does == [s \in C |-> Outer(f, env, s)]
           q == Guarded(stmt)
<1>1. /\ q = <<guard>> \o stmt.body /\ IsOuter(f, guard) /\ IsCond(f, stmt.cond)
      /\ OuterBlock(f, stmt.body) /\ IsSimple(f, none)
  BY GuardedIs
<1>2. stmt.kind = "if" /\ stmt.orelse = <<>>
  BY DEF Flattens
<1>3. /\ guard.kind = "if" /\ guard.cond = invert_condition(stmt.cond) /\ guard.body = <<none>> /\ guard.orelse = <<>>
  BY DEF If
<1>4. /\ invert_condition(stmt.cond).called = stmt.cond.called
      /\ Truth(invert_condition(stmt.cond), f, env) = ~Truth(stmt.cond, f, env)
  BY <1>1, InverseIs
<1>5. none.kind = "return" /\ none.value = Const("None")
  BY DEF Return
<1> HIDE DEF guard, none, q
<1>6. Executed(f, env, <<>>) = Silent
  <2>1. [i \in DOMAIN <<>> |-> Outer(f, env, <<>>[i])] = <<>>
    OBVIOUS
  <2> QED BY <2>1, TurnsStart DEF Executed
<1>7. Executed(f, env, <<none>>) = Ending("None")
  <2>1. [i \in DOMAIN <<none>> |-> Outer(f, env, <<none>>[i])] = <<Outer(f, env, none)>>
    OBVIOUS
  <2>2. Outer(f, env, none) = Simple(f, env, none) /\ Simple(f, env, none) \in Outcome
    BY <1>1, SimpleDoes
  <2>3. Simple(f, env, none) = Ending("None")
    BY <1>5, NoneIsReturned DEF Simple
  <2>4. InTurn(<<Outer(f, env, none)>>) = Outer(f, env, none)
    BY <2>2, TurnOne
  <2> QED BY <2>1, <2>2, <2>3, <2>4 DEF Executed
<1>8. Outer(f, env, stmt) = IF Unnamed(f, stmt) THEN Ending("NameError")
                            ELSE IF Truth(stmt.cond, f, env) THEN Executed(f, env, stmt.body) ELSE Silent
  <2>1. Outer(f, env, stmt) = IF Unnamed(f, stmt) THEN Ending("NameError") ELSE Executed(f, env, Chosen(f, env, stmt))
    BY <1>2, OuterDoes
  <2> QED BY <1>2, <1>6, <2>1 DEF Chosen
<1>9. Outer(f, env, guard) = IF Unnamed(f, stmt) THEN Ending("NameError")
                             ELSE IF Truth(stmt.cond, f, env) THEN Silent ELSE Ending("None")
  <2>1. Outer(f, env, guard) = IF Unnamed(f, guard) THEN Ending("NameError") ELSE Executed(f, env, Chosen(f, env, guard))
    BY <1>1, <1>3, OuterDoes
  <2>2. Unnamed(f, guard) = Unnamed(f, stmt)
    BY <1>3, <1>4 DEF Unnamed
  <2>3. Chosen(f, env, guard) = IF Truth(stmt.cond, f, env) THEN <<>> ELSE <<none>>
    BY <1>3, <1>4 DEF Chosen
  <2> QED BY <1>6, <1>7, <2>1, <2>2, <2>3
<1>10. does \in [C -> Outcome] /\ \A s \in C : does[s] = Outer(f, env, s)
  BY OuterDoes
<1>11. DOMAIN q = 1 .. Len(q) /\ \A i \in DOMAIN q : q[i] \in C
  <2>1. q \in Seq(C)
    BY DEF q
  <2> QED BY <2>1, BlocksAre
<1> HIDE DEF does
<1>12. guard \in C /\ stmt.body \in Seq(C)
  <2> DEFINE D == {guard} \cup ToSet(stmt.body)
             b == stmt.body
  <2>1. <<guard>> \in Seq(D) /\ Len(<<guard>>) = 1 /\ <<guard>>[1] = guard
    OBVIOUS
  <2>2. b \in Seq(D) /\ b \in Seq(ToSet(b)) /\ DOMAIN b = 1 .. Len(b) /\ Len(b) \in Nat
    <3>1. b \in Seq(ToSet(b)) /\ \A i \in DOMAIN b : b[i] \in D
      BY <1>1 DEF OuterBlock, ToSet
    <3> HIDE DEF b, D
    <3>2. b \in Seq(D)
      BY <3>1, BlocksIn
    <3> QED BY <3>1, <3>2, LenProperties
  <2> DEFINE one == <<guard>>
  <2>3. one \in Seq(D) /\ Len(one) = 1 /\ one[1] = guard /\ q = one \o b
    BY <1>1, <2>1
  <2> HIDE DEF D, b, one
  <2>4. /\ q \in Seq(D) /\ Len(q) = 1 + Len(b)
        /\ \A i \in 1 .. (1 + Len(b)) : q[i] = IF i <= 1 THEN one[i] ELSE b[i - 1]
    <3>1. /\ one \o b \in Seq(D) /\ Len(one \o b) = Len(one) + Len(b)
          /\ \A i \in 1 .. (Len(one) + Len(b)) : (one \o b)[i] = IF i <= Len(one) THEN one[i] ELSE b[i - Len(one)]
      BY <2>2, <2>3, ConcatProperties
    <3> QED BY <2>3, <3>1
  <2>5. guard \in C
    <3>1. 1 \in DOMAIN q /\ q[1] = guard
      BY <1>11, <2>2, <2>3, <2>4
    <3> QED BY <1>11, <3>1
  <2>6. \A i \in DOMAIN b : b[i] \in C
    <3>1. ASSUME NEW i \in DOMAIN b PROVE b[i] \in C
      <4>1. i + 1 \in 1 .. (1 + Len(b)) /\ ~(i + 1 <= 1) /\ (i + 1) - 1 = i
        BY <2>2
      <4>2. q[i + 1] = b[i] /\ i + 1 \in DOMAIN q
        BY <1>11, <2>4, <4>1
      <4> QED BY <1>11, <4>2
    <3> QED BY <3>1
  <2>7. b \in Seq(C)
    BY <2>2, <2>6, BlocksIn
  <2> QED BY <2>5, <2>7 DEF b
<1>13. Doing(does, q) = AndThen(Outer(f, env, guard), Executed(f, env, stmt.body))
  <2>1. <<guard>> \in Seq(C) /\ Doing(does, <<guard>>) = does[guard]
    BY <1>10, <1>12, DoingOne
  <2>2. Doing(does, <<guard>> \o stmt.body) = AndThen(Doing(does, <<guard>>), Doing(does, stmt.body))
    <3> DEFINE one == <<guard>>
    <3>1. one \in Seq(C)
      BY <2>1
    <3> HIDE DEF one
    <3>2. Doing(does, one \o stmt.body) = AndThen(Doing(does, one), Doing(does, stmt.body))
      BY <1>10, <1>12, <3>1, DoingConcat
    <3> QED BY <3>2 DEF one
  <2>3. Doing(does, stmt.body) = Executed(f, env, stmt.body)
    <3>1. \A i \in DOMAIN stmt.body : does[stmt.body[i]] = Outer(f, env, stmt.body[i])
      <4>1. \A i \in DOMAIN stmt.body : stmt.body[i] \in C
        BY <1>12, LenProperties, ElementOfSeq
      <4> QED BY <1>10, <4>1
    <3>2. [i \in DOMAIN stmt.body |-> does[stmt.body[i]]] = [i \in DOMAIN stmt.body |-> Outer(f, env, stmt.body[i])]
      BY <3>1
    <3> QED BY <3>2 DEF Doing, Executed
  <2> QED BY <1>1, <1>10, <1>12, <2>1, <2>2, <2>3
<1>14. Executed(f, env, stmt.body) \in Outcome
  BY <1>1, OuterDoes, BlockDoes DEF OuterBlock
<1>15. /\ \A r \in {"None", "NameError"} : Ending(r) \in Outcome /\ Ending(r).result # Unset
  BY <1>14, NamesAreLiterals, NothingReturned
<1>16. /\ AndThen(Silent, Executed(f, env, stmt.body)) = Executed(f, env, stmt.body)
       /\ \A r \in {"None", "NameError"} : AndThen(Ending(r), Executed(f, env, stmt.body)) = Ending(r)
  BY <1>14, <1>15, OneAfterAnother
<1>17. Doing(does, q) = IF Unnamed(f, stmt) THEN Ending("NameError")
                        ELSE IF Truth(stmt.cond, f, env) THEN Executed(f, env, stmt.body) ELSE Ending("None")
  BY <1>9, <1>13, <1>16
<1> QED BY <1>8, <1>17 DEF q, does

\* Where a function may be flattened.
MayFlatten(f) ==
  \A i \in {j \in DOMAIN f.body : Flattens(f.body[j])} :
    /\ SubSeq(f.body, i + 1, Len(f.body)) \in {<<>>, <<Return(Const("None"))>>}
    /\ ~f.body[i].cond.neg /\ ~f.body[i].cond.called /\ ~Compound(f.body[i].cond) =>
         \A t \in f.body[i].cond.tests : t.op \in {"eq", "ne"} \/ t.var = "l"

\* After an if that is flattened there is nothing, or a return of nothing.
LEMMA AfterFlattened ==
  ASSUME NEW f, IsFunction(f), MayFlatten(f), NEW i \in DOMAIN f.body, Flattens(f.body[i])
  PROVE  /\ i = Len(f.body) \/ (i + 1 = Len(f.body) /\ f.body[i + 1] = Return(Const("None")))
         /\ \A j \in DOMAIN f.body : Flattens(f.body[j]) => j = i
<1> DEFINE n == Len(f.body)
<1>1. /\ f.body \in Seq(ToSet(f.body)) /\ n \in Nat /\ DOMAIN f.body = 1 .. n
  BY FunctionIs, LenProperties DEF OuterBlock
<1>2. ASSUME NEW k \in DOMAIN f.body, Flattens(f.body[k])
      PROVE  k = n \/ (k + 1 = n /\ f.body[k + 1] = Return(Const("None")))
  <2> DEFINE rest == SubSeq(f.body, k + 1, n)
  <2>1. rest \in {<<>>, <<Return(Const("None"))>>}
    BY <1>2 DEF MayFlatten
  <2>2. Len(rest) = n - k /\ \A j \in 1 .. (n - k) : rest[j] = f.body[k + j]
    <3>1. k \in Nat /\ k <= n
      BY <1>1
    <3> DEFINE C == ToSet(f.body)
    <3>2. f.body \in Seq(C)
      BY <1>1
    <3> HIDE DEF C
    <3> QED BY <3>1, <3>2, EndOf
  <2> HIDE DEF rest, n
  <2>3. CASE rest = <<>>
    <3>1. Len(rest) = 0
      BY <2>3
    <3> QED BY <1>1, <2>2, <3>1
  <2>4. CASE rest = <<Return(Const("None"))>>
    <3>1. Len(rest) = 1 /\ rest[1] = Return(Const("None"))
      BY <2>4
    <3>2. n - k = 1 /\ 1 \in 1 .. (n - k)
      <4>1. n - k = 1
        BY <2>2, <3>1, Zenon
      <4> QED BY <4>1
    <3>3. k + 1 = n
      BY <1>1, <3>2
    <3> QED BY <2>2, <3>1, <3>2, <3>3
  <2> QED BY <2>1, <2>3, <2>4
<1>3. ~Flattens(Return(Const("None")))
  BY DEF Flattens, Return
<1>4. ASSUME NEW j \in DOMAIN f.body, Flattens(f.body[j]) PROVE j = i
  <2> HIDE DEF n
  <2>1. (j = n \/ (j + 1 = n /\ ~Flattens(f.body[n]))) /\ (i = n \/ (i + 1 = n /\ ~Flattens(f.body[n])))
    <3>1. j = n \/ (j + 1 = n /\ f.body[j + 1] = Return(Const("None")))
      BY <1>2, <1>4
    <3>2. i = n \/ (i + 1 = n /\ f.body[i + 1] = Return(Const("None")))
      BY <1>2
    <3> QED BY <1>3, <3>1, <3>2
  <2>2. i \in Int /\ j \in Int
    BY <1>1
  <2> QED BY <1>4, <2>1, <2>2
<1> QED BY <1>2, <1>4

LEMMA FlattenDoes ==
  ASSUME NEW f, IsFunction(f), MayFlatten(f), NEW env \in Env
  PROVE  LET g == GuardClauseTransformer(f)
         IN Ended(Executed(g, env, g.body)) = Ended(Executed(f, env, f.body))
<1> DEFINE g == GuardClauseTransformer(f)
           C == PartsOf(f)
           does == [s \in C |-> Outer(f, env, s)]
           blocks == BlocksOf(f)
           outs == [i \in DOMAIN f.body |-> Outer(f, env, f.body[i])]
           news == [i \in DOMAIN blocks |-> Doing(does, blocks[i])]
           n == Len(f.body)
<1> SUFFICES Ended(Executed(g, env, g.body)) = Ended(Executed(f, env, f.body))
  OBVIOUS
<1>1. /\ g.body = FlattenSeq(blocks) /\ g.table = f.table /\ g.helper = f.helper
      /\ blocks \in Seq(Seq(C)) /\ (\A s \in C : IsOuter(f, s))
      /\ \A i \in DOMAIN f.body : Guarded(f.body[i]) \in Seq(C)
  BY FlattenedIs
<1>2. OuterBlock(f, f.body)
  BY FunctionIs
<1>3. outs \in Seq(Outcome) /\ Len(outs) = n /\ n \in Nat /\ DOMAIN f.body = 1 .. n
  BY <1>2, BodyDoes
<1>4. \A i \in 1 .. n : outs[i] = Outer(f, env, f.body[i])
  BY <1>3
<1>5. DOMAIN blocks = 1 .. n /\ \A i \in 1 .. n : blocks[i] = Guarded(f.body[i])
  BY <1>3 DEF BlocksOf
<1> HIDE DEF g, C, blocks
<1>6. does \in [C -> Outcome] /\ \A s \in C : does[s] = Outer(f, env, s)
  BY <1>1, OuterDoes
<1>7. news \in Seq(Outcome) /\ Doing(does, FlattenSeq(blocks)) = InTurn(news)
  <2> HIDE DEF does
  <2> QED BY <1>1, <1>6, DoingFlat
<1>8. Len(news) = n /\ \A i \in 1 .. n : news[i] = Doing(does, Guarded(f.body[i]))
  <2> HIDE DEF does, outs
  <2>1. DOMAIN news = 1 .. n /\ \A i \in 1 .. n : news[i] = Doing(does, Guarded(f.body[i]))
    BY <1>5
  <2> HIDE DEF news, n
  <2>2. DOMAIN news = 1 .. Len(news) /\ Len(news) \in Nat
    BY <1>7, LenProperties
  <2> QED BY <1>3, <2>1, <2>2
<1> HIDE DEF outs, news
<1>9. Executed(g, env, g.body) = InTurn(news) /\ Executed(f, env, f.body) = InTurn(outs)
  <2>1. g.body \in Seq(C)
    BY <1>1, FlattenIsText
  <2>2. \A i \in DOMAIN g.body : g.body[i] \in C
    BY <2>1, LenProperties, ElementOfSeq
  <2>3. HasSame(g, f)
    BY <1>1 DEF HasSame
  <2>4. \A i \in DOMAIN g.body : Outer(g, env, g.body[i]) = does[g.body[i]]
    BY <1>1, <1>6, <2>2, <2>3, SameOuter
  <2>5. [i \in DOMAIN g.body |-> Outer(g, env, g.body[i])] = [i \in DOMAIN g.body |-> does[g.body[i]]]
    BY <2>4
  <2>6. Executed(g, env, g.body) = Doing(does, g.body)
    BY <2>5 DEF Executed, Doing
  <2> QED BY <1>1, <1>7, <2>6 DEF Executed, outs
<1>10. ASSUME NEW i \in 1 .. n, ~Flattens(f.body[i]) PROVE news[i] = outs[i]
  <2> DEFINE s == f.body[i]
  <2>1. Guarded(s) = <<s>> /\ Guarded(s) \in Seq(C)
    BY <1>1, <1>3, <1>10 DEF Guarded
  <2> HIDE DEF s
  <2>2. s \in C
    <3>1. 1 \in DOMAIN <<s>> /\ <<s>>[1] = s /\ <<s>> \in Seq(C)
      BY <2>1
    <3> DEFINE q == <<s>>
    <3>2. 1 \in DOMAIN q /\ q[1] = s /\ q \in Seq(C)
      BY <3>1
    <3> HIDE DEF q
    <3> QED BY <3>2, LenProperties, ElementOfSeq
  <2>3. Doing(does, <<s>>) = does[s]
    BY <1>6, <2>2, DoingOne
  <2>4. news[i] = does[s]
    BY <1>8, <2>1, <2>3 DEF s
  <2>5. does[s] = Outer(f, env, s)
    BY <1>6, <2>2
  <2> QED BY <1>4, <2>4, <2>5 DEF s
<1>11. ASSUME NEW i \in 1 .. n, Flattens(f.body[i])
       PROVE  news[i] = outs[i] \/ (news[i] = Ending("None") /\ outs[i] = Silent)
  <2> DEFINE s == f.body[i]
  <2>1. /\ IsOuter(f, s) /\ Guarded(s) \in Seq(C) /\ Flattens(s)
    BY <1>1, <1>2, <1>3, <1>11 DEF OuterBlock
  <2>2. ~s.cond.neg /\ ~s.cond.called /\ ~Compound(s.cond) =>
           \A t \in s.cond.tests : t.op \in {"eq", "ne"} \/ t.var = "l"
    BY <1>3, <1>11 DEF MayFlatten
  <2> HIDE DEF s
  <2>3. \/ Doing(does, Guarded(s)) = Outer(f, env, s)
        \/ Doing(does, Guarded(s)) = Ending("None") /\ Outer(f, env, s) = Silent
    <3>1. LET done == Doing([x \in C |-> Outer(f, env, x)], Guarded(s))
          IN \/ done = Outer(f, env, s)
             \/ done = Ending("None") /\ Outer(f, env, s) = Silent
      BY <1>1, <2>1, <2>2, GuardDoes
    <3> QED BY <3>1
  <2> HIDE DEF does
  <2>4. news[i] = Doing(does, Guarded(s)) /\ outs[i] = Outer(f, env, s)
    BY <1>4, <1>8 DEF s
  <2> QED BY <2>3, <2>4
<1> HIDE DEF does
<1>12. CASE \A i \in 1 .. n : news[i] = outs[i]
  <2>1. news = outs
    <3> HIDE DEF n
    <3>1. Len(news) = Len(outs) /\ \A i \in 1 .. Len(news) : news[i] = outs[i]
      BY <1>3, <1>8, <1>12
    <3> QED BY <1>3, <1>7, <3>1, SeqEqual
  <2> QED BY <1>9, <2>1
<1>13. ASSUME NEW i \in 1 .. n, news[i] # outs[i]
       PROVE  Ended(Executed(g, env, g.body)) = Ended(Executed(f, env, f.body))
  <2>1. Flattens(f.body[i]) /\ news[i] = Ending("None") /\ outs[i] = Silent
    BY <1>10, <1>11, <1>13
  <2>2. /\ i = n \/ (i + 1 = n /\ f.body[i + 1] = Return(Const("None")))
        /\ \A j \in 1 .. n : Flattens(f.body[j]) => j = i
    BY <1>3, <2>1, AfterFlattened
  <2>3. \A j \in 1 .. n : j # i => news[j] = outs[j]
    BY <1>10, <2>2
  <2> HIDE DEF n
  <2> DEFINE before == InTurn(SubSeq(outs, 1, i - 1))
             after == InTurn(SubSeq(outs, i + 1, Len(outs)))
  <2>4. /\ before \in Outcome /\ after \in Outcome
        /\ InTurn(outs) = AndThen(AndThen(before, Silent), after)
    BY <1>3, <2>1, TurnsSplit
  <2>5. InTurn(news) = AndThen(AndThen(before, Ending("None")), after)
    <3>1. Len(news) = Len(outs) /\ i \in 1 .. Len(outs) /\ i \in 1 .. Len(news)
      BY <1>3, <1>8
    <3>2. \A j \in 1 .. (i - 1) : news[j] = outs[j]
      <4>1. \A j \in 1 .. (i - 1) : j \in 1 .. n /\ j # i
        BY <1>3
      <4> QED BY <2>3, <4>1
    <3>3. \A j \in 1 .. Len(outs) : j > i => news[j] = outs[j]
      <4>1. \A j \in 1 .. n : j > i => j # i
        BY <1>3
      <4> QED BY <1>3, <2>3, <4>1
    <3>4. SubSeq(news, 1, i - 1) = SubSeq(outs, 1, i - 1)
      BY <1>3, <1>7, <3>1, <3>2, SameBeginning
    <3>5. SubSeq(news, i + 1, Len(news)) = SubSeq(outs, i + 1, Len(outs))
      BY <1>3, <1>7, <3>1, <3>3, SameEnd
    <3>6. InTurn(news) = AndThen(AndThen(InTurn(SubSeq(news, 1, i - 1)), news[i]),
                                 InTurn(SubSeq(news, i + 1, Len(news))))
      BY <1>7, <3>1, TurnsSplit
    <3> QED BY <2>1, <3>4, <3>5, <3>6
  <2>6. after \in {Silent, Ending("None")}
    <3>1. CASE i = n
      <4>1. SubSeq(outs, n + 1, n) = <<>>
        BY <1>3, SubSeqEmpty
      <4> QED BY <1>3, <3>1, <4>1, TurnsStart
    <3>2. CASE i + 1 = n /\ f.body[i + 1] = Return(Const("None"))
      <4>1. outs[n] = Ending("None")
        <5> DEFINE none == Return(Const("None"))
        <5>1. n \in 1 .. n /\ f.body[n] = none
          BY <1>3, <3>2
        <5>2. none.kind = "return" /\ none.value = Const("None")
          BY DEF Return
        <5> HIDE DEF none
        <5>3. Outer(f, env, none) = Ending("None")
          BY <5>2, NoneIsReturned DEF Outer, Exec, Inner, Simple
        <5> QED BY <1>4, <5>1, <5>3
      <4> DEFINE rest == SubSeq(outs, i + 1, Len(outs))
      <4>2. rest \in Seq(Outcome) /\ Len(rest) = 1 /\ rest[1] = Ending("None")
        <5>1. i \in Nat /\ i <= Len(outs) /\ Len(outs) - i = 1 /\ i + 1 = n /\ 1 \in 1 .. (Len(outs) - i)
          BY <1>3, <3>2
        <5>2. /\ rest \in Seq(Outcome) /\ Len(rest) = Len(outs) - i
              /\ \A j \in 1 .. (Len(outs) - i) : rest[j] = outs[i + j]
          BY <1>3, <5>1, EndOf
        <5> QED BY <4>1, <5>1, <5>2
      <4> HIDE DEF rest
      <4>3. rest = <<Ending("None")>>
        <5> DEFINE one == <<Ending("None")>>
        <5>1. Ending("None") \in Outcome
          BY <2>4, NothingReturned
        <5>2. one \in Seq(Outcome) /\ Len(one) = 1 /\ one[1] = Ending("None")
          BY <5>1
        <5> HIDE DEF one
        <5>3. Len(rest) = Len(one) /\ \A j \in 1 .. Len(rest) : rest[j] = one[j]
          <6>1. \A j \in 1 .. Len(rest) : j = 1
            BY <4>2
          <6> QED BY <4>2, <5>2, <6>1
        <5>4. rest = one
          BY <4>2, <5>2, <5>3, SeqEqual
        <5> QED BY <5>4 DEF one
      <4>4. InTurn(rest) = Ending("None")
        <5>1. Ending("None") \in Outcome
          BY <2>4, NothingReturned
        <5> QED BY <4>3, <5>1, TurnOne
      <4> QED BY <4>4 DEF rest
    <3> QED BY <2>2, <3>1, <3>2
  <2> HIDE DEF before, after
  <2> DEFINE nothing == Ending("None")
  <2>7. nothing \in Outcome /\ nothing.result # Unset /\ Ended(AndThen(before, nothing)) = Ended(before)
    BY <2>4, NothingReturned, NamesAreLiterals
  <2>8. InTurn(outs) = AndThen(before, after)
    BY <2>4, OneAfterAnother
  <2>9. Ended(InTurn(outs)) = Ended(before)
    <3> HIDE DEF nothing
    <3>1. CASE after = Silent
      BY <2>4, <2>8, <3>1, OneAfterAnother
    <3>2. CASE after = nothing
      BY <2>7, <2>8, <3>2
    <3> QED BY <2>6, <3>1, <3>2 DEF nothing
  <2>10. InTurn(news) = AndThen(before, nothing)
    <3>1. InTurn(news) = AndThen(AndThen(before, nothing), after)
      BY <2>5
    <3> HIDE DEF nothing
    <3> QED BY <2>4, <2>7, <3>1, ResultStays
  <2> HIDE DEF nothing
  <2> QED BY <1>9, <2>7, <2>9, <2>10
<1> QED BY <1>12, <1>13

\* The condition that calls the helper, and an if that has it.
Call == [neg |-> FALSE, called |-> TRUE, tests |-> {}]

LEMMA CallingIs ==
  ASSUME NEW stmts, stmts \in Seq(ToSet(stmts)), HasCompound(stmts),
         \A i \in DOMAIN stmts : stmts[i].kind = "if" => stmts[i] = If(stmts[i].cond, stmts[i].body, stmts[i].orelse)
  PROVE  LET j == First(stmts, IsCompoundIf)
         IN /\ j \in DOMAIN stmts /\ IsCompoundIf(stmts[j])
            /\ CallsHelper(stmts) \in Seq(ToSet(CallsHelper(stmts))) /\ DOMAIN CallsHelper(stmts) = DOMAIN stmts
            /\ \A i \in DOMAIN stmts :
                 CallsHelper(stmts)[i] = IF i = j THEN If(Call, stmts[j].body, stmts[j].orelse) ELSE stmts[i]
<1> DEFINE j == First(stmts, IsCompoundIf)
           found == {i \in DOMAIN stmts : IsCompoundIf(stmts[i])}
           calling == CallsHelper(stmts)
           s == stmts[j]
<1>1. DOMAIN stmts = 1 .. Len(stmts) /\ Len(stmts) \in Nat
  BY LenProperties
<1>2. j \in found
  <2>1. found \in SUBSET Nat /\ found # {}
    BY <1>1 DEF HasCompound
  <2>2. j = Min(found)
    BY DEF First
  <2> HIDE DEF found, j
  <2> QED BY <2>1, <2>2, LeastIs
<1>3. j \in DOMAIN stmts /\ IsCompoundIf(stmts[j]) /\ s.kind = "if"
  BY <1>2 DEF IsCompoundIf
<1>4. calling = [stmts EXCEPT ![j] = [s EXCEPT !.cond = Call]]
  BY DEF CallsHelper, Call
<1>5. [s EXCEPT !.cond = Call] = If(Call, s.body, s.orelse)
  <2>1. s = [kind |-> "if", cond |-> s.cond, body |-> s.body, orelse |-> s.orelse]
    BY <1>3 DEF If
  <2> HIDE DEF s
  <2> QED BY <2>1 DEF If
<1>6. stmts = [i \in DOMAIN stmts |-> stmts[i]]
  BY LenProperties
<1> HIDE DEF j
<1> DEFINE called == If(Call, s.body, s.orelse)
<1>7. calling = [stmts EXCEPT ![j] = called]
  BY <1>4, <1>5
<1> HIDE DEF calling, called, s
<1>8. DOMAIN calling = DOMAIN stmts /\ \A i \in DOMAIN stmts : calling[i] = IF i = j THEN called ELSE stmts[i]
  BY <1>3, <1>6, <1>7
<1>9. calling \in Seq(ToSet(calling))
  <2>1. calling \in [1 .. Len(stmts) -> ToSet(calling)]
    <3>1. calling = [i \in DOMAIN stmts |-> calling[i]]
      BY <1>6, <1>7
    <3>2. \A i \in DOMAIN stmts : calling[i] \in ToSet(calling)
      BY <1>8 DEF ToSet
    <3> QED BY <1>1, <3>1, <3>2
  <2> QED BY <1>1, <2>1, IsASeq
<1> QED BY <1>3, <1>8, <1>9 DEF j, calling, called, s

\* It does what the if did whose tests are in the helper.
LEMMA CalledDoes ==
  ASSUME NEW f, NEW g, HasSame(g, f), NEW stmt, IsCompoundIf(stmt), IsOuter(f, stmt),
         g.helper = stmt.cond.tests, Reads(g.helper) \subseteq Params, NEW env
  PROVE  /\ Outer(g, env, If(Call, stmt.body, stmt.orelse)) = Outer(f, env, stmt)
         /\ IsInner(f, stmt) => Inner(g, env, If(Call, stmt.body, stmt.orelse)) = Inner(f, env, stmt)
<1> DEFINE called == If(Call, stmt.body, stmt.orelse)
           block == Chosen(f, env, stmt)
<1>1. stmt.kind = "if" /\ ~stmt.cond.neg /\ Compound(stmt.cond)
  BY DEF IsCompoundIf
<1>2. IsCond(f, stmt.cond) /\ InnerBlock(f, stmt.body) /\ SimpleBlock(f, stmt.orelse)
  BY <1>1, IfsAre
<1>3. ~stmt.cond.called /\ stmt.cond.neg = FALSE
  <2>1. stmt.cond.called => stmt.cond.tests = {}
    BY <1>2 DEF IsCond
  <2>2. stmt.cond.tests # {}
    BY <1>1, FS_EmptySet DEF Compound
  <2> QED BY <1>1, <1>2, <2>1, <2>2 DEF IsCond
<1>4. /\ called.kind = "if" /\ called.cond = Call /\ called.body = stmt.body /\ called.orelse = stmt.orelse
  BY DEF If
<1> HIDE DEF called
<1>5. Truth(Call, g, env) = Truth(stmt.cond, f, env)
  BY <1>3 DEF Truth, Call
<1>6. ~Unnamed(g, called) /\ ~Unnamed(f, stmt) /\ Chosen(g, env, called) = block
  BY <1>3, <1>4, <1>5 DEF Unnamed, Chosen
<1>7. InnerBlock(f, block)
  <2>1. InnerBlock(f, stmt.orelse)
    BY <1>2, IfsAre DEF SimpleBlock, InnerBlock
  <2> QED BY <1>2, <2>1 DEF Chosen
<1>8. \A h, s : s.kind = "if" /\ ~Unnamed(h, s) =>
        /\ Outer(h, env, s) = InTurn([i \in DOMAIN Chosen(h, env, s) |-> Inner(h, env, Chosen(h, env, s)[i])])
        /\ Inner(h, env, s) = InTurn([i \in DOMAIN Chosen(h, env, s) |-> Simple(h, env, Chosen(h, env, s)[i])])
  BY DEF Outer, Inner, Exec, Unnamed, Chosen
<1> HIDE DEF block
<1>9. [i \in DOMAIN block |-> Inner(g, env, block[i])] = [i \in DOMAIN block |-> Inner(f, env, block[i])]
  BY <1>7, SameInner DEF InnerBlock
<1>10. Outer(g, env, called) = Outer(f, env, stmt)
  <2>1. Outer(g, env, called) = InTurn([i \in DOMAIN block |-> Inner(g, env, block[i])])
    BY <1>4, <1>6, <1>8
  <2>2. Outer(f, env, stmt) = InTurn([i \in DOMAIN block |-> Inner(f, env, block[i])])
    BY <1>1, <1>6, <1>8 DEF block
  <2> QED BY <1>9, <2>1, <2>2
<1>11. ASSUME IsInner(f, stmt) PROVE Inner(g, env, called) = Inner(f, env, stmt)
  <2>1. SimpleBlock(f, block)
    <3>1. SimpleBlock(f, stmt.body)
      BY <1>1, <1>11, IfsAre
    <3> QED BY <1>2, <3>1 DEF block, Chosen
  <2>2. [i \in DOMAIN block |-> Simple(g, env, block[i])] = [i \in DOMAIN block |-> Simple(f, env, block[i])]
    BY <2>1, SameSimple DEF SimpleBlock
  <2>3. Inner(g, env, called) = InTurn([i \in DOMAIN block |-> Simple(g, env, block[i])])
    BY <1>4, <1>6, <1>8
  <2>4. Inner(f, env, stmt) = InTurn([i \in DOMAIN block |-> Simple(f, env, block[i])])
    BY <1>1, <1>6, <1>8 DEF block
  <2> QED BY <2>2, <2>3, <2>4
<1> QED BY <1>10, <1>11 DEF called

\* The if that comes to call the helper: in the body, or in an if of the body.
LEMMA CalledIs ==
  ASSUME NEW f, NEW g, Has(g, f), g.helper # {}, NEW stmt, stmt.kind = "if"
  PROVE  /\ IsOuter(f, stmt) => IsOuter(g, If(Call, stmt.body, stmt.orelse))
         /\ IsInner(f, stmt) => IsInner(g, If(Call, stmt.body, stmt.orelse))
<1> DEFINE called == If(Call, stmt.body, stmt.orelse)
<1>1. /\ called.kind = "if" /\ called.cond = Call /\ called.body = stmt.body /\ called.orelse = stmt.orelse
      /\ called = If(called.cond, called.body, called.orelse)
  BY DEF If
<1>2. IsCond(g, Call)
  <2>1. IsFiniteSet({})
    BY FS_EmptySet
  <2> QED BY <2>1 DEF IsCond, Call
<1>3. /\ \A stmts : SimpleBlock(f, stmts) => SimpleBlock(g, stmts)
      /\ \A stmts : InnerBlock(f, stmts) => InnerBlock(g, stmts)
  BY StillOfItsKind DEF SimpleBlock, InnerBlock
<1> HIDE DEF called
<1>4. ASSUME IsOuter(f, stmt) PROVE IsOuter(g, called)
  <2>1. InnerBlock(f, stmt.body) /\ SimpleBlock(f, stmt.orelse)
    BY <1>4, IfsAre
  <2> QED BY <1>1, <1>2, <1>3, <2>1, IfsAre
<1>5. ASSUME IsInner(f, stmt) PROVE IsInner(g, called)
  <2>1. SimpleBlock(f, stmt.body) /\ SimpleBlock(f, stmt.orelse)
    BY <1>5, IfsAre
  <2> QED BY <1>1, <1>2, <1>3, <2>1, IfsAre
<1> QED BY <1>4, <1>5 DEF called

\* In one block one if comes to call the helper that is made of its condition.
CallsIn(stmts, calling, tests) ==
  /\ calling \in Seq(ToSet(calling)) /\ DOMAIN calling = DOMAIN stmts
  /\ \E j \in DOMAIN stmts :
       /\ IsCompoundIf(stmts[j]) /\ stmts[j].cond.tests = tests
       /\ \A i \in DOMAIN stmts : calling[i] = IF i = j THEN If(Call, stmts[j].body, stmts[j].orelse) ELSE stmts[i]

\* That block is the body, or that of an if of the body.
CallsWithin(stmts, calling, tests) ==
  /\ calling \in Seq(ToSet(calling)) /\ DOMAIN calling = DOMAIN stmts
  /\ \E j \in DOMAIN stmts : \E within :
       /\ stmts[j].kind = "if" /\ CallsIn(stmts[j].body, within, tests)
       /\ \A i \in DOMAIN stmts :
            calling[i] = IF i = j THEN If(stmts[j].cond, within, stmts[j].orelse) ELSE stmts[i]

LEMMA ExtractedCalls ==
  ASSUME NEW f, IsFunction(f), _has_compound_boolean(f)
  PROVE  LET g == PredicateExtractor(f)
             tests == _find_compound_if(f).cond.tests
             helper == IF f.helper = {} \/ Overrides(f) THEN tests ELSE f.helper
         IN /\ g = [test_ |-> f.test_, body |-> g.body, table |-> f.table, helper |-> helper,
                    module |-> Inserted(f.module, Silent)]
            /\ CallsIn(f.body, g.body, tests) \/ CallsWithin(f.body, g.body, tests)
<1> DEFINE g == PredicateExtractor(f)
           tests == _find_compound_if(f).cond.tests
           helper == IF f.helper = {} \/ Overrides(f) THEN tests ELSE f.helper
           module == Inserted(f.module, Silent)
<1>1. f = [test_ |-> f.test_, body |-> f.body, table |-> f.table, helper |-> f.helper, module |-> f.module] /\ OuterBlock(f, f.body)
  BY FunctionIs
<1>2. DOMAIN f.body = 1 .. Len(f.body) /\ Len(f.body) \in Nat /\ f.body = [i \in DOMAIN f.body |-> f.body[i]]
  BY <1>1, LenProperties DEF OuterBlock
<1>3. \A i \in DOMAIN f.body : f.body[i].kind = "if" =>
        /\ f.body[i] = If(f.body[i].cond, f.body[i].body, f.body[i].orelse) /\ InnerBlock(f, f.body[i].body)
  BY <1>1, IfsAre DEF OuterBlock
<1>4. CASE HasCompound(f.body)
  <2> DEFINE j == First(f.body, IsCompoundIf)
             body == CallsHelper(f.body)
  <2>1. /\ j \in DOMAIN f.body /\ IsCompoundIf(f.body[j])
        /\ body \in Seq(ToSet(body)) /\ DOMAIN body = DOMAIN f.body
        /\ \A i \in DOMAIN f.body :
             body[i] = IF i = j THEN If(Call, f.body[j].body, f.body[j].orelse) ELSE f.body[i]
    BY <1>1, <1>3, <1>4, CallingIs DEF OuterBlock
  <2>2. tests = f.body[j].cond.tests
    BY <1>4 DEF _find_compound_if
  <2>3. g = [f EXCEPT !.helper = helper, !.module = module, !.body = body]
    BY <1>4 DEF PredicateExtractor
  <2> HIDE DEF g, tests, helper, module, body, j
  <2>4. /\ g = [test_ |-> f.test_, body |-> body, table |-> f.table, helper |-> helper, module |-> module]
        /\ g.body = body
    BY <1>1, <2>3
  <2>5. CallsIn(f.body, body, tests)
    BY <2>1, <2>2 DEF CallsIn
  <2> QED BY <2>4, <2>5 DEF g, tests, helper, module
<1>5. CASE ~HasCompound(f.body)
  <2> DEFINE j == First(f.body, HoldsCompound)
             found == {i \in DOMAIN f.body : HoldsCompound(f.body[i])}
             s == f.body[j]
             block == s.body
             k == First(block, IsCompoundIf)
             within == CallsHelper(block)
             moved == If(s.cond, within, s.orelse)
             body == [f.body EXCEPT ![j].body = CallsHelper(@)]
  <2>1. j \in found
    <3>1. found \in SUBSET Nat /\ found # {}
      BY <1>2, <1>5 DEF _has_compound_boolean
    <3>2. j = Min(found)
      BY DEF First
    <3> HIDE DEF found, j
    <3> QED BY <3>1, <3>2, LeastIs
  <2>2. j \in DOMAIN f.body /\ s.kind = "if" /\ HasCompound(block)
    BY <2>1 DEF HoldsCompound
  <2>3. s = If(s.cond, s.body, s.orelse) /\ InnerBlock(f, block)
    BY <1>3, <2>2
  <2>4. CallsIn(block, within, f.body[j].body[k].cond.tests)
    <3> HIDE DEF block
    <3>1. \A i \in DOMAIN block : block[i].kind = "if" => block[i] = If(block[i].cond, block[i].body, block[i].orelse)
      BY <2>3, IfsAre DEF InnerBlock
    <3>2. /\ k \in DOMAIN block /\ IsCompoundIf(block[k])
          /\ within \in Seq(ToSet(within)) /\ DOMAIN within = DOMAIN block
          /\ \A i \in DOMAIN block : within[i] = IF i = k THEN If(Call, block[k].body, block[k].orelse) ELSE block[i]
      BY <2>2, <2>3, <3>1, CallingIs DEF InnerBlock
    <3> HIDE DEF within, k
    <3> DEFINE these == block[k].cond.tests
    <3>3. CallsIn(block, within, these)
      <4>1. block[k].cond.tests = these
        OBVIOUS
      <4> HIDE DEF these
      <4> QED BY <3>2, <4>1 DEF CallsIn
    <3>4. these = f.body[j].body[k].cond.tests
      BY DEF block
    <3> QED BY <3>3, <3>4
  <2>5. tests = f.body[j].body[k].cond.tests
    BY <1>5 DEF _find_compound_if
  <2>6. g = [f EXCEPT !.helper = helper, !.module = module, !.body = body]
    <3>1. g = [f EXCEPT !.helper = helper, !.module = module,
                        !.body = IF HasCompound(f.body) THEN CallsHelper(f.body) ELSE body]
      BY DEF PredicateExtractor
    <3> HIDE DEF body, tests, helper, module, g
    <3> QED BY <1>5, <3>1
  <2>7. body = [f.body EXCEPT ![j] = moved]
    <3>1. body = [f.body EXCEPT ![j] = [s EXCEPT !.body = within]]
      OBVIOUS
    <3>2. [s EXCEPT !.body = within] = moved
      <4>1. s = [kind |-> "if", cond |-> s.cond, body |-> s.body, orelse |-> s.orelse]
        BY <2>3 DEF If
      <4> HIDE DEF s, within
      <4> QED BY <4>1 DEF If
    <3> HIDE DEF s, within, moved, body
    <3> QED BY <3>1, <3>2
  <2> HIDE DEF g, tests, helper, module, body, j, k
  <2>8. /\ g = [test_ |-> f.test_, body |-> body, table |-> f.table, helper |-> helper, module |-> module]
        /\ g.body = body
    BY <1>1, <2>6
  <2>9. CallsWithin(f.body, body, tests)
    <3> HIDE DEF moved, within
    <3>1. DOMAIN body = DOMAIN f.body /\ \A i \in DOMAIN f.body : body[i] = IF i = j THEN moved ELSE f.body[i]
      BY <1>2, <2>2, <2>7
    <3>2. body \in Seq(ToSet(body))
      <4>1. body = [i \in DOMAIN f.body |-> body[i]]
        BY <1>2, <2>7
      <4>2. \A i \in DOMAIN f.body : body[i] \in ToSet(body)
        BY <3>1 DEF ToSet
      <4>3. body \in [1 .. Len(f.body) -> ToSet(body)]
        BY <1>2, <4>1, <4>2
      <4> QED BY <1>2, <4>3, IsASeq
    <3>3. CallsIn(f.body[j].body, within, tests)
      BY <2>4, <2>5
    <3>4. moved = If(f.body[j].cond, within, f.body[j].orelse)
      BY DEF moved
    <3> HIDE DEF s, block
    <3>5. \A i \in DOMAIN f.body :
            body[i] = IF i = j THEN If(f.body[j].cond, within, f.body[j].orelse) ELSE f.body[i]
      BY <3>1, <3>4
    <3>6. f.body[j].kind = "if"
      BY <2>2 DEF s
    <3> QED BY <2>2, <3>1, <3>2, <3>3, <3>5, <3>6 DEF CallsWithin
  <2> QED BY <2>8, <2>9 DEF g, tests, helper, module
<1> QED BY <1>4, <1>5

LEMMA TestsAre ==
  ASSUME NEW f, NEW stmt, IsOuter(f, stmt), IsCompoundIf(stmt)
  PROVE  stmt.cond.tests # {} /\ stmt.cond.tests \subseteq [op : DOMAIN Opposite, var : {"x", "l"}]
<1>1. IsCond(f, stmt.cond)
  BY IfsAre DEF IsCompoundIf
<1>2. stmt.cond.tests # {}
  BY FS_EmptySet DEF IsCompoundIf, Compound
<1> QED BY <1>1, <1>2 DEF IsCond

LEMMA CallsAreOfTheirKind ==
  ASSUME NEW f, NEW g, Has(g, f), g.helper # {}, NEW stmts, NEW calling, NEW tests
  PROVE  /\ CallsIn(stmts, calling, tests) /\ InnerBlock(f, stmts) => InnerBlock(g, calling)
         /\ CallsIn(stmts, calling, tests) /\ OuterBlock(f, stmts) => OuterBlock(g, calling)
         /\ CallsWithin(stmts, calling, tests) /\ OuterBlock(f, stmts) => OuterBlock(g, calling)
<1>1. ASSUME CallsIn(stmts, calling, tests), InnerBlock(f, stmts) PROVE InnerBlock(g, calling)
  <2>1. PICK j \in DOMAIN stmts :
          /\ IsCompoundIf(stmts[j])
          /\ \A i \in DOMAIN stmts : calling[i] = IF i = j THEN If(Call, stmts[j].body, stmts[j].orelse) ELSE stmts[i]
    BY <1>1 DEF CallsIn
  <2>2. ASSUME NEW i \in DOMAIN stmts PROVE IsInner(g, calling[i])
    <3>1. IsInner(f, stmts[i]) /\ IsInner(f, stmts[j])
      BY <1>1 DEF InnerBlock
    <3>2. CASE i = j
      BY <2>1, <3>1, <3>2, CalledIs DEF IsCompoundIf
    <3>3. CASE i # j
      BY <2>1, <3>1, <3>3, StillOfItsKind
    <3> QED BY <3>2, <3>3
  <2> QED BY <1>1, <2>2 DEF CallsIn, InnerBlock
<1>2. ASSUME CallsIn(stmts, calling, tests), OuterBlock(f, stmts) PROVE OuterBlock(g, calling)
  <2>1. PICK j \in DOMAIN stmts :
          /\ IsCompoundIf(stmts[j])
          /\ \A i \in DOMAIN stmts : calling[i] = IF i = j THEN If(Call, stmts[j].body, stmts[j].orelse) ELSE stmts[i]
    BY <1>2 DEF CallsIn
  <2>2. ASSUME NEW i \in DOMAIN stmts PROVE IsOuter(g, calling[i])
    <3>1. IsOuter(f, stmts[i]) /\ IsOuter(f, stmts[j])
      BY <1>2 DEF OuterBlock
    <3>2. CASE i = j
      BY <2>1, <3>1, <3>2, CalledIs DEF IsCompoundIf
    <3>3. CASE i # j
      BY <2>1, <3>1, <3>3, StillOfItsKind
    <3> QED BY <3>2, <3>3
  <2> QED BY <1>2, <2>2 DEF CallsIn, OuterBlock
<1>3. ASSUME CallsWithin(stmts, calling, tests), OuterBlock(f, stmts) PROVE OuterBlock(g, calling)
  <2>1. PICK j \in DOMAIN stmts : \E within :
          /\ stmts[j].kind = "if" /\ CallsIn(stmts[j].body, within, tests)
          /\ \A i \in DOMAIN stmts :
               calling[i] = IF i = j THEN If(stmts[j].cond, within, stmts[j].orelse) ELSE stmts[i]
    BY <1>3 DEF CallsWithin
  <2>2. PICK within :
          /\ stmts[j].kind = "if" /\ CallsIn(stmts[j].body, within, tests)
          /\ \A i \in DOMAIN stmts :
               calling[i] = IF i = j THEN If(stmts[j].cond, within, stmts[j].orelse) ELSE stmts[i]
    BY <2>1
  <2>3. IsOuter(f, stmts[j])
    BY <1>3 DEF OuterBlock
  <2>4. IsCond(f, stmts[j].cond) /\ InnerBlock(f, stmts[j].body) /\ SimpleBlock(f, stmts[j].orelse)
    BY <2>2, <2>3, IfsAre
  <2>5. InnerBlock(g, within)
    <3> DEFINE block == stmts[j].body
    <3>1. CallsIn(block, within, tests) /\ InnerBlock(f, block)
      BY <2>2, <2>4
    <3> HIDE DEF block
    <3>2. PICK i \in DOMAIN block :
            /\ IsCompoundIf(block[i])
            /\ \A k \in DOMAIN block : within[k] = IF k = i THEN If(Call, block[i].body, block[i].orelse) ELSE block[k]
      BY <3>1 DEF CallsIn
    <3>3. ASSUME NEW k \in DOMAIN block PROVE IsInner(g, within[k])
      <4>1. IsInner(f, block[k]) /\ IsInner(f, block[i])
        BY <3>1 DEF InnerBlock
      <4>2. CASE k = i
        BY <3>2, <4>1, <4>2, CalledIs DEF IsCompoundIf
      <4>3. CASE k # i
        BY <3>2, <4>1, <4>3, StillOfItsKind
      <4> QED BY <4>2, <4>3
    <3> QED BY <3>1, <3>3 DEF CallsIn, InnerBlock
  <2>6. IsOuter(g, If(stmts[j].cond, within, stmts[j].orelse))
    <3> DEFINE holder == If(stmts[j].cond, within, stmts[j].orelse)
    <3>1. /\ holder = If(holder.cond, holder.body, holder.orelse) /\ holder.kind = "if"
          /\ holder.cond = stmts[j].cond /\ holder.body = within /\ holder.orelse = stmts[j].orelse
      BY DEF If
    <3>2. IsCond(g, stmts[j].cond) /\ SimpleBlock(g, stmts[j].orelse)
      BY <2>4, StillOfItsKind DEF SimpleBlock
    <3> HIDE DEF holder
    <3>3. IsOuter(g, holder)
      BY <2>5, <3>1, <3>2, IfsAre
    <3> QED BY <3>3 DEF holder
  <2>7. ASSUME NEW i \in DOMAIN stmts PROVE IsOuter(g, calling[i])
    <3>1. CASE i = j
      BY <2>2, <2>6, <3>1
    <3>2. CASE i # j
      <4>1. IsOuter(f, stmts[i])
        BY <1>3 DEF OuterBlock
      <4> QED BY <2>2, <3>2, <4>1, StillOfItsKind
    <3> QED BY <3>1, <3>2
  <2> QED BY <1>3, <2>7 DEF CallsWithin, OuterBlock
<1> QED BY <1>1, <1>2, <1>3

\* What becomes of a function with a compound condition.
LEMMA ExtractedIs ==
  ASSUME NEW f, IsFunction(f), _has_compound_boolean(f)
  PROVE  LET g == PredicateExtractor(f)
             tests == _find_compound_if(f).cond.tests
         IN /\ g.helper = IF f.helper = {} \/ Overrides(f) THEN tests ELSE f.helper
            /\ g.table = f.table /\ g.module = Inserted(f.module, Silent) /\ IsFunction(g)
            /\ CallsIn(f.body, g.body, tests) \/ CallsWithin(f.body, g.body, tests)
<1> DEFINE g == PredicateExtractor(f)
           tests == _find_compound_if(f).cond.tests
           helper == IF f.helper = {} \/ Overrides(f) THEN tests ELSE f.helper
           module == Inserted(f.module, Silent)
<1>1. /\ f = [test_ |-> f.test_, body |-> f.body, table |-> f.table, helper |-> f.helper, module |-> f.module] /\ OuterBlock(f, f.body)
      /\ f.test_ \in BOOLEAN /\ f.helper \subseteq [op : DOMAIN Opposite, var : {"x", "l"}]
      /\ (\A k \in DOMAIN f.table : f.table[k] \in Literals) /\ f.module \in Modules
  BY FunctionIs
<1>2. /\ g = [test_ |-> f.test_, body |-> g.body, table |-> f.table, helper |-> helper, module |-> module]
      /\ CallsIn(f.body, g.body, tests) \/ CallsWithin(f.body, g.body, tests)
  BY ExtractedCalls
<1>3. module \in Modules
  BY <1>1, TurnsStart, InsertedIs
<1> HIDE DEF g, tests, module
<1>4. \E stmt : IsOuter(f, stmt) /\ IsCompoundIf(stmt) /\ stmt.cond.tests = tests
  <2>1. CASE CallsIn(f.body, g.body, tests)
    BY <1>1, <2>1 DEF CallsIn, OuterBlock
  <2>2. CASE CallsWithin(f.body, g.body, tests)
    <3>1. PICK j \in DOMAIN f.body : \E within : f.body[j].kind = "if" /\ CallsIn(f.body[j].body, within, tests)
      BY <2>2 DEF CallsWithin
    <3> DEFINE block == f.body[j].body
    <3>2. IsOuter(f, f.body[j])
      BY <1>1 DEF OuterBlock
    <3>3. InnerBlock(f, block)
      BY <3>1, <3>2, IfsAre
    <3>4. \E within : CallsIn(block, within, tests)
      BY <3>1
    <3> HIDE DEF block
    <3>5. \E i \in DOMAIN block : IsCompoundIf(block[i]) /\ block[i].cond.tests = tests
      BY <3>4 DEF CallsIn
    <3> QED BY <3>3, <3>5, InnersAreOuters DEF InnerBlock
  <2> QED BY <1>2, <2>1, <2>2
<1>5. tests # {} /\ tests \subseteq [op : DOMAIN Opposite, var : {"x", "l"}]
  BY <1>4, TestsAre
<1>6. /\ g.table = f.table /\ g.test_ = f.test_ /\ g.module = module /\ g.helper = helper
      /\ helper # {} /\ helper \subseteq [op : DOMAIN Opposite, var : {"x", "l"}]
  <2>1. helper # {} /\ helper \subseteq [op : DOMAIN Opposite, var : {"x", "l"}]
    BY <1>1, <1>5
  <2> HIDE DEF helper
  <2>2. /\ g.table = f.table /\ g.test_ = f.test_ /\ g.module = module /\ g.helper = helper
    BY <1>2
  <2> QED BY <2>1, <2>2
<1> HIDE DEF helper
<1>7. Has(g, f)
  BY <1>6 DEF Has
<1>8. OuterBlock(g, g.body)
  BY <1>1, <1>2, <1>6, <1>7, CallsAreOfTheirKind
<1>9. g = [test_ |-> g.test_, body |-> g.body, table |-> g.table, helper |-> g.helper, module |-> g.module]
  BY <1>2, <1>6
<1>10. IsFunction(g)
  BY <1>1, <1>3, <1>6, <1>8, <1>9, FunctionIs
<1> QED BY <1>2, <1>6, <1>10 DEF g, tests, helper, module

\* Its helper can be called from anywhere.
Asks(g) == Reads(g.helper) \subseteq Params

\* Block by block, what calls the helper does what was done before.
LEMMA CallsDo ==
  ASSUME NEW f, NEW g, NEW env, NEW stmts, NEW calling,
         HasSame(g, f), CallsIn(stmts, calling, g.helper), Asks(g), NEW i \in DOMAIN stmts
  PROVE  /\ DOMAIN calling = DOMAIN stmts
         /\ InnerBlock(f, stmts) => Inner(g, env, calling[i]) = Inner(f, env, stmts[i])
         /\ OuterBlock(f, stmts) => Outer(g, env, calling[i]) = Outer(f, env, stmts[i])
<1>1. PICK j \in DOMAIN stmts :
        /\ IsCompoundIf(stmts[j]) /\ stmts[j].cond.tests = g.helper
        /\ \A k \in DOMAIN stmts : calling[k] = IF k = j THEN If(Call, stmts[j].body, stmts[j].orelse) ELSE stmts[k]
  BY DEF CallsIn
<1>2. DOMAIN calling = DOMAIN stmts
  BY DEF CallsIn
<1>3. ASSUME OuterBlock(f, stmts) PROVE Outer(g, env, calling[i]) = Outer(f, env, stmts[i])
  <2>1. IsOuter(f, stmts[i]) /\ IsOuter(f, stmts[j])
    BY <1>3 DEF OuterBlock
  <2>2. CASE i = j
    BY <1>1, <2>1, <2>2, CalledDoes DEF Asks
  <2>3. CASE i # j
    BY <1>1, <2>1, <2>3, SameOuter
  <2> QED BY <2>2, <2>3
<1>4. ASSUME InnerBlock(f, stmts) PROVE Inner(g, env, calling[i]) = Inner(f, env, stmts[i])
  <2>1. IsInner(f, stmts[i]) /\ IsInner(f, stmts[j])
    BY <1>4 DEF InnerBlock
  <2>2. CASE i = j
    BY <1>1, <2>1, <2>2, CalledDoes, InnersAreOuters DEF Asks
  <2>3. CASE i # j
    BY <1>1, <2>1, <2>3, SameInner
  <2> QED BY <2>2, <2>3
<1> QED BY <1>2, <1>3, <1>4

LEMMA CallsWithinDo ==
  ASSUME NEW f, NEW g, NEW env, NEW stmts, NEW calling,
         HasSame(g, f), CallsWithin(stmts, calling, g.helper), Asks(g), OuterBlock(f, stmts)
  PROVE  DOMAIN calling = DOMAIN stmts /\ \A i \in DOMAIN stmts : Outer(g, env, calling[i]) = Outer(f, env, stmts[i])
<1>1. PICK j \in DOMAIN stmts : \E within :
        /\ stmts[j].kind = "if" /\ CallsIn(stmts[j].body, within, g.helper)
        /\ \A i \in DOMAIN stmts : calling[i] = IF i = j THEN If(stmts[j].cond, within, stmts[j].orelse) ELSE stmts[i]
  BY DEF CallsWithin
<1>2. PICK within :
        /\ stmts[j].kind = "if" /\ CallsIn(stmts[j].body, within, g.helper)
        /\ \A i \in DOMAIN stmts : calling[i] = IF i = j THEN If(stmts[j].cond, within, stmts[j].orelse) ELSE stmts[i]
  BY <1>1
<1>3. DOMAIN calling = DOMAIN stmts
  BY DEF CallsWithin
<1> DEFINE s == stmts[j]
           holder == If(s.cond, within, s.orelse)
<1>4. IsOuter(f, s)
  BY DEF OuterBlock
<1>5. s.kind = "if" /\ IsCond(f, s.cond) /\ InnerBlock(f, s.body) /\ SimpleBlock(f, s.orelse)
  BY <1>2, <1>4, IfsAre
<1>6. holder.kind = "if" /\ holder.cond = s.cond /\ holder.body = within /\ holder.orelse = s.orelse
  BY DEF If
<1> HIDE DEF s, holder
<1>7. Truth(holder.cond, g, env) = Truth(s.cond, f, env) /\ (Unnamed(g, holder) <=> Unnamed(f, s))
  BY <1>5, <1>6, SameTruth DEF Unnamed
<1>8. \A h, stmt : stmt.kind = "if" =>
        Outer(h, env, stmt) =
          IF Unnamed(h, stmt) THEN Ending("NameError")
          ELSE InTurn([i \in DOMAIN Chosen(h, env, stmt) |-> Inner(h, env, Chosen(h, env, stmt)[i])])
  BY DEF Outer, Exec, Unnamed, Chosen
<1> DEFINE Outs(h, block) == [i \in DOMAIN block |-> Inner(h, env, block[i])]
<1>9. Outs(g, within) = Outs(f, s.body)
  <2>1. CallsIn(s.body, within, g.helper)
    BY <1>2 DEF s
  <2> DEFINE block == s.body
  <2>2. InnerBlock(f, block) /\ CallsIn(block, within, g.helper)
    BY <1>5, <2>1
  <2> HIDE DEF block
  <2>3. DOMAIN within = DOMAIN block
    BY <2>2 DEF CallsIn
  <2>4. ASSUME NEW i \in DOMAIN block PROVE Inner(g, env, within[i]) = Inner(f, env, block[i])
    BY <2>2, CallsDo
  <2>5. Outs(g, within) = Outs(f, block)
    BY <2>3, <2>4
  <2> QED BY <2>5 DEF block
<1>10. Outs(g, s.orelse) = Outs(f, s.orelse)
  <2> DEFINE block == s.orelse
  <2>1. \A i \in DOMAIN block : IsInner(f, block[i])
    BY <1>5, IfsAre DEF SimpleBlock
  <2> HIDE DEF block
  <2>2. Outs(g, block) = Outs(f, block)
    BY <2>1, SameInner
  <2> QED BY <2>2 DEF block
<1>11. Outer(g, env, holder) = Outer(f, env, s)
  <2>1. /\ Outer(g, env, holder) = IF Unnamed(g, holder) THEN Ending("NameError")
                                   ELSE InTurn(Outs(g, Chosen(g, env, holder)))
        /\ Outer(f, env, s) = IF Unnamed(f, s) THEN Ending("NameError") ELSE InTurn(Outs(f, Chosen(f, env, s)))
    BY <1>5, <1>6, <1>8
  <2> HIDE DEF Outs
  <2>2. Outs(g, Chosen(g, env, holder)) = Outs(f, Chosen(f, env, s))
    <3>1. CASE Truth(s.cond, f, env)
      BY <1>6, <1>7, <1>9, <3>1 DEF Chosen
    <3>2. CASE ~Truth(s.cond, f, env)
      BY <1>6, <1>7, <1>10, <3>2 DEF Chosen
    <3> QED BY <3>1, <3>2
  <2> QED BY <1>7, <2>1, <2>2
<1>12. ASSUME NEW i \in DOMAIN stmts PROVE Outer(g, env, calling[i]) = Outer(f, env, stmts[i])
  <2>1. CASE i = j
    BY <1>2, <1>11, <2>1 DEF s, holder
  <2>2. CASE i # j
    <3>1. IsOuter(f, stmts[i])
      BY DEF OuterBlock
    <3> QED BY <1>2, <2>2, <3>1, SameOuter
  <2> QED BY <2>1, <2>2
<1> QED BY <1>3, <1>12

\* A condition that comes to be asked of a helper of its own.
LEMMA ExtractDoes ==
  ASSUME NEW f, IsFunction(f), _has_compound_boolean(f), f.helper = {},
         Reads(_find_compound_if(f).cond.tests) \subseteq Params, NEW env \in Env
  PROVE  LET g == PredicateExtractor(f)
         IN Executed(g, env, g.body) = Executed(f, env, f.body)
<1> DEFINE g == PredicateExtractor(f)
<1>1. OuterBlock(f, f.body)
  BY FunctionIs
<1>2. /\ g.helper = _find_compound_if(f).cond.tests /\ g.table = f.table
      /\ CallsIn(f.body, g.body, g.helper) \/ CallsWithin(f.body, g.body, g.helper)
  <2> DEFINE tests == _find_compound_if(f).cond.tests
  <2>1. /\ g.helper = tests /\ g.table = f.table
        /\ CallsIn(f.body, g.body, tests) \/ CallsWithin(f.body, g.body, tests)
    BY ExtractedIs
  <2> HIDE DEF g, tests
  <2>2. CallsIn(f.body, g.body, g.helper) \/ CallsWithin(f.body, g.body, g.helper)
    BY <2>1
  <2> QED BY <2>1, <2>2 DEF tests
<1> HIDE DEF g
<1>3. HasSame(g, f) /\ Asks(g)
  BY <1>2 DEF HasSame, Asks
<1>4. DOMAIN g.body = DOMAIN f.body /\ \A i \in DOMAIN f.body : Outer(g, env, g.body[i]) = Outer(f, env, f.body[i])
  <2> DEFINE was == f.body
             is == g.body
  <2>1. OuterBlock(f, was) /\ (CallsIn(was, is, g.helper) \/ CallsWithin(was, is, g.helper))
    BY <1>1, <1>2
  <2> HIDE DEF was, is
  <2>2. CASE CallsIn(was, is, g.helper)
    <3>1. DOMAIN is = DOMAIN was
      BY <2>2 DEF CallsIn
    <3>2. ASSUME NEW i \in DOMAIN was PROVE Outer(g, env, is[i]) = Outer(f, env, was[i])
      BY <1>3, <2>1, <2>2, CallsDo
    <3> QED BY <3>1, <3>2 DEF was, is
  <2>3. CASE CallsWithin(was, is, g.helper)
    <3>1. DOMAIN is = DOMAIN was /\ \A i \in DOMAIN was : Outer(g, env, is[i]) = Outer(f, env, was[i])
      BY <1>3, <2>1, <2>3, CallsWithinDo
    <3> QED BY <3>1 DEF was, is
  <2> QED BY <2>1, <2>2, <2>3
<1>5. [i \in DOMAIN g.body |-> Outer(g, env, g.body[i])] = [i \in DOMAIN f.body |-> Outer(f, env, f.body[i])]
  BY <1>4
<1>6. Executed(g, env, g.body) = Executed(f, env, f.body)
  BY <1>5 DEF Executed
<1> QED BY <1>6 DEF g

\* What assertions are made of, what is put down in their place, and what has been
\* put down and gathered on the way.
Gathers(f) == {s.tests : s \in {s \in ToSet(f.body) : s.kind = "assert"}}
PutDown(f) == ToSet(f.body) \cup {AssertEqual(tests) : tests \in SUBSET (UNION Gathers(f))}
Halfway(f) == [body : Seq(PutDown(f)), gathered : Seq(Gathers(f))]

Asserted(gathered) == [i \in DOMAIN gathered |-> AssertEqual(gathered[i])]
Flushed(gathered) ==
  IF Len(gathered) < 3 THEN Asserted(gathered) ELSE <<AssertEqual(UNION ToSet(gathered))>>

LEMMA AssertedIs ==
  ASSUME NEW f, NEW gathered \in Seq(Gathers(f))
  PROVE  /\ Asserted(gathered) \in Seq(PutDown(f)) /\ Flushed(gathered) \in Seq(PutDown(f))
         /\ Len(Asserted(gathered)) = Len(gathered) /\ Len(gathered) \in Nat /\ DOMAIN gathered = 1 .. Len(gathered)
         /\ AssertEqual(UNION ToSet(gathered)) \in PutDown(f)
<1> DEFINE n == Len(gathered)
           list == Asserted(gathered)
           one == AssertEqual(UNION ToSet(gathered))
<1>1. n \in Nat /\ DOMAIN gathered = 1 .. n /\ \A i \in 1 .. n : gathered[i] \in Gathers(f)
  BY LenProperties, ElementOfSeq
<1>2. \A tests \in SUBSET (UNION Gathers(f)) : AssertEqual(tests) \in PutDown(f)
  BY DEF PutDown
<1>3. one \in PutDown(f)
  <2>1. ToSet(gathered) \subseteq Gathers(f)
    BY <1>1 DEF ToSet
  <2>2. UNION ToSet(gathered) \subseteq UNION Gathers(f)
    BY <2>1
  <2> QED BY <1>2, <2>2
<1> HIDE DEF n
<1>4. list \in Seq(PutDown(f)) /\ Len(list) = n
  <2>1. \A i \in 1 .. n : AssertEqual(gathered[i]) \in PutDown(f)
    <3>1. \A i \in 1 .. n : gathered[i] \subseteq UNION Gathers(f)
      BY <1>1
    <3> QED BY <1>2, <3>1
  <2>2. list \in [1 .. n -> PutDown(f)]
    BY <1>1, <2>1 DEF Asserted
  <2> HIDE DEF list
  <2> QED BY <1>1, <2>2, IsASeq, LenProperties
<1> HIDE DEF list, one
<1>5. <<one>> \in Seq(PutDown(f))
  BY <1>3
<1>6. Flushed(gathered) \in Seq(PutDown(f))
  BY <1>4, <1>5 DEF Flushed, list, one
<1> QED BY <1>1, <1>3, <1>4, <1>6 DEF n, list, one

LEMMA ConsolidatedIs ==
  ASSUME NEW f, NEW run \in Halfway(f)
  PROVE  /\ run = [body |-> run.body, gathered |-> run.gathered]
         /\ run.body \in Seq(PutDown(f)) /\ run.gathered \in Seq(Gathers(f))
         /\ _flush_accumulated_asserts(run) = [body |-> run.body \o Flushed(run.gathered), gathered |-> <<>>]
         /\ run.body \o Flushed(run.gathered) \in Seq(PutDown(f))
         /\ \A stmt \in ToSet(f.body) :
              /\ Consolidated(run, stmt) =
                   IF stmt.kind = "assert" THEN [body |-> run.body, gathered |-> Append(run.gathered, stmt.tests)]
                   ELSE [body |-> Append(run.body \o Flushed(run.gathered), stmt), gathered |-> <<>>]
              /\ Consolidated(run, stmt) \in Halfway(f)
<1>1. /\ run = [body |-> run.body, gathered |-> run.gathered]
      /\ run.body \in Seq(PutDown(f)) /\ run.gathered \in Seq(Gathers(f))
  BY DEF Halfway
<1>2. Flushed(run.gathered) \in Seq(PutDown(f))
  BY <1>1, AssertedIs
<1>3. run.body \o Flushed(run.gathered) \in Seq(PutDown(f))
  BY <1>1, <1>2, ConcatProperties
<1>4. _flush_accumulated_asserts(run) = [body |-> run.body \o Flushed(run.gathered), gathered |-> <<>>]
  BY DEF _flush_accumulated_asserts, Flushed, Asserted
<1>5. ASSUME NEW stmt \in ToSet(f.body)
      PROVE  /\ Consolidated(run, stmt) =
                  IF stmt.kind = "assert" THEN [body |-> run.body, gathered |-> Append(run.gathered, stmt.tests)]
                  ELSE [body |-> Append(run.body \o Flushed(run.gathered), stmt), gathered |-> <<>>]
             /\ Consolidated(run, stmt) \in Halfway(f)
  <2> DEFINE whole == run.body \o Flushed(run.gathered)
  <2>1. whole \in Seq(PutDown(f)) /\ stmt \in PutDown(f) /\ <<>> \in Seq(Gathers(f))
    BY <1>3, EmptySeq DEF PutDown
  <2>2. _flush_accumulated_asserts(run) = [body |-> whole, gathered |-> <<>>]
    BY <1>4
  <2> HIDE DEF whole
  <2>3. CASE stmt.kind = "assert"
    <3>1. Consolidated(run, stmt) = [run EXCEPT !.gathered = Append(run.gathered, stmt.tests)]
      BY <2>3 DEF Consolidated
    <3>2. Consolidated(run, stmt) = [body |-> run.body, gathered |-> Append(run.gathered, stmt.tests)]
      BY <1>1, <3>1
    <3>3. stmt.tests \in Gathers(f)
      BY <2>3 DEF Gathers
    <3>4. Append(run.gathered, stmt.tests) \in Seq(Gathers(f))
      BY <1>1, <3>3, AppendProperties
    <3> QED BY <1>1, <2>3, <3>2, <3>4 DEF Halfway
  <2>4. CASE stmt.kind # "assert"
    <3> DEFINE flushed == _flush_accumulated_asserts(run)
    <3>1. Consolidated(run, stmt) = [flushed EXCEPT !.body = Append(flushed.body, stmt)]
      BY <2>4 DEF Consolidated
    <3>2. flushed = [body |-> whole, gathered |-> <<>>] /\ flushed.body = whole
      BY <2>2
    <3> DEFINE more == Append(whole, stmt)
    <3>3. Consolidated(run, stmt) = [flushed EXCEPT !.body = more]
      BY <3>1, <3>2
    <3> HIDE DEF more, flushed
    <3>4. Consolidated(run, stmt) = [body |-> more, gathered |-> <<>>]
      BY <3>2, <3>3
    <3>5. more \in Seq(PutDown(f))
      BY <2>1, AppendProperties DEF more
    <3>6. Consolidated(run, stmt) \in Halfway(f)
      BY <2>1, <3>4, <3>5 DEF Halfway
    <3> QED BY <2>4, <3>4, <3>6 DEF whole, more
  <2> QED BY <2>3, <2>4
<1> QED BY <1>1, <1>3, <1>4, <1>5

\* The runs over a body: after each statement.
RunsBy(f, g) ==
  /\ g[0] = [body |-> <<>>, gathered |-> <<>>]
  /\ \A i \in DOMAIN f.body : g[i] = Consolidated(g[i - 1], f.body[i])
  /\ \A i \in 0 .. Len(f.body) : g[i] \in Halfway(f)
  /\ AssertionConsolidator(f) = [f EXCEPT !.body = _flush_accumulated_asserts(g[Len(f.body)]).body]

LEMMA RunsExist ==
  ASSUME NEW f, f.body \in Seq(ToSet(f.body))
  PROVE  \E g : RunsBy(f, g)
<1> DEFINE T == Halfway(f)
           S == ToSet(f.body)
           stmts == f.body
           start == [body |-> <<>>, gathered |-> <<>>]
           Eq(h) == h = [s \in SUBSET DOMAIN stmts |->
                           IF s = {} THEN start ELSE Consolidated(h[s \ {Max(s)}], stmts[Max(s)])]
           it == CHOOSE h : Eq(h)
           step == [p \in T \X S |-> Consolidated(p[1], p[2])]
<1>1. Len(stmts) \in Nat /\ DOMAIN stmts = 1 .. Len(stmts) /\ \A i \in DOMAIN stmts : stmts[i] \in S
  BY LenProperties, ElementOfSeq
<1>2. start \in T /\ \A a \in T, b \in S : Consolidated(a, b) \in T
  <2>1. start \in T
    BY EmptySeq DEF Halfway
  <2> QED BY <2>1, ConsolidatedIs
<1>3. step \in [T \X S -> T] /\ \A a \in T, b \in S : step[<<a, b>>] = Consolidated(a, b)
  <2> HIDE DEF T, S
  <2> QED BY <1>2
<1>4. \E h : Eq(h)
  <2> HIDE DEF step
  <2>1. PICK h \in [SUBSET DOMAIN stmts -> T] :
          \A s \in SUBSET DOMAIN stmts : h[s] = IF s = {} THEN start ELSE step[<<h[s \ {Max(s)}], stmts[Max(s)]>>]
    <3>1. stmts \in Seq(S)
      OBVIOUS
    <3> HIDE DEF T, S, stmts, start
    <3>2. HasTable(T, start, stmts, step)
      BY <1>2, <1>3, <3>1, FoldTable
    <3> QED BY <3>2 DEF HasTable
  <2> HIDE DEF T, S, start, stmts
  <2>2. ASSUME NEW s \in SUBSET DOMAIN stmts, s # {}
        PROVE  h[s] = Consolidated(h[s \ {Max(s)}], stmts[Max(s)])
    <3>1. Max(s) \in s /\ s \in SUBSET (1 .. Len(stmts))
      <4>1. s \in SUBSET (1 .. Len(stmts))
        BY <1>1
      <4> QED BY <1>1, <2>2, <4>1, LastIsMax
    <3>2. h[s \ {Max(s)}] \in T /\ stmts[Max(s)] \in S
      BY <1>1, <3>1
    <3> QED BY <1>3, <2>1, <2>2, <3>2
  <2> QED BY <2>1, <2>2
<1>5. Eq(it)
  <2> HIDE DEF Eq
  <2> QED BY <1>4, Zenon
<1>6. AssertionConsolidator(f) = [f EXCEPT !.body = _flush_accumulated_asserts(it[DOMAIN stmts]).body]
  BY Zenon DEF AssertionConsolidator, FoldLeft, MapThenFoldSet
<1> DEFINE g == [i \in 0 .. Len(stmts) |-> it[1 .. i]]
<1> HIDE DEF it, T, start
<1>7. g[0] = start
  <2> HIDE DEF stmts
  <2>1. {} \in SUBSET DOMAIN stmts /\ 1 .. 0 = {} /\ 0 \in 0 .. Len(stmts)
    BY <1>1
  <2>2. it[{}] = start
    BY <1>5, <2>1
  <2> QED BY <2>1, <2>2
<1>8. ASSUME NEW i \in DOMAIN stmts PROVE g[i] = Consolidated(g[i - 1], stmts[i])
  <2> HIDE DEF stmts
  <2>1. /\ i - 1 \in 0 .. Len(stmts) /\ i \in 0 .. Len(stmts) /\ 1 .. i \in SUBSET DOMAIN stmts /\ 1 .. i # {}
        /\ Max(1 .. i) = i /\ (1 .. i) \ {i} = 1 .. (i - 1)
    BY <1>1, Prefix, SMTT(30)
  <2>2. it[1 .. i] = Consolidated(it[1 .. (i - 1)], stmts[i])
    BY <1>5, <2>1
  <2> QED BY <2>1, <2>2
<1>9. ASSUME NEW i \in 0 .. Len(stmts) PROVE g[i] \in T
  <2> HIDE DEF stmts, S, g
  <2> DEFINE G == {j \in 0 .. Len(stmts) : g[j] \in T}
  <2>1. 0 \in G
    BY <1>1, <1>2, <1>7
  <2>2. ASSUME NEW j \in 1 .. Len(stmts), j - 1 \in G PROVE j \in G
    <3>1. g[j - 1] \in T /\ j \in DOMAIN stmts /\ stmts[j] \in S /\ j \in 0 .. Len(stmts)
      BY <1>1, <2>2
    <3>2. g[j] \in T
      BY <1>2, <1>8, <3>1
    <3> QED BY <3>1, <3>2
  <2> HIDE DEF G
  <2>3. \A j \in 0 .. Len(stmts) : j \in G
    BY <1>1, <2>1, <2>2, UpTo
  <2> QED BY <2>3 DEF G
<1>10. g[Len(stmts)] = it[DOMAIN stmts]
  BY <1>1
<1> HIDE DEF g
<1>11. RunsBy(f, g)
  BY <1>6, <1>7, <1>8, <1>9, <1>10 DEF RunsBy, start, T
<1> QED BY <1>11

Does(f, env) == [s \in PutDown(f) |-> Outer(f, env, s)]
Holding(tests, env) == \A t \in tests : Holds(t, env)

LEMMA AssertDoes ==
  ASSUME NEW f, NEW env, NEW tests
  PROVE  /\ IsSimple(f, AssertEqual(tests))
         /\ Outer(f, env, AssertEqual(tests)) = IF Holding(tests, env) THEN Silent ELSE Ending("AssertionError")
<1> DEFINE stmt == AssertEqual(tests)
<1>1. stmt.kind = "assert" /\ stmt.tests = tests /\ stmt = AssertEqual(stmt.tests)
  BY DEF AssertEqual
<1> HIDE DEF stmt
<1>2. IsSimple(f, stmt)
  BY <1>1 DEF IsSimple
<1>3. Outer(f, env, stmt) = Simple(f, env, stmt)
  BY <1>1 DEF Outer, Exec, Inner
<1>4. Simple(f, env, stmt) = IF Holding(tests, env) THEN Silent ELSE Ending("AssertionError")
  BY <1>1 DEF Simple, Holding
<1> QED BY <1>2, <1>3, <1>4 DEF stmt

LEMMA PutDownIs ==
  ASSUME NEW f, IsFunction(f), NEW env \in Env
  PROVE  Does(f, env) \in [PutDown(f) -> Outcome] /\ \A s \in PutDown(f) : IsOuter(f, s)
<1>1. ASSUME NEW s \in PutDown(f) PROVE IsOuter(f, s)
  <2>1. CASE s \in ToSet(f.body)
    <3>1. OuterBlock(f, f.body)
      BY FunctionIs
    <3> QED BY <2>1, <3>1 DEF OuterBlock, ToSet
  <2>2. CASE \E tests \in SUBSET (UNION Gathers(f)) : s = AssertEqual(tests)
    BY <2>2, AssertDoes, IfsAre
  <2> QED BY <2>1, <2>2 DEF PutDown
<1>2. \A s \in PutDown(f) : Outer(f, env, s) \in Outcome
  BY <1>1, OuterDoes
<1> QED BY <1>1, <1>2 DEF Does

\* Several assertions do what one of all their tests does.
LEMMA AssertedDoes ==
  ASSUME NEW f, IsFunction(f), NEW env \in Env, NEW gathered \in Seq(Gathers(f))
  PROVE  Doing(Does(f, env), Asserted(gathered)) = Outer(f, env, AssertEqual(UNION ToSet(gathered)))
<1> DEFINE n == Len(gathered)
           list == Asserted(gathered)
           does == Does(f, env)
           outs == [i \in DOMAIN list |-> does[list[i]]]
           fails == Ending("AssertionError")
           So(i) == IF \A j \in 1 .. i : Holding(gathered[j], env) THEN Silent ELSE fails
<1>1. n \in Nat /\ DOMAIN gathered = 1 .. n /\ list \in Seq(PutDown(f)) /\ Len(list) = n /\ DOMAIN list = 1 .. n
  BY AssertedIs, LenProperties
<1>2. does \in [PutDown(f) -> Outcome]
  BY PutDownIs
<1>3. outs \in Seq(Outcome) /\ Len(outs) = n
  BY <1>1, <1>2, DoingIs
<1>4. Silent \in Outcome /\ fails \in Outcome /\ fails.result # Unset
  <2>1. "AssertionError" \in Literals /\ "AssertionError" # Unset
    BY NamesAreLiterals
  <2> QED BY <2>1, EmptySeq DEF Ending, Silent, Outcome
<1>5. ASSUME NEW i \in 1 .. n PROVE outs[i] = IF Holding(gathered[i], env) THEN Silent ELSE fails
  <2>1. list[i] = AssertEqual(gathered[i]) /\ list[i] \in PutDown(f)
    <3>1. list[i] = AssertEqual(gathered[i])
      BY <1>1 DEF Asserted
    <3> HIDE DEF list
    <3> QED BY <1>1, <3>1, ElementOfSeq
  <2>2. outs[i] = Outer(f, env, AssertEqual(gathered[i]))
    <3> HIDE DEF list
    <3> QED BY <1>1, <2>1 DEF Does
  <2> QED BY <2>2, AssertDoes
<1>6. PICK h : TurnsBy(outs, h)
  BY <1>3, TurnsExist
<1>7. h[0] = Silent /\ InTurn(outs) = h[n] /\ \A i \in 1 .. n : h[i] = AndThen(h[i - 1], outs[i])
  <2>1. DOMAIN outs = 1 .. n
    BY <1>1
  <2> HIDE DEF outs
  <2> QED BY <1>3, <1>6, <2>1 DEF TurnsBy
<1> HIDE DEF list, does, outs, fails, n
<1> DEFINE G == {i \in 0 .. n : h[i] = So(i)}
<1>8. 0 \in G
  BY <1>1, <1>7
<1>9. ASSUME NEW i \in 1 .. n, i - 1 \in G PROVE i \in G
  <2>1. h[i - 1] = So(i - 1) /\ h[i] = AndThen(h[i - 1], outs[i]) /\ i \in 0 .. n
    BY <1>1, <1>7, <1>9
  <2>2. \A j : j \in 1 .. i <=> j \in 1 .. (i - 1) \/ j = i
    BY <1>1
  <2>3. So(i) = IF So(i - 1) = fails THEN fails ELSE outs[i]
    <3>1. Silent # fails
      BY <1>4 DEF Silent
    <3> QED BY <1>5, <2>2, <3>1
  <2>4. So(i - 1) \in {Silent, fails}
    OBVIOUS
  <2> HIDE DEF So
  <2>5. outs[i] \in Outcome
    BY <1>4, <1>5
  <2>6. Silent # fails
    BY <1>4 DEF Silent
  <2>7. CASE So(i - 1) = fails
    <3>1. AndThen(fails, outs[i]) = fails
      BY <1>4, <2>5, OneAfterAnother
    <3> QED BY <2>1, <2>3, <2>7, <3>1
  <2>8. CASE So(i - 1) = Silent
    <3>1. AndThen(Silent, outs[i]) = outs[i]
      BY <2>5, OneAfterAnother
    <3> QED BY <2>1, <2>3, <2>6, <2>8, <3>1
  <2> QED BY <2>4, <2>7, <2>8
<1>10. h[n] = So(n)
  <2> HIDE DEF G
  <2>1. n \in Nat
    BY <1>1
  <2>2. \A i \in 0 .. n : i \in G
    BY <1>8, <1>9, <2>1, UpTo
  <2>3. n \in G
    BY <2>1, <2>2
  <2> QED BY <2>3 DEF G
<1>11. Holding(UNION ToSet(gathered), env) <=> \A j \in 1 .. n : Holding(gathered[j], env)
  BY <1>1 DEF Holding, ToSet
<1>12. InTurn(outs) = IF Holding(UNION ToSet(gathered), env) THEN Silent ELSE fails
  BY <1>7, <1>10, <1>11
<1>13. Outer(f, env, AssertEqual(UNION ToSet(gathered))) = InTurn(outs)
  BY <1>12, AssertDoes DEF fails
<1> QED BY <1>13 DEF Doing, outs, list, does

LEMMA FlushedDoes ==
  ASSUME NEW f, IsFunction(f), NEW env \in Env, NEW gathered \in Seq(Gathers(f))
  PROVE  Doing(Does(f, env), Flushed(gathered)) = Doing(Does(f, env), Asserted(gathered))
<1> DEFINE one == AssertEqual(UNION ToSet(gathered))
<1>1. Does(f, env) \in [PutDown(f) -> Outcome] /\ one \in PutDown(f)
  BY PutDownIs, AssertedIs
<1>2. Doing(Does(f, env), <<one>>) = Outer(f, env, one)
  <2> HIDE DEF one
  <2>1. Doing(Does(f, env), <<one>>) = Does(f, env)[one]
    BY <1>1, DoingOne
  <2> QED BY <1>1, <2>1 DEF Does
<1>3. Doing(Does(f, env), <<one>>) = Doing(Does(f, env), Asserted(gathered))
  BY <1>2, AssertedDoes
<1> HIDE DEF one
<1>4. Flushed(gathered) \in {Asserted(gathered), <<one>>}
  BY DEF Flushed, one
<1> QED BY <1>3, <1>4

\* What has been put down does, and what has been gathered would do.
SoFar(f, env, run) == AndThen(Doing(Does(f, env), run.body), Doing(Does(f, env), Asserted(run.gathered)))

LEMMA SoFarIs ==
  ASSUME NEW f, IsFunction(f), NEW env \in Env, NEW run \in Halfway(f)
  PROVE  /\ Doing(Does(f, env), run.body) \in Outcome /\ Doing(Does(f, env), Asserted(run.gathered)) \in Outcome
         /\ SoFar(f, env, run) \in Outcome
         /\ run.body \o Flushed(run.gathered) \in Seq(PutDown(f))
         /\ Doing(Does(f, env), run.body \o Flushed(run.gathered)) = SoFar(f, env, run)
<1> DEFINE does == Does(f, env)
           C == PutDown(f)
           body == run.body
           flushed == Flushed(run.gathered)
<1>1. does \in [C -> Outcome]
  BY PutDownIs
<1>2. body \in Seq(C) /\ run.gathered \in Seq(Gathers(f)) /\ body \o flushed \in Seq(C)
  BY ConsolidatedIs
<1>3. Asserted(run.gathered) \in Seq(C) /\ flushed \in Seq(C)
  BY <1>2, AssertedIs
<1>4. Doing(does, flushed) = Doing(does, Asserted(run.gathered))
  BY <1>2, FlushedDoes
<1> HIDE DEF does, C, body, flushed
<1>5. Doing(does, body) \in Outcome /\ Doing(does, Asserted(run.gathered)) \in Outcome
  BY <1>1, <1>2, <1>3, DoingIs
<1>6. Doing(does, body \o flushed) = AndThen(Doing(does, body), Doing(does, flushed))
  BY <1>1, <1>2, <1>3, DoingConcat
<1>7. AndThen(Doing(does, body), Doing(does, Asserted(run.gathered))) \in Outcome
  BY <1>5, OneAfterAnother
<1> QED BY <1>2, <1>4, <1>5, <1>6, <1>7 DEF SoFar, does, C, body, flushed

\* A statement more does what it does.
LEMMA ConsolidatedDoes ==
  ASSUME NEW f, IsFunction(f), NEW env \in Env, NEW run \in Halfway(f), NEW stmt \in ToSet(f.body)
  PROVE  SoFar(f, env, Consolidated(run, stmt)) = AndThen(SoFar(f, env, run), Outer(f, env, stmt))
<1> DEFINE does == Does(f, env)
           C == PutDown(f)
           put == run.body \o Flushed(run.gathered)
           next == Consolidated(run, stmt)
<1>1. does \in [C -> Outcome] /\ stmt \in C
  BY PutDownIs DEF PutDown
<1>2. does[stmt] = Outer(f, env, stmt) /\ does[stmt] \in Outcome
  BY <1>1 DEF Does
<1>3. run.body \in Seq(C) /\ run.gathered \in Seq(Gathers(f))
  BY ConsolidatedIs
<1>4. /\ Doing(does, run.body) \in Outcome /\ Doing(does, Asserted(run.gathered)) \in Outcome
      /\ SoFar(f, env, run) \in Outcome /\ put \in Seq(C) /\ Doing(does, put) = SoFar(f, env, run)
  BY SoFarIs
<1>5. CASE stmt.kind = "assert"
  <2> DEFINE list == Asserted(run.gathered)
             tests == stmt.tests
             more == Append(run.gathered, tests)
  <2>1. next = [body |-> run.body, gathered |-> more]
    BY <1>5, ConsolidatedIs
  <2>2. stmt = AssertEqual(tests)
    <3>1. OuterBlock(f, f.body)
      BY FunctionIs
    <3>2. IsOuter(f, stmt)
      BY <3>1 DEF OuterBlock, ToSet
    <3>3. IsSimple(f, stmt)
      BY <1>5, <3>2, IfsAre
    <3> QED BY <1>5, <3>3 DEF IsSimple
  <2>3. tests \in Gathers(f)
    BY <1>5 DEF Gathers
  <2>4. list \in Seq(C) /\ Len(list) = Len(run.gathered) /\ Len(run.gathered) \in Nat
        /\ DOMAIN run.gathered = 1 .. Len(run.gathered)
    BY <1>3, AssertedIs
  <2>5. Asserted(more) = Append(list, stmt)
    <3> DEFINE n == Len(run.gathered)
               longer == Append(list, stmt)
    <3>1. more \in Seq(Gathers(f)) /\ Len(more) = n + 1 /\ more[n + 1] = tests /\ \A i \in 1 .. n : more[i] = run.gathered[i]
      BY <1>3, <2>3, <2>4, AppendProperties
    <3>2. longer \in Seq(C) /\ Len(longer) = n + 1 /\ longer[n + 1] = stmt /\ \A i \in 1 .. n : longer[i] = list[i]
      BY <1>1, <2>4, AppendProperties
    <3>3. \A i \in 1 .. n : list[i] = AssertEqual(run.gathered[i])
      BY <2>4 DEF Asserted
    <3> HIDE DEF more, longer, list, tests
    <3>4. Asserted(more) \in Seq(C) /\ Len(Asserted(more)) = n + 1 /\ DOMAIN more = 1 .. (n + 1)
      BY <3>1, AssertedIs
    <3>5. \A i \in 1 .. (n + 1) : Asserted(more)[i] = AssertEqual(more[i])
      BY <3>4 DEF Asserted
    <3>6. \A i \in 1 .. (n + 1) : i \in 1 .. n \/ i = n + 1
      BY <2>4
    <3>7. \A i \in 1 .. (n + 1) : Asserted(more)[i] = longer[i]
      BY <2>2, <3>1, <3>2, <3>3, <3>5, <3>6
    <3> HIDE DEF n
    <3>8. Asserted(more) = longer
      BY <3>2, <3>4, <3>7, SeqEqual
    <3> QED BY <3>8 DEF longer
  <2> HIDE DEF list, more, next, does, C, put
  <2>6. SoFar(f, env, next) = AndThen(Doing(does, run.body), Doing(does, Append(list, stmt)))
    BY <2>1, <2>5 DEF SoFar, does
  <2>7. Doing(does, Append(list, stmt)) = AndThen(Doing(does, list), does[stmt])
    <3> DEFINE last == <<stmt>>
    <3>1. last \in Seq(C) /\ Doing(does, last) = does[stmt] /\ Append(list, stmt) = list \o last
      BY <1>1, <2>4, DoingOne, AppendIsConcat
    <3> HIDE DEF last
    <3> QED BY <1>1, <2>4, <3>1, DoingConcat
  <2>8. AndThen(Doing(does, run.body), AndThen(Doing(does, list), does[stmt])) =
        AndThen(AndThen(Doing(does, run.body), Doing(does, list)), does[stmt])
    BY <1>2, <1>4, InWhateverGrouping DEF list
  <2>9. SoFar(f, env, run) = AndThen(Doing(does, run.body), Doing(does, list))
    BY DEF SoFar, does, list
  <2> QED BY <1>2, <2>6, <2>7, <2>8, <2>9 DEF next
<1>6. CASE stmt.kind # "assert"
  <2>1. next = [body |-> Append(put, stmt), gathered |-> <<>>]
    BY <1>6, ConsolidatedIs
  <2> HIDE DEF next, does, C, put
  <2>2. Doing(does, Append(put, stmt)) = AndThen(Doing(does, put), does[stmt])
    <3> DEFINE last == <<stmt>>
    <3>1. last \in Seq(C) /\ Doing(does, last) = does[stmt] /\ Append(put, stmt) = put \o last
      BY <1>1, <1>4, DoingOne, AppendIsConcat
    <3> HIDE DEF last
    <3> QED BY <1>1, <1>4, <3>1, DoingConcat
  <2>3. Asserted(<<>>) = <<>> /\ Doing(does, <<>>) = Silent
    <3>1. Asserted(<<>>) = <<>>
      BY DEF Asserted
    <3> QED BY <1>1, <3>1, DoingOne
  <2> DEFINE whole == Append(put, stmt)
  <2>4. next.body = whole /\ next.gathered = <<>>
    BY <2>1
  <2> HIDE DEF whole
  <2>5. SoFar(f, env, next) = AndThen(Doing(does, whole), Silent)
    BY <2>3, <2>4 DEF SoFar, does
  <2>6. Doing(does, whole) = AndThen(SoFar(f, env, run), does[stmt])
    BY <1>4, <2>2 DEF whole
  <2>7. Doing(does, whole) \in Outcome
    BY <1>2, <1>4, <2>6, OneAfterAnother
  <2>8. AndThen(Doing(does, whole), Silent) = Doing(does, whole)
    BY <2>7, OneAfterAnother
  <2> QED BY <1>2, <2>5, <2>6, <2>8 DEF next
<1> QED BY <1>5, <1>6

\* What becomes of a test function.
LEMMA AssertionsAre ==
  ASSUME NEW f, IsFunction(f)
  PROVE  LET g == AssertionConsolidator(f)
         IN /\ g.table = f.table /\ g.helper = f.helper /\ g.module = f.module /\ IsFunction(g)
            /\ \E h : RunsBy(f, h) /\ g.body = h[Len(f.body)].body \o Flushed(h[Len(f.body)].gathered)
<1> DEFINE g == AssertionConsolidator(f)
           n == Len(f.body)
<1>1. /\ f = [test_ |-> f.test_, body |-> f.body, table |-> f.table, helper |-> f.helper, module |-> f.module] /\ OuterBlock(f, f.body)
      /\ f.test_ \in BOOLEAN /\ f.helper \subseteq [op : DOMAIN Opposite, var : {"x", "l"}]
      /\ (\A k \in DOMAIN f.table : f.table[k] \in Literals) /\ f.module \in Modules
  BY FunctionIs
<1>2. PICK h : RunsBy(f, h)
  BY <1>1, RunsExist DEF OuterBlock
<1>3. n \in 0 .. n
  BY <1>1, LenProperties DEF OuterBlock
<1> DEFINE end == h[n]
           body == end.body \o Flushed(end.gathered)
<1>4. end \in Halfway(f) /\ g = [f EXCEPT !.body = _flush_accumulated_asserts(end).body]
  BY <1>2, <1>3 DEF RunsBy
<1>5. _flush_accumulated_asserts(end).body = body /\ body \in Seq(PutDown(f))
  <2> HIDE DEF end
  <2>1. _flush_accumulated_asserts(end) = [body |-> body, gathered |-> <<>>]
    BY <1>4, ConsolidatedIs
  <2> HIDE DEF body
  <2>2. body \in Seq(PutDown(f))
    BY <1>4, ConsolidatedIs DEF body
  <2> QED BY <2>1, <2>2
<1> HIDE DEF body, g, end
<1>6. g = [test_ |-> f.test_, body |-> body, table |-> f.table, helper |-> f.helper, module |-> f.module]
  BY <1>1, <1>4, <1>5
<1>7. g.test_ = f.test_ /\ g.body = body /\ g.table = f.table /\ g.helper = f.helper /\ g.module = f.module
  BY <1>6
<1>8. OuterBlock(g, body)
  <2>1. Has(g, f)
    BY <1>7 DEF Has
  <2>2. Len(body) \in Nat /\ DOMAIN body = 1 .. Len(body) /\ \A i \in 1 .. Len(body) : body[i] \in PutDown(f)
    BY <1>5, LenProperties, ElementOfSeq
  <2>3. \A i \in DOMAIN body : IsOuter(f, body[i])
    <3>1. ASSUME NEW s \in ToSet(f.body) PROVE IsOuter(f, s)
      BY <1>1, <3>1 DEF OuterBlock, ToSet
    <3>2. \A s \in PutDown(f) : IsOuter(f, s)
      BY <3>1, AssertDoes, IfsAre DEF PutDown
    <3> QED BY <2>2, <3>2
  <2>4. \A i \in DOMAIN body : IsOuter(g, body[i])
    BY <2>1, <2>3, StillOfItsKind
  <2>5. body \in Seq(ToSet(body))
    <3>1. \A i \in 1 .. Len(body) : body[i] \in ToSet(body)
      BY <2>2 DEF ToSet
    <3>2. body \in [1 .. Len(body) -> PutDown(f)]
      BY <1>5, LenProperties
    <3>3. body \in [1 .. Len(body) -> ToSet(body)]
      BY <3>1, <3>2
    <3> QED BY <2>2, <3>3, IsASeq
  <2> QED BY <2>4, <2>5 DEF OuterBlock
<1>9. IsFunction(g)
  <2>1. g = [test_ |-> g.test_, body |-> g.body, table |-> g.table, helper |-> g.helper, module |-> g.module]
    BY <1>6, <1>7
  <2> QED BY <1>1, <1>7, <1>8, <2>1, FunctionIs
<1> QED BY <1>2, <1>7, <1>9 DEF g, body, end

\* Assertions that become one.
LEMMA ConsolidateDoes ==
  ASSUME NEW f, IsFunction(f), NEW env \in Env
  PROVE  LET g == AssertionConsolidator(f)
         IN Executed(g, env, g.body) = Executed(f, env, f.body)
<1> DEFINE g == AssertionConsolidator(f)
           n == Len(f.body)
           outs == [i \in DOMAIN f.body |-> Outer(f, env, f.body[i])]
           does == Does(f, env)
<1>1. OuterBlock(f, f.body) /\ does \in [PutDown(f) -> Outcome]
  BY FunctionIs, PutDownIs
<1>2. outs \in Seq(Outcome) /\ Len(outs) = n /\ n \in Nat /\ DOMAIN f.body = 1 .. n
  BY <1>1, BodyDoes
<1>3. PICK h : RunsBy(f, h) /\ g.body = h[n].body \o Flushed(h[n].gathered)
  BY AssertionsAre
<1>4. PICK t : TurnsBy(outs, t)
  BY <1>2, TurnsExist
<1>5. t[0] = Silent /\ InTurn(outs) = t[n] /\ \A i \in 1 .. n : t[i] = AndThen(t[i - 1], Outer(f, env, f.body[i]))
  <2>1. DOMAIN outs = 1 .. n /\ \A i \in 1 .. n : outs[i] = Outer(f, env, f.body[i])
    BY <1>2
  <2> HIDE DEF outs
  <2> QED BY <1>2, <1>4, <2>1 DEF TurnsBy
<1> DEFINE G == {i \in 0 .. n : SoFar(f, env, h[i]) = t[i]}
<1>6. 0 \in G
  <2>1. h[0] = [body |-> <<>>, gathered |-> <<>>]
    BY <1>3 DEF RunsBy
  <2>2. Asserted(<<>>) = <<>> /\ Doing(does, <<>>) = Silent
    <3>1. Asserted(<<>>) = <<>>
      BY DEF Asserted
    <3>2. [i \in DOMAIN <<>> |-> does[<<>>[i]]] = <<>>
      OBVIOUS
    <3>3. Doing(does, <<>>) = InTurn(<<>>)
      BY <3>2 DEF Doing
    <3> QED BY <3>1, <3>3, TurnsStart
  <2>3. SoFar(f, env, h[0]) = AndThen(Silent, Silent)
    BY <2>1, <2>2 DEF SoFar
  <2>4. AndThen(Silent, Silent) = Silent
    BY TurnsStart, OneAfterAnother
  <2> QED BY <1>2, <1>5, <2>3, <2>4
<1>7. ASSUME NEW i \in 1 .. n, i - 1 \in G PROVE i \in G
  <2>1. /\ i \in 0 .. n /\ i - 1 \in 0 .. n /\ SoFar(f, env, h[i - 1]) = t[i - 1] /\ f.body[i] \in ToSet(f.body)
    BY <1>2, <1>7 DEF ToSet
  <2>2. h[i] = Consolidated(h[i - 1], f.body[i]) /\ h[i - 1] \in Halfway(f)
    BY <1>2, <1>3, <2>1 DEF RunsBy
  <2>3. SoFar(f, env, h[i]) = AndThen(SoFar(f, env, h[i - 1]), Outer(f, env, f.body[i]))
    BY <2>1, <2>2, ConsolidatedDoes
  <2> QED BY <1>5, <2>1, <2>3
<1>8. SoFar(f, env, h[n]) = InTurn(outs)
  <2> HIDE DEF G, n
  <2>1. \A i \in 0 .. n : i \in G
    BY <1>2, <1>6, <1>7, UpTo
  <2>2. n \in G
    BY <1>2, <2>1
  <2> QED BY <1>5, <2>2 DEF G
<1>9. h[n] \in Halfway(f)
  BY <1>2, <1>3 DEF RunsBy
<1> HIDE DEF G, n, g, outs
<1>10. Doing(does, g.body) = SoFar(f, env, h[n]) /\ g.body \in Seq(PutDown(f))
  BY <1>3, <1>9, SoFarIs
<1>11. Doing(does, g.body) = Executed(g, env, g.body)
  <2>1. HasSame(g, f)
    BY AssertionsAre DEF HasSame, g
  <2>2. \A i \in DOMAIN g.body : g.body[i] \in PutDown(f)
    BY <1>10, LenProperties, ElementOfSeq
  <2>3. \A i \in DOMAIN g.body : does[g.body[i]] = Outer(g, env, g.body[i])
    <3>1. ASSUME NEW s \in PutDown(f) PROVE does[s] = Outer(g, env, s)
      <4>1. IsOuter(f, s)
        BY PutDownIs
      <4> QED BY <2>1, <4>1, SameOuter DEF Does
    <3> QED BY <2>2, <3>1
  <2>4. [i \in DOMAIN g.body |-> does[g.body[i]]] = [i \in DOMAIN g.body |-> Outer(g, env, g.body[i])]
    BY <2>3
  <2> QED BY <2>4 DEF Doing, Executed
<1> QED BY <1>8, <1>10, <1>11 DEF Executed, g, outs

\* Each strategy where a function lends itself to it.
LEMMA TransformedIs ==
  ASSUME NEW f, IsFunction(f), diagnose_function(f) # Unset
  PROVE  /\ IsFunction(Transformed(f)) /\ IsFunction(refactor_source(f))
         /\ Lends(f) => Behaviour(Transformed(f)) = Behaviour(f)
<1> DEFINE strategy == diagnose_function(f)
           h == Transformed(f)
<1>1. /\ strategy \in {"consolidate", "dispatch", "flatten", "extract"}
      /\ strategy = "dispatch" => HasLadder(f)
      /\ strategy = "extract" => _has_compound_boolean(f)
  BY StrategiesFit
<1>2. h = CASE strategy = "consolidate" -> AssertionConsolidator(f)
            [] strategy = "dispatch" -> TableDispatchTransformer(f)
            [] strategy = "flatten" -> GuardClauseTransformer(f)
            [] strategy = "extract" -> PredicateExtractor(f)
            [] OTHER -> f
  BY DEF Transformed
<1>3. IsFunction(h) /\ (Lends(f) => Behaviour(h) = Behaviour(f))
  <2> HIDE DEF h
  <2>1. CASE strategy = "consolidate"
    <3>1. h = AssertionConsolidator(f)
      BY <1>2, <2>1
    <3>2. IsFunction(h) /\ h.module = f.module
      BY <3>1, AssertionsAre
    <3>3. \A env \in Env : Ended(Executed(h, env, h.body)) = Ended(Executed(f, env, f.body))
      BY <3>1, ConsolidateDoes
    <3> QED BY <3>2, <3>3, BehaveAlike
  <2>2. CASE strategy = "dispatch"
    <3>1. h = TableDispatchTransformer(f) /\ HasLadder(f)
      BY <1>1, <1>2, <2>2
    <3>2. IsFunction(h)
      BY <3>1, DispatchedIs
    <3>3. ASSUME Lends(f) PROVE Behaviour(h) = Behaviour(f)
      <4> DEFINE ladder == _find_ladder_in_body(f)
      <4>1. /\ f.table = <<>> /\ f.module.place # "future" /\ MayMove(ladder)
            /\ ladder.fallback # Unset \/ First(f.body, IsLadder) = Len(f.body)
        BY <2>2, <3>3 DEF Lends, MayMove
      <4>2. \A env \in Env : Ended(Executed(h, env, h.body)) = Ended(Executed(f, env, f.body))
        BY <3>1, <4>1, DispatchDoes
      <4>3. h.module = f.module
        BY <3>1, <4>1, DispatchMoves
      <4> QED BY <4>2, <4>3, BehaveAlike
    <3> QED BY <3>2, <3>3
  <2>3. CASE strategy = "flatten"
    <3>1. h = GuardClauseTransformer(f)
      BY <1>2, <2>3
    <3>2. IsFunction(h) /\ h.module = f.module
      BY <3>1, FlattenedIs
    <3>3. ASSUME Lends(f) PROVE Behaviour(h) = Behaviour(f)
      <4>1. MayFlatten(f)
        BY <2>3, <3>3 DEF Lends, MayFlatten
      <4>2. \A env \in Env : Ended(Executed(h, env, h.body)) = Ended(Executed(f, env, f.body))
        BY <3>1, <4>1, FlattenDoes
      <4> QED BY <3>2, <4>2, BehaveAlike
    <3> QED BY <3>2, <3>3
  <2>4. CASE strategy = "extract"
    <3>1. h = PredicateExtractor(f) /\ _has_compound_boolean(f)
      BY <1>1, <1>2, <2>4
    <3>2. IsFunction(h) /\ h.module = Inserted(f.module, Silent)
      BY <3>1, ExtractedIs
    <3>3. ASSUME Lends(f) PROVE Behaviour(h) = Behaviour(f)
      <4>1. f.helper = {} /\ f.module.place # "future" /\ Reads(_find_compound_if(f).cond.tests) \subseteq Params
        BY <2>4, <3>3 DEF Lends
      <4>2. \A env \in Env : Ended(Executed(h, env, h.body)) = Ended(Executed(f, env, f.body))
        BY <3>1, <4>1, ExtractDoes
      <4>3. h.module = f.module
        BY <3>2, <4>1, FunctionIs, TurnsStart, InsertedIs
      <4> QED BY <4>2, <4>3, BehaveAlike
    <3> QED BY <3>2, <3>3
  <2> QED BY <1>1, <2>1, <2>2, <2>3, <2>4
<1>4. refactor_source(f) \in {h, f}
  BY DEF refactor_source
<1> QED BY <1>3, <1>4

\* A function that lends itself to its strategy does what it did before, whatever it
\* is given: it leaves the same trace, and returns or raises the same.  That holds of
\* every function the refactorer comes to, those it has rewritten before included.
THEOREM RefactoringsKeep == RfSpec => RefactoringKeepsBehaviour
<1>1. RfInit => IsFunction(current)
  BY FunctionsAssumption DEF RfInit
<1>2. IsFunction(current) /\ [Refactor]_rfVars => IsFunction(current)'
  <2>1. ASSUME IsFunction(current), Refactor PROVE IsFunction(current')
    BY <2>1, TransformedIs DEF Refactor
  <2>2. ASSUME IsFunction(current), UNCHANGED rfVars PROVE IsFunction(current')
    BY <2>2 DEF rfVars
  <2> QED BY <2>1, <2>2
<1>3. IsFunction(current) /\ [Refactor]_rfVars =>
        [current' # current /\ Lends(current) => Behaviour(current') = Behaviour(current)]_rfVars
  <2> SUFFICES ASSUME IsFunction(current), Refactor, current' # current, Lends(current)
               PROVE  Behaviour(current') = Behaviour(current)
    OBVIOUS
  <2>1. diagnose_function(current) # Unset /\ current' = refactor_source(current)
    BY DEF Refactor
  <2>2. current' = Transformed(current)
    BY <2>1 DEF refactor_source
  <2> QED BY <2>1, <2>2, TransformedIs
<1> QED BY <1>1, <1>2, <1>3, PTL DEF RfSpec, RefactoringKeepsBehaviour
=============================================================================
