------------------------- MODULE TokenBucketProofs -------------------------
(***************************************************************************)
(* TokenBucketGateway for every configuration and any number of requests:  *)
(* the limiter implements WindowLimiter, retries respect Retry-After and   *)
(* use exactly the attempts they are given.                                *)
(***************************************************************************)
EXTENDS TokenBucketGateway, FiniteSetTheorems, SequenceTheorems, TLAPS

USE ConfigAssumption

Counters == [total : Nat, throttled : Nat, successful : Nat, failed : Nat]

\* Counting an event leaves the counters naturals.
LEMMA BumpCounts ==
  ASSUME NEW tel \in Counters, NEW field \in {"total", "throttled", "successful", "failed"}
  PROVE  Bump(tel, field) \in Counters
  BY DEF Bump, Counters

\* A refill never takes anything away, never exceeds the capacity and credits
\* at most the time that has passed.
LEMMA RefillBounds ==
  ASSUME TypeOK
  PROVE  /\ Refilled \in 0 .. Cap
         /\ Refilled <= tokens + (now - last_refill)
  BY DEF TypeOK, Refilled

\* A queue that a request leaves is a queue of requests.
LEMMA LeaveIsAQueue ==
  ASSUME NEW queue \in Seq(Request), NEW r \in Request
  PROVE  Leave(queue, r) \in Seq(Request)
<1>1. CASE \E i \in 1 .. Len(queue) : queue[i] = r
  <2> DEFINE i == CHOOSE i \in 1 .. Len(queue) : queue[i] = r
  <2>1. i \in 1 .. Len(queue)
    BY <1>1
  <2>2. SubSeq(queue, 1, i - 1) \o SubSeq(queue, i + 1, Len(queue)) \in Seq(Request)
    <3> HIDE DEF i
    <3> QED BY <2>1
  <2> QED BY <1>1, <2>2 DEF Leave
<1>2. CASE ~ \E i \in 1 .. Len(queue) : queue[i] = r
  BY <1>2 DEF Leave
<1> QED BY <1>1, <1>2

\* One more token of Cost units fits every window that ends now.
LEMMA LedgerAdmits ==
  ASSUME TypeOK, LedgerBalances, Refilled >= Cost, NEW i \in 1 .. Len(grants)
  PROVE  /\ grants[i] \in Nat /\ grants[i] <= now
         /\ (Len(grants) - i + 2) * Cost + (Refilled - Cost) <= Cap + (now - grants[i])
<1> DEFINE n == Len(grants) - i + 1
<1>1. n \in Nat /\ grants[i] \in Nat /\ tokens \in Nat /\ last_refill \in Nat /\ now \in Nat
      /\ last_refill <= now
  BY DEF TypeOK
<1>2. n * Cost + tokens <= Cap + (last_refill - grants[i]) /\ grants[i] <= last_refill
  BY DEF LedgerBalances
<1>3. Refilled \in Nat /\ Refilled <= tokens + (now - last_refill)
  BY RefillBounds
<1>4. (n + 1) * Cost = n * Cost + Cost /\ n * Cost \in Nat
  BY <1>1
<1>5. (n + 1) * Cost + (Refilled - Cost) <= Cap + (now - grants[i])
  <2> DEFINE m == n * Cost
  <2>1. m \in Nat /\ (n + 1) * Cost = m + Cost
    BY <1>4
  <2>2. m + tokens <= Cap + (last_refill - grants[i])
    BY <1>2
  <2> HIDE DEF m, n
  <2> QED BY <1>1, <1>3, <2>1, <2>2
<1>6. Len(grants) - i + 2 = n + 1
  BY DEF TypeOK
<1> QED BY <1>1, <1>2, <1>5, <1>6

\* A new gateway satisfies the invariant.
LEMMA InitEstablishesIInv == Init => IInv
<1> SUFFICES ASSUME Init PROVE IInv
  OBVIOUS
<1>1. grants = <<>> /\ Len(grants) = 0
  BY DEF Init
<1>2. TypeOK
  <2>1. registered \in BOOLEAN /\ paced \in [Request -> BOOLEAN]
    BY DEF Init
  <2> QED BY <2>1 DEF Init, TypeOK, Stage
<1>3. LedgerBalances /\ WindowConformance
  BY <1>1 DEF LedgerBalances, WindowConformance
<1>4. BackoffCoversRetryAfter /\ RetryAfterIsAFloor /\ SendsAreCounted /\ AllAttemptsAreUsed
  BY DEF Init, BackoffCoversRetryAfter, RetryAfterIsAFloor, SendsAreCounted, AllAttemptsAreUsed
<1> QED BY <1>2, <1>3, <1>4 DEF IInv

\* What the limiter's two outcomes need of the task that runs it.
RunsLimiter(r, queue, tel) ==
  /\ stage[r] \in {"new", "queued", "pacing"}
  /\ queue \in Seq(Request) /\ queue # <<>>
  /\ tel \in Counters

\* Putting a task to sleep in the limiter preserves the invariant: the refill
\* moves credit from elapsed time into the bucket.
LEMMA PacePreservesIInv ==
  ASSUME IInv, NEW r \in Request, NEW queue, NEW tel, RunsLimiter(r, queue, tel),
         Pace(r, queue, tel), arrivals' \in Seq(Request)
  PROVE  IInv'
<1>1. Refilled \in 0 .. Cap /\ Refilled <= tokens + (now - last_refill)
  BY RefillBounds DEF IInv
<1>2. TypeOK'
  <2>1. registered' \in BOOLEAN /\ paced' \in [Request -> BOOLEAN]
    BY DEF IInv, TypeOK, Pace
  <2>2. wakeAt' \in [Request -> Nat]
    BY <1>1 DEF IInv, TypeOK, Pace
  <2>3. stage' \in [Request -> Stage]
    BY DEF IInv, TypeOK, Pace, Stage
  <2>4. tokens' \in 0 .. Cap /\ now' \in Nat /\ last_refill' \in 0 .. now'
    BY <1>1 DEF IInv, TypeOK, Pace
  <2> QED BY <2>1, <2>2, <2>3, <2>4 DEF IInv, TypeOK, RunsLimiter, Pace, sending, Counters
<1>3. LedgerBalances'
  <2> SUFFICES ASSUME NEW i \in 1 .. Len(grants)
               PROVE  /\ grants[i] <= now
                      /\ (Len(grants) - i + 1) * Cost + Refilled <= Cap + (now - grants[i])
    BY DEF LedgerBalances, Pace
  <2> DEFINE m == (Len(grants) - i + 1) * Cost
  <2>1. m \in Nat
    BY DEF IInv, TypeOK
  <2>2. m + tokens <= Cap + (last_refill - grants[i]) /\ grants[i] <= last_refill
    BY DEF IInv, LedgerBalances
  <2> HIDE DEF m
  <2>3. /\ grants[i] \in Nat /\ tokens \in Nat /\ last_refill \in Nat /\ now \in Nat
        /\ last_refill <= now
    <3>1. /\ grants \in Seq(Nat) /\ now \in Nat /\ last_refill \in 0 .. now
          /\ tokens \in 0 .. Cap
      BY DEF IInv, TypeOK
    <3> QED BY <3>1
  <2>4. grants[i] <= now /\ m + Refilled <= Cap + (now - grants[i])
    BY <1>1, <2>1, <2>2, <2>3
  <2> QED BY <2>4 DEF m
<1>4. WindowConformance'
  BY DEF IInv, WindowConformance, Pace
<1>5. BackoffCoversRetryAfter' /\ RetryAfterIsAFloor'
  BY DEF IInv, TypeOK, BackoffCoversRetryAfter, RetryAfterIsAFloor, Pace, sending
<1>6. SendsAreCounted' /\ AllAttemptsAreUsed'
  BY DEF IInv, TypeOK, SendsAreCounted, AllAttemptsAreUsed, RunsLimiter, Pace, sending
<1> QED BY <1>2, <1>3, <1>4, <1>5, <1>6 DEF IInv

\* What one turn of the retry loop does to the task that takes it.
LEMMA TryInvokeFacts ==
  ASSUME TypeOK, NEW r \in Request, NEW a \in Nat, TryInvoke(r, a)
  PROVE  /\ stage' \in [Request -> Stage] /\ attempt' \in [Request -> Nat]
         /\ wakeAt' \in [Request -> Nat] /\ sent' \in [Request -> Nat]
         /\ attempt'[r] = a
         /\ a < MaxRetries => stage'[r] = "calling" /\ sent'[r] = sent[r] + 1
         /\ ~(a < MaxRetries) => stage'[r] = "runtime_error" /\ sent'[r] = sent[r]
         /\ \A q \in Request \ {r} :
              /\ stage'[q] = stage[q] /\ attempt'[q] = attempt[q]
              /\ wakeAt'[q] = wakeAt[q] /\ sent'[q] = sent[q]
<1>1. "calling" \in Stage /\ "runtime_error" \in Stage
  BY DEF Stage, Finished
<1>2. /\ attempt' = [attempt EXCEPT ![r] = a]
      /\ wakeAt' = [wakeAt EXCEPT ![r] = 0]
  BY DEF TryInvoke
<1>3. CASE a < MaxRetries
  <2>1. /\ stage' = [stage EXCEPT ![r] = "calling"]
        /\ sent' = [sent EXCEPT ![r] = @ + 1]
    BY <1>3 DEF TryInvoke
  <2> QED BY <1>1, <1>2, <1>3, <2>1, SMTT(20) DEF TypeOK
<1>4. CASE ~(a < MaxRetries)
  <2>1. stage' = [stage EXCEPT ![r] = "runtime_error"] /\ sent' = sent
    BY <1>4 DEF TryInvoke
  <2> QED BY <1>1, <1>2, <1>4, <2>1 DEF TypeOK
<1> QED BY <1>3, <1>4

\* Taking a token preserves the invariant.
LEMMA GrantPreservesIInv ==
  ASSUME IInv, NEW r \in Request, NEW queue, NEW tel, RunsLimiter(r, queue, tel),
         Grant(r, queue, tel), arrivals' \in Seq(Request)
  PROVE  IInv'
<1>1. Refilled \in 0 .. Cap /\ Refilled >= Cost
  BY RefillBounds DEF IInv, Grant
<1>2. /\ Len(grants') = Len(grants) + 1
      /\ grants'[Len(grants) + 1] = now
      /\ \A i \in 1 .. Len(grants) : grants'[i] = grants[i]
      /\ Len(grants) \in Nat /\ now \in Nat /\ grants \in Seq(Nat)
  <2>1. now \in Nat /\ grants \in Seq(Nat) /\ grants' = Append(grants, now)
    BY Zenon DEF IInv, TypeOK, Grant
  <2> QED BY <2>1
<1>3. tokens' = Refilled - Cost /\ last_refill' = now /\ now' = now
  BY DEF Grant
<1>4. TypeOK'
  <2>1. telemetry' \in Counters
    BY BumpCounts DEF RunsLimiter, Grant
  <2>2. lockQueue' \in Seq(Request) /\ grants' \in Seq(Nat) /\ served' \in Seq(Request)
    BY DEF IInv, TypeOK, RunsLimiter, Grant
  <2>3. stage' \in [Request -> Stage] /\ sent' \in [Request -> Nat]
        /\ attempt' \in [Request -> Nat] /\ wakeAt' \in [Request -> Nat]
    BY TryInvokeFacts DEF IInv, Grant
  <2>4. registered' \in BOOLEAN /\ paced' \in [Request -> BOOLEAN]
    BY DEF IInv, TypeOK, Grant
  <2>5. tokens' \in 0 .. Cap /\ last_refill' \in 0 .. now'
    BY <1>1, <1>2, <1>3
  <2>6. now' \in Nat /\ notBefore' \in [Request -> Nat]
    BY <1>2, <1>3 DEF IInv, TypeOK, Grant
  <2> QED BY <2>1, <2>2, <2>3, <2>4, <2>5, <2>6 DEF TypeOK, Counters
<1>5. LedgerBalances'
  <2> SUFFICES ASSUME NEW i \in 1 .. Len(grants')
               PROVE  /\ grants'[i] <= now
                      /\ (Len(grants') - i + 1) * Cost + (Refilled - Cost)
                           <= Cap + (now - grants'[i])
    BY <1>3 DEF LedgerBalances
  <2>1. CASE i = Len(grants) + 1
    BY <1>1, <1>2, <2>1
  <2>2. CASE i # Len(grants) + 1
    <3>1. i \in 1 .. Len(grants) /\ Len(grants') - i + 1 = Len(grants) - i + 2
      BY <1>2, <2>2
    <3> QED BY <1>1, <1>2, <3>1, LedgerAdmits DEF IInv
  <2> QED BY <2>1, <2>2
<1>6. WindowConformance'
  <2> SUFFICES ASSUME NEW i \in 1 .. Len(grants'), NEW j \in i .. Len(grants')
               PROVE  (j - i + 1) * Cost <= Cap + (grants'[j] - grants'[i])
    BY DEF WindowConformance
  <2>1. CASE j = Len(grants) + 1
    <3> DEFINE m == (Len(grants') - i + 1) * Cost
    <3>1. j - i + 1 = Len(grants') - i + 1 /\ grants'[j] = now
      BY <1>2, <2>1
    <3>2. m + (Refilled - Cost) <= Cap + (now - grants'[i])
      BY <1>3, <1>5 DEF LedgerBalances
    <3>3. m \in Nat /\ grants'[i] \in Nat
      <4>1. grants' \in Seq(Nat) /\ Cost \in Nat
        BY <1>4 DEF TypeOK
      <4>2. Len(grants') - i + 1 \in Nat
        BY <4>1
      <4>3. grants'[i] \in Nat
        BY <4>1
      <4>4. \A a, b \in Nat : a * b \in Nat
        OBVIOUS
      <4> HIDE DEF m
      <4> QED BY <4>1, <4>2, <4>3, <4>4 DEF m
    <3>4. m <= Cap + (now - grants'[i])
      <4> HIDE DEF m
      <4> QED BY <1>1, <1>2, <3>2, <3>3
    <3> QED BY <3>1, <3>4
  <2>2. CASE j # Len(grants) + 1
    <3>1. i \in 1 .. Len(grants) /\ j \in i .. Len(grants)
      BY <1>2, <2>2
    <3> QED BY <1>2, <3>1 DEF IInv, WindowConformance
  <2> QED BY <2>1, <2>2
<1>7. /\ stage'[r] \in {"calling", "runtime_error"} /\ attempt'[r] = 0
      /\ stage'[r] = "calling" => MaxRetries > 0 /\ sent'[r] = 1
      /\ stage'[r] = "runtime_error" => MaxRetries = 0 /\ sent'[r] = 0
  <2>1. sent[r] = 0 /\ 0 \in Nat /\ TryInvoke(r, 0) /\ TypeOK
    BY DEF IInv, SendsAreCounted, RunsLimiter, Grant
  <2>2. CASE 0 < MaxRetries
    BY <2>1, <2>2, TryInvokeFacts
  <2>3. CASE ~(0 < MaxRetries)
    BY <2>1, <2>3, TryInvokeFacts
  <2> QED BY <2>2, <2>3
<1>8. \A q \in Request \ {r} :
        stage'[q] = stage[q] /\ attempt'[q] = attempt[q] /\ wakeAt'[q] = wakeAt[q] /\ sent'[q] = sent[q]
  BY TryInvokeFacts DEF IInv, Grant
<1>9. notBefore' = notBefore
  BY DEF Grant
<1>10. BackoffCoversRetryAfter' /\ RetryAfterIsAFloor'
  BY <1>3, <1>7, <1>8, <1>9 DEF IInv, BackoffCoversRetryAfter, RetryAfterIsAFloor
<1>11. SendsAreCounted' /\ AllAttemptsAreUsed'
  BY <1>7, <1>8 DEF IInv, SendsAreCounted, AllAttemptsAreUsed
<1> QED BY <1>4, <1>5, <1>6, <1>10, <1>11 DEF IInv

\* A step that leaves the bucket and the clock alone keeps the ledger.
LEMMA LedgerUntouched ==
  ASSUME IInv, UNCHANGED <<tokens, last_refill, grants>>
  PROVE  LedgerBalances' /\ WindowConformance'
  BY DEF IInv, LedgerBalances, WindowConformance

\* Every step keeps the invariant.
LEMMA StepPreservesIInv == IInv /\ [Next]_vars => IInv'
<1> SUFFICES ASSUME IInv, [Next]_vars PROVE IInv'
  OBVIOUS
<1> USE DEF bucket, sending, Stage, Finished
<1>1. CASE Tick
  <2>1. TypeOK'
    BY <1>1 DEF Tick, IInv, TypeOK
  <2>2. RetryAfterIsAFloor'
    BY <1>1 DEF Tick, IInv, TypeOK, RetryAfterIsAFloor
  <2>3. BackoffCoversRetryAfter' /\ SendsAreCounted' /\ AllAttemptsAreUsed'
    BY <1>1 DEF Tick, IInv, BackoffCoversRetryAfter, SendsAreCounted, AllAttemptsAreUsed
  <2> QED BY <1>1, <2>1, <2>2, <2>3, LedgerUntouched DEF Tick, IInv
<1>2. CASE register_tool
  <2>1. TypeOK'
    BY <1>2 DEF register_tool, IInv, TypeOK
  <2>2. BackoffCoversRetryAfter' /\ RetryAfterIsAFloor' /\ SendsAreCounted' /\ AllAttemptsAreUsed'
    BY <1>2 DEF register_tool, IInv, BackoffCoversRetryAfter, RetryAfterIsAFloor,
                SendsAreCounted, AllAttemptsAreUsed
  <2> QED BY <1>2, <2>1, <2>2, LedgerUntouched DEF register_tool, IInv
<1>3. ASSUME NEW r \in Request, ExecuteFree(r) PROVE IInv'
  <2>1. RunsLimiter(r, <<r>>, Bump(telemetry, "total")) /\ arrivals' \in Seq(Request)
    BY <1>3, BumpCounts DEF ExecuteFree, RunsLimiter, IInv, TypeOK, Counters
  <2> QED BY <1>3, <2>1, PacePreservesIInv, GrantPreservesIInv DEF ExecuteFree
<1>4. ASSUME NEW r \in Request, ResumeAcquire(r) PROVE IInv'
  <2>1. RunsLimiter(r, lockQueue, telemetry) /\ arrivals' \in Seq(Request)
    BY <1>4 DEF ResumeAcquire, RunsLimiter, IInv, TypeOK, Counters
  <2> QED BY <1>4, <2>1, PacePreservesIInv, GrantPreservesIInv DEF ResumeAcquire
<1>5. ASSUME NEW r \in Request, ExecuteQueued(r) PROVE IInv'
  <2>1. TypeOK'
    <3>1. telemetry' \in Counters
      BY <1>5, BumpCounts DEF ExecuteQueued, IInv, TypeOK, Counters
    <3>2. lockQueue' \in Seq(Request) /\ arrivals' \in Seq(Request)
      BY <1>5 DEF ExecuteQueued, IInv, TypeOK
    <3> QED BY <1>5, <3>1, <3>2 DEF ExecuteQueued, IInv, TypeOK, Counters
  <2>2. BackoffCoversRetryAfter' /\ RetryAfterIsAFloor'
    BY <1>5 DEF ExecuteQueued, IInv, TypeOK, BackoffCoversRetryAfter, RetryAfterIsAFloor
  <2>3. SendsAreCounted' /\ AllAttemptsAreUsed'
    BY <1>5 DEF ExecuteQueued, IInv, TypeOK, SendsAreCounted, AllAttemptsAreUsed
  <2> QED BY <1>5, <2>1, <2>2, <2>3, LedgerUntouched DEF ExecuteQueued, IInv
<1>6. ASSUME NEW r \in Request, ExecuteUnknown(r) PROVE IInv'
  <2>1. TypeOK'
    BY <1>6 DEF ExecuteUnknown, End, IInv, TypeOK
  <2>2. BackoffCoversRetryAfter' /\ RetryAfterIsAFloor'
    BY <1>6 DEF ExecuteUnknown, End, IInv, TypeOK, BackoffCoversRetryAfter, RetryAfterIsAFloor
  <2>3. SendsAreCounted' /\ AllAttemptsAreUsed'
    BY <1>6 DEF ExecuteUnknown, End, IInv, TypeOK, SendsAreCounted, AllAttemptsAreUsed
  <2> QED BY <1>6, <2>1, <2>2, <2>3, LedgerUntouched DEF ExecuteUnknown, IInv
<1>7. ASSUME NEW r \in Request, HandlerReturns(r) PROVE IInv'
  <2>1. TypeOK'
    BY <1>7, BumpCounts DEF HandlerReturns, End, IInv, TypeOK, Counters
  <2>2. BackoffCoversRetryAfter' /\ RetryAfterIsAFloor'
    BY <1>7 DEF HandlerReturns, End, IInv, TypeOK, BackoffCoversRetryAfter, RetryAfterIsAFloor
  <2>3. SendsAreCounted' /\ AllAttemptsAreUsed'
    BY <1>7 DEF HandlerReturns, End, IInv, TypeOK, SendsAreCounted, AllAttemptsAreUsed
  <2> QED BY <1>7, <2>1, <2>2, <2>3, LedgerUntouched DEF HandlerReturns, IInv
<1>8. ASSUME NEW r \in Request, HandlerRaises(r) PROVE IInv'
  <2>1. TypeOK'
    BY <1>8 DEF HandlerRaises, End, IInv, TypeOK
  <2>2. BackoffCoversRetryAfter' /\ RetryAfterIsAFloor'
    BY <1>8 DEF HandlerRaises, End, IInv, TypeOK, BackoffCoversRetryAfter, RetryAfterIsAFloor
  <2>3. SendsAreCounted' /\ AllAttemptsAreUsed'
    BY <1>8 DEF HandlerRaises, End, IInv, TypeOK, SendsAreCounted, AllAttemptsAreUsed
  <2> QED BY <1>8, <2>1, <2>2, <2>3, LedgerUntouched DEF HandlerRaises, IInv
<1>9. ASSUME NEW r \in Request, RateLimitedFinally(r) PROVE IInv'
  <2>1. TypeOK'
    BY <1>9, BumpCounts DEF RateLimitedFinally, LastAttempt, End, IInv, TypeOK, Counters
  <2>2. BackoffCoversRetryAfter' /\ RetryAfterIsAFloor'
    BY <1>9 DEF RateLimitedFinally, LastAttempt, End, IInv, TypeOK, BackoffCoversRetryAfter, RetryAfterIsAFloor
  <2>3. SendsAreCounted' /\ AllAttemptsAreUsed'
    BY <1>9 DEF RateLimitedFinally, LastAttempt, End, IInv, TypeOK, SendsAreCounted, AllAttemptsAreUsed
  <2> QED BY <1>9, <2>1, <2>2, <2>3, LedgerUntouched DEF RateLimitedFinally, IInv
<1>10. ASSUME NEW r \in Request, Cancel(r) PROVE IInv'
  <2>1. TypeOK'
    BY <1>10, LeaveIsAQueue DEF Cancel, End, IInv, TypeOK
  <2>2. BackoffCoversRetryAfter' /\ RetryAfterIsAFloor'
    BY <1>10 DEF Cancel, End, IInv, TypeOK, BackoffCoversRetryAfter, RetryAfterIsAFloor
  <2>3. SendsAreCounted' /\ AllAttemptsAreUsed'
    BY <1>10 DEF Cancel, End, IInv, TypeOK, SendsAreCounted, AllAttemptsAreUsed
  <2> QED BY <1>10, <2>1, <2>2, <2>3, LedgerUntouched DEF Cancel, IInv
<1>11. ASSUME NEW r \in Request, NEW ra \in RetryAfter, RateLimited(r, ra) PROVE IInv'
  <2>0. PICK d \in BackoffDelay(attempt[r], ra) : wakeAt' = [wakeAt EXCEPT ![r] = now + d]
    BY <1>11 DEF RateLimited
  <2>1. d \in Nat /\ ra \in Nat /\ d >= ra
    BY <2>0 DEF BackoffDelay
  <2>2. TypeOK'
    <3>1. now \in Nat /\ TypeOK
      BY DEF IInv, TypeOK
    <3>2. /\ wakeAt' \in [Request -> Nat] /\ notBefore' \in [Request -> Nat]
          /\ stage' \in [Request -> Stage]
      BY <1>11, <2>0, <2>1, <3>1, SMTT(20) DEF RateLimited, TypeOK, Stage
    <3> QED BY <1>11, <3>1, <3>2 DEF RateLimited, TypeOK, bucket, sending
  <2>3. BackoffCoversRetryAfter' /\ RetryAfterIsAFloor'
    <3>1. /\ stage'[r] = "backoff" /\ wakeAt'[r] = now + d /\ notBefore'[r] = now + ra
          /\ now' = now /\ attempt' = attempt /\ now \in Nat
      BY <1>11, <2>0 DEF RateLimited, IInv, TypeOK
    <3>2. \A q \in Request \ {r} :
            stage'[q] = stage[q] /\ wakeAt'[q] = wakeAt[q] /\ notBefore'[q] = notBefore[q]
      BY <1>11, <2>0 DEF RateLimited, IInv, TypeOK
    <3> QED BY <2>1, <3>1, <3>2 DEF IInv, BackoffCoversRetryAfter, RetryAfterIsAFloor
  <2>4. SendsAreCounted' /\ AllAttemptsAreUsed'
    <3>1. /\ SendsAreCounted /\ AllAttemptsAreUsed /\ stage \in [Request -> Stage]
          /\ stage' = [stage EXCEPT ![r] = "backoff"] /\ stage[r] = "calling"
          /\ UNCHANGED <<sent, attempt>> /\ ~LastAttempt(attempt[r])
      BY <1>11 DEF RateLimited, IInv, TypeOK, sending
    <3>2. /\ stage'[r] = "backoff" /\ \A q \in Request \ {r} : stage'[q] = stage[q]
          /\ \A q \in Request : sent'[q] = sent[q]
      BY <3>1
    <3>3. AllAttemptsAreUsed'
      BY <3>1, <3>2 DEF AllAttemptsAreUsed
    <3>4. sent[r] = attempt[r] + 1 /\ attempt[r] + 1 < MaxRetries
      <4>1. attempt[r] \in Nat /\ attempt[r] < MaxRetries /\ sent[r] = attempt[r] + 1
        BY <3>1 DEF SendsAreCounted, IInv, TypeOK
      <4> QED BY <3>1, <4>1 DEF LastAttempt
    <3>5. \A q \in Request : attempt'[q] = attempt[q]
      BY <3>1
    <3>6. SendsAreCounted'
      BY <3>1, <3>2, <3>4, <3>5 DEF SendsAreCounted
    <3> QED BY <3>3, <3>6
  <2> QED BY <1>11, <2>2, <2>3, <2>4, LedgerUntouched DEF RateLimited, IInv
<1>12. ASSUME NEW r \in Request, Retry(r) PROVE IInv'
  <2>0. TypeOK /\ attempt[r] + 1 \in Nat /\ TryInvoke(r, attempt[r] + 1)
    BY <1>12, SMTT(20) DEF Retry, IInv, TypeOK
  <2>1. TypeOK'
    <3>1. registered' \in BOOLEAN /\ paced' \in [Request -> BOOLEAN]
      BY <1>12, <2>0 DEF Retry, TypeOK
    <3> QED BY <1>12, <2>0, <3>1, TryInvokeFacts DEF Retry, TypeOK
  <2>2. attempt[r] + 1 < MaxRetries /\ sent[r] = attempt[r] + 1
    BY <1>12 DEF Retry, IInv, SendsAreCounted
  <2>3. stage'[r] = "calling" /\ attempt'[r] = attempt[r] + 1 /\ sent'[r] = sent[r] + 1
    BY <2>0, <2>2, TryInvokeFacts
  <2>4. \A q \in Request \ {r} :
          stage'[q] = stage[q] /\ attempt'[q] = attempt[q] /\ wakeAt'[q] = wakeAt[q] /\ sent'[q] = sent[q]
    BY <2>0, TryInvokeFacts
  <2>5. now' = now /\ notBefore' = notBefore
    BY <1>12 DEF Retry
  <2>6. now + Resolution >= notBefore[r]
    BY <1>12, <2>0 DEF Retry, Due, IInv, TypeOK, BackoffCoversRetryAfter
  <2>7. BackoffCoversRetryAfter' /\ RetryAfterIsAFloor'
    BY <2>3, <2>4, <2>5, <2>6 DEF IInv, BackoffCoversRetryAfter, RetryAfterIsAFloor
  <2>8. SendsAreCounted' /\ AllAttemptsAreUsed'
    <3>1. attempt[r] \in Nat /\ sent'[r] = attempt'[r] + 1 /\ sent'[r] <= MaxRetries
          /\ attempt'[r] < MaxRetries
      BY <2>2, <2>3 DEF IInv, TypeOK
    <3> QED BY <2>3, <2>4, <3>1 DEF IInv, SendsAreCounted, AllAttemptsAreUsed
  <2> QED BY <1>12, <2>1, <2>7, <2>8, LedgerUntouched DEF Retry, IInv
<1>13. CASE UNCHANGED vars
  <2>1. TypeOK' /\ BackoffCoversRetryAfter' /\ RetryAfterIsAFloor'
    BY <1>13 DEF vars, IInv, TypeOK, BackoffCoversRetryAfter, RetryAfterIsAFloor
  <2>2. SendsAreCounted' /\ AllAttemptsAreUsed'
    BY <1>13 DEF vars, IInv, SendsAreCounted, AllAttemptsAreUsed
  <2> QED BY <1>13, <2>1, <2>2, LedgerUntouched DEF vars, IInv
<1> QED BY <1>1, <1>2, <1>3, <1>4, <1>5, <1>6, <1>7, <1>8, <1>9, <1>10, <1>11, <1>12, <1>13
        DEF Next, Answer

\* The invariant holds in every reachable state.
LEMMA IInvHolds == Spec => []IInv
  BY InitEstablishesIInv, StepPreservesIInv, PTL DEF Spec

\* The bucket is never overdrawn and never holds more than the burst capacity.
THEOREM TypeCorrect == Spec => []TypeOK
<1>1. IInv => TypeOK
  BY DEF IInv
<1> QED BY <1>1, IInvHolds, PTL

\* For every rate, capacity and number of callers: no window of time sees more
\* tokens than a burst plus what accrues during it.
THEOREM WindowsConform == Spec => []WindowConformance
<1>1. IInv => WindowConformance
  BY DEF IInv
<1> QED BY <1>1, IInvHolds, PTL

\* No retry leaves before the moment a Retry-After names, however small the
\* configured max_backoff_seconds.
THEOREM RetriesRespectRetryAfter == Spec => []RetryAfterIsAFloor
<1>1. IInv => RetryAfterIsAFloor
  BY DEF IInv
<1> QED BY <1>1, IInvHolds, PTL

\* A rate-limited call fails after exactly max_retries attempts, and the
\* RuntimeError behind the retry loop is dead code unless max_retries is 0.
THEOREM RetriesAreExhausted == Spec => []AllAttemptsAreUsed
<1>1. IInv => AllAttemptsAreUsed
  BY DEF IInv
<1> QED BY <1>1, IInvHolds, PTL

\* A token that is taken is an admission WindowLimiter allows.
LEMMA GrantAdmits ==
  ASSUME IInv, NEW r \in Request, NEW queue, NEW tel, Grant(r, queue, tel)
  PROVE  Limiter!Admit
<1>1. Refilled \in Nat /\ Refilled >= Cost
  BY RefillBounds DEF IInv, Grant
<1>2. ASSUME NEW i \in 1 .. Len(grants)
      PROVE  (Len(grants) - i + 2) * Cost <= Cap + (now - grants[i])
  <2> DEFINE m == (Len(grants) - i + 2) * Cost
  <2>1. m \in Nat /\ now \in Nat
    BY DEF IInv, TypeOK
  <2>2. m + (Refilled - Cost) <= Cap + (now - grants[i]) /\ grants[i] \in Nat
    BY <1>1, LedgerAdmits DEF IInv
  <2> HIDE DEF m
  <2>3. m <= Cap + (now - grants[i])
    BY <1>1, <2>1, <2>2
  <2> QED BY <2>3 DEF m
<1> QED BY <1>2 DEF Grant, Limiter!Admit

\* Every step of the gateway is a step of the window limiter, or leaves it
\* alone.
LEMMA StepRefines == IInv /\ [Next]_vars => [Limiter!Next]_<<now, grants>>
<1> SUFFICES ASSUME IInv, [Next]_vars PROVE Limiter!Next \/ UNCHANGED <<now, grants>>
  OBVIOUS
<1>1. CASE Tick
  BY <1>1 DEF Tick, bucket, Limiter!Next, Limiter!Tick
<1>2. ASSUME NEW r \in Request, NEW queue, NEW tel, Pace(r, queue, tel) \/ Grant(r, queue, tel)
      PROVE  Limiter!Next \/ UNCHANGED <<now, grants>>
  BY <1>2, GrantAdmits DEF Pace, Limiter!Next
<1>3. ASSUME NEW r \in Request, ExecuteFree(r) \/ ResumeAcquire(r)
      PROVE  Limiter!Next \/ UNCHANGED <<now, grants>>
  BY <1>2, <1>3 DEF ExecuteFree, ResumeAcquire
<1>4. ASSUME NEW r \in Request,
             ExecuteUnknown(r) \/ ExecuteQueued(r) \/ Answer(r) \/ Retry(r) \/ Cancel(r)
      PROVE  UNCHANGED <<now, grants>>
  BY <1>4 DEF ExecuteUnknown, ExecuteQueued, Answer, HandlerReturns, HandlerRaises,
              RateLimitedFinally, RateLimited, Retry, Cancel, bucket
<1>5. CASE register_tool \/ UNCHANGED vars
  BY <1>5 DEF register_tool, vars, bucket
<1> QED BY <1>1, <1>3, <1>4, <1>5 DEF Next

\* The gateway's limiter, with its lock, its early timers and its cancelled
\* callers, implements WindowLimiter.
THEOREM RefinesWindowLimiter == Spec => ImplementsWindowLimiter
<1>1. Init => Limiter!Init
  BY DEF Init, Limiter!Init
<1> QED BY <1>1, IInvHolds, StepRefines, PTL DEF Spec, ImplementsWindowLimiter, Limiter!Spec

\* Pacing and retries keep what the gateway promises, for any number of calls and
\* every choice of rate, burst, timer resolution and attempts.
THEOREM GatewayIsSafe == Spec => []LimitsAreKept
  BY TypeCorrect, WindowsConform, RetriesRespectRetryAfter, RetriesAreExhausted, PTL DEF LimitsAreKept
-----------------------------------------------------------------------------
\* FirstComeFirstServed is not inductive: it rests on the order of the queue.

Arrived(came, p) == \E m \in 1 .. Len(came) : came[m] = p

Before(came, p, q) == \E m, n \in 1 .. Len(came) : m < n /\ came[m] = p /\ came[n] = q

\* Whoever took a token came before whoever is in line, and the line is in
\* the order in which the calls came.
InOrder(came, took, line) ==
  /\ \A i \in 1 .. Len(took) : Arrived(came, took[i])
  /\ \A i \in 1 .. Len(line) : Arrived(came, line[i])
  /\ \A i, j \in 1 .. Len(took) : i < j => Before(came, took[i], took[j])
  /\ \A i \in 1 .. Len(took), j \in 1 .. Len(line) : Before(came, took[i], line[j])
  /\ \A i, j \in 1 .. Len(line) : i < j => Before(came, line[i], line[j])

LineIsInOrder == InOrder(arrivals, served, lockQueue)

\* A call that leaves the line leaves the others in their order.
LEMMA LeaveKeepsOrder ==
  ASSUME NEW queue \in Seq(Request), NEW r \in Request
  PROVE  /\ \A i \in 1 .. Len(Leave(queue, r)) :
              \E k \in 1 .. Len(queue) : Leave(queue, r)[i] = queue[k]
         /\ \A i, j \in 1 .. Len(Leave(queue, r)) : i < j =>
              \E k, l \in 1 .. Len(queue) :
                k < l /\ Leave(queue, r)[i] = queue[k] /\ Leave(queue, r)[j] = queue[l]
<1>1. CASE \E i \in 1 .. Len(queue) : queue[i] = r
  <2> DEFINE at == CHOOSE i \in 1 .. Len(queue) : queue[i] = r
             left == SubSeq(queue, 1, at - 1)
             right == SubSeq(queue, at + 1, Len(queue))
  <2>1. at \in 1 .. Len(queue)
    BY <1>1
  <2>2. Leave(queue, r) = left \o right
    BY <1>1 DEF Leave
  <2> HIDE DEF at
  <2>3. /\ Len(Leave(queue, r)) = Len(queue) - 1
        /\ \A i \in 1 .. Len(queue) - 1 : Leave(queue, r)[i] = queue[IF i < at THEN i ELSE i + 1]
    <3>1. /\ left \in Seq(Request) /\ right \in Seq(Request)
          /\ Len(left) = at - 1 /\ Len(right) = Len(queue) - at
          /\ \A i \in 1 .. at - 1 : left[i] = queue[i]
          /\ \A i \in 1 .. Len(queue) - at : right[i] = queue[at + i]
      BY <2>1
    <3> HIDE DEF left, right
    <3>2. /\ Len(left \o right) = Len(left) + Len(right)
          /\ \A i \in 1 .. Len(left) + Len(right) :
               (left \o right)[i] = IF i <= Len(left) THEN left[i] ELSE right[i - Len(left)]
      BY <3>1, ConcatProperties, Zenon
    <3>3. ASSUME NEW i \in 1 .. Len(queue) - 1
          PROVE  Leave(queue, r)[i] = queue[IF i < at THEN i ELSE i + 1]
      <4>1. CASE i < at
        BY <2>1, <2>2, <3>1, <3>2, <4>1
      <4>2. CASE ~(i < at)
        <5>1. i - Len(left) \in 1 .. Len(queue) - at /\ at + (i - Len(left)) = i + 1
              /\ i \in 1 .. Len(left) + Len(right) /\ ~(i <= Len(left))
          BY <2>1, <3>1, <4>2
        <5> QED BY <2>2, <3>1, <3>2, <4>2, <5>1
      <4> QED BY <4>1, <4>2
    <3> QED BY <2>1, <2>2, <3>1, <3>2, <3>3
  <2>4. \A i \in 1 .. Len(queue) - 1 : (IF i < at THEN i ELSE i + 1) \in 1 .. Len(queue)
    BY <2>1
  <2>5. \A i, j \in 1 .. Len(queue) - 1 : i < j =>
          (IF i < at THEN i ELSE i + 1) < (IF j < at THEN j ELSE j + 1)
    BY <2>1
  <2> QED BY <2>3, <2>4, <2>5, SMTT(20)
<1>2. CASE ~ \E i \in 1 .. Len(queue) : queue[i] = r
  BY <1>2 DEF Leave
<1> QED BY <1>1, <1>2

\* Who came before whom stays so when another call comes, after all of them.
LEMMA ArrivalsGrow ==
  ASSUME NEW came \in Seq(Request), NEW r \in Request
  PROVE  /\ Arrived(Append(came, r), r)
         /\ \A p : Arrived(came, p) => Arrived(Append(came, r), p) /\ Before(Append(came, r), p, r)
         /\ \A p, q : Before(came, p, q) => Before(Append(came, r), p, q)
<1> DEFINE next == Append(came, r)
<1>1. /\ Len(came) \in Nat /\ Len(next) = Len(came) + 1 /\ next[Len(came) + 1] = r
      /\ \A m \in 1 .. Len(came) : next[m] = came[m]
  OBVIOUS
<1> HIDE DEF next
<1>2. Len(came) + 1 \in 1 .. Len(next)
      /\ \A m \in 1 .. Len(came) : m \in 1 .. Len(next) /\ m < Len(came) + 1
  BY <1>1
<1>3. Arrived(next, r)
  BY <1>1, <1>2 DEF Arrived
<1>4. \A p : Arrived(came, p) => Arrived(next, p) /\ Before(next, p, r)
  BY <1>1, <1>2 DEF Arrived, Before
<1>5. \A p, q : Before(came, p, q) => Before(next, p, q)
  BY <1>1, <1>2 DEF Before
<1> QED BY <1>3, <1>4, <1>5 DEF next

\* The call at the head of the line takes its token: it is the next in order.
LEMMA GrantKeepsOrder ==
  ASSUME NEW came \in Seq(Request), NEW took \in Seq(Request), NEW line \in Seq(Request),
         InOrder(came, took, line), line # <<>>
  PROVE  InOrder(came, Append(took, Head(line)), Tail(line))
<1> DEFINE more == Append(took, Head(line))
           rest == Tail(line)
<1>1. /\ Len(more) = Len(took) + 1 /\ more[Len(took) + 1] = line[1] /\ Len(took) \in Nat
      /\ \A i \in 1 .. Len(took) : more[i] = took[i]
  OBVIOUS
<1>2. /\ Len(line) \in Nat /\ 1 \in 1 .. Len(line) /\ Len(rest) = Len(line) - 1
      /\ \A i \in 1 .. Len(line) - 1 : rest[i] = line[i + 1]
  OBVIOUS
<1> HIDE DEF more, rest
<1>3. \A i \in 1 .. Len(rest) : i + 1 \in 1 .. Len(line) /\ rest[i] = line[i + 1] /\ 1 < i + 1
  BY <1>2
<1>4. \A i \in 1 .. Len(more) :
        \/ i \in 1 .. Len(took) /\ more[i] = took[i]
        \/ i = Len(took) + 1 /\ more[i] = line[1]
  BY <1>1
<1>5. \A i \in 1 .. Len(more) : Arrived(came, more[i])
  BY <1>2, <1>4 DEF InOrder
<1>6. \A i \in 1 .. Len(rest) : Arrived(came, rest[i])
  BY <1>3 DEF InOrder
<1>7. \A i, j \in 1 .. Len(more) : i < j => Before(came, more[i], more[j])
  <2> SUFFICES ASSUME NEW i \in 1 .. Len(more), NEW j \in 1 .. Len(more), i < j
               PROVE  Before(came, more[i], more[j])
    OBVIOUS
  <2>1. i \in 1 .. Len(took) /\ more[i] = took[i]
    BY <1>1, <1>4
  <2> QED BY <1>2, <1>4, <2>1 DEF InOrder
<1>8. \A i \in 1 .. Len(more), j \in 1 .. Len(rest) : Before(came, more[i], rest[j])
  BY <1>2, <1>3, <1>4 DEF InOrder
<1>9. \A i, j \in 1 .. Len(rest) : i < j => Before(came, rest[i], rest[j])
  <2> SUFFICES ASSUME NEW i \in 1 .. Len(rest), NEW j \in 1 .. Len(rest), i < j
               PROVE  Before(came, rest[i], rest[j])
    OBVIOUS
  <2>1. i + 1 < j + 1
    BY <1>2
  <2> QED BY <1>3, <2>1 DEF InOrder
<1> QED BY <1>5, <1>6, <1>7, <1>8, <1>9 DEF InOrder, more, rest

\* A call that has to wait lines up behind everyone who came before it.
LEMMA QueueKeepsOrder ==
  ASSUME NEW came \in Seq(Request), NEW took \in Seq(Request), NEW line \in Seq(Request),
         NEW r \in Request, InOrder(came, took, line)
  PROVE  InOrder(Append(came, r), took, Append(line, r))
<1> DEFINE next == Append(came, r)
           more == Append(line, r)
<1>1. /\ Arrived(next, r) /\ \A p : Arrived(came, p) => Arrived(next, p) /\ Before(next, p, r)
      /\ \A p, q : Before(came, p, q) => Before(next, p, q)
  BY ArrivalsGrow
<1>2. \A i \in 1 .. Len(more) :
        \/ i \in 1 .. Len(line) /\ more[i] = line[i]
        \/ i = Len(line) + 1 /\ more[i] = r
  OBVIOUS
<1>3. Len(line) \in Nat /\ Len(more) = Len(line) + 1
  OBVIOUS
<1> HIDE DEF next, more
<1>4. \A i \in 1 .. Len(took) : Arrived(next, took[i])
  BY <1>1 DEF InOrder
<1>5. \A i \in 1 .. Len(more) : Arrived(next, more[i])
  BY <1>1, <1>2 DEF InOrder
<1>6. \A i, j \in 1 .. Len(took) : i < j => Before(next, took[i], took[j])
  BY <1>1 DEF InOrder
<1>7. \A i \in 1 .. Len(took), j \in 1 .. Len(more) : Before(next, took[i], more[j])
  BY <1>1, <1>2 DEF InOrder
<1>8. \A i, j \in 1 .. Len(more) : i < j => Before(next, more[i], more[j])
  <2> SUFFICES ASSUME NEW i \in 1 .. Len(more), NEW j \in 1 .. Len(more), i < j
               PROVE  Before(next, more[i], more[j])
    OBVIOUS
  <2>1. i \in 1 .. Len(line) /\ more[i] = line[i]
    BY <1>2, <1>3
  <2> QED BY <1>1, <1>2, <2>1 DEF InOrder
<1> QED BY <1>4, <1>5, <1>6, <1>7, <1>8 DEF InOrder, next, more

\* A call that leaves the line leaves it in order.
LEMMA LeaveKeepsLine ==
  ASSUME NEW came \in Seq(Request), NEW took \in Seq(Request), NEW line \in Seq(Request),
         NEW r \in Request, InOrder(came, took, line)
  PROVE  InOrder(came, took, Leave(line, r))
  BY LeaveKeepsOrder DEF InOrder

\* Every step keeps the line in the order of arrival.
LEMMA StepKeepsOrder == TypeOK /\ LineIsInOrder /\ [Next]_vars => LineIsInOrder'
<1> SUFFICES ASSUME TypeOK, LineIsInOrder, [Next]_vars PROVE LineIsInOrder'
  OBVIOUS
<1> USE DEF LineIsInOrder
<1>0. arrivals \in Seq(Request) /\ served \in Seq(Request) /\ lockQueue \in Seq(Request)
  BY DEF TypeOK
<1>1. ASSUME NEW r \in Request, ExecuteFree(r) PROVE LineIsInOrder'
  <2>1. lockQueue = <<>> /\ arrivals' = Append(arrivals, r)
    BY <1>1 DEF ExecuteFree
  <2>2. Append(lockQueue, r) = <<r>> /\ Head(<<r>>) = r /\ Tail(<<r>>) = <<>> /\ <<r>> # <<>>
    BY <2>1
  <2>3. InOrder(arrivals', served, <<r>>)
    BY <1>0, <2>1, <2>2, QueueKeepsOrder
  <2>4. CASE Pace(r, <<r>>, Bump(telemetry, "total"))
    BY <2>3, <2>4 DEF Pace
  <2>5. CASE Grant(r, <<r>>, Bump(telemetry, "total"))
    <3>1. lockQueue' = Tail(<<r>>) /\ served' = Append(served, Head(<<r>>))
      BY <2>2, <2>5 DEF Grant
    <3>2. arrivals' \in Seq(Request) /\ <<r>> \in Seq(Request)
      BY <1>0, <2>1
    <3>3. InOrder(arrivals', Append(served, Head(<<r>>)), Tail(<<r>>))
      BY <1>0, <2>2, <2>3, <3>2, GrantKeepsOrder
    <3> QED BY <3>1, <3>3
  <2> QED BY <1>1, <2>4, <2>5 DEF ExecuteFree
<1>2. ASSUME NEW r \in Request, ExecuteQueued(r) PROVE LineIsInOrder'
  BY <1>0, <1>2, QueueKeepsOrder DEF ExecuteQueued
<1>3. ASSUME NEW r \in Request, ResumeAcquire(r) PROVE LineIsInOrder'
  <2>1. CASE Pace(r, lockQueue, telemetry)
    BY <1>3, <2>1 DEF ResumeAcquire, Pace
  <2>2. CASE Grant(r, lockQueue, telemetry)
    BY <1>0, <1>3, <2>2, GrantKeepsOrder DEF ResumeAcquire, Grant
  <2> QED BY <1>3, <2>1, <2>2 DEF ResumeAcquire
<1>4. ASSUME NEW r \in Request, Cancel(r) PROVE LineIsInOrder'
  BY <1>0, <1>4, LeaveKeepsLine DEF Cancel
<1>5. ASSUME NEW r \in Request, ExecuteUnknown(r) \/ Answer(r) \/ Retry(r) PROVE LineIsInOrder'
  BY <1>5 DEF ExecuteUnknown, Answer, HandlerReturns, HandlerRaises,
     RateLimitedFinally, RateLimited, Retry, bucket
<1>6. CASE Tick \/ register_tool \/ UNCHANGED vars
  BY <1>6 DEF Tick, register_tool, vars, bucket
<1> QED BY <1>1, <1>2, <1>3, <1>4, <1>5, <1>6 DEF Next

\* Whatever is cancelled, asleep or timed early, tokens go out in the order in
\* which execute_tool was called.
THEOREM ServedInOrder == Spec => []FirstComeFirstServed
<1>1. Init => LineIsInOrder
  BY DEF Init, LineIsInOrder, InOrder
<1>2. LineIsInOrder => FirstComeFirstServed
  BY DEF LineIsInOrder, InOrder, FirstComeFirstServed, Before
<1> QED BY <1>1, <1>2, TypeCorrect, StepKeepsOrder, PTL DEF Spec
-----------------------------------------------------------------------------
\* TelemetryAccounts needs one more fact: whether a call was paced is settled
\* when it takes its token.

UnderWay == {"error", "runtime_error", "cancelled", "queued", "pacing", "calling", "backoff"}
InLimiter == {"new", "queued", "pacing"}

\* The calls at some of the stages, and the tokens whose calls had to wait.
At(where, s) == {r \in Request : where[r] \in s}
Waited(took, slow) == {i \in 1 .. Len(took) : slow[took[i]]}

Accounted ==
  /\ telemetry.total = telemetry.successful + telemetry.failed + Cardinality(At(stage, UnderWay))
  /\ telemetry.throttled = Cardinality(Waited(served, paced))
  /\ \A i \in 1 .. Len(served) : stage[served[i]] \notin InLimiter

\* How the number of calls at some stages changes when one call moves.
LEMMA OneMoves ==
  ASSUME NEW where \in [Request -> Stage], NEW next \in [Request -> Stage], NEW r \in Request, NEW s,
         \A q \in Request \ {r} : next[q] = where[q]
  PROVE  /\ Cardinality(At(where, s)) \in Nat
         /\ (where[r] \in s <=> next[r] \in s) => Cardinality(At(next, s)) = Cardinality(At(where, s))
         /\ where[r] \notin s /\ next[r] \in s => Cardinality(At(next, s)) = Cardinality(At(where, s)) + 1
         /\ where[r] \in s /\ next[r] \notin s => Cardinality(At(where, s)) = Cardinality(At(next, s)) + 1
<1>1. IsFiniteSet(At(where, s)) /\ IsFiniteSet(At(next, s))
  BY RequestAssumption, FS_Subset DEF At
<1>2. Cardinality(At(where, s)) \in Nat /\ Cardinality(At(next, s)) \in Nat
  BY <1>1, FS_CardinalityType
<1>3. ASSUME where[r] \in s <=> next[r] \in s
      PROVE  Cardinality(At(next, s)) = Cardinality(At(where, s))
  <2>1. At(next, s) = At(where, s)
    BY <1>3 DEF At
  <2> QED BY <2>1
<1>4. ASSUME where[r] \notin s, next[r] \in s
      PROVE  Cardinality(At(next, s)) = Cardinality(At(where, s)) + 1
  <2>1. At(next, s) = At(where, s) \cup {r} /\ r \notin At(where, s)
    BY <1>4 DEF At
  <2> QED BY <1>1, <2>1, FS_AddElement
<1>5. ASSUME where[r] \in s, next[r] \notin s
      PROVE  Cardinality(At(where, s)) = Cardinality(At(next, s)) + 1
  <2>1. At(where, s) = At(next, s) \cup {r} /\ r \notin At(next, s)
    BY <1>5 DEF At
  <2> QED BY <1>1, <2>1, FS_AddElement
<1> QED BY <1>2, <1>3, <1>4, <1>5

\* One more token is one more that was waited for, if its call had to wait.
LEMMA OneMoreToken ==
  ASSUME NEW took \in Seq(Request), NEW r \in Request, NEW slow \in [Request -> BOOLEAN]
  PROVE  /\ Cardinality(Waited(took, slow)) \in Nat
         /\ Cardinality(Waited(Append(took, r), slow)) =
              Cardinality(Waited(took, slow)) + (IF slow[r] THEN 1 ELSE 0)
<1> DEFINE n == Len(took) + 1
<1>1. n \in Nat /\ Len(took) \in Nat /\ Append(took, r)[n] = r /\ Len(Append(took, r)) = n
      /\ \A i \in 1 .. Len(took) : Append(took, r)[i] = took[i]
  OBVIOUS
<1>2. IsFiniteSet(Waited(took, slow))
  <2>1. IsFiniteSet(1 .. Len(took))
    BY <1>1, FS_Interval
  <2>2. Waited(took, slow) \subseteq 1 .. Len(took)
    BY DEF Waited
  <2> QED BY <2>1, <2>2, FS_Subset
<1>3. \A i : i \in 1 .. n <=> i \in 1 .. Len(took) \/ i = n
  BY <1>1
<1>4. n \notin 1 .. Len(took)
  BY <1>1
<1>5. CASE slow[r]
  <2>1. Waited(Append(took, r), slow) = Waited(took, slow) \cup {n} /\ n \notin Waited(took, slow)
    <3> HIDE DEF n
    <3> QED BY <1>1, <1>3, <1>4, <1>5 DEF Waited
  <2>2. Cardinality(Waited(Append(took, r), slow)) = Cardinality(Waited(took, slow)) + 1
    BY <1>2, <2>1, FS_AddElement
  <2> QED BY <1>2, <1>5, <2>2, FS_CardinalityType
<1>6. CASE ~slow[r]
  <2>1. Waited(Append(took, r), slow) = Waited(took, slow)
    <3> HIDE DEF n
    <3> QED BY <1>1, <1>3, <1>4, <1>6 DEF Waited
  <2>2. Cardinality(Waited(took, slow)) \in Nat
    BY <1>2, FS_CardinalityType
  <2> QED BY <1>6, <2>1, <2>2
<1> QED BY <1>5, <1>6

\* Whoever has its token is past the limiter.
LEMMA ServedArePast ==
  ASSUME TypeOK, Accounted
  PROVE  \A i \in 1 .. Len(served) : served[i] \in Request /\ stage[served[i]] \notin InLimiter
<1>1. served \in Seq(Request)
  BY DEF TypeOK
<1>2. \A i \in 1 .. Len(served) : stage[served[i]] \notin InLimiter
  BY DEF Accounted
<1> QED BY <1>1, <1>2

\* A token is counted as waited for when it is taken, once.
LEMMA GrantAccounts ==
  ASSUME IInv, Accounted, NEW r \in Request, NEW queue, NEW tel, RunsLimiter(r, queue, tel),
         Grant(r, queue, tel)
  PROVE  /\ telemetry' \in Counters
         /\ telemetry'.throttled = tel.throttled + (Cardinality(Waited(served', paced'))
                                                    - Cardinality(Waited(served, paced)))
         /\ telemetry'.total = tel.total /\ telemetry'.successful = tel.successful
         /\ telemetry'.failed = tel.failed
         /\ \A i \in 1 .. Len(served') : stage'[served'[i]] \notin InLimiter
         /\ stage' \in [Request -> Stage] /\ stage'[r] \in UnderWay
         /\ \A q \in Request \ {r} : stage'[q] = stage[q]
<1>1. TypeOK /\ tel \in Counters
  BY DEF IInv, RunsLimiter
<1>2. /\ served' = Append(served, r) /\ paced' = paced /\ TryInvoke(r, 0)
      /\ telemetry' = IF paced[r] THEN Bump(tel, "throttled") ELSE tel
  BY DEF Grant
<1>3. /\ stage' \in [Request -> Stage] /\ stage'[r] \in {"calling", "runtime_error"}
      /\ \A q \in Request \ {r} : stage'[q] = stage[q]
  BY <1>1, <1>2, TryInvokeFacts
<1>4. /\ Cardinality(Waited(served, paced)) \in Nat
      /\ Cardinality(Waited(served', paced')) =
           Cardinality(Waited(served, paced)) + (IF paced[r] THEN 1 ELSE 0)
  BY <1>1, <1>2, OneMoreToken DEF TypeOK
<1>5. telemetry' \in Counters
  BY <1>1, <1>2, BumpCounts
<1>6. /\ telemetry'.throttled = tel.throttled + (IF paced[r] THEN 1 ELSE 0)
      /\ telemetry'.total = tel.total /\ telemetry'.successful = tel.successful
      /\ telemetry'.failed = tel.failed
  BY <1>1, <1>2 DEF Bump, Counters
<1>7. \A i \in 1 .. Len(served') : stage'[served'[i]] \notin InLimiter
  <2> SUFFICES ASSUME NEW i \in 1 .. Len(served') PROVE stage'[served'[i]] \notin InLimiter
    OBVIOUS
  <2>1. \/ i \in 1 .. Len(served) /\ served'[i] = served[i]
        \/ served'[i] = r
    BY <1>1, <1>2 DEF TypeOK
  <2>2. CASE served'[i] = r
    BY <1>3, <2>2 DEF InLimiter
  <2>3. CASE i \in 1 .. Len(served) /\ served'[i] = served[i] /\ served[i] # r
    <3>1. served[i] \in Request /\ stage[served[i]] \notin InLimiter
      BY <1>1, <2>3, ServedArePast
    <3> QED BY <1>3, <2>3, <3>1
  <2> QED BY <2>1, <2>2, <2>3
<1>8. tel.throttled \in Nat
  BY <1>1 DEF Counters
<1> QED BY <1>3, <1>4, <1>5, <1>6, <1>7, <1>8 DEF UnderWay

\* Being put to sleep changes no count but the caller's.
LEMMA PaceAccounts ==
  ASSUME IInv, Accounted, NEW r \in Request, NEW queue, NEW tel, RunsLimiter(r, queue, tel),
         Pace(r, queue, tel)
  PROVE  /\ telemetry' = tel
         /\ Waited(served', paced') = Waited(served, paced)
         /\ \A i \in 1 .. Len(served') : stage'[served'[i]] \notin InLimiter
         /\ stage' \in [Request -> Stage] /\ stage'[r] \in UnderWay
         /\ \A q \in Request \ {r} : stage'[q] = stage[q]
<1>1. TypeOK /\ stage[r] \in InLimiter
  BY DEF IInv, RunsLimiter, InLimiter
<1>2. /\ served' = served /\ paced' = [paced EXCEPT ![r] = TRUE] /\ telemetry' = tel
      /\ stage' = [stage EXCEPT ![r] = "pacing"]
  BY DEF Pace
<1>3. \A i \in 1 .. Len(served) : served[i] \in Request \ {r}
  BY <1>1, ServedArePast
<1>4. /\ stage' \in [Request -> Stage] /\ stage'[r] = "pacing"
      /\ \A q \in Request \ {r} : stage'[q] = stage[q]
  BY <1>1, <1>2 DEF TypeOK, Stage
<1>5. Waited(served', paced') = Waited(served, paced)
  BY <1>1, <1>2, <1>3 DEF Waited, TypeOK
<1> QED BY <1>2, <1>3, <1>4, <1>5 DEF Accounted, UnderWay

\* The call in the limiter moves on: it is under way before and after, unless
\* it is new, and then it is counted.
LEMMA LimiterAccounts ==
  ASSUME IInv, Accounted, NEW r \in Request, NEW queue, NEW tel, RunsLimiter(r, queue, tel),
         Pace(r, queue, tel) \/ Grant(r, queue, tel),
         tel = IF stage[r] = "new" THEN Bump(telemetry, "total") ELSE telemetry
  PROVE  Accounted'
<1>1. TypeOK /\ tel \in Counters /\ telemetry \in Counters
  BY DEF IInv, TypeOK, RunsLimiter, Counters
<1>2. /\ tel.total = telemetry.total + (IF stage[r] = "new" THEN 1 ELSE 0)
      /\ tel.successful = telemetry.successful /\ tel.failed = telemetry.failed
      /\ tel.throttled = telemetry.throttled
  BY <1>1 DEF Bump, Counters
<1>3. /\ \A i \in 1 .. Len(served') : stage'[served'[i]] \notin InLimiter
      /\ stage' \in [Request -> Stage] /\ stage'[r] \in UnderWay
      /\ \A q \in Request \ {r} : stage'[q] = stage[q]
      /\ telemetry'.total = tel.total /\ telemetry'.successful = tel.successful
      /\ telemetry'.failed = tel.failed
  BY PaceAccounts, GrantAccounts
<1>4. telemetry'.throttled = Cardinality(Waited(served', paced'))
  <2>1. Cardinality(Waited(served, paced)) \in Nat /\ Cardinality(Waited(Append(served, r), paced)) \in Nat
    <3>1. served \in Seq(Request) /\ paced \in [Request -> BOOLEAN]
      BY <1>1 DEF TypeOK
    <3>2. Cardinality(Waited(served, paced)) + (IF paced[r] THEN 1 ELSE 0) \in Nat
      BY <3>1, OneMoreToken
    <3> QED BY <3>1, <3>2, OneMoreToken
  <2>2. CASE Pace(r, queue, tel)
    BY <1>2, <2>2, PaceAccounts DEF Accounted
  <2>3. CASE Grant(r, queue, tel)
    <3>1. served' = Append(served, r) /\ paced' = paced
      BY <2>3 DEF Grant
    <3>2. tel.throttled = Cardinality(Waited(served, paced))
      BY <1>2 DEF Accounted
    <3>3. telemetry'.throttled = tel.throttled + (Cardinality(Waited(served', paced'))
                                                  - Cardinality(Waited(served, paced)))
      BY <2>3, GrantAccounts
    <3> QED BY <2>1, <3>1, <3>2, <3>3
  <2> QED BY <2>2, <2>3
<1>5. stage[r] \in InLimiter /\ (stage[r] = "new" <=> stage[r] \notin UnderWay)
  BY DEF RunsLimiter, InLimiter, UnderWay
<1>6. /\ Cardinality(At(stage, UnderWay)) \in Nat
      /\ Cardinality(At(stage', UnderWay)) =
           Cardinality(At(stage, UnderWay)) + (IF stage[r] = "new" THEN 1 ELSE 0)
  <2>1. stage \in [Request -> Stage]
    BY <1>1 DEF TypeOK
  <2>2. CASE stage[r] = "new"
    BY <1>3, <1>5, <2>1, <2>2, OneMoves
  <2>3. CASE stage[r] # "new"
    BY <1>3, <1>5, <2>1, <2>3, OneMoves
  <2> QED BY <2>2, <2>3
<1>7. telemetry'.total = telemetry'.successful + telemetry'.failed + Cardinality(At(stage', UnderWay))
  <2>1. telemetry.total \in Nat /\ telemetry.successful \in Nat /\ telemetry.failed \in Nat
    BY <1>1 DEF Counters
  <2>2. telemetry.total = telemetry.successful + telemetry.failed + Cardinality(At(stage, UnderWay))
    BY DEF Accounted
  <2> QED BY <1>2, <1>3, <1>6, <2>1, <2>2
<1> QED BY <1>3, <1>4, <1>7 DEF Accounted

\* A call that is past the limiter, or never reaches it, moves on; if it leaves
\* the ranks of those under way, one outcome is counted.
LEMMA MoveAccounts ==
  ASSUME IInv, Accounted, NEW r \in Request, UNCHANGED <<served, paced>>,
         stage' \in [Request -> Stage], \A q \in Request \ {r} : stage'[q] = stage[q],
         stage'[r] \in InLimiter => stage[r] \in InLimiter,
         \/ telemetry' = telemetry /\ (stage[r] \in UnderWay <=> stage'[r] \in UnderWay)
         \/ telemetry' = Bump(telemetry, "total") /\ stage[r] \notin UnderWay /\ stage'[r] \in UnderWay
         \/ /\ telemetry' = Bump(telemetry, "successful") \/ telemetry' = Bump(telemetry, "failed")
            /\ stage[r] \in UnderWay /\ stage'[r] \notin UnderWay
  PROVE  Accounted'
<1>1. TypeOK /\ telemetry \in Counters /\ stage \in [Request -> Stage]
  BY DEF IInv, TypeOK, Counters
<1>2. \A i \in 1 .. Len(served') : stage'[served'[i]] \notin InLimiter
  <2> SUFFICES ASSUME NEW i \in 1 .. Len(served) PROVE stage'[served[i]] \notin InLimiter
    OBVIOUS
  <2>1. served[i] \in Request /\ stage[served[i]] \notin InLimiter
    BY <1>1, ServedArePast
  <2> QED BY <2>1
<1>3. telemetry'.throttled = Cardinality(Waited(served', paced'))
  <2>1. telemetry'.throttled = telemetry.throttled
    BY <1>1 DEF Bump, Counters
  <2> QED BY <2>1 DEF Accounted
<1>4. telemetry'.total = telemetry'.successful + telemetry'.failed + Cardinality(At(stage', UnderWay))
  <2> DEFINE m == Cardinality(At(stage, UnderWay))
             n == Cardinality(At(stage', UnderWay))
  <2>1. /\ m \in Nat
        /\ (stage[r] \in UnderWay <=> stage'[r] \in UnderWay) => n = m
        /\ stage[r] \notin UnderWay /\ stage'[r] \in UnderWay => n = m + 1
        /\ stage[r] \in UnderWay /\ stage'[r] \notin UnderWay => m = n + 1 /\ n \in Nat
    <3>1. Cardinality(At(stage', UnderWay)) \in Nat
      BY RequestAssumption, FS_Subset, FS_CardinalityType DEF At
    <3> QED BY <1>1, <3>1, OneMoves
  <2>2. telemetry.total = telemetry.successful + telemetry.failed + m
    BY DEF Accounted
  <2>3. telemetry.total \in Nat /\ telemetry.successful \in Nat /\ telemetry.failed \in Nat
    BY <1>1 DEF Counters
  <2> HIDE DEF m, n
  <2>4. CASE telemetry' = telemetry /\ (stage[r] \in UnderWay <=> stage'[r] \in UnderWay)
    BY <2>1, <2>2, <2>4 DEF n
  <2>5. CASE telemetry' = Bump(telemetry, "total") /\ stage[r] \notin UnderWay /\ stage'[r] \in UnderWay
    <3>1. /\ telemetry'.total = telemetry.total + 1 /\ telemetry'.successful = telemetry.successful
          /\ telemetry'.failed = telemetry.failed
      BY <1>1, <2>5 DEF Bump, Counters
    <3> QED BY <2>1, <2>2, <2>3, <2>5, <3>1 DEF n
  <2>6. CASE /\ telemetry' = Bump(telemetry, "successful") \/ telemetry' = Bump(telemetry, "failed")
             /\ stage[r] \in UnderWay /\ stage'[r] \notin UnderWay
    <3>1. /\ telemetry'.total = telemetry.total
          /\ \/ telemetry'.successful = telemetry.successful + 1 /\ telemetry'.failed = telemetry.failed
             \/ telemetry'.successful = telemetry.successful /\ telemetry'.failed = telemetry.failed + 1
      BY <1>1, <2>6 DEF Bump, Counters
    <3> QED BY <2>1, <2>2, <2>3, <2>6, <3>1 DEF n
  <2> QED BY <2>4, <2>5, <2>6
<1> QED BY <1>2, <1>3, <1>4 DEF Accounted

\* Every step keeps the counters in account with the requests.
LEMMA StepAccounts == IInv /\ Accounted /\ [Next]_vars => Accounted'
<1> SUFFICES ASSUME IInv, Accounted, [Next]_vars PROVE Accounted'
  OBVIOUS
<1> USE DEF bucket, sending
<1>0. TypeOK /\ stage \in [Request -> Stage]
  BY DEF IInv, TypeOK
<1>1. ASSUME NEW r \in Request, ExecuteFree(r) PROVE Accounted'
  <2>1. RunsLimiter(r, <<r>>, Bump(telemetry, "total")) /\ stage[r] = "new"
    BY <1>0, <1>1, BumpCounts DEF ExecuteFree, RunsLimiter, TypeOK, Counters
  <2> QED BY <1>1, <2>1, LimiterAccounts DEF ExecuteFree
<1>2. ASSUME NEW r \in Request, ResumeAcquire(r) PROVE Accounted'
  <2>1. RunsLimiter(r, lockQueue, telemetry) /\ stage[r] # "new"
    BY <1>0, <1>2 DEF ResumeAcquire, RunsLimiter, TypeOK, Counters
  <2> QED BY <1>2, <2>1, LimiterAccounts DEF ResumeAcquire
<1>3. ASSUME NEW r \in Request, ExecuteQueued(r) PROVE Accounted'
  <2>1. /\ stage[r] = "new" /\ stage' = [stage EXCEPT ![r] = "queued"]
        /\ UNCHANGED <<served, paced>> /\ telemetry' = Bump(telemetry, "total")
    BY <1>3 DEF ExecuteQueued
  <2> QED BY <1>0, <2>1, MoveAccounts DEF Stage, UnderWay, InLimiter
<1>4. ASSUME NEW r \in Request, ExecuteUnknown(r) PROVE Accounted'
  <2>1. /\ stage[r] = "new" /\ stage' = [stage EXCEPT ![r] = "key_error"]
        /\ UNCHANGED <<served, paced>> /\ telemetry' = telemetry
    BY <1>4 DEF ExecuteUnknown, End
  <2> QED BY <1>0, <2>1, MoveAccounts DEF Stage, Finished, UnderWay, InLimiter
<1>5. ASSUME NEW r \in Request, Answer(r) PROVE Accounted'
  <2>1. /\ stage[r] = "calling" /\ UNCHANGED <<served, paced>>
        /\ \/ stage' = [stage EXCEPT ![r] = "ok"] /\ telemetry' = Bump(telemetry, "successful")
           \/ stage' = [stage EXCEPT ![r] = "rate_limited"] /\ telemetry' = Bump(telemetry, "failed")
           \/ stage' = [stage EXCEPT ![r] = "error"] /\ telemetry' = telemetry
           \/ stage' = [stage EXCEPT ![r] = "backoff"] /\ telemetry' = telemetry
    BY <1>5 DEF Answer, HandlerReturns, HandlerRaises, RateLimitedFinally, RateLimited, End
  <2> QED BY <1>0, <2>1, MoveAccounts DEF Stage, Finished, UnderWay, InLimiter
<1>6. ASSUME NEW r \in Request, Retry(r) PROVE Accounted'
  <2>1. /\ stage[r] = "backoff" /\ UNCHANGED <<served, paced>> /\ telemetry' = telemetry
        /\ attempt[r] + 1 \in Nat /\ TryInvoke(r, attempt[r] + 1)
    BY <1>0, <1>6 DEF Retry, TypeOK
  <2>2. /\ stage' \in [Request -> Stage] /\ stage'[r] \in {"calling", "runtime_error"}
        /\ \A q \in Request \ {r} : stage'[q] = stage[q]
    BY <1>0, <2>1, TryInvokeFacts
  <2> QED BY <2>1, <2>2, MoveAccounts DEF UnderWay, InLimiter
<1>7. ASSUME NEW r \in Request, Cancel(r) PROVE Accounted'
  <2>1. /\ stage[r] \in {"queued", "pacing", "calling", "backoff"}
        /\ stage' = [stage EXCEPT ![r] = "cancelled"]
        /\ UNCHANGED <<served, paced>> /\ telemetry' = telemetry
    BY <1>7 DEF Cancel, End
  <2> QED BY <1>0, <2>1, MoveAccounts DEF Stage, Finished, UnderWay, InLimiter
<1>8. CASE Tick \/ register_tool \/ UNCHANGED vars
  BY <1>8 DEF Tick, register_tool, vars, Accounted, At, Waited
<1> QED BY <1>1, <1>2, <1>3, <1>4, <1>5, <1>6, <1>7, <1>8 DEF Next

\* For any number of calls, whatever their outcomes and whoever is cancelled,
\* the gateway's counters add up, and a call counts as throttled if it slept.
THEOREM CountersAccount == Spec => []TelemetryAccounts
<1>1. Init => Accounted
  <2> SUFFICES ASSUME Init PROVE Accounted
    OBVIOUS
  <2>1. At(stage, UnderWay) = {} /\ Waited(served, paced) = {}
    BY DEF Init, At, UnderWay, Waited
  <2>2. Cardinality(At(stage, UnderWay)) = 0 /\ Cardinality(Waited(served, paced)) = 0
    BY <2>1, FS_EmptySet
  <2>3. /\ telemetry.total = 0 /\ telemetry.throttled = 0 /\ telemetry.successful = 0
        /\ telemetry.failed = 0
    BY DEF Init
  <2>4. \A i \in 1 .. Len(served) : stage[served[i]] \notin InLimiter
    BY DEF Init
  <2> QED BY <2>2, <2>3, <2>4 DEF Accounted
<1>2. Accounted => TelemetryAccounts
  BY DEF Accounted, TelemetryAccounts, At, UnderWay, Waited, In
<1> QED BY <1>1, <1>2, IInvHolds, StepAccounts, PTL DEF Spec
=============================================================================
