------------------------- MODULE TokenBucketGateway -------------------------
(***************************************************************************)
(* examples/fastmcp-token-bucket-gateway/gateway.py: FastMCPGateway and    *)
(* the TokenBucket it paces tool calls with, run by one asyncio event      *)
(* loop.  An action is what a task does between two suspension points.     *)
(* Time is counted in ticks of 1 / (tokens_per_second * Cost) seconds: a   *)
(* tick accrues one unit and a token is Cost units, so refill and deficit  *)
(* are exact integers.  asyncio.Lock serves its waiters first come, first  *)
(* served: the head of lockQueue is the task inside the with block.        *)
(***************************************************************************)
EXTENDS Naturals, Sequences, FiniteSets

CONSTANTS
  Request,        \* calls of execute_tool, one task each
  Cost,           \* units of one token
  Cap,            \* burst_capacity, in units
  MaxRetries,     \* max_retries
  BaseBackoff,    \* base_backoff_seconds, in ticks
  MaxBackoff,     \* max_backoff_seconds, in ticks
  MinJitter,      \* the 0.1 s lower end of the jitter, in ticks
  RetryAfter,     \* retry_after values a 429 may carry, 0 for none
  Resolution,     \* how early the event loop may fire a timer
  MaxTime         \* bound on the time that passes while nobody sleeps

ASSUME ConfigAssumption ==
  /\ Cost \in Nat /\ Cap \in Nat /\ MaxRetries \in Nat
  /\ BaseBackoff \in Nat /\ MaxBackoff \in Nat /\ MinJitter \in Nat
  /\ RetryAfter \subseteq Nat
  /\ Resolution \in Nat /\ MaxTime \in Nat

\* The calls are as many as one likes, and can be counted.
ASSUME RequestAssumption == IsFiniteSet(Request)

VARIABLES
  now,          \* time.monotonic()
  tokens,       \* TokenBucket.tokens
  last_refill,  \* TokenBucket.last_refill
  lockQueue,    \* TokenBucket._lock: its holder, then the waiting tasks
  registered,   \* whether the tool is in _tools
  stage,        \* where each task is suspended
  wakeAt,       \* when a sleeping task asked to be woken
  paced,        \* wait_duration > 0 in the task's acquire
  attempt,      \* the task's attempt number, from 0
  notBefore,    \* when the server allows the task's next attempt
  telemetry,    \* GatewayTelemetry
  arrivals,     \* history: requests in the order they reached the limiter
  grants,       \* history: when each token was taken
  served,       \* history: the requests that took them, in the same order
  sent          \* history: requests to the service each task has sent

bucket == <<tokens, last_refill, lockQueue, paced, grants, served>>
sending == <<attempt, sent>>
vars == <<now, bucket, registered, stage, wakeAt, sending, notBefore, telemetry, arrivals>>

\* Suspended in: the lock's queue, the limiter's sleep, the handler, the
\* backoff sleep.  The other stages are before the call and after it, by outcome.
Finished == {"ok", "rate_limited", "error", "runtime_error", "key_error", "cancelled"}
Stage == {"new", "queued", "pacing", "calling", "backoff"} \cup Finished

Init ==
  /\ now = 0
  /\ tokens = Cap
  /\ last_refill = 0
  /\ lockQueue = <<>>
  /\ registered = FALSE
  /\ stage = [r \in Request |-> "new"]
  /\ wakeAt = [r \in Request |-> 0]
  /\ paced = [r \in Request |-> FALSE]
  /\ attempt = [r \in Request |-> 0]
  /\ notBefore = [r \in Request |-> 0]
  /\ telemetry = [total |-> 0, throttled |-> 0, successful |-> 0, failed |-> 0]
  /\ arrivals = <<>>
  /\ grants = <<>>
  /\ served = <<>>
  /\ sent = [r \in Request |-> 0]

Bump(tel, field) == [tel EXCEPT ![field] = @ + 1]

\* asyncio fires a timer once the clock is within its resolution of the deadline.
Due(r) == now + Resolution >= wakeAt[r]

\* The task ends; its frames, and the deadlines they kept, are gone.
End(r, outcome) ==
  /\ stage' = [stage EXCEPT ![r] = outcome]
  /\ wakeAt' = [wakeAt EXCEPT ![r] = 0]
  /\ notBefore' = [notBefore EXCEPT ![r] = 0]

register_tool ==
  /\ ~registered
  /\ registered' = TRUE
  /\ UNCHANGED <<now, bucket, stage, wakeAt, sending, notBefore, telemetry, arrivals>>

\* KeyError before anything is counted.
ExecuteUnknown(r) ==
  /\ stage[r] = "new" /\ ~registered
  /\ End(r, "key_error")
  /\ UNCHANGED <<now, bucket, registered, sending, telemetry, arrivals>>

\* Mutant of Refilled: the refill is not capped at the burst capacity.
RefilledUncapped == tokens + (now - last_refill)

\* _refill: tokens accrued since the last refill, never above the burst capacity.
Refilled ==
  LET accrued == tokens + (now - last_refill)
  IN IF accrued <= Cap THEN accrued ELSE Cap

\* One turn of the loop in _invoke_with_backoff: send attempt a, or fall out
\* of the loop when the attempts are used up.
TryInvoke(r, a) ==
  /\ attempt' = [attempt EXCEPT ![r] = a]
  /\ wakeAt' = [wakeAt EXCEPT ![r] = 0]
  /\ IF a < MaxRetries
       THEN /\ stage' = [stage EXCEPT ![r] = "calling"]
            /\ sent' = [sent EXCEPT ![r] = @ + 1]
       ELSE /\ stage' = [stage EXCEPT ![r] = "runtime_error"]
            /\ UNCHANGED sent

\* Mutant of Pace: the deficit is slept off with the lock released, and the
\* task lines up again behind the tasks that came in meanwhile.
PaceUnlocked(r, queue, tel) ==
  /\ Refilled < Cost
  /\ tokens' = Refilled
  /\ last_refill' = now
  /\ lockQueue' = Append(Tail(queue), r)
  /\ paced' = [paced EXCEPT ![r] = TRUE]
  /\ wakeAt' = [wakeAt EXCEPT ![r] = now + (Cost - Refilled)]
  /\ stage' = [stage EXCEPT ![r] = "pacing"]
  /\ telemetry' = tel
  /\ UNCHANGED <<now, registered, sending, notBefore, grants, served>>

\* Mutant of Pace: _refill credits the tokens and forgets last_refill = now.
PaceUnstamped(r, queue, tel) ==
  /\ Refilled < Cost
  /\ tokens' = Refilled
  /\ lockQueue' = queue
  /\ paced' = [paced EXCEPT ![r] = TRUE]
  /\ wakeAt' = [wakeAt EXCEPT ![r] = now + (Cost - Refilled)]
  /\ stage' = [stage EXCEPT ![r] = "pacing"]
  /\ telemetry' = tel
  /\ UNCHANGED <<now, last_refill, registered, sending, notBefore, grants, served>>

\* Inside the lock, after a refill that left too little: sleep off the deficit.
Pace(r, queue, tel) ==
  /\ Refilled < Cost
  /\ tokens' = Refilled
  /\ last_refill' = now
  /\ lockQueue' = queue
  /\ paced' = [paced EXCEPT ![r] = TRUE]
  /\ wakeAt' = [wakeAt EXCEPT ![r] = now + (Cost - Refilled)]
  /\ stage' = [stage EXCEPT ![r] = "pacing"]
  /\ telemetry' = tel
  /\ UNCHANGED <<now, registered, sending, notBefore, grants, served>>

\* Mutant of Grant: the lock is not released when the token is taken.
GrantHolding(r, queue, tel) ==
  /\ Refilled >= Cost
  /\ tokens' = Refilled - Cost
  /\ last_refill' = now
  /\ lockQueue' = queue
  /\ grants' = Append(grants, now)
  /\ served' = Append(served, r)
  /\ telemetry' = IF paced[r] THEN Bump(tel, "throttled") ELSE tel
  /\ TryInvoke(r, 0)
  /\ UNCHANGED <<now, registered, paced, notBefore>>

\* Inside the lock, after a refill that left enough: take a token, leave the
\* lock, count the wait and start the first attempt, all without suspending.
Grant(r, queue, tel) ==
  /\ Refilled >= Cost
  /\ tokens' = Refilled - Cost
  /\ last_refill' = now
  /\ lockQueue' = Tail(queue)
  /\ grants' = Append(grants, now)
  /\ served' = Append(served, r)
  /\ telemetry' = IF paced[r] THEN Bump(tel, "throttled") ELSE tel
  /\ TryInvoke(r, 0)
  /\ UNCHANGED <<now, registered, paced, notBefore>>

\* execute_tool with the lock free: acquire goes on without suspending.
ExecuteFree(r) ==
  /\ stage[r] = "new" /\ registered /\ lockQueue = <<>>
  /\ arrivals' = Append(arrivals, r)
  /\ LET counted == Bump(telemetry, "total")
     IN Pace(r, <<r>>, counted) \/ Grant(r, <<r>>, counted)

\* execute_tool with the lock taken or spoken for: wait in line.
ExecuteQueued(r) ==
  /\ stage[r] = "new" /\ registered /\ lockQueue # <<>>
  /\ arrivals' = Append(arrivals, r)
  /\ telemetry' = Bump(telemetry, "total")
  /\ lockQueue' = Append(lockQueue, r)
  /\ stage' = [stage EXCEPT ![r] = "queued"]
  /\ UNCHANGED <<now, tokens, last_refill, paced, grants, served, registered, wakeAt, sending, notBefore>>

\* The head of the line runs: it was handed the lock, or its sleep is over.
ResumeAcquire(r) ==
  /\ lockQueue # <<>> /\ Head(lockQueue) = r
  /\ stage[r] = "queued" \/ (stage[r] = "pacing" /\ Due(r))
  /\ Pace(r, lockQueue, telemetry) \/ Grant(r, lockQueue, telemetry)
  /\ UNCHANGED arrivals

HandlerReturns(r) ==
  /\ stage[r] = "calling"
  /\ End(r, "ok")
  /\ telemetry' = Bump(telemetry, "successful")
  /\ UNCHANGED <<now, bucket, registered, sending, arrivals>>

\* Any exception but a rate limit reaches the caller, counted nowhere.
HandlerRaises(r) ==
  /\ stage[r] = "calling"
  /\ End(r, "error")
  /\ UNCHANGED <<now, bucket, registered, sending, telemetry, arrivals>>

\* The delays _calculate_jittered_backoff may choose.  random.uniform accepts
\* its ends in either order.
BackoffDelay(a, retryAfter) ==
  LET raw == BaseBackoff * 2^a
      capped == IF raw <= MaxBackoff THEN raw ELSE MaxBackoff
  IN IF retryAfter > 0 THEN {retryAfter}
     ELSE {d \in 0 .. (MaxBackoff + MinJitter) :
             (MinJitter <= d /\ d <= capped) \/ (capped <= d /\ d <= MinJitter)}

LastAttempt(a) == a + 1 = MaxRetries

\* A 429 on the last attempt: counted, and raised to the caller.
RateLimitedFinally(r) ==
  /\ stage[r] = "calling" /\ LastAttempt(attempt[r])
  /\ End(r, "rate_limited")
  /\ telemetry' = Bump(telemetry, "failed")
  /\ UNCHANGED <<now, bucket, registered, sending, arrivals>>

\* Mutant of RateLimited: every 429 counts as a failed invocation.
RateLimitedCounted(r, retryAfter) ==
  /\ stage[r] = "calling" /\ ~LastAttempt(attempt[r])
  /\ \E d \in BackoffDelay(attempt[r], retryAfter) :
       wakeAt' = [wakeAt EXCEPT ![r] = now + d]
  /\ notBefore' = [notBefore EXCEPT ![r] = now + retryAfter]
  /\ stage' = [stage EXCEPT ![r] = "backoff"]
  /\ telemetry' = Bump(telemetry, "failed")
  /\ UNCHANGED <<now, bucket, registered, sending, arrivals>>

\* A 429 with attempts left: sleep, outside the limiter.
RateLimited(r, retryAfter) ==
  /\ stage[r] = "calling" /\ ~LastAttempt(attempt[r])
  /\ \E d \in BackoffDelay(attempt[r], retryAfter) :
       wakeAt' = [wakeAt EXCEPT ![r] = now + d]
  /\ notBefore' = [notBefore EXCEPT ![r] = now + retryAfter]
  /\ stage' = [stage EXCEPT ![r] = "backoff"]
  /\ UNCHANGED <<now, bucket, registered, sending, telemetry, arrivals>>

\* The backoff is over: the next attempt goes out without a new token.
Retry(r) ==
  /\ stage[r] = "backoff" /\ Due(r)
  /\ TryInvoke(r, attempt[r] + 1)
  /\ UNCHANGED <<now, bucket, registered, notBefore, telemetry, arrivals>>

\* A lock's queue once r has left it.
Leave(queue, r) ==
  IF \E i \in 1 .. Len(queue) : queue[i] = r
    THEN LET i == CHOOSE i \in 1 .. Len(queue) : queue[i] = r
         IN SubSeq(queue, 1, i - 1) \o SubSeq(queue, i + 1, Len(queue))
    ELSE queue

\* The caller gives up on the task (asyncio.wait_for, task.cancel): wherever
\* it is suspended CancelledError leaves every with block, and no token is taken.
Cancel(r) ==
  /\ stage[r] \in {"queued", "pacing", "calling", "backoff"}
  /\ End(r, "cancelled")
  /\ lockQueue' = Leave(lockQueue, r)
  /\ UNCHANGED <<now, tokens, last_refill, paced, grants, served, registered, sending,
                 telemetry, arrivals>>

Sleeping(r) == stage[r] \in {"pacing", "backoff"} /\ now < wakeAt[r]

\* Time passes.  MaxTime bounds idle time only: a sleeper's deadline always comes.
Tick ==
  /\ now < MaxTime \/ \E r \in Request : Sleeping(r)
  /\ now' = now + 1
  /\ UNCHANGED <<bucket, registered, stage, wakeAt, sending, notBefore, telemetry, arrivals>>

\* The service answers the attempt in progress.
Answer(r) ==
  \/ HandlerReturns(r) \/ HandlerRaises(r) \/ RateLimitedFinally(r)
  \/ \E ra \in RetryAfter : RateLimited(r, ra)

Next ==
  \/ Tick \/ register_tool
  \/ \E r \in Request :
       \/ ExecuteUnknown(r) \/ ExecuteFree(r) \/ ExecuteQueued(r)
       \/ ResumeAcquire(r) \/ Answer(r) \/ Retry(r) \/ Cancel(r)

Spec == Init /\ [][Next]_vars

\* The clock moves, the event loop runs every task that is ready, and the
\* tool's handler always ends, with a result or with an exception.
FairSpec ==
  /\ Spec
  /\ WF_vars(Tick)
  /\ \A r \in Request : WF_vars(ResumeAcquire(r)) /\ WF_vars(Retry(r)) /\ WF_vars(Answer(r))
-----------------------------------------------------------------------------
\* Every variable keeps its type; the bucket that _refill and acquire update is
\* never overdrawn and never above its capacity.
TypeOK ==
  /\ now \in Nat /\ last_refill \in 0 .. now
  /\ tokens \in 0 .. Cap
  /\ lockQueue \in Seq(Request) /\ arrivals \in Seq(Request) /\ served \in Seq(Request)
  /\ registered \in BOOLEAN
  /\ stage \in [Request -> Stage]
  /\ wakeAt \in [Request -> Nat] /\ notBefore \in [Request -> Nat]
  /\ attempt \in [Request -> Nat]
  /\ paced \in [Request -> BOOLEAN]
  /\ telemetry \in [total : Nat, throttled : Nat, successful : Nat, failed : Nat]
  /\ grants \in Seq(Nat)
  /\ sent \in [Request -> Nat]

\* In every window of time the limiter hands out at most a burst plus what
\* accrues meanwhile: window [i .. j] holds j - i + 1 tokens.
WindowConformance ==
  \A i \in 1 .. Len(grants) : \A j \in i .. Len(grants) :
    (j - i + 1) * Cost <= Cap + (grants[j] - grants[i])

\* Tokens go out in the order the calls reached the limiter, whoever was
\* cancelled or asleep meanwhile.
FirstComeFirstServed ==
  \A i, j \in 1 .. Len(served) : i < j =>
    \E m, n \in 1 .. Len(arrivals) :
      m < n /\ arrivals[m] = served[i] /\ arrivals[n] = served[j]

\* A retry never goes out before the moment the server's Retry-After allows,
\* to within the event loop's timer resolution.
RetryAfterIsAFloor ==
  \A r \in Request : stage[r] = "calling" /\ attempt[r] > 0 =>
    now + Resolution >= notBefore[r]

\* A rate-limited call gives up only after exactly MaxRetries attempts, no
\* call makes more, and the RuntimeError after the loop is never the outcome.
AllAttemptsAreUsed ==
  \A r \in Request :
    /\ sent[r] <= MaxRetries
    /\ stage[r] = "rate_limited" => sent[r] = MaxRetries
    /\ MaxRetries > 0 => stage[r] # "runtime_error"

\* What the limiter and the retry loop never do, whatever calls they serve together.
LimitsAreKept == TypeOK /\ WindowConformance /\ RetryAfterIsAFloor /\ AllAttemptsAreUsed

In(s) == Cardinality({r \in Request : stage[r] \in s})

\* The counters account for every call: what was requested is what succeeded,
\* what failed on rate limits, what ended uncounted and what is under way.
TelemetryAccounts ==
  /\ telemetry.total = telemetry.successful + telemetry.failed
       + In({"error", "runtime_error", "cancelled", "queued", "pacing", "calling", "backoff"})
  /\ telemetry.throttled = Cardinality({i \in 1 .. Len(served) : paced[served[i]]})

\* Every call that was started ends, whatever its neighbours in the queue do.
EveryCallEnds ==
  \A r \in Request : stage[r] # "new" ~> stage[r] \in Finished

\* Why the window bound is inductive: a window that ends now has used what it
\* was allowed but for the tokens still in the bucket.
LedgerBalances ==
  \A i \in 1 .. Len(grants) :
    /\ grants[i] <= last_refill
    /\ (Len(grants) - i + 1) * Cost + tokens <= Cap + (last_refill - grants[i])

\* A backoff sleep never ends before the server's moment.
BackoffCoversRetryAfter ==
  \A r \in Request : stage[r] = "backoff" => wakeAt[r] >= notBefore[r]

\* The attempt number of a task that is trying tells how often it has sent.
SendsAreCounted ==
  \A r \in Request :
    /\ stage[r] \in {"new", "queued", "pacing"} => sent[r] = 0
    /\ stage[r] = "calling" => sent[r] = attempt[r] + 1 /\ attempt[r] < MaxRetries
    /\ stage[r] = "backoff" => sent[r] = attempt[r] + 1 /\ attempt[r] + 1 < MaxRetries

IInv ==
  /\ TypeOK
  /\ LedgerBalances /\ WindowConformance
  /\ BackoffCoversRetryAfter /\ RetryAfterIsAFloor
  /\ SendsAreCounted /\ AllAttemptsAreUsed

\* The promise to the service, as a specification of its own.
Limiter == INSTANCE WindowLimiter
ImplementsWindowLimiter == Limiter!Spec
=============================================================================
