----------------------------- MODULE RateLimiter -----------------------------
(***************************************************************************)
(* The process-wide token bucket of src/src/rate_limit.rs.                 *)
(*                                                                         *)
(* Every HTTP request is a task that runs rate_limit_middleware, and check *)
(* has two steps that other tasks interleave with: it samples the          *)
(* monotonic clock, and only then takes the bucket's mutex and decides in  *)
(* check_at.  A task may therefore decide with a sample older than the     *)
(* bucket's last refill.                                                   *)
(*                                                                         *)
(* The code keeps tokens in an f64 and time in a Duration.  Here time is   *)
(* counted in ticks, Second of them to a second, and tokens in 1/Second of *)
(* a token, so that `elapsed.as_secs_f64() * rate` is exactly              *)
(* Rate * elapsed; the rounding of f64 is not modelled.                    *)
(***************************************************************************)
EXTENDS Integers, Sequences

CONSTANTS
    Requests,   \* the tasks serving HTTP requests (each serves many in turn)
    Rate,       \* RateLimitPolicy::requests_per_second
    Burst,      \* RateLimitPolicy::burst
    Second,     \* clock ticks in one second
    MaxNow      \* bound: the model's clock stops here

MAX_REQUESTS_PER_SECOND == 1000000
MAX_BURST == 1000000

\* RateLimitPolicy::new accepts nothing else.
ASSUME PolicyAssumption ==
    /\ Rate \in Nat /\ 1 <= Rate /\ Rate <= MAX_REQUESTS_PER_SECOND
    /\ Burst \in Nat /\ 1 <= Burst /\ Burst <= MAX_BURST

ASSUME ClockAssumption ==
    /\ Second \in Nat \ {0}
    /\ MaxNow \in Nat

VARIABLES
    now,          \* started_at.elapsed(), were it read now
    tokens,       \* BucketState::tokens, in 1/Second of a token
    lastRefill,   \* BucketState::last_refill
    pc,           \* where each task is
    sample,       \* the offset the task passed to check_at
    retryAfter,   \* the Retry-After seconds of the task's refusal
    grants,       \* history: the bucket's time at each admission, in order
    passed,       \* history: when each admission was made, and with which sample
    refusal       \* history: when a task was refused, and after how many grants

bucket == << tokens, lastRefill >>
vars == << now, tokens, lastRefill, pc, sample, retryAfter, grants, passed, refusal >>

\* The promise this module is shown to keep.
Curve == INSTANCE ArrivalCurve WITH Instants <- 0..MaxNow

-----------------------------------------------------------------------------
Capacity == Burst * Second

\* Mutant of Elapsed: abs_diff for saturating_sub, a stale sample earns credit.
ElapsedByAbsDiff(t) == IF t > lastRefill THEN t - lastRefill ELSE lastRefill - t

\* now.saturating_sub(bucket.last_refill)
Elapsed(t) == IF t > lastRefill THEN t - lastRefill ELSE 0

\* Mutants of Refilled: the cap at the burst is forgotten, and as_secs for
\* as_secs_f64 credits whole seconds only.
RefilledWithoutCap(t) == tokens + Rate * Elapsed(t)

RefilledByWholeSeconds(t) ==
    LET level == tokens + Rate * Second * (Elapsed(t) \div Second)
    IN  IF level > Capacity THEN Capacity ELSE level

\* The bucket after check_at has credited the time up to t.
Refilled(t) ==
    IF Elapsed(t) = 0 THEN tokens
    ELSE IF tokens + Rate * Elapsed(t) > Capacity THEN Capacity
    ELSE tokens + Rate * Elapsed(t)

\* Mutant of RefillTime: last_refill is assigned outside the `if`, so a stale
\* sample rewinds it and the same time is credited twice.
RefillTimeUnguarded(t) == t

\* last_refill after the same credit: only a positive elapsed time moves it.
RefillTime(t) == IF Elapsed(t) = 0 THEN lastRefill ELSE t

\* Mutant of RetrySeconds: the delay is rounded down.
RetrySecondsFloor(level) == (Second - level) \div (Rate * Second)

\* (missing_tokens / rate).ceil(), and at least one second.
RetrySeconds(level) ==
    LET missing == Second - level
        perSecond == Rate * Second
        seconds == (missing + perSecond - 1) \div perSecond
    IN  IF seconds > 1 THEN seconds ELSE 1

NoRefusal == [at |-> 0, seen |-> 0]

Init ==
    /\ now = 0
    /\ tokens = Capacity
    /\ lastRefill = 0
    /\ pc = [p \in Requests |-> "idle"]
    /\ sample = [p \in Requests |-> 0]
    /\ retryAfter = [p \in Requests |-> 0]
    /\ grants = << >>
    /\ passed = << >>
    /\ refusal = [p \in Requests |-> NoRefusal]

\* Time passes while tasks run.
Tick ==
    /\ now < MaxNow
    /\ now' = now + 1
    /\ UNCHANGED << tokens, lastRefill, pc, sample, retryAfter, grants, passed, refusal >>

\* check: the clock is read before the mutex is taken.
Check(p) ==
    /\ pc[p] = "idle"
    /\ pc' = [pc EXCEPT ![p] = "sampled"]
    /\ sample' = [sample EXCEPT ![p] = now]
    /\ UNCHANGED << now, tokens, lastRefill, retryAfter, grants, passed, refusal >>

\* check_at under the mutex, a whole token available: the request goes on to
\* authentication and the handlers.  With a stale sample the bucket's time, which
\* dates the grant, lies before the moment of the admission.
Admit(p) ==
    /\ pc[p] = "sampled"
    /\ Refilled(sample[p]) >= Second
    /\ tokens' = Refilled(sample[p]) - Second
    /\ lastRefill' = RefillTime(sample[p])
    /\ pc' = [pc EXCEPT ![p] = "admitted"]
    /\ grants' = Append(grants, lastRefill')
    /\ passed' = Append(passed, [at |-> now, sample |-> sample[p]])
    /\ UNCHANGED << now, sample, retryAfter, refusal >>

\* Mutant of Refuse: `tokens > 1.0` for `tokens >= 1.0`.
RefuseAtOne(p) ==
    /\ pc[p] = "sampled"
    /\ Refilled(sample[p]) <= Second
    /\ tokens' = Refilled(sample[p])
    /\ lastRefill' = RefillTime(sample[p])
    /\ pc' = [pc EXCEPT ![p] = "refused"]
    /\ retryAfter' = [retryAfter EXCEPT ![p] = RetrySeconds(Refilled(sample[p]))]
    /\ refusal' = [refusal EXCEPT ![p] = [at |-> now, seen |-> Len(grants)]]
    /\ UNCHANGED << now, sample, grants, passed >>

\* check_at under the mutex, no whole token: the refill is kept, nothing is
\* charged, and the answer is 429 with Retry-After.
Refuse(p) ==
    /\ pc[p] = "sampled"
    /\ Refilled(sample[p]) < Second
    /\ tokens' = Refilled(sample[p])
    /\ lastRefill' = RefillTime(sample[p])
    /\ pc' = [pc EXCEPT ![p] = "refused"]
    /\ retryAfter' = [retryAfter EXCEPT ![p] = RetrySeconds(Refilled(sample[p]))]
    /\ refusal' = [refusal EXCEPT ![p] = [at |-> now, seen |-> Len(grants)]]
    /\ UNCHANGED << now, sample, grants, passed >>

\* The response is written and the task takes its next request.
Finish(p) ==
    /\ pc[p] \in {"admitted", "refused"}
    /\ pc' = [pc EXCEPT ![p] = "idle"]
    /\ sample' = [sample EXCEPT ![p] = 0]
    /\ retryAfter' = [retryAfter EXCEPT ![p] = 0]
    /\ refusal' = [refusal EXCEPT ![p] = NoRefusal]
    /\ UNCHANGED << now, tokens, lastRefill, grants, passed >>

Next ==
    \/ Tick
    \/ \E p \in Requests : Check(p) \/ Admit(p) \/ Refuse(p) \/ Finish(p)

Spec == Init /\ [][Next]_vars

-----------------------------------------------------------------------------
\* The shape of the state: the bucket holds between nothing and its capacity,
\* and neither a sample nor the last refill lies in the future.
TypeOK ==
    /\ now \in 0..MaxNow
    /\ tokens \in 0..Capacity
    /\ lastRefill \in 0..now
    /\ pc \in [Requests -> {"idle", "sampled", "admitted", "refused"}]
    /\ sample \in [Requests -> 0..now]
    /\ retryAfter \in [Requests -> Nat]
    /\ grants \in Seq(0..now)
    /\ passed \in Seq([at : 0..now, sample : 0..now])
    /\ refusal \in [Requests -> [at : 0..now, seen : 0..Len(grants)]]

\* In the time of the clock on the wall: any requests let through one after the
\* other are at most Burst plus Rate for each second from the moment the first of
\* them sampled the clock to the moment the last got past the mutex.  A task that
\* waits long for the mutex with its sample thus stretches its window by its wait,
\* and nothing else does, however many tasks race.
WindowBound ==
    \A i, j \in DOMAIN passed :
        i <= j =>
            (j - i + 1) * Second <= Capacity + Rate * (passed[j].at - passed[i].sample)

\* Room left under the curve, at the bucket's time t, by the window that starts with the
\* i-th grant of the history g.
Slack(g, t, i) == Capacity + Rate * (t - g[i]) - (Len(g) - i + 1) * Second

\* The bucket is exact: its level is the room the tightest window of the bucket's
\* time leaves, no more (it would overrun the curve later) and no less (capacity
\* would leak away through refusals, saturated stale samples or the cap).
BucketIsExact ==
    /\ \A i \in DOMAIN grants : tokens <= Slack(grants, lastRefill, i)
    /\ \/ tokens = Capacity
       \/ \E i \in DOMAIN grants : tokens = Slack(grants, lastRefill, i)

\* Nobody is turned away while the curve has room: when check_at refuses, one
\* more grant at the bucket's time would have broken some window's bound.
RefusesOnlyWhenExhausted ==
    [][\A p \in Requests :
          pc[p] = "sampled" /\ pc'[p] = "refused" =>
              ~ Curve!Conforms(Append(grants, lastRefill'))]_vars

\* Retry-After tells the truth: unless another request was let through since
\* the refusal, a request that samples the clock once the announced delay has
\* passed finds a whole token, whatever checks were refused meanwhile.
RetryAfterSuffices ==
    \A p \in Requests :
        pc[p] = "refused" /\ refusal[p].seen = Len(grants) =>
            Refilled(refusal[p].at + retryAfter[p] * Second) >= Second

\* The bucket implements the arrival-curve promise step by step, in the bucket's
\* own time: a grant is dated with the last refill, not with the time on the wall.
ImplementsCurve == Curve!Spec

=============================================================================
