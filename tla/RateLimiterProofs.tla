-------------------------- MODULE RateLimiterProofs --------------------------
(***************************************************************************)
(* Proofs about RateLimiter for every rate, burst, clock resolution and    *)
(* set of tasks.                                                           *)
(*                                                                         *)
(* The argument rests on one strengthening: the bucket's level is at most  *)
(* the room under the arrival curve of every window that ends now, and     *)
(* equals it for one of them (BucketIsExact).  From it follow the bound    *)
(* over all windows of the bucket's time (UnderCurve), the implementation  *)
(* of the arrival curve, and that only an exhausted curve makes the        *)
(* limiter refuse.  The bucket's time at an admission lies between the     *)
(* task's sample and the time on the wall (Dated), which turns the bound   *)
(* into one on the time on the wall (WindowBound).                         *)
(***************************************************************************)
EXTENDS RateLimiter, SequenceTheorems, TLAPS

-----------------------------------------------------------------------------
(***************************************************************************)
(* Arithmetic of the bucket.                                               *)
(***************************************************************************)

\* The capacity is a number of tokens that one request always fits into.
LEMMA CapacityHoldsOne == Capacity \in Nat /\ Capacity >= Second
  <1>1. Burst \in Nat /\ Burst >= 1 /\ Second \in Nat
    BY PolicyAssumption, ClockAssumption
  <1>2. Burst * Second >= 1 * Second
    BY <1>1
  <1> QED
    BY <1>1, <1>2 DEF Capacity

\* The credit of check_at keeps the level within the capacity and never moves
\* last_refill back; it is worth at most Rate per tick, and less only when the
\* bucket is full.
LEMMA RefillFacts ==
  ASSUME TypeOK, NEW t \in Nat
  PROVE  /\ Refilled(t) \in 0..Capacity
         /\ RefillTime(t) \in Nat
         /\ RefillTime(t) >= lastRefill
         /\ t <= RefillTime(t)
         /\ t <= now => RefillTime(t) <= now
         /\ Refilled(t) <= tokens + Rate * (RefillTime(t) - lastRefill)
         /\ \/ Refilled(t) = Capacity
            \/ Refilled(t) = tokens + Rate * (RefillTime(t) - lastRefill)
  <1>1. /\ tokens \in Nat /\ tokens <= Capacity
        /\ lastRefill \in Nat /\ lastRefill <= now /\ now \in Nat
    BY ClockAssumption, CapacityHoldsOne DEF TypeOK
  <1>2. Rate \in Nat /\ Rate >= 1
    BY PolicyAssumption
  <1>3. CASE t > lastRefill
    <2>1. Elapsed(t) = t - lastRefill /\ Elapsed(t) # 0 /\ RefillTime(t) = t
      BY <1>1, <1>3 DEF Elapsed, RefillTime
    <2>2. Rate * (t - lastRefill) \in Nat
      BY <1>1, <1>2, <1>3
    <2>3. Refilled(t) = IF tokens + Rate * (t - lastRefill) > Capacity
                        THEN Capacity ELSE tokens + Rate * (t - lastRefill)
      BY <2>1 DEF Refilled
    <2> QED
      BY <1>1, <1>3, <2>1, <2>2, <2>3, CapacityHoldsOne
  <1>4. CASE ~ (t > lastRefill)
    <2>1. Elapsed(t) = 0 /\ RefillTime(t) = lastRefill /\ Refilled(t) = tokens
      BY <1>4 DEF Elapsed, RefillTime, Refilled
    <2>2. Rate * (lastRefill - lastRefill) = 0
      BY <1>1, <1>2
    <2> QED
      BY <1>1, <1>4, <2>1, <2>2, CapacityHoldsOne
  <1> QED
    BY <1>3, <1>4

\* A refusal announces at least one whole second.
LEMMA RetryAtLeastOne ==
  ASSUME NEW level \in Int
  PROVE  RetrySeconds(level) \in Nat /\ RetrySeconds(level) >= 1
  <1>1. Rate * Second \in Nat \ {0}
    BY PolicyAssumption, ClockAssumption
  <1> DEFINE seconds == ((Second - level) + Rate * Second - 1) \div (Rate * Second)
  <1>2. seconds \in Int
    BY <1>1, ClockAssumption
  <1>3. RetrySeconds(level) = IF seconds > 1 THEN seconds ELSE 1
    BY DEF RetrySeconds
  <1> QED
    BY <1>2, <1>3

-----------------------------------------------------------------------------
(***************************************************************************)
(* Type correctness.                                                       *)
(***************************************************************************)

\* What the two decisions of check_at do to the bucket, as plain facts about
\* the states before and after.
LEMMA AdmitFacts ==
  ASSUME TypeOK, NEW p \in Requests, Admit(p)
  PROVE  /\ tokens' = Refilled(sample[p]) - Second
         /\ Refilled(sample[p]) >= Second
         /\ lastRefill' = RefillTime(sample[p])
         /\ grants' = Append(grants, lastRefill')
         /\ passed' = Append(passed, [at |-> now, sample |-> sample[p]])
         /\ now' = now
         /\ sample[p] \in Nat /\ sample[p] <= now
  BY ClockAssumption DEF TypeOK, Admit

\* A refusal keeps the credited level and charges nothing.
LEMMA RefuseFacts ==
  ASSUME TypeOK, NEW p \in Requests, Refuse(p)
  PROVE  /\ tokens' = Refilled(sample[p])
         /\ Refilled(sample[p]) < Second
         /\ lastRefill' = RefillTime(sample[p])
         /\ grants' = grants
         /\ now' = now
         /\ sample[p] \in Nat /\ sample[p] <= now
  BY ClockAssumption DEF TypeOK, Refuse

\* Every variable keeps its shape: no sample, refill, grant or refusal lies in
\* the future and the level stays between nothing and the capacity.
THEOREM TypeCorrect == Spec => []TypeOK
  <1>1. Init => TypeOK
    <2> SUFFICES ASSUME Init PROVE TypeOK
      OBVIOUS
    <2>1. /\ grants \in Seq(0..now) /\ Len(grants) = 0
          /\ passed \in Seq([at : 0..now, sample : 0..now])
      BY DEF Init
    <2> QED
      BY <2>1, CapacityHoldsOne, ClockAssumption DEF Init, TypeOK, NoRefusal
  <1>2. TypeOK /\ [Next]_vars => TypeOK'
    <2> SUFFICES ASSUME TypeOK, [Next]_vars PROVE TypeOK'
      OBVIOUS
    <2> USE ClockAssumption, CapacityHoldsOne
    <2>1. CASE Tick
      <3>1. 0..now \subseteq 0..now' /\ now' \in 0..MaxNow
        BY <2>1 DEF TypeOK, Tick
      <3>2. grants' \in Seq(0..now') /\ Len(grants') = Len(grants)
        BY <2>1, <3>1, SeqMonotonic DEF TypeOK, Tick
      <3>3. passed' \in Seq([at : 0..now', sample : 0..now'])
        <4> DEFINE S == [at : 0..now, sample : 0..now]
                   T == [at : 0..now', sample : 0..now']
        <4>1. S \subseteq T
          BY <3>1
        <4>2. passed \in Seq(S) /\ passed' = passed
          BY <2>1 DEF TypeOK, Tick
        <4> HIDE DEF S, T
        <4>3. passed' \in Seq(T)
          BY <4>1, <4>2, SeqMonotonic
        <4> QED
          BY <4>3 DEF T
      <3> QED
        BY <2>1, <3>1, <3>2, <3>3 DEF TypeOK, Tick
    <2>2. ASSUME NEW p \in Requests, Check(p) PROVE TypeOK'
      BY <2>2 DEF TypeOK, Check
    <2>3. ASSUME NEW p \in Requests, Admit(p) PROVE TypeOK'
      <3>0. /\ tokens' = Refilled(sample[p]) - Second
            /\ Refilled(sample[p]) >= Second
            /\ lastRefill' = RefillTime(sample[p])
            /\ grants' = Append(grants, lastRefill')
            /\ passed' = Append(passed, [at |-> now, sample |-> sample[p]])
            /\ now' = now
            /\ sample[p] \in Nat /\ sample[p] <= now /\ now \in Nat
        BY <2>3, AdmitFacts DEF TypeOK
      <3>1. /\ Refilled(sample[p]) \in 0..Capacity
            /\ RefillTime(sample[p]) \in 0..now
        <4>1. sample[p] \in Nat
          BY <3>0
        <4>2. sample[p] <= now => RefillTime(sample[p]) <= now
          BY <4>1, RefillFacts
        <4>3. Refilled(sample[p]) \in 0..Capacity
          BY <4>1, RefillFacts
        <4>4. RefillTime(sample[p]) \in Nat
          BY <4>1, RefillFacts
        <4> QED
          BY <3>0, <4>2, <4>3, <4>4
      <3>2. tokens' \in 0..Capacity /\ lastRefill' \in 0..now'
        BY <3>0, <3>1
      <3>3. grants' \in Seq(0..now') /\ Len(grants') = Len(grants) + 1
                                      /\ Len(grants) \in Nat
        BY <3>0, <3>2 DEF TypeOK
      <3>4. passed' \in Seq([at : 0..now', sample : 0..now'])
        <4>1. [at |-> now, sample |-> sample[p]] \in [at : 0..now, sample : 0..now]
          BY <3>0
        <4> QED
          BY <3>0, <4>1, AppendProperties DEF TypeOK
      <3> QED
        BY <2>3, <3>0, <3>2, <3>3, <3>4 DEF TypeOK, Admit
    <2>4. ASSUME NEW p \in Requests, Refuse(p) PROVE TypeOK'
      <3>1. tokens' \in 0..Capacity /\ lastRefill' \in 0..now'
        BY <2>4, RefuseFacts, RefillFacts
      <3>2. RetrySeconds(Refilled(sample[p])) \in Nat
        BY <2>4, RefuseFacts, RefillFacts, RetryAtLeastOne
      <3>3. [at |-> now, seen |-> Len(grants)]
                \in [at : 0..now, seen : 0..Len(grants)]
        BY DEF TypeOK
      <3> QED
        BY <2>4, <3>1, <3>2, <3>3 DEF TypeOK, Refuse
    <2>5. ASSUME NEW p \in Requests, Finish(p) PROVE TypeOK'
      <3>1. NoRefusal \in [at : 0..now, seen : 0..Len(grants)]
        BY DEF TypeOK, NoRefusal
      <3> QED
        BY <2>5, <3>1 DEF TypeOK, Finish
    <2>6. CASE UNCHANGED vars
      BY <2>6 DEF TypeOK, vars
    <2> QED
      BY <2>1, <2>2, <2>3, <2>4, <2>5, <2>6 DEF Next
  <1> QED
    BY <1>1, <1>2, PTL DEF Spec


-----------------------------------------------------------------------------
(***************************************************************************)
(* The bucket is exact.                                                    *)
(***************************************************************************)

\* What is inductive: the bucket is exact, and the history of grants is ordered
\* and ends no later than the last refill.
IInv ==
    /\ TypeOK
    /\ BucketIsExact
    /\ Curve!Ordered(grants)
    /\ \A i \in DOMAIN grants : grants[i] <= lastRefill

\* The history as a function on 1..Len(grants).
LEMMA GrantsShape ==
  ASSUME TypeOK
  PROVE  /\ now \in Nat
         /\ Len(grants) \in Nat
         /\ DOMAIN grants = 1..Len(grants)
         /\ \A i \in 1..Len(grants) : grants[i] \in Nat /\ grants[i] <= now
  <1>1. now \in Nat /\ grants \in Seq(0..now)
    BY ClockAssumption DEF TypeOK
  <1> QED
    BY <1>1, LenProperties, ElementOfSeq

\* The credit for a long interval is that of its two parts.
LEMMA CreditAdds ==
  ASSUME NEW r \in Int, NEW g \in Int, NEW l \in Int, NEW m \in Int
  PROVE  r * (m - g) = r * (l - g) + r * (m - l)
  OBVIOUS

\* Time passing widens every window by its worth in tokens.
LEMMA SlackGrows ==
  ASSUME TypeOK, NEW t \in Nat, NEW i \in DOMAIN grants
  PROVE  /\ Slack(grants, lastRefill, i) \in Int
         /\ Slack(grants, t, i)
              = Slack(grants, lastRefill, i) + Rate * (t - lastRefill)
  <1> DEFINE g == grants[i]
             k == Len(grants) - i + 1
             early == Rate * (lastRefill - g)
             credit == Rate * (t - lastRefill)
             all == Rate * (t - g)
             spent == k * Second
  <1>1. /\ g \in Int /\ k \in Int /\ lastRefill \in Int
        /\ Capacity \in Int /\ Second \in Int /\ Rate \in Int
    BY GrantsShape, CapacityHoldsOne, PolicyAssumption, ClockAssumption DEF TypeOK
  <1>2. /\ Slack(grants, lastRefill, i) = Capacity + early - spent
        /\ Slack(grants, t, i) = Capacity + all - spent
    BY DEF Slack
  <1> HIDE DEF g, k
  <1>3. all = early + credit
    BY <1>1, CreditAdds
  <1>4. all \in Int /\ early \in Int /\ credit \in Int /\ spent \in Int
    BY <1>1
  <1>5. Rate * (t - lastRefill) = credit
    OBVIOUS
  <1> HIDE DEF all, early, credit, spent
  <1> QED
    BY <1>1, <1>2, <1>3, <1>4, <1>5

\* One more grant at time t leaves room for Second less in the windows that were
\* open, and its own window leaves the capacity less Second.
LEMMA GrantTakesOne ==
  ASSUME TypeOK, NEW t \in Nat, NEW g, g = Append(grants, t)
  PROVE  /\ DOMAIN g = 1..(Len(grants) + 1)
         /\ Len(g) = Len(grants) + 1
         /\ g[Len(grants) + 1] = t
         /\ \A i \in DOMAIN grants :
               /\ g[i] = grants[i]
               /\ Slack(grants, t, i) \in Int
               /\ Slack(g, t, i) = Slack(grants, t, i) - Second
         /\ Slack(g, t, Len(grants) + 1) = Capacity - Second
  <1>1. /\ Len(grants) \in Nat /\ DOMAIN grants = 1..Len(grants)
        /\ \A i \in 1..Len(grants) : grants[i] \in Nat
    BY GrantsShape
  <1>2. /\ Capacity \in Nat /\ Second \in Nat /\ Rate \in Nat
    BY CapacityHoldsOne, PolicyAssumption, ClockAssumption
  <1>3. grants \in Seq(Nat)
    <2>1. grants \in Seq(0..now) /\ 0..now \subseteq Nat
      BY DEF TypeOK
    <2> QED
      BY <2>1, SeqMonotonic
  <1>4. /\ Len(g) = Len(grants) + 1
        /\ DOMAIN g = 1..(Len(grants) + 1)
        /\ g[Len(grants) + 1] = t
        /\ \A i \in 1..Len(grants) : g[i] = grants[i]
    BY <1>1, <1>3, AppendProperties
  <1>5. ASSUME NEW i \in DOMAIN grants
        PROVE  /\ Slack(grants, t, i) \in Int
               /\ Slack(g, t, i) = Slack(grants, t, i) - Second
    <2> DEFINE k == Len(grants) - i + 1
               room == Rate * (t - grants[i])
               spent == k * Second
    <2>1. k \in Int /\ grants[i] \in Nat /\ g[i] = grants[i] /\ Len(g) - i + 1 = k + 1
      BY <1>1, <1>4
    <2>2. room \in Int
      BY <1>2, <2>1
    <2>3. Slack(grants, t, i) = Capacity + room - spent
      BY DEF Slack
    <2>4. Slack(g, t, i) = Capacity + room - (k + 1) * Second
      BY <2>1 DEF Slack
    <2> HIDE DEF k, room
    <2>5. (k + 1) * Second = spent + Second /\ spent \in Int
      BY <1>2, <2>1
    <2> HIDE DEF spent
    <2> QED
      BY <1>2, <2>2, <2>3, <2>4, <2>5
  <1>6. /\ Rate * (t - t) = 0
        /\ (Len(g) - (Len(grants) + 1) + 1) * Second = Second
    BY <1>1, <1>2, <1>4
  <1>7. Slack(g, t, Len(grants) + 1) = Capacity - Second
    BY <1>2, <1>4, <1>6 DEF Slack
  <1> QED
    BY <1>1, <1>4, <1>5, <1>7

\* The level check_at decides on is exact for the bucket's new time.
LEMMA CreditIsExact ==
  ASSUME TypeOK, BucketIsExact, NEW t \in Nat
  PROVE  /\ \A i \in DOMAIN grants : Refilled(t) <= Slack(grants, RefillTime(t), i)
         /\ \/ Refilled(t) = Capacity
            \/ \E i \in DOMAIN grants : Refilled(t) = Slack(grants, RefillTime(t), i)
  <1> DEFINE m == RefillTime(t)
             credit == Rate * (m - lastRefill)
  <1>1. /\ Refilled(t) \in 0..Capacity
        /\ m \in Nat /\ m >= lastRefill
        /\ Refilled(t) <= tokens + credit
        /\ Refilled(t) = Capacity \/ Refilled(t) = tokens + credit
    BY RefillFacts
  <1>2. /\ Capacity \in Nat /\ Rate \in Nat
        /\ lastRefill \in Nat /\ tokens \in Nat /\ tokens <= Capacity
    BY CapacityHoldsOne, PolicyAssumption, GrantsShape DEF TypeOK
  <1>3. credit \in Nat
    BY <1>1, <1>2
  <1>4. \A i \in DOMAIN grants :
            /\ Slack(grants, lastRefill, i) \in Int
            /\ Slack(grants, m, i) = Slack(grants, lastRefill, i) + credit
    BY <1>1, SlackGrows
  <1>5. \A i \in DOMAIN grants : tokens <= Slack(grants, lastRefill, i)
    BY DEF BucketIsExact
  <1>6. tokens = Capacity
          \/ \E i \in DOMAIN grants : tokens = Slack(grants, lastRefill, i)
    BY DEF BucketIsExact
  <1> HIDE DEF m, credit
  <1>7. \A i \in DOMAIN grants : Refilled(t) <= Slack(grants, m, i)
    BY <1>1, <1>2, <1>3, <1>4, <1>5
  <1>8. Refilled(t) = Capacity
          \/ \E i \in DOMAIN grants : Refilled(t) = Slack(grants, m, i)
    <2>1. CASE Refilled(t) = Capacity
      BY <2>1
    <2>2. CASE Refilled(t) = tokens + credit /\ tokens = Capacity
      BY <1>1, <1>2, <1>3, <2>2
    <2>3. CASE Refilled(t) = tokens + credit /\ tokens # Capacity
      BY <1>4, <1>6, <2>3
    <2> QED
      BY <1>1, <2>1, <2>2, <2>3
  <1> QED
    BY <1>7, <1>8 DEF m

\* Admission keeps the bucket exact and the history ordered.
LEMMA AdmitKeepsIInv ==
  ASSUME IInv, TypeOK', NEW p \in Requests, Admit(p)
  PROVE  IInv'
  <1>0. TypeOK /\ BucketIsExact
    BY DEF IInv
  <1>1. PICK t \in Nat : t = sample[p]
    BY <1>0, AdmitFacts
  <1>2. PICK l \in Nat : l = RefillTime(t)
    <2>1. RefillTime(t) \in Nat
      BY <1>0, RefillFacts
    <2> QED
      BY <2>1
  <1>3. PICK g : g = Append(grants, l)
    OBVIOUS
  <1>4. PICK n \in Nat : n = Len(grants) /\ DOMAIN grants = 1..n
    BY <1>0, GrantsShape
  <1>5. tokens' = Refilled(t) - Second /\ lastRefill' = l /\ grants' = g
    BY <1>0, <1>1, <1>2, <1>3, AdmitFacts
  <1>6. /\ Refilled(t) \in 0..Capacity /\ l >= lastRefill
        /\ lastRefill \in Nat /\ Capacity \in Nat /\ Second \in Nat
    <2>1. Refilled(t) \in 0..Capacity /\ RefillTime(t) >= lastRefill
      BY <1>0, RefillFacts
    <2>2. now \in Nat /\ lastRefill \in 0..now
      BY <1>0, GrantsShape DEF TypeOK
    <2> QED
      BY <1>2, <2>1, <2>2, CapacityHoldsOne, ClockAssumption
  <1>7. /\ \A i \in 1..n : Refilled(t) <= Slack(grants, l, i)
        /\ \/ Refilled(t) = Capacity
           \/ \E i \in 1..n : Refilled(t) = Slack(grants, l, i)
    BY <1>0, <1>2, <1>4, CreditIsExact
  <1>8. /\ DOMAIN g = 1..(n + 1)
        /\ g[n + 1] = l
        /\ \A i \in 1..n :
              /\ g[i] = grants[i]
              /\ Slack(grants, l, i) \in Int
              /\ Slack(g, l, i) = Slack(grants, l, i) - Second
        /\ Slack(g, l, n + 1) = Capacity - Second
    <2>1. /\ DOMAIN g = 1..(Len(grants) + 1)
          /\ g[Len(grants) + 1] = l
          /\ Slack(g, l, Len(grants) + 1) = Capacity - Second
      BY <1>0, <1>3, GrantTakesOne
    <2>2. \A i \in DOMAIN grants :
              /\ g[i] = grants[i]
              /\ Slack(grants, l, i) \in Int
              /\ Slack(g, l, i) = Slack(grants, l, i) - Second
      <3> TAKE i \in DOMAIN grants
      <3>1. g[i] = grants[i]
        BY <1>0, <1>3, GrantTakesOne
      <3>2. Slack(grants, l, i) \in Int
        BY <1>0, <1>3, GrantTakesOne
      <3>3. Slack(g, l, i) = Slack(grants, l, i) - Second
        BY <1>0, <1>3, GrantTakesOne
      <3> QED
        BY <3>1, <3>2, <3>3
    <2> QED
      BY <1>4, <2>1, <2>2
  <1>9. BucketIsExact'
    <2>1. ASSUME NEW i \in 1..(n + 1)
          PROVE  Refilled(t) - Second <= Slack(g, l, i)
      <3>1. CASE i = n + 1
        BY <1>6, <1>8, <3>1
      <3>2. CASE i \in 1..n
        BY <1>6, <1>7, <1>8, <3>2
      <3> QED
        BY <3>1, <3>2
    <2>2. \E i \in 1..(n + 1) : Refilled(t) - Second = Slack(g, l, i)
      <3>1. CASE Refilled(t) = Capacity
        BY <1>8, <3>1
      <3>2. CASE \E i \in 1..n : Refilled(t) = Slack(grants, l, i)
        BY <1>8, <3>2
      <3> QED
        BY <1>7, <3>1, <3>2
    <2>3. /\ \A i \in DOMAIN g : Refilled(t) - Second <= Slack(g, l, i)
          /\ \E i \in DOMAIN g : Refilled(t) - Second = Slack(g, l, i)
      BY <1>8, <2>1, <2>2
    <2> QED
      BY <1>5, <2>3 DEF BucketIsExact, Slack, Capacity
  <1>10. Curve!Ordered(grants)' /\ \A i \in DOMAIN grants' : grants'[i] <= lastRefill'
    <2>1. \A i \in 1..n : grants[i] \in Nat /\ grants[i] <= lastRefill
      BY <1>0, <1>4, GrantsShape DEF IInv
    <2>2. \A i, j \in 1..n : i <= j => grants[i] <= grants[j]
      BY <1>4 DEF IInv, Curve!Ordered
    <2>3. \A i \in 1..(n + 1) : g[i] <= l
      BY <1>6, <1>8, <2>1
    <2>4. \A i, j \in 1..(n + 1) : i <= j => g[i] <= g[j]
      BY <1>8, <2>2, <2>3
    <2> QED
      BY <1>5, <1>8, <2>3, <2>4 DEF Curve!Ordered
  <1> QED
    BY <1>9, <1>10 DEF IInv

\* A refusal keeps the refill it computed, and so the bucket stays exact.
LEMMA RefuseKeepsIInv ==
  ASSUME IInv, TypeOK', NEW p \in Requests, Refuse(p)
  PROVE  IInv'
  <1>0. TypeOK /\ BucketIsExact
    BY DEF IInv
  <1>1. PICK t \in Nat : t = sample[p]
    BY <1>0, RefuseFacts
  <1>2. PICK l \in Nat : l = RefillTime(t)
    <2>1. RefillTime(t) \in Nat
      BY <1>0, RefillFacts
    <2> QED
      BY <2>1
  <1>3. tokens' = Refilled(t) /\ lastRefill' = l /\ grants' = grants
    BY <1>0, <1>1, <1>2, RefuseFacts
  <1>4. /\ \A i \in DOMAIN grants : Refilled(t) <= Slack(grants, l, i)
        /\ \/ Refilled(t) = Capacity
           \/ \E i \in DOMAIN grants : Refilled(t) = Slack(grants, l, i)
    BY <1>0, <1>2, CreditIsExact
  <1>5. BucketIsExact'
    BY <1>3, <1>4 DEF BucketIsExact, Slack, Capacity
  <1>6. \A i \in DOMAIN grants : grants[i] <= l
    <2> TAKE i \in DOMAIN grants
    <2>1. grants[i] \in Nat /\ grants[i] <= lastRefill
      BY <1>0, GrantsShape DEF IInv
    <2>2. RefillTime(t) >= lastRefill
      BY <1>0, RefillFacts
    <2>3. lastRefill \in Nat
      BY <1>0, GrantsShape DEF TypeOK
    <2> QED
      BY <1>2, <2>1, <2>2, <2>3
  <1>7. Curve!Ordered(grants)' /\ \A i \in DOMAIN grants' : grants'[i] <= lastRefill'
    BY <1>3, <1>6 DEF IInv, Curve!Ordered
  <1> QED
    BY <1>5, <1>7 DEF IInv

\* IInv depends on nothing but the bucket, the history and the types.
LEMMA OthersKeepIInv ==
  ASSUME IInv, TypeOK', UNCHANGED << tokens, lastRefill, grants >>
  PROVE  IInv'
  BY DEF IInv, BucketIsExact, Slack, Capacity, Curve!Ordered

\* A full bucket without history is exact.
LEMMA IInvInit == Init => IInv
  <1> SUFFICES ASSUME Init PROVE IInv
    OBVIOUS
  <1>1. TypeOK
    <2>1. /\ grants \in Seq(0..now) /\ Len(grants) = 0
          /\ passed \in Seq([at : 0..now, sample : 0..now])
      BY DEF Init
    <2> QED
      BY <2>1, CapacityHoldsOne, ClockAssumption DEF Init, TypeOK, NoRefusal
  <1>2. DOMAIN grants = {}
    BY DEF Init
  <1> QED
    BY <1>1, <1>2 DEF Init, IInv, BucketIsExact, Curve!Ordered

\* Every step keeps the bucket exact, whichever task takes it.
LEMMA IInvStep == IInv /\ TypeOK' /\ [Next]_vars => IInv'
  <1> SUFFICES ASSUME IInv, TypeOK', [Next]_vars PROVE IInv'
    OBVIOUS
  <1>1. CASE Tick
    BY <1>1, OthersKeepIInv DEF Tick
  <1>2. ASSUME NEW p \in Requests, Check(p) PROVE IInv'
    BY <1>2, OthersKeepIInv DEF Check
  <1>3. ASSUME NEW p \in Requests, Admit(p) PROVE IInv'
    BY <1>3, AdmitKeepsIInv
  <1>4. ASSUME NEW p \in Requests, Refuse(p) PROVE IInv'
    BY <1>4, RefuseKeepsIInv
  <1>5. ASSUME NEW p \in Requests, Finish(p) PROVE IInv'
    BY <1>5, OthersKeepIInv DEF Finish
  <1>6. CASE UNCHANGED vars
    BY <1>6, OthersKeepIInv DEF vars
  <1> QED
    BY <1>1, <1>2, <1>3, <1>4, <1>5, <1>6 DEF Next

\* The inductive invariant holds of every behaviour.
THEOREM Inductive == Spec => []IInv
  <1>1. Spec => []TypeOK
    BY TypeCorrect
  <1>2. Init => IInv
    BY IInvInit
  <1>3. IInv /\ TypeOK' /\ [Next]_vars => IInv'
    BY IInvStep
  <1> QED
    BY <1>1, <1>2, <1>3, PTL DEF Spec

\* The bucket's level is always exactly the room under the curve: capacity
\* neither leaks nor is credited twice, however tasks interleave between reading
\* the clock and taking the mutex.
THEOREM Exactness == Spec => []BucketIsExact
  <1>1. IInv => BucketIsExact
    BY DEF IInv
  <1> QED
    BY <1>1, Inductive, PTL

-----------------------------------------------------------------------------
(***************************************************************************)
(* The bound over every window, and the arrival-curve specification.       *)
(***************************************************************************)

\* In the bucket's time, every window stays under the curve.
UnderCurve == Curve!Conforms(grants)

\* The windows that end with a new grant are bounded because the bucket's new
\* level, which is not negative, is room they leave.
LEMMA AdmitConforms ==
  ASSUME IInv, IInv', UnderCurve, NEW p \in Requests, Admit(p)
  PROVE  UnderCurve'
  <1>0. TypeOK /\ TypeOK'
    BY DEF IInv
  <1>1. PICK n \in Nat : n = Len(grants) /\ DOMAIN grants = 1..n
    BY <1>0, GrantsShape
  <1>2. PICK l \in Nat : l = lastRefill'
    BY <1>0, ClockAssumption DEF TypeOK
  <1>3. PICK g : g = Append(grants, l)
    OBVIOUS
  <1>4. grants' = g
    BY <1>0, <1>2, <1>3, AdmitFacts
  <1>5. /\ DOMAIN g = 1..(n + 1) /\ Len(g) = n + 1 /\ g[n + 1] = l
    BY <1>0, <1>1, <1>3, GrantTakesOne
  <1>6. ASSUME NEW i \in 1..n PROVE g[i] = grants[i] /\ grants[i] \in Nat
    BY <1>0, <1>1, <1>3, GrantTakesOne, GrantsShape
  <1>7. ASSUME NEW i \in 1..(n + 1)
        PROVE  (n + 1 - i + 1) * Second <= Burst * Second + Rate * (l - g[i])
    <2>1. tokens' <= Slack(g, l, i) /\ tokens' \in Nat
      <3>1. tokens' <= Slack(g, l, i)
        BY <1>2, <1>4, <1>5 DEF IInv, BucketIsExact, Slack, Capacity
      <3>2. tokens' \in 0..Capacity
        BY <1>0 DEF TypeOK, Capacity
      <3> QED
        BY <3>1, <3>2, CapacityHoldsOne
    <2> DEFINE spent == (n + 1 - i + 1) * Second
               room == Rate * (l - g[i])
    <2>2. Slack(g, l, i) = Capacity + room - spent
      BY <1>5 DEF Slack
    <2>3. g[i] \in Nat
      BY <1>2, <1>5, <1>6
    <2>4. spent \in Int /\ room \in Int /\ Capacity \in Int
      BY <2>3, CapacityHoldsOne, ClockAssumption, PolicyAssumption
    <2>5. Capacity = Burst * Second
      BY DEF Capacity
    <2> HIDE DEF spent, room
    <2>6. spent <= Capacity + room
      BY <2>1, <2>2, <2>4
    <2> QED
      BY <2>5, <2>6 DEF spent, room
  <1>8. ASSUME NEW i \in 1..n, NEW j \in 1..n, i <= j
        PROVE  (j - i + 1) * Second <= Burst * Second + Rate * (g[j] - g[i])
    BY <1>1, <1>6, <1>8 DEF UnderCurve, Curve!Conforms
  <1>9. \A i, j \in 1..(n + 1) :
           i <= j => (j - i + 1) * Second <= Burst * Second + Rate * (g[j] - g[i])
    <2> SUFFICES ASSUME NEW i \in 1..(n + 1), NEW j \in 1..(n + 1), i <= j
                 PROVE  (j - i + 1) * Second <= Burst * Second + Rate * (g[j] - g[i])
      OBVIOUS
    <2>1. CASE j = n + 1
      BY <1>5, <1>7, <2>1
    <2>2. CASE j # n + 1
      <3>1. i \in 1..n /\ j \in 1..n
        BY <2>2
      <3> QED
        BY <1>8, <3>1
    <2> QED
      BY <2>1, <2>2
  <1> QED
    BY <1>4, <1>5, <1>9 DEF UnderCurve, Curve!Conforms

\* Nothing but an admission adds to the history.
LEMMA OnlyAdmitGrants ==
  ASSUME [Next]_vars
  PROVE  grants' = grants \/ \E p \in Requests : Admit(p)
  BY DEF Next, Tick, Check, Refuse, Finish, vars

\* For every rate, burst and number of tasks: no window of the bucket's time holds
\* more grants than Burst plus Rate for each of its seconds.
THEOREM StaysUnderCurve == Spec => []UnderCurve
  <1>1. Init => UnderCurve
    BY DEF Init, UnderCurve, Curve!Conforms
  <1>2. IInv /\ IInv' /\ UnderCurve /\ [Next]_vars => UnderCurve'
    <2> SUFFICES ASSUME IInv, IInv', UnderCurve, [Next]_vars PROVE UnderCurve'
      OBVIOUS
    <2>1. CASE grants' = grants
      BY <2>1 DEF UnderCurve, Curve!Conforms
    <2>2. ASSUME NEW p \in Requests, Admit(p) PROVE UnderCurve'
      BY <2>2, AdmitConforms
    <2> QED
      BY <2>1, <2>2, OnlyAdmitGrants
  <1> QED
    BY <1>1, <1>2, Inductive, PTL DEF Spec

\* A grant is dated no earlier than the sample it was decided with, and no later
\* than the time on the wall at which it was made.
Dated ==
    /\ Len(passed) = Len(grants)
    /\ \A i \in DOMAIN passed : passed[i].sample <= grants[i] /\ grants[i] <= passed[i].at

\* Only admissions date anything, and the bucket's time is then at least the sample.
LEMMA StaysDated == TypeOK /\ TypeOK' /\ Dated /\ [Next]_vars => Dated'
  <1> SUFFICES ASSUME TypeOK, TypeOK', Dated, [Next]_vars PROVE Dated'
    OBVIOUS
  <1>1. CASE UNCHANGED << grants, passed >>
    BY <1>1 DEF Dated
  <1>2. ASSUME NEW p \in Requests, Admit(p) PROVE Dated'
    <2> DEFINE mine == [at |-> now, sample |-> sample[p]]
    <2>1. /\ grants' = Append(grants, lastRefill')
          /\ passed' = Append(passed, mine)
          /\ sample[p] \in Nat /\ sample[p] <= now /\ now' = now
          /\ lastRefill' = RefillTime(sample[p])
      BY <1>2, AdmitFacts
    <2>2. sample[p] <= lastRefill' /\ lastRefill' <= now
      BY <2>1, RefillFacts
    <2>3. grants \in Seq(0..now) /\ passed \in Seq([at : 0..now, sample : 0..now])
      BY DEF TypeOK
    <2>4. Len(grants) = Len(passed)
      BY DEF Dated
    <2> HIDE DEF mine
    <2>5. /\ Len(grants') = Len(grants) + 1 /\ Len(passed') = Len(passed) + 1
          /\ DOMAIN passed' = 1 .. (Len(passed) + 1) /\ DOMAIN passed = 1 .. Len(passed)
          /\ Len(passed) \in Nat
          /\ grants'[Len(passed) + 1] = lastRefill' /\ passed'[Len(passed) + 1] = mine
          /\ \A i \in 1 .. Len(passed) : grants'[i] = grants[i] /\ passed'[i] = passed[i]
      <3>1. lastRefill' \in 0..now'
        BY DEF TypeOK
      <3> QED
        BY <2>1, <2>3, <2>4, <3>1
    <2>6. mine.at = now /\ mine.sample = sample[p]
      BY DEF mine
    <2>7. ASSUME NEW i \in DOMAIN passed'
          PROVE  passed'[i].sample <= grants'[i] /\ grants'[i] <= passed'[i].at
      <3>1. CASE i = Len(passed) + 1
        BY <2>2, <2>5, <2>6, <3>1
      <3>2. CASE i # Len(passed) + 1
        <4>1. i \in 1 .. Len(passed)
          BY <2>5, <3>2
        <4> QED
          BY <2>5, <4>1 DEF Dated
      <3> QED
        BY <3>1, <3>2
    <2> QED
      BY <2>4, <2>5, <2>7 DEF Dated
  <1> QED
    BY <1>1, <1>2 DEF Next, Tick, Check, Refuse, Finish, vars

\* Every admission of every behaviour is dated so.
THEOREM AlwaysDated == Spec => []Dated
  <1>1. Init => Dated
    BY DEF Init, Dated
  <1> QED
    BY <1>1, StaysDated, TypeCorrect, PTL DEF Spec

\* A window that reaches further at both of its ends has more room.
LEMMA WiderHasRoom ==
  ASSUME NEW a \in Nat, NEW b \in Nat, NEW c \in Nat, NEW d \in Nat, a <= b, c <= d
  PROVE  Rate * (c - b) <= Rate * (d - a)
  <1>1. Rate \in Nat /\ c - b \in Int /\ d - a \in Int /\ c - b <= d - a
    BY PolicyAssumption
  <1>2. PICK w \in Nat : d - a = (c - b) + w
    <2>1. (d - a) - (c - b) \in Nat /\ d - a = (c - b) + ((d - a) - (c - b))
      BY <1>1
    <2> QED
      BY <2>1
  <1>3. Rate * (d - a) = Rate * (c - b) + Rate * w
    BY <1>1, <1>2
  <1>4. Rate * w \in Nat /\ Rate * (c - b) \in Int
    BY <1>1, <1>2
  <1> QED
    BY <1>3, <1>4

\* For every rate, burst and number of tasks: the requests that got past the limiter one
\* after the other, in the time of the clock on the wall, are at most Burst plus Rate for
\* each second since the first of them sampled the clock, however old that sample was
\* when it was used.
THEOREM WindowBounded == Spec => []WindowBound
  <1>1. TypeOK /\ UnderCurve /\ Dated => WindowBound
    <2> SUFFICES ASSUME TypeOK, UnderCurve, Dated, NEW i \in DOMAIN passed,
                        NEW j \in DOMAIN passed, i <= j
                 PROVE  (j - i + 1) * Second
                            <= Capacity + Rate * (passed[j].at - passed[i].sample)
      BY DEF WindowBound
    <2>1. passed \in Seq([at : 0..now, sample : 0..now]) /\ Len(passed) = Len(grants)
      BY DEF TypeOK, Dated
    <2>2. /\ DOMAIN passed = 1 .. Len(passed) /\ DOMAIN grants = 1 .. Len(passed)
          /\ i \in Int /\ j \in Int
      BY <2>1, GrantsShape
    <2>3. passed[i].sample \in Nat /\ passed[j].at \in Nat
      <3>1. now \in Nat
        BY GrantsShape
      <3>2. \A k \in DOMAIN passed : passed[k] \in [at : 0..now, sample : 0..now]
        <4> DEFINE S == [at : 0..now, sample : 0..now]
        <4>1. passed \in Seq(S)
          BY <2>1
        <4> HIDE DEF S
        <4>2. \A k \in DOMAIN passed : passed[k] \in S
          BY <4>1
        <4> QED
          BY <4>2 DEF S
      <3> QED
        BY <3>1, <3>2
    <2>4. grants[i] \in Nat /\ grants[j] \in Nat
      BY <2>1, <2>2, GrantsShape
    <2>5. passed[i].sample <= grants[i] /\ grants[j] <= passed[j].at
      BY DEF Dated
    <2>6. (j - i + 1) * Second <= Capacity + Rate * (grants[j] - grants[i])
      BY <2>2 DEF UnderCurve, Curve!Conforms, Capacity
    <2> DEFINE spent == (j - i + 1) * Second
               dated == Rate * (grants[j] - grants[i])
               wall == Rate * (passed[j].at - passed[i].sample)
    <2>7. dated <= wall
      BY <2>3, <2>4, <2>5, WiderHasRoom
    <2>8. spent \in Int /\ dated \in Int /\ wall \in Int /\ Capacity \in Int
      <3>1. /\ j - i + 1 \in Int /\ grants[j] - grants[i] \in Int
            /\ passed[j].at - passed[i].sample \in Int
        BY <2>2, <2>3, <2>4
      <3> QED
        BY <3>1, CapacityHoldsOne, ClockAssumption, PolicyAssumption
    <2>9. spent <= Capacity + dated
      BY <2>6
    <2> HIDE DEF spent, dated, wall
    <2>10. spent <= Capacity + wall
      BY <2>7, <2>8, <2>9
    <2> QED
      BY <2>10 DEF spent, wall
  <1> QED
    BY <1>1, TypeCorrect, StaysUnderCurve, AlwaysDated, PTL

\* The limiter implements the arrival curve: each of its steps grants one request
\* within the curve, or grants nothing.
THEOREM Implementation == Spec => ImplementsCurve
  <1>1. Init => Curve!Init
    BY DEF Init, Curve!Init
  <1>2. IInv /\ IInv' /\ UnderCurve' /\ [Next]_vars => [Curve!Next]_grants
    <2> SUFFICES ASSUME IInv, IInv', UnderCurve', [Next]_vars
                 PROVE  [Curve!Next]_grants
      OBVIOUS
    <2>1. CASE grants' = grants
      BY <2>1
    <2>2. ASSUME NEW p \in Requests, Admit(p) PROVE Curve!Next
      <3>1. grants' = Append(grants, lastRefill')
        BY <2>2 DEF Admit
      <3>2. lastRefill' \in 0..MaxNow
        BY ClockAssumption DEF IInv, TypeOK
      <3>3. Curve!Ordered(grants') /\ Curve!Conforms(grants')
        BY DEF IInv, UnderCurve
      <3> QED
        BY <3>1, <3>2, <3>3 DEF Curve!Next, Curve!Grant
    <2> QED
      BY <2>1, <2>2, OnlyAdmitGrants
  <1> QED
    BY <1>1, <1>2, Inductive, StaysUnderCurve, PTL DEF Spec, ImplementsCurve, Curve!Spec

-----------------------------------------------------------------------------
(***************************************************************************)
(* Refusals.                                                               *)
(***************************************************************************)

\* A level below one token leaves some window no room for one more grant.
LEMMA ExhaustedWhenRefused ==
  ASSUME IInv, IInv', NEW p \in Requests, Refuse(p)
  PROVE  ~ Curve!Conforms(Append(grants, lastRefill'))
  <1>0. TypeOK /\ BucketIsExact /\ TypeOK'
    BY DEF IInv
  <1>1. PICK l \in Nat : l = lastRefill'
    BY <1>0, ClockAssumption DEF TypeOK
  <1>2. PICK g : g = Append(grants, l)
    OBVIOUS
  <1>3. PICK n \in Nat : n = Len(grants) /\ DOMAIN grants = 1..n
    BY <1>0, GrantsShape
  <1>4. tokens' < Second /\ grants' = grants /\ tokens' \in Int
    <2>1. tokens' = Refilled(sample[p]) /\ Refilled(sample[p]) < Second /\ grants' = grants
      BY <1>0, RefuseFacts
    <2>2. tokens' \in 0..Capacity
      BY <1>0 DEF TypeOK, Capacity
    <2> QED
      BY <2>1, <2>2
  <1>5. \E i \in 1..n : tokens' = Slack(grants, l, i)
    <2>1. tokens' = Capacity \/ \E i \in DOMAIN grants : tokens' = Slack(grants, l, i)
      BY <1>1, <1>4 DEF IInv, BucketIsExact, Slack, Capacity
    <2> QED
      BY <1>3, <1>4, <2>1, CapacityHoldsOne, ClockAssumption
  <1>6. PICK i \in 1..n : tokens' = Slack(grants, l, i)
    BY <1>5
  <1>7. /\ DOMAIN g = 1..(n + 1) /\ Len(g) = n + 1 /\ g[n + 1] = l
    BY <1>0, <1>2, <1>3, GrantTakesOne
  <1>8. g[i] = grants[i] /\ grants[i] \in Nat
    BY <1>0, <1>2, <1>3, GrantTakesOne, GrantsShape
  <1> DEFINE spent == (n + 1 - i + 1) * Second
             room == Rate * (l - g[i])
  <1>9. Slack(grants, l, i) = Capacity + room - (n - i + 1) * Second
    BY <1>3, <1>8 DEF Slack
  <1>10. (n - i + 1) * Second = spent - Second
    BY ClockAssumption
  <1>11. spent \in Int /\ room \in Int /\ Capacity \in Int /\ Second \in Int
    BY <1>8, CapacityHoldsOne, ClockAssumption, PolicyAssumption
  <1>12. ~ (spent <= Capacity + room)
    <2> HIDE DEF spent, room
    <2> QED
      BY <1>4, <1>6, <1>9, <1>10, <1>11
  <1>13. Curve!Conforms(g) => spent <= Capacity + room
    <2> SUFFICES ASSUME Curve!Conforms(g) PROVE spent <= Capacity + room
      OBVIOUS
    <2>1. i \in DOMAIN g /\ n + 1 \in DOMAIN g /\ i <= n + 1
      BY <1>7
    <2>2. (n + 1 - i + 1) * Second <= Burst * Second + Rate * (g[n + 1] - g[i])
      BY <2>1 DEF Curve!Conforms
    <2> QED
      BY <1>7, <2>2 DEF Capacity
  <1> QED
    BY <1>1, <1>2, <1>12, <1>13

\* The limiter never turns a request away while the curve has room for it.
THEOREM NoEarlyRefusal == Spec => RefusesOnlyWhenExhausted
  <1> DEFINE A == \A p \in Requests :
                     pc[p] = "sampled" /\ pc'[p] = "refused" =>
                         ~ Curve!Conforms(Append(grants, lastRefill'))
  <1>1. IInv /\ IInv' /\ [Next]_vars => [A]_vars
    <2> SUFFICES ASSUME IInv, IInv', [Next]_vars,
                        NEW p \in Requests, pc[p] = "sampled", pc'[p] = "refused"
                 PROVE  ~ Curve!Conforms(Append(grants, lastRefill'))
      OBVIOUS
    <2>1. pc \in [Requests -> {"idle", "sampled", "admitted", "refused"}]
      BY DEF IInv, TypeOK
    <2>2. Refuse(p)
      BY <2>1 DEF Next, vars, Tick, Check, Admit, Refuse, Finish
    <2> QED
      BY <2>2, ExhaustedWhenRefused
  <1> QED
    BY <1>1, Inductive, PTL DEF Spec, RefusesOnlyWhenExhausted

\* When the delay announced to p has passed.
Due(p) == refusal[p].at + retryAfter[p] * Second

\* Until another request is let through, the bucket is on course to hold a whole
\* token when the delay has passed: it is full, or it earns enough by then.
OnCourse(p) == tokens = Capacity \/ tokens + Rate * (Due(p) - lastRefill) >= Second

RetryInv ==
    \A p \in Requests :
        pc[p] = "refused" /\ refusal[p].seen = Len(grants) =>
            OnCourse(p) /\ Due(p) \in Nat

\* A bucket on course holds a whole token once credited up to the due time.
LEMMA OnCourseArrives ==
  ASSUME TypeOK, NEW p \in Requests, OnCourse(p), Due(p) \in Nat
  PROVE  Refilled(Due(p)) >= Second
  <1>1. PICK d \in Nat : d = Due(p)
    OBVIOUS
  <1>2. /\ Refilled(d) = Capacity \/ Refilled(d) = tokens + Rate * (RefillTime(d) - lastRefill)
        /\ Refilled(d) \in 0..Capacity
        /\ RefillTime(d) \in Nat /\ RefillTime(d) >= lastRefill /\ d <= RefillTime(d)
    BY RefillFacts
  <1>3. /\ Capacity \in Nat /\ Capacity >= Second /\ Second \in Nat /\ Rate \in Nat
        /\ tokens \in Nat /\ lastRefill \in Nat
    BY CapacityHoldsOne, PolicyAssumption, ClockAssumption, GrantsShape DEF TypeOK
  <1>4. CASE Refilled(d) = Capacity
    BY <1>1, <1>3, <1>4
  <1>5. CASE Refilled(d) = tokens + Rate * (RefillTime(d) - lastRefill)
    <2>1. PICK x \in Nat : x = RefillTime(d) - lastRefill
      BY <1>2, <1>3
    <2>2. PICK y \in Int : y = d - lastRefill
      BY <1>3
    <2>3. y <= x
      BY <1>2, <1>3, <2>1, <2>2
    <2>4. Rate * y <= Rate * x /\ Rate * x \in Nat /\ Rate * y \in Int
      BY <1>3, <2>1, <2>2, <2>3
    <2>5. CASE tokens = Capacity
      BY <1>1, <1>3, <1>5, <2>1, <2>4, <2>5
    <2>6. CASE tokens + Rate * (Due(p) - lastRefill) >= Second
      BY <1>1, <1>3, <1>5, <2>1, <2>2, <2>4, <2>6
    <2> QED
      BY <2>5, <2>6 DEF OnCourse
  <1> QED
    BY <1>2, <1>4, <1>5

\* A credit keeps a bucket on course.
LEMMA CreditKeepsCourse ==
  ASSUME TypeOK, NEW t \in Nat, NEW d \in Nat,
         tokens = Capacity \/ tokens + Rate * (d - lastRefill) >= Second
  PROVE  Refilled(t) = Capacity
           \/ Refilled(t) + Rate * (d - RefillTime(t)) >= Second
  <1>1. /\ Refilled(t) = Capacity \/ Refilled(t) = tokens + Rate * (RefillTime(t) - lastRefill)
        /\ Refilled(t) \in 0..Capacity
        /\ RefillTime(t) \in Nat /\ RefillTime(t) >= lastRefill
    BY RefillFacts
  <1>2. /\ Capacity \in Nat /\ Second \in Nat /\ Rate \in Nat
        /\ tokens \in Nat /\ lastRefill \in Nat
    BY CapacityHoldsOne, PolicyAssumption, ClockAssumption, GrantsShape DEF TypeOK
  <1>3. PICK m \in Nat : m = RefillTime(t)
    BY <1>1
  <1> DEFINE early == Rate * (m - lastRefill)
             late == Rate * (d - m)
             all == Rate * (d - lastRefill)
  <1>4. all = early + late
    BY <1>2, CreditAdds
  <1>5. early \in Nat /\ late \in Int /\ all \in Int
    BY <1>1, <1>2, <1>3
  <1>6. Refilled(t) = Capacity \/ Refilled(t) = tokens + early
    BY <1>1, <1>3
  <1>7. tokens = Capacity \/ tokens + all >= Second
    OBVIOUS
  <1> HIDE DEF early, all
  <1>8. Refilled(t) = Capacity \/ Refilled(t) + late >= Second
    <2> HIDE DEF late
    <2> QED
      BY <1>1, <1>2, <1>4, <1>5, <1>6, <1>7
  <1> QED
    BY <1>3, <1>8

\* Another task's refusal only credits the bucket, which stays on course for
\* every refusal announced before.
LEMMA RefuseKeepsCourse ==
  ASSUME TypeOK, TypeOK', RetryInv, NEW q \in Requests, Refuse(q)
  PROVE  RetryInv'
  <1>1. PICK t \in Nat : t = sample[q]
    BY RefuseFacts
  <1>2. PICK l \in Nat : l = RefillTime(t)
    <2>1. RefillTime(t) \in Nat
      BY RefillFacts
    <2> QED
      BY <2>1
  <1>3. /\ tokens' = Refilled(t) /\ lastRefill' = l /\ grants' = grants
        /\ Refilled(t) < Second /\ t <= now
    BY <1>1, <1>2, RefuseFacts
  <1>4. SUFFICES ASSUME NEW p \in Requests,
                        pc'[p] = "refused", refusal'[p].seen = Len(grants')
                 PROVE  OnCourse(p)' /\ Due(p)' \in Nat
    BY DEF RetryInv
  <1>5. CASE p # q
    <2>1. pc[p] = "refused" /\ refusal'[p] = refusal[p] /\ retryAfter'[p] = retryAfter[p]
      BY <1>4, <1>5 DEF Refuse, TypeOK
    <2>2. OnCourse(p) /\ Due(p) \in Nat
      BY <1>3, <1>4, <2>1 DEF RetryInv
    <2>3. PICK d \in Nat : d = Due(p)
      BY <2>2
    <2>4. d = Due(p)'
      BY <2>1, <2>3 DEF Due
    <2>5. tokens = Capacity \/ tokens + Rate * (d - lastRefill) >= Second
      BY <2>2, <2>3 DEF OnCourse
    <2>6. Refilled(t) = Capacity \/ Refilled(t) + Rate * (d - RefillTime(t)) >= Second
      BY <2>5, CreditKeepsCourse
    <2> QED
      BY <1>2, <1>3, <2>4, <2>6 DEF OnCourse, Capacity
  <1>6. CASE p = q
    <2>1. PICK r \in Nat : r = RetrySeconds(Refilled(t)) /\ r >= 1
      <3>1. Refilled(t) \in 0..Capacity
        BY RefillFacts
      <3>2. PICK level \in Int : level = Refilled(t)
        BY <3>1
      <3> QED
        BY <3>2, RetryAtLeastOne
    <2>2. refusal'[p].at = now /\ retryAfter'[p] = r
      BY <1>1, <1>6, <2>1 DEF Refuse, TypeOK
    <2>3. Due(p)' = now + r * Second
      BY <2>2 DEF Due
    <2>4. /\ now \in Nat /\ Second \in Nat /\ Rate \in Nat /\ Rate >= 1 /\ l <= now
          /\ Refilled(t) \in Nat
      <3>1. Refilled(t) \in 0..Capacity /\ RefillTime(t) <= now
        BY <1>3, RefillFacts
      <3>2. now \in Nat /\ Second \in Nat /\ Rate \in Nat /\ Rate >= 1
        BY GrantsShape, ClockAssumption, PolicyAssumption
      <3> QED
        BY <1>2, <3>1, <3>2, CapacityHoldsOne
    <2>5. r * Second \in Nat /\ r * Second >= Second
      BY <2>1, <2>4
    <2>6. PICK w \in Nat : w = now + r * Second - l /\ w >= Second
      <3> DEFINE x == r * Second
      <3>1. x \in Nat /\ x >= Second
        BY <2>5
      <3> HIDE DEF x
      <3>2. now + x - l \in Nat /\ now + x - l >= Second
        BY <2>4, <3>1
      <3> QED
        BY <3>2 DEF x
    <2>7. Rate * w \in Nat /\ Rate * w >= w
      BY <2>4, <2>6
    <2>8. Refilled(t) + Rate * w >= Second
      BY <2>4, <2>6, <2>7
    <2>9. tokens' + Rate * (Due(p)' - lastRefill') >= Second
      <3>1. Due(p)' - lastRefill' = w
        <4>1. lastRefill' = l
          BY <1>3
        <4> QED
          BY <2>3, <2>4, <2>5, <2>6, <4>1
      <3>2. Rate * (Due(p)' - lastRefill') = Rate * w
        BY <3>1
      <3> QED
        BY <1>3, <2>8, <3>2
    <2> QED
      BY <2>3, <2>4, <2>5, <2>9 DEF OnCourse
  <1> QED
    BY <1>5, <1>6

\* Every step keeps the bucket on course for each delay still announced.
LEMMA RetryInvStep == TypeOK /\ TypeOK' /\ RetryInv /\ [Next]_vars => RetryInv'
  <1> SUFFICES ASSUME TypeOK, TypeOK', RetryInv, [Next]_vars PROVE RetryInv'
    OBVIOUS
  <1>1. CASE Tick
    BY <1>1 DEF Tick, RetryInv, OnCourse, Due, Capacity
  <1>2. ASSUME NEW q \in Requests, Check(q) PROVE RetryInv'
    BY <1>2 DEF Check, RetryInv, OnCourse, Due, Capacity, TypeOK
  <1>3. ASSUME NEW q \in Requests, Admit(q) PROVE RetryInv'
    <2>1. ASSUME NEW p \in Requests, pc'[p] = "refused" PROVE refusal'[p].seen # Len(grants')
      <3>1. refusal'[p] = refusal[p] /\ Len(grants) \in Nat
        BY <1>3, GrantsShape DEF Admit
      <3>2. Len(grants') = Len(grants) + 1
        <4>1. PICK t \in Nat : t = sample[q]
          BY <1>3, AdmitFacts
        <4>2. RefillTime(t) \in Nat
          BY RefillFacts
        <4>3. lastRefill' \in Nat /\ grants' = Append(grants, lastRefill')
          BY <1>3, <4>1, <4>2, AdmitFacts
        <4>4. \A l \in Nat : \A g : g = Append(grants, l) => Len(g) = Len(grants) + 1
          BY GrantTakesOne
        <4> QED
          BY <4>3, <4>4
      <3>3. refusal[p].seen \in 0..Len(grants)
        BY DEF TypeOK
      <3> QED
        BY <3>1, <3>2, <3>3
    <2> QED
      BY <2>1 DEF RetryInv
  <1>4. ASSUME NEW q \in Requests, Refuse(q) PROVE RetryInv'
    BY <1>4, RefuseKeepsCourse
  <1>5. ASSUME NEW q \in Requests, Finish(q) PROVE RetryInv'
    BY <1>5 DEF Finish, RetryInv, OnCourse, Due, Capacity, TypeOK
  <1>6. CASE UNCHANGED vars
    BY <1>6 DEF vars, RetryInv, OnCourse, Due, Capacity
  <1> QED
    BY <1>1, <1>2, <1>3, <1>4, <1>5, <1>6 DEF Next

\* A client that waits the announced Retry-After finds a token, unless somebody
\* else was let through in between.
THEOREM RetryTruthful == Spec => []RetryAfterSuffices
  <1>1. Init => RetryInv
    BY DEF Init, RetryInv
  <1>2. TypeOK /\ TypeOK' /\ RetryInv /\ [Next]_vars => RetryInv'
    BY RetryInvStep
  <1>3. TypeOK /\ RetryInv => RetryAfterSuffices
    BY OnCourseArrives DEF RetryInv, RetryAfterSuffices, Due
  <1> QED
    BY <1>1, <1>2, <1>3, TypeCorrect, PTL DEF Spec

=============================================================================
