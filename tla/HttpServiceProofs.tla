-------------------------- MODULE HttpServiceProofs --------------------------
(***************************************************************************)
(* Proofs about HttpService for every finite set of requests, every limit  *)
(* and every batch: work is paid for (WorkIsPaidFor), what is malformed    *)
(* never runs (MalformedNeverRuns), a batch is answered item by item       *)
(* (BatchIsAnswered) and the audit tells what the client was told          *)
(* (AuditIsFaithful).  At the end of the module, what startup promises.    *)
(*                                                                         *)
(* Requests share the bucket only.  The inductive invariant is therefore   *)
(* one fact about the bucket, Counted, and the conjunction Fine(r) of what *)
(* holds of each request by itself.  Its core is Matched: the responses a  *)
(* batch has so far are those due for the items before the one in hand,    *)
(* the response of item k at the rank of k among the items due.            *)
(***************************************************************************)
EXTENDS HttpService, Startup, SequenceTheorems, FiniteSetTheorems, TLAPS

-----------------------------------------------------------------------------
(***************************************************************************)
(* The inductive invariant.                                                *)
(***************************************************************************)

Stages == {"route", "mcp", "status", "statusWait", "item", "wait", "done", "dropped"}
Responses == [id : {m.id : m \in Messages} \cup {None}, ok : BOOLEAN]
Events == [at : Nat, ok : BOOLEAN]

\* The shape of the state.
TypeOK ==
    /\ now \in Nat /\ lastRefill \in Nat /\ sample \in [Requests -> Nat]
    /\ grants \in Seq(Nat)
    /\ pc \in [Requests -> {"idle", "sampled", "admitted", "refused"}]
    /\ req \in [Requests -> Incoming]
    /\ stage \in [Requests -> Stages]
    /\ at \in [Requests -> Nat \ {0}]
    /\ left \in [Requests -> Int]
    /\ replies \in [Requests -> Seq(Responses)]
    /\ answer \in [Requests -> {0, 200, 204, 401, 404, 429, 500, 503}]
    /\ ran \in [Requests -> SUBSET Nat]
    /\ called \in [Requests -> Nat]
    /\ audit \in [Requests -> Seq(Events)]

AllAdmitted == {r \in Requests : pc[r] = "admitted"}

\* Every admission is a grant of the bucket.
Counted == Len(grants) = Cardinality(AllAdmitted)

\* What a request has to have before anything is done for it.
Charged(r) ==
    /\ (stage[r] # "route") => (pc[r] = "admitted")
    /\ (answer[r] # 0) => (stage[r] = "done" \/ answer[r] = 429)
    /\ (stage[r] = "route") => (called[r] = 0 /\ ran[r] = {})
    /\ (stage[r] \in {"mcp", "status", "statusWait", "item", "wait"}) => Authorized(r)
    /\ (called[r] > 0 \/ ran[r] # {}) => Authorized(r)

\* How far a request has come.
Placed(r) ==
    /\ (stage[r] \in {"route", "mcp"}) =>
          (at[r] = 1 /\ replies[r] = << >> /\ audit[r] = << >> /\ ran[r] = {})
    /\ (stage[r] \in {"status", "statusWait"}) => (req[r].route = "status")
    /\ (stage[r] \in {"item", "wait"}) => (req[r].body.json /\ Items(r) # << >>)
    /\ at[r] <= Len(Items(r)) + 1
    /\ \A i \in ran[r] : i \in 1..Len(Items(r)) /\ i <= at[r]
    /\ (stage[r] = "item") => (at[r] \notin ran[r])
    /\ (stage[r] = "wait") => (at[r] \in ran[r] /\ Disposition(Item(r)) = "dispatch")
    /\ \A k \in DOMAIN audit[r] : audit[r][k].at < at[r]

\* The id a response must have.
IdFor(m) == IF m.object /\ m.id # Bad THEN m.id ELSE None

\* The responses are those due for the first n items, in order.
Matches(r, n) ==
    /\ Len(replies[r]) = Cardinality(Due(r, n))
    /\ \A k \in Due(r, n) : replies[r][Cardinality(Due(r, k))].id = IdFor(Items(r)[k])

Matched(r) == (stage[r] \in {"item", "wait"}) => Matches(r, at[r] - 1)

\* BatchIsAnswered, MalformedNeverRuns and AuditIsFaithful, of one request.
Completed(r) ==
    (/\ stage[r] = "done"
     /\ req[r].route = "mcp"
     /\ answer[r] \in {200, 204}
     /\ req[r].body.json) =>
        IF Items(r) = << >> THEN replies[r] = << NullError >>
        ELSE /\ Matches(r, Len(Items(r)))
             /\ answer[r] = 204 <=> Due(r, Len(Items(r))) = {}

Proper(r) ==
    \A i \in ran[r] :
        LET m == Items(r)[i]
        IN  m.object /\ m.form = "call" /\ m.method # "" /\ m.id # Bad

InOrder(r) == \A j, k \in DOMAIN audit[r] : j < k => audit[r][j].at < audit[r][k].at

OfRun(r) == \A k \in DOMAIN audit[r] : audit[r][k].at \in ran[r]

Whole(r) ==
    \A i \in ran[r] : (i < at[r] /\ ~SkipsAudit(Items(r)[i])) =>
        \E k \in DOMAIN audit[r] : audit[r][k].at = i

Told(r) ==
    \A k \in DOMAIN audit[r] :
        Answerable(Items(r)[audit[r][k].at]) =>
            replies[r][Cardinality(Due(r, audit[r][k].at))].ok = audit[r][k].ok

Audited(r) == InOrder(r) /\ OfRun(r) /\ Whole(r) /\ Told(r)

Fine(r) == Charged(r) /\ Placed(r) /\ Matched(r) /\ Completed(r) /\ Proper(r) /\ Audited(r)

IInv == TypeOK /\ Counted /\ \A r \in Requests : Fine(r)

-----------------------------------------------------------------------------
(***************************************************************************)
(* Messages and the ranks of those that are answered.                      *)
(***************************************************************************)

\* The items of a request are a sequence of messages.
LEMMA ItemsFacts ==
  ASSUME TypeOK, NEW r \in Requests
  PROVE  /\ Items(r) \in Seq(Messages) /\ Len(Items(r)) \in Nat
         /\ \A i \in 1..Len(Items(r)) : Items(r)[i] \in Messages
         /\ Items(r) = << >> <=> Len(Items(r)) = 0
  <1>1. req[r] \in Incoming
    BY DEF TypeOK
  <1>2. Items(r) \in Seq(Messages)
    BY <1>1, IncomingAssumption DEF Items
  <1> QED
    BY <1>2, LenProperties, ElementOfSeq, EmptySeq

\* What is answered is what must be, under the id it must have; what is dispatched is a call.
LEMMA DispositionFacts ==
  ASSUME NEW m \in Messages
  PROVE  /\ (Disposition(m) = "reject") => (Answerable(m) /\ Failure(m).id = IdFor(m))
         /\ (Disposition(m) = "ignore") => ~Answerable(m)
         /\ (Disposition(m) = "dispatch") =>
               /\ m.object /\ m.form = "call" /\ m.method # "" /\ m.id # Bad
               /\ RepliesTo(m) <=> Answerable(m)
               /\ Success(m).id = IdFor(m) /\ Failure(m).id = IdFor(m)
  <1>1. m.object \in BOOLEAN /\ m.shape \in BOOLEAN
    BY IncomingAssumption
  <1>2. CASE Disposition(m) = "reject"
    <2>1. Failure(m).id = IdFor(m)
      BY <1>1 DEF Failure, ReplyId, IdFor
    <2>2. Answerable(m)
      BY <1>1, <1>2, IdsAssumption DEF Disposition, HasValidId, IsNotification, Answerable
    <2> QED
      BY <1>2, <2>1, <2>2
  <1>3. CASE Disposition(m) = "ignore"
    BY <1>1, <1>3 DEF Disposition, HasValidId, IsNotification, Answerable
  <1>4. CASE Disposition(m) = "dispatch"
    <2>1. m.object /\ m.form = "call" /\ m.method # "" /\ m.id # Bad
      BY <1>1, <1>4 DEF Disposition, HasValidId, IsNotification
    <2>2. RepliesTo(m) <=> Answerable(m)
      BY <1>4, <2>1 DEF RepliesTo, IsNotification, Answerable
    <2>3. Success(m).id = IdFor(m) /\ Failure(m).id = IdFor(m)
      BY <2>1 DEF Success, Failure, ReplyId, IdFor
    <2> QED
      BY <1>4, <2>1, <2>2, <2>3
  <1> QED
    BY <1>2, <1>3, <1>4

\* The responses to a message are responses.
LEMMA ResponseTypes ==
  ASSUME NEW m \in Messages
  PROVE  Success(m) \in Responses /\ Failure(m) \in Responses
  BY DEF Success, Failure, ReplyId, Responses

\* So is the response to a body that holds none.
LEMMA NullTyped == NullError \in Responses /\ << NullError >> \in Seq(Responses)
  <1>1. NullError \in Responses
    BY DEF NullError, Responses
  <1> HIDE DEF NullError
  <1> QED
    BY <1>1

\* The items due among the first n are finitely many, and so countable.
LEMMA DueFinite ==
  ASSUME NEW r, NEW n \in Nat
  PROVE  IsFiniteSet(Due(r, n)) /\ Cardinality(Due(r, n)) \in Nat
  <1>1. IsFiniteSet(1..n)
    BY FS_Interval
  <1>2. Due(r, n) \subseteq 1..n
    BY DEF Due
  <1> QED
    BY <1>1, <1>2, FS_Subset, FS_CardinalityType

\* With each item that is due there is one more.
LEMMA DueStep ==
  ASSUME NEW r, NEW n \in Nat \ {0}
  PROVE  /\ Answerable(Items(r)[n]) =>
               /\ Due(r, n) = Due(r, n - 1) \cup {n}
               /\ Cardinality(Due(r, n)) = Cardinality(Due(r, n - 1)) + 1
         /\ ~Answerable(Items(r)[n]) => Due(r, n) = Due(r, n - 1)
         /\ Due(r, n) \subseteq Due(r, n - 1) \cup {n}
  <1>1. 1..n = 1..(n - 1) \cup {n} /\ n \notin 1..(n - 1) /\ n - 1 \in Nat
    OBVIOUS
  <1>2. Answerable(Items(r)[n]) => Due(r, n) = Due(r, n - 1) \cup {n}
    BY <1>1 DEF Due
  <1>3. ~Answerable(Items(r)[n]) => Due(r, n) = Due(r, n - 1)
    BY <1>1 DEF Due
  <1>4. IsFiniteSet(Due(r, n - 1)) /\ n \notin Due(r, n - 1)
    BY <1>1, DueFinite DEF Due
  <1>5. Cardinality(Due(r, n - 1) \cup {n}) = Cardinality(Due(r, n - 1)) + 1
    BY <1>4, FS_AddElement
  <1> QED
    BY <1>2, <1>3, <1>5

\* Nothing is due of no items.
LEMMA DueNone ==
  ASSUME NEW r
  PROVE  Due(r, 0) = {} /\ Cardinality(Due(r, 0)) = 0
  <1>1. Due(r, 0) = {}
    BY DEF Due
  <1> QED
    BY <1>1, FS_EmptySet

\* The rank of an item among those due.
LEMMA DueRank ==
  ASSUME NEW r, NEW n \in Nat, NEW k \in Due(r, n)
  PROVE  Cardinality(Due(r, k)) \in 1..Cardinality(Due(r, n))
  <1>1. k \in Nat /\ k <= n /\ k >= 1 /\ k \in Due(r, k)
    BY DEF Due
  <1>2. Due(r, k) \subseteq Due(r, n)
    BY <1>1 DEF Due
  <1>3. /\ IsFiniteSet(Due(r, n)) /\ IsFiniteSet(Due(r, k))
        /\ Cardinality(Due(r, n)) \in Nat /\ Cardinality(Due(r, k)) \in Nat
    BY <1>1, DueFinite
  <1>4. Cardinality(Due(r, k)) <= Cardinality(Due(r, n))
    BY <1>2, <1>3, FS_Subset
  <1>5. Cardinality(Due(r, k)) # 0
    BY <1>1, <1>3, FS_EmptySet
  <1> QED
    BY <1>3, <1>4, <1>5

\* An item that is done has its response, if it has one, at its rank, and the responses
\* before it stay where they are.
LEMMA Responded ==
  ASSUME TypeOK, NEW r \in Requests, UNCHANGED req,
         at[r] <= Len(Items(r)), at'[r] = at[r] + 1,
         Matches(r, at[r] - 1),
         NEW a \in Responses, Answerable(Item(r)) => a.id = IdFor(Item(r)),
         replies'[r] = IF Answerable(Item(r)) THEN Append(replies[r], a) ELSE replies[r]
  PROVE  /\ Len(replies'[r]) = Cardinality(Due(r, at[r]))
         /\ \A k \in Due(r, at[r]) :
               replies'[r][Cardinality(Due(r, k))].id = IdFor(Items(r)[k])
         /\ \A k \in Due(r, at[r] - 1) :
               replies'[r][Cardinality(Due(r, k))] = replies[r][Cardinality(Due(r, k))]
         /\ Answerable(Item(r)) => replies'[r][Cardinality(Due(r, at[r]))] = a
  <1> DEFINE n == at[r]
             c == Cardinality(Due(r, n - 1))
  <1>1. n \in Nat \ {0} /\ n - 1 \in Nat /\ replies[r] \in Seq(Responses)
    BY DEF TypeOK
  <1>2. Len(replies[r]) = c /\ c \in Nat
    BY <1>1, DueFinite DEF Matches
  <1>3. \A k \in Due(r, n - 1) : Cardinality(Due(r, k)) \in 1..c
    BY <1>1, DueRank
  <1>5. Item(r) = Items(r)[n]
    BY DEF Item
  <1>6. CASE ~Answerable(Item(r))
    <2>1. Due(r, n) = Due(r, n - 1) /\ replies'[r] = replies[r]
      BY <1>1, <1>5, <1>6, DueStep
    <2> QED
      BY <1>6, <2>1 DEF Matches
  <1>7. CASE Answerable(Item(r))
    <2>1. /\ Len(replies'[r]) = c + 1
          /\ replies'[r][c + 1] = a
          /\ \A k \in 1..c : replies'[r][k] = replies[r][k]
      BY <1>1, <1>2, <1>7, AppendProperties
    <2>2. Due(r, n) = Due(r, n - 1) \cup {n} /\ Cardinality(Due(r, n)) = c + 1
      BY <1>1, <1>5, <1>7, DueStep
    <2> HIDE DEF c, n
    <2>3. \A k \in Due(r, n - 1) :
             replies'[r][Cardinality(Due(r, k))] = replies[r][Cardinality(Due(r, k))]
      BY <1>3, <2>1
    <2>4. replies'[r][Cardinality(Due(r, n))] = a
      BY <2>1, <2>2
    <2>5. \A k \in Due(r, n) : replies'[r][Cardinality(Due(r, k))].id = IdFor(Items(r)[k])
      <3>1. \A k \in Due(r, n - 1) :
               replies'[r][Cardinality(Due(r, k))].id = IdFor(Items(r)[k])
        BY <2>3 DEF Matches, n
      <3>2. replies'[r][Cardinality(Due(r, n))].id = IdFor(Items(r)[n])
        BY <1>5, <1>7, <2>4
      <3> QED
        BY <2>2, <3>1, <3>2
    <2> QED
      BY <1>7, <2>1, <2>2, <2>3, <2>4, <2>5 DEF n
  <1> QED
    BY <1>6, <1>7

-----------------------------------------------------------------------------
(***************************************************************************)
(* Type correctness.                                                       *)
(***************************************************************************)

\* Nothing has come in yet.
LEMMA InitTyped == Init => TypeOK
  <1> SUFFICES ASSUME Init PROVE TypeOK
    OBVIOUS
  <1>1. << >> \in Seq(Responses) /\ << >> \in Seq(Events) /\ << >> \in Seq(Nat)
    BY EmptySeq
  <1>2. /\ now \in Nat /\ lastRefill \in Nat /\ sample \in [Requests -> Nat]
        /\ grants \in Seq(Nat)
        /\ pc \in [Requests -> {"idle", "sampled", "admitted", "refused"}]
    BY <1>1 DEF Init, Limiter!Init
  <1> QED
    BY <1>1, <1>2 DEF Init, TypeOK, Stages

\* The limiter's steps keep the shapes.
LEMMA LimitTyped ==
  ASSUME TypeOK, Tick \/ \E r \in Requests : Limit(r)
  PROVE  TypeOK'
  <1>1. CASE Tick
    BY <1>1 DEF TypeOK, Tick, Limiter!Tick, serviceVars
  <1>2. ASSUME NEW r \in Requests, Limit(r) PROVE TypeOK'
    <2>1. UNCHANGED << req, stage, at, left, replies, answer, ran, called, audit >>
      BY <1>2 DEF Limit, serviceVars
    <2>2. sample[r] \in Nat /\ Limiter!RefillTime(sample[r]) \in Nat
      BY DEF TypeOK, Limiter!RefillTime
    <2>3. CASE Limiter!Check(r)
      <3>1. /\ pc' \in [Requests -> {"idle", "sampled", "admitted", "refused"}]
            /\ sample' \in [Requests -> Nat]
        BY <2>3 DEF TypeOK, Limiter!Check
      <3> QED
        BY <2>1, <2>3, <3>1 DEF TypeOK, Limiter!Check
    <2>4. CASE Limiter!Admit(r)
      <3>1. grants' \in Seq(Nat)
        BY <2>2, <2>4, AppendProperties DEF TypeOK, Limiter!Admit
      <3> QED
        BY <2>1, <2>2, <2>4, <3>1 DEF TypeOK, Limiter!Admit
    <2>5. CASE Limiter!Refuse(r)
      BY <2>1, <2>2, <2>5 DEF TypeOK, Limiter!Refuse
    <2> QED
      BY <1>2, <2>3, <2>4, <2>5 DEF Limit
  <1> QED
    BY <1>1, <1>2

\* So do the steps that serve a request up to its items.
LEMMA RouteTyped ==
  ASSUME TypeOK, NEW r \in Requests,
         \/ Throttle(r) \/ ServePublic(r) \/ Unauthorized(r) \/ Authenticate(r)
         \/ StatusCall(r) \/ StatusReturn(r) \/ RejectBody(r) \/ StartItems(r)
         \/ FinishBody(r) \/ HangUp(r)
  PROVE  TypeOK'
  <1>1. CASE Throttle(r)
    BY <1>1 DEF TypeOK, Throttle, limiterVars, Stages
  <1>2. CASE ServePublic(r)
    BY <1>2 DEF TypeOK, ServePublic, Answer, limiterVars, Stages
  <1>3. CASE Unauthorized(r)
    BY <1>3 DEF TypeOK, Unauthorized, Answer, limiterVars, Stages
  <1>4. CASE Authenticate(r)
    BY <1>4 DEF TypeOK, Authenticate, Protected, limiterVars, Stages
  <1>5. CASE StatusCall(r)
    BY <1>5 DEF TypeOK, StatusCall, limiterVars, Stages
  <1>6. CASE StatusReturn(r)
    <2>1. PICK status \in {200, 503, 500} : Answer(r, status)
      BY <1>6 DEF StatusReturn
    <2>2. stage' \in [Requests -> Stages]
      BY <2>1 DEF Answer, TypeOK, Stages
    <2>3. answer' \in [Requests -> {0, 200, 204, 401, 404, 429, 500, 503}]
      BY <2>1 DEF Answer, TypeOK
    <2> QED
      BY <1>6, <2>2, <2>3 DEF TypeOK, StatusReturn, limiterVars
  <1>7. CASE RejectBody(r)
    BY <1>7, NullTyped DEF TypeOK, RejectBody, Answer, limiterVars, Stages
  <1>8. CASE StartItems(r)
    BY <1>8 DEF TypeOK, StartItems, limiterVars, Stages
  <1>9. CASE FinishBody(r)
    BY <1>9 DEF TypeOK, FinishBody, Answer, limiterVars, Stages
  <1>10. CASE HangUp(r)
    BY <1>10 DEF TypeOK, HangUp, limiterVars, Stages
  <1> QED
    BY <1>1, <1>2, <1>3, <1>4, <1>5, <1>6, <1>7, <1>8, <1>9, <1>10

\* The response and the audit event of an item are of their kinds.
LEMMA ItemTyped ==
  ASSUME TypeOK, NEW r \in Requests, at[r] <= Len(Items(r)), NEW ok \in BOOLEAN
  PROVE  /\ Item(r) \in Messages
         /\ Reply(r, ok) \in [Requests -> Seq(Responses)]
         /\ Audit(r, ok) \in [Requests -> Seq(Events)]
         /\ [replies EXCEPT ![r] = Append(@, Failure(Item(r)))] \in [Requests -> Seq(Responses)]
  <1>1. Item(r) \in Messages
    <2>1. at[r] \in Nat \ {0}
      BY DEF TypeOK
    <2>2. at[r] \in 1..Len(Items(r))
      BY <2>1, ItemsFacts
    <2> QED
      BY <2>2, ItemsFacts DEF Item
  <1>2. /\ Append(replies[r], Success(Item(r))) \in Seq(Responses)
        /\ Append(replies[r], Failure(Item(r))) \in Seq(Responses)
    BY <1>1, ResponseTypes, AppendProperties DEF TypeOK
  <1>3. Append(audit[r], [at |-> at[r], ok |-> ok]) \in Seq(Events)
    <2>1. [at |-> at[r], ok |-> ok] \in Events /\ audit[r] \in Seq(Events)
      BY DEF TypeOK, Events
    <2> QED
      BY <2>1, AppendProperties
  <1>4. Reply(r, ok) \in [Requests -> Seq(Responses)]
    BY <1>2 DEF Reply, TypeOK
  <1>5. Audit(r, ok) \in [Requests -> Seq(Events)]
    BY <1>3 DEF Audit, TypeOK
  <1> QED
    BY <1>1, <1>2, <1>4, <1>5 DEF TypeOK

\* Whether a method gets past its own checks is true or false.
LEMMA SucceedsBoolean ==
  ASSUME NEW m \in Messages
  PROVE  Succeeds(m) \in BOOLEAN
  BY DEF Succeeds

\* The steps that work on an item keep the shapes.
LEMMA WorkTyped ==
  ASSUME TypeOK, NEW r \in Requests,
         \/ RejectItem(r) \/ IgnoreItem(r) \/ RunItem(r) \/ CallProvider(r)
         \/ CallAgain(r) \/ (\E ok \in BOOLEAN : ProviderReturn(r, ok) /\ at[r] <= Len(Items(r)))
  PROVE  TypeOK'
  <1>0. /\ [at EXCEPT ![r] = @ + 1] \in [Requests -> Nat \ {0}]
        /\ [called EXCEPT ![r] = @ + 1] \in [Requests -> Nat]
    BY DEF TypeOK
  <1>a. [ran EXCEPT ![r] = @ \cup {at[r]}] \in [Requests -> SUBSET Nat]
    <2>1. ran \in [Requests -> SUBSET Nat] /\ at[r] \in Nat
      BY DEF TypeOK
    <2> QED
      BY <2>1
  <1>b. /\ [stage EXCEPT ![r] = "wait"] \in [Requests -> Stages]
        /\ [stage EXCEPT ![r] = "item"] \in [Requests -> Stages]
    <2>1. "wait" \in Stages /\ "item" \in Stages
      BY DEF Stages
    <2> QED
      BY <2>1 DEF TypeOK
  <1>1. CASE RejectItem(r)
    <2>1. replies' \in [Requests -> Seq(Responses)]
      BY <1>1, ItemTyped DEF RejectItem, Working
    <2>2. /\ at' \in [Requests -> Nat \ {0}]
          /\ UNCHANGED << limiterVars, req, stage, left, answer, ran, called, audit >>
      BY <1>0, <1>1 DEF RejectItem
    <2> QED
      BY <2>1, <2>2 DEF TypeOK, limiterVars
  <1>2. CASE IgnoreItem(r)
    BY <1>0, <1>2 DEF TypeOK, IgnoreItem, limiterVars
  <1>3. CASE RunItem(r)
    <2>1. Item(r) \in Messages
      BY <1>3, ItemTyped DEF RunItem, Working
    <2>2. Succeeds(Item(r)) \in BOOLEAN
      BY <2>1, SucceedsBoolean
    <2>3. /\ replies' \in [Requests -> Seq(Responses)]
          /\ audit' \in [Requests -> Seq(Events)]
      BY <1>3, <2>2, ItemTyped DEF RunItem, Working
    <2> QED
      BY <1>0, <1>a, <1>3, <2>3 DEF TypeOK, RunItem, limiterVars
  <1>4. CASE CallProvider(r)
    <2>1. ProviderCalls(Item(r)) \in Nat
      BY <1>4, ItemTyped, IncomingAssumption DEF CallProvider, Working, ProviderCalls
    <2>2. [left EXCEPT ![r] = ProviderCalls(Item(r)) - 1] \in [Requests -> Int]
      BY <2>1 DEF TypeOK
    <2>3. /\ UNCHANGED << limiterVars, req, at, replies, answer, audit >>
          /\ ran' \in [Requests -> SUBSET Nat] /\ called' \in [Requests -> Nat]
          /\ left' \in [Requests -> Int] /\ stage' \in [Requests -> Stages]
      BY <1>0, <1>a, <1>b, <1>4, <2>2 DEF CallProvider
    <2> QED
      BY <2>3 DEF TypeOK, limiterVars
  <1>5. CASE CallAgain(r)
    BY <1>5 DEF TypeOK, CallAgain, limiterVars
  <1>6. ASSUME NEW ok \in BOOLEAN, ProviderReturn(r, ok), at[r] <= Len(Items(r))
        PROVE  TypeOK'
    <2>1. /\ replies' \in [Requests -> Seq(Responses)]
          /\ audit' \in [Requests -> Seq(Events)]
      BY <1>6, ItemTyped DEF ProviderReturn
    <2>2. [left EXCEPT ![r] = 0] \in [Requests -> Int]
      BY DEF TypeOK
    <2>3. /\ at' \in [Requests -> Nat \ {0}] /\ stage' \in [Requests -> Stages]
          /\ left' \in [Requests -> Int]
          /\ UNCHANGED << limiterVars, req, answer, ran, called >>
      BY <1>0, <1>b, <1>6, <2>2 DEF ProviderReturn
    <2>4. UNCHANGED << now, lastRefill, sample, grants, pc, req, answer, ran, called >>
      BY <2>3 DEF limiterVars
    <2>5. /\ now' \in Nat /\ lastRefill' \in Nat /\ sample' \in [Requests -> Nat]
          /\ grants' \in Seq(Nat)
          /\ pc' \in [Requests -> {"idle", "sampled", "admitted", "refused"}]
          /\ req' \in [Requests -> Incoming]
          /\ answer' \in [Requests -> {0, 200, 204, 401, 404, 429, 500, 503}]
          /\ ran' \in [Requests -> SUBSET Nat] /\ called' \in [Requests -> Nat]
      BY <2>4 DEF TypeOK
    <2> QED
      BY ONLY <2>1, <2>3, <2>5 DEF TypeOK
  <1> QED
    BY <1>1, <1>2, <1>3, <1>4, <1>5, <1>6

-----------------------------------------------------------------------------
(***************************************************************************)
(* A step of one request leaves the others alone.                          *)
(***************************************************************************)

Untouched(q) ==
    UNCHANGED << pc[q], stage[q], at[q], replies[q], answer[q], ran[q], called[q], audit[q] >>

\* The audit goes on to be faithful while neither it nor the responses change and nothing runs
\* but the item in hand.
LEMMA AuditedKept ==
  ASSUME NEW r, Audited(r), UNCHANGED << req, audit[r], at[r], replies[r] >>,
         ran[r] \subseteq ran'[r], \A i \in ran'[r] : i < at[r] => i \in ran[r]
  PROVE  Audited(r)'
  <1>1. OfRun(r)'
    BY DEF Audited, OfRun
  <1>2. Whole(r)'
    BY DEF Audited, Whole, Items
  <1>3. Told(r)'
    BY DEF Audited, Told, Items, Due
  <1>4. InOrder(r)'
    BY DEF Audited, InOrder
  <1> QED
    BY <1>1, <1>2, <1>3, <1>4 DEF Audited

\* What holds of a request by itself goes on to hold while it is untouched.
LEMMA FineKept ==
  ASSUME NEW q \in Requests, Fine(q), Untouched(q), UNCHANGED req
  PROVE  Fine(q)'
  <1>1. Charged(q)'
    BY DEF Fine, Untouched, Charged, Authorized
  <1>2. Placed(q)'
    BY DEF Fine, Untouched, Placed, Items, Item
  <1>6. Matched(q)' /\ Completed(q)'
    <2>0. /\ Matched(q) /\ Completed(q)
          /\ UNCHANGED << req, stage[q], at[q], replies[q], answer[q] >>
      BY DEF Fine, Untouched
    <2>1. Matched(q)'
      BY <2>0 DEF Matched, Matches, Due, Items
    <2>2. Completed(q)'
      BY <2>0 DEF Completed, Matches, Due, Items
    <2> QED
      BY <2>1, <2>2
  <1>7. Proper(q)'
    BY DEF Fine, Untouched, Proper, Items
  <1>8. Audited(q)'
    BY AuditedKept DEF Fine, Untouched
  <1> QED
    BY <1>1, <1>2, <1>6, <1>7, <1>8 DEF Fine

\* So a step of one request has to be looked at for that request only.
LEMMA StepOfOne ==
  ASSUME IInv, TypeOK', UNCHANGED req, Counted', NEW r \in Requests, Fine(r)',
         \A q \in Requests \ {r} : Untouched(q)
  PROVE  IInv'
  <1>1. ASSUME NEW q \in Requests PROVE Fine(q)'
    BY <1>1, FineKept DEF IInv
  <1> QED
    BY <1>1 DEF IInv

\* The bucket's count is of the limiter's variables only.
LEMMA CountKept ==
  ASSUME Counted, UNCHANGED << pc, grants >>
  PROVE  Counted'
  BY DEF Counted, AllAdmitted

\* The limiter charges a token for each admission, and for nothing else.
LEMMA LimitStep ==
  ASSUME IInv, NEW r \in Requests, Limit(r)
  PROVE  IInv'
  <1>1. TypeOK /\ TypeOK' /\ Fine(r) /\ Counted
    BY LimitTyped DEF IInv
  <1>2. UNCHANGED << req, stage, at, replies, answer, ran, called, audit >>
    BY DEF Limit, serviceVars
  <1>3. /\ pc[r] \in {"idle", "sampled"}
        /\ \A q \in Requests \ {r} : pc'[q] = pc[q]
    <2>1. CASE Limiter!Check(r)
      BY <1>1, <2>1 DEF Limiter!Check, TypeOK
    <2>2. CASE Limiter!Admit(r)
      BY <1>1, <2>2 DEF Limiter!Admit, TypeOK
    <2>3. CASE Limiter!Refuse(r)
      BY <1>1, <2>3 DEF Limiter!Refuse, TypeOK
    <2> QED
      BY <2>1, <2>2, <2>3 DEF Limit
  <1>4. stage[r] = "route"
    BY <1>1, <1>3 DEF Fine, Charged
  <1>5. Fine(r)'
    <2>1. Charged(r)'
      BY <1>1, <1>2, <1>4 DEF Fine, Charged, Authorized
    <2>2. Placed(r)'
      BY <1>1, <1>2 DEF Fine, Placed, Items, Item
    <2>3. Matched(r)' /\ Completed(r)'
      BY <1>2, <1>4 DEF Matched, Completed
    <2>4. Proper(r)'
      BY <1>1, <1>2 DEF Fine, Proper, Items
    <2>5. Audited(r)'
      BY <1>1, <1>2, AuditedKept DEF Fine
    <2> QED
      BY <2>1, <2>2, <2>3, <2>4, <2>5 DEF Fine
  <1>6. Counted'
    <2>1. CASE Limiter!Check(r) \/ Limiter!Refuse(r)
      <3>1. AllAdmitted' = AllAdmitted /\ grants' = grants
        <4>1. grants' = grants /\ pc'[r] # "admitted" /\ pc[r] # "admitted"
          <5>1. CASE Limiter!Check(r)
            BY <1>1, <5>1 DEF Limiter!Check, TypeOK
          <5>2. CASE Limiter!Refuse(r)
            BY <1>1, <5>2 DEF Limiter!Refuse, TypeOK
          <5> QED
            BY <2>1, <5>1, <5>2
        <4> QED
          BY <1>3, <4>1 DEF AllAdmitted
      <3> QED
        BY <1>1, <3>1 DEF Counted
    <2>2. CASE Limiter!Admit(r)
      <3>1. AllAdmitted' = AllAdmitted \cup {r} /\ r \notin AllAdmitted
        BY <1>1, <1>3, <2>2 DEF AllAdmitted, Limiter!Admit, TypeOK
      <3>2. IsFiniteSet(AllAdmitted)
        <4>1. AllAdmitted \subseteq Requests
          BY DEF AllAdmitted
        <4> QED
          BY <4>1, RequestsAssumption, FS_Subset
      <3>3. Cardinality(AllAdmitted') = Cardinality(AllAdmitted) + 1
        BY <3>1, <3>2, FS_AddElement
      <3>4. Len(grants') = Len(grants) + 1
        <4>1. Limiter!RefillTime(sample[r]) \in Nat
          BY <1>1 DEF TypeOK, Limiter!RefillTime
        <4> QED
          BY <1>1, <2>2, <4>1, AppendProperties DEF TypeOK, Limiter!Admit
      <3> QED
        BY <1>1, <3>3, <3>4 DEF Counted
    <2> QED
      BY <2>1, <2>2 DEF Limit
  <1>7. \A q \in Requests \ {r} : Untouched(q)
    BY <1>2, <1>3 DEF Untouched
  <1> QED
    BY <1>1, <1>2, <1>5, <1>6, <1>7, StepOfOne

\* Up to its items, a request changes its stage and gets its answer.
LEMMA RouteStep ==
  ASSUME IInv, NEW r \in Requests,
         \/ Throttle(r) \/ ServePublic(r) \/ Unauthorized(r) \/ Authenticate(r)
         \/ StatusCall(r) \/ StatusReturn(r) \/ HangUp(r)
  PROVE  IInv'
  <1>1. TypeOK /\ TypeOK' /\ Fine(r) /\ Counted
    BY RouteTyped DEF IInv
  <1>2. /\ UNCHANGED << pc, grants, req, at, replies, ran, audit >>
        /\ \A q \in Requests \ {r} :
              UNCHANGED << stage[q], answer[q], called[q] >>
    <2>1. CASE Throttle(r)
      BY <1>1, <2>1 DEF Throttle, TypeOK, limiterVars
    <2>2. CASE ServePublic(r)
      BY <1>1, <2>2 DEF ServePublic, Answer, TypeOK, limiterVars
    <2>3. CASE Unauthorized(r)
      BY <1>1, <2>3 DEF Unauthorized, Answer, TypeOK, limiterVars
    <2>4. CASE Authenticate(r)
      BY <1>1, <2>4 DEF Authenticate, TypeOK, limiterVars
    <2>5. CASE StatusCall(r)
      BY <1>1, <2>5 DEF StatusCall, TypeOK, limiterVars
    <2>6. CASE StatusReturn(r)
      BY <1>1, <2>6 DEF StatusReturn, Answer, TypeOK, limiterVars
    <2>7. CASE HangUp(r)
      BY <1>1, <2>7 DEF HangUp, TypeOK, limiterVars
    <2> QED
      BY <2>1, <2>2, <2>3, <2>4, <2>5, <2>6, <2>7
  <1>3. Charged(r)'
    <2>1. CASE Throttle(r)
      <3>1. stage' = stage /\ called' = called /\ answer'[r] = 429
        BY <1>1, <2>1 DEF Throttle, TypeOK
      <3>2. stage[r] = "route"
        BY <1>1, <2>1 DEF Throttle, Fine, Charged
      <3> QED
        BY <1>1, <1>2, <3>1, <3>2 DEF Fine, Charged, Authorized
    <2>2. CASE ServePublic(r) \/ Unauthorized(r)
      <3>1. stage'[r] = "done" /\ called' = called /\ pc[r] = "admitted" /\ stage[r] = "route"
        BY <1>1, <2>2 DEF ServePublic, Unauthorized, Answer, Admitted, TypeOK
      <3> QED
        BY <1>1, <1>2, <3>1 DEF Fine, Charged, Authorized
    <2>5. CASE Authenticate(r)
      <3>1. /\ stage'[r] \in {"mcp", "status"} /\ called' = called /\ answer' = answer
            /\ pc[r] = "admitted" /\ Authorized(r) /\ stage[r] = "route"
        BY <1>1, <2>5 DEF Authenticate, Admitted, Protected, TypeOK
      <3>2. answer[r] = 0 \/ answer[r] = 429
        BY <1>1, <3>1 DEF Fine, Charged
      <3> QED
        BY <1>1, <1>2, <3>1, <3>2 DEF Fine, Charged, Authorized
    <2>3. CASE StatusCall(r)
      <3>1. stage[r] = "status" /\ stage'[r] = "statusWait" /\ answer' = answer
        BY <1>1, <2>3 DEF StatusCall, TypeOK
      <3> QED
        BY <1>1, <1>2, <3>1 DEF Fine, Charged, Authorized
    <2>4. CASE StatusReturn(r) \/ HangUp(r)
      <3>1. /\ stage[r] \in {"mcp", "wait", "statusWait"} /\ called' = called
            /\ \/ stage'[r] = "done"
               \/ stage'[r] = "dropped" /\ answer' = answer
        BY <1>1, <2>4 DEF StatusReturn, HangUp, Answer, TypeOK
      <3> QED
        BY <1>1, <1>2, <3>1 DEF Fine, Charged, Authorized
    <2> QED
      BY <2>1, <2>2, <2>3, <2>4, <2>5
  <1>4. Placed(r)'
    <2>1. CASE Throttle(r)
      BY <1>1, <1>2, <2>1 DEF Fine, Placed, Throttle, Items, Item
    <2>2. CASE Authenticate(r)
      BY <1>1, <1>2, <2>2 DEF Fine, Placed, Authenticate, Protected, Items, TypeOK
    <2>3. CASE ServePublic(r) \/ Unauthorized(r) \/ StatusReturn(r) \/ HangUp(r)
      <3>1. stage'[r] \in {"done", "dropped"}
        BY <1>1, <2>3 DEF ServePublic, Unauthorized, StatusReturn, HangUp, Answer, TypeOK
      <3> QED
        BY <1>1, <1>2, <3>1 DEF Fine, Placed, Items
    <2>4. CASE StatusCall(r)
      BY <1>1, <1>2, <2>4 DEF Fine, Placed, StatusCall, Items, TypeOK
    <2> QED
      BY <2>1, <2>2, <2>3, <2>4
  <1>5. Matched(r)' /\ Completed(r)'
    <2>1. CASE Throttle(r)
      <3>1. stage[r] = "route" /\ stage'[r] = "route"
        BY <1>1, <2>1 DEF Fine, Charged, Throttle
      <3> QED
        BY <3>1 DEF Matched, Completed
    <2>2. CASE ServePublic(r) \/ Unauthorized(r)
      <3>1. /\ stage'[r] = "done"
            /\ req[r].route # "mcp" \/ answer'[r] = 401
        BY <1>1, <2>2 DEF ServePublic, Unauthorized, Answer, Protected, TypeOK
      <3> QED
        BY <1>2, <3>1 DEF Matched, Completed
    <2>3. CASE StatusReturn(r)
      <3>1. stage'[r] = "done" /\ req[r].route = "status"
        BY <1>1, <2>3 DEF StatusReturn, Answer, Fine, Placed, TypeOK
      <3> QED
        BY <1>2, <3>1 DEF Matched, Completed
    <2>4. CASE Authenticate(r) \/ StatusCall(r) \/ HangUp(r)
      <3>1. stage'[r] \in {"mcp", "status", "statusWait", "dropped"}
        BY <1>1, <2>4 DEF Authenticate, StatusCall, HangUp, Protected, TypeOK
      <3> QED
        BY <3>1 DEF Matched, Completed
    <2> QED
      BY <2>1, <2>2, <2>3, <2>4
  <1>6. Proper(r)'
    BY <1>1, <1>2 DEF Fine, Proper, Items
  <1>7. Audited(r)'
    BY <1>1, <1>2, AuditedKept DEF Fine
  <1>8. Counted' /\ \A q \in Requests \ {r} : Untouched(q)
    BY <1>1, <1>2, CountKept DEF Untouched
  <1>9. Fine(r)'
    BY <1>3, <1>4, <1>5, <1>6, <1>7 DEF Fine
  <1> QED
    BY <1>1, <1>2, <1>8, <1>9, StepOfOne

\* A body is refused, begun or ended: its responses are complete when its items are.
LEMMA BodyStep ==
  ASSUME IInv, NEW r \in Requests, RejectBody(r) \/ StartItems(r) \/ FinishBody(r)
  PROVE  IInv'
  <1>1. TypeOK /\ TypeOK' /\ Fine(r) /\ Counted
    BY RouteTyped DEF IInv
  <1>2. /\ UNCHANGED << pc, grants, req, at, ran, called, audit >>
        /\ \A q \in Requests \ {r} :
              UNCHANGED << stage[q], answer[q], replies[q] >>
    <2>1. CASE RejectBody(r)
      BY <1>1, <2>1 DEF RejectBody, Answer, TypeOK, limiterVars
    <2>2. CASE StartItems(r)
      BY <1>1, <2>2 DEF StartItems, TypeOK, limiterVars
    <2>3. CASE FinishBody(r)
      BY <1>1, <2>3 DEF FinishBody, Answer, TypeOK, limiterVars
    <2> QED
      BY <2>1, <2>2, <2>3
  <1>3. Charged(r)'
    BY <1>1, <1>2 DEF Fine, Charged, RejectBody, StartItems, FinishBody, Answer, TypeOK,
                      Authorized
  <1>4. Placed(r)'
    BY <1>1, <1>2 DEF Fine, Placed, RejectBody, StartItems, FinishBody, Answer, TypeOK, Items
  <1>5. Proper(r)'
    BY <1>1, <1>2 DEF Fine, Proper, Items
  <1>6. Matched(r)' /\ Completed(r)' /\ Audited(r)'
    <2>1. CASE RejectBody(r)
      <3>1. /\ stage'[r] = "done" /\ replies'[r] = << NullError >> /\ audit[r] = << >>
            /\ req[r].body.json => Items(r) = << >>
        BY <1>1, <2>1 DEF RejectBody, Answer, Fine, Placed, TypeOK
      <3>2. Matched(r)' /\ Completed(r)'
        BY <1>2, <3>1 DEF Matched, Completed, Items, NullError
      <3>3. Audited(r)'
        <4>1. DOMAIN audit[r] = {}
          BY <3>1
        <4>2. ran[r] = {}
          BY <1>1, <2>1 DEF RejectBody, Fine, Placed
        <4> QED
          BY <1>2, <4>1, <4>2 DEF Audited, InOrder, OfRun, Whole, Told
      <3> QED
        BY <3>2, <3>3
    <2>2. CASE StartItems(r)
      <3>1. /\ stage'[r] = "item" /\ replies'[r] = << >> /\ at[r] = 1 /\ replies' = replies
        BY <1>1, <2>2 DEF StartItems, Fine, Placed, TypeOK
      <3>2. Due(r, 0) = {} /\ Cardinality(Due(r, 0)) = 0 /\ Len(<< >>) = 0
        BY DueNone, EmptySeq
      <3>3. Matched(r)'
        BY <1>2, <3>1, <3>2 DEF Matched, Matches, Due, Items
      <3>4. Completed(r)'
        BY <3>1 DEF Completed
      <3>5. Audited(r)'
        BY <1>1, <1>2, <3>1, AuditedKept DEF Fine
      <3> QED
        BY <3>3, <3>4, <3>5
    <2>3. CASE FinishBody(r)
      <3>1. /\ stage[r] = "item" /\ stage'[r] = "done" /\ replies' = replies
            /\ at[r] > Len(Items(r))
            /\ answer'[r] = IF replies[r] = << >> THEN 204 ELSE 200
        BY <1>1, <2>3 DEF FinishBody, Answer, TypeOK
      <3>2. at[r] - 1 = Len(Items(r)) /\ Len(Items(r)) \in Nat /\ Items(r) # << >>
        <4>1. at[r] \in Nat /\ Len(Items(r)) \in Nat
          BY <1>1, ItemsFacts DEF TypeOK
        <4>2. at[r] <= Len(Items(r)) + 1 /\ Items(r) # << >>
          BY <1>1, <3>1 DEF Fine, Placed
        <4> QED
          BY <3>1, <4>1, <4>2
      <3>3. Matches(r, Len(Items(r)))
        BY <1>1, <3>1, <3>2 DEF Fine, Matched
      <3>4. (answer'[r] = 204) <=> (Due(r, Len(Items(r))) = {})
        <4>1. IsFiniteSet(Due(r, Len(Items(r))))
          BY <3>2, DueFinite
        <4>2. (Due(r, Len(Items(r))) = {}) <=> (Cardinality(Due(r, Len(Items(r)))) = 0)
          BY <4>1, FS_EmptySet
        <4>3. (replies[r] = << >>) <=> (Len(replies[r]) = 0)
          BY <1>1, EmptySeq DEF TypeOK
        <4> QED
          BY <3>1, <3>3, <4>2, <4>3 DEF Matches
      <3>5. Matched(r)'
        BY <3>1 DEF Matched
      <3>6. Completed(r)'
        <4>1. /\ Len(replies[r]) = Cardinality(Due(r, Len(Items(r))))
              /\ \A k \in Due(r, Len(Items(r))) :
                    replies[r][Cardinality(Due(r, k))].id = IdFor(Items(r)[k])
          BY <3>3 DEF Matches
        <4>2. Matches(r, Len(Items(r)))'
          BY <1>2, <3>1, <4>1 DEF Matches, Items, Due
        <4>3. (Items(r) # << >>)'
          BY <1>2, <3>2 DEF Items
        <4>4. ((answer[r] = 204) <=> (Due(r, Len(Items(r))) = {}))'
          BY <1>2, <3>4 DEF Items, Due
        <4> QED
          BY <4>2, <4>3, <4>4 DEF Completed
      <3>7. Audited(r)'
        BY <1>1, <1>2, <3>1, AuditedKept DEF Fine
      <3> QED
        BY <3>5, <3>6, <3>7
    <2> QED
      BY <2>1, <2>2, <2>3
  <1>7. Counted' /\ \A q \in Requests \ {r} : Untouched(q)
    BY <1>1, <1>2, CountKept DEF Untouched
  <1>8. Fine(r)'
    BY <1>3, <1>4, <1>5, <1>6 DEF Fine
  <1> QED
    BY <1>1, <1>2, <1>7, <1>8, StepOfOne

-----------------------------------------------------------------------------
(***************************************************************************)
(* The items of a batch.                                                   *)
(***************************************************************************)

\* What the client was told, after a step that leaves the batch as it is.
LEMMA ToldNext ==
  ASSUME NEW r, UNCHANGED req,
         \A k \in DOMAIN audit'[r] :
            Answerable(Items(r)[audit'[r][k].at]) =>
               replies'[r][Cardinality(Due(r, audit'[r][k].at))].ok = audit'[r][k].ok
  PROVE  Told(r)'
  BY DEF Told, Items, Due

\* An item that is done is in the audit if it ran, with the outcome of its response.
LEMMA Recorded ==
  ASSUME TypeOK, NEW r \in Requests, Placed(r), Audited(r), UNCHANGED req,
         at[r] <= Len(Items(r)), at'[r] = at[r] + 1,
         ran[r] \subseteq ran'[r], ran'[r] \subseteq ran[r] \cup {at[r]},
         NEW ok \in BOOLEAN,
         \A k \in Due(r, at[r] - 1) :
            replies'[r][Cardinality(Due(r, k))] = replies[r][Cardinality(Due(r, k))],
         Answerable(Item(r)) => replies'[r][Cardinality(Due(r, at[r]))].ok = ok,
         \/ audit'[r] = audit[r] /\ (at[r] \notin ran'[r] \/ SkipsAudit(Item(r)))
         \/ audit'[r] = Append(audit[r], [at |-> at[r], ok |-> ok]) /\ at[r] \in ran'[r]
  PROVE  Audited(r)' /\ \A k \in DOMAIN audit'[r] : audit'[r][k].at < at'[r]
  <1> DEFINE n == at[r]
             e == [at |-> n, ok |-> ok]
  <1>1. n \in Nat \ {0} /\ audit[r] \in Seq(Events) /\ e \in Events /\ Len(audit[r]) \in Nat
    BY DEF TypeOK, Events
  <1>2. \A k \in DOMAIN audit[r] : audit[r][k] \in Events /\ audit[r][k].at \in Nat
    <2>1. \A k \in 1..Len(audit[r]) : audit[r][k] \in Events
      BY <1>1, ElementOfSeq
    <2> QED
      BY <1>1, <2>1 DEF Events
  <1>3. DOMAIN audit[r] = 1..Len(audit[r])
    BY <1>1
  <1>4. \A k \in DOMAIN audit[r] : audit[r][k].at < n /\ audit[r][k].at \in ran[r]
    BY DEF Placed, Audited, OfRun
  <1>5. \A k \in DOMAIN audit[r] :
           Answerable(Items(r)[audit[r][k].at]) =>
              replies'[r][Cardinality(Due(r, audit[r][k].at))].ok = audit[r][k].ok
    <2> SUFFICES ASSUME NEW k \in DOMAIN audit[r], Answerable(Items(r)[audit[r][k].at])
                 PROVE  replies'[r][Cardinality(Due(r, audit[r][k].at))].ok = audit[r][k].ok
      OBVIOUS
    <2>1. audit[r][k].at \in 1..(n - 1)
      <3>1. audit[r][k].at \in 1..Len(Items(r)) /\ audit[r][k].at < n
        BY <1>4 DEF Placed
      <3> QED
        BY <1>1, <3>1
    <2>2. audit[r][k].at \in Due(r, n - 1)
      BY <2>1 DEF Due
    <2> QED
      BY <2>2 DEF Audited, Told
  <1>6. Item(r) = Items(r)[n]
    BY DEF Item
  <1>7. CASE audit'[r] = audit[r] /\ (n \notin ran'[r] \/ SkipsAudit(Item(r)))
    <2>1. \A i \in ran'[r] : (i < n + 1 /\ ~SkipsAudit(Items(r)[i])) => i \in ran[r] /\ i < n
      <3>1. \A i \in ran[r] : i \in Nat /\ i <= n
        BY <1>1 DEF Placed, TypeOK
      <3> QED
        BY <1>1, <1>6, <1>7, <3>1
    <2>2. \A i \in ran'[r] : (i < n + 1 /\ ~SkipsAudit(Items(r)[i])) =>
              \E k \in DOMAIN audit[r] : audit[r][k].at = i
      BY <2>1 DEF Audited, Whole
    <2>3. \A k \in DOMAIN audit[r] : audit[r][k].at < n + 1
      BY <1>1, <1>2, <1>4
    <2>4. Audited(r)'
      <3>1. InOrder(r)'
        BY <1>7 DEF Audited, InOrder
      <3>2. OfRun(r)'
        BY <1>4, <1>7 DEF OfRun
      <3>3. Whole(r)'
        BY <1>7, <2>2 DEF Whole, Items
      <3>4. Told(r)'
        BY <1>5, <1>7, ToldNext
      <3> QED
        BY <3>1, <3>2, <3>3, <3>4 DEF Audited
    <2> QED
      BY <1>7, <2>3, <2>4
  <1>8. CASE audit'[r] = Append(audit[r], e) /\ n \in ran'[r]
    <2> DEFINE m == Len(audit[r]) + 1
    <2>1. /\ DOMAIN audit'[r] = DOMAIN audit[r] \cup {m}
          /\ \A k \in DOMAIN audit[r] : audit'[r][k] = audit[r][k]
          /\ audit'[r][m] = e
      BY <1>1, <1>3, <1>8, AppendProperties
    <2>2. \A k \in DOMAIN audit[r] : k \in Nat /\ k < m
      BY <1>1, <1>3
    <2> HIDE DEF m
    <2>3. \A j, k \in DOMAIN audit'[r] : j < k => audit'[r][j].at < audit'[r][k].at
      <3> SUFFICES ASSUME NEW j \in DOMAIN audit'[r], NEW k \in DOMAIN audit'[r], j < k
                   PROVE  audit'[r][j].at < audit'[r][k].at
        OBVIOUS
      <3>1. j \in DOMAIN audit[r]
        <4>1. m \in Nat
          BY <1>1 DEF m
        <4> QED
          BY <2>1, <2>2, <4>1
      <3>2. CASE k \in DOMAIN audit[r]
        BY <2>1, <3>1, <3>2 DEF Audited, InOrder
      <3>3. CASE k = m
        BY <1>4, <2>1, <3>1, <3>3
      <3> QED
        BY <2>1, <3>2, <3>3
    <2>4. \A k \in DOMAIN audit'[r] : audit'[r][k].at \in ran'[r]
      BY <1>4, <1>8, <2>1
    <2>5. \A i \in ran'[r] : (i < n + 1 /\ ~SkipsAudit(Items(r)[i])) =>
              \E k \in DOMAIN audit'[r] : audit'[r][k].at = i
      <3> SUFFICES ASSUME NEW i \in ran'[r], ~SkipsAudit(Items(r)[i])
                   PROVE  \E k \in DOMAIN audit'[r] : audit'[r][k].at = i
        OBVIOUS
      <3>1. CASE i = n
        BY <2>1, <3>1
      <3>2. CASE i # n
        <4>1. i \in ran[r] /\ i < n
          <5>1. i \in ran[r]
            BY <3>2
          <5>2. i \in Nat /\ i <= n
            BY <5>1, <1>1 DEF Placed, TypeOK
          <5> QED
            BY <1>1, <3>2, <5>1, <5>2
        <4>2. PICK k \in DOMAIN audit[r] : audit[r][k].at = i
          BY <4>1 DEF Audited, Whole
        <4> QED
          BY <2>1, <4>2
      <3> QED
        BY <3>1, <3>2
    <2>6. \A k \in DOMAIN audit'[r] :
             Answerable(Items(r)[audit'[r][k].at]) =>
                replies'[r][Cardinality(Due(r, audit'[r][k].at))].ok = audit'[r][k].ok
      <3>1. \A k \in DOMAIN audit[r] :
               Answerable(Items(r)[audit'[r][k].at]) =>
                  replies'[r][Cardinality(Due(r, audit'[r][k].at))].ok = audit'[r][k].ok
        BY <1>5, <2>1
      <3>2. Answerable(Items(r)[audit'[r][m].at]) =>
               replies'[r][Cardinality(Due(r, audit'[r][m].at))].ok = audit'[r][m].ok
        BY <1>6, <2>1
      <3> QED
        BY <2>1, <3>1, <3>2
    <2>7. \A k \in DOMAIN audit'[r] : audit'[r][k].at < n + 1
      BY <1>1, <1>2, <1>4, <2>1
    <2>8. Audited(r)'
      <3>1. InOrder(r)' /\ OfRun(r)'
        BY <2>3, <2>4 DEF InOrder, OfRun
      <3>2. Whole(r)'
        BY <2>5 DEF Whole, Items
      <3>3. Told(r)'
        BY <2>6, ToldNext
      <3> QED
        BY <3>1, <3>2, <3>3 DEF Audited
    <2> QED
      BY <2>7, <2>8
  <1> QED
    BY <1>7, <1>8

\* When an item is done its response has its place, and the next item is in hand.
LEMMA ItemDone ==
  ASSUME IInv, TypeOK', NEW r \in Requests,
         UNCHANGED << pc, grants, req, answer, called >>,
         \A q \in Requests \ {r} : Untouched(q),
         stage[r] \in {"item", "wait"}, stage'[r] = "item",
         at[r] <= Len(Items(r)), at'[r] = at[r] + 1,
         NEW a \in Responses, Answerable(Item(r)) => a.id = IdFor(Item(r)),
         replies'[r] = IF Answerable(Item(r)) THEN Append(replies[r], a) ELSE replies[r],
         \/ ran'[r] = ran[r]
         \/ ran'[r] = ran[r] \cup {at[r]} /\ Disposition(Item(r)) = "dispatch",
         \/ audit'[r] = audit[r] /\ (at[r] \notin ran'[r] \/ SkipsAudit(Item(r)))
         \/ audit'[r] = Append(audit[r], [at |-> at[r], ok |-> a.ok]) /\ at[r] \in ran'[r]
  PROVE  IInv'
  <1>1. TypeOK /\ Fine(r) /\ Counted
    BY DEF IInv
  <1>2. /\ at[r] \in Nat \ {0} /\ Len(Items(r)) \in Nat /\ at[r] \in 1..Len(Items(r))
        /\ ran[r] \subseteq Nat /\ a.ok \in BOOLEAN
    <2>1. at[r] \in Nat \ {0} /\ ran[r] \subseteq Nat
      BY <1>1 DEF TypeOK
    <2>3. Len(Items(r)) \in Nat
      BY <1>1, ItemsFacts
    <2>2. a.ok \in BOOLEAN
      BY DEF Responses
    <2> QED
      BY <2>1, <2>2, <2>3
  <1>3. Item(r) \in Messages /\ Item(r) = Items(r)[at[r]]
    BY <1>1, <1>2, ItemsFacts DEF Item
  <1>4. Matches(r, at[r] - 1)
    BY <1>1 DEF Fine, Matched
  <1>5. /\ Len(replies'[r]) = Cardinality(Due(r, at[r]))
        /\ \A k \in Due(r, at[r]) :
              replies'[r][Cardinality(Due(r, k))].id = IdFor(Items(r)[k])
        /\ \A k \in Due(r, at[r] - 1) :
              replies'[r][Cardinality(Due(r, k))] = replies[r][Cardinality(Due(r, k))]
        /\ Answerable(Item(r)) => replies'[r][Cardinality(Due(r, at[r]))] = a
    BY <1>1, <1>4, Responded
  <1>6. Matched(r)'
    <2>1. at'[r] - 1 = at[r]
      BY <1>2
    <2> QED
      BY <1>5, <2>1 DEF Matched, Matches, Due, Items
  <1>7. Completed(r)'
    BY DEF Completed
  <1>8. Proper(r)'
    <2>1. Proper(r)
      BY <1>1 DEF Fine
    <2>2. CASE ran'[r] = ran[r]
      BY <2>1, <2>2 DEF Proper, Items
    <2>3. CASE ran'[r] = ran[r] \cup {at[r]} /\ Disposition(Item(r)) = "dispatch"
      <3>1. Item(r).object /\ Item(r).form = "call" /\ Item(r).method # "" /\ Item(r).id # Bad
        BY <1>3, <2>3, DispositionFacts
      <3> QED
        BY <1>3, <2>1, <2>3, <3>1 DEF Proper, Items
    <2> QED
      BY <2>2, <2>3
  <1>9. ran[r] \subseteq ran'[r] /\ ran'[r] \subseteq ran[r] \cup {at[r]}
    OBVIOUS
  <1>10. Audited(r)' /\ \A k \in DOMAIN audit'[r] : audit'[r][k].at < at'[r]
    <2>1. Placed(r) /\ Audited(r)
      BY <1>1 DEF Fine
    <2>2. Answerable(Item(r)) => replies'[r][Cardinality(Due(r, at[r]))].ok = a.ok
      BY <1>5
    <2>3. \A k \in Due(r, at[r] - 1) :
             replies'[r][Cardinality(Due(r, k))] = replies[r][Cardinality(Due(r, k))]
      BY <1>5
    <2> QED
      BY <1>1, <1>2, <1>9, <2>1, <2>2, <2>3, Recorded
  <1>11. Placed(r)'
    <2>1. Placed(r)
      BY <1>1 DEF Fine
    <2>2. \A i \in ran'[r] : i \in 1..Len(Items(r)) /\ i <= at[r] + 1 /\ i # at[r] + 1
      <3>1. \A i \in ran[r] : i \in Nat /\ i \in 1..Len(Items(r)) /\ i <= at[r]
        BY <1>2, <2>1 DEF Placed
      <3> QED
        BY <1>2, <1>9, <3>1
    <2>3. at[r] + 1 <= Len(Items(r)) + 1
      BY <1>2
    <2>4. req[r].body.json /\ Items(r) # << >>
      BY <2>1 DEF Placed
    <2>5. at[r] + 1 \notin ran'[r]
      BY <2>2
    <2> QED
      BY <1>10, <2>2, <2>3, <2>4, <2>5 DEF Placed, Items
  <1>12. Charged(r)'
    <2>1. Charged(r)
      BY <1>1 DEF Fine
    <2>2. pc[r] = "admitted" /\ Authorized(r) /\ (answer[r] # 0 => answer[r] = 429)
      BY <2>1 DEF Charged
    <2> QED
      BY <2>2 DEF Charged, Authorized
  <1>13. Fine(r)'
    BY <1>6, <1>7, <1>8, <1>10, <1>11, <1>12 DEF Fine
  <1> QED
    BY <1>1, <1>13, CountKept, StepOfOne

\* An item in hand is a message, and it has not run.
LEMMA InHand ==
  ASSUME IInv, NEW r \in Requests, Working(r)
  PROVE  Item(r) \in Messages /\ at[r] \notin ran[r]
  <1>1. Item(r) \in Messages
    BY ItemTyped DEF IInv, Working
  <1>2. at[r] \notin ran[r]
    BY DEF IInv, Fine, Placed, Working
  <1> QED
    BY <1>1, <1>2

\* An item that is refused is answered and does not run.
LEMMA RejectStep ==
  ASSUME IInv, NEW r \in Requests, RejectItem(r)
  PROVE  IInv'
  <1>1. TypeOK /\ TypeOK' /\ Item(r) \in Messages /\ at[r] \notin ran[r]
    BY WorkTyped, InHand DEF IInv, RejectItem
  <1> DEFINE a == Failure(Item(r))
  <1>2. a \in Responses /\ a.id = IdFor(Item(r)) /\ Answerable(Item(r))
    BY <1>1, ResponseTypes, DispositionFacts DEF RejectItem
  <1>3. /\ UNCHANGED << pc, grants, req, answer, called, stage, ran, audit >>
        /\ stage[r] = "item" /\ at[r] <= Len(Items(r)) /\ at'[r] = at[r] + 1
        /\ replies'[r] = Append(replies[r], a)
    BY <1>1 DEF RejectItem, Working, TypeOK, limiterVars
  <1>4. \A q \in Requests \ {r} : Untouched(q)
    BY <1>1 DEF RejectItem, Untouched, TypeOK, limiterVars
  <1> HIDE DEF a
  <1> QED
    BY <1>1, <1>2, <1>3, <1>4, ItemDone

\* A notification without a method leaves nothing behind.
LEMMA IgnoreStep ==
  ASSUME IInv, NEW r \in Requests, IgnoreItem(r)
  PROVE  IInv'
  <1>1. TypeOK /\ TypeOK' /\ Item(r) \in Messages /\ at[r] \notin ran[r]
    BY WorkTyped, InHand DEF IInv, IgnoreItem
  <1>2. ~Answerable(Item(r)) /\ NullError \in Responses
    BY <1>1, NullTyped, DispositionFacts DEF IgnoreItem
  <1>3. /\ UNCHANGED << pc, grants, req, answer, called, stage, ran, audit, replies >>
        /\ stage[r] = "item" /\ at[r] <= Len(Items(r)) /\ at'[r] = at[r] + 1
    BY <1>1 DEF IgnoreItem, Working, TypeOK, limiterVars
  <1>4. \A q \in Requests \ {r} : Untouched(q)
    BY <1>1 DEF IgnoreItem, Untouched, TypeOK, limiterVars
  <1> QED
    BY <1>1, <1>2, <1>3, <1>4, ItemDone

\* The response and the audit event of an item that ran.
LEMMA Outcome ==
  ASSUME TypeOK, NEW r \in Requests, Item(r) \in Messages, Disposition(Item(r)) = "dispatch",
         NEW ok \in BOOLEAN, replies' = Reply(r, ok), audit' = Audit(r, ok)
  PROVE  \E a \in Responses :
            /\ a.ok = ok /\ a.id = IdFor(Item(r))
            /\ replies'[r] = IF Answerable(Item(r)) THEN Append(replies[r], a) ELSE replies[r]
            /\ \/ audit'[r] = audit[r] /\ SkipsAudit(Item(r))
               \/ audit'[r] = Append(audit[r], [at |-> at[r], ok |-> ok])
            /\ \A q \in Requests \ {r} : replies'[q] = replies[q] /\ audit'[q] = audit[q]
  <1> DEFINE a == IF ok THEN Success(Item(r)) ELSE Failure(Item(r))
  <1>1. a \in Responses /\ a.ok = ok
    BY ResponseTypes DEF Success, Failure
  <1>2. (RepliesTo(Item(r)) <=> Answerable(Item(r))) /\ a.id = IdFor(Item(r))
    BY DispositionFacts
  <1>3. replies' = IF ~ RepliesTo(Item(r)) THEN replies
                   ELSE [replies EXCEPT ![r] = Append(@, a)]
    BY DEF Reply
  <1> HIDE DEF a
  <1>4. /\ replies'[r] = IF Answerable(Item(r)) THEN Append(replies[r], a) ELSE replies[r]
        /\ \A q \in Requests \ {r} : replies'[q] = replies[q]
    BY <1>2, <1>3 DEF TypeOK
  <1>5. /\ \/ audit'[r] = audit[r] /\ SkipsAudit(Item(r))
           \/ audit'[r] = Append(audit[r], [at |-> at[r], ok |-> ok])
        /\ \A q \in Requests \ {r} : audit'[q] = audit[q]
    BY DEF Audit, TypeOK
  <1> QED
    BY <1>1, <1>2, <1>4, <1>5

\* An item that runs at once is answered and audited in the same step.
LEMMA RunStep ==
  ASSUME IInv, NEW r \in Requests, RunItem(r)
  PROVE  IInv'
  <1>1. TypeOK /\ TypeOK' /\ Item(r) \in Messages /\ at[r] \notin ran[r]
    BY WorkTyped, InHand DEF IInv, RunItem
  <1>2. Succeeds(Item(r)) \in BOOLEAN /\ Disposition(Item(r)) = "dispatch"
    BY <1>1, SucceedsBoolean DEF RunItem
  <1> DEFINE ok == Succeeds(Item(r))
  <1>3. replies' = Reply(r, ok) /\ audit' = Audit(r, ok)
    BY DEF RunItem
  <1> HIDE DEF ok
  <1>4. PICK a \in Responses :
            /\ a.ok = ok /\ a.id = IdFor(Item(r))
            /\ replies'[r] = IF Answerable(Item(r)) THEN Append(replies[r], a) ELSE replies[r]
            /\ \/ audit'[r] = audit[r] /\ SkipsAudit(Item(r))
               \/ audit'[r] = Append(audit[r], [at |-> at[r], ok |-> ok])
            /\ \A q \in Requests \ {r} : replies'[q] = replies[q] /\ audit'[q] = audit[q]
    BY <1>1, <1>2, <1>3, Outcome DEF ok
  <1>5. /\ UNCHANGED << pc, grants, req, answer, called, stage >>
        /\ stage[r] = "item" /\ at[r] <= Len(Items(r)) /\ at'[r] = at[r] + 1
        /\ ran'[r] = ran[r] \cup {at[r]}
        /\ \A q \in Requests \ {r} : at'[q] = at[q] /\ ran'[q] = ran[q]
    BY <1>1 DEF RunItem, Working, TypeOK, limiterVars
  <1>6. \A q \in Requests \ {r} : Untouched(q)
    BY <1>4, <1>5 DEF Untouched
  <1>7. at[r] \in ran'[r]
    BY <1>5
  <1> QED
    BY <1>1, <1>2, <1>4, <1>5, <1>6, <1>7, ItemDone

\* So is an item whose provider call returned.
LEMMA ReturnStep ==
  ASSUME IInv, NEW r \in Requests, NEW ok \in BOOLEAN, ProviderReturn(r, ok)
  PROVE  IInv'
  <1>1. TypeOK /\ Placed(r) /\ stage[r] = "wait"
    BY DEF IInv, Fine, ProviderReturn
  <1>2. at[r] \in ran[r] /\ at[r] <= Len(Items(r)) /\ Disposition(Item(r)) = "dispatch"
    <2>1. at[r] \in ran[r] /\ Disposition(Item(r)) = "dispatch" /\ at[r] \in 1..Len(Items(r))
      BY <1>1 DEF Placed
    <2>2. Len(Items(r)) \in Nat
      BY <1>1, ItemsFacts
    <2> QED
      BY <2>1, <2>2
  <1>3. TypeOK' /\ Item(r) \in Messages
    BY <1>1, <1>2, WorkTyped, ItemTyped
  <1>4. PICK a \in Responses :
            /\ a.ok = ok /\ a.id = IdFor(Item(r))
            /\ replies'[r] = IF Answerable(Item(r)) THEN Append(replies[r], a) ELSE replies[r]
            /\ \/ audit'[r] = audit[r] /\ SkipsAudit(Item(r))
               \/ audit'[r] = Append(audit[r], [at |-> at[r], ok |-> ok])
            /\ \A q \in Requests \ {r} : replies'[q] = replies[q] /\ audit'[q] = audit[q]
    BY <1>1, <1>2, <1>3, Outcome DEF ProviderReturn
  <1>5. /\ UNCHANGED << pc, grants, req, answer, called, ran >>
        /\ stage'[r] = "item" /\ at'[r] = at[r] + 1
        /\ \A q \in Requests \ {r} : at'[q] = at[q] /\ stage'[q] = stage[q]
    BY <1>1 DEF ProviderReturn, TypeOK, limiterVars
  <1>6. \A q \in Requests \ {r} : Untouched(q)
    BY <1>4, <1>5 DEF Untouched
  <1> QED
    BY <1>1, <1>2, <1>3, <1>4, <1>5, <1>6, ItemDone

\* An item that waits for a provider has run, and what it has to wait for changes nothing.
LEMMA CallStep ==
  ASSUME IInv, NEW r \in Requests, CallProvider(r) \/ CallAgain(r)
  PROVE  IInv'
  <1>1. TypeOK /\ TypeOK' /\ Fine(r) /\ Counted
    BY WorkTyped DEF IInv
  <1>2. /\ UNCHANGED << pc, grants, req, answer, at, replies, audit >>
        /\ stage'[r] = "wait"
        /\ \A q \in Requests \ {r} : UNCHANGED << stage[q], ran[q], called[q] >>
    <2>1. CASE CallProvider(r)
      BY <1>1, <2>1 DEF CallProvider, TypeOK, limiterVars
    <2>2. CASE CallAgain(r)
      BY <1>1, <2>2 DEF CallAgain, TypeOK, limiterVars
    <2> QED
      BY <2>1, <2>2
  <1>3. /\ ran'[r] = ran[r] \cup {at[r]} /\ stage[r] \in {"item", "wait"}
        /\ at[r] \in 1..Len(Items(r)) /\ Disposition(Item(r)) = "dispatch"
    <2>1. CASE CallProvider(r)
      <3>1. at[r] \in Nat \ {0} /\ Len(Items(r)) \in Nat
        BY <1>1, ItemsFacts DEF TypeOK
      <3> QED
        <4>1. /\ stage[r] = "item" /\ at[r] <= Len(Items(r))
              /\ Disposition(Item(r)) = "dispatch"
              /\ ran' = [ran EXCEPT ![r] = @ \cup {at[r]}]
          BY <2>1 DEF CallProvider, Working
        <4>2. ran'[r] = ran[r] \cup {at[r]}
          BY <1>1, <4>1 DEF TypeOK
        <4> QED
          BY <3>1, <4>1, <4>2
    <2>2. CASE CallAgain(r)
      <3>1. stage[r] = "wait" /\ ran' = ran
        BY <2>2 DEF CallAgain
      <3> QED
        BY <1>1, <3>1 DEF Fine, Placed
    <2> QED
      BY <2>1, <2>2
  <1>4. Item(r) \in Messages /\ Item(r) = Items(r)[at[r]] /\ at[r] \in Nat /\ Len(Items(r)) \in Nat
    <2>1. Len(Items(r)) \in Nat /\ \A i \in 1..Len(Items(r)) : Items(r)[i] \in Messages
      BY <1>1, ItemsFacts
    <2> QED
      BY <1>3, <2>1 DEF Item
  <1>5. Charged(r)'
    <2>1. pc[r] = "admitted" /\ Authorized(r) /\ (answer[r] # 0 => answer[r] = 429)
      BY <1>1, <1>3 DEF Fine, Charged
    <2> QED
      BY <1>2, <2>1 DEF Charged, Authorized
  <1>6. Placed(r)'
    <2>1. /\ req[r].body.json /\ Items(r) # << >> /\ at[r] <= Len(Items(r)) + 1
          /\ \A i \in ran[r] : i \in 1..Len(Items(r)) /\ i <= at[r]
          /\ \A k \in DOMAIN audit[r] : audit[r][k].at < at[r]
      BY <1>1, <1>3 DEF Fine, Placed
    <2>2. \A i \in ran'[r] : i \in 1..Len(Items(r)) /\ i <= at[r]
      BY <1>3, <1>4, <2>1
    <2> QED
      BY <1>2, <1>3, <2>1, <2>2 DEF Placed, Items, Item
  <1>7. Matched(r)' /\ Completed(r)'
    <2>1. Matches(r, at[r] - 1)
      BY <1>1, <1>3 DEF Fine, Matched
    <2> QED
      BY <1>2, <2>1 DEF Matched, Completed, Matches, Due, Items
  <1>8. Proper(r)'
    <2>1. Item(r).object /\ Item(r).form = "call" /\ Item(r).method # "" /\ Item(r).id # Bad
      BY <1>3, <1>4, DispositionFacts
    <2> QED
      BY <1>1, <1>2, <1>3, <1>4, <2>1 DEF Fine, Proper, Items
  <1>9. Audited(r)'
    <2>1. \A i \in ran'[r] : i < at[r] => i \in ran[r]
      BY <1>3, <1>4
    <2>2. Audited(r)
      BY <1>1 DEF Fine
    <2> QED
      BY <1>2, <1>3, <2>1, <2>2, AuditedKept
  <1>10. Counted' /\ \A q \in Requests \ {r} : Untouched(q)
    BY <1>1, <1>2, CountKept DEF Untouched
  <1>11. Fine(r)'
    BY <1>5, <1>6, <1>7, <1>8, <1>9 DEF Fine
  <1> QED
    BY <1>1, <1>2, <1>10, <1>11, StepOfOne

-----------------------------------------------------------------------------
(***************************************************************************)
(* The theorems.                                                           *)
(***************************************************************************)

\* The invariant holds before anything has come in.
LEMMA InitInvariant == Init => IInv
  <1> SUFFICES ASSUME Init PROVE IInv
    OBVIOUS
  <1>1. TypeOK
    BY InitTyped
  <1>2. Counted
    <2>1. AllAdmitted = {} /\ grants = << >>
      BY DEF AllAdmitted, Init, Limiter!Init
    <2> QED
      BY <2>1, FS_EmptySet, EmptySeq DEF Counted
  <1>3. ASSUME NEW r \in Requests PROVE Fine(r)
    <2>1. /\ stage[r] = "route" /\ answer[r] = 0 /\ called[r] = 0 /\ ran[r] = {} /\ at[r] = 1
          /\ replies[r] = << >> /\ audit[r] = << >>
      BY DEF Init
    <2>2. Charged(r) /\ Matched(r) /\ Completed(r) /\ Proper(r)
      BY <2>1 DEF Charged, Matched, Completed, Proper
    <2>3. DOMAIN audit[r] = {}
      BY <2>1
    <2>4. Placed(r)
      <3>1. Len(Items(r)) \in Nat
        BY <1>1, ItemsFacts
      <3> QED
        BY <2>1, <2>3, <3>1 DEF Placed
    <2>5. Audited(r)
      BY <2>1, <2>3 DEF Audited, InOrder, OfRun, Whole, Told
    <2> QED
      BY <2>2, <2>4, <2>5 DEF Fine
  <1> QED
    BY <1>1, <1>2, <1>3 DEF IInv

\* Every step keeps it.
LEMMA NextInvariant == IInv /\ [Next]_vars => IInv'
  <1> SUFFICES ASSUME IInv, [Next]_vars PROVE IInv'
    OBVIOUS
  <1>1. CASE Tick
    <2>1. TypeOK'
      BY <1>1, LimitTyped DEF IInv
    <2>2. UNCHANGED << pc, grants, req, stage, at, replies, answer, ran, called, audit >>
      BY <1>1 DEF Tick, Limiter!Tick, serviceVars
    <2>3. Counted' /\ \A q \in Requests : Untouched(q)
      BY <2>2, CountKept DEF IInv, Untouched
    <2>4. \A q \in Requests : Fine(q)'
      BY <2>2, <2>3, FineKept DEF IInv
    <2> QED
      BY <2>1, <2>3, <2>4 DEF IInv
  <1>2. ASSUME NEW r \in Requests, Serve(r) PROVE IInv'
    BY <1>2, LimitStep, RouteStep, BodyStep, RejectStep, IgnoreStep, RunStep, ReturnStep, CallStep
       DEF Serve
  <1>3. ASSUME NEW r \in Requests, HangUp(r) PROVE IInv'
    BY <1>3, RouteStep
  <1>4. CASE UNCHANGED vars
    <2>1. UNCHANGED << now, tokens, lastRefill, pc, sample, retryAfter, grants, passed, refusal, req,
                       stage, at, left, replies, answer, ran, called, audit >>
      BY <1>4 DEF vars, limiterVars, serviceVars
    <2>2. TypeOK'
      BY <2>1 DEF IInv, TypeOK
    <2>3. Counted' /\ \A q \in Requests : Untouched(q)
      BY <2>1, CountKept DEF IInv, Untouched
    <2>4. \A q \in Requests : Fine(q)'
      BY <2>1, <2>3, FineKept DEF IInv
    <2> QED
      BY <2>2, <2>3, <2>4 DEF IInv
  <1> QED
    BY <1>1, <1>2, <1>3, <1>4 DEF Next, Rest

\* So it always holds.
LEMMA Invariance == Spec => []IInv
  BY InitInvariant, NextInvariant, PTL DEF Spec

\* Host work is done for requests that were charged and bear the right token, and every
\* request that is over without having been refused has been charged for.
THEOREM PaidFor == Spec => []WorkIsPaidFor
  <1>1. IInv => WorkIsPaidFor
    <2> SUFFICES ASSUME IInv PROVE WorkIsPaidFor
      OBVIOUS
    <2>1. \A r \in Requests :
             (called[r] > 0 \/ ran[r] # {}) => (pc[r] = "admitted" /\ req[r].token = "right")
      <3> SUFFICES ASSUME NEW r \in Requests, called[r] > 0 \/ ran[r] # {}
                   PROVE  pc[r] = "admitted" /\ req[r].token = "right"
        OBVIOUS
      <3>1. called[r] \in Nat /\ Charged(r)
        BY DEF IInv, TypeOK, Fine
      <3> QED
        BY <3>1 DEF Charged, Authorized
    <2> DEFINE Served == {r \in Requests : Over(r) /\ answer[r] # 429}
    <2>2. Served \subseteq AllAdmitted
      BY DEF IInv, Fine, Charged, Over, AllAdmitted
    <2>3. IsFiniteSet(AllAdmitted)
      <3>1. AllAdmitted \subseteq Requests
        BY DEF AllAdmitted
      <3> QED
        BY <3>1, RequestsAssumption, FS_Subset
    <2>4. Cardinality(Served) <= Cardinality(AllAdmitted)
      BY <2>2, <2>3, FS_Subset
    <2> QED
      BY <2>1, <2>4 DEF IInv, Counted, WorkIsPaidFor
  <1> QED
    BY <1>1, Invariance, PTL

\* Nothing malformed is ever run, as a notification or otherwise.
THEOREM NothingMalformedRuns == Spec => []MalformedNeverRuns
  <1>1. IInv => MalformedNeverRuns
    BY DEF IInv, Fine, Proper, MalformedNeverRuns
  <1> QED
    BY <1>1, Invariance, PTL

\* A batch that ran to its end is answered item by item, in order.
THEOREM EachItemAnswered == Spec => []BatchIsAnswered
  <1>1. IInv => BatchIsAnswered
    BY DEF IInv, Fine, Completed, Matches, IdFor, BatchIsAnswered
  <1> QED
    BY <1>1, Invariance, PTL

\* The audit has what ran, once and in order, with the outcome the client was told.
THEOREM AuditAgrees == Spec => []AuditIsFaithful
  <1>1. IInv => AuditIsFaithful
    BY DEF IInv, Fine, Audited, InOrder, OfRun, Whole, Told, AuditIsFaithful
  <1> QED
    BY <1>1, Invariance, PTL

-----------------------------------------------------------------------------
(***************************************************************************)
(* The limiter within the service.                                         *)
(***************************************************************************)

\* What is proved of the limiter by itself.
LimiterProofs == INSTANCE RateLimiterProofs

\* They assume of policy and clock what the service is given.
LEMMA LimiterAssumptions == LimiterProofs!PolicyAssumption /\ LimiterProofs!ClockAssumption
  <1>1. /\ LimiterProofs!MAX_REQUESTS_PER_SECOND \in Int /\ LimiterProofs!MAX_BURST \in Int
        /\ LimiterProofs!MAX_REQUESTS_PER_SECOND = Limiter!MAX_REQUESTS_PER_SECOND
        /\ LimiterProofs!MAX_BURST = Limiter!MAX_BURST
    BY SMT DEF LimiterProofs!MAX_BURST, LimiterProofs!MAX_REQUESTS_PER_SECOND,
               Limiter!MAX_BURST, Limiter!MAX_REQUESTS_PER_SECOND
  <1> QED
    BY SMT, <1>1, LimiterAssumption
       DEF LimiterProofs!PolicyAssumption, LimiterProofs!ClockAssumption

\* They are about the limiter the service runs: the two instances are of one module.
LEMMA SameLimiter ==
  /\ Limiter!Init <=> LimiterProofs!Init
  /\ Limiter!Next <=> LimiterProofs!Next
  /\ (UNCHANGED Limiter!vars) <=> (UNCHANGED LimiterProofs!vars)
  /\ Limiter!WindowBound <=> LimiterProofs!WindowBound
  /\ Limiter!RetryAfterSuffices <=> LimiterProofs!RetryAfterSuffices
  <1>1. /\ Limiter!Capacity = LimiterProofs!Capacity
        /\ Limiter!NoRefusal = LimiterProofs!NoRefusal
        /\ \A t : Limiter!Elapsed(t) = LimiterProofs!Elapsed(t)
    BY DEF Limiter!Capacity, LimiterProofs!Capacity, Limiter!NoRefusal, LimiterProofs!NoRefusal,
           Limiter!Elapsed, LimiterProofs!Elapsed
  <1>2. /\ \A t : Limiter!Refilled(t) = LimiterProofs!Refilled(t)
        /\ \A t : Limiter!RefillTime(t) = LimiterProofs!RefillTime(t)
        /\ \A t : Limiter!RetrySeconds(t) = LimiterProofs!RetrySeconds(t)
    BY <1>1 DEF Limiter!Refilled, LimiterProofs!Refilled, Limiter!RefillTime,
                LimiterProofs!RefillTime, Limiter!RetrySeconds, LimiterProofs!RetrySeconds
  <1>3. Limiter!Init <=> LimiterProofs!Init
    BY <1>1 DEF Limiter!Init, LimiterProofs!Init
  <1>4. /\ \A p : Limiter!Check(p) <=> LimiterProofs!Check(p)
        /\ \A p : Limiter!Finish(p) <=> LimiterProofs!Finish(p)
        /\ Limiter!Tick <=> LimiterProofs!Tick
    BY <1>1 DEF Limiter!Check, LimiterProofs!Check, Limiter!Finish, LimiterProofs!Finish,
                Limiter!Tick, LimiterProofs!Tick
  <1>5. /\ \A p : Limiter!Admit(p) <=> LimiterProofs!Admit(p)
        /\ \A p : Limiter!Refuse(p) <=> LimiterProofs!Refuse(p)
    BY <1>2 DEF Limiter!Admit, LimiterProofs!Admit, Limiter!Refuse, LimiterProofs!Refuse
  <1>6. Limiter!Next <=> LimiterProofs!Next
    BY <1>4, <1>5 DEF Limiter!Next, LimiterProofs!Next
  <1>7. Limiter!WindowBound <=> LimiterProofs!WindowBound
    BY <1>1 DEF Limiter!WindowBound, LimiterProofs!WindowBound
  <1>8. Limiter!RetryAfterSuffices <=> LimiterProofs!RetryAfterSuffices
    BY <1>2 DEF Limiter!RetryAfterSuffices, LimiterProofs!RetryAfterSuffices
  <1> QED
    BY <1>3, <1>6, <1>7, <1>8 DEF Limiter!vars, LimiterProofs!vars

\* Every step of the service is a step of the limiter, or leaves it alone: nothing in a
\* request's life touches the bucket but its own check.
THEOREM LimiterRuns == Spec => Limiter!Spec
  <1>1. Init => Limiter!Init
    BY DEF Init
  <1>2. [Next]_vars => [Limiter!Next]_(Limiter!vars)
    <2> SUFFICES ASSUME [Next]_vars PROVE Limiter!Next \/ UNCHANGED limiterVars
      BY DEF Limiter!vars, limiterVars
    <2>1. CASE Tick
      BY <2>1 DEF Tick, Limiter!Next
    <2>2. ASSUME NEW r \in Requests, Serve(r) \/ HangUp(r)
          PROVE  Limiter!Next \/ UNCHANGED limiterVars
      <3>1. CASE Limit(r)
        BY <3>1 DEF Limit, Limiter!Next
      <3>2. CASE ~Limit(r)
        BY <2>2, <3>2
           DEF Serve, HangUp, Throttle, ServePublic, Unauthorized, Authenticate, StatusCall,
               StatusReturn, RejectBody, StartItems, RejectItem, IgnoreItem, RunItem,
               CallProvider, CallAgain, ProviderReturn, FinishBody
      <3> QED
        BY <3>1, <3>2
    <2>3. CASE UNCHANGED vars
      BY <2>3 DEF vars
    <2> QED
      BY <2>1, <2>2, <2>3 DEF Next, Rest
  <1> QED
    BY <1>1, <1>2, PTL DEF Spec, Limiter!Spec

\* So the proofs about the limiter hold of its part of the service.
LEMMA LimiterByItself == Spec => LimiterProofs!Spec
  BY LimiterRuns, SameLimiter, PTL DEF Limiter!Spec, LimiterProofs!Spec

\* Of all the requests that reach the server, whatever they ask, whatever becomes of them and
\* however their tasks interleave, no more get past the limiter one after the other than the
\* policy allows for the time from the first one's clock sample to the last one's passage.
THEOREM ServiceIsLimited == Spec => []Limiter!WindowBound
  <1>1. LimiterProofs!Spec => []LimiterProofs!WindowBound
    BY LimiterProofs!WindowBounded, LimiterAssumptions
       DEF LimiterProofs!PolicyAssumption, LimiterProofs!ClockAssumption
  <1> QED
    BY <1>1, LimiterByItself, SameLimiter, PTL

\* A client that was told Retry-After and waits that long finds a token, unless another
\* request was let through meanwhile.
THEOREM ServiceRetryTruthful == Spec => []Limiter!RetryAfterSuffices
  <1>1. LimiterProofs!Spec => []LimiterProofs!RetryAfterSuffices
    BY LimiterProofs!RetryTruthful, LimiterAssumptions
       DEF LimiterProofs!PolicyAssumption, LimiterProofs!ClockAssumption
  <1> QED
    BY <1>1, LimiterByItself, SameLimiter, PTL

-----------------------------------------------------------------------------
(***************************************************************************)
(* Startup, of the process that becomes this service: main takes the rate  *)
(* and the burst of the limiter from the configuration it parsed, and the  *)
(* parser's bounds are those of RateLimitPolicy::new.  For every           *)
(* environment and every limit, what is served is what was asked for       *)
(* (ServesAsAsked), nothing is served otherwise (FailsClosed), and a       *)
(* process that serves has a limiter of the kind assumed above.            *)
(*                                                                         *)
(* The environment is read once, and everything after that step works on   *)
(* config.  The invariant therefore ties config to the environment for as  *)
(* long as the process runs, Configured, and seen and port to the step the *)
(* process is at, BootOrdered.                                             *)
(***************************************************************************)

\* What Startup assumes of its constants.
LEMMA BootFacts ==
  /\ \A e \in Environments :
        /\ Text(e.token) => e.token.value \in Nat
        /\ Text(e.addr) => e.addr.value \in {Blank, Host, Malformed}
  /\ Unset \notin ConfigErrors /\ Loopback \notin {Blank, Host}
  /\ MinTokenLength \in Nat
  /\ DefaultRate \in 1 .. MaxRate /\ DefaultBurst \in 1 .. MaxBurst
  BY EnvironmentsAssumption, NamesAssumption, LimitsAssumption

\* What of the environment is text is what the parser gets, and nothing else is.
LEMMA RawFacts ==
  \A s \in {"token", "addr", "port", "rate", "burst"} :
      /\ Text(env[s]) => Raw[s] = env[s] /\ Raw[s] # Unset
      /\ ~Text(env[s]) => Raw[s] = Unset
  BY DEF Raw, Text

BootSteps == {"configure", "check", "build", "bind", "serving", "failed", "panicked"}

\* The shape of the state.
BootTypeOK ==
    /\ env \in Environments
    /\ phase \in BootSteps
    /\ systemd \in BOOLEAN /\ seen \in BOOLEAN
    /\ port \in {"free", "other", "server"}

\* The configuration an accepted environment stands for.
AskedFor ==
    [addr |-> IF Or(Raw.addr, Blank) = Blank THEN Loopback ELSE Raw.addr.value,
     port |-> Or(Raw.port, DefaultPort),
     rate |-> Or(Raw.rate, DefaultRate),
     burst |-> Or(Raw.burst, DefaultBurst)]

\* Past the parser there is a configuration, and it is the one asked for.
Configured ==
    (phase \in {"check", "build", "bind", "serving"}) =>
        (ConfigError = Unset /\ config = AskedFor)

\* What has been done before a step is reached, and what is only done by the last.
BootOrdered ==
    /\ (phase # "failed") => (error = Unset)
    /\ (phase \in {"build", "bind", "serving"}) => seen
    /\ (port = "server") => (phase = "serving")
    /\ phase # "panicked"

BootInv == BootTypeOK /\ Configured /\ BootOrdered

-----------------------------------------------------------------------------
\* What the parser accepts is what the limiter's policy accepts, defaults included.
LEMMA AcceptedFits ==
  ASSUME ConfigError = Unset
  PROVE  /\ AskedFor.rate \in 1 .. MaxRate
         /\ AskedFor.burst \in 1 .. MaxBurst
  <1>1. /\ Bounded(Raw.rate, MaxRate)
        /\ Bounded(Raw.burst, MaxBurst)
    BY BootFacts DEF ConfigError, ConfigErrors
  <1> QED
    BY <1>1, BootFacts DEF AskedFor, Or, Bounded

\* What the parser accepts makes sense.
LEMMA AcceptedMakesSense ==
  ASSUME ConfigError = Unset, env \in Environments
  PROVE  /\ Text(env.token) /\ env.token.value >= MinTokenLength
         /\ \A s \in {"port", "rate", "burst"} : Text(env[s]) => env[s].value # Malformed
         /\ (Text(env.addr) => env.addr.value = Blank) <=> (AskedFor.addr = Loopback)
  <1>1. /\ Raw.token # Unset /\ ~(Raw.token.value < MinTokenLength)
        /\ PortFits(Raw.port)
        /\ Bounded(Raw.rate, MaxRate)
        /\ Bounded(Raw.burst, MaxBurst)
        /\ ~(Raw.addr # Unset /\ Raw.addr.value = Malformed)
    BY BootFacts DEF ConfigError, ConfigErrors
  <1>2. Text(env.token) /\ env.token.value >= MinTokenLength
    <2>1. Text(env.token) /\ Raw.token = env.token
      BY <1>1, RawFacts
    <2>2. env.token.value \in Nat
      BY <2>1, BootFacts
    <2> QED
      BY <1>1, <2>1, <2>2, BootFacts
  <1>3. \A s \in {"port", "rate", "burst"} : Text(env[s]) => env[s].value # Malformed
    BY <1>1, RawFacts DEF PortFits, Bounded
  <1>4. (Text(env.addr) => env.addr.value = Blank) <=> (AskedFor.addr = Loopback)
    <2>1. CASE ~Text(env.addr)
      <3>1. Raw.addr = Unset
        BY <2>1, RawFacts
      <3> QED
        BY <2>1, <3>1 DEF AskedFor, Or
    <2>2. CASE Text(env.addr)
      <3>1. Raw.addr = env.addr /\ Raw.addr # Unset
        BY <2>2, RawFacts
      <3>2. env.addr.value \in {Blank, Host}
        BY <1>1, <2>2, <3>1, BootFacts
      <3> QED
        BY <2>2, <3>1, <3>2, BootFacts DEF AskedFor, Or
    <2> QED
      BY <2>1, <2>2
  <1> QED
    BY <1>1, <1>2, <1>3, <1>4

\* The process has done nothing yet.
LEMMA BootInitInvariant == BootInit => BootInv
  BY DEF BootInit, BootInv, BootTypeOK, BootSteps, Configured, BootOrdered

\* Every step keeps the invariant.
LEMMA BootNextInvariant == BootInv /\ [BootNext]_bootVars => BootInv'
  <1> SUFFICES ASSUME BootInv, [BootNext]_bootVars PROVE BootInv'
    OBVIOUS
  <1> USE DEF BootInv, BootTypeOK, BootSteps
  <1>1. CASE Configure
    <2>1. CASE ConfigError # Unset
      BY <1>1, <2>1 DEF Configure, Fail, Configured, BootOrdered
    <2>2. CASE ConfigError = Unset
      <3>1. /\ config' = AskedFor /\ phase' = "check" /\ phase = "configure"
            /\ UNCHANGED << env, error, port, systemd, seen >>
        BY <1>1, <2>2 DEF Configure, AskedFor
      <3>2. Configured'
        BY <2>2, <3>1 DEF Configured, ConfigError, Raw, AskedFor, PortFits,
           Bounded, Or
      <3> QED
        BY <3>1, <3>2 DEF BootOrdered
    <2> QED
      BY <2>1, <2>2
  <1>2. CASE CheckSystemd
    BY <1>2 DEF CheckSystemd, Fail, Configured, BootOrdered, ConfigError, Raw,
       AskedFor, PortFits, Bounded, Or
  <1>3. CASE Build
    <2>1. PolicyFits
      BY <1>3, AcceptedFits DEF Build, Configured, PolicyFits
    <2> QED
      BY <1>3, <2>1 DEF Build, Configured, BootOrdered, ConfigError, Raw,
       AskedFor, PortFits, Bounded, Or
  <1>4. CASE Bind
    BY <1>4 DEF Bind, Fail, Configured, BootOrdered, ConfigError, Raw,
       AskedFor, PortFits, Bounded, Or
  <1>5. CASE SystemdChanges
    BY <1>5 DEF SystemdChanges, Configured, BootOrdered, ConfigError, Raw,
       AskedFor, PortFits, Bounded, Or
  <1>6. CASE PortChanges
    BY <1>6 DEF PortChanges, Configured, BootOrdered, ConfigError, Raw,
       AskedFor, PortFits, Bounded, Or
  <1>7. CASE UNCHANGED bootVars
    BY <1>7 DEF bootVars, Configured, BootOrdered, ConfigError, Raw,
       AskedFor, PortFits, Bounded, Or
  <1> QED
    BY <1>1, <1>2, <1>3, <1>4, <1>5, <1>6, <1>7 DEF BootNext

\* So it always holds.
LEMMA BootInvariance == BootSpec => []BootInv
  BY BootInitInvariant, BootNextInvariant, PTL DEF BootSpec

\* A server that accepts connections does what its settings say, and no settings that were
\* accepted make the limiter's policy panic.
THEOREM AcceptedIsServed == BootSpec => []ServesAsAsked
  <1>1. BootInv => ServesAsAsked
    <2> SUFFICES ASSUME BootInv PROVE ServesAsAsked
      OBVIOUS
    <2>1. ASSUME phase = "serving"
          PROVE  /\ Text(env.rate) => config.rate = env.rate.value
                 /\ Text(env.burst) => config.burst = env.burst.value
                 /\ Text(env.port) => config.port = env.port.value
                 /\ (Text(env.addr) => env.addr.value = Blank) <=> (config.addr = Loopback)
      <3>1. config = AskedFor /\ ConfigError = Unset /\ env \in Environments
        BY <2>1 DEF BootInv, Configured, BootTypeOK
      <3>2. (Text(env.addr) => env.addr.value = Blank) <=> (config.addr = Loopback)
        BY <3>1, AcceptedMakesSense
      <3> QED
        BY <3>1, <3>2, RawFacts DEF AskedFor, Or
    <2> QED
      BY <2>1 DEF BootInv, BootOrdered, ServesAsAsked
  <1> QED
    BY <1>1, BootInvariance, PTL

\* Nothing is served without systemd, without a token, or under a text that makes no sense.
THEOREM StartupFailsClosed == BootSpec => []FailsClosed
  <1>1. BootInv => FailsClosed
    BY AcceptedMakesSense DEF BootInv, BootTypeOK, Configured, BootOrdered, FailsClosed
  <1> QED
    BY <1>1, BootInvariance, PTL

\* The limiter of a process that serves is one the theorems about the service are about:
\* with the bounds of RateLimitPolicy::new for those of the parser, what main makes of its
\* settings satisfies PolicyAssumption.
THEOREM ServedLimiterFits ==
  ASSUME MaxRate = Limiter!MAX_REQUESTS_PER_SECOND, MaxBurst = Limiter!MAX_BURST
  PROVE  BootSpec => [](phase = "serving" =>
             /\ config.rate \in 1 .. Limiter!MAX_REQUESTS_PER_SECOND
             /\ config.burst \in 1 .. Limiter!MAX_BURST)
  <1>1. BootInv => (phase = "serving" =>
             /\ config.rate \in 1 .. Limiter!MAX_REQUESTS_PER_SECOND
             /\ config.burst \in 1 .. Limiter!MAX_BURST)
    BY AcceptedFits DEF BootInv, Configured
  <1> QED
    BY <1>1, BootInvariance, PTL

=============================================================================
