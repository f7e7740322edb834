----------------------------- MODULE HttpService -----------------------------
(***************************************************************************)
(* The life of an HTTP request through build_app (src/src/lib.rs): the     *)
(* rate limiter, the bearer check of the protected routes, the handlers of *)
(* src/src/http/handlers.rs and the JSON-RPC dispatch behind /mcp, down to *)
(* the provider calls it awaits.                                           *)
(*                                                                         *)
(* Requests are tasks that share the bucket of RateLimiter and interleave  *)
(* at their await points.  When the client hangs up, the server drops the  *)
(* task at the await point it has reached, and nothing after it runs.      *)
(***************************************************************************)
EXTENDS JsonRpc, FiniteSets

CONSTANTS
    Requests, Rate, Burst, Second, MaxNow,   \* of the limiter
    Incoming,    \* the HTTP requests clients send
    Hangups      \* bound: clients that hang up

\* The messages in the bodies of the requests.
Messages == UNION {{i.body.items[k] : k \in DOMAIN i.body.items} : i \in Incoming}

ASSUME RequestsAssumption == IsFiniteSet(Requests)

ASSUME IncomingAssumption ==
    /\ \A i \in Incoming : i.body.items \in Seq(Messages)
    /\ \A m \in Messages :
          m.object \in BOOLEAN /\ m.shape \in BOOLEAN /\ m.ok \in BOOLEAN /\ m.calls \in Nat

VARIABLES
    now, tokens, lastRefill, pc, sample, retryAfter, grants, passed, refusal,
    req,       \* what each request asks: a member of Incoming
    stage,     \* where an admitted request is
    at,        \* the batch item in hand
    left,      \* provider calls the item in hand still has to make
    replies,   \* the `responses` of mcp_endpoint
    answer,    \* the HTTP status, 0 until there is one
    ran,       \* history: the items that were dispatched
    called,    \* history: how many provider calls were started
    audit      \* history: "mcp action audited" events, as [at, ok]

limiterVars == << now, tokens, lastRefill, pc, sample, retryAfter, grants, passed, refusal >>
serviceVars == << req, stage, at, left, replies, answer, ran, called, audit >>
vars == << limiterVars, serviceVars >>

Limiter == INSTANCE RateLimiter

\* The limiter is built for a policy it accepts.
ASSUME LimiterAssumption ==
    /\ Rate \in 1 .. Limiter!MAX_REQUESTS_PER_SECOND
    /\ Burst \in 1 .. Limiter!MAX_BURST
    /\ Second \in Nat \ {0} /\ MaxNow \in Nat

Init ==
    /\ Limiter!Init
    /\ req \in [Requests -> Incoming]
    /\ stage = [r \in Requests |-> "route"]
    /\ at = [r \in Requests |-> 1]
    /\ left = [r \in Requests |-> 0]
    /\ replies = [r \in Requests |-> << >>]
    /\ answer = [r \in Requests |-> 0]
    /\ ran = [r \in Requests |-> {}]
    /\ called = [r \in Requests |-> 0]
    /\ audit = [r \in Requests |-> << >>]

-----------------------------------------------------------------------------
\* The limiter runs before everything else, whatever the route.
Limit(r) ==
    /\ (Limiter!Check(r) \/ Limiter!Admit(r) \/ Limiter!Refuse(r))
    /\ UNCHANGED serviceVars

Tick == Limiter!Tick /\ UNCHANGED serviceVars

\* Mutant of Admitted: the limiter's decision is not waited for.
Sampled(r) == pc[r] \in {"sampled", "admitted"}

Admitted(r) == pc[r] = "admitted"

Protected == {"mcp", "status"}

\* require_bearer_token: the header is there, is Bearer, and matches.
Authorized(r) == req[r].token = "right"

\* 429 with Retry-After; no service state but the answer is touched.
Throttle(r) ==
    /\ pc[r] = "refused"
    /\ answer[r] = 0
    /\ answer' = [answer EXCEPT ![r] = 429]
    /\ UNCHANGED << limiterVars, req, stage, at, left, replies, ran, called, audit >>

\* Ends the request with a status.
Answer(r, status) ==
    /\ stage' = [stage EXCEPT ![r] = "done"]
    /\ answer' = [answer EXCEPT ![r] = status]

\* /health and discovery are public and unmatched paths are not authenticated.
ServePublic(r) ==
    /\ stage[r] = "route" /\ Admitted(r)
    /\ req[r].route \notin Protected
    /\ Answer(r, IF req[r].route = "public" THEN 200 ELSE 404)
    /\ UNCHANGED << limiterVars, req, at, left, replies, ran, called, audit >>

Unauthorized(r) ==
    /\ stage[r] = "route" /\ Admitted(r)
    /\ req[r].route \in Protected /\ ~ Authorized(r)
    /\ Answer(r, 401)
    /\ UNCHANGED << limiterVars, req, at, left, replies, ran, called, audit >>

Authenticate(r) ==
    /\ stage[r] = "route" /\ Admitted(r)
    /\ req[r].route \in Protected /\ Authorized(r)
    /\ stage' = [stage EXCEPT ![r] = req[r].route]
    /\ UNCHANGED << limiterVars, req, at, left, replies, answer, ran, called, audit >>

\* systemd_status asks the manager for its state ...
StatusCall(r) ==
    /\ stage[r] = "status"
    /\ called' = [called EXCEPT ![r] = @ + 1]
    /\ stage' = [stage EXCEPT ![r] = "statusWait"]
    /\ UNCHANGED << limiterVars, req, at, left, replies, answer, ran, audit >>

\* ... and fails closed on any state but running (503) and on an error (500).
StatusReturn(r) ==
    /\ stage[r] = "statusWait"
    /\ \E status \in {200, 503, 500} : Answer(r, status)
    /\ UNCHANGED << limiterVars, req, at, left, replies, ran, called, audit >>

-----------------------------------------------------------------------------
(***************************************************************************)
(* mcp_endpoint.  A body is [json, items]: whether it is JSON, and the      *)
(* messages it holds.  A message that comes alone is run like a batch of    *)
(* one.                                                                     *)
(***************************************************************************)
Items(r) == req[r].body.items
Item(r) == Items(r)[at[r]]
Success(m) == [id |-> m.id, ok |-> TRUE]
Failure(m) == [id |-> ReplyId(m), ok |-> FALSE]
NullError == [id |-> None, ok |-> FALSE]

\* A body that cannot be run: a parse error, or a batch without items.
RejectBody(r) ==
    /\ stage[r] = "mcp"
    /\ req[r].body.json => Items(r) = << >>
    /\ replies' = [replies EXCEPT ![r] = << NullError >>]
    /\ Answer(r, 200)
    /\ UNCHANGED << limiterVars, req, at, left, ran, called, audit >>

StartItems(r) ==
    /\ stage[r] = "mcp"
    /\ req[r].body.json /\ Items(r) # << >>
    /\ stage' = [stage EXCEPT ![r] = "item"]
    /\ UNCHANGED << limiterVars, req, at, left, replies, answer, ran, called, audit >>

Working(r) == stage[r] = "item" /\ at[r] <= Len(Items(r))

\* The item in hand is answered with -32600 or -32602.
RejectItem(r) ==
    /\ Working(r)
    /\ Disposition(Item(r)) = "reject"
    /\ replies' = [replies EXCEPT ![r] = Append(@, Failure(Item(r)))]
    /\ at' = [at EXCEPT ![r] = @ + 1]
    /\ UNCHANGED << limiterVars, req, stage, left, answer, ran, called, audit >>

\* Mutant of IgnoreItem: the loop does not move on to the next item.
IgnoreItemForever(r) ==
    /\ Working(r)
    /\ Disposition(Item(r)) = "ignore"
    /\ UNCHANGED vars

\* A notification without a method is dropped in silence.
IgnoreItem(r) ==
    /\ Working(r)
    /\ Disposition(Item(r)) = "ignore"
    /\ at' = [at EXCEPT ![r] = @ + 1]
    /\ UNCHANGED << limiterVars, req, stage, left, replies, answer, ran, called, audit >>

\* Mutant of Reply: the response overtakes the ones before it.
ReplyFirst(r, ok) ==
    IF ~ RepliesTo(Item(r)) THEN replies
    ELSE [replies EXCEPT ![r] =
             << IF ok THEN Success(Item(r)) ELSE Failure(Item(r)) >> \o @]

\* The item's response joins the others, unless it is a notification.
Reply(r, ok) ==
    IF ~ RepliesTo(Item(r)) THEN replies
    ELSE [replies EXCEPT ![r] =
             Append(@, IF ok THEN Success(Item(r)) ELSE Failure(Item(r)))]

\* Mutant of Audit: failures are not recorded.
AuditSuccesses(r, ok) ==
    IF ~ ok THEN audit
    ELSE [audit EXCEPT ![r] = Append(@, [at |-> at[r], ok |-> ok])]

\* The audit event that ends handle_json_rpc_request.
Audit(r, ok) ==
    IF SkipsAudit(Item(r)) THEN audit
    ELSE [audit EXCEPT ![r] = Append(@, [at |-> at[r], ok |-> ok])]

\* The item is dispatched to a method that answers at once.
RunItem(r) ==
    /\ Working(r)
    /\ Disposition(Item(r)) = "dispatch"
    /\ ProviderCalls(Item(r)) = 0
    /\ ran' = [ran EXCEPT ![r] = @ \union {at[r]}]
    /\ replies' = Reply(r, Succeeds(Item(r)))
    /\ audit' = Audit(r, Succeeds(Item(r)))
    /\ at' = [at EXCEPT ![r] = @ + 1]
    /\ UNCHANGED << limiterVars, req, stage, left, answer, called >>

\* The item is dispatched to a handler that calls a provider and waits.
CallProvider(r) ==
    /\ Working(r)
    /\ Disposition(Item(r)) = "dispatch"
    /\ ProviderCalls(Item(r)) > 0
    /\ ran' = [ran EXCEPT ![r] = @ \union {at[r]}]
    /\ called' = [called EXCEPT ![r] = @ + 1]
    /\ left' = [left EXCEPT ![r] = ProviderCalls(Item(r)) - 1]
    /\ stage' = [stage EXCEPT ![r] = "wait"]
    /\ UNCHANGED << limiterVars, req, at, replies, answer, audit >>

\* A first call succeeded (unit_main_start of list_logs): the next one starts.
CallAgain(r) ==
    /\ stage[r] = "wait"
    /\ left[r] > 0
    /\ called' = [called EXCEPT ![r] = @ + 1]
    /\ left' = [left EXCEPT ![r] = @ - 1]
    /\ UNCHANGED << limiterVars, req, stage, at, replies, answer, ran, audit >>

\* The last call returned, or any call failed: the item is answered and audited.
ProviderReturn(r, ok) ==
    /\ stage[r] = "wait"
    /\ ok => left[r] = 0
    /\ left' = [left EXCEPT ![r] = 0]
    /\ replies' = Reply(r, ok)
    /\ audit' = Audit(r, ok)
    /\ at' = [at EXCEPT ![r] = @ + 1]
    /\ stage' = [stage EXCEPT ![r] = "item"]
    /\ UNCHANGED << limiterVars, req, answer, ran, called >>

\* All items are done: 204 without a body when none of them had an answer.
FinishBody(r) ==
    /\ stage[r] = "item"
    /\ at[r] > Len(Items(r))
    /\ Answer(r, IF replies[r] = << >> THEN 204 ELSE 200)
    /\ UNCHANGED << limiterVars, req, at, left, replies, ran, called, audit >>

\* The client hangs up while the task awaits the body or a provider: the task is
\* dropped where it is.
HangUp(r) ==
    /\ stage[r] \in {"mcp", "wait", "statusWait"}
    /\ Cardinality({q \in Requests : stage[q] = "dropped"}) < Hangups
    /\ stage' = [stage EXCEPT ![r] = "dropped"]
    /\ UNCHANGED << limiterVars, req, at, left, replies, answer, ran, called, audit >>

Over(r) == answer[r] # 0 \/ stage[r] = "dropped"

Rest == (\A r \in Requests : Over(r)) /\ UNCHANGED vars

Serve(r) ==
    \/ Limit(r) \/ Throttle(r)
    \/ ServePublic(r) \/ Unauthorized(r) \/ Authenticate(r)
    \/ StatusCall(r) \/ StatusReturn(r)
    \/ RejectBody(r) \/ StartItems(r)
    \/ RejectItem(r) \/ IgnoreItem(r) \/ RunItem(r)
    \/ CallProvider(r) \/ CallAgain(r)
    \/ (\E ok \in BOOLEAN : ProviderReturn(r, ok))
    \/ FinishBody(r)

Next ==
    \/ Tick
    \/ \E r \in Requests : Serve(r) \/ HangUp(r)
    \/ Rest

\* Every task is scheduled, and every provider call returns.
Spec == Init /\ [][Next]_vars /\ \A r \in Requests : WF_vars(Serve(r))

-----------------------------------------------------------------------------
\* Host work is only ever done for a request that was charged a token and bears
\* the right one, and whatever was not refused has been charged for, whether it
\* ended in 200, 401, 404 or a hang-up.
WorkIsPaidFor ==
    /\ \A r \in Requests :
          (called[r] > 0 \/ ran[r] # {}) => (pc[r] = "admitted" /\ req[r].token = "right")
    /\ Cardinality({r \in Requests : Over(r) /\ answer[r] # 429}) <= Len(grants)

\* A message that must be answered: anything but a proper call without an id.
Answerable(m) == ~ (m.object /\ m.id = None /\ m.form = "call")

\* Those of the first n messages of a batch that must be answered.
Due(r, n) == {k \in 1..n : Answerable(Items(r)[k])}

\* A batch that ran to its end is answered item by item: one response for each
\* message that is no notification, in the order of the batch, under the
\* message's own id or under null when that id is unusable.
BatchIsAnswered ==
    \A r \in Requests :
        (/\ stage[r] = "done"
         /\ req[r].route = "mcp"
         /\ answer[r] \in {200, 204}
         /\ req[r].body.json) =>
            IF Items(r) = << >> THEN replies[r] = << NullError >>
            ELSE LET due == Due(r, Len(Items(r)))
                 IN  /\ Len(replies[r]) = Cardinality(due)
                     /\ \A k \in due :
                           replies[r][Cardinality(Due(r, k))].id =
                             LET m == Items(r)[k]
                             IN  IF m.object /\ m.id # Bad THEN m.id ELSE None
                     /\ answer[r] = 204 <=> due = {}

\* A malformed message is never executed as if it were a notification: what was
\* dispatched is an object that decodes as a call, with no id or a usable one.
MalformedNeverRuns ==
    \A r \in Requests : \A i \in ran[r] :
        LET m == Items(r)[i]
        IN  m.object /\ m.form = "call" /\ m.method # "" /\ m.id # Bad

\* Every item that a request dispatched and finished has exactly one audit
\* event, in the order of execution, and its outcome is what the client was
\* told in the item's response, if it has one; an initialize that fails
\* negotiation is the one exception (docs/requirements.md:306 knows none).
AuditIsFaithful ==
    \A r \in Requests :
        /\ \A j, k \in DOMAIN audit[r] : j < k => audit[r][j].at < audit[r][k].at
        /\ \A k \in DOMAIN audit[r] : audit[r][k].at \in ran[r]
        /\ \A i \in ran[r] : (i < at[r] /\ ~ SkipsAudit(Items(r)[i])) =>
              \E k \in DOMAIN audit[r] : audit[r][k].at = i
        /\ \A k \in DOMAIN audit[r] :
              LET i == audit[r][k].at
              IN  Answerable(Items(r)[i]) =>
                    replies[r][Cardinality(Due(r, i))].ok = audit[r][k].ok

\* Every request that reaches the server is answered, or its client has gone.
EveryRequestEnds == \A r \in Requests : <>Over(r)

=============================================================================
