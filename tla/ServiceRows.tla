---------------------------- MODULE ServiceRows ----------------------------
(***************************************************************************)
(* list_services from its arguments to its answer                          *)
(* (src/src/domain/tools/services.rs and src/src/domain/utils.rs): the     *)
(* arguments are checked, the managers list their services (UnitListing),  *)
(* and the handler filters, sorts, pages and sums up the rows.             *)
(*                                                                         *)
(* Units are numbered by name; a name filter is the set of names that      *)
(* contain the substring.  A state is lower case, as the filter is after   *)
(* it was normalised.                                                      *)
(***************************************************************************)
EXTENDS RowOps

CONSTANTS
    None,        \* Option::None
    Mistyped,    \* an argument of another JSON type than the one expected
    Bad,         \* an argument that is not accepted
    Calls,       \* the arguments: [scope, state, names, limit, summary]
    Listings,    \* what the managers may list: rows [unit, state]
    MaxLimit,    \* MAX_SERVICES_LIMIT
    DefaultLimit,
    MaxFailed    \* how many failed units a summary names at most

VARIABLES
    args,    \* the call
    pc,      \* "received", "list", "rows" or "done"
    given,   \* the rows of the provider
    answer   \* the response, None until there is one

vars == << args, pc, given, answer >>

Init ==
    /\ args \in Calls
    /\ pc = "received" /\ given = << >> /\ answer = None

Reply(response) == pc' = "done" /\ answer' = response

Refused(code) == [ok |-> FALSE, code |-> code]

Limit == IF args.limit = None THEN DefaultLimit ELSE args.limit

\* normalize_services_limit
LimitFits(limit) == limit > 0 /\ limit <= MaxLimit

\* normalize_services_query: the types, then the values, in this order.
Refusal ==
    IF \E field \in DOMAIN args : args[field] = Mistyped THEN "invalid_params"
    ELSE IF args.scope = Bad THEN "invalid_scope"
    ELSE IF args.state = Bad THEN "invalid_state"
    ELSE IF ~LimitFits(Limit) THEN "invalid_limit"
    ELSE None

Normalize ==
    /\ pc = "received"
    /\ IF Refusal # None THEN Reply(Refused(Refusal)) ELSE pc' = "list" /\ answer' = None
    /\ UNCHANGED << args, given >>

\* The listing, and its failure.
List ==
    /\ pc = "list"
    /\ \/ given' \in Listings /\ pc' = "rows" /\ answer' = None
       \/ given' = << >> /\ Reply(Refused("internal"))
    /\ args' = args

\* filter_services_by_state and filter_services_by_name_contains
Wanted(row) ==
    /\ args.state \in {None, row.state}
    /\ (args.names # None) => (row.unit \in args.names)

Failed(row) == row.state = "failed"

ByUnit(a, b) == a.unit < b.unit

\* sort_services: failed ones first when those are asked for, then by unit.
FirstOf(a, b) ==
    LET First(row) == args.state = "failed" /\ Failed(row)
    IN  \/ First(a) /\ ~First(b)
        \/ (First(a) <=> First(b)) /\ ByUnit(a, b)

\* build_service_summary; the hint names how many failed units are listed.
Summarize(rows) ==
    LET failed == Truncate(FilterSort(rows, Failed, ByUnit), MaxFailed)
    IN  [counts |-> Tally([k \in DOMAIN rows |-> rows[k].state], None),
         failed |-> failed,
         hint |-> IF failed = << >> THEN None ELSE Len(failed)]

Respond ==
    /\ pc = "rows"
    /\ LET page == Paginate(FilterSort(given, Wanted, FirstOf), Limit)
       IN  Reply([ok |-> TRUE, page |-> page,
                  summary |-> IF args.summary = TRUE THEN Summarize(page.rows) ELSE None])
    /\ UNCHANGED << args, given >>

Rest == pc = "done" /\ UNCHANGED vars

Next == Normalize \/ List \/ Respond \/ Rest

-----------------------------------------------------------------------------
Listed == answer # None /\ answer.ok
Rows == answer.page.rows

Asked ==
    {k \in DOMAIN given : /\ args.state \in {None, given[k].state}
                          /\ args.names = None \/ given[k].unit \in args.names}

\* The page is the beginning, by name, of all that matches: a row is left out only when the
\* page is full, and those left out are counted (docs/requirements.md: total is the
\* pre-limit match count).  Rows of the same name in two managers both stay.
PageIsFirst ==
    Listed =>
        LET Place(k) == Cardinality({j \in Asked : given[j].unit < given[k].unit
                                         \/ (given[j].unit = given[k].unit /\ j < k)}) + 1
        IN  /\ answer.page.total = Cardinality(Asked)
            /\ answer.page.truncated <=> (Len(Rows) < answer.page.total)
            /\ \A k \in Asked : (Place(k) <= Limit) => (Rows[Place(k)] = given[k])
            /\ Len(Rows) <= Limit /\ Len(Rows) <= Cardinality(Asked)

\* A summary describes the page: its states add up to the rows returned, it names failed
\* units of the page only, as many as it may, and hints at trouble whenever there is any.
SummaryOfPage ==
    (Listed /\ args.summary = TRUE) =>
        LET failed == {k \in DOMAIN Rows : Rows[k].state = "failed"}
            summary == answer.summary
        IN  /\ \A s \in DOMAIN summary.counts :
                  summary.counts[s] = Cardinality({k \in DOMAIN Rows : Rows[k].state = s})
            /\ \A k \in DOMAIN Rows : Rows[k].state \in DOMAIN summary.counts
            /\ \A k \in DOMAIN summary.failed : \E j \in failed : Rows[j] = summary.failed[k]
            /\ Len(summary.failed) = (IF Cardinality(failed) < MaxFailed
                                      THEN Cardinality(failed) ELSE MaxFailed)
            /\ (summary.hint = None) <=> (failed = {})

\* A call is refused before anything is listed, exactly when one of its arguments is not
\* acceptable; the limits 1 and MaxLimit are.
RefusedForCause ==
    (answer # None /\ ~answer.ok /\ answer.code # "internal") <=>
        /\ pc = "done"
        /\ \/ \E field \in DOMAIN args : args[field] \in {Mistyped, Bad}
           \/ args.limit # None /\ args.limit \notin 1 .. MaxLimit

=============================================================================
