----------------------------- MODULE TimerRows -----------------------------
(***************************************************************************)
(* list_timers from its arguments to its answer                            *)
(* (src/src/domain/tools/timers.rs): they are checked one after another,   *)
(* the managers list their timers (UnitListing), and at a time of its own  *)
(* the handler filters, dates, sorts, pages and sums up the rows.          *)
(*                                                                         *)
(* Units are numbered by name.  Times are in ticks, of which Second make a *)
(* second: stamps are finer than what the rows are dated in.  `broken` is  *)
(* a sub-state "failed" or a result other than "success".                  *)
(***************************************************************************)
EXTENDS RowOps

CONSTANTS
    None,        \* Option::None
    Mistyped,    \* an argument of another JSON type than the one expected
    Bad,         \* an argument that is not accepted
    Calls,       \* the arguments: [scope, limit, state, name, sort, order, overdueOnly, summary]
    Listings,    \* what the managers may list: rows [unit, state, broken, next, last]
    Nows,        \* when the handler may look at the clock
    Second,      \* ticks of a second
    Grace,       \* five minutes, in ticks
    MaxLimit,    \* MAX_TIMERS_LIMIT
    DefaultLimit,
    Soonest      \* how many timers next_due_soon names at most

VARIABLES
    args,    \* the call
    pc,      \* "received", "list", "rows" or "done"
    given,   \* the rows of the provider
    now,     \* the time the rows are dated with, None before
    answer   \* the response, None until there is one

vars == << args, pc, given, now, answer >>

Init ==
    /\ args \in Calls
    /\ pc = "received"
    /\ given = << >>
    /\ now = None /\ answer = None

Reply(response) == pc' = "done" /\ answer' = response

Refused(code) == [ok |-> FALSE, code |-> code]

-----------------------------------------------------------------------------
(***************************************************************************)
(* normalize_timers_query.  An argument is Bad when it is not one of   *)
(* the values accepted; a state is free-form, but not blank.               *)
(***************************************************************************)

Given(value, default) == IF value = None THEN default ELSE value

Limit == Given(args.limit, DefaultLimit)
Sort == Given(args.sort, "name")
Order == Given(args.order, "asc")
OverdueOnly == Given(args.overdueOnly, FALSE)
Summary == Given(args.summary, FALSE)

\* Mutant of LimitFits: the bound is exclusive.
LimitFitsBelow(limit) == limit > 0 /\ limit < MaxLimit

LimitFits(limit) == limit > 0 /\ limit <= MaxLimit

\* All types are checked before the first value is.
Refusal ==
    IF \E field \in DOMAIN args : args[field] = Mistyped THEN "invalid_params"
    ELSE IF args.scope = Bad THEN "invalid_scope"
    ELSE IF ~LimitFits(Limit) THEN "invalid_limit"
    ELSE IF args.state = Bad THEN "invalid_state"
    ELSE IF Sort = Bad THEN "invalid_sort"
    ELSE IF Order = Bad THEN "invalid_order"
    ELSE None

Normalize ==
    /\ pc = "received"
    /\ IF Refusal # None THEN Reply(Refused(Refusal)) ELSE pc' = "list" /\ answer' = None
    /\ UNCHANGED << args, given, now >>

\* The listing, and its failure.
List ==
    /\ pc = "list"
    /\ \/ given' \in Listings /\ pc' = "rows" /\ answer' = None
       \/ given' = << >> /\ Reply(Refused("internal"))
    /\ UNCHANGED << args, now >>

-----------------------------------------------------------------------------
(***************************************************************************)
(* build_timer_item and timer_overdue_status.                              *)
(***************************************************************************)

\* Duration::num_seconds rounds toward zero.
Seconds(ticks) == IF ticks < 0 THEN -((-ticks) \div Second) ELSE ticks \div Second

\* Active, with a known next run that is past by more than the grace.
Overdue(row, time) ==
    row.state = "active" /\ row.next # None /\ time > row.next + Grace

Reason(row, time) ==
    IF row.state # "active" THEN "not_active"
    ELSE IF row.next = None THEN "no_next_run_known"
    ELSE IF Overdue(row, time) THEN "past_due_beyond_grace"
    ELSE None

Item(row, time) ==
    [unit |-> row.unit, state |-> row.state, broken |-> row.broken, next |-> row.next,
     last |-> row.last,
     until |-> IF row.next = None THEN None ELSE Seconds(row.next - time),
     since |-> IF row.last = None THEN None ELSE Seconds(time - row.last),
     overdue |-> Overdue(row, time), reason |-> Reason(row, time)]

Items(time) == [k \in DOMAIN given |-> Item(given[k], time)]

\* The handler's filters.
Wanted(item) ==
    /\ args.state \in {None, item.state}
    /\ args.name \in {None, item.unit}
    /\ OverdueOnly => item.overdue

-----------------------------------------------------------------------------
(***************************************************************************)
(* sort_timer_items, and the summary of a page.                            *)
(***************************************************************************)

\* The active states in the order of their names.
Rank ==
    [activating |-> 1, active |-> 2, deactivating |-> 3, failed |-> 4, inactive |-> 5,
     maintenance |-> 6, refreshing |-> 7, reloading |-> 8]

\* compare_optional_i64_none_last
KeyLess(a, b) ==
    a # None /\ (b = None \/ (IF Order = "desc" THEN b < a ELSE a < b))

ByUnit(a, b) == a.unit < b.unit

ByState(a, b) ==
    Rank[a.state] < Rank[b.state] \/ (Rank[a.state] = Rank[b.state] /\ ByUnit(a, b))

\* Descending turns the order by name or state around, ties included, and not that of
\* times, whose ties go by name.
Less(a, b) ==
    CASE Sort = "next" -> KeyLess(a.until, b.until) \/ (a.until = b.until /\ ByUnit(a, b))
      [] Sort = "last" -> KeyLess(a.since, b.since) \/ (a.since = b.since /\ ByUnit(a, b))
      [] Sort = "state" -> IF Order = "desc" THEN ByState(b, a) ELSE ByState(a, b)
      [] OTHER -> IF Order = "desc" THEN ByUnit(b, a) ELSE ByUnit(a, b)

Due(item) == item.until # None /\ item.until >= 0

Sooner(a, b) == a.until < b.until \/ (a.until = b.until /\ ByUnit(a, b))

Problem(item) == item.overdue \/ item.state = "failed" \/ item.broken

\* build_timer_summary
Summarize(items) ==
    [counts |-> Tally([k \in DOMAIN items |-> items[k].state], None),
     overdue |-> Cardinality({k \in DOMAIN items : items[k].overdue}),
     soon |-> Truncate(FilterSort(items, Due, Sooner), Soonest),
     problems |-> FilterSort(items, Problem, ByUnit)]

\* Mutant of Respond: the summary is of all matches, not of the page.
RespondAll ==
    /\ pc = "rows"
    /\ \E time \in Nows :
          LET sorted == FilterSort(Items(time), Wanted, Less)
              page == Paginate(sorted, Limit)
          IN  /\ now' = time
              /\ Reply([ok |-> TRUE, page |-> page,
                        summary |-> IF Summary THEN Summarize(sorted) ELSE None])
    /\ UNCHANGED << args, given >>

\* The clock is read when the rows are there, and once for all of them.
Respond ==
    /\ pc = "rows"
    /\ \E time \in Nows :
          LET page == Paginate(FilterSort(Items(time), Wanted, Less), Limit)
          IN  /\ now' = time
              /\ Reply([ok |-> TRUE, page |-> page,
                        summary |-> IF Summary THEN Summarize(page.rows) ELSE None])
    /\ UNCHANGED << args, given >>

Rest == pc = "done" /\ UNCHANGED vars

Next == Normalize \/ List \/ Respond \/ Rest

-----------------------------------------------------------------------------
(***************************************************************************)
(* Properties.                                                             *)
(***************************************************************************)

Listed == answer # None /\ answer.ok
Rows == answer.page.rows

\* The rows of the listing that are asked for, by the rules of the requirements.
PastGrace(row) == row.next # None /\ row.next + Grace < now
Asked ==
    {k \in DOMAIN given :
        /\ args.state \in {None, given[k].state}
        /\ args.name \in {None, given[k].unit}
        /\ OverdueOnly => given[k].state = "active" /\ PastGrace(given[k])}

\* What num_seconds leaves of the order of two distances from now: the first is the nearer by
\* less than a second at worst, unless both round to zero, one of them past.
Near(first, second) ==
    first < second + Second \/ (first < Second /\ -Second < second)

\* One timer comes before another: by name or state exactly, by time as far as Near tells, and
\* one without a time comes last in both directions.
TimesInOrder(first, second) ==
    /\ second # None => first # None
    /\ second # None => IF Order = "desc" THEN Near(second, first) ELSE Near(first, second)

Until(row) == IF row.next = None THEN None ELSE row.next - now
Since(row) == IF row.last = None THEN None ELSE now - row.last

InOrder(a, b) ==
    CASE Sort = "next" -> TimesInOrder(Until(a), Until(b))
      [] Sort = "last" -> TimesInOrder(Since(a), Since(b))
      [] Sort = "state" -> IF Order = "desc" THEN Rank[b.state] <= Rank[a.state]
                                             ELSE Rank[a.state] <= Rank[b.state]
      [] OTHER -> IF Order = "desc" THEN b.unit <= a.unit ELSE a.unit <= b.unit

\* Every page is the first of the whole answer: it is full before anything is left out, all
\* that match are counted (docs/requirements.md: total_scanned is the pre-limit count), its
\* rows are in the order asked for, and no row left out belongs before one shown.  The order
\* of times is that of whole seconds from now, so that rows less than a second apart may
\* change places, and any two less than a second away from now.
PageIsFirst ==
    Listed =>
        LET Count(item) == Cardinality({k \in Asked : Item(given[k], now) = item})
            Left == {k \in Asked : \A j \in DOMAIN Rows : Rows[j] # Item(given[k], now)}
        IN  /\ answer.page.total = Cardinality(Asked)
            /\ Len(Rows) = (IF Limit < Cardinality(Asked) THEN Limit ELSE Cardinality(Asked))
            /\ answer.page.truncated <=> (Len(Rows) < answer.page.total)
            /\ \A j \in DOMAIN Rows : Cardinality({i \in DOMAIN Rows : Rows[i] = Rows[j]})
                                          <= Count(Rows[j])
            /\ \A j, k \in DOMAIN Rows : j < k => InOrder(Rows[j], Rows[k])
            /\ \A k \in Left, j \in DOMAIN Rows : InOrder(Rows[j], given[k])

\* overdue is the requirements' rule, at the time the rows are dated with: overdue_only
\* shows only what it holds of, and the flag agrees with it on every row.
OverdueByTheRule ==
    Listed => \A j \in DOMAIN Rows :
        Rows[j].overdue <=> (Rows[j].state = "active" /\ PastGrace(Rows[j]))

\* A summary describes the page and nothing else: its states add up to the rows returned,
\* its problems are those of the page, and it names timers of the page as due soon, nearest
\* first.  Again whole seconds count: one that was due less than a second ago is still named,
\* and a timer due that is left out may be nearer than one named by less than a second.
SummaryOfPage ==
    (Listed /\ Summary) =>
        LET summary == answer.summary
            soon == summary.soon
        IN  /\ \A s \in DOMAIN summary.counts :
                  summary.counts[s] = Cardinality({j \in DOMAIN Rows : Rows[j].state = s})
            /\ summary.overdue = Cardinality({j \in DOMAIN Rows : Rows[j].overdue})
            /\ ToSet(summary.problems) =
                  {Rows[j] : j \in {i \in DOMAIN Rows :
                      Rows[i].overdue \/ Rows[i].state = "failed" \/ Rows[i].broken}}
            /\ ToSet(soon) \subseteq ToSet(Rows)
            /\ \A j \in DOMAIN soon : soon[j].next # None /\ now < soon[j].next + Second
            /\ \A i, j \in DOMAIN soon : i < j => Near(soon[i].next - now, soon[j].next - now)
            /\ \A row \in ToSet(Rows) \ ToSet(soon) :
                  (row.next # None /\ now <= row.next) =>
                      /\ Len(soon) = Soonest
                      /\ \A j \in DOMAIN soon : soon[j].next < row.next + Second

\* A call is refused before anything is listed, exactly when one of its arguments is not
\* acceptable: limits up to and with the maximum are.
RefusedForCause ==
    (answer # None /\ ~answer.ok /\ answer.code # "internal") <=>
        /\ pc = "done"
        /\ \/ \E field \in DOMAIN args : args[field] \in {Mistyped, Bad}
           \/ args.limit # None /\ args.limit \notin 1 .. MaxLimit

=============================================================================
