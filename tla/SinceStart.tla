----------------------------- MODULE SinceStart -----------------------------
(***************************************************************************)
(* list_logs with since_last_start (src/src/domain/tools/logs.rs,          *)
(* src/src/systemd_client.rs): the handler asks systemd when the unit was  *)
(* last started, makes that the start of the window, and reads a page; a   *)
(* client follows next_cursor with the same arguments, so that the start   *)
(* is looked up for every page, while the unit logs, stops and starts      *)
(* again.                                                                  *)
(*                                                                         *)
(* The start is ActiveEnterTimestamp: the time at which the unit became    *)
(* active, after its main process was started by as long as it takes to    *)
(* get ready.  The journal holds the entries of the unit, as their times;  *)
(* a page is read at once (JournalLogs has its scan), and nothing is       *)
(* vacuumed.                                                               *)
(***************************************************************************)
EXTENDS LogArguments, Ordering

CONSTANTS
    Requests,   \* the calls: [explicit, unit, scope, order, end, limit, large]
    MaxTime,    \* bound: the clock
    MaxEntries, \* bound: entries of the unit
    MaxFaults   \* bound: lookups that fail

ASSUME TimesAssumption == Milli \in Nat \ {0}

ASSUME PagesAssumption ==
    /\ DefaultLimit \in Nat
    /\ \A q \in Requests : q.limit \in Nat \union {None}

\* The codes a call is refused with before and after systemd is asked.
ASSUME CodesAssumption ==
    None \notin {"invalid_params", "invalid_fields", "invalid_group_by", "invalid_utc_time",
                 "missing_time_range", "invalid_time_range", "time_range_too_large",
                 "invalid_limit", "invalid_order", "invalid_unit", "invalid_scope",
                 "invalid_priority"}

VARIABLES
    request,  \* the client's call, the same for every page but for the cursor
    now,      \* the clock
    phase,    \* the unit: "dead", "starting" or "active"
    entered,  \* ActiveEnterTimestamp, None when there is none
    journal,  \* the entries of the unit
    pc,       \* the request: "client", "resolve" or "read"
    cursor,   \* the row to continue from, 0 for none
    start,    \* the start_utc of the page
    rows,     \* history: the rows delivered, as indices into journal
    outcome,  \* history: "walking", "complete", or the code of the refusal
    starts,   \* history: the starts of all pages
    asked,    \* history: entered when the page was asked for
    known,    \* history: how many entries there were when the first page was read
    began,    \* history: how many there were when the main process was last started
    run,      \* history: the same of the run that last became active
    over,     \* history: the entries of runs that were over when the page was asked for
    faults    \* failed lookups

unit == << now, phase, entered, journal, began, run >>
vars == << request, unit, pc, cursor, start, rows, outcome, starts, asked, over, known,
           faults >>

Init ==
    /\ request \in Requests
    /\ now = 0
    /\ phase = "dead" /\ entered = None
    /\ journal = << >>
    /\ pc = "client"
    /\ cursor = 0 /\ start = None
    /\ rows = << >> /\ outcome = "walking"
    /\ starts = {} /\ asked = None /\ over = 0 /\ known = 0
    /\ began = 0 /\ run = 0
    /\ faults = 0

-----------------------------------------------------------------------------
(***************************************************************************)
(* systemd and the unit.                                                   *)
(***************************************************************************)

Walking == outcome = "walking"

handler == << request, pc, cursor, start, rows, outcome, starts, asked, over, known, faults >>

Tick ==
    /\ Walking /\ now < MaxTime
    /\ now' = now + 1
    /\ UNCHANGED << handler, phase, entered, journal, began, run >>

StartMain ==
    /\ Walking /\ phase = "dead"
    /\ phase' = "starting" /\ began' = Len(journal)
    /\ UNCHANGED << handler, now, entered, journal, run >>

\* Ready: at once, or when the unit says so.
Activate ==
    /\ Walking /\ phase = "starting"
    /\ phase' = "active" /\ entered' = now /\ run' = began
    /\ UNCHANGED << handler, now, journal, began >>

Stop ==
    /\ Walking /\ phase # "dead"
    /\ phase' = "dead"
    /\ UNCHANGED << handler, now, entered, journal, began, run >>

\* systemd forgets a unit it no longer needs, its timestamp too.
Unload ==
    /\ Walking /\ phase = "dead" /\ entered # None
    /\ entered' = None
    /\ UNCHANGED << handler, now, phase, journal, began, run >>

Log ==
    /\ Walking /\ phase # "dead"
    /\ Len(journal) < MaxEntries
    /\ journal' = Append(journal, now)
    /\ UNCHANGED << handler, now, phase, entered, began, run >>

-----------------------------------------------------------------------------
(***************************************************************************)
(* The client and handle_list_logs.                                        *)
(***************************************************************************)

Refuse(code) == outcome' = code /\ pc' = "client"

Ask ==
    /\ Walking /\ pc = "client"
    /\ pc' = "resolve" /\ asked' = entered
    /\ over' = IF entered = None THEN 0 ELSE run
    /\ UNCHANGED << request, unit, cursor, start, rows, outcome, starts, known, faults >>

\* What is refused before systemd is asked; only one manager can be.
Premature ==
    IF request.explicit THEN "invalid_time_range"
    ELSE IF request.unit \in {None, Bad} THEN "invalid_unit"
    ELSE IF request.scope \notin {None, "system", "user"} THEN "invalid_scope"
    ELSE None

Arguments ==
    [start |-> start', end |-> request.end, large |-> request.large, limit |-> request.limit,
     order |-> request.order, fields |-> None, group |-> None, others |-> None,
     grep |-> None]

\* Mutant of Resolve: the start is looked up for the first page only.
ResolveOnce ==
    /\ pc = "resolve" /\ Premature = None /\ entered # None
    /\ start' = IF start = None THEN Printed(entered) ELSE start
    /\ starts' = starts \union {start'}
    /\ IF Refusal(Arguments) = None THEN pc' = "read" /\ outcome' = outcome
       ELSE Refuse(Refusal(Arguments))
    /\ UNCHANGED << request, unit, cursor, rows, asked, over, known, faults >>

\* unit_main_start finds the unit, and its start makes a legal window.
Resolve ==
    /\ pc = "resolve" /\ Premature = None /\ entered # None
    /\ start' = Printed(entered)
    /\ starts' = starts \union {start'}
    /\ IF Refusal(Arguments) = None THEN pc' = "read" /\ outcome' = outcome
       ELSE Refuse(Refusal(Arguments))
    /\ UNCHANGED << request, unit, cursor, rows, asked, over, known, faults >>

\* The call is refused, the listing fails, or it has no start for the unit, because it was
\* never active, is not loaded, or its details were lost.
ResolveFails ==
    /\ pc = "resolve"
    /\ \/ Premature # None /\ Refuse(Premature) /\ UNCHANGED faults
       \/ Premature = None /\ entered = None /\ Refuse("unit_start_unavailable")
          /\ UNCHANGED faults
       \/ /\ Premature = None /\ faults < MaxFaults /\ faults' = faults + 1
          /\ Refuse("internal") \/ Refuse("unit_start_unavailable")
    /\ UNCHANGED << request, unit, cursor, start, rows, starts, asked, over, known >>

InOrder(i, j) == IF request.order = "asc" THEN i < j ELSE j < i

\* Mutant of Remaining: the page begins with the row of the cursor.
RemainingInclusive ==
    {i \in DOMAIN journal : /\ start <= journal[i] /\ journal[i] <= request.end
                            /\ (cursor # 0) => (i = cursor \/ InOrder(cursor, i))}

\* The rows of the window that come after the cursor.
Remaining ==
    {i \in DOMAIN journal : /\ start <= journal[i] /\ journal[i] <= request.end
                            /\ (cursor # 0) => InOrder(cursor, i)}

\* One page, and the cursor of its last row if there are more.
Read ==
    /\ pc = "read"
    /\ LET sorted == Arranged(Remaining, InOrder)
           limit == LimitOf(request)
           more == Len(sorted) > limit
           page == SubSeq(sorted, 1, IF more THEN limit ELSE Len(sorted))
       IN  /\ rows' = rows \o page
           /\ cursor' = IF more THEN page[limit] ELSE 0
           /\ outcome' = IF more THEN "walking" ELSE "complete"
    /\ known' = IF rows = << >> THEN Len(journal) ELSE known
    /\ pc' = "client"
    /\ UNCHANGED << request, unit, start, starts, asked, over, faults >>

Rest == ~Walking /\ UNCHANGED vars

Next ==
    \/ Tick \/ StartMain \/ Activate \/ Stop \/ Unload \/ Log
    \/ Ask \/ Resolve \/ ResolveFails \/ Read
    \/ Rest

Spec == Init /\ [][Next]_vars

-----------------------------------------------------------------------------
(***************************************************************************)
(* Properties.                                                             *)
(***************************************************************************)

\* The entries the client could expect when it asked for the first page.
Expected(from) ==
    {i \in 1 .. known : from <= journal[i] /\ journal[i] <= request.end}

\* No row comes twice and the order holds across pages, though the window moves between them.
RowsOnce == \A j, k \in DOMAIN rows : j < k => InOrder(rows[j], rows[k])

\* A walk during which the unit was not started again has everything the unit logged since
\* it became active: printing the start in milliseconds loses none of it.
WholeRun ==
    (outcome = "complete" /\ entered # None /\ starts = {Printed(entered)}) =>
        Expected(entered) \subseteq ToSet(rows)

\* A page shows nothing of the runs that were over, by a later activation, when it was asked
\* for; only entries of the millisecond of that activation cannot be told apart.  What the
\* unit that became active logged while it started is no matter here.
NoOldRun ==
    [][\A k \in (Len(rows) + 1) .. Len(rows') :
           rows'[k] <= over => Printed(journal[rows'[k]]) = Printed(asked)]_vars

\* src/docs/requirements.md:341: the start of the window is the latest main-process start, so
\* that a walk over a run has all it logged, from before it became active too.
SinceMainStart ==
    (outcome = "complete" /\ entered # None /\ starts = {Printed(entered)} /\ began = run) =>
        {i \in (run + 1) .. known : journal[i] <= request.end} \subseteq ToSet(rows)

=============================================================================
