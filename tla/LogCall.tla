------------------------------ MODULE LogCall ------------------------------
(***************************************************************************)
(* list_logs from its arguments to its answer                              *)
(* (src/src/domain/tools/logs.rs): the arguments are checked               *)
(* (LogArguments), a page of raw entries is read (JournalLogs), and the    *)
(* handler groups its entries by unit, priority and message, one after     *)
(* another, or takes them as they are, and sums them up for triage.  A     *)
(* client that is told its window is too large asks again with the         *)
(* maximum_start_utc it was told.                                          *)
(*                                                                         *)
(* An entry is [unit, priority, message, time, cursor], unit, priority and *)
(* message None when missing, names and texts numbered in their order; its *)
(* place in the page stands for its cursor, and `cursor` is whether there  *)
(* was one to be had of the journal.  Times of entries are as they are     *)
(* printed, where the order of the texts is that of the times.             *)
(***************************************************************************)
EXTENDS LogArguments, RowOps

CONSTANTS
    Calls,     \* the arguments the client may begin with: LogArguments' and summary
    MaxTries,  \* bound: how often it asks
    Pages,     \* what read_journal_logs may return: sequences of entries
    Top        \* how many units and messages a summary shows at most: ten

VARIABLES
    args,      \* the arguments of the current call
    pc,        \* "received", "list", "rows" or "done"
    given,     \* the page of entries
    answer,    \* the response, None until there is one
    tries,     \* how often the client asked
    more,      \* has_more: there are matching rows beyond the page
    done,      \* how many entries group_entries has been through
    groups     \* its groups: [key, count, first, last, row]

call == << args, tries >>
page == << given, more >>
vars == << call, page, pc, answer, done, groups >>

Init ==
    /\ args \in Calls /\ tries = 1
    /\ pc = "received" /\ answer = None
    /\ given = << >> /\ more = FALSE
    /\ done = 0 /\ groups = << >>

Reply(response) == pc' = "done" /\ answer' = response

Refused(code) ==
    [ok |-> FALSE, code |-> code,
     maximum |-> IF code = "time_range_too_large" THEN MaximumStart(args) ELSE None]

\* normalize_logs_query
Check ==
    /\ pc = "received"
    /\ IF Refusal(args) # None THEN Reply(Refused(Refusal(args)))
       ELSE pc' = "list" /\ answer' = None
    /\ UNCHANGED << call, page, done, groups >>

\* The client was told where the widest window would begin.
Told == pc = "done" /\ ~answer.ok /\ answer.maximum # None

\* The client takes the server's advice.
Retry ==
    /\ Told /\ tries < MaxTries
    /\ args' = [args EXCEPT !.start = answer.maximum]
    /\ tries' = tries + 1
    /\ pc' = "received" /\ answer' = None
    /\ UNCHANGED << page, done, groups >>

\* What read_journal_logs fails with: a pattern is compiled when the journal is open, and
\* before anything is sought in it.
ReadErrors ==
    {"internal", IF args.grep = Bad THEN "invalid_grep" ELSE "invalid_cursor"}

\* The page, or its failure.
List ==
    /\ pc = "list"
    /\ \/ /\ args.grep # Bad
          /\ given' \in {p \in Pages : Len(p) <= LimitOf(args)}
          /\ more' \in {FALSE, Len(given') = LimitOf(args)}
          /\ pc' = "rows" /\ answer' = None
       \/ /\ \E code \in ReadErrors : Reply(Refused(code))
          /\ UNCHANGED page
    /\ UNCHANGED << call, done, groups >>

-----------------------------------------------------------------------------
Grouped == args.group = "message"

Key(entry) == << entry.unit, entry.priority, entry.message >>

\* Mutant of Adjusted: only the last time of a group is kept up to date, as if the
\* given came oldest first.
AdjustedAscending(group, entry) ==
    [group EXCEPT !.count = @ + 1, !.last = entry.time]

Adjusted(group, entry) ==
    [group EXCEPT !.count = @ + 1,
                  !.first = IF entry.time < @ THEN entry.time ELSE @,
                  !.last = IF entry.time > @ THEN entry.time ELSE @]

\* One entry: it joins the first group of its key, or begins one, whose row is its own.
Group ==
    /\ pc = "rows" /\ Grouped /\ done < Len(given)
    /\ done' = done + 1
    /\ LET entry == given[done + 1]
           same == {g \in DOMAIN groups : groups[g].key = Key(entry)}
       IN  groups' = IF same = {}
                     THEN Append(groups, [key |-> Key(entry), count |-> 1, first |-> entry.time,
                                          last |-> entry.time, row |-> done + 1])
                     ELSE [groups EXCEPT ![CHOOSE g \in same : TRUE] = Adjusted(@, entry)]
    /\ UNCHANGED << call, page, pc, answer >>

\* The greatest counts first, those of the same count by name.
Ranked(counts) ==
    LET rows == {[key |-> key, count |-> counts[key]] : key \in DOMAIN counts}
    IN  Enumerated([row \in rows |->
            {r \in rows : r.count > row.count \/ (r.count = row.count /\ r.key < row.key)}])

IsError(entry) == entry.priority # None /\ entry.priority <= 3

\* Entries without a priority are counted as "unknown", here -1.
PriorityKey(entry) == IF entry.priority = None THEN -1 ELSE entry.priority

\* build_log_summary
Summary ==
    LET units == [k \in DOMAIN given |-> given[k].unit]
        failing == [k \in DOMAIN given |-> IF IsError(given[k]) THEN given[k].unit ELSE None]
        messages == [k \in DOMAIN given |-> given[k].message]
        priorities == [k \in DOMAIN given |-> PriorityKey(given[k])]
    IN  [units |-> Truncate(Ranked(Tally(units, None)), Top),
         messages |-> Truncate(Ranked(Tally(messages, None)), Top),
         priorities |-> Tally(priorities, None),
         hotspots |-> Ranked(Tally(failing, None))]

\* The cursor of the last raw entry, if it has one, whatever is shown of it.
NextCursor ==
    IF more /\ given # << >> /\ given[Len(given)].cursor THEN Len(given) ELSE None

\* The answer.  In a summary, `returned` counts entries also when they were grouped.
Respond ==
    /\ pc = "rows"
    /\ Grouped => done = Len(given)
    /\ LET rows == IF Grouped THEN [g \in DOMAIN groups |-> groups[g].row]
                              ELSE [k \in DOMAIN given |-> k]
           summary == args.summary = TRUE
       IN  Reply([ok |-> TRUE, rows |-> rows, cursor |-> NextCursor, truncated |-> more,
                  returned |-> IF summary THEN Len(given) ELSE Len(rows),
                  summary |-> IF summary THEN Summary ELSE None])
    /\ UNCHANGED << call, page, done, groups >>

Rest ==
    /\ pc = "done"
    /\ ~Told \/ tries = MaxTries
    /\ UNCHANGED vars

Next == Check \/ Retry \/ List \/ Group \/ Respond \/ Rest

-----------------------------------------------------------------------------
Answered == pc = "done" /\ answer.ok

\* A client is told a start only when its window is too large, and it is the documented one,
\* seven days before the end (docs/requirements.md:345), for an end given in milliseconds;
\* for a finer one it is earlier, by less than the millisecond it is printed in.
AdviceIsWidest ==
    Told =>
        /\ args.start < args.end - Week
        /\ answer.maximum <= args.end - Week
        /\ args.end - Week < answer.maximum + Milli
        /\ args.end % Milli = 0 => answer.maximum = args.end - Week

\* "The seven-day window is inclusive" (docs/requirements.md:345): for an end given in
\* milliseconds, the advice is a window of exactly seven days, and it is accepted.
AdviceAcceptedOnMillis ==
    (Told /\ tries > 1) => (args.end % Milli # 0)

Legal ==
    /\ \A field \in DOMAIN args : args[field] # Mistyped
    /\ \A field \in DOMAIN args \ {"grep"} : args[field] # Bad
    /\ None \notin {args.start, args.end}
    /\ args.start < args.end
    /\ (args.large = TRUE) \/ (args.end - Week <= args.start)
    /\ args.limit # None => args.limit \in 1 .. MaxLimit
    /\ args.fields # None =>
          /\ ToSet(args.fields) \in (SUBSET Fields) \ {{}}
          /\ Cardinality(ToSet(args.fields)) = Len(args.fields)
    /\ args.others = None

\* Exactly the legal calls get to the journal: both ends given, in order, no more than a
\* week apart unless that was allowed, and every other argument one of those documented, but
\* for a pattern, which is refused when the journal has been opened.  With one that does not
\* compile nothing is read and no cursor is sought, and invalid_grep is said of no other.
OnlyLegalPass ==
    (pc # "received") =>
        /\ Legal <=> (pc \in {"list", "rows"} \/ answer.ok
                         \/ answer.code \in {"internal", "invalid_cursor", "invalid_grep"})
        /\ args.grep = Bad =>
              pc # "rows" /\ (pc = "done" => ~answer.ok /\ answer.code # "invalid_cursor")
        /\ (pc = "done" /\ ~answer.ok /\ answer.code = "invalid_grep") => args.grep = Bad

Members(g) == {k \in 1 .. done : Key(given[k]) = groups[g].key}

\* After every entry the groups are a partition of what was seen: each entry counts once, in
\* the only group of its key, whose times are those of its earliest and its latest entry in
\* whichever order they come, whose row is the one met first, and which stands where that did.
GroupsPartition ==
    /\ Grouped => \A k \in 1 .. done :
          \E g \in DOMAIN groups : groups[g].key = Key(given[k])
    /\ \A g, h \in DOMAIN groups :
          g < h => (groups[g].key # groups[h].key /\ groups[g].row < groups[h].row)
    /\ \A g \in DOMAIN groups :
          /\ groups[g].count = Cardinality(Members(g))
          /\ groups[g].row \in Members(g)
          /\ \A k \in Members(g) : /\ groups[g].row <= k
                                   /\ groups[g].first <= given[k].time
                                   /\ given[k].time <= groups[g].last
          /\ \E k \in Members(g) : given[k].time = groups[g].first
          /\ \E k \in Members(g) : given[k].time = groups[g].last

\* Continuation advances over raw rows (docs/requirements.md:344): a cursor is told only when
\* rows are left, and lies behind every entry of the page, grouped or not, so that no member
\* of a group is delivered again.  A page that is cut off has none only if the journal gave
\* none for its last entry: whether rows are left is for `truncated` to say.
CursorBehindPage ==
    Answered =>
        /\ answer.cursor # None =>
              answer.truncated /\ (\A k \in DOMAIN given : k <= answer.cursor)
        /\ (answer.cursor = None /\ answer.truncated) =>
              given # << >> /\ ~given[Len(given)].cursor

\* A list names, with the right counts, the values that occur most often.
IsTopOf(list, values) ==
    LET Times(value) == Cardinality({k \in DOMAIN values : values[k] = value})
        Shown == {list[k].key : k \in DOMAIN list}
    IN  /\ \A k \in DOMAIN list : list[k].count = Times(list[k].key)
        /\ \A value \in ToSet(values) \ ({None} \union Shown) :
              Len(list) = Top /\ (\A k \in DOMAIN list : Times(value) <= list[k].count)

\* The units and the messages a summary leaves out are never more frequent than those it
\* shows, a unit is a hotspot exactly when it logged an error of priority 3 or worse, and the
\* counts are right.
SummaryShowsTop ==
    (Answered /\ answer.summary # None) =>
        LET hotspots == answer.summary.hotspots
            Errors(unit) ==
                {k \in DOMAIN given : given[k].unit = unit /\ given[k].priority \in 0 .. 3}
            Units == {given[k].unit : k \in DOMAIN given} \ {None}
        IN  /\ IsTopOf(answer.summary.units, [k \in DOMAIN given |-> given[k].unit])
            /\ IsTopOf(answer.summary.messages, [k \in DOMAIN given |-> given[k].message])
            /\ \A p \in DOMAIN answer.summary.priorities :
                  answer.summary.priorities[p] =
                      Cardinality({k \in DOMAIN given : PriorityKey(given[k]) = p})
            /\ {hotspots[k].key : k \in DOMAIN hotspots} = {u \in Units : Errors(u) # {}}
            /\ \A k \in DOMAIN hotspots :
                  hotspots[k].count = Cardinality(Errors(hotspots[k].key))

=============================================================================
