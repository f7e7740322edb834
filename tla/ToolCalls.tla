----------------------------- MODULE ToolCalls -----------------------------
(***************************************************************************)
(* One tools/call request (src/src/domain/tools.rs): handle_tools_call     *)
(* finds the tool, and its handler takes the arguments to an answer.       *)
(* ServiceRows, TimerRows and LogCall are the handlers of the list tools;  *)
(* of get_container_status, whose call of podman is PodmanRunner's, there  *)
(* is here what becomes of the command line podman printed.  (For          *)
(* get_unit_status see UnitInspection.)                                    *)
(***************************************************************************)
EXTENDS Integers, Sequences

CONSTANTS
    None, Mistyped, Bad,      \* see ServiceRows
    MaxLimit, DefaultLimit,   \* the three tools have the same
    ServiceCalls, Services, MaxFailed,
    TimerCalls, Timers, Nows, Second, Grace, Soonest,
    LogCalls, MaxTries, Pages, Top, Milli, Week, Fields,
    Redacted, Arguments, MaxLength

VARIABLES
    tool,       \* the name of the tool
    args,       \* its arguments
    pc,         \* "received", "list", "rows" or "done"
    given,      \* what the provider returned
    answer,     \* the response, None until there is one
    now,        \* of list_timers
    tries, more, done, groups, \* of list_logs
    out, redactNext            \* of get_container_status

logs == << tries, more, done, groups >>
argv == << out, redactNext >>
vars == << tool, args, pc, given, answer, now, logs, argv >>

ListServices == INSTANCE ServiceRows WITH Calls <- ServiceCalls, Listings <- Services
ListTimers == INSTANCE TimerRows WITH Calls <- TimerCalls, Listings <- Timers
ListLogs == INSTANCE LogCall WITH Calls <- LogCalls
Argv == INSTANCE ArgvRedaction WITH args <- given

-----------------------------------------------------------------------------
(***************************************************************************)
(* What the constants stand for.                                           *)
(***************************************************************************)

\* Why a call of a list tool is refused.
Codes == {
    "invalid_params", "invalid_scope", "invalid_state", "invalid_limit", "invalid_sort",
    "invalid_order", "invalid_fields", "invalid_group_by", "invalid_utc_time",
    "missing_time_range", "invalid_time_range", "time_range_too_large", "invalid_unit",
    "invalid_priority", "invalid_cursor", "invalid_grep", "internal"}

ASSUME NamesAssumption ==
    /\ \A name \in {None, Mistyped, Bad} :
          name \notin Int \union BOOLEAN \union STRING \union Seq(STRING) \union Codes
              \union DOMAIN ListTimers!Rank
              \union {"name", "asc", "failed", "exclude_units", "scope", "priority", "unit"}
    /\ None \notin {Mistyped, Bad, Redacted} /\ Mistyped # Bad
    /\ None \notin [ok : {FALSE}, code : Codes]

ASSUME LimitsAssumption ==
    /\ MaxLimit \in Nat /\ DefaultLimit \in 1 .. MaxLimit
    /\ MaxFailed \in Nat \ {0} /\ Soonest \in Nat /\ Top \in Nat
    /\ Second \in Nat \ {0} /\ Grace \in Nat /\ Nows \subseteq Int
    /\ Milli \in Nat \ {0} /\ Week \in Nat /\ Week % Milli = 0

\* The arguments of the list tools, of the right type or Mistyped.
ASSUME CallsAssumption ==
    /\ \A c \in ServiceCalls \union TimerCalls \union LogCalls :
          /\ c.limit \in Nat \union {None, Mistyped}
          /\ c.summary \in BOOLEAN \union {None, Mistyped}
    /\ \A c \in ServiceCalls :
          /\ DOMAIN c = {"scope", "state", "names", "limit", "summary"}
          /\ c.names # Bad
    /\ \A c \in TimerCalls :
          /\ DOMAIN c = {"scope", "limit", "state", "name", "sort", "order", "overdueOnly",
                         "summary"}
          /\ c.overdueOnly \in BOOLEAN \union {None, Mistyped} /\ c.name # Bad
    /\ \A c \in LogCalls :
          /\ DOMAIN c = {"start", "end", "large", "limit", "order", "fields", "group",
                         "summary", "others", "grep"}
          /\ {c.start, c.end} \subseteq Int \union {None, Mistyped, Bad}
          /\ c.large \in BOOLEAN \union {None, Mistyped}
          /\ c.fields \in Seq(STRING) \union {None, Mistyped}
          /\ c.others \in {None, Mistyped, "exclude_units", "scope", "priority", "unit"}

\* What the providers return.
ASSUME RowsAssumption ==
    /\ Services \subseteq Seq([unit : Int, state : STRING])
    /\ Timers \subseteq Seq([unit : Int, state : DOMAIN ListTimers!Rank, broken : BOOLEAN,
                            next : Int \union {None}, last : Int \union {None}])
    /\ Pages \subseteq Seq([unit : Int \union {None}, priority : Nat \union {None},
                           message : Int \union {None}, time : Int, cursor : BOOLEAN])
    /\ Arguments \ {None} \subseteq [dash : BOOLEAN, space : BOOLEAN, named : BOOLEAN,
                                     value : {None, "plain", "word"}]

-----------------------------------------------------------------------------

Init ==
    /\ \/ tool = "list_services" /\ ListServices!Init
       \/ tool = "list_timers" /\ ListTimers!Init
       \/ tool = "list_logs" /\ ListLogs!Init
       \/ /\ tool \in {"get_container_status", "unknown"}
          /\ args \in {None, Mistyped}
          /\ pc = "received" /\ given = << >> /\ answer = None
    /\ now = None
    /\ tries = 1 /\ more = FALSE /\ done = 0 /\ groups = << >>
    /\ Argv!Init

Refused(code) == [ok |-> FALSE, code |-> code]

\* No such tool.
NotFound ==
    /\ tool = "unknown" /\ pc = "received"
    /\ pc' = "done" /\ answer' = Refused("tool_not_found")
    /\ UNCHANGED << tool, args, given, now, logs, argv >>

\* The container is inspected, or its name does not decode.
Inspect ==
    /\ tool = "get_container_status" /\ pc = "received"
    /\ \/ args = Mistyped /\ pc' = "done" /\ answer' = Refused("invalid_params") /\ given' = given
       \/ args # Mistyped /\ pc' = "rows" /\ answer' = None /\ given' \in Argv!Arrays
    /\ UNCHANGED << tool, args, now, logs, argv >>

Sanitize ==
    /\ tool = "get_container_status" /\ pc = "rows"
    /\ Argv!Step
    /\ UNCHANGED << tool, args, pc, answer, now, logs >>

Present ==
    /\ tool = "get_container_status" /\ pc = "rows" /\ Len(out) = Len(given)
    /\ pc' = "done" /\ answer' = [ok |-> TRUE, command |-> out]
    /\ UNCHANGED << tool, args, given, now, logs, argv >>

Rest == tool \in {"get_container_status", "unknown"} /\ pc = "done" /\ UNCHANGED vars

Next ==
    \/ tool = "list_services" /\ ListServices!Next /\ UNCHANGED << tool, now, logs, argv >>
    \/ tool = "list_timers" /\ ListTimers!Next /\ UNCHANGED << tool, logs, argv >>
    \/ tool = "list_logs" /\ ListLogs!Next /\ UNCHANGED << tool, now, argv >>
    \/ NotFound
    \/ Inspect \/ Sanitize \/ Present
    \/ Rest

Spec == Init /\ [][Next]_vars

-----------------------------------------------------------------------------
(***************************************************************************)
(* Properties: each asks one question of every tool it concerns; the parts *)
(* are stated, and explained, in the modules of the handlers.              *)
(***************************************************************************)

\* A page is the beginning, in the order asked for, of all rows that match, counted before
\* the limit; timers without a time come last in both directions, and the order of the others
\* is that of whole seconds.
PageIsFirst ==
    /\ (tool = "list_services") => ListServices!PageIsFirst
    /\ (tool = "list_timers") => ListTimers!PageIsFirst

\* A summary describes the page it comes with, and what it leaves out is never more urgent
\* or frequent than what it shows, times taken in whole seconds; a timer is overdue by the
\* documented rule.
SummaryIsTrue ==
    /\ (tool = "list_services") => ListServices!SummaryOfPage
    /\ (tool = "list_timers") => (ListTimers!SummaryOfPage /\ ListTimers!OverdueByTheRule)
    /\ (tool = "list_logs") => ListLogs!SummaryShowsTop

\* A call is refused exactly when one of its arguments is not acceptable, and before the
\* provider is asked, but for a pattern of list_logs, which is refused before anything is
\* read; an oversized window is refused with the widest one that is not.
RefusedForCause ==
    /\ (tool = "list_services") => ListServices!RefusedForCause
    /\ (tool = "list_timers") => ListTimers!RefusedForCause
    /\ (tool = "list_logs") =>
          /\ ListLogs!OnlyLegalPass
          /\ ListLogs!AdviceIsWidest /\ ListLogs!AdviceAcceptedOnMillis

\* Grouping neither loses nor repeats an entry of a page, and continues behind all of them.
GroupsPartition ==
    (tool = "list_logs") => (ListLogs!GroupsPartition /\ ListLogs!CursorBehindPage)

\* Values of sensitive flags and assignments are never shown, and nothing else is hidden.
ValuesHidden ==
    (tool = "get_container_status") => (Argv!ValuesHidden /\ Argv!SafeKept)

=============================================================================
