----------------------------- MODULE MCToolCalls -----------------------------
(***************************************************************************)
(* ToolCalls for TLC: what each tool may be asked, and what its provider   *)
(* may return.                                                             *)
(***************************************************************************)
EXTENDS ToolCalls, TLC

-----------------------------------------------------------------------------
(* Up to four services, two of them of the same name. *)

MCServices ==
    {[k \in DOMAIN states |-> [unit |-> << 1, 1, 2, 3 >>[k], state |-> states[k]]] :
        states \in UNION {[1 .. n -> {"active", "inactive", "failed"}] : n \in 0 .. 4}}

ServiceCall(scope, state, names, limit, summary) ==
    [scope |-> scope, state |-> state, names |-> names, limit |-> limit, summary |-> summary]

MCServiceCalls ==
    {ServiceCall(None, state, names, limit, TRUE) :
        state \in {None, "failed"}, names \in {None, {1, 3}}, limit \in {None, 0, 1, 3, 4}}
    \union {ServiceCall(Bad, Bad, None, None, None), ServiceCall("both", Bad, None, 0, FALSE),
            ServiceCall("both", "active", None, None, FALSE),
            ServiceCall(Bad, None, None, Mistyped, None)}

-----------------------------------------------------------------------------
(* Up to three timers, the first two of the same name in two managers,     *)
(* around a time at which some are due, past and overdue.                  *)

Timer(state, broken, next, last) ==
    [state |-> state, broken |-> broken, next |-> next, last |-> last]

MCTimerStates == {
    Timer("active", FALSE, 3, 1), Timer("active", FALSE, 4, 2), Timer("active", TRUE, 8, None),
    Timer("active", FALSE, None, 3), Timer("failed", FALSE, 3, 4),
    Timer("inactive", FALSE, None, None)}

MCTimers ==
    {[k \in DOMAIN timers |-> timers[k] @@ [unit |-> << 1, 1, 2 >>[k]]] :
        timers \in UNION {[1 .. n -> MCTimerStates] : n \in 0 .. 3}}

TimerCall(scope, limit, state, name, sort, order, overdueOnly, summary) ==
    [scope |-> scope, limit |-> limit, state |-> state, name |-> name, sort |-> sort,
     order |-> order, overdueOnly |-> overdueOnly, summary |-> summary]

MCAnyTimer == TimerCall(None, None, None, None, None, None, None, None)

MCTimerCalls ==
    {TimerCall("both", limit, None, None, sort, order, overdueOnly, TRUE) :
        limit \in {1, 2}, sort \in {"next", "last", "state", None}, order \in {None, "desc"},
        overdueOnly \in {None, TRUE}}
    \union {[MCAnyTimer EXCEPT !.state = "active", !.name = 1]}
    \union {[MCAnyTimer EXCEPT !.limit = limit, !.sort = sort] :
               limit \in {0, 3, 4}, sort \in {Bad, "next"}}
    \union {[MCAnyTimer EXCEPT !.scope = Bad], [MCAnyTimer EXCEPT !.state = Bad],
            [MCAnyTimer EXCEPT !.order = Bad], [MCAnyTimer EXCEPT !.summary = Mistyped]}

-----------------------------------------------------------------------------
(* Windows around the longest one, of four milliseconds, with ends on a    *)
(* millisecond and off it; pages in either order and with clocks that were *)
(* set back, among their entries three that differ in one part of the key. *)

Entry(unit, priority, message, time) ==
    [unit |-> unit, priority |-> priority, message |-> message, time |-> time, cursor |-> TRUE]

MCEntries ==
    {Entry(1, 3, 1, 1), Entry(1, 3, 1, 2), Entry(1, 3, 1, 3), Entry(2, 4, 1, 2),
     Entry(2, 3, 2, 1), [Entry(None, 4, None, 3) EXCEPT !.cursor = FALSE],
     Entry(1, None, 1, 1)}

MCPages == UNION {[1 .. n -> MCEntries] : n \in 0 .. 3}

LogCall(start, end, large, limit) ==
    [start |-> start, end |-> end, large |-> large, limit |-> limit, order |-> None,
     fields |-> None, group |-> None, summary |-> None, others |-> None,
     grep |-> None]

MCWindow == LogCall(4, 10, None, None)

MCLogCalls ==
    {LogCall(start, end, large, limit) :
        start \in 0 .. 6 \union {None}, end \in {6, 11, 12} \union {None},
        large \in {None, TRUE}, limit \in {None, 0, 4}}
    \union {[MCWindow EXCEPT !.limit = 3, !.group = group, !.summary = summary] :
               group \in {None, "message"}, summary \in {None, TRUE}}
    \union {[MCWindow EXCEPT !.start = Bad], [MCWindow EXCEPT !.end = Bad],
            [MCWindow EXCEPT !.order = Bad], [MCWindow EXCEPT !.group = Bad],
            [MCWindow EXCEPT !.limit = Mistyped], [MCWindow EXCEPT !.grep = Mistyped],
            [MCWindow EXCEPT !.grep = Bad], [MCWindow EXCEPT !.grep = "pattern"],
            [MCWindow EXCEPT !.grep = Bad, !.start = 0]}
    \union {[MCWindow EXCEPT !.others = other] :
               other \in {"exclude_units", "scope", "priority", "unit"}}
    \union {[MCWindow EXCEPT !.fields = fields] :
               fields \in {<< >>, << "unit" >>, << "unit", "pid" >>, << "unit", "unit" >>,
                           << "unit", "colour" >>}}

-----------------------------------------------------------------------------
(* One argument of each shape. *)

Text(dash, space, named, value) ==
    [dash |-> dash, space |-> space, named |-> named, value |-> value]

MCArguments == {
    None,
    Text(FALSE, FALSE, FALSE, None),    \* serve
    Text(TRUE, FALSE, FALSE, None),     \* --port
    Text(TRUE, FALSE, TRUE, None),      \* --password
    Text(FALSE, TRUE, TRUE, None),      \* Bearer abc
    Text(TRUE, TRUE, TRUE, None),       \* -H authorization: abc
    Text(TRUE, FALSE, TRUE, "plain"),   \* --token=abc
    Text(FALSE, FALSE, FALSE, "plain"), \* LANG=C
    Text(TRUE, FALSE, FALSE, "word")    \* --mode=token
  }

=============================================================================
