------------------------------ MODULE LogQuery ------------------------------
(***************************************************************************)
(* The row test of list_logs: which journal entries a LogQuery selects.    *)
(* An entry is a record [ts, sys, usr, prio, text]: its realtime stamp,    *)
(* _SYSTEMD_UNIT, _SYSTEMD_USER_UNIT, PRIORITY, and what the grep pattern  *)
(* makes of MESSAGE ("match", "other", or None without a message).         *)
(*                                                                         *)
(* A query is a record [scope, unit, excluded, threshold, grep, order,     *)
(* limit, start, end], normalised as build_log_query leaves it: unit names *)
(* compared without case are equal values here, and times are in           *)
(* microseconds, the resolution at which the scan compares them.           *)
(***************************************************************************)
EXTENDS Integers, Sequences

CONSTANT None   \* Option::None

\* The one unit an entry counts for.  With both scopes it is the system unit
\* whenever the entry has one.
SelectUnit(scope, e) ==
    CASE scope = "system" -> e.sys
      [] scope = "user"   -> e.usr
      [] scope = "both"   -> IF e.sys # None THEN e.sys ELSE e.usr

PassesUnit(q, e) ==
    q.unit # None => SelectUnit(q.scope, e) = q.unit

PassesExclusions(q, e) ==
    SelectUnit(q.scope, e) \notin q.excluded \ {None}

PassesPriority(q, e) ==
    q.threshold # None => e.prio # None /\ e.prio <= q.threshold

PassesGrep(q, e) ==
    q.grep => e.text = "match"

InWindow(q, e) ==
    q.start <= e.ts /\ e.ts <= q.end

\* The rows of the answer, were the whole journal one page.
Selects(q, e) ==
    /\ InWindow(q, e)
    /\ PassesUnit(q, e)
    /\ PassesExclusions(q, e)
    /\ PassesPriority(q, e)
    /\ PassesGrep(q, e)

\* The entry at i comes before the entry at j in the order of the answer.
Before(q, i, j) ==
    IF q.order = "asc" THEN i < j ELSE j < i

=============================================================================
