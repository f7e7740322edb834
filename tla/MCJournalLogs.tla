---------------------------- MODULE MCJournalLogs ----------------------------
(***************************************************************************)
(* JournalLogs on a short journal: rows before, in and after the window,   *)
(* some of another unit, and the two orders.                               *)
(***************************************************************************)
EXTENDS JournalLogs

CONSTANTS a, b   \* two units

Entry(t, u) == [ts |-> t, sys |-> u, usr |-> None, prio |-> 6, text |-> "match"]

MCEntries == {Entry(t, u) : t \in 1..3, u \in {a}} \union {Entry(2, b)}

Query(o, l, s, e) ==
    [scope |-> "system", unit |-> a, excluded |-> {}, threshold |-> None,
     grep |-> FALSE, order |-> o, limit |-> l, start |-> s, end |-> e]

MCQueries ==
    {Query("asc", 1, 2, 3), Query("desc", 1, 1, 2), Query("asc", 2, 1, 2),
     Query("desc", 2, 2, 3)}

\* As journald stamps the records of a user service: _SYSTEMD_UNIT names the
\* user manager (b), _SYSTEMD_USER_UNIT the service (a).
UserEntry(t) == [Entry(t, b) EXCEPT !.usr = a]

MCScopeEntries == {Entry(1, a), UserEntry(1)}

MCScopeQueries == {[Query("asc", 2, 1, 2) EXCEPT !.scope = "both"]}

=============================================================================
