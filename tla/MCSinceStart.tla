---------------------------- MODULE MCSinceStart ----------------------------
(***************************************************************************)
(* SinceStart for TLC: two ticks to the millisecond, three entries and     *)
(* pages of one, so that the unit may start again between the pages.       *)
(***************************************************************************)
EXTENDS SinceStart

Call(explicit, ofUnit, scope, order, end, large) ==
    [explicit |-> explicit, unit |-> ofUnit, scope |-> scope, order |-> order, end |-> end,
     limit |-> None, large |-> large]

MCRequests ==
    {Call(FALSE, 1, None, order, 4, large) : order \in {"asc", "desc"}, large \in {None, TRUE}}
    \union {Call(TRUE, 1, None, None, 4, None), Call(FALSE, None, None, None, 4, None),
            Call(FALSE, 1, "both", None, 4, None)}

=============================================================================
