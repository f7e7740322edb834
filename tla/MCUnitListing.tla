--------------------------- MODULE MCUnitListing ---------------------------
(***************************************************************************)
(* UnitListing with two matching units and one of another kind between     *)
(* them, the same names in both managers.                                  *)
(***************************************************************************)
EXTENDS UnitListing

MCProps == << "first", "second" >>

Ask(kind, s, state, limit) == [kind |-> kind, scope |-> s, state |-> state, limit |-> limit]

MCServiceQueries ==
    {Ask("service", "both", None, 3), Ask("service", "both", "active", 1),
     Ask("service", "user", None, 1)}

MCTimerQueries == {Ask("timer", "both", None, 9), Ask("timer", "system", "failed", 1)}

MCQueries == MCServiceQueries \union MCTimerQueries

=============================================================================
