-------------------------- MODULE MCUnitInspection --------------------------
(***************************************************************************)
(* UnitInspection for TLC.  Unit 0 is inspected; 1 is a service and 2, say *)
(* a mount, is not.  In some scenarios units change, in the others the     *)
(* journal is walked while it grows.                                       *)
(***************************************************************************)
EXTENDS UnitInspection

Call(unit, scope, limit) == [unit |-> unit, scope |-> scope, limit |-> limit]

MCCalls ==
    {Call(None, None, None), Call(9, None, None), Call(0, "both", None)} \union
    {Call(0, scope, limit) : scope \in {None, "user"}, limit \in {None, 0, 1, 3}}

Entry(unit, kind, manager) == [unit |-> unit, kind |-> kind, manager |-> manager]

MCEntries ==
    {Entry(0, "started", "system"), Entry(0, "stopped", "user"),
     Entry(0, None, "user"), Entry(1, "failed", "user")}

MCJournals == UNION {[1 .. n -> MCEntries] : n \in 0 .. 3}

MCChanging ==
    [request : {Call(0, None, 1)},
     depends : {[requires |-> {1, 2}, wants |-> {1}]},
     live : [Units -> States \union {None}],
     journal : {<< Entry(0, "started", "system") >>},
     bounds : {[changes |-> 2, arrivals |-> 0]}]

MCGrowing ==
    [request : MCCalls,
     depends : {[requires |-> {}, wants |-> {}]},
     live : {[n \in Units |-> state] : state \in {None, State("loaded", "active")}},
     journal : MCJournals,
     bounds : {[changes |-> 0, arrivals |-> 1]}]

MCScenarios == MCChanging \union MCGrowing

=============================================================================
