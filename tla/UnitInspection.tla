--------------------------- MODULE UnitInspection ---------------------------
(***************************************************************************)
(* get_unit_status (src/src/systemd_client.rs and                          *)
(* src/src/domain/tools/unit_status.rs): the unit is looked up in a        *)
(* listing, then a second time for its dependencies, then a blocking       *)
(* thread walks the journal backwards for its transitions, while units     *)
(* change and the journal grows.                                           *)
(*                                                                         *)
(* A unit is None when the manager does not have it, or [load, active].    *)
(* The manager is the one of the request's scope.  Listing and enriching   *)
(* the row are UnitListing's; here the row is the unit's state when it was *)
(* listed.  Dependencies do not change meanwhile (no daemon-reload), and   *)
(* the result of a service is as good or bad as its active state.          *)
(*                                                                         *)
(* The journal is the one of the scope, [unit, kind, manager] for an       *)
(* entry, kind None when its MESSAGE_ID is none of systemd's transitions.  *)
(* One entry can name a unit of either manager: UNIT or USER_UNIT.         *)
(***************************************************************************)
EXTENDS Ordering, Sequences

CONSTANTS
    None,            \* Option::None
    Target,          \* the unit of the request
    Dependencies,    \* the units it may depend on, numbered by name
    Services,        \* those of them that are services
    DefaultLimit,    \* transition_limit when there is none
    MaxLimit,        \* its maximum
    MaxScan,         \* MAX_TRANSITION_SCAN
    Scenarios,       \* what TLC looks at, see below
    Arrivals,        \* the entries that may be appended
    MaxFaults        \* bound: calls that fail

(***************************************************************************)
(* A scenario is a request [unit, scope, limit], None for what is missing, *)
(* the [requires, wants] of the target, the units and the journal as they  *)
(* are at first, and bounds [changes, arrivals]: how often units change    *)
(* their state, and how many entries are appended.                         *)
(***************************************************************************)

Units == {Target} \union Dependencies
Relations == {"requires", "wants"}
State(load, active) == [load |-> load, active |-> active]
States == {State("loaded", "active"), State("loaded", "failed"), State("not-found", "inactive")}

\* The entries a journal may have.
Entries == Arrivals \union UNION {{s.journal[k] : k \in DOMAIN s.journal} : s \in Scenarios}

ASSUME DependenciesAssumption == IsFiniteSet(Dependencies) /\ Dependencies \subseteq Int

ASSUME LimitsAssumption == MaxLimit \in Nat /\ MaxScan \in Nat \ {0}

ASSUME ScenariosAssumption ==
    \A s \in Scenarios :
        /\ s.live \in [Units -> States \union {None}]
        /\ s.depends \in [Relations -> SUBSET Dependencies]
        /\ s.journal \in Seq(Entries)

ASSUME NoneAssumption ==
    /\ None \notin States
    /\ None \notin {"active", "failed", "inactive"}
    /\ None \notin {"invalid_params", "invalid_unit", "invalid_scope", "invalid_transition_limit"}

VARIABLES
    bounds,      \* the bounds of the scenario
    request,     \* the call
    depends,     \* the target's Requires and Wants
    live,        \* the state of every unit
    clock,       \* how many changes there were
    journal,     \* the journal of the scope
    pc,          \* the step the handler is at
    row,         \* the unit as it was listed, None until it was
    named,       \* the dependencies read, by relationship
    rows,        \* the units of the second listing
    dependents,  \* failed_dependencies
    checked,     \* how many of those have had their result read
    at,          \* the position of the reader, 0 before the first entry
    start,       \* history: where the walk began
    scanned,     \* how many times the reader was moved
    transitions, \* recent_transitions
    answer,      \* the response, None until there is one
    seen,        \* history: the states of every unit during the request
    failed       \* history: the calls that failed

host == << live, clock, seen, journal >>
walk == << at, start, scanned, transitions >>
lookup == << named, rows, dependents, checked >>
given == << bounds, request, depends >>
vars == << given, host, pc, row, lookup, walk, answer, failed >>

\* normalize_scope
Scope == IF request.scope = None THEN "system" ELSE request.scope

\* A user's journal has entries of that user's manager only.  The system's has those of
\* the users whose entries are not kept apart, too.
Belongs(entry) == (Scope = "user") => (entry.manager = "user")

Init ==
    /\ \E s \in Scenarios :
          /\ request = s.request /\ depends = s.depends
          /\ live = s.live /\ journal = s.journal
          /\ bounds = s.bounds
    /\ clock = 0
    /\ \A k \in DOMAIN journal : Belongs(journal[k])
    /\ pc = "received"
    /\ row = None
    /\ named = [r \in Relations |-> {}]
    /\ rows = << >> /\ dependents = << >> /\ checked = 0
    /\ at = 0 /\ start = 0 /\ scanned = 0 /\ transitions = << >>
    /\ answer = None
    /\ seen = [n \in Units |-> {live[n]}]
    /\ failed = {}

-----------------------------------------------------------------------------
(***************************************************************************)
(* systemd and journald.                                                   *)
(***************************************************************************)

Change(n) ==
    /\ pc # "done" /\ clock < bounds.changes
    /\ clock' = clock + 1
    /\ \E state \in (States \union {None}) \ {live[n]} :
          /\ live' = [live EXCEPT ![n] = state]
          /\ seen' = [seen EXCEPT ![n] = @ \union {state}]
    /\ UNCHANGED << given, journal, pc, row, lookup, walk, answer, failed >>

Arrive ==
    /\ pc # "done" /\ clock < bounds.arrivals
    /\ clock' = clock + 1
    /\ \E entry \in {e \in Arrivals : Belongs(e)} : journal' = Append(journal, entry)
    /\ UNCHANGED << given, live, seen, pc, row, lookup, walk, answer, failed >>

-----------------------------------------------------------------------------
(***************************************************************************)
(* The handler and the lookup.                                             *)
(***************************************************************************)

Reply(response) == pc' = "done" /\ answer' = response

Refused(code) == [ok |-> FALSE, code |-> code]

\* A call that may fail does.
Fails(call) ==
    /\ Cardinality(failed) < MaxFaults
    /\ failed' = failed \union {call}

Limit == IF request.limit = None THEN DefaultLimit ELSE request.limit

\* Arguments are checked in this order; scope "both" has no single manager to ask.
Refusal ==
    IF request.unit = None THEN "invalid_params"
    ELSE IF request.unit # Target THEN "invalid_unit"
    ELSE IF Scope \notin {"system", "user"} THEN "invalid_scope"
    ELSE IF Limit \notin 1 .. MaxLimit THEN "invalid_transition_limit"
    ELSE None

Handle ==
    /\ pc = "received"
    /\ IF Refusal # None THEN Reply(Refused(Refusal)) ELSE pc' = "list" /\ answer' = None
    /\ UNCHANGED << given, host, row, lookup, walk, failed >>

\* list_service_units_for_single_scope, and find.
List ==
    /\ pc = "list"
    /\ row' = live[Target]
    /\ IF row' = None THEN Reply(Refused("unit_not_found"))
       ELSE pc' = "lookup" /\ answer' = None
    /\ UNCHANGED << given, host, lookup, walk, failed >>

ListFails ==
    /\ pc = "list"
    /\ Fails(<< "list" >>)
    /\ Reply(Refused("internal"))
    /\ UNCHANGED << given, host, row, lookup, walk >>

\* The connection and the manager's proxy; these errors are passed on.
ConnectFails ==
    /\ pc = "lookup"
    /\ Fails(<< "connect" >>)
    /\ Reply(Refused("internal"))
    /\ UNCHANGED << given, host, row, lookup, walk >>

\* GetUnit: only a loaded unit has a path, and any error is "unit_not_found".
GetUnit ==
    /\ pc = "lookup"
    /\ \/ live[Target] # None /\ pc' = "requires" /\ UNCHANGED << answer, failed >>
       \/ live[Target] = None /\ Reply(Refused("unit_not_found")) /\ UNCHANGED failed
       \/ Fails(<< "GetUnit" >>) /\ Reply(Refused("unit_not_found"))
    /\ UNCHANGED << given, host, row, lookup, walk >>

-----------------------------------------------------------------------------
(***************************************************************************)
(* read_failed_dependencies.                                               *)
(***************************************************************************)

Following(step) == IF step = "requires" THEN "wants" ELSE "rows"

\* unwrap_or_default: a property that cannot be read names nothing.
ReadRelation(relation) ==
    /\ pc = relation
    /\ \/ /\ named' = [named EXCEPT ![relation] = depends[relation]]
          /\ UNCHANGED failed
       \/ /\ \/ Fails(<< relation >>)
             \/ live[Target] = None /\ failed' = failed \union {<< relation >>}
          /\ UNCHANGED named
    /\ pc' = Following(relation)
    /\ UNCHANGED << given, host, row, rows, dependents, checked, walk, answer >>

\* A proxy or the second listing fails: there are no dependencies at all.
RowsFail ==
    /\ pc \in {"requires", "rows"}
    /\ Fails(<< "rows" >>)
    /\ pc' = "journal"
    /\ UNCHANGED << given, host, row, lookup, walk, answer >>

\* Mutant of IsFailed: what is not listed is taken to be fine.
IsFailedIfListed(state) ==
    state # None /\ (state.active = "failed" \/ state.load # "loaded")

\* Failed, missing, or not loaded.
IsFailed(state) == state = None \/ state.active = "failed" \/ state.load # "loaded"

\* Sorted by unit, then relationship ("requires" comes before "wants").
Precedes(d, e) ==
    d.unit < e.unit \/ (d.unit = e.unit /\ d.relation = "requires" /\ e.relation # d.relation)

\* classify_failed_dependencies: one row for each relationship with a unit that failed.
Failing(listed) ==
    {d \in Dependencies \X Relations : d[1] \in named[d[2]] /\ IsFailed(listed[d[1]])}

Dependent(listed, d) ==
    [unit |-> d[1], relation |-> d[2],
     state |-> IF listed[d[1]] = None THEN State("not-found", "inactive") ELSE listed[d[1]],
     result |-> None]

Classify(listed) == Arranged({Dependent(listed, d) : d \in Failing(listed)}, Precedes)

Rows ==
    /\ pc = "rows"
    /\ rows' = live
    /\ dependents' = Classify(live)
    /\ pc' = "results"
    /\ UNCHANGED << given, host, row, named, checked, walk, answer, failed >>

\* Only a service that was listed is asked for its result.
HasResult(d) == d.unit \in Services /\ rows[d.unit] # None

\* Mutant of Result: the first read that fails ends the request.
ResultOrError ==
    /\ pc = "results" /\ checked < Len(dependents)
    /\ LET d == dependents[checked + 1]
       IN  \/ /\ ~HasResult(d) /\ checked' = checked + 1
              /\ UNCHANGED << pc, answer, dependents, failed >>
           \/ /\ HasResult(d) /\ live[d.unit] # None /\ checked' = checked + 1
              /\ dependents' = [dependents EXCEPT ![checked + 1].result = live[d.unit].active]
              /\ UNCHANGED << pc, answer, failed >>
           \/ /\ HasResult(d) /\ Fails(<< "result", d.unit >>)
              /\ Reply(Refused("internal"))
              /\ UNCHANGED << checked, dependents >>
    /\ UNCHANGED << given, host, row, named, rows, walk >>

\* fetch_service_details of the next one: `.ok()`, its failure is the lack of a result.
Result ==
    /\ pc = "results" /\ checked < Len(dependents)
    /\ checked' = checked + 1
    /\ LET d == dependents[checked + 1]
           Get(value) == dependents' = [dependents EXCEPT ![checked + 1].result = value]
       IN  \/ ~HasResult(d) /\ UNCHANGED << dependents, failed >>
           \/ HasResult(d) /\ live[d.unit] # None /\ Get(live[d.unit].active) /\ UNCHANGED failed
           \/ /\ HasResult(d) /\ UNCHANGED dependents
              /\ \/ Fails(<< "result", d.unit >>)
                 \/ live[d.unit] = None /\ UNCHANGED failed
    /\ UNCHANGED << given, host, pc, row, named, rows, walk, answer >>

Results ==
    /\ pc = "results" /\ checked = Len(dependents)
    /\ pc' = "journal"
    /\ UNCHANGED << given, host, row, lookup, walk, answer, failed >>

-----------------------------------------------------------------------------
(***************************************************************************)
(* read_unit_transitions, in a blocking thread.                            *)
(***************************************************************************)

\* Mutant of Matches: entries of other units are taken too.
MatchesAny(entry) == entry.kind # None

\* A transition of a unit of that name, by UNIT or USER_UNIT: of whichever manager's.
Matches(entry) == entry.kind # None /\ entry.unit = Target

\* The journal opens, and the reader is put behind its end; the first step back finds
\* what the end is by then.
Previous == IF scanned = 0 THEN Len(journal) ELSE at - 1

\* Mutant of Scan: an entry that is no transition is read again.
ScanStuck ==
    /\ pc = "journal"
    /\ Len(transitions) < Limit /\ scanned < MaxScan /\ Previous > 0
    /\ IF Matches(journal[Previous])
       THEN /\ at' = Previous /\ scanned' = scanned + 1
            /\ start' = IF scanned = 0 THEN Previous ELSE start
            /\ transitions' = Append(transitions, journal[Previous])
       ELSE UNCHANGED walk
    /\ UNCHANGED << given, host, pc, row, lookup, answer, failed >>

\* One round of the loop that finds an entry.
Scan ==
    /\ pc = "journal"
    /\ Len(transitions) < Limit /\ scanned < MaxScan /\ Previous > 0
    /\ at' = Previous /\ scanned' = scanned + 1
    /\ start' = IF scanned = 0 THEN Previous ELSE start
    /\ transitions' = IF Matches(journal[Previous]) THEN Append(transitions, journal[Previous])
                      ELSE transitions
    /\ UNCHANGED << given, host, pc, row, lookup, answer, failed >>

Status(found) ==
    [ok |-> TRUE, row |-> row, dependents |-> dependents, transitions |-> found]

\* The limit, the bound, or the beginning of the journal is reached.
ScanEnds ==
    /\ pc = "journal"
    /\ Len(transitions) >= Limit \/ scanned >= MaxScan \/ Previous = 0
    /\ Reply(Status(transitions))
    /\ UNCHANGED << given, host, row, lookup, walk, failed >>

\* The journal cannot be opened or read: what was found so far is lost too.
ScanFails ==
    /\ pc = "journal"
    /\ Fails(<< "journal" >>)
    /\ Reply(Status(<< >>))
    /\ UNCHANGED << given, host, row, lookup, walk >>

Rest == pc = "done" /\ UNCHANGED vars

Serve ==
    \/ Handle
    \/ List \/ ListFails \/ ConnectFails \/ GetUnit
    \/ ReadRelation("requires") \/ ReadRelation("wants") \/ RowsFail
    \/ Rows \/ Result \/ Results
    \/ Scan \/ ScanEnds \/ ScanFails

Next ==
    \/ \E n \in Units : Change(n)
    \/ Arrive
    \/ Serve
    \/ Rest

\* The task and its blocking thread are scheduled, and every call returns.
Spec == Init /\ [][Next]_vars /\ WF_vars(Serve)

-----------------------------------------------------------------------------
(***************************************************************************)
(* Properties.                                                             *)
(***************************************************************************)

Reported(n, r) ==
    \E k \in DOMAIN answer.dependents :
        answer.dependents[k].unit = n /\ answer.dependents[k].relation = r

\* However units change meanwhile: a direct dependency that was failed, missing or not
\* loaded all through the request is reported, under each of its relationships, one that was
\* well all through is not, and nothing but a direct dependency ever is
\* (docs/requirements.md: "failed, missing, or unloaded direct Requires/Wants only").  Each is
\* listed once per relationship, in order, and one service's failure to answer costs that
\* service's result and nothing else.
DependenciesJudged ==
    (answer # None /\ answer.ok) =>
        \A n \in Units, r \in Relations :
            /\ Reported(n, r) =>
                  /\ n \in depends[r]
                  /\ \E state \in seen[n] : IsFailed(state)
            /\ (/\ n \in depends[r] /\ << r >> \notin failed /\ << "rows" >> \notin failed
                /\ \A state \in seen[n] :
                      \/ state = None
                      \/ state.active = "failed"
                      \/ state.load = "not-found") => Reported(n, r)
            /\ LET list == answer.dependents
               IN  /\ \A j, k \in DOMAIN list : j < k => Precedes(list[j], list[k])
                   /\ \A k \in DOMAIN list :
                         (/\ list[k].unit \in Services /\ list[k].result = None) =>
                             \/ None \in seen[list[k].unit]
                             \/ << "result", list[k].unit >> \in failed

\* After the listing found the unit, only the second lookup can fail the request: failures
\* of dependencies, their results and the journal cost their part of the answer.  And a unit
\* is reported missing only if the manager did not have it at some time during the request,
\* or the lookup failed.
PartsFailAlone ==
    answer # None =>
        /\ (~answer.ok /\ row # None) =>
              \/ << "connect" >> \in failed \/ << "GetUnit" >> \in failed
              \/ None \in seen[Target]
        /\ (answer = Refused("unit_not_found")) =>
              (None \in seen[Target] \/ << "GetUnit" >> \in failed)

\* The entries in the window, newest first, as many of them as the limit allows.
ShowsNewest(window) ==
    LET Place(k) == Cardinality({j \in window : j >= k})
    IN  /\ Len(answer.transitions) =
              (IF Cardinality(window) < Limit THEN Cardinality(window) ELSE Limit)
        /\ \A k \in window :
              (Place(k) <= Limit) => (answer.transitions[Place(k)] = journal[k])

\* Among the last MaxScan entries of the journal when the walk began, the transitions that
\* the request's manager logged of the unit are shown newest first, as many as the limit
\* allows, none skipped and none twice, however the journal grows meanwhile.  What else is
\* shown, in its place among them, is a transition of a unit of the same name: whether those
\* that the other manager logged are shown is left open (the code shows them).
NewestTransitions ==
    (answer # None /\ answer.ok /\ << "journal" >> \notin failed) =>
        LET oldest == IF start > MaxScan THEN start - MaxScan + 1 ELSE 1
            ofName == {k \in oldest .. start : journal[k].kind # None /\ journal[k].unit = Target}
            own == {k \in ofName : journal[k].manager = Scope}
        IN  \E window \in SUBSET ofName : own \subseteq window /\ ShowsNewest(window)

\* Every call is answered, whatever units, journal and calls do meanwhile.
InspectionAnswers == <>(answer # None)

=============================================================================
