----------------------------- MODULE UnitListing -----------------------------
(***************************************************************************)
(* list_services and list_timers (src/src/systemd_client.rs and            *)
(* src/src/domain/tools/): one ListUnits call per manager, then one        *)
(* concurrent task per matching unit that reads its properties one after   *)
(* another, while units start, fail and are unloaded underneath; for scope *)
(* "both", first the system manager's rows, then the user manager's, then  *)
(* the merge; at last the handler's filter, sort and page.                 *)
(*                                                                         *)
(* Unit names are numbered in their alphabetical order.  A unit's state is *)
(* [active, ver]: its active state, and a version no other state of any    *)
(* unit has, which stands for the values of all its properties.  Reading a *)
(* property returns the version it was read from; a property whose value   *)
(* the code turns into null (empty, or zero) is not told apart.  A Service *)
(* or Timer proxy that cannot be created is a failure of its reads.        *)
(* Of list_timers, trigger_unit is left out, which falls back to the       *)
(* timer's own name, and the queries are those that sort by unit and do    *)
(* not ask for overdue timers only.                                        *)
(***************************************************************************)
EXTENDS Ordering, SequencesExt

CONSTANTS
    None,        \* Option::None, and the state of a unit that is not loaded
    Matching,    \* the names with the suffix of the kind asked for
    Others,      \* the names of other units
    Props,       \* the properties of a row, in the order they are read
    Queries,     \* the normalised queries: [kind, scope, state, limit], kind "service" or "timer"
    MaxChanges,  \* bound: state changes of units
    MaxFaults    \* bound: D-Bus calls that fail

ASSUME NamesAssumption == IsFiniteSet(Matching) /\ Matching \subseteq Int

ASSUME PropsAssumption == Props \in Seq(ToSet(Props))

ASSUME QueriesAssumption ==
    \A q \in Queries : q.scope \in {"system", "user", "both"} /\ q.limit \in Nat

Names == Matching \union Others
Scopes == {"system", "user"}

\* The versions of a state, and the states of a unit that is loaded.
Versions == Scopes \X Names \X Nat
Loaded == [active : {"active", "failed"}, ver : Versions]

ASSUME NoneAssumption == None \notin Versions \union Loaded

VARIABLES
    query,     \* the request
    live,      \* live[s][n], the state of unit n of manager s
    clock,     \* how many changes there were
    pc,        \* "connect", "enrich", "reply" or "done"
    scope,     \* the manager being asked
    listing,   \* that manager's rows: name -> active state
    read,      \* how many properties each task is done with
    details,   \* what each task has read
    down,      \* the managers whose listing failed
    gathered,  \* the rows of each manager
    answer,    \* the response, None until there is one
    seen,      \* the states each unit has had during the request
    listed,    \* history: the units each manager listed, with their state
    failed     \* history: the calls and reads that failed

host == << live, clock, seen >>
vars == << query, live, clock, pc, scope, listing, read, details, down, gathered,
           answer, seen, listed, failed >>

\* The managers a query asks.
Asked == IF query.scope = "both" THEN Scopes ELSE {query.scope}

State(s, n, active, time) == [active |-> active, ver |-> << s, n, time >>]

Init ==
    /\ query \in Queries
    /\ \E loaded \in SUBSET (Scopes \X Names) :
          live = [s \in Scopes |-> [n \in Names |->
                     IF << s, n >> \in loaded THEN State(s, n, "active", 0) ELSE None]]
    /\ clock = 0
    /\ pc = "connect"
    /\ scope = IF query.scope = "user" THEN "user" ELSE "system"
    /\ listing = << >> /\ read = << >> /\ details = << >>
    /\ down = {}
    /\ gathered = [s \in Scopes |-> {}]
    /\ answer = None
    /\ seen = [s \in Scopes |-> [n \in Names |-> {live[s][n]}]]
    /\ listed = [s \in Scopes |-> << >>]
    /\ failed = {}

\* systemd: a unit changes its state, is loaded or unloaded.  What happens after the
\* answer does not matter.
Change(s, n) ==
    /\ pc # "done"
    /\ clock < MaxChanges
    /\ clock' = clock + 1
    /\ \E state \in {None} \union {State(s, n, a, clock') : a \in {"active", "failed"}} :
          /\ state # live[s][n]
          /\ live' = [live EXCEPT ![s][n] = state]
          /\ seen' = [seen EXCEPT ![s][n] = @ \union {state}]
    /\ UNCHANGED << query, pc, scope, listing, read, details, down, gathered, answer,
                    listed, failed >>

-----------------------------------------------------------------------------
(***************************************************************************)
(* list_service_units_for_single_scope, list_timer_units_for_single_scope. *)
(***************************************************************************)

\* The suffix test of map_and_sort_service_units and map_and_sort_timer_units.
Keeps(n) == n \in Matching

\* After the system manager, scope "both" turns to the user manager.
Proceed ==
    IF query.scope = "both" /\ scope = "system"
    THEN scope' = "user" /\ pc' = "connect"
    ELSE scope' = scope /\ pc' = "reply"

\* The bus cannot be reached, or ListUnits fails.
ListFails ==
    /\ pc = "connect"
    /\ Cardinality(failed) < MaxFaults
    /\ failed' = failed \union {<< scope >>}
    /\ down' = down \union {scope}
    /\ Proceed
    /\ UNCHANGED << query, host, listing, read, details, gathered, answer, listed >>

\* ListUnits returns what is loaded now; every matching row gets a task.
List ==
    /\ pc = "connect"
    /\ LET Here == {n \in Names : live[scope][n] # None}
           Rows(S) == [n \in S |-> live[scope][n].active]
       IN  /\ listing' = Rows({n \in Here : Keeps(n)})
           /\ listed' = [listed EXCEPT ![scope] = Rows(Here \intersect Matching)]
    /\ read' = [n \in DOMAIN listing' |-> 0]
    /\ details' = [n \in DOMAIN listing' |-> [p \in ToSet(Props) |-> None]]
    /\ pc' = "enrich"
    /\ UNCHANGED << query, host, scope, down, gathered, answer, failed >>

\* What a task can read: the unit as it is now, or a state its proxy has cached
\* since the task first read it.
Readable(n) ==
    LET Cached(ver) == \E p \in ToSet(Props) :
                           details[n][p] # None /\ details[n][p][3] <= ver[3]
    IN  {state.ver : state \in {st \in seen[scope][n] \ {None} :
                                  st = live[scope][n] \/ Cached(st.ver)}}

Reading(n) ==
    /\ pc = "enrich"
    /\ n \in DOMAIN read
    /\ read[n] < Len(Props)

NextProp(n) == Props[read[n] + 1]

\* One property of one unit is read.
Read(n) ==
    /\ Reading(n)
    /\ \E ver \in Readable(n) : details' = [details EXCEPT ![n][NextProp(n)] = ver]
    /\ read' = [read EXCEPT ![n] = @ + 1]
    /\ UNCHANGED << query, host, pc, scope, listing, down, gathered, answer, listed,
                    failed >>

\* fetch_service_details returns at the first error, and all it has read is lost.
GiveUp(n) ==
    /\ read' = [read EXCEPT ![n] = Len(Props)]
    /\ details' = [details EXCEPT ![n] = [p \in ToSet(Props) |-> None]]

\* Mutants of AfterFailure: list_services' rule for timers too, and a read that is
\* tried again until it succeeds.
AfterFailureGiveUp(n) == GiveUp(n)

AfterFailureRetry(n) == UNCHANGED << read, details >>

\* fetch_timer_details goes on with the next property.
AfterFailure(n) ==
    IF query.kind = "service" THEN GiveUp(n)
    ELSE /\ read' = [read EXCEPT ![n] = @ + 1]
         /\ UNCHANGED details

\* The call goes wrong, or the unit is not loaded any more.
ReadFails(n) ==
    /\ Reading(n)
    /\ (live[scope][n] # None => Cardinality(failed) < MaxFaults)
    /\ failed' = failed \union {<< scope, n, NextProp(n) >>}
    /\ AfterFailure(n)
    /\ UNCHANGED << query, host, pc, scope, listing, down, gathered, answer, listed >>

\* The Unit proxy of the task cannot be created: it reads nothing at all.
ProxyFails(n) ==
    /\ Reading(n)
    /\ read[n] = 0
    /\ Cardinality(failed) < MaxFaults
    /\ failed' = failed \union {<< scope, n, p >> : p \in ToSet(Props)}
    /\ GiveUp(n)
    /\ UNCHANGED << query, host, pc, scope, listing, down, gathered, answer, listed >>

\* Mutant of DetailsOf: the results of the tasks are not looked up by unit.
DetailsOfAny(n) == details[CHOOSE m \in DOMAIN details : TRUE]

\* details_by_unit
DetailsOf(n) == details[n]

\* All tasks are done; a row whose task gave up stays without details.
Gather ==
    /\ pc = "enrich"
    /\ \A n \in DOMAIN read : read[n] = Len(Props)
    /\ gathered' = [gathered EXCEPT ![scope] =
          {[unit |-> n, scope |-> scope, active |-> listing[n], details |-> DetailsOf(n)] :
               n \in DOMAIN listing}]
    /\ Proceed
    /\ UNCHANGED << query, host, listing, read, details, down, answer, listed, failed >>

-----------------------------------------------------------------------------
(***************************************************************************)
(* combine_scope_rows_by_key and the handlers.                             *)
(***************************************************************************)

\* By unit name.  The sort is stable, and the user manager's rows were put behind the
\* system manager's.
Comes(r1, r2) ==
    r1.unit < r2.unit \/ (r1.unit = r2.unit /\ r1.scope = "system" /\ r2.scope = "user")

\* Mutant of Merged: rows of the same name are taken to be the same unit.
MergedByName ==
    gathered["system"] \union
        {r \in gathered["user"] : \A twin \in gathered["system"] : twin.unit # r.unit}

Merged == gathered["system"] \union gathered["user"]

\* Only when every manager asked has failed is the request an error.
Hopeless == Asked \subseteq down

PassesState(active) == query.state \in {None, active}

\* The handler filters by state, sorts and pages.  The sorts before its own, of each
\* manager's rows and of the merged ones, leave that one nothing else to decide.
Reply ==
    /\ pc = "reply"
    /\ pc' = "done"
    /\ LET matches == Arranged({r \in Merged : PassesState(r.active)}, Comes)
           page == SubSeq(matches, 1, IF Len(matches) > query.limit THEN query.limit
                                      ELSE Len(matches))
       IN  answer' = IF Hopeless
                     THEN [ok |-> FALSE, rows |-> << >>, total |-> 0, truncated |-> FALSE]
                     ELSE [ok |-> TRUE, rows |-> page, total |-> Len(matches),
                           truncated |-> Len(matches) > Len(page)]
    /\ UNCHANGED << query, host, scope, listing, read, details, down, gathered, listed,
                    failed >>

Rest == pc = "done" /\ UNCHANGED vars

Serve ==
    \/ ListFails \/ List
    \/ \E n \in Matching : Read(n) \/ ReadFails(n) \/ ProxyFails(n)
    \/ Gather
    \/ Reply

Next ==
    \/ \E s \in Scopes, n \in Names : Change(s, n)
    \/ Serve
    \/ Rest

\* The task is scheduled, and every D-Bus call returns.
Spec == Init /\ [][Next]_vars /\ WF_vars(Serve)

-----------------------------------------------------------------------------
\* The units that have to be in the answer.
Due ==
    {d \in (Asked \ down) \X Matching :
        d[2] \in DOMAIN listed[d[1]] /\ PassesState(listed[d[1]][d[2]])}

\* The units of the answer.
Keys == [k \in DOMAIN answer.rows |-> << answer.rows[k].scope, answer.rows[k].unit >>]

\* However the managers changed meanwhile, the answer is the sorted beginning of
\* what they listed: each unit of each manager that could be asked counted once,
\* units of the same name in two managers told apart, and nothing else.
AnswerIsTheListing ==
    (answer # None /\ answer.ok) =>
        /\ answer.total = Cardinality(Due)
        /\ ToSet(Keys) \subseteq Due
        /\ \A j, k \in DOMAIN Keys : j < k => (Keys[j] # Keys[k] /\ Keys[j][2] <= Keys[k][2])
        /\ \A d \in Due \ ToSet(Keys) : \A k \in DOMAIN Keys : Keys[k][2] <= d[2]
        /\ (Len(Keys) < answer.total => Len(Keys) = query.limit)
        /\ (answer.truncated <=> Len(Keys) < answer.total)

\* A row never shows a detail of another unit or of the same unit under another
\* manager: every detail was true of that unit at some time during the request.
DetailsWereTrue ==
    answer # None =>
        \A k \in DOMAIN answer.rows :
            LET r == answer.rows[k]
            IN  \A p \in ToSet(Props) :
                    r.details[p] # None =>
                        \E state \in seen[r.scope][r.unit] \ {None} : state.ver = r.details[p]

\* One unavailable property does not erase the others: a detail is missing only
\* when that very property could not be read (docs/requirements.md:321).  Timers keep
\* this, services do not.
PropertiesIndependent ==
    answer # None =>
        \A k \in DOMAIN answer.rows : \A p \in ToSet(Props) :
            answer.rows[k].details[p] = None =>
                << answer.rows[k].scope, answer.rows[k].unit, p >> \in failed

\* A failure stays where it happened: a service lacks details only when a read of that
\* very unit failed, a timer lacks just those whose reads failed, a manager's rows are
\* missing only when it failed, and the request fails only when every manager asked did.
FailuresStayLocal ==
    answer # None =>
        /\ (~ answer.ok => \A s \in Asked : << s >> \in failed)
        /\ \A s \in down : << s >> \in failed
        /\ (query.kind = "timer") => PropertiesIndependent
        /\ \A k \in DOMAIN answer.rows :
              LET r == answer.rows[k]
              IN  (\E p \in ToSet(Props) : r.details[p] = None) =>
                      \E p \in ToSet(Props) : << r.scope, r.unit, p >> \in failed

\* Every listing is answered, whatever units and calls do meanwhile.
ListingAnswers == <>(answer # None)

=============================================================================
