-------------------------- MODULE UnitListingProofs --------------------------
(***************************************************************************)
(* Proofs about UnitListing for every set of units, properties, queries    *)
(* and failures: details were true (DetailsWereTrue), failures stay where  *)
(* they happened (FailuresStayLocal), and the answer is the sorted         *)
(* beginning of what the managers listed (AnswerIsTheListing).             *)
(*                                                                         *)
(* The managers are asked one after the other.  The invariant says of the  *)
(* one that is being asked what its tasks have read so far, and of one     *)
(* that was asked that its rows match what it listed, or that it is down.  *)
(***************************************************************************)
EXTENDS UnitListing, SequenceTheorems, FiniteSetTheorems, TLAPS

-----------------------------------------------------------------------------
(***************************************************************************)
(* The inductive invariant.                                                *)
(***************************************************************************)

PropNames == ToSet(Props)

\* The shape of the state.
TypeOK ==
    /\ query \in Queries
    /\ clock \in Nat
    /\ pc \in {"connect", "enrich", "reply", "done"}
    /\ scope \in Asked
    /\ seen \in [Scopes -> [Names -> SUBSET (Loaded \union {None})]]
    /\ gathered = [s \in Scopes |-> gathered[s]]
    /\ listed = [s \in Scopes |-> listed[s]]
    /\ down \subseteq Scopes

\* A detail is one the unit had, given the states it had.
True(detail, states) ==
    \A p \in PropNames :
        (detail[p] # None) => \E state \in states \ {None} : state.ver = detail[p]

\* What the first properties of unit n of manager s lack could not be read, given what failed.
Local(kind, faults, s, n, detail, first) ==
    /\ (kind = "timer") =>
          \A j \in 1 .. first : (detail[Props[j]] = None) => << s, n, Props[j] >> \in faults
    /\ (\E j \in 1 .. first : detail[Props[j]] = None) =>
          \E p \in PropNames : << s, n, p >> \in faults

\* The task of unit n, of the manager being asked.
Task(n) ==
    /\ read[n] \in 0 .. Len(Props)
    /\ details[n] \in [PropNames -> Versions \union {None}]
    /\ True(details[n], seen[scope][n])
    /\ Local(query.kind, failed, scope, n, details[n], read[n])

Tasks ==
    (pc = "enrich") =>
        /\ listing = listed[scope] /\ DOMAIN listing \subseteq Matching
        /\ read \in [DOMAIN listing -> Nat]
        /\ details \in [DOMAIN listing -> [PropNames -> Versions \union {None}]]
        /\ \A n \in DOMAIN listing : Task(n)

\* The rows of a manager are those of the units it listed, each with a true detail.
RowOf(s, r) ==
    /\ r.scope = s /\ r.unit \in DOMAIN listed[s] /\ r.active = listed[s][r.unit]
    /\ True(r.details, seen[s][r.unit])
    /\ Local(query.kind, failed, s, r.unit, r.details, Len(Props))

Rows(s) ==
    /\ DOMAIN listed[s] \subseteq Matching
    /\ \A r \in gathered[s] : RowOf(s, r)
    /\ \A n \in DOMAIN listed[s] : \E r \in gathered[s] : r.unit = n
    /\ \A r1, r2 \in gathered[s] : r1.unit = r2.unit => r1 = r2

\* A manager that has been asked: the system manager is before the user manager.
Finished(s) == s \in Asked /\ (pc \in {"reply", "done"} \/ (s # scope /\ scope = "user"))

Turns ==
    \A s \in Scopes :
        \/ ~Finished(s) /\ s \notin down /\ gathered[s] = {}
        \/ Finished(s) /\ s \in down /\ gathered[s] = {} /\ << s >> \in failed
        \/ Finished(s) /\ s \notin down /\ Rows(s)

\* The answer is the last that happens.
Answered ==
    answer # None =>
        pc = "done" /\ AnswerIsTheListing /\ DetailsWereTrue /\ FailuresStayLocal

IInv == TypeOK /\ Tasks /\ Turns /\ Answered

-----------------------------------------------------------------------------
(***************************************************************************)
(* What was once so remains so.                                            *)
(***************************************************************************)

\* A detail that was true stays so when the unit has had more states,
LEMMA TrueStays ==
  ASSUME NEW detail, NEW states, NEW more, states \subseteq more, True(detail, states)
  PROVE  True(detail, more)
  BY DEF True

\* and what it lacks is accounted for when more has failed.
LEMMA LocalStays ==
  ASSUME NEW kind, NEW faults, NEW more, faults \subseteq more, NEW s, NEW n, NEW detail,
         NEW first, Local(kind, faults, s, n, detail, first)
  PROVE  Local(kind, more, s, n, detail, first)
  BY DEF Local

\* The rows of a manager that has been asked.
LEMMA RowsStay ==
  ASSUME NEW s \in Scopes, Rows(s), query' = query, failed \subseteq failed',
         gathered'[s] = gathered[s], listed'[s] = listed[s],
         \A n \in Names : seen[s][n] \subseteq seen'[s][n]
  PROVE  Rows(s)'
  <1>1. ASSUME NEW r \in gathered[s]
        PROVE  /\ r.scope = s /\ r.unit \in DOMAIN listed'[s] /\ r.active = listed'[s][r.unit]
               /\ True(r.details, seen'[s][r.unit])
               /\ Local(query.kind, failed', s, r.unit, r.details, Len(Props))
    <2>1. RowOf(s, r) /\ r.unit \in Names
      BY DEF Rows, RowOf, Names
    <2>2. seen[s][r.unit] \subseteq seen'[s][r.unit]
      BY <2>1
    <2>3. True(r.details, seen'[s][r.unit])
      BY <2>1, <2>2, TrueStays DEF RowOf
    <2>4. Local(query.kind, failed', s, r.unit, r.details, Len(Props))
      BY <2>1, LocalStays DEF RowOf
    <2> QED
      BY <2>1, <2>3, <2>4 DEF RowOf
  <1>2. (\A r \in gathered[s] : RowOf(s, r))'
    BY <1>1 DEF RowOf
  <1> QED
    BY <1>2 DEF Rows

\* Managers that have been asked, and those that have not, while neither is another one.
LEMMA TurnsStay ==
  ASSUME TypeOK, Turns, UNCHANGED << query, down, gathered >>, failed \subseteq failed',
         \A s \in Scopes : Finished(s)' <=> Finished(s),
         \A s \in Scopes : Finished(s) => (listed'[s] = listed[s]),
         \A s \in Scopes, n \in Names : seen[s][n] \subseteq seen'[s][n]
  PROVE  Turns'
  <1> SUFFICES ASSUME NEW s \in Scopes
               PROVE  \/ ~Finished(s)' /\ s \notin down' /\ gathered'[s] = {}
                      \/ Finished(s)' /\ s \in down' /\ gathered'[s] = {} /\ << s >> \in failed'
                      \/ Finished(s)' /\ s \notin down' /\ Rows(s)'
    BY DEF Turns
  <1>1. CASE ~Finished(s)
    BY <1>1 DEF Turns
  <1>2. CASE Finished(s) /\ s \in down
    BY <1>2 DEF Turns
  <1>3. CASE Finished(s) /\ s \notin down
    <2>1. Rows(s)
      BY <1>3 DEF Turns
    <2>2. Rows(s)'
      BY <1>3, <2>1, RowsStay
    <2> QED
      BY <1>3, <2>2
  <1> QED
    BY <1>1, <1>2, <1>3

\* Only the two managers are asked.
LEMMA ScopeFacts ==
  ASSUME TypeOK
  PROVE  scope \in Scopes /\ Asked \subseteq Scopes
  <1>1. query.scope \in {"system", "user", "both"} /\ scope \in Asked
    BY QueriesAssumption DEF TypeOK
  <1>2. Asked \subseteq Scopes
    <2>1. CASE query.scope = "both"
      BY <2>1 DEF Asked
    <2>2. CASE query.scope # "both"
      BY <1>1, <2>2 DEF Asked, Scopes
    <2> QED
      BY <2>1, <2>2
  <1> QED
    BY <1>1, <1>2

\* The next manager is asked, or the answer is made: the one asked now is finished.
LEMMA ProceedFacts ==
  ASSUME TypeOK, pc \in {"connect", "enrich"}, Proceed, query' = query
  PROVE  /\ pc' \in {"connect", "reply"} /\ scope' \in Asked' /\ scope \in Scopes
         /\ \A s \in Scopes : IF s = scope THEN ~Finished(s) /\ Finished(s)'
                                ELSE Finished(s)' <=> Finished(s)
  <1>1. query.scope \in {"system", "user", "both"} /\ scope \in Asked /\ scope \in Scopes /\ Asked' = Asked
    BY QueriesAssumption, ScopeFacts DEF TypeOK, Asked
  <1>2. \/ query.scope = "both" /\ scope = "system" /\ scope' = "user" /\ pc' = "connect"
        \/ ~(query.scope = "both" /\ scope = "system") /\ scope' = scope /\ pc' = "reply"
    BY DEF Proceed
  <1>3. ~Finished(scope)
    BY DEF Finished
  <1>4. CASE query.scope = "both"
    <2>1. Asked = Scopes
      BY <1>4 DEF Asked
    <2>2. scope \in {"system", "user"}
      BY <1>1 DEF Scopes
    <2>3. \A s \in Scopes : s \in {"system", "user"}
      BY DEF Scopes
    <2>4. \A s \in Scopes : IF s = scope THEN Finished(s)' ELSE Finished(s)' <=> Finished(s)
      BY <1>1, <1>2, <1>4, <2>1, <2>2, <2>3 DEF Finished
    <2> QED
      BY <1>1, <1>2, <1>3, <2>1, <2>4 DEF Scopes
  <1>5. CASE query.scope # "both"
    <2>1. Asked = {query.scope} /\ scope = query.scope /\ scope' = scope /\ pc' = "reply"
      BY <1>1, <1>2, <1>5 DEF Asked
    <2>2. \A s \in Scopes : IF s = scope THEN Finished(s)' ELSE Finished(s)' <=> Finished(s)
      BY <1>1, <2>1 DEF Finished
    <2> QED
      BY <1>1, <1>3, <2>1, <2>2
  <1> QED
    BY <1>4, <1>5

-----------------------------------------------------------------------------
(***************************************************************************)
(* Every step keeps the invariant.                                         *)
(***************************************************************************)

\* Only the answer is left when there is one.
LEMMA NoAnswer ==
  ASSUME Answered, pc # "done"
  PROVE  answer = None
  BY DEF Answered

\* A unit changes its state.
LEMMA ChangeInvariant ==
  ASSUME IInv, NEW m \in Scopes, NEW n \in Names, Change(m, n)
  PROVE  IInv'
  <1>1. PICK state \in Loaded \union {None} : seen' = [seen EXCEPT ![m][n] = @ \union {state}]
    <2>1. PICK state \in {None} \union {State(m, n, a, clock') : a \in {"active", "failed"}} :
             seen' = [seen EXCEPT ![m][n] = @ \union {state}]
      BY DEF Change
    <2>2. clock' \in Nat
      BY DEF Change, IInv, TypeOK
    <2>3. << m, n, clock' >> \in Versions
      BY <2>2 DEF Versions
    <2>4. state \in Loaded \union {None}
      BY <2>1, <2>3 DEF State, Loaded
    <2> QED
      BY <2>1, <2>4
  <1>2. /\ clock' = clock + 1 /\ pc # "done"
        /\ UNCHANGED << query, pc, scope, listing, read, details, down, gathered, answer,
                        listed, failed >>
    BY DEF Change
  <1>3. /\ seen' \in [Scopes -> [Names -> SUBSET (Loaded \union {None})]]
        /\ \A s \in Scopes, k \in Names : seen[s][k] \subseteq seen'[s][k]
    BY <1>1 DEF IInv, TypeOK
  <1>4. TypeOK'
    BY <1>2, <1>3 DEF IInv, TypeOK, Asked
  <1>5. Tasks'
    <2> SUFFICES ASSUME pc = "enrich", NEW k \in DOMAIN listing PROVE Task(k)'
      BY <1>2 DEF IInv, Tasks
    <2>1. Task(k) /\ k \in Names /\ scope \in Scopes
      BY ScopeFacts DEF IInv, Tasks, Names
    <2>2. True(details[k], seen'[scope][k])
      BY <1>3, <2>1, TrueStays DEF Task
    <2> QED
      BY <1>2, <2>1, <2>2 DEF Task
  <1>6. Turns'
    <2>1. \A s \in Scopes : Finished(s)' <=> Finished(s)
      BY <1>2 DEF Finished, Asked
    <2> QED
      BY <1>2, <1>3, <2>1, TurnsStay DEF IInv
  <1>7. Answered'
    BY <1>2, NoAnswer DEF IInv, Answered
  <1> QED
    BY <1>4, <1>5, <1>6, <1>7 DEF IInv

\* A manager cannot be asked.
LEMMA ListFailsInvariant == ASSUME IInv, ListFails PROVE IInv'
  <1>1. /\ pc = "connect" /\ down' = down \union {scope} /\ failed' = failed \union {<< scope >>}
        /\ Proceed
        /\ UNCHANGED << query, clock, seen, listing, read, details, gathered, answer, listed >>
    BY DEF ListFails, host
  <1>2. /\ pc' \in {"connect", "reply"} /\ scope' \in Asked' /\ scope \in Scopes
        /\ \A s \in Scopes : IF s = scope THEN ~Finished(s) /\ Finished(s)'
                               ELSE Finished(s)' <=> Finished(s)
    BY <1>1, ProceedFacts DEF IInv
  <1>3. TypeOK'
    BY <1>1, <1>2 DEF IInv, TypeOK
  <1>4. Tasks'
    BY <1>2 DEF Tasks
  <1>5. Turns'
    <2> SUFFICES ASSUME NEW s \in Scopes
                 PROVE  \/ ~Finished(s)' /\ s \notin down' /\ gathered'[s] = {}
                        \/ Finished(s)' /\ s \in down' /\ gathered'[s] = {} /\ << s >> \in failed'
                        \/ Finished(s)' /\ s \notin down' /\ Rows(s)'
      BY DEF Turns
    <2>1. CASE s = scope
      BY <1>1, <1>2, <2>1 DEF IInv, Turns
    <2>2. CASE s # scope
      <3>1. /\ UNCHANGED << query, gathered, listed, seen >> /\ failed \subseteq failed'
            /\ (s \in down' <=> s \in down) /\ (Finished(s)' <=> Finished(s))
        BY <1>1, <1>2, <2>2
      <3>2. Rows(s) => Rows(s)'
        BY <3>1, RowsStay
      <3> QED
        BY <3>1, <3>2 DEF IInv, Turns
    <2> QED
      BY <2>1, <2>2
  <1>6. Answered'
    BY <1>1, NoAnswer DEF IInv, Answered
  <1> QED
    BY <1>3, <1>4, <1>5, <1>6 DEF IInv

\* A manager lists its units.
LEMMA ListInvariant == ASSUME IInv, List PROVE IInv'
  <1> DEFINE Here == {n \in Names : live[scope][n] # None}
             R(S) == [n \in S |-> live[scope][n].active]
  <1>1. /\ pc = "connect" /\ pc' = "enrich"
        /\ listing' = R({n \in Here : Keeps(n)})
        /\ listed' = [listed EXCEPT ![scope] = R(Here \intersect Matching)]
        /\ read' = [n \in DOMAIN listing' |-> 0]
        /\ details' = [n \in DOMAIN listing' |-> [p \in PropNames |-> None]]
        /\ UNCHANGED << query, clock, seen, scope, down, gathered, answer, failed >>
    BY DEF List, host, PropNames
  <1>2. scope \in Scopes /\ scope' = scope
    BY <1>1, ScopeFacts DEF IInv
  <1>3. /\ listing' = listed'[scope] /\ DOMAIN listing' \subseteq Matching
        /\ \A s \in Scopes : (s # scope) => (listed'[s] = listed[s])
        /\ listed' = [s \in Scopes |-> listed'[s]]
    <2>1. {n \in Here : Keeps(n)} = Here \intersect Matching
      BY DEF Keeps
    <2>2. listed = [s \in Scopes |-> listed[s]]
      BY DEF IInv, TypeOK
    <2> QED
      BY <1>1, <1>2, <2>1, <2>2
  <1>4. TypeOK'
    BY <1>1, <1>3 DEF IInv, TypeOK, Asked
  <1>5. Tasks'
    <2>1. ASSUME NEW n \in DOMAIN listing' PROVE Task(n)'
      <3>1. read'[n] = 0 /\ details'[n] = [p \in PropNames |-> None]
        BY <1>1
      <3>2. True(details'[n], seen'[scope'][n])
        BY <3>1 DEF True
      <3>3. Local(query'.kind, failed', scope', n, details'[n], read'[n])
        BY <3>1 DEF Local
      <3>4. details'[n] \in [PropNames -> Versions \union {None}] /\ read'[n] \in 0 .. Len(Props)
        BY <3>1, PropsAssumption
      <3> QED
        BY <3>2, <3>3, <3>4 DEF Task
    <2> QED
      BY <1>1, <1>2, <1>3, <2>1 DEF Tasks
  <1>6. Turns'
    <2>1. \A s \in Scopes : (Finished(s)' <=> Finished(s)) /\ (Finished(s) => s # scope)
      BY <1>1 DEF Finished, Asked
    <2> QED
      BY <1>1, <1>3, <2>1, TurnsStay DEF IInv
  <1>7. Answered'
    BY <1>1, NoAnswer DEF IInv, Answered
  <1> QED
    BY <1>4, <1>5, <1>6, <1>7 DEF IInv

\* The properties are names, and the next one of a task is among them.
LEMMA PropsFacts ==
  /\ Props \in Seq(PropNames) /\ Len(Props) \in Nat
  /\ \A j \in 1 .. Len(Props) : Props[j] \in PropNames
  <1>1. Props \in Seq(PropNames)
    BY PropsAssumption DEF PropNames
  <1> QED
    BY <1>1

\* One task does a step, and is left with what it may have.
LEMMA TaskStep ==
  ASSUME IInv, pc = "enrich", NEW n \in DOMAIN listing, NEW r \in 0 .. Len(Props),
         NEW d \in [PropNames -> Versions \union {None}],
         UNCHANGED << query, clock, seen, pc, scope, listing, down, gathered, answer, listed >>,
         failed \subseteq failed',
         read' = [read EXCEPT ![n] = r], details' = [details EXCEPT ![n] = d],
         True(d, seen[scope][n]), Local(query.kind, failed', scope, n, d, r)
  PROVE  IInv'
  <1>1. TypeOK'
    BY DEF IInv, TypeOK, Asked
  <1>2. /\ listing = listed[scope] /\ DOMAIN listing \subseteq Matching
        /\ read \in [DOMAIN listing -> Nat]
        /\ details \in [DOMAIN listing -> [PropNames -> Versions \union {None}]]
        /\ \A k \in DOMAIN listing : Task(k)
    BY DEF IInv, Tasks
  <1>3. r \in Nat
    BY PropsFacts
  <1>4. ASSUME NEW k \in DOMAIN listing PROVE Task(k)'
    <2>1. CASE k = n
      <3>1. read'[k] = r /\ details'[k] = d
        BY <1>2, <2>1
      <3> QED
        BY <2>1, <3>1 DEF Task
    <2>2. CASE k # n
      <3>1. read'[k] = read[k] /\ details'[k] = details[k] /\ Task(k)
        BY <1>2, <2>2
      <3>2. Local(query.kind, failed', scope, k, details[k], read[k])
        BY <3>1, LocalStays DEF Task
      <3> QED
        BY <3>1, <3>2 DEF Task
    <2> QED
      BY <2>1, <2>2
  <1>5. Tasks'
    <2>1. read' \in [DOMAIN listing -> Nat]
          /\ details' \in [DOMAIN listing -> [PropNames -> Versions \union {None}]]
      BY <1>2, <1>3
    <2> QED
      BY <1>2, <1>4, <2>1 DEF Tasks
  <1>6. Turns'
    <2>1. \A s \in Scopes : Finished(s)' <=> Finished(s)
      BY DEF Finished, Asked
    <2> QED
      BY <2>1, TurnsStay DEF IInv
  <1>7. Answered'
    BY NoAnswer DEF IInv, Answered
  <1> QED
    BY <1>1, <1>5, <1>6, <1>7 DEF IInv

\* A property of a unit is read.
LEMMA ReadInvariant == ASSUME IInv, NEW n, Read(n) PROVE IInv'
  <1>1. /\ pc = "enrich" /\ n \in DOMAIN listing /\ read[n] < Len(Props)
        /\ read' = [read EXCEPT ![n] = read[n] + 1]
        /\ UNCHANGED << query, clock, seen, pc, scope, listing, down, gathered, answer, listed,
                        failed >>
    <2>1. pc = "enrich" /\ n \in DOMAIN read
      BY DEF Read, Reading
    <2> QED
      BY <2>1 DEF Read, Reading, host, IInv, Tasks
  <1>2. PICK ver \in Readable(n) : details' = [details EXCEPT ![n][NextProp(n)] = ver]
    BY DEF Read
  <1>3. Task(n) /\ n \in Names /\ scope \in Scopes
        /\ details \in [DOMAIN listing -> [PropNames -> Versions \union {None}]]
    BY <1>1, ScopeFacts DEF IInv, Tasks, Names
  <1>4. read[n] \in 0 .. Len(Props) /\ Len(Props) \in Nat /\ read[n] + 1 \in 1 .. Len(Props)
    BY <1>1, <1>3, PropsFacts DEF Task
  <1>5. NextProp(n) \in PropNames /\ NextProp(n) = Props[read[n] + 1]
    BY <1>4, PropsFacts DEF NextProp
  <1>6. ver \in Versions /\ ver # None /\ \E state \in seen[scope][n] \ {None} : state.ver = ver
    <2>1. PICK state \in seen[scope][n] \ {None} : state.ver = ver
      BY <1>2 DEF Readable
    <2>2. state \in Loaded
      BY <1>3, <2>1 DEF IInv, TypeOK
    <2> QED
      BY <2>1, <2>2, NoneAssumption DEF Loaded
  <1> DEFINE d == [details[n] EXCEPT ![NextProp(n)] = ver]
  <1>7. details' = [details EXCEPT ![n] = d]
    BY <1>2
  <1>8. /\ d \in [PropNames -> Versions \union {None}]
        /\ d[NextProp(n)] = ver
        /\ \A p \in PropNames : (p # NextProp(n)) => (d[p] = details[n][p])
    BY <1>1, <1>3, <1>5, <1>6
  <1> HIDE DEF d
  <1>9. True(d, seen[scope][n])
    <2> SUFFICES ASSUME NEW p \in PropNames, d[p] # None
                 PROVE  \E state \in seen[scope][n] \ {None} : state.ver = d[p]
      BY DEF True
    <2>1. CASE p = NextProp(n)
      BY <1>6, <1>8, <2>1
    <2>2. CASE p # NextProp(n)
      BY <1>3, <1>8, <2>2 DEF Task, True
    <2> QED
      BY <2>1, <2>2
  <1>10. Local(query.kind, failed', scope, n, d, read[n] + 1)
    <2>1. ASSUME NEW j \in 1 .. (read[n] + 1), d[Props[j]] = None
          PROVE  j \in 1 .. read[n] /\ details[n][Props[j]] = None
      <3>1. Props[j] # NextProp(n) /\ j # read[n] + 1
        BY <1>5, <1>6, <1>8, <2>1
      <3>2. j \in 1 .. read[n] /\ j \in 1 .. Len(Props)
        BY <1>4, <3>1
      <3> QED
        BY <1>8, <2>1, <3>1, <3>2, PropsFacts
    <2> QED
      BY <1>1, <1>3, <2>1 DEF Task, Local
  <1>11. read[n] + 1 \in 0 .. Len(Props)
    BY <1>4
  <1> QED
    BY <1>1, <1>7, <1>8, <1>9, <1>10, <1>11, TaskStep

\* All that a task has read is lost.
LEMMA GiveUpFacts ==
  ASSUME IInv, pc = "enrich", NEW n \in DOMAIN listing, GiveUp(n), failed \subseteq failed',
         UNCHANGED << query, clock, seen, pc, scope, listing, down, gathered, answer, listed >>,
         IF query.kind = "timer" THEN \A p \in PropNames : << scope, n, p >> \in failed'
         ELSE \E p \in PropNames : << scope, n, p >> \in failed'
  PROVE  IInv'
  <1> DEFINE d == [p \in PropNames |-> None]
  <1>1. read' = [read EXCEPT ![n] = Len(Props)] /\ details' = [details EXCEPT ![n] = d]
    BY DEF GiveUp, PropNames
  <1>2. d \in [PropNames -> Versions \union {None}] /\ Len(Props) \in 0 .. Len(Props)
    BY PropsFacts
  <1>3. True(d, seen[scope][n])
    BY DEF True
  <1>4. Local(query.kind, failed', scope, n, d, Len(Props))
    BY PropsFacts DEF Local
  <1> HIDE DEF d
  <1> QED
    BY <1>1, <1>2, <1>3, <1>4, TaskStep

\* A property cannot be read: a service has no details then, a timer lacks this one.
LEMMA ReadFailsInvariant == ASSUME IInv, NEW n, ReadFails(n) PROVE IInv'
  <1>1. /\ pc = "enrich" /\ n \in DOMAIN listing /\ read[n] < Len(Props)
        /\ failed' = failed \union {<< scope, n, NextProp(n) >>}
        /\ UNCHANGED << query, clock, seen, pc, scope, listing, down, gathered, answer, listed >>
    <2>1. pc = "enrich" /\ n \in DOMAIN read
      BY DEF ReadFails, Reading
    <2> QED
      BY <2>1 DEF ReadFails, Reading, host, IInv, Tasks
  <1>2. Task(n) /\ details \in [DOMAIN listing -> [PropNames -> Versions \union {None}]]
    BY <1>1 DEF IInv, Tasks
  <1>3. read[n] \in 0 .. Len(Props) /\ Len(Props) \in Nat /\ read[n] + 1 \in 1 .. Len(Props)
    BY <1>1, <1>2, PropsFacts DEF Task
  <1>4. NextProp(n) \in PropNames /\ NextProp(n) = Props[read[n] + 1]
    BY <1>3, PropsFacts DEF NextProp
  <1>5. CASE query.kind = "service"
    <2>1. GiveUp(n)
      BY <1>5 DEF ReadFails, AfterFailure
    <2> QED
      BY <1>1, <1>4, <1>5, <2>1, GiveUpFacts
  <1>6. CASE query.kind # "service"
    <2>1. read' = [read EXCEPT ![n] = read[n] + 1] /\ details' = details
      BY <1>6 DEF ReadFails, AfterFailure
    <2>2. details' = [details EXCEPT ![n] = details[n]]
      BY <1>2, <2>1
    <2>3. Local(query.kind, failed', scope, n, details[n], read[n] + 1)
      <3>1. \A j \in 1 .. (read[n] + 1) : j \in 1 .. read[n] \/ j = read[n] + 1
        BY <1>3
      <3>2. Local(query.kind, failed', scope, n, details[n], read[n])
        BY <1>1, <1>2, LocalStays DEF Task
      <3> QED
        BY <1>1, <1>4, <3>1, <3>2 DEF Local
    <2>4. /\ details[n] \in [PropNames -> Versions \union {None}] /\ read[n] + 1 \in 0 .. Len(Props)
          /\ True(details[n], seen[scope][n]) /\ failed \subseteq failed'
      BY <1>1, <1>2, <1>3 DEF Task
    <2> QED
      BY <1>1, <2>1, <2>2, <2>3, <2>4, TaskStep
  <1> QED
    BY <1>5, <1>6

\* A task cannot read anything.
LEMMA ProxyFailsInvariant == ASSUME IInv, NEW n, ProxyFails(n) PROVE IInv'
  <1>1. /\ pc = "enrich" /\ n \in DOMAIN listing /\ read[n] < Len(Props) /\ GiveUp(n)
        /\ failed' = failed \union {<< scope, n, p >> : p \in PropNames}
        /\ UNCHANGED << query, clock, seen, pc, scope, listing, down, gathered, answer, listed >>
    <2>1. pc = "enrich" /\ n \in DOMAIN read
      BY DEF ProxyFails, Reading
    <2> QED
      BY <2>1 DEF ProxyFails, Reading, host, IInv, Tasks, PropNames
  <1>2. \A p \in PropNames : << scope, n, p >> \in failed'
    BY <1>1
  <1>3. \E p \in PropNames : << scope, n, p >> \in failed'
    <2>1. read[n] \in 0 .. Len(Props)
      BY <1>1 DEF IInv, Tasks, Task
    <2>2. Props[1] \in PropNames
      BY <1>1, <2>1, PropsFacts
    <2> QED
      BY <1>2, <2>2
  <1> QED
    BY <1>1, <1>2, <1>3, GiveUpFacts

\* The tasks are done.
LEMMA GatherInvariant == ASSUME IInv, Gather PROVE IInv'
  <1> DEFINE Row(n) == [unit |-> n, scope |-> scope, active |-> listing[n], details |-> details[n]]
  <1>1. /\ pc = "enrich" /\ \A n \in DOMAIN read : read[n] = Len(Props)
        /\ gathered' = [gathered EXCEPT ![scope] = {Row(n) : n \in DOMAIN listing}]
        /\ Proceed
        /\ UNCHANGED << query, clock, seen, listing, read, details, down, answer, listed, failed >>
    BY DEF Gather, DetailsOf, host
  <1>2. /\ pc' \in {"connect", "reply"} /\ scope' \in Asked' /\ scope \in Scopes
        /\ \A s \in Scopes : IF s = scope THEN ~Finished(s) /\ Finished(s)'
                               ELSE Finished(s)' <=> Finished(s)
    BY <1>1, ProceedFacts DEF IInv
  <1>3. gathered = [s \in Scopes |-> gathered[s]]
    BY DEF IInv, TypeOK
  <1>4. /\ gathered' = [s \in Scopes |-> gathered'[s]]
        /\ gathered'[scope] = {Row(n) : n \in DOMAIN listing}
        /\ \A s \in Scopes : (s # scope) => (gathered'[s] = gathered[s])
    BY <1>1, <1>2, <1>3
  <1>5. TypeOK'
    BY <1>1, <1>2, <1>4 DEF IInv, TypeOK
  <1>6. Tasks'
    BY <1>2 DEF Tasks
  <1>7. ASSUME NEW s \in Scopes, s = scope PROVE Rows(s)'
    <2>1. /\ listing = listed[s] /\ DOMAIN listing \subseteq Matching
          /\ DOMAIN read = DOMAIN listing
          /\ \A n \in DOMAIN listing : Task(n) /\ read[n] = Len(Props)
      BY <1>1, <1>7 DEF IInv, Tasks
    <2>2. gathered'[s] = {Row(n) : n \in DOMAIN listing}
      BY <1>4, <1>7
    <2>3. ASSUME NEW n \in DOMAIN listing
          PROVE  /\ Row(n).scope = s /\ Row(n).unit = n /\ Row(n).active = listed[s][n]
                 /\ True(Row(n).details, seen[s][n])
                 /\ Local(query.kind, failed, s, n, Row(n).details, Len(Props))
      BY <1>7, <2>1 DEF Task
    <2> HIDE DEF Row
    <2>4. (\A r \in gathered[s] : RowOf(s, r))'
      <3>1. ASSUME NEW r \in gathered'[s]
            PROVE  /\ r.scope = s /\ r.unit \in DOMAIN listed[s] /\ r.active = listed[s][r.unit]
                   /\ True(r.details, seen[s][r.unit])
                   /\ Local(query.kind, failed, s, r.unit, r.details, Len(Props))
        <4>1. PICK n \in DOMAIN listing : r = Row(n)
          BY <2>2, <3>1
        <4> QED
          BY <2>1, <2>3, <4>1
      <3> QED
        BY <1>1, <3>1 DEF RowOf
    <2>5. (\A n \in DOMAIN listed[s] : \E r \in gathered[s] : r.unit = n)'
      BY <1>1, <2>1, <2>2, <2>3
    <2>6. (\A r1, r2 \in gathered[s] : r1.unit = r2.unit => r1 = r2)'
      BY <1>1, <2>2, <2>3
    <2> QED
      BY <1>1, <2>1, <2>4, <2>5, <2>6 DEF Rows
  <1>8. Turns'
    <2> SUFFICES ASSUME NEW s \in Scopes
                 PROVE  \/ ~Finished(s)' /\ s \notin down' /\ gathered'[s] = {}
                        \/ Finished(s)' /\ s \in down' /\ gathered'[s] = {} /\ << s >> \in failed'
                        \/ Finished(s)' /\ s \notin down' /\ Rows(s)'
      BY DEF Turns
    <2>1. CASE s = scope
      <3>1. s \notin down
        BY <1>2, <2>1 DEF IInv, Turns
      <3> QED
        BY <1>1, <1>2, <1>7, <2>1, <3>1
    <2>2. CASE s # scope
      <3>1. /\ UNCHANGED << query, listed, seen, failed, down >>
            /\ gathered'[s] = gathered[s] /\ (Finished(s)' <=> Finished(s))
        BY <1>1, <1>2, <1>4, <2>2
      <3>2. Rows(s) => Rows(s)'
        BY <3>1, RowsStay
      <3> QED
        BY <3>1, <3>2 DEF IInv, Turns
    <2> QED
      BY <2>1, <2>2
  <1>9. Answered'
    BY <1>1, NoAnswer DEF IInv, Answered
  <1> QED
    BY <1>5, <1>6, <1>8, <1>9 DEF IInv

-----------------------------------------------------------------------------
(***************************************************************************)
(* The rows in order.                                                      *)
(***************************************************************************)

\* Rows come in a strict total order when no two are of one unit of one manager.
LEMMA ComesFacts ==
  ASSUME NEW S, \A r \in S : r.unit \in Int /\ r.scope \in Scopes,
         \A r1, r2 \in S : (r1.unit = r2.unit /\ r1.scope = r2.scope) => r1 = r2
  PROVE  /\ \A x \in S : ~Comes(x, x)
         /\ \A x, y, z \in S : (Comes(x, y) /\ Comes(y, z)) => Comes(x, z)
         /\ \A x, y \in S : Comes(x, y) \/ Comes(y, x) \/ x = y
  <1>1. \A r \in S : r.scope \in {"system", "user"}
    BY DEF Scopes
  <1>2. \A x \in S : ~Comes(x, x)
    BY DEF Comes
  <1>3. \A x, y, z \in S : (Comes(x, y) /\ Comes(y, z)) => Comes(x, z)
    BY DEF Comes
  <1>4. \A x, y \in S : Comes(x, y) \/ Comes(y, x) \/ x = y
    BY <1>1 DEF Comes
  <1> QED
    BY <1>2, <1>3, <1>4

\* Arranged puts each row at the place of its rank, and none is left out.
LEMMA ArrangedFacts ==
  ASSUME NEW S, IsFiniteSet(S),
         \A x \in S : ~Comes(x, x),
         \A x, y, z \in S : (Comes(x, y) /\ Comes(y, z)) => Comes(x, z),
         \A x, y \in S : Comes(x, y) \/ Comes(y, x) \/ x = y
  PROVE  LET list == Arranged(S, Comes)
         IN  /\ list \in Seq(S) /\ Len(list) = Cardinality(S)
             /\ \A x \in S : \E k \in 1 .. Len(list) : list[k] = x
             /\ \A j, k \in 1 .. Len(list) : j < k => Comes(list[j], list[k])
  <1> DEFINE n == Cardinality(S)
             Below(x) == {y \in S : Comes(y, x)}
             list == Arranged(S, Comes)
  <1>1. /\ \A x \in S : ~Comes(x, x)
        /\ \A x, y, z \in S : (Comes(x, y) /\ Comes(y, z)) => Comes(x, z)
        /\ \A x, y \in S : Comes(x, y) \/ Comes(y, x) \/ x = y
    OBVIOUS
  <1>2. n \in Nat
    BY FS_CardinalityType
  <1>3. \A x \in S : Cardinality(Below(x)) \in 0 .. (n - 1)
    <2> SUFFICES ASSUME NEW x \in S PROVE Cardinality(Below(x)) \in 0 .. (n - 1)
      OBVIOUS
    <2>1. Below(x) \in SUBSET S /\ Below(x) # S
      BY <1>1
    <2>2. Cardinality(Below(x)) \in Nat /\ Cardinality(Below(x)) <= n /\ Cardinality(Below(x)) # n
      BY <2>1, FS_Subset, FS_CardinalityType
    <2> QED
      BY <1>2, <2>2
  <1>4. \A x, y \in S : Comes(x, y) => Cardinality(Below(x)) < Cardinality(Below(y))
    <2> SUFFICES ASSUME NEW x \in S, NEW y \in S, Comes(x, y)
                 PROVE  Cardinality(Below(x)) < Cardinality(Below(y))
      OBVIOUS
    <2>1. Below(x) \in SUBSET Below(y) /\ Below(x) # Below(y)
      BY <1>1
    <2>2. IsFiniteSet(Below(y))
      <3>1. Below(y) \in SUBSET S
        OBVIOUS
      <3> QED
        BY <3>1, FS_Subset
    <2>3. Cardinality(Below(x)) <= Cardinality(Below(y)) /\ Cardinality(Below(x)) # Cardinality(Below(y))
      BY <2>1, <2>2, FS_Subset
    <2> HIDE DEF Below
    <2> QED
      BY <1>2, <1>3, <2>3
  <1>5. \A k \in 1 .. n : \E x \in S : Cardinality(Below(x)) = k - 1
    <2> DEFINE rank == [x \in S |-> Cardinality(Below(x)) + 1]
    <2>1. rank \in [S -> 1 .. n]
      BY <1>2, <1>3
    <2>2. ASSUME NEW x \in S, NEW y \in S, rank[x] = rank[y] PROVE x = y
      <3>1. /\ Cardinality(Below(x)) \in Int /\ Cardinality(Below(y)) \in Int
            /\ Cardinality(Below(x)) + 1 = Cardinality(Below(y)) + 1
        BY <1>2, <1>3, <2>2
      <3>2. Cardinality(Below(x)) = Cardinality(Below(y))
        BY <3>1
      <3>3. ~Comes(x, y) /\ ~Comes(y, x)
        BY <1>4, <3>1, <3>2
      <3> QED
        BY <1>1, <3>3
    <2>3. rank \in Injection(S, 1 .. n)
      BY <2>1, <2>2 DEF Injection, IsInjective
    <2>4. IsFiniteSet(1 .. n) /\ Cardinality(1 .. n) = n
      BY <1>2, FS_Interval
    <2>5. rank \in Surjection(S, 1 .. n)
      BY <2>3, <2>4, FS_Injection
    <2>6. \A k \in 1 .. n : \E x \in S : rank[x] = k
      BY <2>5 DEF Surjection
    <2> HIDE DEF Below
    <2>7. \A x \in S : rank[x] = Cardinality(Below(x)) + 1
      OBVIOUS
    <2> HIDE DEF rank
    <2> QED
      BY <1>2, <1>3, <2>6, <2>7
  <1>6. list = [k \in 1 .. n |-> CHOOSE x \in S : Cardinality(Below(x)) = k - 1]
    BY DEF Arranged
  <1> HIDE DEF list, Below
  <1>7. \A k \in 1 .. n : list[k] \in S /\ Cardinality(Below(list[k])) = k - 1
    BY <1>5, <1>6
  <1>8. list \in Seq(S) /\ Len(list) = n
    <2>1. list \in [1 .. n -> S]
      BY <1>6, <1>7
    <2> QED
      BY <1>2, <2>1
  <1>9. \A x \in S : Cardinality(Below(x)) \in Int
    BY <1>2, <1>3
  <1>10. ASSUME NEW x \in S, NEW y \in S, Cardinality(Below(x)) <= Cardinality(Below(y))
         PROVE  Comes(x, y) \/ x = y
    <2>1. ~Comes(y, x)
      <3>1. ASSUME Comes(y, x) PROVE FALSE
        <4>1. Cardinality(Below(y)) < Cardinality(Below(x))
          BY <1>4, <3>1
        <4> QED
          BY <1>9, <1>10, <4>1
      <3> QED
        BY <3>1
    <2> QED
      BY <1>1, <2>1
  <1>11. ASSUME NEW x \in S PROVE \E k \in 1 .. n : list[k] = x
    <2>1. Cardinality(Below(x)) + 1 \in 1 .. n
      BY <1>2, <1>3
    <2>2. PICK k \in 1 .. n : k = Cardinality(Below(x)) + 1
      BY <2>1
    <2>3. PICK y \in S : y = list[k] /\ Cardinality(Below(y)) = Cardinality(Below(x))
      <3>1. list[k] \in S /\ Cardinality(Below(list[k])) = k - 1
        BY <1>7
      <3>2. k - 1 = Cardinality(Below(x))
        BY <1>9, <2>2
      <3> QED
        BY <3>1, <3>2
    <2>4. (Comes(x, y) \/ x = y) /\ (Comes(y, x) \/ x = y)
      BY <1>9, <1>10, <2>3
    <2>5. y = x
      BY <1>1, <2>3, <2>4
    <2> QED
      BY <2>3, <2>5
  <1>12. ASSUME NEW j \in 1 .. n, NEW k \in 1 .. n, j < k PROVE Comes(list[j], list[k])
    <2>1. list[j] \in S /\ list[k] \in S
      BY <1>7
    <2>2. Cardinality(Below(list[j])) = j - 1 /\ Cardinality(Below(list[k])) = k - 1
      BY <1>7
    <2>3. Cardinality(Below(list[j])) <= Cardinality(Below(list[k])) /\ list[j] # list[k]
      BY <1>2, <1>12, <2>2
    <2> QED
      BY <1>10, <2>1, <2>3
  <1> QED
    BY <1>8, <1>11, <1>12 DEF list

-----------------------------------------------------------------------------
(***************************************************************************)
(* The answer.                                                             *)
(***************************************************************************)

\* When all managers have been asked, the merged rows are those of the units listed, once each.
LEMMA MergedFacts ==
  ASSUME IInv, pc = "reply"
  PROVE  /\ \A r \in Merged : r.scope \in Asked \ down /\ r.unit \in Matching /\ RowOf(r.scope, r)
         /\ \A r1, r2 \in Merged : (r1.unit = r2.unit /\ r1.scope = r2.scope) => r1 = r2
         /\ \A s \in Asked \ down : \A n \in DOMAIN listed[s] :
               n \in Matching /\ \E r \in Merged : r.scope = s /\ r.unit = n
         /\ \A s \in down : << s >> \in failed
  <1>1. Asked \subseteq Scopes
    BY ScopeFacts DEF IInv
  <1>2. \A s \in Scopes : Finished(s) <=> s \in Asked
    BY DEF Finished
  <1>3. \A s \in Scopes : (s \in Asked \ down => Rows(s)) /\ (s \notin Asked \ down => gathered[s] = {})
    BY <1>2 DEF IInv, Turns
  <1>4. ASSUME NEW r \in Merged
        PROVE  /\ r.scope \in Scopes /\ r \in gathered[r.scope]
               /\ r.scope \in Asked \ down /\ r.unit \in Matching /\ RowOf(r.scope, r)
    <2>1. PICK s \in Scopes : r \in gathered[s]
      BY <1>4 DEF Merged, Scopes
    <2>2. s \in Asked \ down /\ Rows(s)
      BY <1>3, <2>1
    <2>3. r.scope = s /\ RowOf(s, r) /\ r.unit \in Matching
      BY <2>1, <2>2 DEF Rows, RowOf
    <2> QED
      BY <2>1, <2>2, <2>3
  <1>5. ASSUME NEW r1 \in Merged, NEW r2 \in Merged, r1.unit = r2.unit, r1.scope = r2.scope
        PROVE  r1 = r2
    <2>1. r1 \in gathered[r1.scope] /\ r2 \in gathered[r1.scope] /\ r1.scope \in Scopes
      BY <1>4, <1>5
    <2>2. Rows(r1.scope)
      BY <1>3, <1>4
    <2> QED
      BY <1>5, <2>1, <2>2 DEF Rows
  <1>6. ASSUME NEW s \in Asked \ down, NEW n \in DOMAIN listed[s]
        PROVE  n \in Matching /\ \E r \in Merged : r.scope = s /\ r.unit = n
    <2>1. s \in Scopes /\ Rows(s)
      BY <1>1, <1>3
    <2>2. PICK r \in gathered[s] : r.unit = n
      BY <2>1 DEF Rows
    <2>3. r \in Merged
      BY <2>1, <2>2 DEF Merged, Scopes
    <2>4. r.scope = s /\ n \in Matching
      BY <2>1, <2>2 DEF Rows, RowOf
    <2> QED
      BY <2>2, <2>3, <2>4
  <1>7. \A s \in down : << s >> \in failed
    BY DEF IInv, TypeOK, Turns
  <1> QED
    BY <1>4, <1>5, <1>6, <1>7

\* The rows that pass the filter.
Chosen == {r \in Merged : PassesState(r.active)}

\* They are the units due, one for one.
LEMMA ChosenFacts ==
  ASSUME IInv, pc = "reply"
  PROVE  /\ IsFiniteSet(Chosen) /\ Cardinality(Chosen) = Cardinality(Due)
         /\ \A r \in Chosen : << r.scope, r.unit >> \in Due
         /\ \A d \in Due : \E r \in Chosen : d = << r.scope, r.unit >>
  <1> DEFINE key == [r \in Chosen |-> << r.scope, r.unit >>]
  <1>1. \A r \in Chosen : << r.scope, r.unit >> \in Due
    BY MergedFacts DEF Chosen, Due, RowOf
  <1>2. ASSUME NEW d \in Due PROVE \E r \in Chosen : d = << r.scope, r.unit >>
    <2>1. /\ d = << d[1], d[2] >> /\ d[1] \in Asked \ down /\ d[2] \in DOMAIN listed[d[1]]
          /\ PassesState(listed[d[1]][d[2]])
      BY DEF Due
    <2>2. PICK r \in Merged : r.scope = d[1] /\ r.unit = d[2]
      BY <2>1, MergedFacts
    <2>3. r.active = listed[d[1]][d[2]]
      BY <2>2, MergedFacts DEF RowOf
    <2> QED
      BY <2>1, <2>2, <2>3 DEF Chosen
  <1>3. key \in [Chosen -> Due]
    BY <1>1
  <1>4. ASSUME NEW r1 \in Chosen, NEW r2 \in Chosen, key[r1] = key[r2] PROVE r1 = r2
    <2>1. r1.scope = r2.scope /\ r1.unit = r2.unit
      BY <1>4
    <2> QED
      BY <2>1, MergedFacts DEF Chosen
  <1>5. \A d \in Due : \E r \in Chosen : key[r] = d
    <2> SUFFICES ASSUME NEW d \in Due PROVE \E r \in Chosen : key[r] = d
      OBVIOUS
    <2>1. PICK r \in Chosen : d = << r.scope, r.unit >>
      BY <1>2
    <2> QED
      BY <2>1
  <1> HIDE DEF key
  <1>6. key \in Injection(Chosen, Due)
    BY <1>3, <1>4 DEF Injection, IsInjective
  <1>7. key \in Surjection(Chosen, Due)
    BY <1>3, <1>5 DEF Surjection
  <1>8. IsFiniteSet(Due)
    <2>1. IsFiniteSet(Scopes)
      <3>1. IsFiniteSet({"system"}) /\ IsFiniteSet({"user"})
        BY FS_Singleton
      <3>2. Scopes = {"system"} \union {"user"}
        BY DEF Scopes
      <3> QED
        BY <3>1, <3>2, FS_Union
    <2>2. IsFiniteSet(Scopes \X Matching)
      BY <2>1, NamesAssumption, FS_Product
    <2>3. Due \in SUBSET (Scopes \X Matching)
      BY ScopeFacts DEF IInv, Due
    <2> QED
      BY <2>2, <2>3, FS_Subset
  <1>9. IsFiniteSet(Chosen) /\ Cardinality(Chosen) = Cardinality(Due)
    BY <1>6, <1>7, <1>8, FS_Injection
  <1> QED
    BY <1>1, <1>2, <1>9

\* They are put in order, and so many of them are shown.
InOrder == Arranged(Chosen, Comes)

Shown == IF Len(InOrder) > query.limit THEN query.limit ELSE Len(InOrder)

Page == SubSeq(InOrder, 1, Shown)

\* The page is the beginning of the rows in order.
LEMMA PageFacts ==
  ASSUME IInv, pc = "reply"
  PROVE  /\ InOrder \in Seq(Chosen) /\ Len(InOrder) = Cardinality(Due)
         /\ Shown \in 0 .. Len(InOrder) /\ query.limit \in Nat
         /\ Page \in Seq(Chosen) /\ Len(Page) = Shown
         /\ \A k \in 1 .. Shown : Page[k] = InOrder[k]
         /\ \A r \in Chosen : \E k \in 1 .. Len(InOrder) : InOrder[k] = r
         /\ \A j, k \in 1 .. Len(InOrder) : j < k => Comes(InOrder[j], InOrder[k])
  <1>1. /\ \A x \in Chosen : ~Comes(x, x)
        /\ \A x, y, z \in Chosen : (Comes(x, y) /\ Comes(y, z)) => Comes(x, z)
        /\ \A x, y \in Chosen : Comes(x, y) \/ Comes(y, x) \/ x = y
    <2>1. \A r \in Chosen : r.unit \in Int /\ r.scope \in Scopes
      BY MergedFacts, ScopeFacts, NamesAssumption DEF Chosen, IInv
    <2>2. \A r1, r2 \in Chosen : (r1.unit = r2.unit /\ r1.scope = r2.scope) => r1 = r2
      BY MergedFacts DEF Chosen
    <2> QED
      BY <2>1, <2>2, ComesFacts
  <1>2. /\ InOrder \in Seq(Chosen) /\ Len(InOrder) = Cardinality(Chosen)
        /\ \A r \in Chosen : \E k \in 1 .. Len(InOrder) : InOrder[k] = r
        /\ \A j, k \in 1 .. Len(InOrder) : j < k => Comes(InOrder[j], InOrder[k])
    BY <1>1, ChosenFacts, ArrangedFacts DEF InOrder
  <1>3. query.limit \in Nat
    BY QueriesAssumption DEF IInv, TypeOK
  <1>4. Len(InOrder) \in Nat /\ Shown \in 0 .. Len(InOrder)
    BY <1>2, <1>3 DEF Shown
  <1>5. \A k \in 1 .. Shown : InOrder[k] \in Chosen
    BY <1>2, <1>4
  <1>6. /\ Page \in Seq(Chosen) /\ Len(Page) = (IF 1 <= Shown THEN Shown - 1 + 1 ELSE 0)
        /\ \A k \in 1 .. (Shown - 1 + 1) : Page[k] = InOrder[1 + k - 1]
    BY <1>4, <1>5, SubSeqProperties DEF Page
  <1>7. Len(Page) = Shown /\ \A k \in 1 .. Shown : Page[k] = InOrder[k]
    BY <1>4, <1>6
  <1> QED
    BY <1>2, <1>3, <1>4, <1>6, <1>7, ChosenFacts

\* The handler answers.
LEMMA ReplyInvariant == ASSUME IInv, Reply PROVE IInv'
  <1>1. /\ pc = "reply" /\ pc' = "done"
        /\ answer' = IF Hopeless
                     THEN [ok |-> FALSE, rows |-> << >>, total |-> 0, truncated |-> FALSE]
                     ELSE [ok |-> TRUE, rows |-> Page, total |-> Len(InOrder),
                           truncated |-> Len(InOrder) > Len(Page)]
        /\ UNCHANGED << query, clock, seen, scope, listing, read, details, down, gathered,
                        listed, failed >>
    BY DEF Reply, host, Chosen, InOrder, Shown, Page
  <1>2. /\ InOrder \in Seq(Chosen) /\ Len(InOrder) = Cardinality(Due)
        /\ Shown \in 0 .. Len(InOrder) /\ query.limit \in Nat
        /\ Page \in Seq(Chosen) /\ Len(Page) = Shown
        /\ \A k \in 1 .. Shown : Page[k] = InOrder[k]
        /\ \A r \in Chosen : \E k \in 1 .. Len(InOrder) : InOrder[k] = r
        /\ \A j, k \in 1 .. Len(InOrder) : j < k => Comes(InOrder[j], InOrder[k])
    BY <1>1, PageFacts
  <1>3. Len(InOrder) \in Nat /\ Shown \in Nat /\ Shown <= Len(InOrder)
    BY <1>2
  <1>4. TypeOK'
    BY <1>1 DEF IInv, TypeOK, Asked
  <1>5. Tasks'
    BY <1>1 DEF Tasks
  <1>6. Turns'
    <2>1. \A s \in Scopes : Finished(s)' <=> Finished(s)
      BY <1>1 DEF Finished, Asked
    <2> QED
      BY <1>1, <2>1, TurnsStay DEF IInv
  <1>7. Due' = Due /\ Asked' = Asked
    BY <1>1 DEF Due, Asked, PassesState
  \* The rows of the answer.
  <1>8. /\ answer'.rows = << >> \/ answer'.rows = Page
        /\ \A k \in DOMAIN answer'.rows : answer'.rows[k] \in Merged
    <2>1. answer'.rows = << >> \/ answer'.rows = Page
      BY <1>1
    <2>2. \A k \in DOMAIN Page : Page[k] \in Merged
      BY <1>2 DEF Chosen
    <2> QED
      BY <2>1, <2>2
  <1>9. AnswerIsTheListing'
    <2> SUFFICES ASSUME answer' # None, answer'.ok PROVE AnswerIsTheListing'
      BY DEF AnswerIsTheListing
    <2> DEFINE keys == [k \in DOMAIN Page |-> << Page[k].scope, Page[k].unit >>]
    <2>1. /\ answer'.rows = Page /\ answer'.total = Len(InOrder)
          /\ answer'.truncated = (Len(InOrder) > Len(Page))
      BY <1>1
    <2>2. DOMAIN Page = 1 .. Shown /\ DOMAIN keys = 1 .. Shown /\ Len(keys) = Shown
      BY <1>2, <1>3
    <2>3. ASSUME NEW k \in 1 .. Shown
          PROVE  /\ k \in 1 .. Len(InOrder) /\ InOrder[k] \in Chosen
                 /\ keys[k] = << InOrder[k].scope, InOrder[k].unit >>
                 /\ keys[k] \in Due /\ keys[k][2] \in Int
      <3>1. k \in 1 .. Len(InOrder) /\ Page[k] = InOrder[k]
        BY <1>2, <1>3
      <3>2. InOrder[k] \in Chosen
        BY <1>2, <3>1
      <3>3. keys[k] = << InOrder[k].scope, InOrder[k].unit >>
        BY <2>2, <3>1
      <3>4. keys[k] \in Due /\ InOrder[k].unit \in Int
        <4>1. PICK x \in Chosen : x = InOrder[k]
          BY <3>2
        <4>2. << x.scope, x.unit >> \in Due
          BY <1>1, ChosenFacts
        <4>3. x.unit \in Int
          BY <1>1, MergedFacts, NamesAssumption DEF Chosen
        <4> QED
          BY <3>3, <4>1, <4>2, <4>3
      <3> QED
        BY <3>1, <3>2, <3>3, <3>4
    <2> HIDE DEF keys
    <2>4. ToSet(keys) = {keys[k] : k \in 1 .. Shown}
      BY <2>2 DEF ToSet
    <2>5. ToSet(keys) \subseteq Due
      BY <2>3, <2>4
    <2>6. \A r \in Chosen : r.scope \in {"system", "user"} /\ r.unit \in Int
      BY <1>1, MergedFacts, ScopeFacts, NamesAssumption DEF Chosen, IInv, Scopes
    <2>7. ASSUME NEW j \in 1 .. Shown, NEW k \in 1 .. Shown, j < k
          PROVE  keys[j] # keys[k] /\ keys[j][2] <= keys[k][2]
      <3>1. Comes(InOrder[j], InOrder[k])
        BY <1>2, <2>3, <2>7
      <3>2. PICK x \in Chosen : x = InOrder[j] /\ keys[j] = << x.scope, x.unit >>
        BY <2>3
      <3>3. PICK y \in Chosen : y = InOrder[k] /\ keys[k] = << y.scope, y.unit >>
        BY <2>3
      <3>4. \/ x.unit < y.unit
            \/ x.unit = y.unit /\ x.scope = "system" /\ y.scope = "user"
        BY <3>1, <3>2, <3>3 DEF Comes
      <3>5. x.unit \in Int /\ y.unit \in Int
        BY <2>6
      <3> QED
        BY <3>2, <3>3, <3>4, <3>5
    <2>8. ASSUME NEW d \in Due \ ToSet(keys), NEW k \in 1 .. Shown PROVE keys[k][2] <= d[2]
      <3>1. PICK y \in Chosen : d = << y.scope, y.unit >>
        BY <1>1, ChosenFacts
      <3>2. PICK i \in 1 .. Len(InOrder) : InOrder[i] = y
        BY <1>2
      <3>3. i \notin 1 .. Shown
        BY <2>3, <2>4, <3>1, <3>2
      <3>4. k < i /\ k \in 1 .. Len(InOrder)
        BY <1>3, <3>3
      <3>5. Comes(InOrder[k], y)
        BY <1>2, <3>2, <3>4
      <3>6. PICK x \in Chosen : x = InOrder[k] /\ keys[k] = << x.scope, x.unit >>
        BY <2>3
      <3>7. x.unit <= y.unit
        BY <2>6, <3>5, <3>6 DEF Comes
      <3> QED
        BY <3>1, <3>6, <3>7
    <2>9. /\ (Len(keys) < Len(InOrder)) => (Len(keys) = query.limit)
          /\ (Len(InOrder) > Len(Page)) <=> (Len(keys) < Len(InOrder))
      BY <1>2, <1>3, <2>2 DEF Shown
    <2>10. /\ keys = Keys'
           /\ answer'.total = Cardinality(Due') /\ query' = query /\ Due' = Due
           /\ answer'.total = Len(InOrder) /\ answer'.truncated = (Len(InOrder) > Len(Page))
      BY <1>1, <1>2, <1>7, <2>1 DEF keys, Keys
    <2> HIDE DEF keys
    <2>11. /\ ToSet(Keys') \subseteq Due'
           /\ \A j, k \in DOMAIN Keys' : j < k => (Keys'[j] # Keys'[k] /\ Keys'[j][2] <= Keys'[k][2])
           /\ \A d \in Due' \ ToSet(Keys') : \A k \in DOMAIN Keys' : Keys'[k][2] <= d[2]
      BY <2>2, <2>5, <2>7, <2>8, <2>10
    <2>12. /\ (Len(Keys') < answer'.total) => (Len(Keys') = query'.limit)
           /\ answer'.truncated <=> (Len(Keys') < answer'.total)
      BY <2>9, <2>10
    <2> QED
      BY <2>10, <2>11, <2>12 DEF AnswerIsTheListing
  <1>10. DetailsWereTrue'
    <2>1. ASSUME NEW k \in DOMAIN answer'.rows
          PROVE  True(answer'.rows[k].details, seen[answer'.rows[k].scope][answer'.rows[k].unit])
      BY <1>1, <1>8, MergedFacts DEF RowOf
    <2> QED
      BY <1>1, <2>1 DEF DetailsWereTrue, True, PropNames
  <1>11. FailuresStayLocal'
    <2>1. ASSUME NEW k \in DOMAIN answer'.rows
          PROVE  Local(query.kind, failed, answer'.rows[k].scope, answer'.rows[k].unit,
                       answer'.rows[k].details, Len(Props))
      BY <1>1, <1>8, MergedFacts DEF RowOf
    <2>2. \A p \in PropNames : \E j \in 1 .. Len(Props) : Props[j] = p
      <3>1. DOMAIN Props = 1 .. Len(Props)
        BY PropsFacts
      <3> QED
        BY <3>1 DEF PropNames, ToSet
    <2>3. \A s \in Asked \intersect down : << s >> \in failed
      BY <1>1, MergedFacts, ScopeFacts DEF IInv
    <2>4. \A s \in down : << s >> \in failed
      BY <1>1, MergedFacts DEF IInv
    <2>5. (~answer'.ok) => (Asked \subseteq down)
      BY <1>1 DEF Hopeless
    <2>6. ASSUME query.kind = "timer", NEW k \in DOMAIN answer'.rows, NEW p \in PropNames,
                 answer'.rows[k].details[p] = None
          PROVE  << answer'.rows[k].scope, answer'.rows[k].unit, p >> \in failed
      BY <2>1, <2>2, <2>6 DEF Local
    <2>7. ASSUME NEW k \in DOMAIN answer'.rows,
                 \E p \in PropNames : answer'.rows[k].details[p] = None
          PROVE  \E p \in PropNames : << answer'.rows[k].scope, answer'.rows[k].unit, p >> \in failed
      BY <2>1, <2>2, <2>7 DEF Local
    <2> QED
      BY <1>1, <1>7, <2>3, <2>4, <2>5, <2>6, <2>7
         DEF FailuresStayLocal, PropertiesIndependent, PropNames
  <1>12. Answered'
    BY <1>1, <1>9, <1>10, <1>11 DEF Answered
  <1> QED
    BY <1>4, <1>5, <1>6, <1>12 DEF IInv

\* Nothing happens.
LEMMA StutterInvariant == ASSUME IInv, UNCHANGED vars PROVE IInv'
  <1>1. /\ UNCHANGED << query, clock, pc, scope, listing, read, details, down, gathered >>
        /\ UNCHANGED << answer, seen, listed, failed >>
    BY DEF vars
  <1>2. TypeOK'
    BY <1>1 DEF IInv, TypeOK, Asked
  <1>3. Tasks'
    <2>1. \A n : Task(n) => Task(n)'
      BY <1>1 DEF Task, True, Local
    <2> QED
      BY <1>1, <2>1 DEF IInv, Tasks
  <1>4. Turns'
    <2>1. \A s \in Scopes : Finished(s)' <=> Finished(s)
      BY <1>1 DEF Finished, Asked
    <2> QED
      BY <1>1, <2>1, TurnsStay DEF IInv
  <1>5. Answered'
    <2>1. Due' = Due /\ Keys' = Keys /\ Asked' = Asked
      BY <1>1 DEF Due, Keys, Asked, PassesState
    <2>2. AnswerIsTheListing => AnswerIsTheListing'
      BY <1>1, <2>1 DEF AnswerIsTheListing
    <2>3. DetailsWereTrue => DetailsWereTrue'
      BY <1>1 DEF DetailsWereTrue
    <2>4. FailuresStayLocal => FailuresStayLocal'
      BY <1>1, <2>1 DEF FailuresStayLocal, PropertiesIndependent
    <2> QED
      BY <1>1, <2>2, <2>3, <2>4 DEF IInv, Answered
  <1> QED
    BY <1>2, <1>3, <1>4, <1>5 DEF IInv

\* No manager has been asked at first.
LEMMA InitInvariant == Init => IInv
  <1> SUFFICES ASSUME Init PROVE IInv
    OBVIOUS
  <1>1. query \in Queries /\ query.scope \in {"system", "user", "both"}
    BY QueriesAssumption DEF Init
  <1>2. scope \in Asked /\ \A s \in Asked : s = scope \/ scope = "system"
    BY <1>1 DEF Init, Asked, Scopes
  <1>3. seen \in [Scopes -> [Names -> SUBSET (Loaded \union {None})]]
    <2>1. ASSUME NEW s \in Scopes, NEW n \in Names PROVE live[s][n] \in Loaded \union {None}
      <3>1. << s, n, 0 >> \in Versions
        BY DEF Versions
      <3>2. State(s, n, "active", 0) \in Loaded
        BY <3>1 DEF State, Loaded
      <3>3. live[s][n] \in {State(s, n, "active", 0), None}
        BY DEF Init
      <3> QED
        BY <3>2, <3>3
    <2> QED
      BY <2>1 DEF Init
  <1>4. TypeOK
    BY <1>2, <1>3 DEF Init, TypeOK
  <1>5. Turns
    <2>1. \A s \in Scopes : ~Finished(s) /\ s \notin down /\ gathered[s] = {}
      BY <1>2 DEF Init, Finished
    <2> QED
      BY <2>1 DEF Turns
  <1>6. Tasks /\ Answered
    BY DEF Init, Tasks, Answered
  <1> QED
    BY <1>4, <1>5, <1>6 DEF IInv

\* Every step keeps it.
LEMMA NextInvariant == ASSUME IInv, [Next]_vars PROVE IInv'
  <1>1. CASE \E s \in Scopes, n \in Names : Change(s, n)
    BY <1>1, ChangeInvariant
  <1>2. CASE ListFails
    BY <1>2, ListFailsInvariant
  <1>3. CASE List
    BY <1>3, ListInvariant
  <1>4. CASE \E n \in Matching : Read(n)
    BY <1>4, ReadInvariant
  <1>5. CASE \E n \in Matching : ReadFails(n)
    BY <1>5, ReadFailsInvariant
  <1>6. CASE \E n \in Matching : ProxyFails(n)
    BY <1>6, ProxyFailsInvariant
  <1>7. CASE Gather
    BY <1>7, GatherInvariant
  <1>8. CASE Reply
    BY <1>8, ReplyInvariant
  <1>9. CASE UNCHANGED vars
    BY <1>9, StutterInvariant
  <1> QED
    BY <1>1, <1>2, <1>3, <1>4, <1>5, <1>6, <1>7, <1>8, <1>9 DEF Next, Serve, Rest

-----------------------------------------------------------------------------
(***************************************************************************)
(* What listings guarantee.                                                *)
(***************************************************************************)

\* The invariant holds throughout.
THEOREM Invariance == Spec => []IInv
  <1>1. Init => IInv
    BY InitInvariant
  <1>2. IInv /\ [Next]_vars => IInv'
    BY NextInvariant
  <1> QED
    BY <1>1, <1>2, PTL DEF Spec

\* list_services, list_timers: the rows are the beginning, in order, of the units that the
\* managers listed and the filter lets pass, each unit of each manager counted once.
THEOREM AnswersAreListings == Spec => []AnswerIsTheListing
  <1>1. IInv => AnswerIsTheListing
    BY DEF IInv, Answered, AnswerIsTheListing
  <1> QED
    BY <1>1, Invariance, PTL

\* fetch_service_details, fetch_timer_details: whatever tasks run side by side, a row's
\* details are those its own unit had during the request.
THEOREM DetailsAreTrue == Spec => []DetailsWereTrue
  <1>1. IInv => DetailsWereTrue
    BY DEF IInv, Answered, DetailsWereTrue
  <1> QED
    BY <1>1, Invariance, PTL

\* What is missing from an answer, a read of that unit, or that manager, has failed.
THEOREM FailuresAreLocal == Spec => []FailuresStayLocal
  <1>1. IInv => FailuresStayLocal
    BY DEF IInv, Answered, FailuresStayLocal
  <1> QED
    BY <1>1, Invariance, PTL

=============================================================================
