--------------------------- MODULE ToolCallsProofs ---------------------------
(***************************************************************************)
(* Proofs about ToolCalls: the answers of the tools are what their calls   *)
(* asked for, for every catalogue of services, timers and journal entries  *)
(* and for every call within the schemas.                                  *)
(*                                                                         *)
(* The invariant of a tool says of every answer how it was computed from   *)
(* the arguments and from what the provider returned; what an answer shows *)
(* then follows from facts about the operators it is computed with.  The   *)
(* first of them is about sorting: a list enumerates the rows that match   *)
(* by their rank, the number of rows that come before each.  Only the      *)
(* groups of list_logs and the arguments of get_container_status are gone  *)
(* through one by one, and have invariants that are kept step by step.     *)
(***************************************************************************)
EXTENDS ToolCalls, Ordering, SequenceTheorems, FiniteSetTheorems, TLAPS

-----------------------------------------------------------------------------
(***************************************************************************)
(* Sorting.                                                                *)
(***************************************************************************)

\* Enumerated puts each element at the place of its rank, and none is left out.
LEMMA EnumeratedFacts ==
  ASSUME NEW S, IsFiniteSet(S), NEW B \in [S -> SUBSET S],
         \A x \in S : x \notin B[x],
         \A x, y, z \in S : (x \in B[y] /\ y \in B[z]) => x \in B[z],
         \A x, y \in S : x \in B[y] \/ y \in B[x] \/ x = y
  PROVE  /\ Cardinality(S) \in Nat
         /\ DOMAIN Enumerated(B) = 1 .. Cardinality(S)
         /\ \A k \in 1 .. Cardinality(S) : Enumerated(B)[k] \in S
         /\ \A x \in S : /\ Cardinality(B[x]) + 1 \in 1 .. Cardinality(S)
                         /\ Enumerated(B)[Cardinality(B[x]) + 1] = x
         /\ \A j, k \in 1 .. Cardinality(S) :
               j < k => Enumerated(B)[j] \in B[Enumerated(B)[k]]
  <1> DEFINE n == Cardinality(S)
             rank == [x \in S |-> Cardinality(B[x])]
             list == Enumerated(B)
  <1>1. /\ \A x \in S : x \notin B[x]
        /\ \A x, y, z \in S : (x \in B[y] /\ y \in B[z]) => x \in B[z]
        /\ \A x, y \in S : x \in B[y] \/ y \in B[x] \/ x = y
        /\ \A x \in S : B[x] \in SUBSET S
    OBVIOUS
  <1>2. n \in Nat
    BY FS_CardinalityType
  <1>3. \A x \in S : rank[x] \in 0 .. (n - 1)
    <2> SUFFICES ASSUME NEW x \in S PROVE Cardinality(B[x]) \in 0 .. (n - 1)
      OBVIOUS
    <2>1. B[x] \in SUBSET S /\ B[x] # S
      BY <1>1
    <2>2. Cardinality(B[x]) \in Nat /\ Cardinality(B[x]) <= n /\ Cardinality(B[x]) # n
      BY <2>1, FS_Subset, FS_CardinalityType
    <2> QED
      BY <1>2, <2>2
  <1>4. \A x, y \in S : x \in B[y] => rank[x] < rank[y]
    <2> SUFFICES ASSUME NEW x \in S, NEW y \in S, x \in B[y]
                 PROVE  Cardinality(B[x]) < Cardinality(B[y])
      OBVIOUS
    <2>1. B[x] \in SUBSET B[y] /\ B[x] # B[y]
      BY <1>1
    <2>2. IsFiniteSet(B[y])
      BY <1>1, FS_Subset
    <2>3. Cardinality(B[x]) <= Cardinality(B[y]) /\ Cardinality(B[x]) # Cardinality(B[y])
      BY <2>1, <2>2, FS_Subset
    <2>4. Cardinality(B[x]) \in Int /\ Cardinality(B[y]) \in Int
      BY <1>2, <1>3
    <2> QED
      BY <2>3, <2>4
  <1>5. \A x, y \in S : rank[x] = rank[y] => x = y
    <2> HIDE DEF rank, n
    <2> QED
      BY <1>1, <1>2, <1>3, <1>4
  <1>6. \A k \in 1 .. n : \E x \in S : rank[x] = k - 1
    <2> DEFINE place == [x \in S |-> rank[x] + 1]
    <2> HIDE DEF rank, n
    <2>1. place \in [S -> 1 .. n]
      BY <1>2, <1>3
    <2>2. ASSUME NEW x \in S, NEW y \in S, place[x] = place[y] PROVE x = y
      <3>1. rank[x] \in Int /\ rank[y] \in Int /\ rank[x] + 1 = rank[y] + 1
        BY <1>2, <1>3, <2>2
      <3> QED
        BY <1>5, <3>1
    <2>3. place \in Injection(S, 1 .. n)
      BY <2>1, <2>2 DEF Injection, IsInjective
    <2>4. IsFiniteSet(1 .. n) /\ Cardinality(1 .. n) = n
      BY <1>2, FS_Interval
    <2>5. place \in Surjection(S, 1 .. n)
      BY <2>3, <2>4, FS_Injection DEF n
    <2>6. \A k \in 1 .. n : \E x \in S : place[x] = k
      BY <2>5 DEF Surjection
    <2>7. \A x \in S : place[x] = rank[x] + 1
      OBVIOUS
    <2> HIDE DEF place
    <2> QED
      BY <1>2, <1>3, <2>6, <2>7
  <1>7. list = [k \in 1 .. n |-> CHOOSE x \in S : rank[x] = k - 1]
    BY DEF Enumerated
  <1>8. \A x \in S : rank[x] = Cardinality(B[x])
    OBVIOUS
  <1> HIDE DEF list, rank, n
  <1>9. \A k \in 1 .. n : list[k] \in S /\ rank[list[k]] = k - 1
    BY <1>6, <1>7
  <1>10. ASSUME NEW x \in S PROVE rank[x] + 1 \in 1 .. n /\ list[rank[x] + 1] = x
    <2>1. rank[x] + 1 \in 1 .. n
      BY <1>2, <1>3
    <2>2. PICK k \in 1 .. n : k = rank[x] + 1
      BY <2>1
    <2>3. list[k] \in S /\ rank[list[k]] = k - 1
      BY <1>9
    <2>4. rank[list[k]] = rank[x]
      BY <1>2, <1>3, <2>2, <2>3
    <2> QED
      BY <1>5, <2>1, <2>2, <2>3, <2>4
  <1>11. ASSUME NEW j \in 1 .. n, NEW k \in 1 .. n, j < k PROVE list[j] \in B[list[k]]
    <2>1. /\ list[j] \in S /\ list[k] \in S
          /\ rank[list[j]] < rank[list[k]]
      BY <1>2, <1>9, <1>11
    <2>2. ~(rank[list[k]] < rank[list[j]]) /\ list[j] # list[k]
      BY <1>2, <1>3, <2>1
    <2> QED
      BY <1>1, <1>4, <2>1, <2>2
  <1> QED
    BY <1>2, <1>7, <1>8, <1>9, <1>10, <1>11 DEF list, n

\* The order a stable sort gives the places P under the relation L: a place stays before a
\* later one unless that is less.
Before(P, L) == [k \in P |-> {j \in P : IF j < k THEN << k, j >> \notin L ELSE << j, k >> \in L}]

\* The rows at the places P in that order.
Chosen(rows, P, L) ==
    [i \in DOMAIN Enumerated(Before(P, L)) |-> rows[Enumerated(Before(P, L))[i]]]

\* L is a strict weak order of P.
WeakOrder(P, L) ==
    /\ \A j, k \in P : << j, k >> \in L => << k, j >> \notin L
    /\ \A i, j, k \in P : << i, k >> \in L => (<< i, j >> \in L \/ << j, k >> \in L)

\* e takes the places of the sorted rows to their places P among the rows, all of them, in the
\* order of L; the place of each is its rank.
Sorts(e, rows, P, L) ==
    /\ e \in [1 .. Cardinality(P) -> P]
    /\ \A i \in 1 .. Cardinality(P) : Chosen(rows, P, L)[i] = rows[e[i]]
    /\ \A i, j \in 1 .. Cardinality(P) : i < j => (e[i] # e[j] /\ << e[j], e[i] >> \notin L)
    /\ \A k \in P : \E i \in 1 .. Cardinality(P) : e[i] = k
    /\ \A k \in P : /\ Cardinality(Before(P, L)[k]) + 1 \in 1 .. Cardinality(P)
                    /\ e[Cardinality(Before(P, L)[k]) + 1] = k

\* A sort shows each of the places once, and none after one that is less; the place of each is
\* its rank.
LEMMA ChosenFacts ==
  ASSUME NEW T, NEW rows \in Seq(T), NEW P \in SUBSET DOMAIN rows, NEW L, WeakOrder(P, L)
  PROVE  /\ IsFiniteSet(P) /\ Cardinality(P) \in Nat
         /\ Chosen(rows, P, L) \in Seq(T) /\ Len(Chosen(rows, P, L)) = Cardinality(P)
         /\ \E e : Sorts(e, rows, P, L)
  <1> DEFINE n == Cardinality(P)
             B == Before(P, L)
             e == Enumerated(B)
  <1>1. P \in SUBSET Nat /\ IsFiniteSet(P)
    <2>1. DOMAIN rows = 1 .. Len(rows) /\ Len(rows) \in Nat
      OBVIOUS
    <2>2. IsFiniteSet(DOMAIN rows)
      BY <2>1, FS_Interval
    <2> QED
      BY <2>1, <2>2, FS_Subset
  <1>2. B \in [P -> SUBSET P]
    BY DEF Before
  <1>3. \A x, y \in P : (x \in B[y]) <=> (IF x < y THEN << y, x >> \notin L ELSE << x, y >> \in L)
    BY DEF Before
  <1> HIDE DEF B
  <1> DEFINE Less(x, y) == << x, y >> \in L
  <1>3a. /\ \A x, y \in P : Less(x, y) => ~Less(y, x)
         /\ \A x, y, z \in P : Less(x, z) => (Less(x, y) \/ Less(y, z))
         /\ \A x, y \in P : (x \in B[y]) <=> (IF x < y THEN ~Less(y, x) ELSE Less(x, y))
    BY <1>3 DEF WeakOrder
  <1> HIDE DEF Less
  <1>4. ASSUME NEW x \in P PROVE x \notin B[x]
    <2>1. x \in Nat
      BY <1>1
    <2>2. ~(x < x)
      BY <2>1
    <2> QED
      BY <1>3a, <2>2
  <1>5. ASSUME NEW x \in P, NEW y \in P PROVE x \in B[y] \/ y \in B[x] \/ x = y
    <2>1. x \in Nat /\ y \in Nat
      BY <1>1
    <2>2. x < y \/ y < x \/ x = y
      BY <2>1
    <2>3. ~(x < y /\ y < x)
      BY <2>1
    <2>4. /\ (x \in B[y]) <=> (IF x < y THEN ~Less(y, x) ELSE Less(x, y))
          /\ (y \in B[x]) <=> (IF y < x THEN ~Less(x, y) ELSE Less(y, x))
      BY <1>3a
    <2> QED
      BY <2>2, <2>3, <2>4
  <1>6. ASSUME NEW x \in P, NEW y \in P, NEW z \in P, x \in B[y], y \in B[z]
        PROVE  x \in B[z]
    <2>1. x \in Nat /\ y \in Nat /\ z \in Nat
      BY <1>1
    <2>2. /\ (x \in B[y]) <=> (IF x < y THEN ~Less(y, x) ELSE Less(x, y))
          /\ (y \in B[z]) <=> (IF y < z THEN ~Less(z, y) ELSE Less(y, z))
          /\ (x \in B[z]) <=> (IF x < z THEN ~Less(z, x) ELSE Less(x, z))
      BY <1>3a
    <2>3. /\ Less(x, y) => ~Less(y, x)
          /\ Less(y, z) => ~Less(z, y)
          /\ Less(x, z) => ~Less(z, x)
      BY <1>3a
    <2>4. /\ Less(z, x) => (Less(z, y) \/ Less(y, x))
          /\ Less(y, x) => (Less(y, z) \/ Less(z, x))
          /\ Less(z, y) => (Less(z, x) \/ Less(x, y))
          /\ Less(x, y) => (Less(x, z) \/ Less(z, y))
          /\ Less(y, z) => (Less(y, x) \/ Less(x, z))
      BY <1>3a
    <2>5. (x < y /\ y < z) => x < z
      BY <2>1
    <2>6. (x < z) => (x < y \/ y < z)
      BY <2>1
    <2> QED
      BY <1>6, <2>2, <2>3, <2>4, <2>5, <2>6
  <1>7. /\ n \in Nat
        /\ DOMAIN e = 1 .. n
        /\ \A k \in 1 .. n : e[k] \in P
        /\ \A x \in P : Cardinality(B[x]) + 1 \in 1 .. n /\ e[Cardinality(B[x]) + 1] = x
        /\ \A j, k \in 1 .. n : j < k => e[j] \in B[e[k]]
    BY <1>1, <1>2, <1>4, <1>5, <1>6, EnumeratedFacts
  <1>8. e = [i \in 1 .. n |-> e[i]]
    BY <1>7 DEF Enumerated
  <1>9. Chosen(rows, P, L) = [i \in 1 .. n |-> rows[e[i]]]
    BY <1>7 DEF Chosen, B
  <1> HIDE DEF e, n
  <1>10. ASSUME NEW i \in 1 .. n, NEW j \in 1 .. n, i < j
         PROVE  e[i] # e[j] /\ << e[j], e[i] >> \notin L
    <2>1. e[i] \in B[e[j]] /\ e[i] \in P /\ e[j] \in P
      BY <1>7, <1>10
    <2> QED
      BY <1>3, <1>4, <2>1 DEF WeakOrder
  <1>11. e \in [1 .. n -> P]
    BY <1>7, <1>8
  <1>12. \A i \in 1 .. n : rows[e[i]] \in T
    BY <1>7
  <1>13. Chosen(rows, P, L) \in Seq(T) /\ Len(Chosen(rows, P, L)) = n
    BY <1>7, <1>9, <1>12
  <1>14. \A k \in P : \E i \in 1 .. n : e[i] = k
    BY <1>7
  <1>15. \A i \in 1 .. n : Chosen(rows, P, L)[i] = rows[e[i]]
    BY <1>9
  <1>16. Sorts(e, rows, P, L)
    BY <1>7, <1>10, <1>11, <1>14, <1>15 DEF n, B, Sorts
  <1> QED
    BY <1>1, <1>7, <1>13, <1>16 DEF n

\* `truncate` and `take`: the beginning, of n rows at most.
Cut(rows, n) == SubSeq(rows, 1, IF Len(rows) < n THEN Len(rows) ELSE n)

\* It is at most that long, and nothing in it has moved.
LEMMA CutFacts ==
  ASSUME NEW T, NEW rows \in Seq(T), NEW n \in Nat
  PROVE  /\ Cut(rows, n) \in Seq(T)
         /\ Len(Cut(rows, n)) = (IF Len(rows) < n THEN Len(rows) ELSE n)
         /\ \A i \in 1 .. Len(Cut(rows, n)) : i \in 1 .. Len(rows) /\ Cut(rows, n)[i] = rows[i]
  BY DEF Cut

\* Counting is counting in every handler.
LEMMA SameCardinality ==
  ASSUME NEW S
  PROVE  /\ ListServices!Cardinality(S) = Cardinality(S)
         /\ ListTimers!Cardinality(S) = Cardinality(S)
         /\ ListLogs!Cardinality(S) = Cardinality(S)
  <1>1. ListServices!Cardinality(S) = Cardinality(S)
    BY DEF ListServices!Cardinality, Cardinality
  <1>2. ListTimers!Cardinality(S) = Cardinality(S)
    BY DEF ListTimers!Cardinality, Cardinality
  <1>3. ListLogs!Cardinality(S) = Cardinality(S)
    BY DEF ListLogs!Cardinality, Cardinality
  <1> QED
    BY <1>1, <1>2, <1>3

\* So is putting in order.
LEMMA SameEnumerated ==
  ASSUME NEW B
  PROVE  /\ ListServices!Enumerated(B) = Enumerated(B)
         /\ ListTimers!Enumerated(B) = Enumerated(B)
         /\ ListLogs!Enumerated(B) = Enumerated(B)
  <1>1. ListServices!Enumerated(B) = Enumerated(B)
    BY DEF ListServices!Enumerated, Enumerated, ListServices!Cardinality, Cardinality
  <1>2. ListTimers!Enumerated(B) = Enumerated(B)
    BY DEF ListTimers!Enumerated, Enumerated, ListTimers!Cardinality, Cardinality
  <1>3. ListLogs!Enumerated(B) = Enumerated(B)
    BY DEF ListLogs!Enumerated, Enumerated, ListLogs!Cardinality, Cardinality
  <1> QED
    BY <1>1, <1>2, <1>3

-----------------------------------------------------------------------------
(***************************************************************************)
(* list_services.                                                          *)
(***************************************************************************)

ServicePlaces == {k \in DOMAIN given : ListServices!Wanted(given[k])}
ServiceOrder ==
    {p \in (DOMAIN given) \X (DOMAIN given) : ListServices!FirstOf(given[p[1]], given[p[2]])}

ServiceRow == [unit : Int, state : STRING]
ServiceList == Chosen(given, ServicePlaces, ServiceOrder)

\* The answer to an acceptable call whose services were listed.
ServiceAnswer ==
    LET page == ListServices!Paginate(ServiceList, ListServices!Limit)
    IN  [ok |-> TRUE, page |-> page,
         summary |-> IF args.summary = TRUE THEN ListServices!Summarize(page.rows) ELSE None]

\* How far a call has come.
ServicesInv ==
    /\ args \in ServiceCalls
    /\ pc \in {"received", "list", "rows", "done"}
    /\ given \in Services \union {<< >>}
    /\ (pc # "done") => (answer = None)
    /\ (pc \in {"list", "rows"}) => (ListServices!Refusal = None)
    /\ (pc = "done") =>
          \/ /\ ListServices!Refusal # None
             /\ answer = ListServices!Refused(ListServices!Refusal)
          \/ /\ ListServices!Refusal = None
             /\ answer \in {ListServices!Refused("internal"), ServiceAnswer}

\* What list_services filters and sorts is the list of its rows in the order of their ranks.
LEMMA ServiceListIsSorted ==
  ListServices!FilterSort(given, ListServices!Wanted, ListServices!FirstOf) = ServiceList
  <1> DEFINE B == [k \in ServicePlaces |->
                     {j \in ServicePlaces : IF j < k THEN ~ListServices!FirstOf(given[k], given[j])
                                            ELSE ListServices!FirstOf(given[j], given[k])}]
  <1>0. \A j, k \in ServicePlaces :
           << j, k >> \in ServiceOrder <=> ListServices!FirstOf(given[j], given[k])
    BY DEF ServiceOrder, ServicePlaces
  <1>1. B = Before(ServicePlaces, ServiceOrder)
    BY <1>0 DEF Before
  <1>2. ListServices!Enumerated(B) = Enumerated(B)
    BY SameEnumerated
  <1>3. ListServices!FilterSort(given, ListServices!Wanted, ListServices!FirstOf) =
            [i \in DOMAIN ListServices!Enumerated(B) |-> given[ListServices!Enumerated(B)[i]]]
    BY DEF ListServices!FilterSort, ServicePlaces
  <1> QED
    BY <1>1, <1>2, <1>3 DEF Chosen, ServiceList

\* What is answered depends on the call and the listing only.
LEMMA ServiceAnswerStays ==
  ASSUME UNCHANGED << args, given >>
  PROVE  UNCHANGED << ServiceAnswer, ListServices!Refusal >>
  <1>1. ListServices!Refusal' = ListServices!Refusal /\ ListServices!Limit' = ListServices!Limit
    BY DEF ListServices!Refusal, ListServices!LimitFits, ListServices!Limit
  <1>2. ServicePlaces' = ServicePlaces
    BY DEF ServicePlaces, ListServices!Wanted
  <1>3. ServiceOrder' = ServiceOrder
    BY DEF ServiceOrder, ListServices!FirstOf, ListServices!Failed, ListServices!ByUnit
  <1>4. ServiceList' = ServiceList
    BY <1>2, <1>3 DEF ServiceList
  <1> QED
    BY <1>1, <1>4 DEF ServiceAnswer

\* Every step of the handler keeps it.
LEMMA ServicesStep ==
  ASSUME ServicesInv, ListServices!Next \/ UNCHANGED ListServices!vars
  PROVE  ServicesInv'
  <1> USE DEF ServicesInv
  <1>1. CASE ListServices!Normalize
    BY <1>1 DEF ListServices!Normalize, ListServices!Reply, ListServices!Refused,
       ListServices!Refusal, ListServices!LimitFits, ListServices!Limit
  <1>2. CASE ListServices!List
    BY <1>2 DEF ListServices!List, ListServices!Reply, ListServices!Refused,
       ListServices!Refusal, ListServices!LimitFits, ListServices!Limit
  <1>3. CASE ListServices!Respond
    <2>1. /\ pc = "rows" /\ pc' = "done" /\ answer' = ServiceAnswer
          /\ UNCHANGED << args, given >>
      BY <1>3, ServiceListIsSorted DEF ListServices!Respond, ListServices!Reply, ServiceAnswer
    <2> QED
      BY <2>1, ServiceAnswerStays
  <1>4. CASE ListServices!Rest \/ UNCHANGED ListServices!vars
    <2>1. UNCHANGED << args, given, pc, answer >>
      BY <1>4 DEF ListServices!Rest, ListServices!vars
    <2> QED
      BY <2>1, ServiceAnswerStays DEF ListServices!Refused
  <1> QED
    BY <1>1, <1>2, <1>3, <1>4 DEF ListServices!Next

\* What the names are not.
LEMMA NamesFacts ==
  /\ None \notin Int /\ None \notin BOOLEAN /\ None \notin Codes
  /\ Mistyped \notin Int /\ Mistyped \notin BOOLEAN
  /\ Bad \notin Int /\ Bad \notin BOOLEAN /\ Bad # "name" /\ Bad # "asc"
  /\ None # Mistyped /\ None # Bad /\ None # Redacted /\ Mistyped # Bad /\ None # "failed"
  /\ \A name \in {None, Mistyped, Bad} :
        /\ name \notin STRING /\ name \notin Seq(STRING) /\ name \notin DOMAIN ListTimers!Rank
        /\ name \notin {"exclude_units", "scope", "priority", "unit"}
  <1>1. \A name \in {None, Mistyped, Bad} :
           /\ name \notin Int /\ name \notin BOOLEAN /\ name \notin Codes /\ name # "name"
           /\ name # "asc" /\ name # "failed" /\ name \notin STRING
           /\ name \notin Seq(STRING) /\ name \notin DOMAIN ListTimers!Rank
           /\ name \notin {"exclude_units", "scope", "priority", "unit"}
    BY NamesAssumption
  <1> QED
    BY <1>1, NamesAssumption

\* An acceptable call is one whose arguments are.
LEMMA ServicesRefusal ==
  ASSUME args \in ServiceCalls
  PROVE  /\ (ListServices!Refusal # None) <=>
               \/ \E field \in DOMAIN args : args[field] \in {Mistyped, Bad}
               \/ args.limit # None /\ args.limit \notin 1 .. MaxLimit
         /\ (ListServices!Refusal = None) => (ListServices!Limit \in 1 .. MaxLimit)
         /\ (ListServices!Refusal # None) => (ListServices!Refusal \in Codes \ {"internal"})
  <1>1. /\ DOMAIN args = {"scope", "state", "names", "limit", "summary"}
        /\ args.names # Bad /\ args.limit # Bad /\ args.summary # Bad
        /\ args.limit \in Nat \/ args.limit = None \/ args.limit = Mistyped
    <2>1. /\ DOMAIN args = {"scope", "state", "names", "limit", "summary"}
          /\ args.names # Bad
          /\ args.limit \in Nat \union {None, Mistyped}
          /\ args.summary \in BOOLEAN \union {None, Mistyped}
      BY CallsAssumption
    <2> QED
      BY <2>1, NamesFacts
  <1>2. /\ None \notin Int /\ Mistyped # None /\ Bad # None
        /\ MaxLimit \in Nat /\ DefaultLimit \in 1 .. MaxLimit
    BY NamesFacts, LimitsAssumption
  <1>0. \A code \in {"invalid_params", "invalid_scope", "invalid_state", "invalid_limit"} :
           code \in Codes \ {"internal"} /\ code # None
    BY NamesFacts DEF Codes
  <1>3. CASE \E field \in DOMAIN args : args[field] = Mistyped
    <2>1. ListServices!Refusal = "invalid_params"
      BY <1>3 DEF ListServices!Refusal
    <2> QED
      BY <1>0, <1>3, <2>1
  <1>4. CASE ~(\E field \in DOMAIN args : args[field] = Mistyped)
    <2>1. (\E field \in DOMAIN args : args[field] \in {Mistyped, Bad}) <=>
              (args.scope = Bad \/ args.state = Bad)
      BY <1>1, <1>4
    <2>2. args.limit \in Nat \/ args.limit = None
      BY <1>1, <1>4
    <2>3. ListServices!LimitFits(ListServices!Limit) <=>
              (args.limit = None \/ args.limit \in 1 .. MaxLimit)
      BY <1>2, <2>2 DEF ListServices!LimitFits, ListServices!Limit
    <2>4. ListServices!LimitFits(ListServices!Limit) => (ListServices!Limit \in 1 .. MaxLimit)
      BY <1>2, <2>2 DEF ListServices!LimitFits, ListServices!Limit
    <2>5. CASE args.scope = Bad \/ args.state = Bad
      <3>1. ListServices!Refusal \in {"invalid_scope", "invalid_state"}
        BY <1>4, <2>5 DEF ListServices!Refusal
      <3> QED
        BY <1>0, <2>1, <2>5, <3>1
    <2>6. CASE ~(args.scope = Bad \/ args.state = Bad)
      <3>1. ListServices!Refusal = (IF ~ListServices!LimitFits(ListServices!Limit)
                                    THEN "invalid_limit" ELSE None)
        BY <1>4, <2>6 DEF ListServices!Refusal
      <3> QED
        BY <1>0, <2>1, <2>3, <2>4, <2>6, <3>1
    <2> QED
      BY <2>5, <2>6
  <1> QED
    BY <1>3, <1>4

\* Calls are refused for cause only.
LEMMA ServicesRefusedForCause ==
  ASSUME ServicesInv
  PROVE  ListServices!RefusedForCause
  <1> DEFINE Cause == \/ \E field \in DOMAIN args : args[field] \in {Mistyped, Bad}
                      \/ args.limit # None /\ args.limit \notin 1 .. MaxLimit
  <1>1. (ListServices!Refusal # None) <=> Cause
    BY ServicesRefusal DEF ServicesInv
  <1>2. (ListServices!Refusal # None) => (ListServices!Refusal \in Codes \ {"internal"})
    BY ServicesRefusal DEF ServicesInv
  <1> HIDE DEF Cause
  <1>3. \A code \in Codes : /\ ListServices!Refused(code) # None
                             /\ ~ListServices!Refused(code).ok
                             /\ ListServices!Refused(code).code = code
    <2> SUFFICES ASSUME NEW code \in Codes
                 PROVE  /\ ListServices!Refused(code) # None
                        /\ ~ListServices!Refused(code).ok
                        /\ ListServices!Refused(code).code = code
      OBVIOUS
    <2>1. ListServices!Refused(code) \in [ok : {FALSE}, code : Codes]
      BY DEF ListServices!Refused
    <2> QED
      BY <2>1, NamesAssumption DEF ListServices!Refused
  <1>4. (answer # None /\ ~answer.ok /\ answer.code # "internal") <=> (pc = "done" /\ Cause)
    <2>1. CASE pc # "done"
      BY <2>1 DEF ServicesInv
    <2>2. CASE pc = "done" /\ ListServices!Refusal # None
      BY <1>1, <1>2, <1>3, <2>2 DEF ServicesInv
    <2>3. CASE pc = "done" /\ ListServices!Refusal = None
      <3>1. ServiceAnswer.ok = TRUE
        BY DEF ServiceAnswer
      <3>2. answer = ListServices!Refused("internal") \/ answer = ServiceAnswer
        BY <2>3 DEF ServicesInv
      <3>3. ListServices!Refused("internal").code = "internal"
        BY DEF ListServices!Refused
      <3> QED
        BY <1>1, <2>3, <3>1, <3>2, <3>3
    <2> QED
      BY <2>1, <2>2, <2>3
  <1> QED
    BY <1>4 DEF ListServices!RefusedForCause, Cause

\* An answer with rows is the one that was made of the listing.
LEMMA ServicesListed ==
  ASSUME ServicesInv, ListServices!Listed
  PROVE  /\ answer = ServiceAnswer /\ ListServices!Limit \in 1 .. MaxLimit
         /\ given \in Seq(ServiceRow)
  <1>1. pc = "done"
    BY DEF ServicesInv, ListServices!Listed
  <1>2. \A code : ListServices!Refused(code).ok = FALSE
    BY DEF ListServices!Refused
  <1>3. answer = ServiceAnswer /\ ListServices!Refusal = None
    BY <1>1, <1>2 DEF ServicesInv, ListServices!Listed
  <1>4. given \in Seq(ServiceRow)
    <2>1. Services \subseteq Seq(ServiceRow)
      BY RowsAssumption DEF ServiceRow
    <2>2. << >> \in Seq(ServiceRow)
      OBVIOUS
    <2> QED
      BY <2>1, <2>2 DEF ServicesInv
  <1> QED
    BY <1>3, <1>4, ServicesRefusal DEF ServicesInv

\* Failed first and by name is an order.
LEMMA ServiceOrderIsWeak ==
  ASSUME given \in Seq(ServiceRow)
  PROVE  /\ WeakOrder(ServicePlaces, ServiceOrder)
         /\ ServicePlaces \in SUBSET DOMAIN given
         /\ \A j, k \in ServicePlaces : 
               << j, k >> \in ServiceOrder <=> given[j].unit < given[k].unit
  <1>1. \A j, k \in ServicePlaces :
           << j, k >> \in ServiceOrder <=> ListServices!FirstOf(given[j], given[k])
    BY DEF ServiceOrder, ServicePlaces
  <1>2. \A k \in ServicePlaces : /\ given[k].unit \in Int
                                 /\ args.state = "failed" => given[k].state = "failed"
    <2>1. \A k \in DOMAIN given : given[k].unit \in Int
      <3>1. \A k \in DOMAIN given : given[k] \in ServiceRow
        OBVIOUS
      <3> QED
        BY <3>1 DEF ServiceRow
    <2>2. \A k \in ServicePlaces : k \in DOMAIN given /\ args.state \in {None, given[k].state}
      BY DEF ServicePlaces, ListServices!Wanted
    <2> QED
      BY <2>1, <2>2, NamesFacts
  <1>3. \A j, k \in ServicePlaces :
           << j, k >> \in ServiceOrder <=> given[j].unit < given[k].unit
    BY <1>1, <1>2 DEF ListServices!FirstOf, ListServices!Failed, ListServices!ByUnit
  <1>4. \A j, k \in ServicePlaces : << j, k >> \in ServiceOrder => << k, j >> \notin ServiceOrder
    BY <1>2, <1>3
  <1>5. ASSUME NEW i \in ServicePlaces, NEW j \in ServicePlaces, NEW k \in ServicePlaces,
               << i, k >> \in ServiceOrder
        PROVE  << i, j >> \in ServiceOrder \/ << j, k >> \in ServiceOrder
    BY <1>2, <1>3, <1>5
  <1>6. ServicePlaces \in SUBSET DOMAIN given
    BY DEF ServicePlaces
  <1> QED
    BY <1>3, <1>4, <1>5, <1>6 DEF WeakOrder

\* The page is the beginning of all that match.
LEMMA ServicesPageIsFirst ==
  ASSUME ServicesInv
  PROVE  ListServices!PageIsFirst
  <1> SUFFICES ASSUME ListServices!Listed PROVE ListServices!PageIsFirst
    BY DEF ListServices!PageIsFirst
  <1> DEFINE n == Cardinality(ServicePlaces)
             page == Cut(ServiceList, ListServices!Limit)
             Rank(k) == Cardinality(Before(ServicePlaces, ServiceOrder)[k]) + 1
  <1>1. /\ answer = ServiceAnswer /\ ListServices!Limit \in 1 .. MaxLimit
        /\ given \in Seq(ServiceRow) /\ MaxLimit \in Nat
    BY ServicesListed, LimitsAssumption
  <1>2. /\ WeakOrder(ServicePlaces, ServiceOrder)
        /\ ServicePlaces \in SUBSET DOMAIN given
        /\ \A j, k \in ServicePlaces : 
               << j, k >> \in ServiceOrder <=> given[j].unit < given[k].unit
    BY <1>1, ServiceOrderIsWeak
  <1>3. /\ n \in Nat
        /\ ServiceList \in Seq(ServiceRow) /\ Len(ServiceList) = n
        /\ \A k \in ServicePlaces : Rank(k) \in 1 .. n /\ ServiceList[Rank(k)] = given[k]
    <2> DEFINE P == ServicePlaces
               L == ServiceOrder
    <2>1. /\ IsFiniteSet(P) /\ Cardinality(P) \in Nat
          /\ Chosen(given, P, L) \in Seq(ServiceRow) /\ Len(Chosen(given, P, L)) = Cardinality(P)
          /\ \E e : Sorts(e, given, P, L)
      BY <1>1, <1>2, ChosenFacts
    <2>2. PICK e : Sorts(e, given, P, L)
      BY <2>1
    <2>3. /\ \A i \in 1 .. n : ServiceList[i] = given[e[i]]
          /\ \A k \in ServicePlaces : Rank(k) \in 1 .. n /\ e[Rank(k)] = k
      BY <2>2 DEF Sorts, ServiceList
    <2> QED
      BY <2>1, <2>3 DEF ServiceList
  <1>4. /\ page \in Seq(ServiceRow)
        /\ Len(page) = (IF n < ListServices!Limit THEN n ELSE ListServices!Limit)
        /\ \A i \in 1 .. Len(page) : i \in 1 .. n /\ page[i] = ServiceList[i]
    BY <1>1, <1>3, CutFacts
  <1>5. /\ answer.page.rows = page /\ answer.page.total = n
        /\ answer.page.truncated <=> n > Len(page)
    BY <1>1, <1>3 DEF ServiceAnswer, ListServices!Paginate, ListServices!Truncate, Cut
  <1>6. ListServices!Asked = ServicePlaces
    BY DEF ListServices!Asked, ServicePlaces, ListServices!Wanted
  <1>7. \A k \in ServicePlaces : Before(ServicePlaces, ServiceOrder)[k] =
           {j \in ServicePlaces : given[j].unit < given[k].unit
                                    \/ (given[j].unit = given[k].unit /\ j < k)}
    <2> SUFFICES ASSUME NEW k \in ServicePlaces, NEW j \in ServicePlaces
                 PROVE  (j \in Before(ServicePlaces, ServiceOrder)[k]) <=>
                            (given[j].unit < given[k].unit
                                    \/ (given[j].unit = given[k].unit /\ j < k))
      BY DEF Before
    <2>1. given[j].unit \in Int /\ given[k].unit \in Int /\ j \in Int /\ k \in Int
      <3>1. j \in DOMAIN given /\ k \in DOMAIN given
        BY <1>2
      <3>2. given[j] \in ServiceRow /\ given[k] \in ServiceRow /\ j \in Int /\ k \in Int
        BY <1>1, <3>1
      <3> QED
        BY <3>2 DEF ServiceRow
    <2>2. (j \in Before(ServicePlaces, ServiceOrder)[k]) <=>
              (IF j < k THEN ~(given[k].unit < given[j].unit) ELSE given[j].unit < given[k].unit)
      BY <1>2 DEF Before
    <2> QED
      BY <2>1, <2>2
  <1> HIDE DEF page, n
  <1>8. Len(page) <= ListServices!Limit /\ Len(page) <= n /\ (n > Len(page) <=> Len(page) < n)
    BY <1>1, <1>3, <1>4
  <1>9. \A k \in ServicePlaces : (Rank(k) <= ListServices!Limit) => page[Rank(k)] = given[k]
    <2> SUFFICES ASSUME NEW k \in ServicePlaces, Rank(k) <= ListServices!Limit
                 PROVE  page[Rank(k)] = given[k]
      OBVIOUS
    <2> HIDE DEF Rank
    <2>1. Rank(k) \in 1 .. Len(page)
      BY <1>1, <1>3, <1>4
    <2> QED
      BY <1>3, <1>4, <2>1
  <1> DEFINE Above(k) == {j \in ServicePlaces : given[j].unit < given[k].unit
                                    \/ (given[j].unit = given[k].unit /\ j < k)}
  <1>10. \A k \in ServicePlaces : Rank(k) = ListServices!Cardinality(Above(k)) + 1
    BY <1>7, SameCardinality
  <1> HIDE DEF Rank
  <1>11. n = ListServices!Cardinality(ServicePlaces)
    BY SameCardinality DEF n
  <1> QED
    BY <1>5, <1>6, <1>8, <1>9, <1>10, <1>11 DEF ListServices!PageIsFirst, ListServices!Rows

\* What a page shows is made of rows of the listing.
LEMMA ServicesPage ==
  ASSUME ServicesInv, ListServices!Listed
  PROVE  /\ ListServices!Rows \in Seq(ServiceRow)
         /\ (args.summary = TRUE) => (answer.summary = ListServices!Summarize(ListServices!Rows))
  <1> DEFINE P == ServicePlaces
             L == ServiceOrder
             page == Cut(ServiceList, ListServices!Limit)
  <1>1. /\ answer = ServiceAnswer /\ ListServices!Limit \in Nat /\ given \in Seq(ServiceRow)
    BY ServicesListed, LimitsAssumption
  <1>2. WeakOrder(P, L) /\ P \in SUBSET DOMAIN given
    BY <1>1, ServiceOrderIsWeak
  <1>3. Chosen(given, P, L) \in Seq(ServiceRow)
    BY <1>1, <1>2, ChosenFacts
  <1>4. page \in Seq(ServiceRow)
    BY <1>1, <1>3, CutFacts DEF ServiceList
  <1>5. /\ answer.page.rows = page
        /\ answer.summary = IF args.summary = TRUE THEN ListServices!Summarize(page) ELSE None
    BY <1>1 DEF ServiceAnswer, ListServices!Paginate, ListServices!Truncate, Cut
  <1> QED
    BY <1>4, <1>5 DEF ListServices!Rows

\* The failed units of some rows are shown each once.
LEMMA FailedAreShown ==
  ASSUME NEW rows \in Seq(ServiceRow)
  PROVE  LET P == {k \in DOMAIN rows : rows[k].state = "failed"}
             list == ListServices!FilterSort(rows, ListServices!Failed, ListServices!ByUnit)
         IN  /\ list \in Seq(ServiceRow) /\ Len(list) = Cardinality(P)
             /\ IsFiniteSet(P) /\ Cardinality(P) \in Nat
             /\ \A i \in 1 .. Len(list) : \E k \in P : rows[k] = list[i]
  <1> DEFINE P == {k \in DOMAIN rows : rows[k].state = "failed"}
             L == {p \in P \X P : rows[p[1]].unit < rows[p[2]].unit}
             list == ListServices!FilterSort(rows, ListServices!Failed, ListServices!ByUnit)
  <1>1. \A k \in P : rows[k].unit \in Int
    <2>1. \A k \in P : rows[k] \in ServiceRow
      OBVIOUS
    <2> QED
      BY <2>1 DEF ServiceRow
  <1>2. P \in SUBSET DOMAIN rows
    OBVIOUS
  <1>3. \A j, k \in P : << j, k >> \in L <=> rows[j].unit < rows[k].unit
    OBVIOUS
  <1>4. list = Chosen(rows, P, L)
    <2> DEFINE B == [k \in P |-> {j \in P : IF j < k THEN ~(rows[k].unit < rows[j].unit)
                                            ELSE rows[j].unit < rows[k].unit}]
    <2>1. B = Before(P, L)
      BY <1>3 DEF Before
    <2>2. ListServices!Enumerated(B) = Enumerated(B)
      BY SameEnumerated
    <2>3. list = [i \in DOMAIN ListServices!Enumerated(B) |-> rows[ListServices!Enumerated(B)[i]]]
      BY DEF ListServices!FilterSort, ListServices!Failed, ListServices!ByUnit
    <2> QED
      BY <2>1, <2>2, <2>3 DEF Chosen
  <1> HIDE DEF P, L, list
  <1>5. WeakOrder(P, L)
    <2>1. ASSUME NEW j \in P, NEW k \in P, << j, k >> \in L
          PROVE  << k, j >> \notin L
      <3>1. rows[j].unit \in Int /\ rows[k].unit \in Int
        BY <1>1
      <3> QED
        BY ONLY <1>3, <2>1, <3>1, j \in P, k \in P
    <2>2. ASSUME NEW i \in P, NEW j \in P, NEW k \in P, << i, k >> \in L
          PROVE  << i, j >> \in L \/ << j, k >> \in L
      <3>1. rows[i].unit \in Int /\ rows[j].unit \in Int /\ rows[k].unit \in Int
        BY <1>1
      <3>2. /\ << i, k >> \in L <=> rows[i].unit < rows[k].unit
            /\ << i, j >> \in L <=> rows[i].unit < rows[j].unit
            /\ << j, k >> \in L <=> rows[j].unit < rows[k].unit
        BY ONLY <1>3, i \in P, j \in P, k \in P
      <3> QED
        BY ONLY <2>2, <3>1, <3>2
    <2> QED
      BY <2>1, <2>2 DEF WeakOrder
  <1>6. /\ IsFiniteSet(P) /\ Cardinality(P) \in Nat
        /\ Chosen(rows, P, L) \in Seq(ServiceRow) /\ Len(Chosen(rows, P, L)) = Cardinality(P)
        /\ \E e : Sorts(e, rows, P, L)
    BY <1>2, <1>5, ChosenFacts
  <1>7. \A i \in 1 .. Cardinality(P) : \E k \in P : rows[k] = list[i]
    <2>1. PICK e : Sorts(e, rows, P, L)
      BY <1>6
    <2> QED
      BY <1>4, <2>1 DEF Sorts
  <1> QED
    BY <1>4, <1>6, <1>7 DEF P, list

\* A summary describes its page.
LEMMA ServicesSummaryOfPage ==
  ASSUME ServicesInv
  PROVE  ListServices!SummaryOfPage
  <1> SUFFICES ASSUME ListServices!Listed, args.summary = TRUE PROVE ListServices!SummaryOfPage
    BY DEF ListServices!SummaryOfPage
  <1> DEFINE rows == ListServices!Rows
             D == DOMAIN rows
             P == {k \in D : rows[k].state = "failed"}
             all == ListServices!FilterSort(rows, ListServices!Failed, ListServices!ByUnit)
             failed == Cut(all, MaxFailed)
             keys == [k \in D |-> rows[k].state]
             counts == ListServices!Tally(keys, None)
             summary == answer.summary
  <1>1. rows \in Seq(ServiceRow) /\ summary = ListServices!Summarize(rows)
    BY ServicesPage
  <1>2. MaxFailed \in Nat /\ MaxFailed > 0
    BY LimitsAssumption
  <1>3. /\ summary.counts = counts /\ summary.failed = failed
        /\ summary.hint = IF failed = << >> THEN None ELSE Len(failed)
    <2>1. ListServices!Summarize(rows) =
              [counts |-> counts, failed |-> failed,
               hint |-> IF failed = << >> THEN None ELSE Len(failed)]
      BY DEF ListServices!Summarize, ListServices!Truncate, Cut
    <2> HIDE DEF counts, failed
    <2> QED
      BY <1>1, <2>1
  <1>4. /\ all \in Seq(ServiceRow) /\ Len(all) = Cardinality(P)
        /\ IsFiniteSet(P) /\ Cardinality(P) \in Nat
        /\ \A i \in 1 .. Len(all) : \E k \in P : rows[k] = all[i]
    BY <1>1, FailedAreShown
  <1> HIDE DEF rows, all
  <1>5. /\ failed \in Seq(ServiceRow)
        /\ Len(failed) = (IF Cardinality(P) < MaxFailed THEN Cardinality(P) ELSE MaxFailed)
        /\ \A i \in 1 .. Len(failed) : i \in 1 .. Len(all) /\ failed[i] = all[i]
    <2>1. all \in Seq(ServiceRow) /\ MaxFailed \in Nat
      BY <1>2, <1>4
    <2>2. /\ Cut(all, MaxFailed) \in Seq(ServiceRow)
          /\ Len(Cut(all, MaxFailed)) = (IF Len(all) < MaxFailed THEN Len(all) ELSE MaxFailed)
          /\ \A i \in 1 .. Len(Cut(all, MaxFailed)) :
                i \in 1 .. Len(all) /\ Cut(all, MaxFailed)[i] = all[i]
      BY ONLY <2>1, CutFacts
    <2> QED
      BY <1>4, <2>2
  <1>6. \A k \in D : rows[k].state # None
    <2>1. \A k \in D : rows[k] \in ServiceRow
      BY <1>1
    <2> QED
      BY <2>1, NamesFacts DEF ServiceRow
  <1>7. /\ DOMAIN counts = {keys[k] : k \in DOMAIN keys} \ {None}
        /\ \A s \in DOMAIN counts :
              counts[s] = ListServices!Cardinality({k \in DOMAIN keys : keys[k] = s})
    BY DEF ListServices!Tally, ListServices!ToSet
  <1>8. DOMAIN keys = D /\ \A k \in D : keys[k] = rows[k].state
    OBVIOUS
  <1> HIDE DEF keys, counts, D
  <1>9. /\ \A s \in DOMAIN counts :
              counts[s] = ListServices!Cardinality({k \in D : rows[k].state = s})
        /\ \A k \in D : rows[k].state \in DOMAIN counts
    <2>1. \A s : {k \in DOMAIN keys : keys[k] = s} = {k \in D : rows[k].state = s}
      BY <1>8
    <2>2. \A k \in D : rows[k].state \in DOMAIN counts
      BY <1>6, <1>7, <1>8
    <2> QED
      BY <1>7, <2>1, <2>2
  <1>10. (P = {}) <=> (Cardinality(P) = 0)
    BY <1>4, FS_EmptySet
  <1> HIDE DEF P, failed
  <1>11. DOMAIN failed = 1 .. Len(failed) /\ Len(failed) \in Nat
    BY <1>5
  <1>12. \A i \in DOMAIN failed : \E k \in P : rows[k] = failed[i]
    BY <1>4, <1>5, <1>11
  <1>13. (summary.hint = None) <=> (P = {})
    <2>1. (Len(failed) = 0) <=> (P = {})
      <3> DEFINE c == Cardinality(P)
                 m == Len(failed)
      <3>1. c \in Nat /\ m = (IF c < MaxFailed THEN c ELSE MaxFailed) /\ (P = {} <=> c = 0)
        BY <1>4, <1>5, <1>10
      <3> HIDE DEF c, m
      <3>2. (m = 0) <=> (c = 0)
        BY <1>2, <3>1
      <3> QED
        BY <3>1, <3>2 DEF m
    <2>2. (failed = << >>) <=> (Len(failed) = 0)
      BY <1>5
    <2>3. Len(failed) # None
      BY <1>11, NamesFacts
    <2> QED
      BY <1>3, <2>1, <2>2, <2>3
  <1>14. Len(failed) = (IF ListServices!Cardinality(P) < MaxFailed
                        THEN ListServices!Cardinality(P) ELSE MaxFailed)
    BY <1>5, SameCardinality
  <1> QED
    BY <1>3, <1>9, <1>12, <1>13, <1>14 DEF ListServices!SummaryOfPage, P, D, rows

-----------------------------------------------------------------------------
(***************************************************************************)
(* list_timers.                                                            *)
(***************************************************************************)

TimerRow == [unit : Int, state : DOMAIN ListTimers!Rank, broken : BOOLEAN,
             next : Int \union {None}, last : Int \union {None}]
TimerItem == [unit : Int, state : DOMAIN ListTimers!Rank, broken : BOOLEAN,
              next : Int \union {None}, last : Int \union {None},
              until : Int \union {None}, since : Int \union {None}, overdue : BOOLEAN,
              reason : {"not_active", "no_next_run_known", "past_due_beyond_grace", None}]

TimerPlaces(time) ==
    {k \in DOMAIN given : ListTimers!Wanted(ListTimers!Item(given[k], time))}
TimerOrder(time) ==
    {p \in (DOMAIN given) \X (DOMAIN given) :
        ListTimers!Less(ListTimers!Item(given[p[1]], time), ListTimers!Item(given[p[2]], time))}
TimerList(time) == Chosen(ListTimers!Items(time), TimerPlaces(time), TimerOrder(time))

\* The answer to an acceptable call whose timers were listed, at that time.
TimerAnswer(time) ==
    LET page == ListTimers!Paginate(TimerList(time), ListTimers!Limit)
    IN  [ok |-> TRUE, page |-> page,
         summary |-> IF ListTimers!Summary THEN ListTimers!Summarize(page.rows) ELSE None]

\* How far a call has come.
TimersInv ==
    /\ args \in TimerCalls
    /\ pc \in {"received", "list", "rows", "done"}
    /\ given \in Timers \union {<< >>}
    /\ (pc # "done") => (answer = None)
    /\ (pc \in {"list", "rows"}) => (ListTimers!Refusal = None)
    /\ (pc = "done") =>
          \/ /\ ListTimers!Refusal # None
             /\ answer = ListTimers!Refused(ListTimers!Refusal)
          \/ /\ ListTimers!Refusal = None
             /\ \/ answer = ListTimers!Refused("internal")
                \/ \E time \in Nows : now = time /\ answer = TimerAnswer(time)

\* So is what list_timers filters and sorts, whatever time it is.
LEMMA TimerListIsSorted ==
  ASSUME NEW time
  PROVE  ListTimers!FilterSort(ListTimers!Items(time), ListTimers!Wanted, ListTimers!Less)
            = TimerList(time)
  <1> DEFINE items == ListTimers!Items(time)
             P == TimerPlaces(time)
             B == [k \in P |->
                     {j \in P : IF j < k THEN ~ListTimers!Less(items[k], items[j])
                                         ELSE ListTimers!Less(items[j], items[k])}]
  <1>1. /\ DOMAIN items = DOMAIN given
        /\ \A k \in DOMAIN given : items[k] = ListTimers!Item(given[k], time)
    BY DEF ListTimers!Items
  <1> HIDE DEF items
  <1>2. P = {k \in DOMAIN items : ListTimers!Wanted(items[k])}
    BY <1>1 DEF TimerPlaces
  <1>3. \A j, k \in P : << j, k >> \in TimerOrder(time) <=> ListTimers!Less(items[j], items[k])
    BY <1>1 DEF TimerOrder, TimerPlaces
  <1>4. B = Before(P, TimerOrder(time))
    BY <1>3 DEF Before
  <1>5. ListTimers!Enumerated(B) = Enumerated(B)
    BY SameEnumerated
  <1>6. ListTimers!FilterSort(items, ListTimers!Wanted, ListTimers!Less) =
            [i \in DOMAIN ListTimers!Enumerated(B) |-> items[ListTimers!Enumerated(B)[i]]]
    BY <1>2 DEF ListTimers!FilterSort
  <1> QED
    BY <1>4, <1>5, <1>6 DEF Chosen, TimerList, items

\* What is answered depends on the call, the listing and the time only.
LEMMA TimerAnswerStays ==
  ASSUME UNCHANGED << args, given >>
  PROVE  /\ \A time : TimerAnswer(time)' = TimerAnswer(time)
         /\ ListTimers!Refusal' = ListTimers!Refusal
  <1>1. /\ ListTimers!Refusal' = ListTimers!Refusal /\ ListTimers!Limit' = ListTimers!Limit
        /\ ListTimers!Summary' = ListTimers!Summary /\ ListTimers!Sort' = ListTimers!Sort
        /\ ListTimers!Order' = ListTimers!Order
        /\ ListTimers!OverdueOnly' = ListTimers!OverdueOnly
    BY DEF ListTimers!Refusal, ListTimers!LimitFits, ListTimers!Limit, ListTimers!Summary,
       ListTimers!Sort, ListTimers!Order, ListTimers!OverdueOnly, ListTimers!Given
  <1>2. \A time : TimerPlaces(time)' = TimerPlaces(time)
    BY <1>1 DEF TimerPlaces, ListTimers!Wanted
  <1>3. \A a, b : ListTimers!Less(a, b)' = ListTimers!Less(a, b)
    <2>1. \A a, b : ListTimers!KeyLess(a, b)' = ListTimers!KeyLess(a, b)
      BY <1>1 DEF ListTimers!KeyLess
    <2> QED
      BY <1>1, <2>1 DEF ListTimers!Less
  <1>4. \A time : TimerOrder(time)' = TimerOrder(time)
    BY <1>3 DEF TimerOrder
  <1>5. \A time : TimerList(time)' = TimerList(time)
    BY <1>2, <1>4 DEF TimerList, ListTimers!Items
  <1>6. \A time : TimerAnswer(time)' = TimerAnswer(time)
    BY <1>1, <1>5 DEF TimerAnswer
  <1> QED
    BY <1>1, <1>6

\* Every step of the handler keeps it.
LEMMA TimersStep ==
  ASSUME TimersInv, ListTimers!Next \/ UNCHANGED ListTimers!vars
  PROVE  TimersInv'
  <1> USE DEF TimersInv
  <1>1. CASE ListTimers!Normalize
    <2>1. pc = "received" /\ UNCHANGED << args, given >>
      BY <1>1 DEF ListTimers!Normalize
    <2>2. ListTimers!Refusal' = ListTimers!Refusal
      BY <2>1, TimerAnswerStays
    <2>3. \A code : ListTimers!Refused(code)' = ListTimers!Refused(code)
      BY DEF ListTimers!Refused
    <2>4. \/ /\ ListTimers!Refusal # None /\ pc' = "done"
             /\ answer' = ListTimers!Refused(ListTimers!Refusal)
          \/ ListTimers!Refusal = None /\ pc' = "list" /\ answer' = None
      BY <1>1 DEF ListTimers!Normalize, ListTimers!Reply
    <2> QED
      BY <2>1, <2>2, <2>3, <2>4
  <1>2. CASE ListTimers!List
    <2>1. pc = "list" /\ args' = args
      BY <1>2 DEF ListTimers!List
    <2>2. ListTimers!Refusal' = ListTimers!Refusal /\ ListTimers!Refusal = None
      BY <2>1 DEF ListTimers!Refusal, ListTimers!LimitFits, ListTimers!Limit, ListTimers!Sort,
         ListTimers!Order, ListTimers!Given
    <2>3. \/ given' \in Timers /\ pc' = "rows" /\ answer' = None
          \/ given' = << >> /\ pc' = "done" /\ answer' = ListTimers!Refused("internal")
      BY <1>2 DEF ListTimers!List, ListTimers!Reply
    <2>4. \A code : ListTimers!Refused(code)' = ListTimers!Refused(code)
      BY DEF ListTimers!Refused
    <2> QED
      BY <2>1, <2>2, <2>3, <2>4
  <1>3. CASE ListTimers!Respond
    <2>1. pc = "rows" /\ UNCHANGED << args, given >> /\ pc' = "done"
      BY <1>3 DEF ListTimers!Respond, ListTimers!Reply
    <2>2. PICK time \in Nows : now' = time /\ answer' = TimerAnswer(time)
      BY <1>3, TimerListIsSorted DEF ListTimers!Respond, ListTimers!Reply, TimerAnswer
    <2>3. ListTimers!Refusal' = ListTimers!Refusal /\ TimerAnswer(time)' = TimerAnswer(time)
      BY <2>1, TimerAnswerStays
    <2> QED
      BY <2>1, <2>2, <2>3
  <1>4. CASE ListTimers!Rest \/ UNCHANGED ListTimers!vars
    <2>1. UNCHANGED << args, given, pc, now, answer >>
      BY <1>4 DEF ListTimers!Rest, ListTimers!vars
    <2>2. /\ ListTimers!Refusal' = ListTimers!Refusal
          /\ \A time : TimerAnswer(time)' = TimerAnswer(time)
      BY <2>1, TimerAnswerStays
    <2> QED
      BY <2>1, <2>2 DEF ListTimers!Refused
  <1> QED
    BY <1>1, <1>2, <1>3, <1>4 DEF ListTimers!Next

\* An acceptable call is one whose arguments are.
LEMMA TimersRefusal ==
  ASSUME args \in TimerCalls
  PROVE  /\ (ListTimers!Refusal # None) <=>
               \/ \E field \in DOMAIN args : args[field] \in {Mistyped, Bad}
               \/ args.limit # None /\ args.limit \notin 1 .. MaxLimit
         /\ (ListTimers!Refusal = None) => (ListTimers!Limit \in 1 .. MaxLimit)
         /\ (ListTimers!Refusal # None) => (ListTimers!Refusal \in Codes \ {"internal"})
  <1>1. /\ DOMAIN args = {"scope", "limit", "state", "name", "sort", "order", "overdueOnly",
                          "summary"}
        /\ args.name # Bad /\ args.limit # Bad /\ args.summary # Bad /\ args.overdueOnly # Bad
        /\ args.limit \in Nat \/ args.limit = None \/ args.limit = Mistyped
    <2>1. /\ DOMAIN args = {"scope", "limit", "state", "name", "sort", "order", "overdueOnly",
                            "summary"}
          /\ args.name # Bad
          /\ args.limit \in Nat \union {None, Mistyped}
          /\ args.summary \in BOOLEAN \union {None, Mistyped}
          /\ args.overdueOnly \in BOOLEAN \union {None, Mistyped}
      BY CallsAssumption
    <2> QED
      BY <2>1, NamesFacts
  <1>2. /\ None \notin Int /\ Mistyped # None /\ Bad # None /\ Bad # "name" /\ Bad # "asc"
        /\ MaxLimit \in Nat /\ DefaultLimit \in 1 .. MaxLimit
    BY NamesFacts, LimitsAssumption
  <1>0. \A code \in {"invalid_params", "invalid_scope", "invalid_state", "invalid_limit",
                     "invalid_sort", "invalid_order"} :
           code \in Codes \ {"internal"} /\ code # None
    BY NamesFacts DEF Codes
  <1>3. CASE \E field \in DOMAIN args : args[field] = Mistyped
    <2>1. ListTimers!Refusal = "invalid_params"
      BY <1>3 DEF ListTimers!Refusal
    <2> QED
      BY <1>0, <1>3, <2>1
  <1>4. CASE ~(\E field \in DOMAIN args : args[field] = Mistyped)
    <2> DEFINE Wrong == args.scope = Bad \/ args.state = Bad \/ args.sort = Bad \/ args.order = Bad
               Fits == ListTimers!LimitFits(ListTimers!Limit)
    <2>1. (\E field \in DOMAIN args : args[field] \in {Mistyped, Bad}) <=> Wrong
      BY <1>1, <1>4
    <2>2. args.limit \in Nat \/ args.limit = None
      BY <1>1, <1>4
    <2>3. Fits <=> (args.limit = None \/ args.limit \in 1 .. MaxLimit)
      BY <1>2, <2>2 DEF ListTimers!LimitFits, ListTimers!Limit, ListTimers!Given
    <2>4. Fits => (ListTimers!Limit \in 1 .. MaxLimit)
      BY <1>2, <2>2 DEF ListTimers!LimitFits, ListTimers!Limit, ListTimers!Given
    <2>5. /\ ListTimers!Sort = Bad <=> args.sort = Bad
          /\ ListTimers!Order = Bad <=> args.order = Bad
      BY <1>2 DEF ListTimers!Sort, ListTimers!Order, ListTimers!Given
    <2> HIDE DEF Fits
    <2>6. ListTimers!Refusal = IF args.scope = Bad THEN "invalid_scope"
                               ELSE IF ~Fits THEN "invalid_limit"
                               ELSE IF args.state = Bad THEN "invalid_state"
                               ELSE IF args.sort = Bad THEN "invalid_sort"
                               ELSE IF args.order = Bad THEN "invalid_order"
                               ELSE None
      BY <1>4, <2>5 DEF ListTimers!Refusal, Fits
    <2>7. CASE Wrong \/ ~Fits
      <3>1. ListTimers!Refusal \in {"invalid_scope", "invalid_state", "invalid_limit",
                                    "invalid_sort", "invalid_order"}
        BY <2>6, <2>7
      <3> QED
        BY <1>0, <2>1, <2>3, <2>7, <3>1
    <2>8. CASE ~Wrong /\ Fits
      <3>1. ListTimers!Refusal = None
        BY <2>6, <2>8
      <3> QED
        BY <2>1, <2>3, <2>4, <2>8, <3>1
    <2> QED
      BY <2>7, <2>8
  <1> QED
    BY <1>3, <1>4

\* Calls are refused for cause only.
LEMMA TimersRefusedForCause ==
  ASSUME TimersInv
  PROVE  ListTimers!RefusedForCause
  <1> DEFINE Cause == \/ \E field \in DOMAIN args : args[field] \in {Mistyped, Bad}
                      \/ args.limit # None /\ args.limit \notin 1 .. MaxLimit
  <1>1. (ListTimers!Refusal # None) <=> Cause
    BY TimersRefusal DEF TimersInv
  <1>2. (ListTimers!Refusal # None) => (ListTimers!Refusal \in Codes \ {"internal"})
    BY TimersRefusal DEF TimersInv
  <1> HIDE DEF Cause
  <1>3. \A code \in Codes : /\ ListTimers!Refused(code) # None
                             /\ ~ListTimers!Refused(code).ok
                             /\ ListTimers!Refused(code).code = code
    <2> SUFFICES ASSUME NEW code \in Codes
                 PROVE  /\ ListTimers!Refused(code) # None
                        /\ ~ListTimers!Refused(code).ok
                        /\ ListTimers!Refused(code).code = code
      OBVIOUS
    <2>1. ListTimers!Refused(code) \in [ok : {FALSE}, code : Codes]
      BY DEF ListTimers!Refused
    <2> QED
      BY <2>1, NamesAssumption DEF ListTimers!Refused
  <1>4. (answer # None /\ ~answer.ok /\ answer.code # "internal") <=> (pc = "done" /\ Cause)
    <2>1. CASE pc # "done"
      BY <2>1 DEF TimersInv
    <2>2. CASE pc = "done" /\ ListTimers!Refusal # None
      BY <1>1, <1>2, <1>3, <2>2 DEF TimersInv
    <2>3. CASE pc = "done" /\ ListTimers!Refusal = None
      <3>1. \A time : TimerAnswer(time).ok = TRUE
        BY DEF TimerAnswer
      <3>2. answer = ListTimers!Refused("internal") \/ \E time \in Nows : answer = TimerAnswer(time)
        BY <2>3 DEF TimersInv
      <3>3. ListTimers!Refused("internal").code = "internal"
        BY DEF ListTimers!Refused
      <3> QED
        BY <1>1, <2>3, <3>1, <3>2, <3>3
    <2> QED
      BY <2>1, <2>2, <2>3
  <1> QED
    BY <1>4 DEF ListTimers!RefusedForCause, Cause

\* What a row becomes at a time.
LEMMA TimerItemType ==
  ASSUME NEW row \in TimerRow, NEW time \in Int
  PROVE  /\ ListTimers!Item(row, time) \in TimerItem
         /\ (ListTimers!Item(row, time).until = None) <=> (row.next = None)
         /\ (ListTimers!Item(row, time).since = None) <=> (row.last = None)
         /\ ListTimers!Item(row, time).overdue <=>
               (row.state = "active" /\ row.next # None /\ row.next + Grace < time)
  <1>1. /\ row.unit \in Int /\ row.state \in DOMAIN ListTimers!Rank /\ row.broken \in BOOLEAN
        /\ row.next \in Int \union {None} /\ row.last \in Int \union {None}
    BY DEF TimerRow
  <1>2. Second \in Nat /\ Second > 0 /\ Grace \in Nat /\ None \notin Int
    BY LimitsAssumption, NamesFacts
  <1>3. \A ticks \in Int : ListTimers!Seconds(ticks) \in Int
    BY <1>2 DEF ListTimers!Seconds
  <1> DEFINE item == ListTimers!Item(row, time)
             until == IF row.next = None THEN None ELSE ListTimers!Seconds(row.next - time)
             since == IF row.last = None THEN None ELSE ListTimers!Seconds(time - row.last)
             overdue == ListTimers!Overdue(row, time)
             reason == ListTimers!Reason(row, time)
  <1>4. until \in Int \union {None} /\ ((until = None) <=> (row.next = None))
    BY <1>1, <1>2, <1>3
  <1>5. since \in Int \union {None} /\ ((since = None) <=> (row.last = None))
    BY <1>1, <1>2, <1>3
  <1>6. /\ overdue \in BOOLEAN
        /\ overdue <=> (row.state = "active" /\ row.next # None /\ row.next + Grace < time)
    <2>1. row.next # None => ((time > row.next + Grace) <=> (row.next + Grace < time))
      BY <1>1, <1>2
    <2> QED
      BY <2>1 DEF ListTimers!Overdue
  <1>7. reason \in {"not_active", "no_next_run_known", "past_due_beyond_grace", None}
    BY DEF ListTimers!Reason
  <1>8. item = [unit |-> row.unit, state |-> row.state, broken |-> row.broken,
                next |-> row.next, last |-> row.last, until |-> until, since |-> since,
                overdue |-> overdue, reason |-> reason]
    BY DEF ListTimers!Item
  <1> HIDE DEF item, until, since, overdue, reason
  <1>9. item \in TimerItem
    BY <1>1, <1>4, <1>5, <1>6, <1>7, <1>8 DEF TimerItem
  <1>10. item.until = until /\ item.since = since /\ item.overdue = overdue
    BY <1>8
  <1> QED
    BY <1>4, <1>5, <1>6, <1>9, <1>10 DEF item

\* A whole number of seconds is left of a distance, cut off toward now.
LEMMA SecondsFacts ==
  ASSUME NEW x \in Int
  PROVE  LET n == ListTimers!Seconds(x)
         IN  /\ n \in Int
             /\ x >= 0 => (n >= 0 /\ Second * n <= x /\ x < Second * n + Second)
             /\ x < 0 => (n <= 0 /\ x <= Second * n /\ Second * n - Second < x)
  <1> DEFINE m == IF x < 0 THEN -x ELSE x
             q == m \div Second
             n == ListTimers!Seconds(x)
  <1>1. Second \in Nat /\ Second > 0
    BY LimitsAssumption
  <1>2. m \in Nat
    OBVIOUS
  <1>3. n = IF x < 0 THEN -q ELSE q
    BY DEF ListTimers!Seconds
  <1> HIDE DEF n
  <1>4. q \in Int /\ q >= 0 /\ m = Second * q + (m % Second) /\ m % Second \in 0 .. (Second - 1)
    <2> HIDE DEF m
    <2> QED
      BY <1>1, <1>2
  <1> HIDE DEF q
  <1>5. Second * q \in Int /\ Second * q <= m /\ m < Second * q + Second
    BY <1>1, <1>2, <1>4
  <1>6. CASE x >= 0
    <2>1. n = q /\ m = x
      BY <1>3, <1>6
    <2> QED
      BY <1>4, <1>5, <1>6, <2>1 DEF n
  <1>7. CASE x < 0
    <2>1. n = -q /\ m = -x
      BY <1>3, <1>7
    <2>2. Second * n = -(Second * q)
      BY <1>1, <1>4, <2>1
    <2> HIDE DEF m
    <2>3. n \in Int /\ n <= 0
      BY <1>4, <2>1
    <2>4. x <= Second * n /\ Second * n - Second < x
      BY <1>1, <1>5, <2>1, <2>2
    <2> QED
      BY <1>7, <2>3, <2>4 DEF n
  <1> QED
    BY <1>6, <1>7

\* A product grows with its factor.
LEMMA SecondsGrow ==
  ASSUME NEW m \in Int, NEW n \in Int, m <= n
  PROVE  Second * m \in Int /\ Second * n \in Int /\ Second * m <= Second * n
  <1>1. Second \in Nat /\ Second > 0
    BY LimitsAssumption
  <1>2. n - m \in Nat
    OBVIOUS
  <1>3. Second * (n - m) >= 0 /\ Second * (n - m) = Second * n - Second * m
    BY <1>1, <1>2
  <1>4. Second * m \in Int /\ Second * n \in Int
    BY <1>1
  <1> QED
    BY <1>3, <1>4

\* The order of whole seconds is that of the distances, as far as Near says, and the sign of a
\* whole second that of the distance, but for one less than a second away.
LEMMA SecondsOrder ==
  ASSUME NEW x \in Int
  PROVE  /\ \A y \in Int : (ListTimers!Seconds(x) <= ListTimers!Seconds(y)) => ListTimers!Near(x, y)
         /\ x >= 0 => ListTimers!Seconds(x) >= 0
         /\ ListTimers!Seconds(x) >= 0 => -Second < x
  <1>1. Second \in Nat /\ Second > 0
    BY LimitsAssumption
  <1> DEFINE m == ListTimers!Seconds(x)
  <1>2. /\ m \in Int
        /\ x >= 0 => (m >= 0 /\ Second * m <= x /\ x < Second * m + Second)
        /\ x < 0 => (m <= 0 /\ x <= Second * m /\ Second * m - Second < x)
    BY SecondsFacts
  <1> HIDE DEF m
  <1>3. Second * m \in Int
    BY <1>2, SecondsGrow
  <1>4. (m >= 0) => (-Second < x)
    <2>1. CASE x >= 0
      BY <1>1, <2>1
    <2>2. CASE x < 0 /\ m >= 0
      <3>1. m = 0
        BY <1>2, <2>2
      <3>2. Second * m = 0
        BY <1>1, <3>1
      <3> QED
        BY <1>1, <1>2, <2>2, <3>2
    <2> QED
      BY <2>1, <2>2
  <1>5. ASSUME NEW y \in Int, m <= ListTimers!Seconds(y) PROVE ListTimers!Near(x, y)
    <2> DEFINE n == ListTimers!Seconds(y)
    <2>1. /\ n \in Int
          /\ y >= 0 => (n >= 0 /\ Second * n <= y /\ y < Second * n + Second)
          /\ y < 0 => (n <= 0 /\ y <= Second * n /\ Second * n - Second < y)
      BY SecondsFacts
    <2>2. m <= n
      BY <1>5
    <2> HIDE DEF n
    <2>3. Second * n \in Int /\ Second * m <= Second * n
      BY <1>2, <2>1, <2>2, SecondsGrow
    <2>4. CASE x >= 0 /\ y < 0
      <3>1. m = 0 /\ n = 0
        BY <1>2, <2>1, <2>2, <2>4
      <3>2. Second * m = 0 /\ Second * n = 0
        BY <1>1, <3>1
      <3> QED
        BY <1>1, <1>2, <2>1, <2>4, <3>2 DEF ListTimers!Near
    <2>5. CASE x < 0 /\ y >= 0
      BY <1>1, <2>5 DEF ListTimers!Near
    <2>6. CASE x >= 0 /\ y >= 0
      BY <1>1, <1>2, <1>3, <2>1, <2>3, <2>6 DEF ListTimers!Near
    <2>7. CASE x < 0 /\ y < 0
      BY <1>1, <1>2, <1>3, <2>1, <2>3, <2>7 DEF ListTimers!Near
    <2> QED
      BY <2>4, <2>5, <2>6, <2>7
  <1>6. (x >= 0) => (m >= 0)
    BY <1>2
  <1> QED
    BY <1>4, <1>5, <1>6 DEF m

\* Rows that are not the other way round are in order.
LEMMA TimersInOrder ==
  ASSUME NEW r \in TimerRow, NEW s \in TimerRow, now \in Int,
         ~ListTimers!Less(ListTimers!Item(s, now), ListTimers!Item(r, now))
  PROVE  ListTimers!InOrder(r, s)
  <1> DEFINE a == ListTimers!Item(r, now)
             b == ListTimers!Item(s, now)
  <1>1. \A x \in {r, s} : /\ x.unit \in Int /\ ListTimers!Rank[x.state] \in Int
                          /\ x.next \in Int \union {None} /\ x.last \in Int \union {None}
    <2>1. \A st \in DOMAIN ListTimers!Rank : ListTimers!Rank[st] \in Int
      BY DEF ListTimers!Rank
    <2>2. \A x \in {r, s} : x.state \in DOMAIN ListTimers!Rank
      BY DEF TimerRow
    <2>3. \A x \in {r, s} : /\ x.unit \in Int
                            /\ x.next \in Int \union {None} /\ x.last \in Int \union {None}
      BY DEF TimerRow
    <2> QED
      BY <2>1, <2>2, <2>3
  <1>2. None \notin Int
    BY NamesFacts
  <1>3. /\ a.unit = r.unit /\ a.state = r.state /\ b.unit = s.unit /\ b.state = s.state
        /\ a.until = (IF r.next = None THEN None ELSE ListTimers!Seconds(r.next - now))
        /\ b.until = (IF s.next = None THEN None ELSE ListTimers!Seconds(s.next - now))
        /\ a.since = (IF r.last = None THEN None ELSE ListTimers!Seconds(now - r.last))
        /\ b.since = (IF s.last = None THEN None ELSE ListTimers!Seconds(now - s.last))
    BY DEF ListTimers!Item
  <1>4. ~ListTimers!Less(b, a)
    OBVIOUS
  <1> HIDE DEF a, b
  <1>5. ASSUME NEW x \in Int \union {None}, NEW y \in Int \union {None},
               NEW m, NEW n,
               m = (IF x = None THEN None ELSE ListTimers!Seconds(x)),
               n = (IF y = None THEN None ELSE ListTimers!Seconds(y)),
               ~ListTimers!KeyLess(n, m)
        PROVE  ListTimers!TimesInOrder(x, y)
    <2>1. (y # None) => (x # None)
      <3>1. ASSUME y # None, x = None PROVE FALSE
        <4>1. n \in Int /\ m = None
          BY <1>5, <3>1, SecondsFacts
        <4> QED
          BY <1>2, <1>5, <4>1 DEF ListTimers!KeyLess
      <3> QED
        BY <3>1
    <2>2. ASSUME y # None
          PROVE  IF ListTimers!Order = "desc" THEN ListTimers!Near(y, x) ELSE ListTimers!Near(x, y)
      <3>1. x \in Int /\ y \in Int
        BY <2>1, <2>2
      <3>2. m = ListTimers!Seconds(x) /\ n = ListTimers!Seconds(y)
        BY <1>5, <2>1, <2>2
      <3>3. m \in Int /\ n \in Int
        BY <3>1, <3>2, SecondsFacts
      <3>4. ~(IF ListTimers!Order = "desc" THEN m < n ELSE n < m)
        BY <1>2, <1>5, <3>3 DEF ListTimers!KeyLess
      <3>5. IF ListTimers!Order = "desc" THEN n <= m ELSE m <= n
        BY <3>3, <3>4
      <3> QED
        BY <3>1, <3>2, <3>5, SecondsOrder
    <2> QED
      BY <2>1, <2>2 DEF ListTimers!TimesInOrder
  <1>6. CASE ListTimers!Sort = "next"
    <2>1. ~ListTimers!KeyLess(b.until, a.until)
      BY <1>4, <1>6 DEF ListTimers!Less
    <2>2. ListTimers!Until(r) \in Int \union {None} /\ ListTimers!Until(s) \in Int \union {None}
      BY <1>1 DEF ListTimers!Until
    <2>3. /\ a.until = (IF ListTimers!Until(r) = None THEN None
                         ELSE ListTimers!Seconds(ListTimers!Until(r)))
          /\ b.until = (IF ListTimers!Until(s) = None THEN None
                         ELSE ListTimers!Seconds(ListTimers!Until(s)))
      <3>1. (r.next # None => r.next - now \in Int) /\ (s.next # None => s.next - now \in Int)
        BY <1>1
      <3> QED
        BY <1>2, <1>3, <3>1 DEF ListTimers!Until
    <2>4. ListTimers!TimesInOrder(ListTimers!Until(r), ListTimers!Until(s))
      BY <1>5, <2>1, <2>2, <2>3
    <2> QED
      BY <1>6, <2>4 DEF ListTimers!InOrder
  <1>7. CASE ListTimers!Sort = "last"
    <2>1. ~ListTimers!KeyLess(b.since, a.since)
      BY <1>4, <1>7 DEF ListTimers!Less
    <2>2. ListTimers!Since(r) \in Int \union {None} /\ ListTimers!Since(s) \in Int \union {None}
      BY <1>1 DEF ListTimers!Since
    <2>3. /\ a.since = (IF ListTimers!Since(r) = None THEN None
                         ELSE ListTimers!Seconds(ListTimers!Since(r)))
          /\ b.since = (IF ListTimers!Since(s) = None THEN None
                         ELSE ListTimers!Seconds(ListTimers!Since(s)))
      <3>1. (r.last # None => now - r.last \in Int) /\ (s.last # None => now - s.last \in Int)
        BY <1>1
      <3> QED
        BY <1>2, <1>3, <3>1 DEF ListTimers!Since
    <2>4. ListTimers!TimesInOrder(ListTimers!Since(r), ListTimers!Since(s))
      BY <1>5, <2>1, <2>2, <2>3
    <2> QED
      BY <1>7, <2>4 DEF ListTimers!InOrder
  <1>8. CASE ListTimers!Sort = "state"
    <2> DEFINE j == ListTimers!Rank[r.state]
               k == ListTimers!Rank[s.state]
    <2>1. j \in Int /\ k \in Int
      BY <1>1
    <2>2. IF ListTimers!Order = "desc" THEN ~(j < k) ELSE ~(k < j)
      BY <1>3, <1>4, <1>8 DEF ListTimers!Less, ListTimers!ByState
    <2> HIDE DEF j, k
    <2>3. IF ListTimers!Order = "desc" THEN k <= j ELSE j <= k
      BY <2>1, <2>2
    <2> QED
      BY <1>8, <2>3 DEF ListTimers!InOrder, j, k
  <1>9. CASE ListTimers!Sort \notin {"next", "last", "state"}
    <2>1. IF ListTimers!Order = "desc" THEN ~(r.unit < s.unit) ELSE ~(s.unit < r.unit)
      BY <1>3, <1>4, <1>9 DEF ListTimers!Less, ListTimers!ByUnit
    <2>2. IF ListTimers!Order = "desc" THEN s.unit <= r.unit ELSE r.unit <= s.unit
      BY <1>1, <2>1
    <2> QED
      BY <1>9, <2>2 DEF ListTimers!InOrder
  <1> QED
    BY <1>6, <1>7, <1>8, <1>9

\* So are the items made of them.
LEMMA ItemsInOrder ==
  ASSUME NEW r \in TimerRow, NEW s \in TimerRow, now \in Int,
         ~ListTimers!Less(ListTimers!Item(s, now), ListTimers!Item(r, now))
  PROVE  /\ ListTimers!InOrder(ListTimers!Item(r, now), ListTimers!Item(s, now))
         /\ ListTimers!InOrder(ListTimers!Item(r, now), s)
  <1> DEFINE a == ListTimers!Item(r, now)
             b == ListTimers!Item(s, now)
  <1>1. ListTimers!InOrder(r, s)
    BY TimersInOrder
  <1>2. /\ a.unit = r.unit /\ a.state = r.state /\ a.next = r.next /\ a.last = r.last
        /\ b.unit = s.unit /\ b.state = s.state /\ b.next = s.next /\ b.last = s.last
    BY DEF ListTimers!Item
  <1> HIDE DEF a, b
  <1>3. /\ ListTimers!Until(a) = ListTimers!Until(r) /\ ListTimers!Until(b) = ListTimers!Until(s)
        /\ ListTimers!Since(a) = ListTimers!Since(r) /\ ListTimers!Since(b) = ListTimers!Since(s)
    BY <1>2 DEF ListTimers!Until, ListTimers!Since
  <1> QED
    BY <1>1, <1>2, <1>3 DEF ListTimers!InOrder, a, b

\* Every order asked for is a weak order of the items.
LEMMA LessIsWeak ==
  ASSUME NEW a \in TimerItem, NEW b \in TimerItem
  PROVE  /\ ListTimers!Less(a, b) => ~ListTimers!Less(b, a)
         /\ \A c \in TimerItem : ListTimers!Less(a, c) =>
               (ListTimers!Less(a, b) \/ ListTimers!Less(b, c))
  <1> DEFINE Fit(x) == /\ x.unit \in Int /\ x.until \in Int \union {None}
                       /\ x.since \in Int \union {None} /\ ListTimers!Rank[x.state] \in Int
  <1>1. \A x \in TimerItem : Fit(x)
    <2>1. \A s \in DOMAIN ListTimers!Rank : ListTimers!Rank[s] \in Int
      BY DEF ListTimers!Rank
    <2>2. \A x \in TimerItem : x.state \in DOMAIN ListTimers!Rank
      BY DEF TimerItem
    <2>3. \A x \in TimerItem : /\ x.unit \in Int /\ x.until \in Int \union {None}
                               /\ x.since \in Int \union {None}
      BY DEF TimerItem
    <2> QED
      BY <2>1, <2>2, <2>3
  <1>2. None \notin Int
    BY NamesFacts
  <1> SUFFICES ASSUME NEW c \in TimerItem
               PROVE  /\ ListTimers!Less(a, b) => ~ListTimers!Less(b, a)
                      /\ ListTimers!Less(a, c) => (ListTimers!Less(a, b) \/ ListTimers!Less(b, c))
    BY <1>1
  <1>3. Fit(a) /\ Fit(b) /\ Fit(c)
    BY <1>1
  <1>4. CASE ListTimers!Sort = "next"
    <2>1. \A x, y : ListTimers!Less(x, y) <=>
             (ListTimers!KeyLess(x.until, y.until) \/ (x.until = y.until /\ x.unit < y.unit))
      BY <1>4 DEF ListTimers!Less, ListTimers!ByUnit
    <2> DEFINE i == a.until
               j == b.until
               k == c.until
    <2>2. /\ i \in Int \union {None} /\ j \in Int \union {None} /\ k \in Int \union {None}
          /\ a.unit \in Int /\ b.unit \in Int /\ c.unit \in Int
      BY <1>3
    <2> HIDE DEF i, j, k
    <2>3. /\ ListTimers!KeyLess(i, j) => (~ListTimers!KeyLess(j, i) /\ i # j)
          /\ ListTimers!KeyLess(i, k) => (ListTimers!KeyLess(i, j) \/ ListTimers!KeyLess(j, k))
          /\ i = k => (i = j \/ ListTimers!KeyLess(i, j) \/ ListTimers!KeyLess(j, k))
      BY <1>2, <2>2 DEF ListTimers!KeyLess
    <2> QED
      BY <2>1, <2>2, <2>3 DEF i, j, k
  <1>5. CASE ListTimers!Sort = "last"
    <2>1. \A x, y : ListTimers!Less(x, y) <=>
             (ListTimers!KeyLess(x.since, y.since) \/ (x.since = y.since /\ x.unit < y.unit))
      BY <1>5 DEF ListTimers!Less, ListTimers!ByUnit
    <2> DEFINE i == a.since
               j == b.since
               k == c.since
    <2>2. /\ i \in Int \union {None} /\ j \in Int \union {None} /\ k \in Int \union {None}
          /\ a.unit \in Int /\ b.unit \in Int /\ c.unit \in Int
      BY <1>3
    <2> HIDE DEF i, j, k
    <2>3. /\ ListTimers!KeyLess(i, j) => (~ListTimers!KeyLess(j, i) /\ i # j)
          /\ ListTimers!KeyLess(i, k) => (ListTimers!KeyLess(i, j) \/ ListTimers!KeyLess(j, k))
          /\ i = k => (i = j \/ ListTimers!KeyLess(i, j) \/ ListTimers!KeyLess(j, k))
      BY <1>2, <2>2 DEF ListTimers!KeyLess
    <2> QED
      BY <2>1, <2>2, <2>3 DEF i, j, k
  <1>6. CASE ListTimers!Sort = "state"
    <2>1. \A x, y : ListTimers!Less(x, y) <=>
             (IF ListTimers!Order = "desc" THEN ListTimers!ByState(y, x)
                                           ELSE ListTimers!ByState(x, y))
      BY <1>6 DEF ListTimers!Less
    <2> DEFINE i == ListTimers!Rank[a.state]
               j == ListTimers!Rank[b.state]
               k == ListTimers!Rank[c.state]
    <2>2. \A x, y : ListTimers!ByState(x, y) <=>
             (\/ ListTimers!Rank[x.state] < ListTimers!Rank[y.state]
              \/ ListTimers!Rank[x.state] = ListTimers!Rank[y.state] /\ x.unit < y.unit)
      BY DEF ListTimers!ByState, ListTimers!ByUnit
    <2>3. /\ i \in Int /\ j \in Int /\ k \in Int
          /\ a.unit \in Int /\ b.unit \in Int /\ c.unit \in Int
      BY <1>3
    <2>4. /\ ListTimers!ByState(a, b) <=> (i < j \/ (i = j /\ a.unit < b.unit))
          /\ ListTimers!ByState(b, a) <=> (j < i \/ (i = j /\ b.unit < a.unit))
          /\ ListTimers!ByState(a, c) <=> (i < k \/ (i = k /\ a.unit < c.unit))
          /\ ListTimers!ByState(c, a) <=> (k < i \/ (i = k /\ c.unit < a.unit))
          /\ ListTimers!ByState(b, c) <=> (j < k \/ (j = k /\ b.unit < c.unit))
          /\ ListTimers!ByState(c, b) <=> (k < j \/ (j = k /\ c.unit < b.unit))
      BY <2>2
    <2> HIDE DEF i, j, k
    <2>5. /\ ListTimers!ByState(a, b) => ~ListTimers!ByState(b, a)
          /\ ListTimers!ByState(a, c) => (ListTimers!ByState(a, b) \/ ListTimers!ByState(b, c))
          /\ ListTimers!ByState(c, a) => (ListTimers!ByState(c, b) \/ ListTimers!ByState(b, a))
      BY <2>3, <2>4
    <2> QED
      BY <2>1, <2>5
  <1>7. CASE ListTimers!Sort \notin {"next", "last", "state"}
    <2>1. \A x, y : ListTimers!Less(x, y) <=>
             (IF ListTimers!Order = "desc" THEN y.unit < x.unit ELSE x.unit < y.unit)
      BY <1>7 DEF ListTimers!Less, ListTimers!ByUnit
    <2>2. a.unit \in Int /\ b.unit \in Int /\ c.unit \in Int
      BY <1>3
    <2> QED
      BY <2>1, <2>2
  <1> QED
    BY <1>4, <1>5, <1>6, <1>7

\* An answer with rows is the one that was made of the listing, at the time it tells.
LEMMA TimersListed ==
  ASSUME TimersInv, ListTimers!Listed
  PROVE  /\ answer = TimerAnswer(now) /\ ListTimers!Limit \in 1 .. MaxLimit
         /\ given \in Seq(TimerRow) /\ now \in Int
         /\ ListTimers!Refusal = None
  <1>1. pc = "done"
    BY DEF TimersInv, ListTimers!Listed
  <1>2. \A code : ListTimers!Refused(code).ok = FALSE
    BY DEF ListTimers!Refused
  <1>3. \E time \in Nows : now = time /\ answer = TimerAnswer(time) /\ ListTimers!Refusal = None
    BY <1>1, <1>2 DEF TimersInv, ListTimers!Listed
  <1>4. given \in Seq(TimerRow)
    <2>1. Timers \subseteq Seq(TimerRow)
      BY RowsAssumption DEF TimerRow
    <2>2. << >> \in Seq(TimerRow)
      OBVIOUS
    <2> QED
      BY <2>1, <2>2 DEF TimersInv
  <1> QED
    BY <1>3, <1>4, TimersRefusal, LimitsAssumption DEF TimersInv

\* What is known of a page: e takes its places to the rows of the listing it shows.
TimerPage(e) ==
    LET P == TimerPlaces(now)
        n == Cardinality(P)
        Row(k) == ListTimers!Item(given[k], now)
        Rows == ListTimers!Rows
    IN  /\ P \subseteq DOMAIN given /\ IsFiniteSet(P) /\ n \in Nat /\ e \in [1 .. n -> P]
        /\ Rows \in Seq(TimerItem)
        /\ DOMAIN Rows = 1 .. Len(Rows)
        /\ Len(Rows) = (IF n < ListTimers!Limit THEN n ELSE ListTimers!Limit)
        /\ \A i \in DOMAIN Rows : i \in 1 .. n /\ Rows[i] = Row(e[i])
        /\ \A i, j \in 1 .. n : i < j => (e[i] # e[j] /\ ~ListTimers!Less(Row(e[j]), Row(e[i])))
        /\ \A k \in P : \E i \in 1 .. n : e[i] = k
        /\ answer.page.total = n
        /\ answer.page.truncated <=> n > Len(Rows)

\* The answer of list_timers is such a page, with the summary of its rows if one is asked for.
LEMMA TimersPage ==
  ASSUME TimersInv, ListTimers!Listed
  PROVE  /\ \E e : TimerPage(e)
         /\ ListTimers!Summary => (answer.summary = ListTimers!Summarize(ListTimers!Rows))
  <1> DEFINE items == ListTimers!Items(now)
             P == TimerPlaces(now)
             L == TimerOrder(now)
             n == Cardinality(P)
             list == TimerList(now)
             page == Cut(list, ListTimers!Limit)
             Row(k) == ListTimers!Item(given[k], now)
  <1>1. /\ answer = TimerAnswer(now) /\ ListTimers!Limit \in Nat /\ given \in Seq(TimerRow)
        /\ now \in Int
    BY TimersListed, LimitsAssumption
  <1>2. \A k \in DOMAIN given : Row(k) \in TimerItem
    <2>1. \A k \in DOMAIN given : given[k] \in TimerRow
      BY <1>1
    <2> QED
      BY <1>1, <2>1, TimerItemType
  <1>3. /\ items \in Seq(TimerItem) /\ DOMAIN items = DOMAIN given
        /\ \A k \in DOMAIN given : items[k] = Row(k)
    <2>1. items = [k \in DOMAIN given |-> Row(k)]
      BY DEF ListTimers!Items
    <2>2. DOMAIN given = 1 .. Len(given) /\ Len(given) \in Nat
      BY <1>1
    <2> HIDE DEF items, Row
    <2> QED
      BY <1>2, <2>1, <2>2
  <1>4. P \in SUBSET DOMAIN given
    BY DEF TimerPlaces
  <1>5. \A j, k \in P : << j, k >> \in L <=> ListTimers!Less(Row(j), Row(k))
    BY <1>4 DEF TimerOrder
  <1> HIDE DEF items, P, L, Row
  <1>6. WeakOrder(P, L)
    <2>1. ASSUME NEW j \in P, NEW k \in P, << j, k >> \in L PROVE << k, j >> \notin L
      <3>1. Row(j) \in TimerItem /\ Row(k) \in TimerItem
        BY <1>2, <1>4
      <3> QED
        BY <1>5, <2>1, <3>1, LessIsWeak
    <2>2. ASSUME NEW i \in P, NEW j \in P, NEW k \in P, << i, k >> \in L
          PROVE  << i, j >> \in L \/ << j, k >> \in L
      <3>1. Row(i) \in TimerItem /\ Row(j) \in TimerItem /\ Row(k) \in TimerItem
        BY <1>2, <1>4
      <3>2. ListTimers!Less(Row(i), Row(j)) \/ ListTimers!Less(Row(j), Row(k))
        BY <1>5, <2>2, <3>1, LessIsWeak
      <3> QED
        BY <1>5, <3>2
    <2> QED
      BY <2>1, <2>2 DEF WeakOrder
  <1>7. /\ IsFiniteSet(P) /\ n \in Nat
        /\ list \in Seq(TimerItem) /\ Len(list) = n
        /\ \E e : Sorts(e, items, P, L)
    <2>1. P \in SUBSET DOMAIN items
      BY <1>3, <1>4
    <2>2. /\ IsFiniteSet(P) /\ Cardinality(P) \in Nat
          /\ Chosen(items, P, L) \in Seq(TimerItem) /\ Len(Chosen(items, P, L)) = Cardinality(P)
          /\ \E e : Sorts(e, items, P, L)
      BY <1>3, <1>6, <2>1, ChosenFacts
    <2>3. list = Chosen(items, P, L)
      BY DEF TimerList, items, P, L
    <2> QED
      BY <2>2, <2>3
  <1>8. PICK e : Sorts(e, items, P, L)
    BY <1>7
  <1>9. list = Chosen(items, P, L)
    BY DEF TimerList, items, P, L
  <1>10. /\ e \in [1 .. n -> P]
         /\ \A i \in 1 .. n : list[i] = Row(e[i])
         /\ \A i, j \in 1 .. n : i < j => (e[i] # e[j] /\ ~ListTimers!Less(Row(e[j]), Row(e[i])))
         /\ \A k \in P : \E i \in 1 .. n : e[i] = k
    <2>1. /\ e \in [1 .. n -> P]
          /\ \A i \in 1 .. n : list[i] = items[e[i]]
          /\ \A i, j \in 1 .. n : i < j => (e[i] # e[j] /\ << e[j], e[i] >> \notin L)
          /\ \A k \in P : \E i \in 1 .. n : e[i] = k
      BY <1>8, <1>9 DEF Sorts
    <2>2. \A i \in 1 .. n : e[i] \in P
      BY <2>1
    <2>3. \A i \in 1 .. n : items[e[i]] = Row(e[i])
      BY <1>3, <1>4, <2>2
    <2> QED
      BY <1>5, <2>1, <2>2, <2>3
  <1> HIDE DEF list, n
  <1>11. /\ page \in Seq(TimerItem)
         /\ Len(page) = (IF n < ListTimers!Limit THEN n ELSE ListTimers!Limit)
         /\ \A i \in 1 .. Len(page) : i \in 1 .. n /\ page[i] = list[i]
    BY <1>1, <1>7, CutFacts
  <1>12. /\ answer.page = [rows |-> page, total |-> Len(list), returned |-> Len(page),
                           truncated |-> Len(list) > Len(page)]
         /\ answer.summary = IF ListTimers!Summary THEN ListTimers!Summarize(answer.page.rows)
                             ELSE None
    BY <1>1 DEF TimerAnswer, ListTimers!Paginate, ListTimers!Truncate, Cut, list
  <1> HIDE DEF page
  <1>13. /\ ListTimers!Rows = page /\ answer.page.total = n
         /\ answer.page.truncated <=> n > Len(page)
    <2>1. /\ answer.page.rows = page /\ answer.page.total = Len(list)
          /\ answer.page.truncated = (Len(list) > Len(page))
      BY <1>12
    <2> QED
      BY <1>7, <2>1 DEF ListTimers!Rows
  <1>14. DOMAIN page = 1 .. Len(page)
    BY <1>11
  <1>15. \A i \in DOMAIN page : i \in 1 .. n /\ page[i] = Row(e[i])
    BY <1>10, <1>11, <1>14
  <1>16. TimerPage(e)
    BY <1>4, <1>7, <1>10, <1>11, <1>13, <1>14, <1>15 DEF TimerPage, P, n, Row
  <1>17. ListTimers!Summary => (answer.summary = ListTimers!Summarize(ListTimers!Rows))
    BY <1>12 DEF ListTimers!Rows
  <1> QED
    BY <1>16, <1>17

\* The page is the beginning of all that match, and what it leaves out belongs behind it.
LEMMA TimersPageIsFirst ==
  ASSUME TimersInv
  PROVE  ListTimers!PageIsFirst
  <1> SUFFICES ASSUME ListTimers!Listed PROVE ListTimers!PageIsFirst
    BY DEF ListTimers!PageIsFirst
  <1> DEFINE P == TimerPlaces(now)
             n == Cardinality(P)
             Row(k) == ListTimers!Item(given[k], now)
             Rows == ListTimers!Rows
             D == DOMAIN Rows
  <1>1. PICK e : TimerPage(e)
    BY TimersPage
  <1>2. /\ P \subseteq DOMAIN given /\ IsFiniteSet(P) /\ n \in Nat /\ e \in [1 .. n -> P]
        /\ D = 1 .. Len(Rows)
        /\ Len(Rows) = (IF n < ListTimers!Limit THEN n ELSE ListTimers!Limit)
        /\ \A i \in D : i \in 1 .. n /\ Rows[i] = Row(e[i])
        /\ \A i, j \in 1 .. n : i < j => (e[i] # e[j] /\ ~ListTimers!Less(Row(e[j]), Row(e[i])))
        /\ \A k \in P : \E i \in 1 .. n : e[i] = k
        /\ answer.page.total = n
        /\ answer.page.truncated <=> n > Len(Rows)
    BY <1>1 DEF TimerPage
  <1>3. ListTimers!Limit \in Nat /\ given \in Seq(TimerRow) /\ now \in Int
    BY TimersListed, LimitsAssumption
  <1>4. ListTimers!Asked = P
    <2> SUFFICES ASSUME NEW k \in DOMAIN given
                 PROVE  ListTimers!Wanted(Row(k)) <=>
                          (/\ args.state \in {None, given[k].state}
                           /\ args.name \in {None, given[k].unit}
                           /\ ListTimers!OverdueOnly =>
                                (given[k].state = "active" /\ ListTimers!PastGrace(given[k])))
      BY DEF ListTimers!Asked, TimerPlaces
    <2>1. given[k] \in TimerRow
      BY <1>3
    <2>2. Row(k).overdue <=>
            (given[k].state = "active" /\ given[k].next # None /\ given[k].next + Grace < now)
      BY <1>3, <2>1, TimerItemType
    <2>3. Row(k).state = given[k].state /\ Row(k).unit = given[k].unit
      BY DEF ListTimers!Item
    <2> HIDE DEF Row
    <2> QED
      BY <2>2, <2>3 DEF ListTimers!Wanted, ListTimers!PastGrace
  <1> HIDE DEF P, n, Row, D, Rows
  <1>5. Len(Rows) = (IF ListTimers!Limit < n THEN ListTimers!Limit ELSE n) /\ Len(Rows) \in Nat
    BY <1>2, <1>3
  <1>6. answer.page.truncated <=> Len(Rows) < answer.page.total
    BY <1>2, <1>5
  <1>7. ASSUME NEW j \in D
        PROVE  Cardinality({i \in D : Rows[i] = Rows[j]})
                  <= Cardinality({k \in P : Row(k) = Rows[j]})
    <2> DEFINE A == {i \in D : Rows[i] = Rows[j]}
               C == {k \in P : Row(k) = Rows[j]}
               f == [i \in A |-> e[i]]
    <2>1. \A i \in A : i \in D /\ i \in 1 .. n /\ e[i] \in P /\ Row(e[i]) = Rows[j]
      BY <1>2
    <2>2. f \in [A -> C]
      BY <2>1
    <2>3. \A h, i \in A : f[h] = f[i] => h = i
      <3> SUFFICES ASSUME NEW h \in A, NEW i \in A, e[h] = e[i] PROVE h = i
        OBVIOUS
      <3>1. h \in 1 .. n /\ i \in 1 .. n
        BY <2>1
      <3>2. h < i \/ i < h \/ h = i
        BY <1>2, <3>1
      <3> QED
        BY <1>2, <3>1, <3>2
    <2>4. f \in Injection(A, C)
      BY <2>2, <2>3 DEF Injection, IsInjective
    <2>5. C \in SUBSET P
      OBVIOUS
    <2> HIDE DEF A, C, f
    <2>6. IsFiniteSet(C)
      BY <1>2, <2>5, FS_Subset
    <2>7. Cardinality(A) <= Cardinality(C)
      BY <2>4, <2>6, FS_Injection
    <2> QED
      BY <2>7 DEF A, C
  <1>8. ASSUME NEW k \in P, \A j \in D : Rows[j] # Row(k), NEW j \in D
        PROVE  ListTimers!InOrder(Rows[j], given[k])
    <2>1. PICK i \in 1 .. n : e[i] = k
      BY <1>2
    <2>2. i \notin D
      BY <1>2, <1>8, <2>1
    <2>3. j < i
      BY <1>2, <1>5, <2>2
    <2>4. j \in 1 .. n /\ Rows[j] = Row(e[j])
      BY <1>2
    <2>5. ~ListTimers!Less(Row(k), Row(e[j]))
      BY <1>2, <2>1, <2>3, <2>4
    <2>6. given[k] \in TimerRow /\ given[e[j]] \in TimerRow
      BY <1>2, <1>3, <2>4
    <2> QED
      BY <1>3, <2>4, <2>5, <2>6, ItemsInOrder DEF Row
  <1>11. ASSUME NEW j \in D, NEW k \in D, j < k PROVE ListTimers!InOrder(Rows[j], Rows[k])
    <2>1. /\ j \in 1 .. n /\ Rows[j] = Row(e[j]) /\ e[j] \in P
          /\ k \in 1 .. n /\ Rows[k] = Row(e[k]) /\ e[k] \in P
      BY <1>2
    <2>2. ~ListTimers!Less(Row(e[k]), Row(e[j]))
      BY <1>2, <1>11, <2>1
    <2>3. given[e[j]] \in TimerRow /\ given[e[k]] \in TimerRow
      BY <1>2, <1>3, <2>1
    <2> QED
      BY <1>3, <2>1, <2>2, <2>3, ItemsInOrder DEF Row
  <1>9. \A S : ListTimers!Cardinality(S) = Cardinality(S)
    BY SameCardinality
  <1> DEFINE Count(item) == ListTimers!Cardinality({k \in P : Row(k) = item})
             Left == {k \in P : \A j \in D : Rows[j] # Row(k)}
  <1>10. /\ answer.page.total = ListTimers!Cardinality(P)
         /\ Len(Rows) = (IF ListTimers!Limit < ListTimers!Cardinality(P)
                         THEN ListTimers!Limit ELSE ListTimers!Cardinality(P))
         /\ \A j \in D : ListTimers!Cardinality({i \in D : Rows[i] = Rows[j]}) <= Count(Rows[j])
         /\ \A j, k \in D : j < k => ListTimers!InOrder(Rows[j], Rows[k])
         /\ \A k \in Left, j \in D : ListTimers!InOrder(Rows[j], given[k])
    <2>1. n = ListTimers!Cardinality(P)
      BY <1>9 DEF n
    <2>2. \A j \in D : ListTimers!Cardinality({i \in D : Rows[i] = Rows[j]}) <= Count(Rows[j])
      BY <1>7, <1>9
    <2>3. \A k \in Left, j \in D : ListTimers!InOrder(Rows[j], given[k])
      BY <1>8
    <2> QED
      BY <1>2, <1>5, <1>11, <2>1, <2>2, <2>3
  <1> QED
    BY <1>4, <1>6, <1>10 DEF ListTimers!PageIsFirst, Row, Rows, D

\* A timer is overdue by the rule of the requirements.
LEMMA TimersOverdueByTheRule ==
  ASSUME TimersInv
  PROVE  ListTimers!OverdueByTheRule
  <1> DEFINE Row(k) == ListTimers!Item(given[k], now)
             Rows == ListTimers!Rows
  <1> SUFFICES ASSUME ListTimers!Listed, NEW i \in DOMAIN Rows
               PROVE  Rows[i].overdue <=>
                         (Rows[i].state = "active" /\ ListTimers!PastGrace(Rows[i]))
    BY DEF ListTimers!OverdueByTheRule
  <1>1. PICK e : TimerPage(e)
    BY TimersPage
  <1>2. e[i] \in DOMAIN given /\ Rows[i] = Row(e[i])
    BY <1>1 DEF TimerPage
  <1>3. given[e[i]] \in TimerRow /\ now \in Int
    <2>1. given \in Seq(TimerRow) /\ now \in Int
      BY TimersListed
    <2> QED
      BY <1>2, <2>1
  <1>4. Row(e[i]).overdue <=>
           (/\ given[e[i]].state = "active" /\ given[e[i]].next # None
            /\ given[e[i]].next + Grace < now)
    BY <1>3, TimerItemType
  <1>5. Row(e[i]).next = given[e[i]].next /\ Row(e[i]).state = given[e[i]].state
    BY DEF ListTimers!Item
  <1> HIDE DEF Row
  <1> QED
    BY <1>2, <1>4, <1>5 DEF ListTimers!PastGrace

\* The problems among some items are all shown.
LEMMA ProblemsAreShown ==
  ASSUME NEW rows \in Seq(TimerItem)
  PROVE  LET P == {k \in DOMAIN rows : ListTimers!Problem(rows[k])}
             list == ListTimers!FilterSort(rows, ListTimers!Problem, ListTimers!ByUnit)
         IN  {list[i] : i \in DOMAIN list} = {rows[k] : k \in P}
  <1> DEFINE P == {k \in DOMAIN rows : ListTimers!Problem(rows[k])}
             L == {p \in P \X P : rows[p[1]].unit < rows[p[2]].unit}
             list == ListTimers!FilterSort(rows, ListTimers!Problem, ListTimers!ByUnit)
  <1>1. \A k \in P : rows[k].unit \in Int
    <2>1. \A k \in P : rows[k] \in TimerItem
      OBVIOUS
    <2> QED
      BY <2>1 DEF TimerItem
  <1>2. P \in SUBSET DOMAIN rows
    OBVIOUS
  <1>3. \A j, k \in P : << j, k >> \in L <=> rows[j].unit < rows[k].unit
    OBVIOUS
  <1>4. list = Chosen(rows, P, L)
    <2> DEFINE B == [k \in P |-> {j \in P : IF j < k THEN ~(rows[k].unit < rows[j].unit)
                                            ELSE rows[j].unit < rows[k].unit}]
    <2>1. B = Before(P, L)
      BY <1>3 DEF Before
    <2>2. ListTimers!Enumerated(B) = Enumerated(B)
      BY SameEnumerated
    <2>3. list = [i \in DOMAIN ListTimers!Enumerated(B) |-> rows[ListTimers!Enumerated(B)[i]]]
      BY DEF ListTimers!FilterSort, ListTimers!ByUnit
    <2> QED
      BY <2>1, <2>2, <2>3 DEF Chosen
  <1> HIDE DEF P, L, list
  <1>5. WeakOrder(P, L)
    <2>1. ASSUME NEW j \in P, NEW k \in P, << j, k >> \in L
          PROVE  << k, j >> \notin L
      <3>1. rows[j].unit \in Int /\ rows[k].unit \in Int
        BY <1>1
      <3> QED
        BY ONLY <1>3, <2>1, <3>1, j \in P, k \in P
    <2>2. ASSUME NEW i \in P, NEW j \in P, NEW k \in P, << i, k >> \in L
          PROVE  << i, j >> \in L \/ << j, k >> \in L
      <3>1. rows[i].unit \in Int /\ rows[j].unit \in Int /\ rows[k].unit \in Int
        BY <1>1
      <3>2. /\ << i, k >> \in L <=> rows[i].unit < rows[k].unit
            /\ << i, j >> \in L <=> rows[i].unit < rows[j].unit
            /\ << j, k >> \in L <=> rows[j].unit < rows[k].unit
        BY ONLY <1>3, i \in P, j \in P, k \in P
      <3> QED
        BY ONLY <2>2, <3>1, <3>2
    <2> QED
      BY <2>1, <2>2 DEF WeakOrder
  <1>6. /\ IsFiniteSet(P) /\ Cardinality(P) \in Nat
        /\ Chosen(rows, P, L) \in Seq(TimerItem) /\ Len(Chosen(rows, P, L)) = Cardinality(P)
        /\ \E e : Sorts(e, rows, P, L)
    BY <1>2, <1>5, ChosenFacts
  <1>7. PICK e : Sorts(e, rows, P, L)
    BY <1>6
  <1>8. DOMAIN list = 1 .. Cardinality(P)
    BY <1>4, <1>6
  <1>9. /\ \A i \in DOMAIN list : e[i] \in P /\ list[i] = rows[e[i]]
        /\ \A k \in P : \E i \in DOMAIN list : e[i] = k
    BY <1>4, <1>7, <1>8 DEF Sorts
  <1>10. {list[i] : i \in DOMAIN list} = {rows[k] : k \in P}
    BY <1>9
  <1> QED
    BY <1>10 DEF P, list

\* The timers that are due are shown, the nearest first.
LEMMA DueAreShown ==
  ASSUME NEW rows \in Seq(TimerItem)
  PROVE  LET P == {k \in DOMAIN rows : ListTimers!Due(rows[k])}
             list == ListTimers!FilterSort(rows, ListTimers!Due, ListTimers!Sooner)
         IN  /\ list \in Seq(TimerItem)
             /\ \A i \in DOMAIN list : /\ \E k \in P : list[i] = rows[k]
                                       /\ list[i].until \in Int /\ list[i].until >= 0
             /\ \A k \in P : \E i \in DOMAIN list : list[i] = rows[k]
             /\ \A i, j \in DOMAIN list : i < j => list[i].until <= list[j].until
  <1> DEFINE P == {k \in DOMAIN rows : ListTimers!Due(rows[k])}
             L == {p \in P \X P : ListTimers!Sooner(rows[p[1]], rows[p[2]])}
             list == ListTimers!FilterSort(rows, ListTimers!Due, ListTimers!Sooner)
  <1>1. \A k \in P : rows[k].unit \in Int /\ rows[k].until \in Int /\ rows[k].until >= 0
    <2>1. \A k \in P : rows[k] \in TimerItem /\ rows[k].until # None /\ rows[k].until >= 0
      BY DEF ListTimers!Due
    <2> QED
      BY <2>1 DEF TimerItem
  <1>2. P \in SUBSET DOMAIN rows
    OBVIOUS
  <1>3. \A j, k \in P : << j, k >> \in L <=> ListTimers!Sooner(rows[j], rows[k])
    OBVIOUS
  <1>4. list = Chosen(rows, P, L)
    <2> DEFINE B == [k \in P |-> {j \in P : IF j < k THEN ~ListTimers!Sooner(rows[k], rows[j])
                                            ELSE ListTimers!Sooner(rows[j], rows[k])}]
    <2>1. B = Before(P, L)
      BY <1>3 DEF Before
    <2>2. ListTimers!Enumerated(B) = Enumerated(B)
      BY SameEnumerated
    <2>3. list = [i \in DOMAIN ListTimers!Enumerated(B) |-> rows[ListTimers!Enumerated(B)[i]]]
      BY DEF ListTimers!FilterSort
    <2> QED
      BY <2>1, <2>2, <2>3 DEF Chosen
  <1> HIDE DEF P, L, list
  <1>5. \A j, k \in P : << j, k >> \in L <=>
           (rows[j].until < rows[k].until
              \/ (rows[j].until = rows[k].until /\ rows[j].unit < rows[k].unit))
    BY <1>3 DEF ListTimers!Sooner, ListTimers!ByUnit
  <1>6. WeakOrder(P, L)
    <2>1. ASSUME NEW j \in P, NEW k \in P, << j, k >> \in L
          PROVE  << k, j >> \notin L
      <3>1. /\ rows[j].until \in Int /\ rows[j].unit \in Int
            /\ rows[k].until \in Int /\ rows[k].unit \in Int
        BY <1>1
      <3> QED
        BY ONLY <1>5, <2>1, <3>1, j \in P, k \in P
    <2>2. ASSUME NEW i \in P, NEW j \in P, NEW k \in P, << i, k >> \in L
          PROVE  << i, j >> \in L \/ << j, k >> \in L
      <3>1. /\ rows[i].until \in Int /\ rows[i].unit \in Int
            /\ rows[j].until \in Int /\ rows[j].unit \in Int
            /\ rows[k].until \in Int /\ rows[k].unit \in Int
        BY <1>1
      <3>2. /\ << i, k >> \in L <=> (\/ rows[i].until < rows[k].until
                                    \/ /\ rows[i].until = rows[k].until
                                       /\ rows[i].unit < rows[k].unit)
            /\ << i, j >> \in L <=> (\/ rows[i].until < rows[j].until
                                    \/ /\ rows[i].until = rows[j].until
                                       /\ rows[i].unit < rows[j].unit)
            /\ << j, k >> \in L <=> (\/ rows[j].until < rows[k].until
                                    \/ /\ rows[j].until = rows[k].until
                                       /\ rows[j].unit < rows[k].unit)
        BY ONLY <1>5, i \in P, j \in P, k \in P
      <3> QED
        BY ONLY <2>2, <3>1, <3>2
    <2> QED
      BY <2>1, <2>2 DEF WeakOrder
  <1>7. /\ IsFiniteSet(P) /\ Cardinality(P) \in Nat
        /\ Chosen(rows, P, L) \in Seq(TimerItem) /\ Len(Chosen(rows, P, L)) = Cardinality(P)
        /\ \E e : Sorts(e, rows, P, L)
    BY <1>2, <1>6, ChosenFacts
  <1>8. PICK e : Sorts(e, rows, P, L)
    BY <1>7
  <1>9. DOMAIN list = 1 .. Cardinality(P)
    BY <1>4, <1>7
  <1>10. /\ \A i \in DOMAIN list : e[i] \in P /\ list[i] = rows[e[i]]
         /\ \A k \in P : \E i \in DOMAIN list : e[i] = k
         /\ \A i, j \in DOMAIN list : i < j => << e[j], e[i] >> \notin L
    BY <1>4, <1>8, <1>9 DEF Sorts
  <1>11. \A i \in DOMAIN list : /\ \E k \in P : list[i] = rows[k]
                                /\ list[i].until \in Int /\ list[i].until >= 0
    BY <1>1, <1>10
  <1>12. \A k \in P : \E i \in DOMAIN list : list[i] = rows[k]
    BY <1>10
  <1>13. ASSUME NEW i \in DOMAIN list, NEW j \in DOMAIN list, i < j
         PROVE  list[i].until <= list[j].until
    <2>1. /\ e[i] \in P /\ e[j] \in P /\ list[i] = rows[e[i]] /\ list[j] = rows[e[j]]
          /\ << e[j], e[i] >> \notin L
      BY <1>10, <1>13
    <2> QED
      BY <1>1, <1>5, <2>1
  <1> QED
    BY <1>4, <1>7, <1>11, <1>12, <1>13 DEF P, list

\* A summary describes its page.
LEMMA TimersSummaryOfPage ==
  ASSUME TimersInv
  PROVE  ListTimers!SummaryOfPage
  <1> SUFFICES ASSUME ListTimers!Listed, ListTimers!Summary PROVE ListTimers!SummaryOfPage
    BY DEF ListTimers!SummaryOfPage
  <1> DEFINE rows == ListTimers!Rows
             D == DOMAIN rows
             keys == [k \in D |-> rows[k].state]
             counts == ListTimers!Tally(keys, None)
             all == ListTimers!FilterSort(rows, ListTimers!Due, ListTimers!Sooner)
             soon == Cut(all, Soonest)
             problems == ListTimers!FilterSort(rows, ListTimers!Problem, ListTimers!ByUnit)
             overdue == ListTimers!Cardinality({k \in D : rows[k].overdue})
             summary == answer.summary
  <1>1. rows \in Seq(TimerItem) /\ summary = ListTimers!Summarize(rows)
    <2>1. PICK e : TimerPage(e)
      BY TimersPage
    <2> QED
      BY <2>1, TimersPage DEF TimerPage
  <1>2. Soonest \in Nat
    BY LimitsAssumption
  <1>3. /\ summary.counts = counts /\ summary.overdue = overdue
        /\ summary.soon = soon /\ summary.problems = problems
    <2>1. ListTimers!Summarize(rows) =
              [counts |-> counts, overdue |-> overdue, soon |-> soon, problems |-> problems]
      BY DEF ListTimers!Summarize, ListTimers!Truncate, Cut
    <2> HIDE DEF counts, overdue, soon, problems
    <2> QED
      BY <1>1, <2>1
  <1>4. {problems[i] : i \in DOMAIN problems}
          = {rows[k] : k \in {i \in D : ListTimers!Problem(rows[i])}}
    BY <1>1, ProblemsAreShown
  <1> DEFINE P == {k \in D : ListTimers!Due(rows[k])}
  <1>5. /\ all \in Seq(TimerItem)
        /\ \A i \in DOMAIN all : /\ \E k \in P : all[i] = rows[k]
                                 /\ all[i].until \in Int /\ all[i].until >= 0
        /\ \A k \in P : \E i \in DOMAIN all : all[i] = rows[k]
        /\ \A i, j \in DOMAIN all : i < j => all[i].until <= all[j].until
    BY <1>1, DueAreShown
  <1> HIDE DEF rows, all, problems, overdue
  <1>6. /\ soon \in Seq(TimerItem)
        /\ Len(soon) = (IF Len(all) < Soonest THEN Len(all) ELSE Soonest)
        /\ \A i \in 1 .. Len(soon) : i \in 1 .. Len(all) /\ soon[i] = all[i]
    BY <1>2, <1>5, CutFacts
  <1>7. /\ DOMAIN counts = {keys[k] : k \in DOMAIN keys} \ {None}
        /\ \A s \in DOMAIN counts :
              counts[s] = ListTimers!Cardinality({k \in DOMAIN keys : keys[k] = s})
    BY DEF ListTimers!Tally, ListTimers!ToSet
  <1>8. DOMAIN keys = D /\ \A k \in D : keys[k] = rows[k].state
    OBVIOUS
  <1> HIDE DEF keys, counts, soon
  <1>9. \A s \in DOMAIN counts :
              counts[s] = ListTimers!Cardinality({k \in D : rows[k].state = s})
    <2>1. \A s : {k \in DOMAIN keys : keys[k] = s} = {k \in D : rows[k].state = s}
      BY <1>8
    <2> QED
      BY <1>7, <2>1
  <1>10. /\ DOMAIN soon = 1 .. Len(soon) /\ DOMAIN all = 1 .. Len(all)
         /\ Len(soon) \in Nat /\ Len(all) \in Nat
    BY <1>5, <1>6
  <1>11. \A i \in DOMAIN soon : /\ i \in DOMAIN all /\ soon[i] = all[i]
                                /\ soon[i].until \in Int /\ soon[i].until >= 0
                                /\ \E k \in P : soon[i] = rows[k]
    BY <1>5, <1>6, <1>10
  <1>12. ListTimers!ToSet(soon) \subseteq ListTimers!ToSet(rows)
    BY <1>11 DEF ListTimers!ToSet
  <1>13. ASSUME NEW row \in ListTimers!ToSet(rows) \ ListTimers!ToSet(soon),
                row.until # None, row.until >= 0
         PROVE  /\ Len(soon) = Soonest
                /\ \A j \in DOMAIN soon : soon[j].until <= row.until
    <2>1. PICK k \in D : row = rows[k]
      BY DEF ListTimers!ToSet
    <2>2. k \in P
      BY <1>13, <2>1 DEF ListTimers!Due
    <2>3. PICK i \in DOMAIN all : all[i] = row
      BY <1>5, <2>1, <2>2
    <2>4. i \notin DOMAIN soon
      <3> SUFFICES ASSUME i \in DOMAIN soon PROVE FALSE
        OBVIOUS
      <3>1. soon[i] = row
        BY <1>11, <2>3
      <3> QED
        BY <3>1 DEF ListTimers!ToSet
    <2>5. i \in Nat /\ i > Len(soon) /\ i <= Len(all)
      BY <1>10, <2>3, <2>4
    <2>6. Len(soon) = Soonest
      <3> DEFINE a == Len(all)
                 m == Len(soon)
      <3>1. a \in Nat /\ m = (IF a < Soonest THEN a ELSE Soonest) /\ i \in Nat /\ i > m /\ i <= a
        BY <1>6, <1>10, <2>5
      <3> HIDE DEF a, m
      <3>2. m = Soonest
        BY <1>2, <3>1
      <3> QED
        BY <3>2 DEF m
    <2>7. \A j \in DOMAIN soon : soon[j].until <= row.until
      <3> SUFFICES ASSUME NEW j \in DOMAIN soon PROVE soon[j].until <= row.until
        OBVIOUS
      <3>1. j < i /\ j \in DOMAIN all /\ soon[j] = all[j]
        BY <1>10, <1>11, <2>5
      <3> QED
        BY <1>5, <2>3, <3>1
    <2> QED
      BY <2>6, <2>7
  <1>14. ListTimers!ToSet(problems) =
            {rows[j] : j \in {i \in D :
                rows[i].overdue \/ rows[i].state = "failed" \/ rows[i].broken}}
    BY <1>4 DEF ListTimers!ToSet, ListTimers!Problem
  <1>15. overdue = ListTimers!Cardinality({k \in D : rows[k].overdue})
    BY DEF overdue
  <1>16. \A i, j \in DOMAIN soon : i < j => soon[i].until <= soon[j].until
    BY <1>5, <1>11
  <1>17. now \in Int /\ Second \in Nat /\ None \notin Int
    BY TimersListed, LimitsAssumption, NamesFacts
  <1>18. \A k \in D : /\ rows[k].next \in Int \union {None}
                      /\ rows[k].until = (IF rows[k].next = None THEN None
                                          ELSE ListTimers!Seconds(rows[k].next - now))
    <2> SUFFICES ASSUME NEW k \in D
                 PROVE  /\ rows[k].next \in Int \union {None}
                        /\ rows[k].until = (IF rows[k].next = None THEN None
                                            ELSE ListTimers!Seconds(rows[k].next - now))
      OBVIOUS
    <2>1. PICK e : TimerPage(e)
      BY TimersPage
    <2>2. e[k] \in DOMAIN given /\ rows[k] = ListTimers!Item(given[e[k]], now)
      BY <2>1 DEF TimerPage, rows
    <2>3. given[e[k]] \in TimerRow
      <3>1. given \in Seq(TimerRow)
        BY TimersListed
      <3> QED
        BY <2>2, <3>1
    <2>4. given[e[k]].next \in Int \union {None}
      BY <2>3 DEF TimerRow
    <2> QED
      BY <2>2, <2>4 DEF ListTimers!Item
  <1>19. \A i \in DOMAIN soon : /\ soon[i].next \in Int
                                /\ soon[i].until = ListTimers!Seconds(soon[i].next - now)
    <2> SUFFICES ASSUME NEW i \in DOMAIN soon
                 PROVE  /\ soon[i].next \in Int
                        /\ soon[i].until = ListTimers!Seconds(soon[i].next - now)
      OBVIOUS
    <2>1. PICK k \in D : soon[i] = rows[k]
      BY <1>11
    <2>2. soon[i].next # None
      BY <1>11, <1>17, <1>18, <2>1
    <2> QED
      BY <1>18, <2>1, <2>2
  <1>20. \A i \in DOMAIN soon : soon[i].next # None /\ now < soon[i].next + Second
    <2> SUFFICES ASSUME NEW i \in DOMAIN soon
                 PROVE  soon[i].next # None /\ now < soon[i].next + Second
      OBVIOUS
    <2>1. soon[i].next \in Int /\ ListTimers!Seconds(soon[i].next - now) >= 0
      BY <1>11, <1>19
    <2>2. soon[i].next - now \in Int
      BY <1>17, <2>1
    <2>3. -Second < soon[i].next - now
      BY <2>1, <2>2, SecondsOrder
    <2> QED
      BY <1>17, <2>1, <2>3
  <1>21. \A i, j \in DOMAIN soon :
            i < j => ListTimers!Near(soon[i].next - now, soon[j].next - now)
    <2> SUFFICES ASSUME NEW i \in DOMAIN soon, NEW j \in DOMAIN soon, i < j
                 PROVE  ListTimers!Near(soon[i].next - now, soon[j].next - now)
      OBVIOUS
    <2>1. soon[i].next - now \in Int /\ soon[j].next - now \in Int
      BY <1>17, <1>19
    <2>2. ListTimers!Seconds(soon[i].next - now) <= ListTimers!Seconds(soon[j].next - now)
      BY <1>16, <1>19
    <2> QED
      BY <2>1, <2>2, SecondsOrder
  <1>22. ASSUME NEW row \in ListTimers!ToSet(rows) \ ListTimers!ToSet(soon),
                row.next # None, now <= row.next
         PROVE  /\ Len(soon) = Soonest
                /\ \A j \in DOMAIN soon : soon[j].next < row.next + Second
    <2>1. PICK k \in D : row = rows[k]
      BY DEF ListTimers!ToSet
    <2>2. row.next \in Int /\ row.until = ListTimers!Seconds(row.next - now)
      BY <1>18, <1>22, <2>1
    <2>3. row.next - now \in Int /\ row.next - now >= 0
      BY <1>17, <1>22, <2>2
    <2>4. row.until \in Int /\ row.until >= 0
      BY <2>2, <2>3, SecondsFacts
    <2>5. Len(soon) = Soonest /\ \A j \in DOMAIN soon : soon[j].until <= row.until
      BY <1>13, <1>17, <2>4
    <2>6. ASSUME NEW j \in DOMAIN soon PROVE soon[j].next < row.next + Second
      <3>1. soon[j].next \in Int /\ soon[j].until = ListTimers!Seconds(soon[j].next - now)
        BY <1>19
      <3>2. soon[j].next - now \in Int
        BY <1>17, <3>1
      <3>3. ListTimers!Seconds(soon[j].next - now) <= ListTimers!Seconds(row.next - now)
        BY <2>2, <2>5, <3>1
      <3>4. ListTimers!Near(soon[j].next - now, row.next - now)
        BY <2>3, <3>2, <3>3, SecondsOrder
      <3>5. soon[j].next - now < row.next - now + Second
        BY <1>17, <2>3, <3>2, <3>4 DEF ListTimers!Near
      <3> QED
        BY <1>17, <2>2, <3>1, <3>5
    <2> QED
      BY <2>5, <2>6
  <1> QED
    BY <1>3, <1>9, <1>12, <1>14, <1>15, <1>20, <1>21, <1>22
    DEF ListTimers!SummaryOfPage, rows, D

-----------------------------------------------------------------------------
(***************************************************************************)
(* list_logs: the arguments.                                               *)
(***************************************************************************)

\* Arguments as a client may send them.
LogArgs(c) ==
    /\ DOMAIN c = {"start", "end", "large", "limit", "order", "fields", "group", "summary",
                   "others", "grep"}
    /\ {c.start, c.end} \subseteq Int \union {None, Mistyped, Bad}
    /\ c.large \in BOOLEAN \union {None, Mistyped}
    /\ c.limit \in Nat \union {None, Mistyped}
    /\ c.summary \in BOOLEAN \union {None, Mistyped}
    /\ c.fields \in Seq(STRING) \union {None, Mistyped}
    /\ c.others \in {None, Mistyped, "exclude_units", "scope", "priority", "unit"}

\* A sequence names each of its elements once when it has as many as it is long.
LEMMA EachOnce ==
  ASSUME NEW s \in Seq(STRING)
  PROVE  (ListLogs!Cardinality(ListLogs!ToSet(s)) = Len(s)) <=> ListLogs!IsInjective(s)
  <1> DEFINE T == {s[i] : i \in DOMAIN s}
             n == Len(s)
  <1>1. n \in Nat /\ DOMAIN s = 1 .. n
    OBVIOUS
  <1>2. IsFiniteSet(1 .. n) /\ Cardinality(1 .. n) = n
    <2>1. n \in Nat
      BY <1>1
    <2> HIDE DEF n
    <2>2. IsFiniteSet(1 .. n) /\ Cardinality(1 .. n) = IF 1 > n THEN 0 ELSE n - 1 + 1
      BY ONLY <2>1, FS_Interval
    <2> QED
      BY ONLY <2>1, <2>2
  <1>3. s \in [1 .. n -> T]
    <2>1. s = [i \in 1 .. n |-> s[i]]
      BY <1>1
    <2> QED
      BY <1>1, <2>1
  <1>4. s \in Surjection(1 .. n, T)
    BY <1>1, <1>3 DEF Surjection
  <1>5. Cardinality(T) = Cardinality(1 .. n) <=> s \in Injection(1 .. n, T)
    BY <1>2, <1>4, FS_Surjection
  <1>6. s \in Injection(1 .. n, T) <=> ListLogs!IsInjective(s)
    BY <1>1, <1>3 DEF Injection, IsInjective, ListLogs!IsInjective
  <1>7. ListLogs!ToSet(s) = T
    BY DEF ListLogs!ToSet
  <1> QED
    BY <1>2, <1>5, <1>6, <1>7, SameCardinality

\* The fields asked for are acceptable when each is a known one, and named once.
LEMMA FieldsAsked ==
  ASSUME NEW fields \in Seq(STRING) \union {None}
  PROVE  ListLogs!FieldsFit(fields) <=>
            (fields # None =>
               /\ ListLogs!ToSet(fields) \in (SUBSET Fields) \ {{}}
               /\ ListLogs!Cardinality(ListLogs!ToSet(fields)) = Len(fields))
  <1>1. CASE fields = None
    BY <1>1 DEF ListLogs!FieldsFit
  <1>2. CASE fields # None
    <2>1. fields \in Seq(STRING)
      BY <1>2
    <2>2. (ListLogs!Cardinality(ListLogs!ToSet(fields)) = Len(fields)) <=>
              ListLogs!IsInjective(fields)
      BY <2>1, EachOnce
    <2>3. (fields = << >>) <=> (ListLogs!ToSet(fields) = {})
      <3>1. DOMAIN fields = 1 .. Len(fields) /\ Len(fields) \in Nat
        BY <2>1
      <3>2. (fields = << >>) <=> (Len(fields) = 0)
        BY <2>1
      <3>3. (1 .. Len(fields) = {}) <=> (Len(fields) = 0)
        <4>1. (Len(fields) # 0) => (1 \in 1 .. Len(fields))
          BY <3>1
        <4>2. \A i \in 1 .. Len(fields) : Len(fields) # 0
          BY <3>1
        <4> QED
          BY <4>1, <4>2
      <3> QED
        BY <3>1, <3>2, <3>3 DEF ListLogs!ToSet
    <2> QED
      <3>1. ListLogs!FieldsFit(fields) <=>
                (/\ fields # << >> /\ ListLogs!IsInjective(fields)
                 /\ ListLogs!ToSet(fields) \subseteq Fields)
        BY <1>2 DEF ListLogs!FieldsFit
      <3>2. (ListLogs!ToSet(fields) \in (SUBSET Fields) \ {{}}) <=>
                (ListLogs!ToSet(fields) \subseteq Fields /\ ListLogs!ToSet(fields) # {})
        OBVIOUS
      <3> QED
        BY <1>2, <2>2, <2>3, <3>1, <3>2
  <1> QED
    BY <1>1, <1>2

\* The checks in their order come to what is documented of the arguments.
LEMMA LogRefusal ==
  ASSUME LogArgs(args)
  PROVE  /\ (ListLogs!Refusal(args) = None) <=> ListLogs!Legal
         /\ (ListLogs!Refusal(args) # None) =>
                (ListLogs!Refusal(args) \in Codes \ {"internal", "invalid_cursor", "invalid_grep"})
         /\ (ListLogs!Refusal(args) = "time_range_too_large") =>
                /\ args.start \in Int /\ args.end \in Int
                /\ args.end - args.start > Week
  <1>1. /\ \A field \in DOMAIN args : field \in {"start", "end", "large", "limit", "order",
                                                 "fields", "group", "summary", "others", "grep"}
        /\ \A field \in {"start", "end", "large", "limit", "order",
                         "fields", "group", "summary", "others", "grep"} : field \in DOMAIN args
        /\ args.large # Bad /\ args.limit # Bad /\ args.summary # Bad /\ args.fields # Bad
        /\ args.others # Bad
    BY NamesFacts DEF LogArgs
  <1>2. \A code \in Codes : code # None
    BY NamesFacts
  <1>3. /\ Week \in Nat /\ MaxLimit \in Nat /\ DefaultLimit \in 1 .. MaxLimit
        /\ None \notin Int /\ None # Mistyped /\ None # Bad
        /\ None \notin {"exclude_units", "scope", "priority", "unit"}
    BY NamesFacts, LimitsAssumption
  <1> DEFINE Typed == \A field \in DOMAIN args : args[field] # Mistyped
             Timed == args.start \in Int /\ args.end \in Int
             LimitOk == args.limit # None => args.limit \in 1 .. MaxLimit
             FieldsOk == (args.fields # None =>
               /\ ListLogs!ToSet(args.fields) \in (SUBSET Fields) \ {{}}
               /\ ListLogs!Cardinality(ListLogs!ToSet(args.fields)) = Len(args.fields))
             OldestOk == (args.large = TRUE) \/ (args.end - Week <= args.start)
  <1>4. ListLogs!Legal <=>
           (/\ Typed /\ args.start # Bad /\ args.end # Bad /\ args.order # Bad /\ args.group # Bad
            /\ args.start # None /\ args.end # None /\ args.start < args.end /\ OldestOk
            /\ LimitOk /\ FieldsOk /\ args.others = None)
    BY <1>1 DEF ListLogs!Legal
  <1>5. CASE ~Typed
    <2>1. ListLogs!Refusal(args) = "invalid_params"
      BY <1>5 DEF ListLogs!Refusal
    <2> QED
      BY <1>2, <1>4, <1>5, <2>1 DEF Codes
  <1>6. CASE Typed
    <2>1. /\ args.limit \in Nat \union {None} /\ args.fields \in Seq(STRING) \union {None}
          /\ args.start \in Int \union {None, Bad} /\ args.end \in Int \union {None, Bad}
          /\ args.others \in {None, "exclude_units", "scope", "priority", "unit"}
          /\ args.large \in BOOLEAN \union {None}
      BY <1>1, <1>6 DEF LogArgs
    <2>2. ListLogs!FieldsFit(args.fields) <=> FieldsOk
      BY <2>1, FieldsAsked
    <2>3. ~(ListLogs!LimitOf(args) = 0 \/ ListLogs!LimitOf(args) > MaxLimit) <=> LimitOk
      BY <1>3, <2>1 DEF ListLogs!LimitOf
    <2>4. Timed => (ListLogs!TooLarge(args) <=> ~OldestOk)
      <3>1. Timed => ((args.end - args.start > Week) <=> ~(args.end - Week <= args.start))
        BY <1>3
      <3> QED
        BY <3>1 DEF ListLogs!TooLarge
    <2>5. Timed => ((args.start >= args.end) <=> ~(args.start < args.end))
      OBVIOUS
    <2> HIDE DEF FieldsOk, LimitOk, OldestOk
    <2>6. (args.start \notin {None, Bad} /\ args.end \notin {None, Bad}) <=> Timed
      BY <1>3, <2>1, NamesFacts
    <2> DEFINE Later == IF args.order = Bad THEN "invalid_order"
                       ELSE IF args.others = "exclude_units" THEN "invalid_unit"
                       ELSE IF args.others = "scope" THEN "invalid_scope"
                       ELSE IF args.others = "priority" THEN "invalid_priority"
                       ELSE IF args.others = "unit" THEN "invalid_unit"
                       ELSE None
    <2>7. ListLogs!Refusal(args) =
              IF ~FieldsOk THEN "invalid_fields"
              ELSE IF args.group = Bad THEN "invalid_group_by"
              ELSE IF Bad \in {args.start, args.end} THEN "invalid_utc_time"
              ELSE IF None \in {args.start, args.end} THEN "missing_time_range"
              ELSE IF args.start >= args.end THEN "invalid_time_range"
              ELSE IF ~OldestOk THEN "time_range_too_large"
              ELSE IF ~LimitOk THEN "invalid_limit"
              ELSE Later
      BY <1>6, <2>2, <2>3, <2>4, <2>6 DEF ListLogs!Refusal
    <2>8. /\ (Later = None) <=> (args.order # Bad /\ args.others = None)
          /\ Later \in {"invalid_order", "invalid_unit", "invalid_scope", "invalid_priority", None}
      BY <1>2, <1>3, <2>1 DEF Codes
    <2> HIDE DEF Later
    <2>9. CASE ~FieldsOk \/ args.group = Bad \/ ~Timed
      <3>1. ListLogs!Refusal(args) \in {"invalid_fields", "invalid_group_by", "invalid_utc_time",
                                        "missing_time_range"}
        BY <2>6, <2>7, <2>9
      <3> QED
        BY <1>2, <1>4, <2>6, <2>9, <3>1 DEF Codes
    <2>10. CASE FieldsOk /\ args.group # Bad /\ Timed /\ ~(args.start < args.end /\ OldestOk)
      <3>1. ListLogs!Refusal(args) \in {"invalid_time_range", "time_range_too_large"}
        BY <2>5, <2>6, <2>7, <2>10
      <3>2. (ListLogs!Refusal(args) = "time_range_too_large") => ~OldestOk
        BY <2>5, <2>6, <2>7, <2>10
      <3>3. (~OldestOk /\ Timed) => args.end - args.start > Week
        BY <1>3 DEF OldestOk
      <3> QED
        BY <1>2, <1>4, <2>10, <3>1, <3>2, <3>3 DEF Codes
    <2>11. CASE /\ FieldsOk /\ args.group # Bad /\ Timed /\ args.start < args.end /\ OldestOk
                /\ ~LimitOk
      <3>1. ListLogs!Refusal(args) = "invalid_limit"
        BY <2>5, <2>6, <2>7, <2>11
      <3> QED
        BY <1>2, <1>4, <2>11, <3>1 DEF Codes
    <2>12. CASE /\ FieldsOk /\ args.group # Bad /\ Timed /\ args.start < args.end /\ OldestOk
                /\ LimitOk
      <3>1. ListLogs!Refusal(args) = Later
        BY <2>5, <2>6, <2>7, <2>12
      <3>2. ListLogs!Legal <=> (args.order # Bad /\ args.others = None)
        BY <1>4, <1>6, <2>6, <2>12
      <3> QED
        BY <1>2, <2>8, <3>1, <3>2 DEF Codes
    <2> QED
      BY <2>9, <2>10, <2>11, <2>12
  <1> QED
    BY <1>5, <1>6

\* The limit of a call that is not refused is a number, and not zero.
LEMMA LogLimit ==
  ASSUME LogArgs(args), ListLogs!Refusal(args) = None
  PROVE  ListLogs!LimitOf(args) \in Nat \ {0}
  <1>1. \A code \in Codes : code # None
    BY NamesFacts
  <1>2. "limit" \in DOMAIN args /\ args.limit \in Nat \union {None, Mistyped}
    BY DEF LogArgs
  <1>3. args.limit # Mistyped
    BY <1>1, <1>2 DEF ListLogs!Refusal, Codes
  <1>4. ListLogs!LimitOf(args) \in Nat
    BY <1>2, <1>3, LimitsAssumption DEF ListLogs!LimitOf
  <1>5. ListLogs!LimitOf(args) # 0
    BY <1>1 DEF ListLogs!Refusal, Codes
  <1> QED
    BY <1>4, <1>5

\* What is cut off a printed time is less than a millisecond, and nothing of a whole one.
LEMMA PrintedTime ==
  ASSUME NEW time \in Int
  PROVE  /\ ListLogs!Printed(time) \in Int
         /\ ListLogs!Printed(time) <= time /\ time < ListLogs!Printed(time) + Milli
         /\ (time % Milli = 0) => (ListLogs!Printed(time) = time)
  <1>1. Milli \in Nat /\ Milli > 0
    BY LimitsAssumption
  <1>2. /\ time \div Milli \in Int /\ time % Milli \in 0 .. (Milli - 1)
        /\ time = Milli * (time \div Milli) + (time % Milli)
    BY <1>1
  <1>3. ListLogs!Printed(time) = Milli * (time \div Milli)
    BY <1>1, <1>2 DEF ListLogs!Printed
  <1> DEFINE p == Milli * (time \div Milli)
             r == time % Milli
  <1>4. p \in Int /\ r \in 0 .. (Milli - 1) /\ time = p + r
    BY <1>1, <1>2
  <1> HIDE DEF p, r
  <1>5. ListLogs!Printed(time) = p
    BY <1>3 DEF p
  <1>6. p <= time /\ time < p + Milli /\ (r = 0 => p = time)
    BY <1>1, <1>4
  <1> QED
    BY <1>4, <1>5, <1>6 DEF r

\* A multiple leaves nothing.
LEMMA NothingRemains ==
  ASSUME NEW m \in Nat \ {0}, NEW k \in Int
  PROVE  (m * k) % m = 0
  BY ONLY m \in Nat \ {0}, k \in Int

\* A week more or less is the same part of a millisecond.
LEMMA WeeksAreWhole ==
  ASSUME NEW time \in Int, time % Milli = 0
  PROVE  (time - Week) % Milli = 0
  <1>1. Milli \in Nat /\ Milli > 0 /\ Week \in Nat /\ Week % Milli = 0
    BY LimitsAssumption
  <1> DEFINE q == time \div Milli
             w == Week \div Milli
  <1>2. q \in Int /\ w \in Int /\ time = Milli * q /\ Week = Milli * w
    BY <1>1
  <1> HIDE DEF q, w
  <1>3. time - Week = Milli * (q - w)
    BY <1>1, <1>2
  <1>4. q - w \in Int
    BY <1>2
  <1>5. (Milli * (q - w)) % Milli = 0
    <2>1. Milli \in Nat \ {0}
      BY <1>1
    <2> QED
      BY ONLY <1>4, <2>1, NothingRemains
  <1> QED
    BY <1>3, <1>5

-----------------------------------------------------------------------------
(***************************************************************************)
(* list_logs: groups.                                                      *)
(***************************************************************************)

LogEntry == [unit : Int \union {None}, priority : Nat \union {None},
             message : Int \union {None}, time : Int, cursor : BOOLEAN]
LogGroup == [key : {ListLogs!Key(entry) : entry \in LogEntry}, count : Nat, first : Int,
             last : Int, row : Nat]

\* The first n entries that have the key of group g of gs, and a partition of these entries.
MembersOf(gs, n, g) == {k \in 1 .. n : ListLogs!Key(given[k]) = gs[g].key}

PartitionOf(gs, n) ==
    /\ \A k \in 1 .. n : \E g \in DOMAIN gs : gs[g].key = ListLogs!Key(given[k])
    /\ \A g, h \in DOMAIN gs : g < h => (gs[g].key # gs[h].key /\ gs[g].row < gs[h].row)
    /\ \A g \in DOMAIN gs :
          /\ gs[g].count = Cardinality(MembersOf(gs, n, g))
          /\ gs[g].row \in MembersOf(gs, n, g)
          /\ \A k \in MembersOf(gs, n, g) : /\ gs[g].row <= k
                                            /\ gs[g].first <= given[k].time
                                            /\ given[k].time <= gs[g].last
          /\ \E k \in MembersOf(gs, n, g) : given[k].time = gs[g].first
          /\ \E k \in MembersOf(gs, n, g) : given[k].time = gs[g].last

\* An entry that joins the group of its key leaves a partition.
LEMMA EntryJoins ==
  ASSUME given \in Seq(LogEntry), groups \in Seq(LogGroup), done \in Nat, done < Len(given),
         PartitionOf(groups, done), NEW c \in DOMAIN groups,
         groups[c].key = ListLogs!Key(given[done + 1])
  PROVE  LET gs == [groups EXCEPT ![c] = ListLogs!Adjusted(@, given[done + 1])]
         IN  gs \in Seq(LogGroup) /\ PartitionOf(gs, done + 1)
  <1> DEFINE d == done + 1
             entry == given[d]
             gs == [groups EXCEPT ![c] = ListLogs!Adjusted(@, entry)]
             M(g) == MembersOf(groups, done, g)
             N(g) == MembersOf(gs, d, g)
  <1>1. d \in DOMAIN given /\ d \in Nat /\ d \notin 1 .. done /\ 1 .. d = (1 .. done) \union {d}
    OBVIOUS
  <1>2. /\ entry \in LogEntry
        /\ \A k \in 1 .. d : k \in DOMAIN given /\ given[k] \in LogEntry
    BY <1>1
  <1>3. entry.time \in Int /\ \A k \in 1 .. d : given[k].time \in Int
    BY <1>1, <1>2 DEF LogEntry
  <1>4. \A g \in DOMAIN groups : groups[g] \in LogGroup
    OBVIOUS
  <1>5. \A g \in DOMAIN groups : /\ groups[g].count \in Nat /\ groups[g].row \in Nat
                                 /\ groups[g].first \in Int /\ groups[g].last \in Int
    BY <1>4 DEF LogGroup
  <1>6. DOMAIN gs = DOMAIN groups /\ DOMAIN groups = 1 .. Len(groups) /\ Len(groups) \in Nat
    OBVIOUS
  <1>7. \A g \in DOMAIN groups : g # c => gs[g] = groups[g]
    OBVIOUS
  <1>8. /\ gs[c].key = groups[c].key /\ gs[c].row = groups[c].row
        /\ gs[c].count = groups[c].count + 1
        /\ gs[c].first = IF entry.time < groups[c].first THEN entry.time ELSE groups[c].first
        /\ gs[c].last = IF entry.time > groups[c].last THEN entry.time ELSE groups[c].last
        /\ gs[c] \in LogGroup
    <2>1. gs[c] = ListLogs!Adjusted(groups[c], entry)
      OBVIOUS
    <2>2. groups[c] \in LogGroup
      BY <1>4
    <2> HIDE DEF gs, entry
    <2>3. /\ groups[c].key \in {ListLogs!Key(e) : e \in LogEntry} /\ groups[c].count + 1 \in Nat
          /\ DOMAIN groups[c] = {"key", "count", "first", "last", "row"}
      <3> DEFINE Keys == {ListLogs!Key(e) : e \in LogEntry}
      <3>1. LogGroup = [key : Keys, count : Nat, first : Int, last : Int, row : Nat]
        BY DEF LogGroup
      <3> HIDE DEF Keys
      <3>2. /\ groups[c].key \in Keys /\ groups[c].count \in Nat
            /\ DOMAIN groups[c] = {"key", "count", "first", "last", "row"}
        BY <2>2, <3>1
      <3> QED
        BY <3>2 DEF Keys
    <2>4. /\ gs[c].key = groups[c].key /\ gs[c].row = groups[c].row
          /\ gs[c].count = groups[c].count + 1
          /\ gs[c].first = IF entry.time < groups[c].first THEN entry.time ELSE groups[c].first
          /\ gs[c].last = IF entry.time > groups[c].last THEN entry.time ELSE groups[c].last
      BY <2>1, <2>3 DEF ListLogs!Adjusted
    <2>5. gs[c] = [key |-> gs[c].key, count |-> gs[c].count, first |-> gs[c].first,
                   last |-> gs[c].last, row |-> gs[c].row]
      BY <2>1, <2>3 DEF ListLogs!Adjusted
    <2>6. /\ gs[c].key \in {ListLogs!Key(e) : e \in LogEntry} /\ gs[c].count \in Nat
          /\ gs[c].first \in Int /\ gs[c].last \in Int /\ gs[c].row \in Nat
      BY <1>3, <1>5, <2>3, <2>4
    <2>7. gs[c] \in LogGroup
      BY <2>5, <2>6 DEF LogGroup
    <2> QED
      BY <2>4, <2>7
  <1>9. gs \in Seq(LogGroup)
    <2>1. \A g \in DOMAIN groups : gs[g] \in LogGroup
      BY <1>4, <1>7, <1>8
    <2> QED
      BY <1>6, <2>1
  <1>10. \A g \in DOMAIN groups : gs[g].key = groups[g].key /\ gs[g].row = groups[g].row
    BY <1>7, <1>8
  <1> HIDE DEF gs, d
  <1>11. \A g \in DOMAIN groups : g # c => groups[g].key # ListLogs!Key(entry)
    <2> SUFFICES ASSUME NEW g \in DOMAIN groups, g # c
                 PROVE  groups[g].key # groups[c].key
      BY DEF d
    <2>1. g < c \/ c < g
      BY <1>6
    <2> QED
      BY <2>1 DEF PartitionOf
  <1>12. \A g \in DOMAIN groups : g # c => N(g) = M(g)
    BY <1>1, <1>10, <1>11 DEF MembersOf
  <1>13. N(c) = M(c) \union {d} /\ d \notin M(c)
    BY <1>1, <1>10 DEF MembersOf, d
  <1>14. Cardinality(N(c)) = Cardinality(M(c)) + 1
    <2>1. M(c) \in SUBSET (1 .. done)
      BY DEF MembersOf
    <2>2. IsFiniteSet(1 .. done)
      BY FS_Interval
    <2>3. IsFiniteSet(M(c))
      BY <2>1, <2>2, FS_Subset
    <2> QED
      BY <1>13, <2>3, FS_AddElement
  <1>15. \A k \in 1 .. d : \E g \in DOMAIN gs : gs[g].key = ListLogs!Key(given[k])
    <2> SUFFICES ASSUME NEW k \in 1 .. d
                 PROVE  \E g \in DOMAIN groups : groups[g].key = ListLogs!Key(given[k])
      BY <1>6, <1>10
    <2>1. CASE k \in 1 .. done
      BY <2>1 DEF PartitionOf
    <2>2. CASE k = d
      BY <2>2 DEF d
    <2> QED
      BY <1>1, <2>1, <2>2
  <1>16. \A g, h \in DOMAIN gs : g < h => (gs[g].key # gs[h].key /\ gs[g].row < gs[h].row)
    BY <1>6, <1>10 DEF PartitionOf
  <1>17. ASSUME NEW g \in DOMAIN groups, g # c
         PROVE  /\ gs[g].count = Cardinality(N(g))
                /\ gs[g].row \in N(g)
                /\ \A k \in N(g) : /\ gs[g].row <= k
                                   /\ gs[g].first <= given[k].time
                                   /\ given[k].time <= gs[g].last
                /\ \E k \in N(g) : given[k].time = gs[g].first
                /\ \E k \in N(g) : given[k].time = gs[g].last
    <2>1. gs[g] = groups[g] /\ N(g) = M(g)
      BY <1>7, <1>12, <1>17
    <2> HIDE DEF N
    <2> QED
      BY <2>1 DEF PartitionOf
  <1>18. /\ gs[c].count = Cardinality(N(c))
         /\ gs[c].row \in N(c)
         /\ \A k \in N(c) : /\ gs[c].row <= k
                            /\ gs[c].first <= given[k].time
                            /\ given[k].time <= gs[c].last
         /\ \E k \in N(c) : given[k].time = gs[c].first
         /\ \E k \in N(c) : given[k].time = gs[c].last
    <2>1. /\ groups[c].count = Cardinality(M(c))
          /\ groups[c].row \in M(c)
          /\ \A k \in M(c) : /\ groups[c].row <= k
                             /\ groups[c].first <= given[k].time
                             /\ given[k].time <= groups[c].last
          /\ \E k \in M(c) : given[k].time = groups[c].first
          /\ \E k \in M(c) : given[k].time = groups[c].last
      BY DEF PartitionOf
    <2>2. M(c) \in SUBSET (1 .. done)
      BY DEF MembersOf
    <2> HIDE DEF M, N
    <2>3. \A k \in M(c) : k \in 1 .. d /\ k < d /\ given[k].time \in Int /\ k \in Int
      BY <1>1, <1>3, <2>2
    <2>4. \A k \in N(c) : k \in M(c) \/ k = d
      BY <1>13
    <2>5. \A k \in N(c) : /\ gs[c].row <= k
                            /\ gs[c].first <= given[k].time
                            /\ given[k].time <= gs[c].last
      <3> SUFFICES ASSUME NEW k \in N(c)
                   PROVE  /\ gs[c].row <= k
                          /\ gs[c].first <= given[k].time
                          /\ given[k].time <= gs[c].last
        OBVIOUS
      <3> HIDE DEF entry
      <3>1. CASE k \in M(c)
        <4>1. /\ groups[c].row <= k
              /\ groups[c].first <= given[k].time
              /\ given[k].time <= groups[c].last
          BY <2>1, <3>1
        <4>2. given[k].time \in Int
          BY <2>3, <3>1
        <4>3. groups[c].first \in Int /\ groups[c].last \in Int /\ entry.time \in Int
          BY <1>3, <1>5
        <4> QED
          BY ONLY <1>8, <4>1, <4>2, <4>3
      <3>2. CASE k = d
        <4>1. given[k].time = entry.time
          BY <3>2 DEF entry
        <4>2. groups[c].row \in Int /\ groups[c].row < k
          BY <2>1, <2>3, <3>2
        <4>3. groups[c].first \in Int /\ groups[c].last \in Int /\ entry.time \in Int
          BY <1>3, <1>5
        <4>4. k \in Int
          BY <1>1, <3>2
        <4> QED
          BY ONLY <1>8, <4>1, <4>2, <4>3, <4>4
      <3> QED
        BY <2>4, <3>1, <3>2
    <2>6. \E k \in N(c) : given[k].time = gs[c].first
      BY <1>8, <1>13, <2>1
    <2>7. \E k \in N(c) : given[k].time = gs[c].last
      BY <1>8, <1>13, <2>1
    <2> QED
      BY <1>8, <1>13, <1>14, <2>1, <2>5, <2>6, <2>7
  <1>19. PartitionOf(gs, d)
    BY <1>6, <1>15, <1>16, <1>17, <1>18 DEF PartitionOf
  <1> QED
    BY <1>9, <1>19 DEF gs, d

\* An entry of a new key that begins a group leaves a partition.
LEMMA EntryBegins ==
  ASSUME given \in Seq(LogEntry), groups \in Seq(LogGroup), done \in Nat, done < Len(given),
         PartitionOf(groups, done),
         \A g \in DOMAIN groups : groups[g].key # ListLogs!Key(given[done + 1])
  PROVE  LET entry == given[done + 1]
             gs == Append(groups, [key |-> ListLogs!Key(entry), count |-> 1,
                                   first |-> entry.time, last |-> entry.time, row |-> done + 1])
         IN  gs \in Seq(LogGroup) /\ PartitionOf(gs, done + 1)
  <1> DEFINE d == done + 1
             n == Len(groups)
             entry == given[d]
             new == [key |-> ListLogs!Key(entry), count |-> 1,
                     first |-> entry.time, last |-> entry.time, row |-> d]
             gs == Append(groups, new)
             M(g) == MembersOf(groups, done, g)
             N(g) == MembersOf(gs, d, g)
  <1>1. d \in DOMAIN given /\ d \in Nat /\ d \notin 1 .. done /\ 1 .. d = (1 .. done) \union {d}
    OBVIOUS
  <1>2. entry \in LogEntry
    BY <1>1
  <1>3. entry.time \in Int
    BY <1>2 DEF LogEntry
  <1>4. /\ new \in LogGroup
        /\ new.key = ListLogs!Key(entry) /\ new.count = 1 /\ new.row = d
        /\ new.first = entry.time /\ new.last = entry.time
    BY <1>1, <1>2, <1>3 DEF LogGroup
  <1> HIDE DEF new
  <1>5. /\ gs \in Seq(LogGroup) /\ n \in Nat
        /\ DOMAIN groups = 1 .. n /\ DOMAIN gs = 1 .. (n + 1)
        /\ \A g \in 1 .. n : gs[g] = groups[g]
        /\ gs[n + 1] = new
    BY <1>4
  <1> HIDE DEF gs, d
  <1>6. \A g \in 1 .. n : N(g) = M(g)
    BY <1>1, <1>5 DEF MembersOf, d
  <1>7. N(n + 1) = {d}
    <2>1. \A k \in 1 .. done : ListLogs!Key(given[k]) # ListLogs!Key(entry)
      BY DEF PartitionOf, d
    <2> QED
      BY <1>1, <1>4, <1>5, <2>1 DEF MembersOf
  <1>8. \A k \in 1 .. d : \E g \in DOMAIN gs : gs[g].key = ListLogs!Key(given[k])
    <2> SUFFICES ASSUME NEW k \in 1 .. d
                 PROVE  \E g \in DOMAIN gs : gs[g].key = ListLogs!Key(given[k])
      OBVIOUS
    <2>1. CASE k \in 1 .. done
      <3>1. PICK g \in DOMAIN groups : groups[g].key = ListLogs!Key(given[k])
        BY <2>1 DEF PartitionOf
      <3>2. g \in DOMAIN gs /\ gs[g] = groups[g]
        BY <1>5
      <3> QED
        BY <3>1, <3>2
    <2>2. CASE k = d
      BY <1>4, <1>5, <2>2
    <2> QED
      BY <1>1, <2>1, <2>2
  <1>9. \A g \in 1 .. n : /\ groups[g].row \in 1 .. done
                          /\ groups[g].key # ListLogs!Key(entry)
    BY <1>5 DEF PartitionOf, MembersOf, d
  <1>10. \A g, h \in DOMAIN gs : g < h => (gs[g].key # gs[h].key /\ gs[g].row < gs[h].row)
    <2> SUFFICES ASSUME NEW g \in 1 .. (n + 1), NEW h \in 1 .. (n + 1), g < h
                 PROVE  gs[g].key # gs[h].key /\ gs[g].row < gs[h].row
      BY <1>5
    <2>1. CASE h \in 1 .. n
      <3>1. g \in 1 .. n
        BY <1>5, <2>1
      <3>2. groups[g].key # groups[h].key /\ groups[g].row < groups[h].row
        BY <1>5, <2>1, <3>1 DEF PartitionOf
      <3> QED
        BY ONLY <1>5, <2>1, <3>1, <3>2
    <2>2. CASE h = n + 1
      <3>1. g \in 1 .. n
        BY <1>5, <2>2
      <3>2. groups[g].row < d
        BY <1>1, <1>9, <3>1 DEF d
      <3> QED
        BY <1>4, <1>5, <1>9, <2>2, <3>1, <3>2
    <2> QED
      BY <1>5, <2>1, <2>2
  <1>11. ASSUME NEW g \in 1 .. n
         PROVE  /\ gs[g].count = Cardinality(N(g))
                /\ gs[g].row \in N(g)
                /\ \A k \in N(g) : /\ gs[g].row <= k
                                   /\ gs[g].first <= given[k].time
                                   /\ given[k].time <= gs[g].last
                /\ \E k \in N(g) : given[k].time = gs[g].first
                /\ \E k \in N(g) : given[k].time = gs[g].last
    <2>1. gs[g] = groups[g] /\ N(g) = M(g)
      BY <1>5, <1>6
    <2>2. /\ groups[g].count = Cardinality(M(g))
          /\ groups[g].row \in M(g)
          /\ \A k \in M(g) : /\ groups[g].row <= k
                             /\ groups[g].first <= given[k].time
                             /\ given[k].time <= groups[g].last
          /\ \E k \in M(g) : given[k].time = groups[g].first
          /\ \E k \in M(g) : given[k].time = groups[g].last
      BY <1>5 DEF PartitionOf
    <2> HIDE DEF N, M
    <2> QED
      BY ONLY <2>1, <2>2
  <1>12. /\ new.count = Cardinality({d})
         /\ new.row \in {d}
         /\ \A k \in {d} : /\ new.row <= k
                           /\ new.first <= given[k].time
                           /\ given[k].time <= new.last
         /\ \E k \in {d} : given[k].time = new.first
         /\ \E k \in {d} : given[k].time = new.last
    <2>1. Cardinality({d}) = 1
      BY FS_Singleton
    <2> QED
      BY <1>1, <1>3, <1>4, <2>1
  <1>13. \A g \in DOMAIN gs : g \in 1 .. n \/ g = n + 1
    BY <1>5
  <1>14. /\ gs[n + 1].count = Cardinality(N(n + 1))
         /\ gs[n + 1].row \in N(n + 1)
         /\ \A k \in N(n + 1) : /\ gs[n + 1].row <= k
                                /\ gs[n + 1].first <= given[k].time
                                /\ given[k].time <= gs[n + 1].last
         /\ \E k \in N(n + 1) : given[k].time = gs[n + 1].first
         /\ \E k \in N(n + 1) : given[k].time = gs[n + 1].last
    <2> HIDE DEF N
    <2> QED
      BY <1>5, <1>7, <1>12
  <1>15. PartitionOf(gs, d)
    <2> SUFFICES ASSUME NEW g \in DOMAIN gs
                 PROVE  /\ gs[g].count = Cardinality(N(g))
                        /\ gs[g].row \in N(g)
                        /\ \A k \in N(g) : /\ gs[g].row <= k
                                           /\ gs[g].first <= given[k].time
                                           /\ given[k].time <= gs[g].last
                        /\ \E k \in N(g) : given[k].time = gs[g].first
                        /\ \E k \in N(g) : given[k].time = gs[g].last
      BY <1>8, <1>10 DEF PartitionOf
    <2>1. CASE g \in 1 .. n
      BY <1>11, <2>1
    <2>2. CASE g = n + 1
      BY <1>14, <2>2
    <2> QED
      BY <1>13, <2>1, <2>2
  <1> QED
    BY <1>5, <1>15 DEF gs, d, new

-----------------------------------------------------------------------------
(***************************************************************************)
(* list_logs: the handler.                                                 *)
(***************************************************************************)

\* The answer to an acceptable call whose page was read.
LogAnswer ==
    LET rows == IF ListLogs!Grouped THEN [g \in DOMAIN groups |-> groups[g].row]
                                    ELSE [k \in DOMAIN given |-> k]
        summary == args.summary = TRUE
    IN  [ok |-> TRUE, rows |-> rows, cursor |-> ListLogs!NextCursor, truncated |-> more,
         returned |-> IF summary THEN Len(given) ELSE Len(rows),
         summary |-> IF summary THEN ListLogs!Summary ELSE None]

\* How far a call has come; a client that asked again asks from the start it was told.
LogsAsked ==
    /\ LogArgs(args)
    /\ tries \in Nat
    /\ (tries > 1) => (args.end \in Int /\ args.start = ListLogs!Printed(args.end - Week))
    /\ pc \in {"received", "list", "rows", "done"}
    /\ (pc # "done") => (answer = None)
    /\ (pc \in {"list", "rows"}) => (ListLogs!Refusal(args) = None)
    /\ (pc = "rows") => (args.grep # Bad)
    /\ (pc = "done") =>
          \/ /\ ListLogs!Refusal(args) # None
             /\ answer = ListLogs!Refused(ListLogs!Refusal(args))
          \/ /\ ListLogs!Refusal(args) = None
             /\ \/ answer = ListLogs!Refused("internal")
                \/ args.grep # Bad /\ answer \in {ListLogs!Refused("invalid_cursor"), LogAnswer}
                \/ args.grep = Bad /\ answer = ListLogs!Refused("invalid_grep")

\* Nothing is read before the arguments are accepted, and groups are made of what was read.
LogsRead ==
    /\ given \in Seq(LogEntry)
    /\ more \in BOOLEAN
    /\ more => (given # << >>)
    /\ groups \in Seq(LogGroup)
    /\ done \in 0 .. Len(given)
    /\ (pc \in {"received", "list"} \/ ListLogs!Refusal(args) # None) =>
          (given = << >> /\ more = FALSE /\ done = 0 /\ groups = << >>)
    /\ ListLogs!GroupsPartition

LogsInv == LogsAsked /\ LogsRead

\* Whether a call is acceptable, and what is told when it is not, depends on it only.
LEMMA LogRefusalStays ==
  ASSUME args' = args
  PROVE  /\ ListLogs!Refusal(args)' = ListLogs!Refusal(args)
         /\ \A code : ListLogs!Refused(code)' = ListLogs!Refused(code)
         /\ ListLogs!Grouped' = ListLogs!Grouped
  <1>1. ListLogs!Refusal(args)' = ListLogs!Refusal(args)
    BY DEF ListLogs!Refusal, ListLogs!FieldsFit, ListLogs!TooLarge, ListLogs!LimitOf,
       ListLogs!IsInjective, ListLogs!ToSet
  <1>2. \A code : ListLogs!Refused(code)' = ListLogs!Refused(code)
    BY DEF ListLogs!Refused, ListLogs!MaximumStart, ListLogs!Printed
  <1>3. ListLogs!Grouped' = ListLogs!Grouped
    BY DEF ListLogs!Grouped
  <1> QED
    BY <1>1, <1>2, <1>3

\* What is answered depends on the call, the page and its groups only.
LEMMA LogAnswerStays ==
  ASSUME UNCHANGED << args, given, more, groups >>
  PROVE  LogAnswer' = LogAnswer
  <1>1. ListLogs!Grouped' = ListLogs!Grouped /\ ListLogs!NextCursor' = ListLogs!NextCursor
    BY DEF ListLogs!Grouped, ListLogs!NextCursor
  <1>2. \A entry : /\ ListLogs!IsError(entry)' = ListLogs!IsError(entry)
                   /\ ListLogs!PriorityKey(entry)' = ListLogs!PriorityKey(entry)
    BY DEF ListLogs!IsError, ListLogs!PriorityKey
  <1>3. ListLogs!Summary' = ListLogs!Summary
    BY <1>2 DEF ListLogs!Summary, ListLogs!IsError, ListLogs!PriorityKey
  <1> QED
    BY <1>1, <1>3 DEF LogAnswer

\* A client is told a start only when its window is too large.
LEMMA LogsTold ==
  ASSUME LogsInv, ListLogs!Told
  PROVE  /\ ListLogs!Refusal(args) = "time_range_too_large"
         /\ args.start \in Int /\ args.end \in Int /\ args.end - args.start > Week
         /\ answer.maximum = ListLogs!Printed(args.end - Week)
  <1>1. \A code : /\ ListLogs!Refused(code).maximum =
                        IF code = "time_range_too_large" THEN ListLogs!MaximumStart(args) ELSE None
    BY DEF ListLogs!Refused
  <1>2. LogAnswer.ok = TRUE
    BY DEF LogAnswer
  <1>3. ListLogs!Refused("internal").maximum = None
        /\ ListLogs!Refused("invalid_cursor").maximum = None
        /\ ListLogs!Refused("invalid_grep").maximum = None
    BY <1>1
  <1>4. /\ ListLogs!Refusal(args) = "time_range_too_large"
        /\ answer.maximum = ListLogs!MaximumStart(args)
    BY <1>1, <1>2, <1>3 DEF LogsInv, LogsAsked, ListLogs!Told
  <1>5. LogArgs(args)
    BY DEF LogsInv, LogsAsked
  <1> QED
    BY <1>4, <1>5, LogRefusal DEF ListLogs!MaximumStart

\* Every step of the handler, and of its client, keeps what is known of the call.
LEMMA LogsAskedStep ==
  ASSUME LogsInv, ListLogs!Next \/ UNCHANGED ListLogs!vars
  PROVE  LogsAsked'
  <1> USE DEF LogsInv, LogsAsked
  <1>1. (args' = args) => /\ LogArgs(args)'
                          /\ ListLogs!Refusal(args)' = ListLogs!Refusal(args)
                          /\ \A code : ListLogs!Refused(code)' = ListLogs!Refused(code)
                          /\ ListLogs!Printed(args.end - Week)' = ListLogs!Printed(args.end - Week)
    BY LogRefusalStays DEF LogArgs, ListLogs!Printed
  <1>2. CASE ListLogs!Check
    <2>1. args' = args /\ tries' = tries /\ pc = "received"
      BY <1>2 DEF ListLogs!Check, ListLogs!call
    <2>2. CASE ListLogs!Refusal(args) # None
      <3>1. pc' = "done" /\ answer' = ListLogs!Refused(ListLogs!Refusal(args))
        BY <1>2, <2>2 DEF ListLogs!Check, ListLogs!Reply
      <3>2. answer' = ListLogs!Refused(ListLogs!Refusal(args))'
        BY <1>1, <2>1, <3>1
      <3> QED
        BY <1>1, <2>1, <2>2, <3>1, <3>2
    <2>3. CASE ListLogs!Refusal(args) = None
      <3>1. pc' = "list" /\ answer' = None
        BY <1>2, <2>3 DEF ListLogs!Check
      <3> QED
        BY <1>1, <2>1, <2>3, <3>1
    <2> QED
      BY <2>2, <2>3
  <1>3. CASE ListLogs!Retry
    <2>1. ListLogs!Told
      BY <1>3 DEF ListLogs!Retry
    <2>2. /\ args.start \in Int /\ args.end \in Int
          /\ answer.maximum = ListLogs!Printed(args.end - Week)
      BY <2>1, LogsTold
    <2>3. ListLogs!Printed(args.end - Week) \in Int
      <3>1. args.end - Week \in Int
        BY <2>2, LimitsAssumption
      <3> QED
        BY <3>1, PrintedTime
    <2>4. /\ args' = [args EXCEPT !.start = answer.maximum] /\ tries' = tries + 1
          /\ pc' = "received" /\ answer' = None
      BY <1>3 DEF ListLogs!Retry
    <2>5. /\ args'.start = ListLogs!Printed(args.end - Week) /\ args'.end = args.end
          /\ LogArgs(args')
      BY <2>2, <2>3, <2>4 DEF LogArgs
    <2>6. LogArgs(args)' /\ ListLogs!Printed(args.end - Week)' = ListLogs!Printed(args.end - Week)
      BY <2>5 DEF LogArgs, ListLogs!Printed
    <2> QED
      BY <2>2, <2>4, <2>5, <2>6
  <1>4. CASE ListLogs!List
    <2>1. args' = args /\ tries' = tries /\ pc = "list"
      BY <1>4 DEF ListLogs!List, ListLogs!call
    <2>2. \/ pc' = "rows" /\ answer' = None /\ args.grep # Bad
          \/ pc' = "done" /\ answer' = ListLogs!Refused("internal")
          \/ pc' = "done" /\ args.grep # Bad /\ answer' = ListLogs!Refused("invalid_cursor")
          \/ pc' = "done" /\ args.grep = Bad /\ answer' = ListLogs!Refused("invalid_grep")
      BY <1>4 DEF ListLogs!List, ListLogs!ReadErrors, ListLogs!Reply
    <2> QED
      BY <1>1, <2>1, <2>2
  <1>5. CASE ListLogs!Group
    <2>1. args' = args /\ tries' = tries /\ pc = "rows" /\ pc' = pc /\ answer' = answer
      BY <1>5 DEF ListLogs!Group, ListLogs!call
    <2> QED
      BY <1>1, <2>1
  <1>6. CASE ListLogs!Respond
    <2>1. /\ args' = args /\ tries' = tries /\ pc = "rows" /\ pc' = "done" /\ answer' = LogAnswer
          /\ UNCHANGED << given, more, groups >>
      BY <1>6 DEF ListLogs!Respond, ListLogs!call, ListLogs!page, ListLogs!Reply, LogAnswer
    <2>2. LogAnswer' = LogAnswer
      BY <2>1, LogAnswerStays
    <2> QED
      BY <1>1, <2>1, <2>2
  <1>7. CASE ListLogs!Rest \/ UNCHANGED ListLogs!vars
    <2>1. UNCHANGED << args, tries, given, more, pc, answer, groups >>
      BY <1>7 DEF ListLogs!Rest, ListLogs!vars, ListLogs!call, ListLogs!page
    <2>2. LogAnswer' = LogAnswer
      BY <2>1, LogAnswerStays
    <2> QED
      BY <1>1, <2>1, <2>2
  <1> QED
    BY <1>2, <1>3, <1>4, <1>5, <1>6, <1>7 DEF ListLogs!Next

\* Before the first entry the groups are a partition, of nothing.
LEMMA NothingIsPartitioned ==
  ASSUME done = 0, groups = << >>
  PROVE  ListLogs!GroupsPartition
  <1>1. 1 .. done = {} /\ DOMAIN groups = {}
    OBVIOUS
  <1> QED
    BY <1>1 DEF ListLogs!GroupsPartition

\* They stay one as long as nothing happens to them.
LEMMA PartitionStays ==
  ASSUME ListLogs!GroupsPartition, args'.group = args.group, UNCHANGED << given, done, groups >>
  PROVE  ListLogs!GroupsPartition'
  <1>1. \A g : ListLogs!Members(g)' = ListLogs!Members(g)
    BY DEF ListLogs!Members, ListLogs!Key
  <1>2. \A g : ListLogs!Cardinality(ListLogs!Members(g))' =
                  ListLogs!Cardinality(ListLogs!Members(g))
    BY <1>1 DEF ListLogs!Cardinality
  <1>3. ListLogs!Grouped' = ListLogs!Grouped /\ \A e : ListLogs!Key(e)' = ListLogs!Key(e)
    BY DEF ListLogs!Grouped, ListLogs!Key
  <1> QED
    BY <1>1, <1>2, <1>3 DEF ListLogs!GroupsPartition

\* The groups are a partition in the words of the handler as in those of the lemmas.
LEMMA PartitionIsPartition ==
  /\ (ListLogs!GroupsPartition /\ ListLogs!Grouped) => PartitionOf(groups, done)
  /\ PartitionOf(groups, done) => ListLogs!GroupsPartition
  <1>1. \A g : ListLogs!Members(g) = MembersOf(groups, done, g)
    BY DEF ListLogs!Members, MembersOf
  <1>2. \A g : ListLogs!Cardinality(ListLogs!Members(g)) = Cardinality(MembersOf(groups, done, g))
    BY <1>1, SameCardinality
  <1>3. (ListLogs!GroupsPartition /\ ListLogs!Grouped) => PartitionOf(groups, done)
    BY <1>1, <1>2 DEF ListLogs!GroupsPartition, PartitionOf
  <1>4. PartitionOf(groups, done) => ListLogs!GroupsPartition
    BY <1>1, <1>2 DEF ListLogs!GroupsPartition, PartitionOf
  <1> QED
    BY <1>3, <1>4

\* Every step keeps what is known of the page and its groups.
LEMMA LogsReadStep ==
  ASSUME LogsInv, ListLogs!Next \/ UNCHANGED ListLogs!vars
  PROVE  LogsRead'
  <1> USE DEF LogsInv, LogsRead
  <1>1. CASE ListLogs!Check
    <2>1. /\ args' = args /\ UNCHANGED << given, more, done, groups >>
          /\ pc = "received" /\ pc' \in {"list", "done"}
      BY <1>1 DEF ListLogs!Check, ListLogs!call, ListLogs!page, ListLogs!Reply
    <2> QED
      BY <2>1, PartitionStays
  <1>2. CASE ListLogs!Retry
    <2>1. /\ args' = [args EXCEPT !.start = answer.maximum]
          /\ UNCHANGED << given, more, done, groups >> /\ ListLogs!Told
      BY <1>2 DEF ListLogs!Retry, ListLogs!page
    <2>2. ListLogs!Refusal(args) # None
      <3>1. ListLogs!Refusal(args) \in Codes
        BY <2>1, LogsTold DEF Codes
      <3> QED
        BY <3>1, NamesFacts
    <2>3. args'.group = args.group
      BY <2>1 DEF LogsAsked, LogArgs
    <2> QED
      BY <2>1, <2>2, <2>3, PartitionStays
  <1>3. CASE ListLogs!List
    <2>1. pc = "list" /\ args' = args /\ done' = done /\ groups' = groups
      BY <1>3 DEF ListLogs!List, ListLogs!call
    <2>2. given = << >> /\ more = FALSE /\ done = 0 /\ groups = << >>
      BY <2>1
    <2>3. \/ given' \in Pages /\ more' \in {FALSE, Len(given') = ListLogs!LimitOf(args)}
             /\ pc' = "rows"
          \/ given' = given /\ more' = more /\ pc' = "done"
      BY <1>3 DEF ListLogs!List, ListLogs!ReadErrors, ListLogs!page, ListLogs!Reply
    <2>4. given' \in Seq(LogEntry) /\ more' \in BOOLEAN
      BY <2>2, <2>3, RowsAssumption DEF LogEntry
    <2>8. more' => (given' # << >>)
      <3>1. ListLogs!LimitOf(args) \in Nat \ {0}
        BY <2>1, LogLimit DEF LogsAsked
      <3> QED
        BY <2>2, <2>3, <3>1
    <2>5. ListLogs!Refusal(args)' = ListLogs!Refusal(args) /\ ListLogs!Refusal(args) = None
      BY <2>1, LogRefusalStays DEF LogsAsked
    <2>6. ListLogs!GroupsPartition'
      <3>1. done' = 0 /\ groups' = << >>
        BY <2>1, <2>2
      <3>2. (1 .. done)' = {} /\ DOMAIN (groups') = {}
        BY <3>1
      <3> QED
        BY <3>2 DEF ListLogs!GroupsPartition
    <2>7. done' \in 0 .. Len(given') /\ groups' \in Seq(LogGroup)
      BY <2>1, <2>2, <2>4
    <2> QED
      BY <2>3, <2>4, <2>5, <2>6, <2>7, <2>8
  <1>4. CASE ListLogs!Group
    <2>1. /\ pc = "rows" /\ ListLogs!Grouped /\ done < Len(given) /\ done' = done + 1
          /\ args' = args /\ given' = given /\ more' = more /\ pc' = pc
      BY <1>4 DEF ListLogs!Group, ListLogs!call, ListLogs!page
    <2> DEFINE entry == given[done + 1]
               same == {g \in DOMAIN groups : groups[g].key = ListLogs!Key(entry)}
               new == [key |-> ListLogs!Key(entry), count |-> 1, first |-> entry.time,
                       last |-> entry.time, row |-> done + 1]
    <2>2. groups' = IF same = {} THEN Append(groups, new)
                    ELSE [groups EXCEPT ![CHOOSE g \in same : TRUE] = ListLogs!Adjusted(@, entry)]
      BY <1>4 DEF ListLogs!Group
    <2>3. PartitionOf(groups, done)
      BY <2>1, PartitionIsPartition
    <2>4. given \in Seq(LogEntry) /\ groups \in Seq(LogGroup) /\ done \in Nat
      OBVIOUS
    <2>5. groups' \in Seq(LogGroup) /\ PartitionOf(groups', done + 1)
      <3>1. CASE same = {}
        <4>1. \A g \in DOMAIN groups : groups[g].key # ListLogs!Key(entry)
          BY <3>1
        <4>2. Append(groups, new) \in Seq(LogGroup) /\ PartitionOf(Append(groups, new), done + 1)
          BY <2>1, <2>3, <2>4, <4>1, EntryBegins
        <4> QED
          BY <2>2, <3>1, <4>2
      <3>2. CASE same # {}
        <4> DEFINE c == CHOOSE g \in same : TRUE
        <4>1. c \in DOMAIN groups /\ groups[c].key = ListLogs!Key(entry)
          BY <3>2
        <4> HIDE DEF c
        <4>2. /\ [groups EXCEPT ![c] = ListLogs!Adjusted(@, entry)] \in Seq(LogGroup)
              /\ PartitionOf([groups EXCEPT ![c] = ListLogs!Adjusted(@, entry)], done + 1)
          BY <2>1, <2>3, <2>4, <4>1, EntryJoins
        <4> QED
          BY <2>2, <3>2, <4>2 DEF c
      <3> QED
        BY <3>1, <3>2
    <2> HIDE DEF same, new, entry
    <2>6. PartitionOf(groups, done)'
      <3>1. \A g : MembersOf(groups, done, g)' = MembersOf(groups', done + 1, g)
        BY <2>1 DEF MembersOf, ListLogs!Key
      <3>2. \A g : Cardinality(MembersOf(groups, done, g))' =
                      Cardinality(MembersOf(groups', done + 1, g))
        BY <3>1
      <3>3. \A e : ListLogs!Key(e)' = ListLogs!Key(e)
        BY DEF ListLogs!Key
      <3> QED
        BY <2>1, <2>5, <3>1, <3>2, <3>3 DEF PartitionOf
    <2>7. ListLogs!GroupsPartition'
      BY <2>6, PartitionIsPartition, PTL
    <2>8. done' \in 0 .. Len(given')
      BY <2>1
    <2>9. ListLogs!Refusal(args)' = ListLogs!Refusal(args) /\ ListLogs!Refusal(args) = None
      BY <2>1, LogRefusalStays DEF LogsAsked
    <2> QED
      BY <2>1, <2>5, <2>7, <2>8, <2>9
  <1>5. CASE ListLogs!Respond \/ ListLogs!Rest
    <2>1. UNCHANGED << args, given, more, done, groups >> /\ pc' = "done" /\ pc \in {"rows", "done"}
      BY <1>5 DEF ListLogs!Respond, ListLogs!Rest, ListLogs!vars, ListLogs!call, ListLogs!page,
         ListLogs!Reply
    <2>2. ListLogs!Refusal(args)' = ListLogs!Refusal(args)
      BY <2>1, LogRefusalStays
    <2>3. (ListLogs!Refusal(args) # None) => 
             (given = << >> /\ more = FALSE /\ done = 0 /\ groups = << >>)
      OBVIOUS
    <2> QED
      BY <2>1, <2>2, <2>3, PartitionStays
  <1>6. CASE UNCHANGED ListLogs!vars
    <2>1. UNCHANGED << args, given, more, done, groups, pc >>
      BY <1>6 DEF ListLogs!vars, ListLogs!call, ListLogs!page
    <2>2. ListLogs!Refusal(args)' = ListLogs!Refusal(args)
      BY <2>1, LogRefusalStays
    <2> QED
      BY <2>1, <2>2, PartitionStays
  <1> QED
    BY <1>1, <1>2, <1>3, <1>4, <1>5, <1>6 DEF ListLogs!Next

\* Legal calls pass, and a client is told the widest window; one in whole milliseconds is
\* then accepted.
LEMMA LogsRefusedForCause ==
  ASSUME LogsInv
  PROVE  /\ ListLogs!OnlyLegalPass
         /\ ListLogs!AdviceIsWidest /\ ListLogs!AdviceAcceptedOnMillis
  <1>1. LogArgs(args)
    BY DEF LogsInv, LogsAsked
  <1>2. /\ (ListLogs!Refusal(args) = None) <=> ListLogs!Legal
        /\ (ListLogs!Refusal(args) # None) =>
              (ListLogs!Refusal(args) \in Codes \ {"internal", "invalid_cursor", "invalid_grep"})
    BY <1>1, LogRefusal
  <1>3. ListLogs!OnlyLegalPass
    <2>1. \A code : ListLogs!Refused(code).code = code /\ ListLogs!Refused(code).ok = FALSE
      BY DEF ListLogs!Refused
    <2>2. LogAnswer.ok = TRUE
      BY DEF LogAnswer
    <2>3. CASE pc = "done"
      <3>1. CASE ListLogs!Refusal(args) # None
        <4>1. answer = ListLogs!Refused(ListLogs!Refusal(args))
          BY <2>3, <3>1 DEF LogsInv, LogsAsked
        <4>2. /\ answer.ok = FALSE 
              /\ answer.code \notin {"internal", "invalid_cursor", "invalid_grep"}
          BY <1>2, <2>1, <3>1, <4>1
        <4> QED
          BY <1>2, <2>3, <3>1, <4>2 DEF ListLogs!OnlyLegalPass
      <3>2. CASE ListLogs!Refusal(args) = None
        <4>1. \/ answer = ListLogs!Refused("internal")
              \/ args.grep # Bad /\ answer \in {ListLogs!Refused("invalid_cursor"), LogAnswer}
              \/ args.grep = Bad /\ answer = ListLogs!Refused("invalid_grep")
          BY <2>3, <3>2 DEF LogsInv, LogsAsked
        <4>2. /\ answer.ok \/ answer.code \in {"internal", "invalid_cursor", "invalid_grep"}
              /\ args.grep = Bad => ~answer.ok /\ answer.code # "invalid_cursor"
              /\ (~answer.ok /\ answer.code = "invalid_grep") => args.grep = Bad
          BY <2>1, <2>2, <4>1
        <4> QED
          BY <1>2, <2>3, <3>2, <4>2 DEF ListLogs!OnlyLegalPass
      <3> QED
        BY <3>1, <3>2
    <2>4. CASE pc # "done"
      BY <1>2, <2>4 DEF LogsInv, LogsAsked, ListLogs!OnlyLegalPass
    <2> QED
      BY <2>3, <2>4
  <1> DEFINE oldest == args.end - Week
  <1>4. ASSUME ListLogs!Told
        PROVE  /\ args.start \in Int /\ args.end \in Int /\ args.start < oldest
               /\ answer.maximum = ListLogs!Printed(oldest) /\ oldest \in Int
               /\ Week \in Nat /\ Milli \in Nat
               /\ ListLogs!Printed(oldest) \in Int
               /\ ListLogs!Printed(oldest) <= oldest
               /\ oldest < ListLogs!Printed(oldest) + Milli
               /\ (oldest % Milli = 0) => (ListLogs!Printed(oldest) = oldest)
    <2>1. /\ args.start \in Int /\ args.end \in Int /\ args.end - args.start > Week
          /\ answer.maximum = ListLogs!Printed(oldest)
      BY <1>4, LogsTold
    <2>2. Week \in Nat /\ Milli \in Nat
      BY LimitsAssumption
    <2>3. oldest \in Int /\ args.start < oldest
      BY <2>1, <2>2
    <2> HIDE DEF oldest
    <2> QED
      BY <2>1, <2>2, <2>3, PrintedTime
  <1>5. ListLogs!AdviceIsWidest
    <2> SUFFICES ASSUME ListLogs!Told
                 PROVE  /\ args.start < args.end - Week
                        /\ answer.maximum <= args.end - Week
                        /\ args.end - Week < answer.maximum + Milli
                        /\ args.end % Milli = 0 => answer.maximum = args.end - Week
      BY DEF ListLogs!AdviceIsWidest
    <2>1. args.end % Milli = 0 => oldest % Milli = 0
      BY <1>4, WeeksAreWhole
    <2> QED
      BY <1>4, <2>1
  <1>6. ListLogs!AdviceAcceptedOnMillis
    <2> SUFFICES ASSUME ListLogs!Told, tries > 1, args.end % Milli = 0 PROVE FALSE
      BY DEF ListLogs!AdviceAcceptedOnMillis
    <2>1. args.start = ListLogs!Printed(oldest)
      BY DEF LogsInv, LogsAsked
    <2>2. oldest % Milli = 0
      BY <1>4, WeeksAreWhole
    <2> QED
      BY <1>4, <2>1, <2>2
  <1> QED
    BY <1>3, <1>5, <1>6

\* An answer with rows is the one that was made of the page.
LEMMA LogsAnswered ==
  ASSUME LogsInv, ListLogs!Answered
  PROVE  answer = LogAnswer /\ ListLogs!Refusal(args) = None
  <1>1. \A code : ListLogs!Refused(code).ok = FALSE
    BY DEF ListLogs!Refused
  <1> QED
    BY <1>1 DEF LogsInv, LogsAsked, ListLogs!Answered

\* The cursor lies behind the page.
LEMMA LogsCursorBehindPage ==
  ASSUME LogsInv
  PROVE  ListLogs!CursorBehindPage
  <1> SUFFICES ASSUME ListLogs!Answered
               PROVE  /\ answer.cursor # None =>
                            answer.truncated /\ (\A k \in DOMAIN given : k <= answer.cursor)
                      /\ (answer.cursor = None /\ answer.truncated) =>
                            given # << >> /\ ~given[Len(given)].cursor
    BY DEF ListLogs!CursorBehindPage
  <1>1. /\ answer.cursor = (IF more /\ given # << >> /\ given[Len(given)].cursor
                            THEN Len(given) ELSE None)
        /\ answer.truncated = more
    BY LogsAnswered DEF LogAnswer, ListLogs!NextCursor
  <1>2. given \in Seq(LogEntry) /\ more \in BOOLEAN /\ (more => given # << >>)
    BY DEF LogsInv, LogsRead
  <1>3. Len(given) \in Nat /\ DOMAIN given = 1 .. Len(given) /\ None \notin Int
    BY <1>2, NamesFacts
  <1>4. Len(given) # None /\ \A k \in DOMAIN given : k <= Len(given)
    BY <1>3
  <1> QED
    BY <1>1, <1>2, <1>4

-----------------------------------------------------------------------------
(***************************************************************************)
(* list_logs: summaries.                                                   *)
(***************************************************************************)

\* Ranked shows each key once with its count, the greatest counts first.
LEMMA RankedFacts ==
  ASSUME NEW S \in SUBSET Int, IsFiniteSet(S), NEW counts \in [S -> Nat]
  PROVE  LET list == ListLogs!Ranked(counts)
         IN  /\ list \in Seq([key : S, count : Nat])
             /\ \A k \in DOMAIN list : list[k].key \in S /\ list[k].count = counts[list[k].key]
             /\ \A key \in S : \E k \in DOMAIN list : list[k].key = key
             /\ \A j, k \in DOMAIN list : j < k => list[j].count >= list[k].count
  <1> DEFINE row(key) == [key |-> key, count |-> counts[key]]
             rows == {row(key) : key \in S}
             Above(x, y) == x.count > y.count \/ (x.count = y.count /\ x.key < y.key)
             B == [y \in rows |-> {x \in rows : Above(x, y)}]
             n == Cardinality(rows)
             list == Enumerated(B)
  <1>1. IsFiniteSet(rows)
    <2> DEFINE f == [key \in S |-> row(key)]
    <2>1. f \in Surjection(S, rows)
      BY DEF Surjection
    <2> QED
      BY <2>1, FS_Surjection
  <1>2. \A x \in rows : x.key \in S /\ x.key \in Int /\ x.count \in Nat /\ x.count = counts[x.key]
    OBVIOUS
  <1>3. \A x, y \in rows : x.key = y.key => x = y
    OBVIOUS
  <1>4. \A key \in S : row(key) \in rows /\ row(key).key = key
    OBVIOUS
  <1>4a. \A x \in rows : x \in [key : S, count : Nat]
    OBVIOUS
  <1> HIDE DEF row, rows
  <1>5. /\ B \in [rows -> SUBSET rows]
        /\ \A x, y \in rows : x \in B[y] <=> Above(x, y)
    OBVIOUS
  <1>6. \A x \in rows : x \notin B[x]
    BY <1>2, <1>5
  <1>7. \A x, y, z \in rows : (x \in B[y] /\ y \in B[z]) => x \in B[z]
    <2>1. ASSUME NEW x \in rows, NEW y \in rows, NEW z \in rows, Above(x, y), Above(y, z)
          PROVE  Above(x, z)
      <3>1. /\ x.key \in Int /\ y.key \in Int /\ z.key \in Int
            /\ x.count \in Nat /\ y.count \in Nat /\ z.count \in Nat
        BY <1>2
      <3> QED
        BY <2>1, <3>1
    <2> HIDE DEF Above, B
    <2> QED
      BY <1>5, <2>1
  <1>8. \A x, y \in rows : x \in B[y] \/ y \in B[x] \/ x = y
    <2> SUFFICES ASSUME NEW x \in rows, NEW y \in rows PROVE Above(x, y) \/ Above(y, x) \/ x = y
      BY <1>5
    <2>1. /\ x.key \in Int /\ y.key \in Int /\ x.count \in Nat /\ y.count \in Nat
      BY <1>2
    <2>2. Above(x, y) \/ Above(y, x) \/ x.key = y.key
      BY <2>1
    <2> QED
      BY <1>3, <2>2
  <1> HIDE DEF B
  <1>9. /\ n \in Nat
        /\ DOMAIN list = 1 .. n
        /\ \A k \in 1 .. n : list[k] \in rows
        /\ \A x \in rows : Cardinality(B[x]) + 1 \in 1 .. n /\ list[Cardinality(B[x]) + 1] = x
        /\ \A j, k \in 1 .. n : j < k => list[j] \in B[list[k]]
    BY <1>1, <1>5, <1>6, <1>7, <1>8, EnumeratedFacts
  <1>10. list = [k \in 1 .. n |-> list[k]]
    BY <1>9 DEF Enumerated
  <1>11. ListLogs!Ranked(counts) = list
    <2>1. ListLogs!Ranked(counts) = ListLogs!Enumerated(B)
      BY DEF ListLogs!Ranked, B, rows, row
    <2> QED
      BY <2>1, SameEnumerated
  <1> HIDE DEF list, n
  <1>12. \A k \in 1 .. n : list[k] \in [key : S, count : Nat]
    BY <1>4a, <1>9
  <1>13. list \in Seq([key : S, count : Nat])
    <2> DEFINE R == [key : S, count : Nat]
    <2>1. \A k \in 1 .. n : list[k] \in R
      BY <1>12
    <2> HIDE DEF R
    <2>2. list \in Seq(R)
      BY <1>9, <1>10, <2>1
    <2> QED
      BY <2>2 DEF R
  <1>14. \A k \in DOMAIN list : list[k].key \in S /\ list[k].count = counts[list[k].key]
    BY <1>2, <1>9
  <1>15. ASSUME NEW key \in S PROVE \E k \in DOMAIN list : list[k].key = key
    <2>1. row(key) \in rows /\ row(key).key = key
      BY <1>4
    <2>2. Cardinality(B[row(key)]) + 1 \in DOMAIN list
          /\ list[Cardinality(B[row(key)]) + 1] = row(key)
      BY <1>9, <2>1
    <2> QED
      BY <2>1, <2>2
  <1>16. ASSUME NEW j \in DOMAIN list, NEW k \in DOMAIN list, j < k
         PROVE  list[j].count >= list[k].count
    <2>1. list[j] \in rows /\ list[k] \in rows /\ list[j] \in B[list[k]]
      BY <1>9, <1>16
    <2>2. list[j].count \in Nat /\ list[k].count \in Nat /\ Above(list[j], list[k])
      BY <1>2, <1>5, <2>1
    <2> QED
      BY <2>2
  <1> QED
    BY <1>11, <1>13, <1>14, <1>15, <1>16

\* A tally counts the places of each key, and has no key but those that occur.
LEMMA LogTally ==
  ASSUME NEW T, NEW keys \in Seq(T)
  PROVE  LET S == {keys[k] : k \in DOMAIN keys} \ {None}
         IN  /\ IsFiniteSet(S)
             /\ ListLogs!Tally(keys, None) \in [S -> Nat]
             /\ \A key \in S : ListLogs!Tally(keys, None)[key] =
                                  Cardinality({k \in DOMAIN keys : keys[k] = key})
  <1> DEFINE A == {keys[k] : k \in DOMAIN keys}
             S == A \ {None}
             D == DOMAIN keys
  <1>1. IsFiniteSet(D)
    <2>1. D = 1 .. Len(keys) /\ Len(keys) \in Nat
      OBVIOUS
    <2> QED
      BY <2>1, FS_Interval
  <1>2. IsFiniteSet(S)
    <2> DEFINE f == [k \in D |-> keys[k]]
    <2>1. f \in Surjection(D, A)
      BY DEF Surjection
    <2> HIDE DEF f, A
    <2>2. IsFiniteSet(A)
      BY <1>1, <2>1, FS_Surjection
    <2>3. S \in SUBSET A
      OBVIOUS
    <2> QED
      BY <2>2, <2>3, FS_Subset
  <1>3. \A key : Cardinality({k \in D : keys[k] = key}) \in Nat
    <2> SUFFICES ASSUME NEW key PROVE Cardinality({k \in D : keys[k] = key}) \in Nat
      OBVIOUS
    <2> DEFINE C == {k \in D : keys[k] = key}
    <2>1. C \in SUBSET D
      OBVIOUS
    <2> HIDE DEF C, D
    <2>2. IsFiniteSet(C)
      BY <1>1, <2>1, FS_Subset
    <2>3. Cardinality(C) \in Nat
      BY <2>2, FS_CardinalityType
    <2> QED
      BY <2>3 DEF C
  <1>4. ListLogs!Tally(keys, None) = [key \in S |-> Cardinality({k \in D : keys[k] = key})]
    <2>1. ListLogs!ToSet(keys) = A
      BY DEF ListLogs!ToSet
    <2>2. ListLogs!Tally(keys, None) =
              [key \in S |-> ListLogs!Cardinality({k \in D : keys[k] = key})]
      BY <2>1 DEF ListLogs!Tally
    <2> QED
      BY <2>2, SameCardinality
  <1> HIDE DEF S, D
  <1>5. /\ ListLogs!Tally(keys, None) \in [S -> Nat]
        /\ \A key \in S : ListLogs!Tally(keys, None)[key] =
                             Cardinality({k \in D : keys[k] = key})
    BY ONLY <1>3, <1>4
  <1> QED
    BY <1>2, <1>5 DEF S, D

\* What is ranked of a tally: each key that occurs, once, with the number of its places.
LEMMA RankedTally ==
  ASSUME NEW keys \in Seq(Int \union {None})
  PROVE  LET S == {keys[k] : k \in DOMAIN keys} \ {None}
             Of(key) == {k \in DOMAIN keys : keys[k] = key}
             list == ListLogs!Ranked(ListLogs!Tally(keys, None))
         IN  /\ list \in Seq([key : S, count : Nat])
             /\ \A k \in DOMAIN list : /\ list[k].key \in S
                                       /\ list[k].count = Cardinality(Of(list[k].key))
             /\ \A key \in S : \E k \in DOMAIN list : list[k].key = key
             /\ \A j, k \in DOMAIN list : j < k => list[j].count >= list[k].count
  <1> DEFINE S == {keys[k] : k \in DOMAIN keys} \ {None}
             Of(key) == {k \in DOMAIN keys : keys[k] = key}
             counts == ListLogs!Tally(keys, None)
             list == ListLogs!Ranked(counts)
  <1>1. /\ IsFiniteSet(S) /\ counts \in [S -> Nat]
        /\ \A key \in S : counts[key] = Cardinality(Of(key))
    BY LogTally
  <1>2. S \in SUBSET Int
    <2>1. \A k \in DOMAIN keys : keys[k] \in Int \union {None}
      OBVIOUS
    <2> QED
      BY <2>1
  <1> HIDE DEF S, counts, Of
  <1>3. /\ list \in Seq([key : S, count : Nat])
        /\ \A k \in DOMAIN list : list[k].key \in S /\ list[k].count = counts[list[k].key]
        /\ \A key \in S : \E k \in DOMAIN list : list[k].key = key
        /\ \A j, k \in DOMAIN list : j < k => list[j].count >= list[k].count
    BY <1>1, <1>2, RankedFacts
  <1> HIDE DEF list
  <1>4. \A k \in DOMAIN list : /\ list[k].key \in S
                               /\ list[k].count = Cardinality(Of(list[k].key))
    BY <1>1, <1>3
  <1> QED
    BY <1>3, <1>4 DEF S, Of, counts, list

\* The first of what is ranked are the most frequent.
LEMMA RankedShowTop ==
  ASSUME NEW keys \in Seq(Int \union {None})
  PROVE  ListLogs!IsTopOf(Cut(ListLogs!Ranked(ListLogs!Tally(keys, None)), Top), keys)
  <1> DEFINE ranked == ListLogs!Ranked(ListLogs!Tally(keys, None))
             units == Cut(ranked, Top)
             Units == {keys[k] : k \in DOMAIN keys} \ {None}
             Of(u) == {k \in DOMAIN keys : keys[k] = u}
             Shown == {units[k].key : k \in DOMAIN units}
  <1>1. Top \in Nat
    BY LimitsAssumption
  <1>2. /\ ranked \in Seq([key : Units, count : Nat])
        /\ \A k \in DOMAIN ranked : ranked[k].key \in Units
                                    /\ ranked[k].count = Cardinality(Of(ranked[k].key))
        /\ \A u \in Units : \E k \in DOMAIN ranked : ranked[k].key = u
        /\ \A j, k \in DOMAIN ranked : j < k => ranked[j].count >= ranked[k].count
    BY RankedTally
  <1> HIDE DEF ranked
  <1>3. /\ Len(units) = (IF Len(ranked) < Top THEN Len(ranked) ELSE Top)
        /\ \A k \in 1 .. Len(units) : k \in 1 .. Len(ranked) /\ units[k] = ranked[k]
        /\ DOMAIN units = 1 .. Len(units)
        /\ DOMAIN ranked = 1 .. Len(ranked) /\ Len(ranked) \in Nat
    <2> DEFINE R == [key : Units, count : Nat]
    <2>1. ranked \in Seq(R)
      BY <1>2
    <2> HIDE DEF R
    <2>2. /\ units \in Seq(R)
          /\ Len(units) = (IF Len(ranked) < Top THEN Len(ranked) ELSE Top)
          /\ \A k \in 1 .. Len(units) : k \in 1 .. Len(ranked) /\ units[k] = ranked[k]
      BY <1>1, <2>1, CutFacts
    <2> QED
      BY <2>1, <2>2
  <1> HIDE DEF units
  <1>4. \A k \in DOMAIN units : units[k].count = ListLogs!Cardinality(Of(units[k].key))
    <2>1. \A u : ListLogs!Cardinality(Of(u)) = Cardinality(Of(u))
      BY SameCardinality
    <2> HIDE DEF Of, Units
    <2>2. \A k \in DOMAIN units : k \in DOMAIN ranked /\ units[k] = ranked[k]
      BY <1>3
    <2>3. \A k \in DOMAIN ranked : ranked[k].count = Cardinality(Of(ranked[k].key))
      BY <1>2
    <2> QED
      BY ONLY <2>1, <2>2, <2>3
  <1>5. ASSUME NEW u \in Units, u \notin Shown
        PROVE  /\ Len(units) = Top
               /\ \A k \in DOMAIN units : ListLogs!Cardinality(Of(u)) <= units[k].count
    <2>1. PICK j \in DOMAIN ranked : ranked[j].key = u
      BY <1>2
    <2>2. ~(j \in 1 .. Len(units))
      BY <1>3, <1>5, <2>1
    <2> HIDE DEF Of, Units, Shown
    <2>3. /\ j \in Nat /\ j > Len(units) /\ Len(units) \in Nat /\ j <= Len(ranked) /\ j >= 1
      BY <1>1, <1>3, <2>2
    <2>4. Len(units) = Top
      <3> DEFINE r == Len(ranked)
                 m == Len(units)
      <3>1. r \in Nat /\ Top \in Nat /\ m = (IF r < Top THEN r ELSE Top) /\ r > m
        BY <1>1, <1>3, <2>3
      <3> HIDE DEF r, m
      <3>2. m = Top
        BY <3>1
      <3> QED
        BY <3>2 DEF m
    <2>5. ASSUME NEW k \in DOMAIN units PROVE ListLogs!Cardinality(Of(u)) <= units[k].count
      <3>1. k \in DOMAIN ranked /\ units[k] = ranked[k] /\ k < j
        BY <1>3, <2>3
      <3>2. ranked[k].count >= ranked[j].count
        BY <1>2, <2>1, <3>1
      <3>3. ranked[j].count = Cardinality(Of(u))
        BY <1>2, <2>1
      <3>4. ranked[j].count \in Nat /\ ranked[k].count \in Nat
        <4> DEFINE R == [key : Units, count : Nat]
        <4>1. ranked \in Seq(R)
          BY <1>2
        <4> HIDE DEF R
        <4>2. ranked[j] \in R /\ ranked[k] \in R
          BY <2>1, <3>1, <4>1
        <4> QED
          BY <4>2 DEF R
      <3>5. ListLogs!Cardinality(Of(u)) = Cardinality(Of(u))
        BY SameCardinality
      <3> QED
        BY <3>1, <3>2, <3>3, <3>4, <3>5
    <2> QED
      BY <2>4, <2>5
  <1>6. \A u \in ListLogs!ToSet(keys) \ ({None} \union Shown) : u \in Units /\ u \notin Shown
    BY DEF ListLogs!ToSet
  <1>7. /\ \A k \in DOMAIN units : units[k].count = ListLogs!Cardinality(Of(units[k].key))
        /\ \A u \in ListLogs!ToSet(keys) \ ({None} \union Shown) :
              Len(units) = Top
                /\ (\A k \in DOMAIN units : ListLogs!Cardinality(Of(u)) <= units[k].count)
    <2> HIDE DEF Of, Units, Shown
    <2> QED
      BY <1>4, <1>5, <1>6
  <1> QED
    BY <1>7 DEF ListLogs!IsTopOf, units, ranked

\* A summary shows the most frequent units and messages of the page, and every unit that logged an error.
LEMMA LogsSummaryShowsTop ==
  ASSUME LogsInv
  PROVE  ListLogs!SummaryShowsTop
  <1> SUFFICES ASSUME ListLogs!Answered, answer.summary # None PROVE ListLogs!SummaryShowsTop
    BY DEF ListLogs!SummaryShowsTop
  <1> DEFINE D == DOMAIN given
             Errors(u) == {k \in D : given[k].unit = u /\ given[k].priority \in 0 .. 3}
             Units == {given[k].unit : k \in D} \ {None}
             keys == [k \in D |-> given[k].unit]
             texts == [k \in D |-> given[k].message]
             failing == [k \in D |-> IF ListLogs!IsError(given[k]) THEN given[k].unit ELSE None]
             priorities == [k \in D |-> ListLogs!PriorityKey(given[k])]
             units == Cut(ListLogs!Ranked(ListLogs!Tally(keys, None)), Top)
             messages == Cut(ListLogs!Ranked(ListLogs!Tally(texts, None)), Top)
             hotspots == ListLogs!Ranked(ListLogs!Tally(failing, None))
  <1>1. given \in Seq(LogEntry) /\ Top \in Nat
    BY LimitsAssumption DEF LogsInv, LogsRead
  <1>2. /\ answer.summary.units = units /\ answer.summary.messages = messages
        /\ answer.summary.hotspots = hotspots
        /\ answer.summary.priorities = ListLogs!Tally(priorities, None)
    <2>1. answer.summary = ListLogs!Summary
      <3>1. answer = LogAnswer
        BY LogsAnswered
      <3>2. LogAnswer.summary = IF args.summary = TRUE THEN ListLogs!Summary ELSE None
        BY DEF LogAnswer
      <3> QED
        BY <3>1, <3>2
    <2> DEFINE counts == ListLogs!Tally(priorities, None)
    <2>2. ListLogs!Summary = [units |-> units, messages |-> messages, priorities |-> counts,
                              hotspots |-> hotspots]
      BY DEF ListLogs!Summary, ListLogs!Truncate, Cut
    <2> HIDE DEF units, messages, counts, hotspots
    <2>3. /\ answer.summary.units = units /\ answer.summary.hotspots = hotspots
          /\ answer.summary.messages = messages /\ answer.summary.priorities = counts
      BY <2>1, <2>2
    <2> QED
      BY <2>3 DEF counts
  <1>3. D = 1 .. Len(given) /\ Len(given) \in Nat
    BY <1>1
  <1>4. \A k \in D : /\ given[k].unit \in Int \union {None}
                     /\ given[k].message \in Int \union {None}
                     /\ given[k].priority \in Nat \union {None}
    <2>1. \A k \in D : given[k] \in LogEntry
      BY <1>1
    <2> QED
      BY <2>1 DEF LogEntry
  <1>5. /\ keys \in Seq(Int \union {None}) /\ DOMAIN keys = D
        /\ \A k \in D : keys[k] = given[k].unit
    BY <1>3, <1>4
  <1>10. texts \in Seq(Int \union {None})
    BY <1>3, <1>4
  <1>6. /\ failing \in Seq(Int \union {None}) /\ DOMAIN failing = D
        /\ \A k \in D : failing[k] = IF ListLogs!IsError(given[k]) THEN given[k].unit ELSE None
    BY <1>3, <1>4
  <1>7. /\ priorities \in Seq(Int) /\ DOMAIN priorities = D
        /\ \A k \in D : priorities[k] = ListLogs!PriorityKey(given[k])
    <2>1. \A k \in D : ListLogs!PriorityKey(given[k]) \in Int
      BY <1>4 DEF ListLogs!PriorityKey
    <2> QED
      BY <1>3, <2>1
  <1>8. \A k \in D : ListLogs!IsError(given[k]) <=> given[k].priority \in 0 .. 3
    BY <1>4, NamesFacts DEF ListLogs!IsError
  <1>12. /\ ListLogs!IsTopOf(answer.summary.units, [k \in DOMAIN given |-> given[k].unit])
         /\ ListLogs!IsTopOf(answer.summary.messages, [k \in DOMAIN given |-> given[k].message])
    <2>1. ListLogs!IsTopOf(units, keys) /\ ListLogs!IsTopOf(messages, texts)
      <3> HIDE DEF keys, texts
      <3> QED
        BY <1>5, <1>10, RankedShowTop DEF units, messages
    <2> HIDE DEF units, messages
    <2> QED
      BY <1>2, <2>1
  <1> HIDE DEF D, keys, texts, failing, priorities, units, messages
  <1>9. \A p \in DOMAIN answer.summary.priorities :
           answer.summary.priorities[p] =
               ListLogs!Cardinality({k \in DOMAIN given : ListLogs!PriorityKey(given[k]) = p})
    <2> DEFINE S == {priorities[k] : k \in DOMAIN priorities} \ {None}
               C(p) == {k \in DOMAIN given : ListLogs!PriorityKey(given[k]) = p}
    <2>0. priorities \in Seq(Int)
      BY <1>7
    <2>1. /\ IsFiniteSet(S) /\ ListLogs!Tally(priorities, None) \in [S -> Nat]
          /\ \A p \in S : ListLogs!Tally(priorities, None)[p] =
                Cardinality({k \in DOMAIN priorities : priorities[k] = p})
      BY <2>0, LogTally
    <2>2. \A p : {k \in DOMAIN priorities : priorities[k] = p} = C(p)
      BY <1>7 DEF D
    <2>3. \A p : Cardinality(C(p)) = ListLogs!Cardinality(C(p))
      BY SameCardinality
    <2> HIDE DEF S, C
    <2>4. \A p \in DOMAIN ListLogs!Tally(priorities, None) :
             ListLogs!Tally(priorities, None)[p] = ListLogs!Cardinality(C(p))
      BY <2>1, <2>2, <2>3
    <2> QED
      BY <1>2, <2>4 DEF C
  <1>11. /\ \A k \in DOMAIN hotspots : /\ hotspots[k].key \in {u \in Units : Errors(u) # {}}
                                       /\ hotspots[k].count = Cardinality(Errors(hotspots[k].key))
         /\ \A u \in Units : Errors(u) # {} => \E k \in DOMAIN hotspots : hotspots[k].key = u
    <2> DEFINE S == {failing[k] : k \in DOMAIN failing} \ {None}
               C(key) == {k \in DOMAIN failing : failing[k] = key}
    <2>1. /\ \A k \in DOMAIN hotspots : /\ hotspots[k].key \in S
                                        /\ hotspots[k].count = Cardinality(C(hotspots[k].key))
          /\ \A key \in S : \E k \in DOMAIN hotspots : hotspots[k].key = key
      BY <1>6, RankedTally
    <2>2. \A u : u # None => C(u) = Errors(u)
      BY <1>6, <1>8
    <2>3. \A u : u \in S <=> (u \in Units /\ Errors(u) # {})
      BY <1>6, <1>8
    <2>4. \A u \in S : u # None
      OBVIOUS
    <2> HIDE DEF S, C, Units, Errors, hotspots
    <2> QED
      BY <2>1, <2>2, <2>3, <2>4
  <1>15. {hotspots[k].key : k \in DOMAIN hotspots} = {u \in Units : Errors(u) # {}}
    <2> HIDE DEF hotspots, Units, Errors
    <2> QED
      BY <1>11
  <1>16. \A k \in DOMAIN hotspots :
            hotspots[k].count = ListLogs!Cardinality(Errors(hotspots[k].key))
    <2>1. \A u : ListLogs!Cardinality(Errors(u)) = Cardinality(Errors(u))
      BY SameCardinality
    <2> HIDE DEF hotspots, Errors
    <2> QED
      BY <1>11, <2>1
  <1> DEFINE H == answer.summary.hotspots
  <1>18. /\ {H[k].key : k \in DOMAIN H} = {u \in Units : Errors(u) # {}}
         /\ \A k \in DOMAIN H : H[k].count = ListLogs!Cardinality(Errors(H[k].key))
    <2>1. H = hotspots
      BY <1>2
    <2> HIDE DEF H, hotspots, Units, Errors
    <2> QED
      BY <1>15, <1>16, <2>1
  <1> QED
    BY <1>9, <1>12, <1>18 DEF ListLogs!SummaryShowsTop, D

-----------------------------------------------------------------------------
(***************************************************************************)
(* get_container_status.                                                   *)
(***************************************************************************)

\* How far the command line has been gone through.  The next argument is replaced exactly when
\* the last one is a flag that was itself looked at, and not replaced.
ArgvInv ==
    /\ given \in Seq(Arguments)
    /\ pc = "received" => (out = << >> /\ redactNext = FALSE)
    /\ out \in Seq({None, Redacted} \union {Argv!Shown(a) : a \in Arguments \ {None}})
    /\ redactNext \in BOOLEAN
    /\ Len(out) <= Len(given)
    /\ \A i \in DOMAIN out :
          \/ out[i] = None /\ given[i] = None
          \/ given[i] # None /\ out[i] \in {Redacted, Argv!Shown(given[i])}
    /\ redactNext =>
          (/\ out # << >> /\ given[Len(out)] # None /\ Argv!IsFlag(given[Len(out)]))
    /\ (/\ out # << >> /\ out[Len(out)] \notin {None, Redacted}
        /\ Argv!IsFlag(given[Len(out)])) => redactNext
    /\ Argv!ValuesHidden
    /\ Argv!SafeKept

\* What is shown of an argument is a flag only if that is one, never shows the value assigned
\* to a sensitive name, and is the argument itself if nothing about it is sensitive.
LEMMA ShownFacts ==
  ASSUME NEW a \in Arguments, a # None, Argv!Shown(a) \notin {None, Redacted}
  PROVE  /\ (Argv!Shown(a).value # None /\ Argv!Shown(a).named) => (Argv!Shown(a).value = Redacted)
         /\ Argv!IsFlag(Argv!Shown(a)) => Argv!IsFlag(a)
  <1>1. a \in [dash : BOOLEAN, space : BOOLEAN, named : BOOLEAN, value : {None, "plain", "word"}]
    BY RowsAssumption
  <1>2. None # Redacted
    BY NamesFacts
  <1>3. CASE Argv!Assigns(a)
    <2>1. /\ Argv!Shown(a).value = Redacted /\ Argv!Shown(a).named
      BY <1>1, <1>3 DEF Argv!Shown, Argv!Assigns
    <2> QED
      BY <1>2, <2>1 DEF Argv!IsFlag, Argv!Assigns
  <1>4. CASE ~Argv!Assigns(a)
    <2>1. Argv!Shown(a) = a
      BY <1>4 DEF Argv!Shown
    <2> QED
      BY <1>4, <2>1 DEF Argv!Assigns
  <1> QED
    BY <1>3, <1>4

\* Every argument that is gone through keeps it.
LEMMA ArgvStep ==
  ASSUME ArgvInv, Argv!Step, pc # "received", pc' = pc
  PROVE  ArgvInv'
  <1> DEFINE n == Len(out)
             arg == given[n + 1]
             x == IF arg = None THEN None ELSE IF redactNext THEN Redacted ELSE Argv!Shown(arg)
             T == {None, Redacted} \union {Argv!Shown(a) : a \in Arguments \ {None}}
  <1>1. /\ n < Len(given) /\ given' = given /\ out' = Append(out, x)
        /\ redactNext' = (arg # None /\ ~redactNext /\ Argv!IsFlag(arg))
    BY DEF Argv!Step, ArgvInv
  <1>2. /\ given \in Seq(Arguments) /\ out \in Seq(T) /\ redactNext \in BOOLEAN
        /\ Len(given) \in Nat /\ n \in Nat /\ n + 1 \in DOMAIN given
    <2>1. given \in Seq(Arguments) /\ out \in Seq(T) /\ redactNext \in BOOLEAN
      BY DEF ArgvInv
    <2> HIDE DEF T
    <2> QED
      BY <1>1, <2>1
  <1>3. arg \in Arguments
    BY <1>2
  <1>4. x \in T
    BY <1>3
  <1> HIDE DEF T
  <1>5. /\ out' \in Seq(T) /\ Len(out') = n + 1 /\ DOMAIN out' = 1 .. (n + 1)
        /\ DOMAIN out = 1 .. n
        /\ \A i \in 1 .. n : out'[i] = out[i]
        /\ out'[n + 1] = x
    <2> HIDE DEF x
    <2> QED
      BY <1>1, <1>2, <1>4
  <1>6. redactNext' \in BOOLEAN
    BY <1>1
  <1>7. \A i \in DOMAIN out' :
          \/ out'[i] = None /\ given[i] = None
          \/ given[i] # None /\ out'[i] \in {Redacted, Argv!Shown(given[i])}
    <2>1. \A i \in DOMAIN out :
          \/ out[i] = None /\ given[i] = None
          \/ given[i] # None /\ out[i] \in {Redacted, Argv!Shown(given[i])}
      BY DEF ArgvInv
    <2>2. \/ x = None /\ arg = None
          \/ arg # None /\ x \in {Redacted, Argv!Shown(arg)}
      OBVIOUS
    <2> HIDE DEF x
    <2> QED
      BY <1>2, <1>5, <2>1, <2>2
  <1>8. redactNext' => (arg # None /\ Argv!IsFlag(arg))
    BY <1>1
  <1>9. (x \notin {None, Redacted} /\ Argv!IsFlag(arg)) => redactNext'
    BY <1>1
  <1>10. \A i \in DOMAIN out' :
          (out'[i] \notin {None, Redacted}) =>
            /\ (out'[i].value # None /\ out'[i].named) => (out'[i].value = Redacted)
            /\ (Argv!IsFlag(out'[i]) /\ i < Len(out')) => (out'[i + 1] \in {None, Redacted})
    <2> SUFFICES ASSUME NEW i \in DOMAIN out', out'[i] \notin {None, Redacted}
                 PROVE  /\ (out'[i].value # None /\ out'[i].named) => (out'[i].value = Redacted)
                        /\ (Argv!IsFlag(out'[i]) /\ i < Len(out')) =>
                                (out'[i + 1] \in {None, Redacted})
      OBVIOUS
    <2>1. i \in 1 .. (n + 1)
      BY <1>5
    <2>2. i \in DOMAIN given /\ given[i] \in Arguments
      BY <1>1, <1>2, <2>1
    <2>3. given[i] # None /\ out'[i] = Argv!Shown(given[i])
      BY <1>7, NamesFacts
    <2>4. /\ (out'[i].value # None /\ out'[i].named) => (out'[i].value = Redacted)
          /\ Argv!IsFlag(out'[i]) => Argv!IsFlag(given[i])
      BY <2>2, <2>3, ShownFacts
    <2>5. ASSUME Argv!IsFlag(out'[i]), i < Len(out') PROVE out'[i + 1] \in {None, Redacted}
      <3>1. i \in 1 .. n /\ out'[i] = out[i]
        BY <1>2, <1>5, <2>1, <2>5
      <3>2. CASE i < n
        <4>1. i + 1 \in 1 .. n
          BY <1>2, <3>1, <3>2
        <4>2. out[i + 1] \in {None, Redacted}
          BY <1>5, <2>5, <3>1, <3>2 DEF ArgvInv, Argv!ValuesHidden
        <4> QED
          BY <1>5, <4>1, <4>2
      <3>3. CASE i = n
        <4>1. out # << >> /\ out[Len(out)] \notin {None, Redacted} /\ Argv!IsFlag(given[Len(out)])
          BY <1>2, <2>4, <2>5, <3>1, <3>3
        <4>2. redactNext
          BY <4>1 DEF ArgvInv
        <4> QED
          BY <1>5, <3>3, <4>2
      <3> QED
        BY <1>2, <3>1, <3>2, <3>3
    <2> QED
      BY <2>4, <2>5
  <1>11. \A i \in DOMAIN out' :
           (/\ given[i] # None
            /\ ~Argv!Sensitive(given[i])
            /\ (i = 1) \/ (given[i - 1] = None) \/ ~Argv!IsFlag(given[i - 1]))
           => (out'[i] = given[i])
    <2> SUFFICES ASSUME NEW i \in 1 .. (n + 1), given[i] # None, ~Argv!Sensitive(given[i]),
                        (i = 1) \/ (given[i - 1] = None) \/ ~Argv!IsFlag(given[i - 1])
                 PROVE  out'[i] = given[i]
      BY <1>5
    <2>1. CASE i \in 1 .. n
      <3>1. out[i] = given[i]
        BY <1>5, <2>1 DEF ArgvInv, Argv!SafeKept
      <3> QED
        BY <1>5, <2>1, <3>1
    <2>2. CASE i = n + 1
      <3>1. ~redactNext
        <4> SUFFICES ASSUME redactNext PROVE FALSE
          OBVIOUS
        <4>1. out # << >> /\ given[n] # None /\ Argv!IsFlag(given[n])
          BY DEF ArgvInv
        <4>2. n # 0 /\ i - 1 = n
          BY <1>2, <2>2, <4>1
        <4> QED
          BY <1>2, <2>2, <4>1, <4>2
      <3>2. Argv!Shown(arg) = arg
        BY <2>2 DEF Argv!Shown, Argv!Assigns, Argv!Sensitive
      <3> QED
        BY <1>5, <2>2, <3>1, <3>2
    <2> QED
      BY <1>2, <2>1, <2>2
  <1>12. Len(out') <= Len(given) /\ out' # << >>
    BY <1>1, <1>2, <1>5
  <1>13. /\ Argv!ValuesHidden'
         /\ Argv!SafeKept'
    <2>1. Argv!ValuesHidden'
      BY <1>10 DEF Argv!ValuesHidden, Argv!IsFlag, Argv!Sensitive, Argv!Assigns
    <2>2. Argv!SafeKept'
      BY <1>1, <1>11 DEF Argv!SafeKept, Argv!IsFlag, Argv!Sensitive, Argv!Assigns
    <2> QED
      BY <2>1, <2>2
  <1>14. \A i \in DOMAIN out' :
          \/ out'[i] = None /\ given'[i] = None
          \/ given'[i] # None /\ out'[i] \in {Redacted, Argv!Shown(given'[i])}
    BY <1>1, <1>7
  <1>15. redactNext' =>
          (/\ out' # << >> /\ given'[Len(out')] # None /\ Argv!IsFlag(given'[Len(out')]))
    BY <1>1, <1>5, <1>8, <1>12
  <1>16. (/\ out' # << >> /\ out'[Len(out')] \notin {None, Redacted}
          /\ Argv!IsFlag(given'[Len(out')])) => redactNext'
    BY <1>1, <1>5, <1>9
  <1> HIDE DEF x
  <1> QED
    BY <1>1, <1>2, <1>5, <1>6, <1>12, <1>13, <1>14, <1>15, <1>16
    DEF ArgvInv, T, Argv!Shown, Argv!IsFlag, Argv!Sensitive, Argv!Assigns

\* Nothing changes as long as nothing is gone through.
LEMMA ArgvStays ==
  ASSUME ArgvInv, UNCHANGED << given, out, redactNext >>, pc' # "received" \/ pc' = pc
  PROVE  ArgvInv'
  <1>1. Argv!ValuesHidden'
    BY DEF ArgvInv, Argv!ValuesHidden, Argv!IsFlag, Argv!Sensitive, Argv!Assigns
  <1>2. Argv!SafeKept'
    BY DEF ArgvInv, Argv!SafeKept, Argv!IsFlag, Argv!Sensitive, Argv!Assigns
  <1> QED
    BY <1>1, <1>2 DEF ArgvInv, Argv!IsFlag, Argv!Sensitive, Argv!Assigns, Argv!Shown

\* Before the first argument there is nothing to hide.
LEMMA ArgvBegins ==
  (given \in Seq(Arguments) /\ out = << >> /\ redactNext = FALSE) => ArgvInv
  <1> SUFFICES ASSUME given \in Seq(Arguments), out = << >>, redactNext = FALSE
               PROVE  ArgvInv
    OBVIOUS
  <1>1. DOMAIN out = {} /\ Len(out) <= Len(given)
    OBVIOUS
  <1>2. out \in Seq({None, Redacted} \union {Argv!Shown(a) : a \in Arguments \ {None}})
    OBVIOUS
  <1>3. Argv!ValuesHidden /\ Argv!SafeKept
    BY <1>1 DEF Argv!ValuesHidden, Argv!SafeKept
  <1>4. \A i \in DOMAIN out :
           \/ out[i] = None /\ given[i] = None
           \/ given[i] # None /\ out[i] \in {Redacted, Argv!Shown(given[i])}
    BY <1>1
  <1>5. redactNext \in BOOLEAN /\ ~redactNext /\ ~(out # << >>)
    OBVIOUS
  <1> QED
    BY ONLY <1>1, <1>2, <1>3, <1>4, <1>5, given \in Seq(Arguments), out = << >>,
       redactNext = FALSE, Zenon DEF ArgvInv

-----------------------------------------------------------------------------
(***************************************************************************)
(* The tools together.                                                     *)
(***************************************************************************)

\* One part for each tool: a call of it keeps that part, and no other one says anything of it.
IInv ==
    /\ tool \in {"list_services", "list_timers", "list_logs", "get_container_status", "unknown"}
    /\ (tool = "list_services") => ServicesInv
    /\ (tool = "list_timers") => TimersInv
    /\ (tool = "list_logs") => LogsInv
    /\ (tool = "get_container_status") => ArgvInv

\* A call begins with it.
LEMMA InitInvariant ==
  ASSUME Init
  PROVE  IInv
  <1>1. /\ tries = 1 /\ more = FALSE /\ done = 0 /\ groups = << >>
        /\ out = << >> /\ redactNext = FALSE
    BY DEF Init, Argv!Init
  <1>2. CASE tool = "list_services"
    <2>1. args \in ServiceCalls /\ pc = "received" /\ given = << >> /\ answer = None
      BY <1>2 DEF Init, ListServices!Init
    <2> QED
      BY <1>2, <2>1 DEF IInv, ServicesInv
  <1>3. CASE tool = "list_timers"
    <2>1. args \in TimerCalls /\ pc = "received" /\ given = << >> /\ answer = None
      BY <1>3 DEF Init, ListTimers!Init
    <2> QED
      BY <1>3, <2>1 DEF IInv, TimersInv
  <1>4. CASE tool = "list_logs"
    <2>1. args \in LogCalls /\ pc = "received" /\ given = << >> /\ answer = None
      BY <1>4 DEF Init, ListLogs!Init
    <2>2. LogArgs(args)
      BY <2>1, CallsAssumption DEF LogArgs
    <2>3. LogsAsked
      BY <1>1, <2>1, <2>2 DEF LogsAsked
    <2>4. ListLogs!GroupsPartition
      BY <1>1, NothingIsPartitioned
    <2>5. given \in Seq(LogEntry) /\ groups \in Seq(LogGroup) /\ Len(given) = 0
      BY <1>1, <2>1
    <2>6. more \in BOOLEAN
      BY ONLY <1>1, Zenon
    <2>7. done \in 0 .. Len(given)
      BY ONLY <1>1, <2>5
    <2>8. LogsRead
      BY <1>1, <2>7, <2>1, <2>4, <2>5, <2>6 DEF LogsRead
    <2> QED
      BY <1>4, <2>3, <2>8 DEF IInv, LogsInv
  <1>5. CASE tool = "get_container_status"
    <2>1. given \in Seq(Arguments)
      BY <1>5 DEF Init
    <2> QED
      BY <1>1, <1>5, <2>1, ArgvBegins DEF IInv
  <1>6. CASE tool = "unknown"
    BY <1>6 DEF IInv
  <1> QED
    BY <1>2, <1>3, <1>4, <1>5, <1>6 DEF Init

\* Every step of its tool keeps it.
LEMMA NextInvariant ==
  ASSUME IInv, [Next]_vars
  PROVE  IInv'
  <1>1. tool' = tool
    BY DEF Next, NotFound, Inspect, Sanitize, Present, Rest, vars
  <1>2. CASE tool = "list_services"
    <2>1. ListServices!Next \/ UNCHANGED ListServices!vars
      BY <1>2 DEF Next, NotFound, Inspect, Sanitize, Present, Rest, vars, ListServices!vars
    <2>2. ServicesInv'
      BY <1>2, <2>1, ServicesStep DEF IInv
    <2> QED
      BY <1>1, <1>2, <2>2 DEF IInv
  <1>3. CASE tool = "list_timers"
    <2>1. ListTimers!Next \/ UNCHANGED ListTimers!vars
      BY <1>3 DEF Next, NotFound, Inspect, Sanitize, Present, Rest, vars, ListTimers!vars
    <2>2. TimersInv'
      BY <1>3, <2>1, TimersStep DEF IInv
    <2> QED
      BY <1>1, <1>3, <2>2 DEF IInv
  <1>4. CASE tool = "list_logs"
    <2>1. ListLogs!Next \/ UNCHANGED ListLogs!vars
      BY <1>4 DEF Next, NotFound, Inspect, Sanitize, Present, Rest, vars, logs, ListLogs!vars,
         ListLogs!call, ListLogs!page
    <2>2. LogsInv'
      BY <1>4, <2>1, LogsAskedStep, LogsReadStep DEF IInv, LogsInv
    <2> QED
      BY <1>1, <1>4, <2>2 DEF IInv
  <1>5. CASE tool = "get_container_status"
    <2>1. ArgvInv
      BY <1>5 DEF IInv
    <2>2. CASE Inspect
      <3>1. (out = << >>)' /\ (redactNext = FALSE)'
        BY <2>1, <2>2 DEF Inspect, ArgvInv, argv
      <3>2. (given \in Seq(Arguments))'
        <4>1. given \in Seq(Arguments)
          BY <2>1 DEF ArgvInv
        <4>2. given' = given \/ \E n \in 0 .. MaxLength : given' \in [1 .. n -> Arguments]
          BY <2>2 DEF Inspect, Argv!Arrays
        <4> QED
          BY <4>1, <4>2
      <3>3. ArgvInv'
        BY <3>1, <3>2, ArgvBegins, PTL
      <3> QED
        BY <1>1, <1>5, <3>3 DEF IInv
    <2>3. CASE Sanitize
      <3>1. Argv!Step /\ pc # "received" /\ pc' = pc
        BY <2>3 DEF Sanitize
      <3>2. ArgvInv'
        BY <2>1, <3>1, ArgvStep
      <3> QED
        BY <1>1, <1>5, <3>2 DEF IInv
    <2>4. CASE Present \/ Rest \/ UNCHANGED vars
      <3>1. UNCHANGED << given, out, redactNext >> /\ (pc' # "received" \/ pc' = pc)
        BY <2>4 DEF Present, Rest, vars, argv
      <3>2. ArgvInv'
        BY <2>1, <3>1, ArgvStays
      <3> QED
        BY <1>1, <1>5, <3>2 DEF IInv
    <2> QED
      BY <1>5, <2>2, <2>3, <2>4 DEF Next, NotFound
  <1>6. CASE tool = "unknown"
    BY <1>1, <1>6 DEF IInv
  <1> QED
    BY <1>2, <1>3, <1>4, <1>5, <1>6 DEF IInv

\* It is invariant.
LEMMA Invariance == Spec => []IInv
  <1>1. Init => IInv
    BY InitInvariant
  <1>2. IInv /\ [Next]_vars => IInv'
    BY NextInvariant
  <1> QED
    BY <1>1, <1>2, PTL DEF Spec

\* Pages: what list_services and list_timers show is the beginning, in the order asked for, of
\* all rows that match, which are counted before the limit; list_timers tells times apart in
\* whole seconds from now (sort_timer_items).
THEOREM PagesAreFirst == Spec => []PageIsFirst
  <1>1. IInv => PageIsFirst
    BY ServicesPageIsFirst, TimersPageIsFirst DEF IInv, PageIsFirst
  <1> QED
    BY <1>1, Invariance, PTL

\* Summaries: those of the list tools describe the page they come with, leave out nothing more
\* urgent, by a second or more, or frequent than what they show, and call a timer overdue by
\* the documented rule.
THEOREM SummariesAreTrue == Spec => []SummaryIsTrue
  <1>1. IInv => SummaryIsTrue
    BY ServicesSummaryOfPage, TimersSummaryOfPage, TimersOverdueByTheRule, LogsSummaryShowsTop
    DEF IInv, SummaryIsTrue
  <1> QED
    BY <1>1, Invariance, PTL

\* Refusals: a call of a list tool is refused exactly when one of its arguments is not
\* acceptable, and what a client is told of an oversized window is the widest one that is.
THEOREM RefusalsHaveCause == Spec => []RefusedForCause
  <1>1. IInv => RefusedForCause
    BY ServicesRefusedForCause, TimersRefusedForCause, LogsRefusedForCause
    DEF IInv, RefusedForCause
  <1> QED
    BY <1>1, Invariance, PTL

\* Groups: those of list_logs are a partition of the entries, and the cursor lies behind them.
THEOREM GroupsArePartition == Spec => []GroupsPartition
  <1>1. IInv => GroupsPartition
    BY LogsCursorBehindPage DEF IInv, LogsInv, LogsRead, GroupsPartition
  <1> QED
    BY <1>1, Invariance, PTL

\* Command lines: of a container's no value of a sensitive flag or name is shown, and every
\* argument that is neither sensitive nor such a value is, as it is.
THEOREM ValuesStayHidden == Spec => []ValuesHidden
  <1>1. IInv => ValuesHidden
    BY DEF IInv, ArgvInv, ValuesHidden
  <1> QED
    BY <1>1, Invariance, PTL

=============================================================================
