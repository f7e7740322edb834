------------------------- MODULE UnitInspectionProofs -------------------------
(***************************************************************************)
(* Proofs about UnitInspection for every unit, journal and limit: what may *)
(* fail costs its part of the answer only (PartsFailAlone), dependencies   *)
(* are judged rightly (DependenciesJudged), and the transitions are the    *)
(* newest of the unit's name, its own among them (NewestTransitions).      *)
(*                                                                         *)
(* Units change under the handler, so that nothing is claimed of what they *)
(* are: the invariant relates what was read to seen, the states a unit has *)
(* had, which only grows.  The walk of the journal is held by counting:    *)
(* the transitions found so far are those between at and start, each at    *)
(* the place of its entry counted from the newest.                         *)
(***************************************************************************)
EXTENDS UnitInspection, SequenceTheorems, FiniteSetTheorems, TLAPS

-----------------------------------------------------------------------------
(***************************************************************************)
(* The inductive invariant.                                                *)
(***************************************************************************)

Steps == {"received", "list", "lookup", "requires", "wants", "rows", "results", "journal", "done"}
Known == States \union {None}

DependentRows ==
    [unit : Dependencies, relation : Relations, state : States,
     result : {"active", "failed", "inactive", None}]

\* The shape of the state.
TypeOK ==
    /\ pc \in Steps
    /\ depends \in [Relations -> SUBSET Dependencies]
    /\ named \in [Relations -> SUBSET Dependencies]
    /\ live \in [Units -> Known]
    /\ seen \in [Units -> SUBSET Known]
    /\ journal \in Seq(Entries)
    /\ at \in Nat /\ start \in Nat /\ scanned \in Nat
    /\ transitions \in Seq(Entries)

\* A unit has been seen as it is.
Witnessed == \A n \in Units : live[n] \in seen[n]

\* A request that got past its arguments, and one that is answered with what was found.
Accepted == pc \notin {"received", "done"} \/ (answer # None /\ answer.ok)
Found == answer # None /\ answer.ok
Past == pc = "journal" \/ Found

\* What the handler has when.
Staged ==
    /\ (pc # "done") => (answer = None)
    /\ (pc \in {"received", "list"}) => (row = None)
    /\ Accepted => (Limit \in 1 .. MaxLimit)
    /\ Found => /\ answer.dependents = dependents
                /\ (<< "journal" >> \notin failed) => (answer.transitions = transitions)

\* The names read are dependencies, and all of them unless a read failed.
Read(r) == named[r] = depends[r] \/ << r >> \in failed

Named ==
    /\ \A r \in Relations : named[r] \subseteq depends[r]
    /\ (pc \in {"wants", "rows", "results"}) => Read("requires")
    /\ (pc \in {"rows", "results"}) => Read("wants")
    /\ Past => (<< "rows" >> \in failed \/ (Read("requires") /\ Read("wants")))

\* The dependents are those that failed by the second listing, in order, and each result
\* that was asked for is there, or was not to be had.
Listed ==
    /\ rows \in [Units -> Known]
    /\ \A n \in Units : rows[n] \in seen[n]
    /\ dependents \in Seq(DependentRows)
    /\ \A k \in 1 .. Len(dependents) :
          << dependents[k].unit, dependents[k].relation >> \in Failing(rows)
    /\ \A d \in Failing(rows) :
          \E k \in 1 .. Len(dependents) : dependents[k].unit = d[1] /\ dependents[k].relation = d[2]
    /\ \A j, k \in 1 .. Len(dependents) : j < k => Precedes(dependents[j], dependents[k])
    /\ checked \in 0 .. Len(dependents)
    /\ \A k \in 1 .. checked :
          (dependents[k].unit \in Services /\ dependents[k].result = None) =>
              \/ None \in seen[dependents[k].unit]
              \/ << "result", dependents[k].unit >> \in failed

Judged ==
    /\ (pc \in {"received", "list", "lookup", "requires", "wants", "rows"}) =>
          (dependents = << >> /\ checked = 0)
    /\ (pc = "results") => Listed
    /\ Past => \/ << "rows" >> \in failed /\ dependents = << >>
               \/ Listed /\ checked = Len(dependents)

\* The transitions of the journal from an entry to the one the walk began at.
IsOf(entry) == entry.kind # None /\ entry.unit = Target
Between(oldest) == {k \in oldest .. start : IsOf(journal[k])}

\* The walk has found those it went past, and no more than it may.
Gathered ==
    /\ at = start - scanned + 1 /\ at >= 1 /\ start <= Len(journal)
    /\ Len(transitions) = Cardinality(Between(at))
    /\ \A k \in Between(at) : transitions[Cardinality(Between(k))] = journal[k]

Walked ==
    /\ (pc \notin {"journal", "done"}) => (scanned = 0)
    /\ scanned <= MaxScan
    /\ (scanned = 0) => (start = 0 /\ transitions = << >>)
    /\ (scanned > 0) => Gathered
    /\ Past => (Len(transitions) <= Limit)
    /\ (Found /\ << "journal" >> \notin failed) =>
          \/ Len(transitions) >= Limit \/ scanned >= MaxScan
          \/ (scanned > 0 /\ at = 1) \/ scanned = 0

IInv == TypeOK /\ Witnessed /\ Staged /\ Named /\ Judged /\ Walked /\ PartsFailAlone

-----------------------------------------------------------------------------
(***************************************************************************)
(* The order of the dependents.                                            *)
(***************************************************************************)

\* By unit and relationship, rows that differ in one of them are in a strict total order.
LEMMA PrecedesFacts ==
  ASSUME NEW S \in SUBSET DependentRows,
         \A x, y \in S : (x.unit = y.unit /\ x.relation = y.relation) => x = y
  PROVE  /\ \A x \in S : ~Precedes(x, x)
         /\ \A x, y, z \in S : (Precedes(x, y) /\ Precedes(y, z)) => Precedes(x, z)
         /\ \A x, y \in S : Precedes(x, y) \/ Precedes(y, x) \/ x = y
  <1>1. \A x \in S : x.unit \in Int /\ x.relation \in {"requires", "wants"}
    BY DependenciesAssumption DEF DependentRows, Relations
  <1>2. \A x \in S : ~Precedes(x, x)
    BY <1>1 DEF Precedes
  <1>3. \A x, y, z \in S : (Precedes(x, y) /\ Precedes(y, z)) => Precedes(x, z)
    BY <1>1 DEF Precedes
  <1>4. \A x, y \in S : Precedes(x, y) \/ Precedes(y, x) \/ x = y
    BY <1>1 DEF Precedes
  <1> QED
    BY <1>2, <1>3, <1>4

\* Arranged puts each of such rows at the place of its rank, and none is left out.
LEMMA ArrangedFacts ==
  ASSUME NEW S \in SUBSET DependentRows, IsFiniteSet(S),
         \A x, y \in S : (x.unit = y.unit /\ x.relation = y.relation) => x = y
  PROVE  LET list == Arranged(S, Precedes)
         IN  /\ list \in Seq(S)
             /\ \A x \in S : \E k \in 1 .. Len(list) : list[k] = x
             /\ \A j, k \in 1 .. Len(list) : j < k => Precedes(list[j], list[k])
  <1> DEFINE n == Cardinality(S)
             Below(x) == {y \in S : Precedes(y, x)}
             list == Arranged(S, Precedes)
  <1>1. /\ \A x \in S : ~Precedes(x, x)
        /\ \A x, y, z \in S : (Precedes(x, y) /\ Precedes(y, z)) => Precedes(x, z)
        /\ \A x, y \in S : Precedes(x, y) \/ Precedes(y, x) \/ x = y
    BY PrecedesFacts
  <1>2. n \in Nat
    BY FS_CardinalityType
  <1>3. \A x \in S : Cardinality(Below(x)) \in 0 .. (n - 1)
    <2> SUFFICES ASSUME NEW x \in S PROVE Cardinality(Below(x)) \in 0 .. (n - 1)
      OBVIOUS
    <2>1. Below(x) \in SUBSET S /\ Below(x) # S
      BY <1>1
    <2>2. Cardinality(Below(x)) \in Nat /\ Cardinality(Below(x)) <= n /\ Cardinality(Below(x)) # n
      BY <2>1, FS_Subset, FS_CardinalityType
    <2> QED
      BY <1>2, <2>2
  <1>4. \A x, y \in S : Precedes(x, y) => Cardinality(Below(x)) < Cardinality(Below(y))
    <2> SUFFICES ASSUME NEW x \in S, NEW y \in S, Precedes(x, y)
                 PROVE  Cardinality(Below(x)) < Cardinality(Below(y))
      OBVIOUS
    <2>1. Below(x) \in SUBSET Below(y) /\ Below(x) # Below(y)
      BY <1>1
    <2>2. IsFiniteSet(Below(y))
      <3>1. Below(y) \in SUBSET S
        OBVIOUS
      <3> QED
        BY <3>1, FS_Subset
    <2>3. Cardinality(Below(x)) <= Cardinality(Below(y)) /\ Cardinality(Below(x)) # Cardinality(Below(y))
      BY <2>1, <2>2, FS_Subset
    <2> HIDE DEF Below
    <2> QED
      BY <1>2, <1>3, <2>3
  <1>5. \A k \in 1 .. n : \E x \in S : Cardinality(Below(x)) = k - 1
    <2> DEFINE rank == [x \in S |-> Cardinality(Below(x)) + 1]
    <2>1. rank \in [S -> 1 .. n]
      BY <1>2, <1>3
    <2>2. ASSUME NEW x \in S, NEW y \in S, rank[x] = rank[y] PROVE x = y
      <3>1. /\ Cardinality(Below(x)) \in Int /\ Cardinality(Below(y)) \in Int
            /\ Cardinality(Below(x)) + 1 = Cardinality(Below(y)) + 1
        BY <1>2, <1>3, <2>2
      <3>2. Cardinality(Below(x)) = Cardinality(Below(y))
        BY <3>1
      <3>3. ~Precedes(x, y) /\ ~Precedes(y, x)
        BY <1>4, <3>1, <3>2
      <3> QED
        BY <1>1, <3>3
    <2>3. rank \in Injection(S, 1 .. n)
      BY <2>1, <2>2 DEF Injection, IsInjective
    <2>4. IsFiniteSet(1 .. n) /\ Cardinality(1 .. n) = n
      BY <1>2, FS_Interval
    <2>5. rank \in Surjection(S, 1 .. n)
      BY <2>3, <2>4, FS_Injection
    <2>6. \A k \in 1 .. n : \E x \in S : rank[x] = k
      BY <2>5 DEF Surjection
    <2> HIDE DEF Below
    <2>7. \A x \in S : rank[x] = Cardinality(Below(x)) + 1
      OBVIOUS
    <2> HIDE DEF rank
    <2> QED
      BY <1>2, <1>3, <2>6, <2>7
  <1>6. list = [k \in 1 .. n |-> CHOOSE x \in S : Cardinality(Below(x)) = k - 1]
    BY DEF Arranged
  <1> HIDE DEF list, Below
  <1>7. \A k \in 1 .. n : list[k] \in S /\ Cardinality(Below(list[k])) = k - 1
    BY <1>5, <1>6
  <1>8. list \in Seq(S) /\ Len(list) = n
    <2>1. list \in [1 .. n -> S]
      BY <1>6, <1>7
    <2> QED
      BY <1>2, <2>1
  <1>9. ASSUME NEW x \in S PROVE \E k \in 1 .. n : list[k] = x
    <2>1. Cardinality(Below(x)) + 1 \in 1 .. n
      BY <1>2, <1>3
    <2>2. PICK k \in 1 .. n : k = Cardinality(Below(x)) + 1
      BY <2>1
    <2>3. list[k] \in S /\ Cardinality(Below(list[k])) = Cardinality(Below(x))
      BY <1>3, <1>7, <2>2
    <2>4. list[k] = x
      BY <1>1, <1>3, <1>4, <2>3
    <2> QED
      BY <2>4
  <1>10. ASSUME NEW j \in 1 .. n, NEW k \in 1 .. n, j < k PROVE Precedes(list[j], list[k])
    <2>1. Cardinality(Below(list[j])) < Cardinality(Below(list[k]))
      BY <1>2, <1>7, <1>10
    <2>2. list[j] \in S /\ list[k] \in S
      BY <1>7
    <2>3. /\ Cardinality(Below(list[j])) \in Int /\ Cardinality(Below(list[k])) \in Int
          /\ ~Precedes(list[k], list[j]) /\ list[j] # list[k]
      BY <1>3, <1>4, <2>1, <2>2
    <2> QED
      BY <1>1, <2>2, <2>3
  <1> QED
    BY <1>8, <1>9, <1>10 DEF list

\* The rows of the dependencies that failed: one for each relationship, in order.
LEMMA ClassifyFacts ==
  ASSUME TypeOK, NEW listed \in [Units -> Known]
  PROVE  LET list == Classify(listed)
         IN  /\ list \in Seq(DependentRows)
             /\ \A k \in 1 .. Len(list) : << list[k].unit, list[k].relation >> \in Failing(listed)
             /\ \A d \in Failing(listed) :
                   \E k \in 1 .. Len(list) : list[k].unit = d[1] /\ list[k].relation = d[2]
             /\ \A j, k \in 1 .. Len(list) : j < k => Precedes(list[j], list[k])
  <1> DEFINE S == {Dependent(listed, d) : d \in Failing(listed)}
             list == Classify(listed)
  <1>1. \A d \in Failing(listed) :
           /\ d \in Dependencies \X Relations
           /\ d = << d[1], d[2] >> /\ d[1] \in Dependencies /\ d[2] \in Relations
           /\ Dependent(listed, d).unit = d[1] /\ Dependent(listed, d).relation = d[2]
           /\ Dependent(listed, d) \in DependentRows
    <2> SUFFICES ASSUME NEW d \in Failing(listed)
                 PROVE  /\ d \in Dependencies \X Relations
                        /\ d = << d[1], d[2] >> /\ d[1] \in Dependencies /\ d[2] \in Relations
                        /\ Dependent(listed, d).unit = d[1] /\ Dependent(listed, d).relation = d[2]
                        /\ Dependent(listed, d) \in DependentRows
      OBVIOUS
    <2>1. d \in Dependencies \X Relations
      BY DEF Failing
    <2>2. d = << d[1], d[2] >> /\ d[1] \in Dependencies /\ d[2] \in Relations
      BY <2>1
    <2>3. listed[d[1]] \in States \union {None}
      BY <2>2 DEF Units, Known
    <2>4. State("not-found", "inactive") \in States
      BY DEF States
    <2>5. Dependent(listed, d) \in DependentRows
      BY <2>2, <2>3, <2>4 DEF Dependent, DependentRows
    <2> QED
      BY <2>1, <2>2, <2>5 DEF Dependent
  <1>2. IsFiniteSet(S)
    <2>1. IsFiniteSet(Relations)
      <3>1. Relations = ({} \union {"requires"}) \union {"wants"}
        BY DEF Relations
      <3> QED
        BY <3>1, FS_EmptySet, FS_AddElement
    <2>2. IsFiniteSet(Dependencies \X Relations)
      BY <2>1, DependenciesAssumption, FS_Product
    <2>3. IsFiniteSet(Failing(listed))
      <3>1. Failing(listed) \in SUBSET (Dependencies \X Relations)
        BY DEF Failing
      <3> QED
        BY <2>2, <3>1, FS_Subset
    <2>4. [d \in Failing(listed) |-> Dependent(listed, d)] \in Surjection(Failing(listed), S)
      BY DEF Surjection
    <2> QED
      BY <2>3, <2>4, FS_Surjection
  <1>3. S \in SUBSET DependentRows
    BY <1>1
  <1>4. \A x, y \in S : (x.unit = y.unit /\ x.relation = y.relation) => x = y
    BY <1>1
  <1>5. list = Arranged(S, Precedes)
    BY DEF Classify
  <1> HIDE DEF list, S
  <1>6. /\ list \in Seq(S)
        /\ \A x \in S : \E k \in 1 .. Len(list) : list[k] = x
        /\ \A j, k \in 1 .. Len(list) : j < k => Precedes(list[j], list[k])
    BY <1>2, <1>3, <1>4, <1>5, ArrangedFacts
  <1>7. \A k \in 1 .. Len(list) : list[k] \in S
    BY <1>6, ElementOfSeq
  <1>8. \A k \in 1 .. Len(list) : << list[k].unit, list[k].relation >> \in Failing(listed)
    BY <1>1, <1>7 DEF S
  <1>9. ASSUME NEW d \in Failing(listed)
        PROVE  \E k \in 1 .. Len(list) : list[k].unit = d[1] /\ list[k].relation = d[2]
    <2>1. Dependent(listed, d) \in S
      BY DEF S
    <2>2. PICK k \in 1 .. Len(list) : list[k] = Dependent(listed, d)
      BY <1>6, <2>1
    <2> QED
      BY <1>1, <2>2
  <1>10. list \in Seq(DependentRows)
    BY <1>3, <1>6
  <1> QED
    BY <1>6, <1>8, <1>9, <1>10 DEF list

-----------------------------------------------------------------------------
(***************************************************************************)
(* What keeps a part of the invariant.                                     *)
(***************************************************************************)

Early == {"received", "list", "lookup", "requires", "wants", "rows"}

\* The judgement of the dependents stands, whatever units do afterwards: the states they
\* have had, and the calls that failed, only grow.
LEMMA ListedKept ==
  ASSUME TypeOK, Listed, UNCHANGED << rows, dependents, named, checked >>,
         failed \subseteq failed', \A n \in Units : seen[n] \subseteq seen'[n]
  PROVE  Listed'
  <1>1. /\ (rows \in [Units -> Known])' /\ (\A n \in Units : rows[n] \in seen[n])'
        /\ (dependents \in Seq(DependentRows))' /\ (checked \in 0 .. Len(dependents))'
    BY DEF Listed
  <1>2. Failing(rows)' = Failing(rows)
    BY DEF Failing
  <1>3. /\ (\A k \in 1 .. Len(dependents) :
               << dependents[k].unit, dependents[k].relation >> \in Failing(rows))'
        /\ (\A d \in Failing(rows) : \E k \in 1 .. Len(dependents) :
               dependents[k].unit = d[1] /\ dependents[k].relation = d[2])'
    BY <1>2 DEF Listed
  <1>4. (\A j, k \in 1 .. Len(dependents) : j < k => Precedes(dependents[j], dependents[k]))'
    BY DEF Listed, Precedes
  <1>5. ASSUME NEW k \in 1 .. checked, dependents[k].unit \in Services, dependents[k].result = None
        PROVE  None \in seen'[dependents[k].unit] \/ << "result", dependents[k].unit >> \in failed'
    <2>1. dependents[k] \in DependentRows
      BY DEF Listed
    <2>2. dependents[k].unit \in Units
      BY <2>1 DEF DependentRows, Units
    <2> QED
      BY <1>5, <2>2 DEF Listed
  <1>6. (\A k \in 1 .. checked :
            (dependents[k].unit \in Services /\ dependents[k].result = None) =>
                \/ None \in seen[dependents[k].unit]
                \/ << "result", dependents[k].unit >> \in failed)'
    BY <1>5
  <1> QED
    BY <1>1, <1>3, <1>4, <1>6 DEF Listed

\* It is made when the results are in, or given up when a call fails before that.
LEMMA JudgedKept ==
  ASSUME TypeOK, Judged, UNCHANGED << rows, dependents, named, checked >>,
         failed \subseteq failed', \A n \in Units : seen[n] \subseteq seen'[n],
         (pc' \in Early) => (pc \in Early), (pc' = "results") => (pc = "results"),
         Past' => \/ Past
                  \/ pc = "results" /\ checked = Len(dependents)
                  \/ pc \in Early /\ << "rows" >> \in failed'
  PROVE  Judged'
  <1>1. Listed => Listed'
    BY ListedKept
  <1>2. (pc' \in Early) => (dependents' = << >> /\ checked' = 0)
    BY DEF Judged, Early
  <1>3. (pc' = "results") => Listed'
    BY <1>1 DEF Judged
  <1>4. ASSUME Past'
        PROVE  \/ << "rows" >> \in failed' /\ dependents' = << >>
               \/ Listed' /\ checked' = Len(dependents')
    BY <1>1, <1>4 DEF Judged, Early
  <1> QED
    BY <1>2, <1>3, <1>4 DEF Judged, Early

\* Entries are appended: those the walk went past stay where they are.
LEMMA GatheredKept ==
  ASSUME TypeOK, Gathered, UNCHANGED walk,
         journal' = journal \/ \E e \in Entries : journal' = Append(journal, e)
  PROVE  Gathered'
  <1>1. /\ Len(journal') >= Len(journal) /\ Len(journal) \in Nat /\ Len(journal') \in Nat
        /\ \A k \in 1 .. Len(journal) : journal'[k] = journal[k]
    BY DEF TypeOK
  <1>2. /\ at' = at /\ start' = start /\ scanned' = scanned /\ transitions' = transitions
        /\ at \in Nat /\ at >= 1 /\ start \in Nat /\ start <= Len(journal)
    BY DEF walk, Gathered, TypeOK
  <1>3. ASSUME NEW o \in Nat, o >= 1
        PROVE  {k \in o .. start' : IsOf(journal'[k])} = Between(o)
    BY <1>1, <1>2, <1>3 DEF Between
  <1>4. {k \in at' .. start' : IsOf(journal'[k])} = Between(at)
    BY <1>2, <1>3
  <1>5. (at = start - scanned + 1 /\ at >= 1 /\ start <= Len(journal))'
    BY <1>1, <1>2 DEF Gathered
  <1>6. (Len(transitions) = Cardinality(Between(at)))'
    BY <1>2, <1>4 DEF Gathered, Between
  <1>7. ASSUME NEW k \in Between(at)
        PROVE  transitions'[Cardinality({j \in k .. start' : IsOf(journal'[j])})] = journal'[k]
    <2>1. k \in Nat /\ k >= 1 /\ k \in 1 .. Len(journal)
      BY <1>1, <1>2 DEF Between
    <2> QED
      BY <1>1, <1>2, <1>3, <2>1 DEF Gathered
  <1>8. (\A k \in Between(at) : transitions[Cardinality(Between(k))] = journal[k])'
    BY <1>4, <1>7 DEF Between
  <1> QED
    BY <1>5, <1>6, <1>8 DEF Gathered

\* The walk stands when the reader does.
LEMMA WalkedKept ==
  ASSUME TypeOK, Walked, UNCHANGED << walk, request >>, failed \subseteq failed',
         journal' = journal \/ \E e \in Entries : journal' = Append(journal, e),
         (pc' \notin {"journal", "done"}) => (pc \notin {"journal", "done"}),
         Past' => \/ Past
                  \/ scanned = 0 /\ Limit \in Nat,
         (Found' /\ << "journal" >> \notin failed') =>
             \/ Found
             \/ Len(transitions) >= Limit \/ scanned >= MaxScan
             \/ (scanned > 0 /\ at = 1) \/ scanned = 0
  PROVE  Walked'
  <1>1. /\ at' = at /\ start' = start /\ scanned' = scanned /\ transitions' = transitions
        /\ Limit' = Limit
    BY DEF walk, Limit
  <1>2. (scanned > 0) => Gathered'
    BY GatheredKept DEF Walked
  <1>3. Past' => Len(transitions) <= Limit
    BY DEF Walked
  <1>4. (Found' /\ << "journal" >> \notin failed') =>
             \/ Len(transitions) >= Limit \/ scanned >= MaxScan
             \/ (scanned > 0 /\ at = 1) \/ scanned = 0
    BY DEF Walked
  <1> QED
    BY <1>1, <1>2, <1>3, <1>4 DEF Walked

\* A request is refused, or fails: nothing else is claimed of it.
LEMMA EndKept ==
  ASSUME IInv, pc' = "done", ~answer'.ok,
         UNCHANGED << given, host, lookup, walk >>, failed \subseteq failed'
  PROVE  TypeOK' /\ Witnessed' /\ Staged' /\ Named' /\ Judged' /\ Walked'
  <1>1. ~Past' /\ ~Found' /\ ~Accepted'
    BY DEF Past, Found, Accepted
  <1>2. TypeOK'
    BY DEF IInv, TypeOK, given, host, lookup, walk, Steps
  <1>3. Witnessed'
    BY DEF IInv, Witnessed, host
  <1>4. Staged'
    BY <1>1 DEF Staged
  <1>5. Named'
    BY <1>1 DEF IInv, Named, given, lookup
  <1>6. Judged'
    BY <1>1 DEF Judged
  <1>7. Walked'
    <2>1. UNCHANGED << request, journal >> /\ UNCHANGED walk
      BY DEF given, host
    <2> QED
      BY <1>1, <2>1, WalkedKept DEF IInv
  <1> QED
    BY <1>2, <1>3, <1>4, <1>5, <1>6, <1>7

\* The request goes on to another step of the lookup.
LEMMA NoAnswerKept ==
  ASSUME IInv, pc # "done", pc' # "done", answer' = None, ~Past,
         UNCHANGED << given, host, rows, dependents, checked, walk >>, failed \subseteq failed',
         pc \in Early, pc' \in Early
  PROVE  Witnessed' /\ Judged' /\ Walked' /\ PartsFailAlone'
  <1>1. ~Past' /\ ~Found'
    BY DEF Past, Found, Early
  <1>2. Witnessed'
    BY DEF IInv, Witnessed, host
  <1>3. Judged'
    BY <1>1 DEF IInv, Judged, Early
  <1>4. Walked'
    <2>1. UNCHANGED << request, journal >> /\ UNCHANGED walk
      BY DEF given, host
    <2> QED
      BY <1>1, <2>1, WalkedKept DEF IInv, Early
  <1>5. PartsFailAlone'
    BY DEF PartsFailAlone
  <1> QED
    BY <1>2, <1>3, <1>4, <1>5

-----------------------------------------------------------------------------
(***************************************************************************)
(* Every step keeps the invariant.                                         *)
(***************************************************************************)

\* A unit changes.
LEMMA ChangeInvariant == ASSUME IInv, NEW n \in Units, Change(n) PROVE IInv'
  <1>1. PICK state \in Known :
            /\ live' = [live EXCEPT ![n] = state]
            /\ seen' = [seen EXCEPT ![n] = @ \union {state}]
    BY DEF Change, Known
  <1>2. /\ UNCHANGED << pc, row, rows, dependents, named, checked, journal, request, depends, answer, failed >>
        /\ UNCHANGED walk /\ pc # "done"
    BY DEF Change, given, lookup
  <1>3. \A m \in Units : seen[m] \subseteq seen'[m]
    BY <1>1 DEF IInv, TypeOK
  <1>4. TypeOK'
    BY <1>1, <1>2 DEF IInv, TypeOK, walk
  <1>5. Witnessed'
    BY <1>1 DEF IInv, Witnessed, TypeOK
  <1>6. /\ (Past' <=> Past) /\ (Found' <=> Found) /\ (Accepted' <=> Accepted)
        /\ Limit' = Limit
    BY <1>2 DEF Past, Found, Accepted, Limit
  <1>7. Staged'
    BY <1>2, <1>6 DEF IInv, Staged, walk
  <1>8. Named'
    BY <1>2, <1>6 DEF IInv, Named, Read
  <1>9. Judged'
    BY <1>2, <1>3, <1>6, JudgedKept DEF IInv
  <1>10. Walked'
    BY <1>2, <1>6, WalkedKept DEF IInv
  <1>11. PartsFailAlone'
    BY <1>2 DEF IInv, Staged, PartsFailAlone
  <1> QED
    BY <1>4, <1>5, <1>7, <1>8, <1>9, <1>10, <1>11 DEF IInv

\* An entry is appended.
LEMMA ArriveInvariant == ASSUME IInv, Arrive PROVE IInv'
  <1>1. PICK entry \in Entries : journal' = Append(journal, entry)
    BY DEF Arrive, Entries
  <1>2. /\ UNCHANGED << pc, row, rows, dependents, named, checked, live, seen, request, depends, answer, failed >>
        /\ UNCHANGED walk /\ pc # "done"
    BY DEF Arrive, given, lookup
  <1>3. TypeOK'
    BY <1>1, <1>2 DEF IInv, TypeOK, walk
  <1>4. Witnessed'
    BY <1>2 DEF IInv, Witnessed
  <1>5. /\ (Past' <=> Past) /\ (Found' <=> Found) /\ (Accepted' <=> Accepted)
        /\ Limit' = Limit
    BY <1>2 DEF Past, Found, Accepted, Limit
  <1>6. Staged'
    BY <1>2, <1>5 DEF IInv, Staged, walk
  <1>7. Named'
    BY <1>2, <1>5 DEF IInv, Named, Read
  <1>8. Judged'
    BY <1>2, <1>5, JudgedKept DEF IInv
  <1>9. Walked'
    BY <1>1, <1>2, <1>5, WalkedKept DEF IInv
  <1>10. PartsFailAlone'
    BY <1>2 DEF IInv, Staged, PartsFailAlone
  <1> QED
    BY <1>3, <1>4, <1>6, <1>7, <1>8, <1>9, <1>10 DEF IInv

\* The arguments are checked.
LEMMA HandleInvariant == ASSUME IInv, Handle PROVE IInv'
  <1>1. UNCHANGED << given, host, row, lookup, walk, failed >> /\ pc = "received"
    BY DEF Handle
  <1>2. answer = None /\ row = None
    BY <1>1 DEF IInv, Staged
  <1>3. CASE Refusal # None
    <2>1. pc' = "done" /\ answer' = Refused(Refusal)
      BY <1>3 DEF Handle, Reply
    <2>2. ~answer'.ok /\ answer'.code = Refusal
      BY <2>1 DEF Refused
    <2>3. Refusal # "unit_not_found"
      BY <1>3 DEF Refusal
    <2>4. PartsFailAlone'
      BY <1>1, <1>2, <2>2, <2>3 DEF PartsFailAlone, Refused
    <2> QED
      BY <1>1, <2>1, <2>2, <2>4, EndKept DEF IInv
  <1>4. CASE Refusal = None
    <2>1. pc' = "list" /\ answer' = None
      BY <1>4 DEF Handle
    <2>2. Limit \in 1 .. MaxLimit
      BY <1>4, NoneAssumption DEF Refusal
    <2>3. ~Past
      BY <1>1, <1>2 DEF Past, Found
    <2>4. Witnessed' /\ Judged' /\ Walked' /\ PartsFailAlone'
      BY <1>1, <2>1, <2>3, NoAnswerKept DEF Early, lookup
    <2>5. TypeOK'
      BY <1>1, <2>1 DEF IInv, TypeOK, given, host, lookup, walk, Steps
    <2>6. Staged'
      BY <1>1, <1>2, <2>1, <2>2 DEF Staged, Found, Limit, given
    <2>7. Named'
      BY <1>1, <2>1 DEF IInv, Named, Past, Found, given, lookup
    <2> QED
      BY <2>4, <2>5, <2>6, <2>7 DEF IInv
  <1> QED
    BY <1>3, <1>4

\* The unit is listed, or is not, or the listing fails.
LEMMA ListInvariant == ASSUME IInv, List \/ ListFails PROVE IInv'
  <1>1. pc = "list" /\ UNCHANGED << given, host, lookup, walk >> /\ failed \subseteq failed'
    BY DEF List, ListFails, Fails
  <1>2. answer = None /\ row = None
    BY <1>1 DEF IInv, Staged
  <1>3. CASE List /\ row' # None
    <2>1. pc' = "lookup" /\ answer' = None
      BY <1>3 DEF List
    <2>2. ~Past
      BY <1>1, <1>2 DEF Past, Found
    <2>3. Witnessed' /\ Judged' /\ Walked' /\ PartsFailAlone'
      BY <1>1, <1>2, <2>1, <2>2, NoAnswerKept DEF Early, lookup
    <2>4. TypeOK'
      BY <1>1, <2>1 DEF IInv, TypeOK, given, host, lookup, walk, Steps
    <2>5. Staged'
      BY <1>1, <2>1 DEF IInv, Staged, Accepted, Found, Limit, given
    <2>6. Named'
      BY <1>1, <2>1 DEF IInv, Named, Past, Found, given, lookup
    <2> QED
      BY <2>3, <2>4, <2>5, <2>6 DEF IInv
  <1>4. CASE List /\ row' = None
    <2>1. pc' = "done" /\ answer' = Refused("unit_not_found") /\ row' = live[Target]
      BY <1>4 DEF List, Reply
    <2>2. None \in seen'[Target]
      BY <1>1, <1>4, <2>1 DEF IInv, Witnessed, Units, host
    <2>3. PartsFailAlone'
      BY <2>2 DEF PartsFailAlone
    <2>4. ~answer'.ok
      BY <2>1 DEF Refused
    <2> QED
      BY <1>1, <2>1, <2>3, <2>4, EndKept DEF IInv
  <1>5. CASE ListFails
    <2>1. pc' = "done" /\ answer' = Refused("internal") /\ row' = None
      BY <1>2, <1>5 DEF ListFails, Reply
    <2>2. ~answer'.ok /\ answer'.code = "internal"
      BY <2>1 DEF Refused
    <2>3. PartsFailAlone'
      BY <2>1, <2>2 DEF PartsFailAlone, Refused
    <2> QED
      BY <1>1, <2>1, <2>2, <2>3, EndKept DEF IInv
  <1> QED
    BY <1>3, <1>4, <1>5

\* The second lookup: connected to, and asked for the unit's path.
LEMMA LookupInvariant == ASSUME IInv, ConnectFails \/ GetUnit PROVE IInv'
  <1>1. pc = "lookup" /\ UNCHANGED << given, host, row, lookup, walk >> /\ failed \subseteq failed'
    BY DEF ConnectFails, GetUnit, Fails
  <1>2. answer = None
    BY <1>1 DEF IInv, Staged
  <1>3. CASE pc' = "done" /\ ~answer'.ok /\ PartsFailAlone'
    BY <1>1, <1>3, EndKept DEF IInv
  <1>4. ASSUME ConnectFails
        PROVE  pc' = "done" /\ ~answer'.ok /\ PartsFailAlone'
    <2>1. pc' = "done" /\ answer' = Refused("internal") /\ << "connect" >> \in failed'
      BY <1>4 DEF ConnectFails, Reply, Fails
    <2>2. ~answer'.ok /\ answer'.code = "internal"
      BY <2>1 DEF Refused
    <2>3. PartsFailAlone'
      BY <2>1, <2>2 DEF PartsFailAlone, Refused
    <2> QED
      BY <2>1, <2>2, <2>3
  <1>5. ASSUME GetUnit, pc' # "requires"
        PROVE  pc' = "done" /\ ~answer'.ok /\ PartsFailAlone'
    <2>1. /\ pc' = "done" /\ answer' = Refused("unit_not_found")
          /\ live[Target] = None \/ << "GetUnit" >> \in failed'
      BY <1>5 DEF GetUnit, Reply, Fails
    <2>2. None \in seen'[Target] \/ << "GetUnit" >> \in failed'
      BY <1>1, <2>1 DEF IInv, Witnessed, Units, host
    <2>3. PartsFailAlone'
      BY <2>2 DEF PartsFailAlone
    <2>4. ~answer'.ok
      BY <2>1 DEF Refused
    <2> QED
      BY <2>1, <2>3, <2>4
  <1>6. CASE GetUnit /\ pc' = "requires"
    <2>1. answer' = None
      BY <1>2, <1>6 DEF GetUnit, Reply
    <2>2. ~Past
      BY <1>1, <1>2 DEF Past, Found
    <2>3. Witnessed' /\ Judged' /\ Walked' /\ PartsFailAlone'
      BY <1>1, <1>6, <2>1, <2>2, NoAnswerKept DEF Early, lookup
    <2>4. TypeOK'
      BY <1>1, <1>6 DEF IInv, TypeOK, given, host, lookup, walk, Steps
    <2>5. Staged'
      BY <1>1, <1>6, <2>1 DEF IInv, Staged, Accepted, Found, Limit, given
    <2>6. Named'
      BY <1>1, <1>6, <2>1 DEF IInv, Named, Past, Found, given, lookup
    <2> QED
      BY <2>3, <2>4, <2>5, <2>6 DEF IInv
  <1> QED
    BY <1>3, <1>4, <1>5, <1>6

\* A relationship is read, or cannot be.
LEMMA ReadRelationInvariant ==
  ASSUME IInv, NEW r \in Relations, ReadRelation(r)
  PROVE  IInv'
  <1>1. /\ pc = r /\ pc' = Following(r) /\ failed \subseteq failed'
        /\ UNCHANGED << given, host, row, rows, dependents, checked, walk, answer >>
        /\ \/ named' = [named EXCEPT ![r] = depends[r]]
           \/ named' = named /\ << r >> \in failed'
    BY DEF ReadRelation, Fails
  <1>2. r \in {"requires", "wants"} /\ pc' = (IF r = "requires" THEN "wants" ELSE "rows")
    BY <1>1 DEF Relations, Following
  <1>3. answer = None /\ answer' = None
    BY <1>1, <1>2 DEF IInv, Staged
  <1>4. ~Past /\ ~Past'
    BY <1>1, <1>2, <1>3 DEF Past, Found
  <1>5. Witnessed' /\ Judged' /\ Walked' /\ PartsFailAlone'
    BY <1>1, <1>2, <1>3, <1>4, NoAnswerKept DEF Early
  <1>6. depends' = depends /\ depends[r] \in SUBSET Dependencies
    BY <1>1 DEF IInv, TypeOK, given
  <1>7. TypeOK'
    BY <1>1, <1>2, <1>6 DEF IInv, TypeOK, given, host, walk, Steps
  <1>8. Staged'
    BY <1>1, <1>2, <1>3 DEF IInv, Staged, Accepted, Found, Limit, given
  <1>9. Named'
    <2>1. \A q \in Relations : named'[q] \subseteq depends'[q]
      BY <1>1, <1>6 DEF IInv, Named, TypeOK
    <2>2. Read(r)'
      BY <1>1, <1>6 DEF IInv, TypeOK, Read
    <2>3. (pc' \in {"wants", "rows", "results"}) => Read("requires")'
      <3>1. CASE r = "requires"
        BY <2>2, <3>1
      <3>2. CASE r = "wants"
        BY <1>1, <1>6, <3>2 DEF IInv, Named, Read, TypeOK, Relations
      <3> QED
        BY <1>2, <3>1, <3>2
    <2>4. (pc' \in {"rows", "results"}) => Read("wants")'
      BY <1>2, <2>2
    <2> QED
      BY <1>4, <2>1, <2>3, <2>4 DEF Named
  <1> QED
    BY <1>5, <1>7, <1>8, <1>9 DEF IInv

\* A proxy or the second listing fails.
LEMMA RowsFailInvariant == ASSUME IInv, RowsFail PROVE IInv'
  <1>1. /\ pc \in {"requires", "rows"} /\ pc' = "journal"
        /\ failed \subseteq failed' /\ << "rows" >> \in failed'
        /\ UNCHANGED << given, host, row, lookup, walk, answer >>
    BY DEF RowsFail, Fails
  <1>2. answer = None /\ answer' = None
    BY <1>1 DEF IInv, Staged
  <1>3. TypeOK'
    BY <1>1 DEF IInv, TypeOK, given, host, lookup, walk, Steps
  <1>4. Witnessed'
    BY <1>1 DEF IInv, Witnessed, host
  <1>5. Limit \in 1 .. MaxLimit /\ Limit' = Limit
    BY <1>1 DEF IInv, Staged, Accepted, Limit, given
  <1>6. Staged'
    BY <1>1, <1>2, <1>5 DEF Staged, Found
  <1>7. Named'
    BY <1>1 DEF IInv, Named, given, lookup
  <1>8. Judged'
    BY <1>1, JudgedKept DEF IInv, Early, lookup, host
  <1>9. Walked'
    <2>1. scanned = 0 /\ Limit \in Nat
      BY <1>1, <1>5, LimitsAssumption DEF IInv, Walked
    <2> QED
      BY <1>1, <1>2, <2>1, WalkedKept DEF IInv, given, host
  <1>10. PartsFailAlone'
    BY <1>2 DEF PartsFailAlone
  <1> QED
    BY <1>3, <1>4, <1>6, <1>7, <1>8, <1>9, <1>10 DEF IInv

\* The units are listed again, and the dependencies judged by that.
LEMMA RowsInvariant == ASSUME IInv, Rows PROVE IInv'
  <1>1. /\ pc = "rows" /\ pc' = "results" /\ rows' = live /\ dependents' = Classify(live)
        /\ UNCHANGED << given, host, row, named, checked, walk, answer, failed >>
    BY DEF Rows
  <1>2. answer = None /\ answer' = None /\ ~Past' /\ ~Found'
    BY <1>1 DEF IInv, Staged, Past, Found
  <1>3. TypeOK'
    BY <1>1 DEF IInv, TypeOK, given, host, walk, Steps
  <1>4. Witnessed'
    BY <1>1 DEF IInv, Witnessed, host
  <1>5. Staged'
    BY <1>1, <1>2 DEF IInv, Staged, Accepted, Limit, given
  <1>6. Named'
    BY <1>1, <1>2 DEF IInv, Named, Read, given
  <1>7. Judged'
    <2>1. live \in [Units -> Known] /\ checked = 0 /\ checked' = 0
      BY <1>1 DEF IInv, TypeOK, Judged
    <2>2. /\ Classify(live) \in Seq(DependentRows)
          /\ \A k \in 1 .. Len(Classify(live)) :
                << Classify(live)[k].unit, Classify(live)[k].relation >> \in Failing(live)
          /\ \A d \in Failing(live) : \E k \in 1 .. Len(Classify(live)) :
                Classify(live)[k].unit = d[1] /\ Classify(live)[k].relation = d[2]
          /\ \A j, k \in 1 .. Len(Classify(live)) :
                j < k => Precedes(Classify(live)[j], Classify(live)[k])
      BY <2>1, ClassifyFacts DEF IInv
    <2>3. Failing(rows)' = Failing(live)
      BY <1>1 DEF Failing
    <2>4. (rows \in [Units -> Known])' /\ (\A n \in Units : rows[n] \in seen[n])'
      BY <1>1, <2>1 DEF IInv, Witnessed, host
    <2>5. Listed'
      BY <1>1, <2>1, <2>2, <2>3, <2>4 DEF Listed, Precedes
    <2> QED
      BY <1>1, <1>2, <2>5 DEF Judged
  <1>8. Walked'
    BY <1>1, <1>2, WalkedKept DEF IInv, given, host
  <1>9. PartsFailAlone'
    BY <1>2 DEF PartsFailAlone
  <1> QED
    BY <1>3, <1>4, <1>5, <1>6, <1>7, <1>8, <1>9 DEF IInv

\* The next result is read, or is not to be had.
LEMMA ResultInvariant == ASSUME IInv, Result PROVE IInv'
  <1> DEFINE d == dependents[checked + 1]
  <1>1. /\ pc = "results" /\ checked < Len(dependents) /\ checked' = checked + 1
        /\ failed \subseteq failed'
        /\ UNCHANGED << given, host, pc, row, named, rows, walk, answer >>
    BY DEF Result, Fails
  <1>2. answer = None /\ answer' = None /\ ~Past' /\ ~Found' /\ Listed
    BY <1>1 DEF IInv, Staged, Past, Found, Judged
  <1>3. TypeOK'
    BY <1>1 DEF IInv, TypeOK, given, host, walk, Steps
  <1>4. Witnessed'
    BY <1>1 DEF IInv, Witnessed, host
  <1>5. Staged'
    BY <1>1, <1>2 DEF IInv, Staged, Accepted, Limit, given
  <1>6. Named'
    BY <1>1, <1>2 DEF IInv, Named, Read, given
  <1>7. Judged'
    <2>1. checked \in Nat /\ checked + 1 \in 1 .. Len(dependents) /\ Len(dependents) \in Nat
      BY <1>1, <1>2 DEF Listed
    <2>2. d \in DependentRows /\ d.unit \in Units
      <3>1. d \in DependentRows
        BY <1>2, <2>1 DEF Listed
      <3> QED
        BY <3>1 DEF DependentRows, Units
    <2>3. \/ /\ dependents' = dependents
             /\ \/ ~HasResult(d) \/ << "result", d.unit >> \in failed' \/ live[d.unit] = None
          \/ /\ HasResult(d) /\ live[d.unit] # None
             /\ dependents' = [dependents EXCEPT ![checked + 1].result = live[d.unit].active]
      BY Zenon DEF Result, Fails
    <2>4. live[d.unit] \in Known
      BY <2>2 DEF IInv, TypeOK
    <2>5. /\ dependents' \in Seq(DependentRows) /\ Len(dependents') = Len(dependents)
          /\ \A k \in 1 .. Len(dependents) :
                /\ dependents'[k].unit = dependents[k].unit
                /\ dependents'[k].relation = dependents[k].relation
                /\ (k # checked + 1) => (dependents'[k] = dependents[k])
      <3>1. CASE dependents' = dependents
        BY <1>2, <3>1 DEF Listed
      <3>2. CASE /\ live[d.unit] # None
                 /\ dependents' = [dependents EXCEPT ![checked + 1].result = live[d.unit].active]
        <4>1. live[d.unit].active \in {"active", "failed", "inactive"}
          BY <2>4, <3>2 DEF Known, States, State
        <4>2. [d EXCEPT !.result = live[d.unit].active] \in DependentRows
          BY <2>2, <4>1 DEF DependentRows
        <4>3. dependents' = [dependents EXCEPT ![checked + 1] = [d EXCEPT !.result = live[d.unit].active]]
          BY <3>2
        <4>4. dependents \in Seq(DependentRows)
          BY <1>2 DEF Listed
        <4>5. dependents' \in Seq(DependentRows) /\ Len(dependents') = Len(dependents)
          BY <2>1, <4>2, <4>3, <4>4
        <4>6. \A k \in 1 .. Len(dependents) : (k # checked + 1) => (dependents'[k] = dependents[k])
          BY <4>3, <4>4
        <4>7. dependents'[checked + 1] = [d EXCEPT !.result = live[d.unit].active]
          BY <2>1, <4>3, <4>4
        <4>8. dependents'[checked + 1].unit = d.unit /\ dependents'[checked + 1].relation = d.relation
          BY <2>2, <4>7 DEF DependentRows
        <4> QED
          BY <4>5, <4>6, <4>8
      <3> QED
        BY <2>3, <3>1, <3>2
    <2>6. (dependents'[checked + 1].unit \in Services /\ dependents'[checked + 1].result = None) =>
             \/ None \in seen'[dependents'[checked + 1].unit]
             \/ << "result", dependents'[checked + 1].unit >> \in failed'
      <3>1. seen' = seen /\ rows[d.unit] \in seen[d.unit] /\ live[d.unit] \in seen[d.unit]
        BY <1>1, <1>2, <2>2 DEF Listed, IInv, Witnessed, host
      <3>2. dependents'[checked + 1].unit = d.unit
        BY <2>1, <2>5
      <3>3. CASE /\ dependents' = dependents
                 /\ \/ ~HasResult(d) \/ << "result", d.unit >> \in failed' \/ live[d.unit] = None
        BY <3>1, <3>2, <3>3 DEF HasResult
      <3>4. CASE /\ live[d.unit] # None
                 /\ dependents' = [dependents EXCEPT ![checked + 1].result = live[d.unit].active]
        <4>1. live[d.unit].active \in {"active", "failed", "inactive"}
          BY <2>4, <3>4 DEF Known, States, State
        <4>2. dependents'[checked + 1] = [d EXCEPT !.result = live[d.unit].active]
          <5>1. dependents \in Seq(DependentRows)
            BY <1>2 DEF Listed
          <5>2. dependents' = [dependents EXCEPT ![checked + 1] = [d EXCEPT !.result = live[d.unit].active]]
            BY <3>4
          <5> QED
            BY <2>1, <5>1, <5>2
        <4>3. dependents'[checked + 1].result = live[d.unit].active
          BY <2>2, <4>2 DEF DependentRows
        <4> QED
          BY <4>1, <4>3, NoneAssumption
      <3> QED
        BY <2>3, <3>3, <3>4
    <2> HIDE DEF d
    <2>7. Failing(rows)' = Failing(rows)
      BY <1>1 DEF Failing
    <2>8. /\ (\A k \in 1 .. Len(dependents) :
                 << dependents[k].unit, dependents[k].relation >> \in Failing(rows))'
          /\ (\A e \in Failing(rows) : \E k \in 1 .. Len(dependents) :
                 dependents[k].unit = e[1] /\ dependents[k].relation = e[2])'
      <3>1. /\ \A k \in 1 .. Len(dependents) :
                  << dependents[k].unit, dependents[k].relation >> \in Failing(rows)
            /\ \A e \in Failing(rows) : \E k \in 1 .. Len(dependents) :
                  dependents[k].unit = e[1] /\ dependents[k].relation = e[2]
        BY <1>2 DEF Listed
      <3> QED
        BY <2>5, <2>7, <3>1
    <2>9. (\A j, k \in 1 .. Len(dependents) : j < k => Precedes(dependents[j], dependents[k]))'
      BY <1>2, <2>5 DEF Listed, Precedes
    <2>10. ASSUME NEW k \in 1 .. checked,
                  dependents'[k].unit \in Services, dependents'[k].result = None
           PROVE  \/ None \in seen'[dependents'[k].unit]
                  \/ << "result", dependents'[k].unit >> \in failed'
      <3>1. k \in 1 .. Len(dependents) /\ k # checked + 1
        BY <2>1
      <3>2. dependents'[k] = dependents[k]
        BY <2>5, <3>1
      <3>3. None \in seen[dependents[k].unit] \/ << "result", dependents[k].unit >> \in failed
        BY <1>2, <2>10, <3>2 DEF Listed
      <3> QED
        BY <1>1, <3>2, <3>3 DEF host
    <2>11. (\A k \in 1 .. checked :
              (dependents[k].unit \in Services /\ dependents[k].result = None) =>
                  \/ None \in seen[dependents[k].unit]
                  \/ << "result", dependents[k].unit >> \in failed)'
      <3>1. \A k \in 1 .. (checked + 1) : k \in 1 .. checked \/ k = checked + 1
        BY <2>1
      <3> QED
        BY <1>1, <2>6, <2>10, <3>1
    <2>12. /\ (rows \in [Units -> Known])' /\ (\A n \in Units : rows[n] \in seen[n])'
           /\ (checked \in 0 .. Len(dependents))'
      BY <1>1, <1>2, <2>1, <2>5 DEF Listed, host
    <2>13. Listed'
      BY <2>5, <2>8, <2>9, <2>11, <2>12 DEF Listed
    <2> QED
      BY <1>1, <1>2, <2>13 DEF Judged
  <1>8. Walked'
    BY <1>1, <1>2, WalkedKept DEF IInv, given, host
  <1>9. PartsFailAlone'
    BY <1>2 DEF PartsFailAlone
  <1> QED
    BY <1>3, <1>4, <1>5, <1>6, <1>7, <1>8, <1>9 DEF IInv

\* All results are in.
LEMMA ResultsInvariant == ASSUME IInv, Results PROVE IInv'
  <1>1. /\ pc = "results" /\ pc' = "journal" /\ checked = Len(dependents)
        /\ UNCHANGED << given, host, row, lookup, walk, answer, failed >>
    BY DEF Results
  <1>2. answer = None /\ answer' = None
    BY <1>1 DEF IInv, Staged
  <1>3. TypeOK'
    BY <1>1 DEF IInv, TypeOK, given, host, lookup, walk, Steps
  <1>4. Witnessed'
    BY <1>1 DEF IInv, Witnessed, host
  <1>5. Limit \in 1 .. MaxLimit /\ Limit' = Limit
    BY <1>1 DEF IInv, Staged, Accepted, Limit, given
  <1>6. Staged'
    BY <1>1, <1>2, <1>5 DEF Staged, Found
  <1>7. Named'
    BY <1>1 DEF IInv, Named, Read, given, lookup
  <1>8. Judged'
    BY <1>1, JudgedKept DEF IInv, Early, lookup, host
  <1>9. Walked'
    <2>1. scanned = 0 /\ Limit \in Nat
      BY <1>1, <1>5, LimitsAssumption DEF IInv, Walked
    <2> QED
      BY <1>1, <1>2, <2>1, WalkedKept DEF IInv, given, host
  <1>10. PartsFailAlone'
    BY <1>2 DEF PartsFailAlone
  <1> QED
    BY <1>3, <1>4, <1>6, <1>7, <1>8, <1>9, <1>10 DEF IInv

\* One more entry is looked at, and taken if it is a transition of the unit.
LEMMA ScanGathers == ASSUME TypeOK, Walked, Scan PROVE Gathered' /\ TypeOK'
  <1> DEFINE p == Previous
             B(k) == {j \in k .. start' : IsOf(journal[j])}
  <1>1. /\ scanned < MaxScan /\ Previous > 0 /\ at' = p /\ scanned' = scanned + 1
        /\ start' = (IF scanned = 0 THEN p ELSE start)
        /\ transitions' = (IF Matches(journal[p]) THEN Append(transitions, journal[p]) ELSE transitions)
        /\ UNCHANGED << given, host, pc, row, lookup, answer, failed >>
    BY DEF Scan
  <1>2. Len(journal) \in Nat /\ scanned \in Nat /\ ((scanned > 0) => Gathered)
    BY DEF TypeOK, Walked
  <1>3. /\ p \in 1 .. Len(journal) /\ start' \in Nat /\ start' <= Len(journal)
        /\ p = start' - scanned' + 1 /\ start' >= p
    <2>1. CASE scanned = 0
      BY <1>1, <1>2, <2>1 DEF Previous
    <2>2. CASE scanned # 0
      <3>1. at = start - scanned + 1 /\ at >= 1 /\ start <= Len(journal) /\ at \in Nat /\ start \in Nat
        BY <1>2, <2>2 DEF Gathered, TypeOK
      <3> QED
        BY <1>1, <1>2, <2>2, <3>1 DEF Previous
    <2> QED
      BY <2>1, <2>2
  <1>4. journal[p] \in Entries
    BY <1>3 DEF TypeOK
  <1>5. \A k \in Nat : IsFiniteSet(B(k)) /\ Cardinality(B(k)) \in Nat
    <2> SUFFICES ASSUME NEW k \in Nat PROVE IsFiniteSet(B(k)) /\ Cardinality(B(k)) \in Nat
      OBVIOUS
    <2>1. IsFiniteSet(k .. start')
      BY <1>3, FS_Interval
    <2>2. B(k) \in SUBSET (k .. start')
      OBVIOUS
    <2> QED
      BY <2>1, <2>2, FS_Subset, FS_CardinalityType
  <1>6. /\ transitions \in Seq(Entries) /\ Len(transitions) \in Nat
        /\ Len(transitions) = Cardinality(B(p + 1))
        /\ \A k \in B(p + 1) : transitions[Cardinality(B(k))] = journal[k]
    <2>1. CASE scanned = 0
      <3>1. B(p + 1) = {}
        BY <1>1, <1>3, <2>1
      <3>2. transitions = << >>
        BY <2>1 DEF Walked
      <3> QED
        BY <3>1, <3>2, FS_EmptySet
    <2>2. CASE scanned # 0
      <3>1. Gathered
        BY <1>2, <2>2
      <3>2. at \in Nat /\ start \in Nat /\ p + 1 = at /\ start' = start
        BY <1>1, <2>2 DEF TypeOK, Previous
      <3>3. \A k : B(k) = Between(k)
        BY <3>2 DEF Between
      <3> HIDE DEF B, p
      <3>4. B(p + 1) = Between(at)
        BY <3>2, <3>3
      <3>5. transitions \in Seq(Entries)
        BY DEF TypeOK
      <3>6. Len(transitions) = Cardinality(Between(at))
            /\ \A k \in Between(at) : transitions[Cardinality(Between(k))] = journal[k]
        BY <3>1 DEF Gathered
      <3> QED
        BY <3>3, <3>4, <3>5, <3>6
    <2> QED
      BY <2>1, <2>2
  <1>7. \A k \in B(p + 1) : k \in Nat /\ Cardinality(B(k)) \in 1 .. Len(transitions)
    <2> SUFFICES ASSUME NEW k \in B(p + 1)
                 PROVE  k \in Nat /\ Cardinality(B(k)) \in 1 .. Len(transitions)
      OBVIOUS
    <2>1. k \in Nat /\ p + 1 \in Nat /\ k >= p + 1
      BY <1>3
    <2>2. B(k) \in SUBSET B(p + 1) /\ k \in B(k)
      BY <1>3, <2>1
    <2>3. IsFiniteSet(B(p + 1)) /\ IsFiniteSet(B(k)) /\ Cardinality(B(k)) \in Nat
      BY <1>5, <2>1
    <2>4. Cardinality(B(k)) <= Cardinality(B(p + 1))
      BY <2>2, <2>3, FS_Subset
    <2>5. Cardinality(B(k)) # 0
      BY <2>2, <2>3, FS_EmptySet
    <2> QED
      BY <1>6, <2>1, <2>3, <2>4, <2>5
  <1>8. /\ transitions' \in Seq(Entries) /\ Len(transitions') = Cardinality(B(p))
        /\ \A k \in B(p) : transitions'[Cardinality(B(k))] = journal[k]
    <2>1. CASE Matches(journal[p])
      <3>1. B(p) = B(p + 1) \union {p} /\ p \notin B(p + 1)
        BY <1>3, <2>1 DEF Matches, IsOf
      <3>2. IsFiniteSet(B(p + 1))
        BY <1>3, <1>5
      <3>3. Cardinality(B(p)) = Len(transitions) + 1
        BY <1>6, <3>1, <3>2, FS_AddElement
      <3>4. transitions' = Append(transitions, journal[p])
        BY <1>1, <2>1
      <3> HIDE DEF B, p
      <3>5. \A k \in B(p + 1) : transitions'[Cardinality(B(k))] = journal[k]
        BY <1>4, <1>6, <1>7, <3>4
      <3>6. transitions'[Cardinality(B(p))] = journal[p]
        BY <1>4, <1>6, <3>3, <3>4
      <3>7. transitions' \in Seq(Entries) /\ Len(transitions') = Len(transitions) + 1
        BY <1>4, <1>6, <3>4
      <3>8. \A k \in B(p) : transitions'[Cardinality(B(k))] = journal[k]
        BY <3>1, <3>5, <3>6
      <3> QED
        BY <3>3, <3>7, <3>8
    <2>2. CASE ~Matches(journal[p])
      <3>1. B(p) = B(p + 1)
        BY <1>3, <2>2 DEF Matches, IsOf
      <3> HIDE DEF B, p
      <3> QED
        BY <1>1, <1>6, <2>2, <3>1
    <2> QED
      BY <2>1, <2>2
  <1>9. TypeOK'
    BY <1>1, <1>3, <1>8 DEF TypeOK, given, host, lookup, Steps
  <1>10. Gathered'
    <2>1. \A k : Between(k)' = B(k)
      BY <1>1 DEF Between, IsOf, host
    <2>2. (at = start - scanned + 1 /\ at >= 1 /\ start <= Len(journal))'
      BY <1>1, <1>3 DEF host
    <2>3. {k \in at' .. start' : IsOf(journal'[k])} = B(p)
      BY <1>1 DEF host
    <2>4. (Len(transitions) = Cardinality(Between(at)))'
      BY <1>8, <2>3 DEF Between
    <2>5. \A k : {j \in k .. start' : IsOf(journal'[j])} = B(k)
      BY <1>1 DEF host
    <2>6. (\A k \in Between(at) : transitions[Cardinality(Between(k))] = journal[k])'
      <3>1. \A k \in B(p) :
               transitions'[Cardinality({j \in k .. start' : IsOf(journal'[j])})] = journal'[k]
        <4> HIDE DEF B, p
        <4> QED
          BY <1>1, <1>8, <2>5 DEF host
      <3> QED
        BY <2>3, <3>1 DEF Between
    <2> QED
      BY <2>2, <2>4, <2>6 DEF Gathered
  <1> QED
    BY <1>9, <1>10

\* The walk of the journal.
LEMMA ScanInvariant == ASSUME IInv, Scan PROVE IInv'
  <1>1. /\ pc = "journal" /\ pc' = "journal" /\ scanned < MaxScan /\ scanned' = scanned + 1
        /\ Len(transitions) < Limit
        /\ \E e : transitions' \in {transitions, Append(transitions, e)}
        /\ UNCHANGED << given, host, row, lookup, answer, failed >>
    BY DEF Scan
  <1>2. answer = None /\ answer' = None
    BY <1>1 DEF IInv, Staged
  <1>3. TypeOK' /\ Gathered'
    BY ScanGathers DEF IInv
  <1>4. Witnessed'
    BY <1>1 DEF IInv, Witnessed, host
  <1>5. Limit \in 1 .. MaxLimit /\ Limit' = Limit
    BY <1>1 DEF IInv, Staged, Accepted, Limit, given
  <1>6. Staged'
    BY <1>1, <1>2, <1>5 DEF Staged, Found
  <1>7. Named'
    BY <1>1, <1>2 DEF IInv, Named, Read, Past, given, lookup
  <1>8. Judged'
    BY <1>1, <1>2, JudgedKept DEF IInv, Early, Past, lookup, host
  <1>9. Walked'
    <2>1. scanned \in Nat /\ Len(transitions) \in Nat /\ transitions \in Seq(Entries)
          /\ transitions' \in Seq(Entries)
      BY <1>3 DEF IInv, TypeOK
    <2>2. Len(transitions') <= Limit
      <3>1. Len(transitions') \in {Len(transitions), Len(transitions) + 1}
        BY <1>1, <2>1
      <3> QED
        BY <1>1, <1>5, <2>1, <3>1, LimitsAssumption
    <2>3. scanned' <= MaxScan /\ scanned' > 0 /\ pc' \in {"journal", "done"} /\ ~Found'
      BY <1>1, <1>2, <2>1, LimitsAssumption DEF Found
    <2> QED
      BY <1>3, <1>5, <2>1, <2>2, <2>3 DEF Walked
  <1>10. PartsFailAlone'
    BY <1>2 DEF PartsFailAlone
  <1> QED
    BY <1>3, <1>4, <1>6, <1>7, <1>8, <1>9, <1>10 DEF IInv

\* The answer, with the transitions found or with none.
LEMMA ScanOverInvariant == ASSUME IInv, ScanEnds \/ ScanFails PROVE IInv'
  <1>1. /\ pc = "journal" /\ pc' = "done" /\ failed \subseteq failed'
        /\ UNCHANGED << given, host, row, lookup, walk >>
    BY DEF ScanEnds, ScanFails, Reply, Fails
  <1>2. /\ answer'.ok /\ answer'.dependents = dependents
        /\ answer'.transitions = transitions \/ << "journal" >> \in failed'
        /\ \/ << "journal" >> \in failed'
           \/ Len(transitions) >= Limit \/ scanned >= MaxScan \/ Previous = 0
    BY DEF ScanEnds, ScanFails, Reply, Fails, Status
  <1>3. TypeOK'
    BY <1>1 DEF IInv, TypeOK, given, host, lookup, walk, Steps
  <1>4. Witnessed'
    BY <1>1 DEF IInv, Witnessed, host
  <1>5. Limit \in 1 .. MaxLimit /\ Limit' = Limit /\ Past
    BY <1>1 DEF IInv, Staged, Accepted, Limit, given, Past
  <1>6. Staged'
    BY <1>1, <1>2, <1>5 DEF Staged, Found, lookup, walk
  <1>7. Named'
    BY <1>1, <1>5 DEF IInv, Named, Read, given, lookup
  <1>8. Judged'
    BY <1>1, <1>5, JudgedKept DEF IInv, Early, lookup, host
  <1>9. Walked'
    <2>1. (<< "journal" >> \in failed')
             \/ Len(transitions) >= Limit \/ scanned >= MaxScan
             \/ (scanned > 0 /\ at = 1) \/ scanned = 0
      BY <1>2 DEF Previous, IInv, TypeOK
    <2> QED
      BY <1>1, <1>5, <2>1, WalkedKept DEF IInv, given, host
  <1>10. PartsFailAlone'
    BY <1>2 DEF PartsFailAlone, Refused
  <1> QED
    BY <1>3, <1>4, <1>6, <1>7, <1>8, <1>9, <1>10 DEF IInv

-----------------------------------------------------------------------------
(***************************************************************************)
(* The theorems.                                                           *)
(***************************************************************************)

\* It holds before the call.
LEMMA InitInvariant == ASSUME Init PROVE IInv
  <1>1. PICK s \in Scenarios :
            /\ depends = s.depends /\ live = s.live /\ journal = s.journal
    BY DEF Init
  <1>2. /\ pc = "received" /\ row = None /\ named = [r \in Relations |-> {}]
        /\ dependents = << >> /\ checked = 0
        /\ at = 0 /\ start = 0 /\ scanned = 0 /\ transitions = << >>
        /\ answer = None /\ seen = [n \in Units |-> {live[n]}] /\ failed = {}
    BY DEF Init
  <1>3. ~Past /\ ~Found /\ ~Accepted
    BY <1>2 DEF Past, Found, Accepted
  <1>4. TypeOK
    BY <1>1, <1>2, ScenariosAssumption DEF TypeOK, Steps, Known
  <1>5. Witnessed
    BY <1>2 DEF Witnessed
  <1>6. Staged /\ Named /\ Judged /\ PartsFailAlone
    BY <1>2, <1>3 DEF Staged, Named, Judged, PartsFailAlone
  <1>7. Walked
    BY <1>2, <1>3, LimitsAssumption DEF Walked
  <1> QED
    BY <1>4, <1>5, <1>6, <1>7 DEF IInv

\* Nothing happens.
LEMMA StutterInvariant == ASSUME IInv, UNCHANGED vars PROVE IInv'
  <1>1. /\ UNCHANGED << pc, row, rows, dependents, named, checked, journal, live, seen, request, depends,
                        answer, failed >>
        /\ UNCHANGED walk
    BY DEF vars, given, host, lookup
  <1>2. /\ (Past' <=> Past) /\ (Found' <=> Found) /\ (Accepted' <=> Accepted)
        /\ Limit' = Limit
    BY <1>1 DEF Past, Found, Accepted, Limit
  <1>3. TypeOK' /\ Witnessed'
    BY <1>1 DEF IInv, TypeOK, Witnessed, walk
  <1>4. Staged'
    BY <1>1, <1>2 DEF IInv, Staged, walk
  <1>5. Named'
    BY <1>1, <1>2 DEF IInv, Named, Read
  <1>6. Judged'
    BY <1>1, <1>2, JudgedKept DEF IInv
  <1>7. Walked'
    BY <1>1, <1>2, WalkedKept DEF IInv
  <1>8. PartsFailAlone'
    BY <1>1 DEF IInv, PartsFailAlone
  <1> QED
    BY <1>3, <1>4, <1>5, <1>6, <1>7, <1>8 DEF IInv

\* Every step keeps it.
LEMMA NextInvariant == ASSUME IInv, [Next]_vars PROVE IInv'
  <1>1. CASE UNCHANGED vars
    BY <1>1, StutterInvariant
  <1>2. ASSUME NEW n \in Units, Change(n) PROVE IInv'
    BY <1>2, ChangeInvariant
  <1>3. CASE Arrive
    BY <1>3, ArriveInvariant
  <1>4. CASE Serve
    BY <1>4, HandleInvariant, ListInvariant, LookupInvariant, ReadRelationInvariant,
       RowsFailInvariant, RowsInvariant, ResultInvariant, ResultsInvariant, ScanInvariant,
       ScanOverInvariant DEF Serve, Relations
  <1>5. CASE Rest
    BY <1>5, StutterInvariant DEF Rest
  <1> QED
    BY <1>1, <1>2, <1>3, <1>4, <1>5 DEF Next

\* The invariant holds of every reachable state.
THEOREM Invariance == Spec => []IInv
  BY InitInvariant, NextInvariant, PTL DEF Spec

\* After the listing found the unit, only the second lookup fails the request: dependencies,
\* results and the journal cost their own part of the answer (get_unit_status).
THEOREM PartsFail == Spec => []PartsFailAlone
  <1>1. IInv => PartsFailAlone
    BY DEF IInv
  <1> QED
    BY <1>1, Invariance, PTL

\* Relations and results that were judged by what was seen make a true answer.
LEMMA InvariantJudges == ASSUME IInv PROVE DependenciesJudged
  <1> SUFFICES ASSUME answer # None, answer.ok, NEW n \in Units, NEW r \in Relations
               PROVE  /\ Reported(n, r) =>
                            /\ n \in depends[r]
                            /\ \E state \in seen[n] : IsFailed(state)
                      /\ (/\ n \in depends[r] /\ << r >> \notin failed /\ << "rows" >> \notin failed
                          /\ \A state \in seen[n] :
                                \/ state = None
                                \/ state.active = "failed"
                                \/ state.load = "not-found") => Reported(n, r)
                      /\ \A j, k \in DOMAIN answer.dependents :
                            j < k => Precedes(answer.dependents[j], answer.dependents[k])
                      /\ \A k \in DOMAIN answer.dependents :
                            (/\ answer.dependents[k].unit \in Services
                             /\ answer.dependents[k].result = None) =>
                                \/ None \in seen[answer.dependents[k].unit]
                                \/ << "result", answer.dependents[k].unit >> \in failed
    BY DEF DependenciesJudged
  <1>1. Found /\ Past /\ answer.dependents = dependents
    BY DEF Found, Past, IInv, Staged
  <1>2. CASE << "rows" >> \in failed /\ dependents = << >>
    <2>1. DOMAIN answer.dependents = {}
      BY <1>1, <1>2
    <2> QED
      BY <1>2, <2>1 DEF Reported
  <1>3. CASE << "rows" >> \notin failed \/ dependents # << >>
    <2>1. Listed /\ checked = Len(dependents)
      BY <1>1, <1>3 DEF IInv, Judged
    <2>2. DOMAIN answer.dependents = 1 .. Len(dependents)
      BY <1>1, <2>1 DEF Listed
    <2>3. ASSUME Reported(n, r)
          PROVE  n \in depends[r] /\ \E state \in seen[n] : IsFailed(state)
      <3>1. PICK k \in 1 .. Len(dependents) : dependents[k].unit = n /\ dependents[k].relation = r
        BY <1>1, <2>2, <2>3 DEF Reported
      <3>2. << n, r >> \in Failing(rows)
        BY <2>1, <3>1 DEF Listed
      <3>3. n \in named[r] /\ IsFailed(rows[n])
        BY <3>2 DEF Failing
      <3> QED
        BY <2>1, <3>3 DEF IInv, Named, Listed
    <2>4. ASSUME n \in depends[r], << r >> \notin failed, << "rows" >> \notin failed,
                 \A state \in seen[n] : state = None \/ state.active = "failed" \/ state.load = "not-found"
          PROVE  Reported(n, r)
      <3>1. Read(r)
        BY <1>1, <2>4 DEF IInv, Named, Relations
      <3>2. n \in named[r] /\ n \in Dependencies
        BY <2>4, <3>1 DEF Read, IInv, TypeOK
      <3>3. IsFailed(rows[n])
        BY <2>1, <2>4 DEF Listed, IsFailed
      <3>4. << n, r >> \in Failing(rows)
        BY <3>2, <3>3 DEF Failing
      <3>5. PICK k \in 1 .. Len(dependents) :
               dependents[k].unit = << n, r >>[1] /\ dependents[k].relation = << n, r >>[2]
        BY <2>1, <3>4 DEF Listed
      <3> QED
        BY <1>1, <2>2, <3>5 DEF Reported
    <2>5. \A j, k \in DOMAIN answer.dependents :
             j < k => Precedes(answer.dependents[j], answer.dependents[k])
      BY <1>1, <2>1, <2>2 DEF Listed
    <2>6. \A k \in DOMAIN answer.dependents :
             (answer.dependents[k].unit \in Services /\ answer.dependents[k].result = None) =>
                 \/ None \in seen[answer.dependents[k].unit]
                 \/ << "result", answer.dependents[k].unit >> \in failed
      BY <1>1, <2>1, <2>2 DEF Listed
    <2> QED
      BY <2>3, <2>4, <2>5, <2>6
  <1> QED
    BY <1>2, <1>3

\* A dependency is reported if it was failed, missing or not loaded all through the request
\* and read at all, and is not if it was well all through, however units change meanwhile
\* (classify_failed_dependencies over the second listing).
THEOREM JudgedRightly == Spec => []DependenciesJudged
  BY InvariantJudges, Invariance, PTL

\* A walk that ended has the newest transitions.
LEMMA InvariantGathers == ASSUME IInv PROVE NewestTransitions
  <1> DEFINE oldest == IF start > MaxScan THEN start - MaxScan + 1 ELSE 1
             window == {k \in oldest .. start : journal[k].kind # None /\ journal[k].unit = Target}
             own == {k \in window : journal[k].manager = Scope}
             Place(k) == Cardinality({j \in window : j >= k})
  <1>0. ASSUME ShowsNewest(window)
        PROVE  \E w \in SUBSET window : own \subseteq w /\ ShowsNewest(w)
    <2> HIDE DEF oldest, Place
    <2>1. window \in SUBSET window /\ own \subseteq window
      OBVIOUS
    <2> HIDE DEF window, own
    <2> QED
      BY <1>0, <2>1
  <1> SUFFICES ASSUME answer # None, answer.ok, << "journal" >> \notin failed
               PROVE  /\ Len(answer.transitions) =
                            (IF Cardinality(window) < Limit THEN Cardinality(window) ELSE Limit)
                      /\ \A k \in window :
                            (Place(k) <= Limit) => (answer.transitions[Place(k)] = journal[k])
    <2> USE <1>0
    <2> QED
      BY DEF NewestTransitions, ShowsNewest
  <1>1. Found /\ Past /\ Accepted /\ answer.transitions = transitions
    BY DEF Found, Past, Accepted, IInv, Staged
  <1>2. /\ Limit \in Nat /\ Limit >= 1 /\ Len(transitions) <= Limit
        /\ MaxScan \in Nat /\ MaxScan >= 1 /\ scanned \in Nat /\ scanned <= MaxScan
        /\ start \in Nat /\ at \in Nat /\ Len(transitions) \in Nat
    BY <1>1, LimitsAssumption DEF IInv, Staged, Walked, TypeOK
  <1>3. window = Between(oldest)
    BY DEF Between, IsOf
  <1>4. oldest \in Nat /\ oldest >= 1
    BY <1>2
  <1>5. CASE scanned = 0
    <2>1. start = 0 /\ transitions = << >>
      BY <1>5 DEF IInv, Walked
    <2>2. window = {}
      BY <1>2, <1>4, <2>1
    <2> HIDE DEF window
    <2> QED
      BY <1>1, <1>2, <2>1, <2>2, FS_EmptySet
  <1>6. CASE scanned # 0
    <2>1. /\ Gathered /\ at = start - scanned + 1 /\ at >= 1
          /\ Len(transitions) >= Limit \/ scanned >= MaxScan \/ at = 1
      BY <1>1, <1>2, <1>6 DEF IInv, Walked, Gathered
    <2>2. at >= oldest /\ (scanned >= MaxScan \/ at = 1 => at = oldest)
      BY <1>2, <1>6, <2>1
    <2>3. Between(at) \in SUBSET window
      BY <1>2, <1>3, <1>4, <2>2 DEF Between
    <2>4. IsFiniteSet(window) /\ Cardinality(window) \in Nat
      <3> HIDE DEF oldest
      <3>1. IsFiniteSet(oldest .. start)
        BY <1>2, <1>4, FS_Interval
      <3>2. window \in SUBSET (oldest .. start)
        OBVIOUS
      <3> QED
        BY <3>1, <3>2, FS_Subset, FS_CardinalityType
    <2>5. Cardinality(Between(at)) <= Cardinality(window) /\ Len(transitions) = Cardinality(Between(at))
      BY <2>1, <2>3, <2>4, FS_Subset DEF Gathered
    <2>6. at = oldest => Len(transitions) = Cardinality(window)
      BY <1>3, <2>5
    <2>7. Len(transitions) = (IF Cardinality(window) < Limit THEN Cardinality(window) ELSE Limit)
      <3> HIDE DEF window, oldest
      <3> QED
        BY <1>2, <2>1, <2>2, <2>4, <2>5, <2>6
    <2>8. \A k \in window : k \in Nat /\ k >= oldest
      BY <1>2, <1>4
    <2>9. \A k \in window : {j \in window : j >= k} = Between(k)
      BY <1>2, <1>3, <1>4 DEF Between
    <2>10. ASSUME NEW k \in window, k >= at PROVE transitions[Place(k)] = journal[k]
      <3>1. k \in Between(at)
        BY <1>2, <1>3, <1>4, <2>10 DEF Between
      <3> QED
        BY <2>1, <2>9, <3>1 DEF Gathered
    <2>11. ASSUME NEW k \in window, k < at PROVE Place(k) > Limit
      <3>1. at # oldest
        BY <1>2, <1>4, <2>8, <2>11
      <3>2. Len(transitions) >= Limit
        BY <2>1, <2>2, <3>1
      <3>3. Between(at) \in SUBSET Between(k) /\ k \in Between(k) /\ k \notin Between(at)
        BY <1>2, <1>3, <1>4, <2>8, <2>11 DEF Between
      <3>4. IsFiniteSet(Between(k))
        <4>1. Between(k) \in SUBSET window
          BY <2>9
        <4> QED
          BY <2>4, <4>1, FS_Subset
      <3>5. /\ Cardinality(Between(k)) \in Nat /\ Cardinality(Between(at)) <= Cardinality(Between(k))
            /\ Cardinality(Between(at)) # Cardinality(Between(k))
        BY <3>3, <3>4, FS_Subset, FS_CardinalityType
      <3>6. Place(k) = Cardinality(Between(k))
        BY <2>9
      <3> HIDE DEF Place
      <3> QED
        BY <1>2, <2>5, <3>2, <3>5, <3>6
    <2> HIDE DEF window, oldest, Place
    <2>12. \A k \in window : Place(k) \in Nat
      <3>1. \A k \in window : {j \in window : j >= k} \in SUBSET window
        OBVIOUS
      <3> QED
        BY <2>4, <3>1, FS_Subset, FS_CardinalityType DEF Place
    <2>13. \A k \in window : (Place(k) <= Limit) => (transitions[Place(k)] = journal[k])
      BY <1>2, <2>8, <2>10, <2>11, <2>12
    <2> QED
      BY <1>1, <2>7, <2>13
  <1> QED
    BY <1>5, <1>6

\* The transitions are the newest among the last MaxScan entries of those that name the unit,
\* which include all that the request's manager logged, newest first, none skipped and none
\* twice, however the journal grows (read_unit_transitions).
THEOREM TransitionsAreNewest == Spec => []NewestTransitions
  BY InvariantGathers, Invariance, PTL

=============================================================================
