--------------------------- MODULE SinceStartProofs ---------------------------
(***************************************************************************)
(* Proofs about SinceStart for every call, unit and number of pages: rows  *)
(* come once and in order though the window moves between pages            *)
(* (RowsOnce), a walk over one run has all of it (WholeRun), and no page   *)
(* shows entries of a run that was over (NoOldRun).                        *)
(*                                                                         *)
(* The window is looked up again for every page, so that the invariant is  *)
(* about the rows that every window so far had in it: each was delivered,  *)
(* or comes after the cursor.                                              *)
(***************************************************************************)
EXTENDS SinceStart, SequenceTheorems, FiniteSetTheorems, TLAPS

-----------------------------------------------------------------------------
(***************************************************************************)
(* The inductive invariant.                                                *)
(***************************************************************************)

\* The shape of the state.
TypeOK ==
    /\ request \in Requests
    /\ pc \in {"client", "resolve", "read"}
    /\ now \in Nat
    /\ entered \in Nat \union {None} /\ asked \in Nat \union {None}
    /\ journal \in Seq(Nat) /\ rows \in Seq(Nat)
    /\ known \in Nat /\ began \in Nat /\ run \in Nat /\ over \in Nat

\* The unit was not active after now, nor, when a page was asked for, after it last became
\* active.
Dated ==
    /\ (entered # None) => (entered <= now)
    /\ (asked # None) => (asked <= now)
    /\ (asked # None /\ entered # None) => (asked <= entered)

\* Entries are of the past, and those of the runs before the active one from before it became
\* active.
RunsApart ==
    /\ \A i \in 1 .. Len(journal) : journal[i] <= now
    /\ began <= Len(journal) /\ run <= Len(journal) /\ over <= Len(journal)
    /\ (entered # None) => \A i \in 1 .. run : journal[i] <= entered
    /\ (over > 0) => (asked # None /\ \A i \in 1 .. over : journal[i] <= asked)

\* A page that is read has a start and a limit, and begins no earlier than the run of the unit.
Resolved ==
    /\ (pc # "client") => Walking
    /\ (pc = "read") =>
          /\ start \in Nat /\ start \in starts
          /\ LimitOf(request) \in Nat \ {0}
          /\ (asked # None) => (Printed(asked) <= start)

\* Rows are entries, and the walk goes on from the last of them.
Delivered ==
    /\ \A k \in 1 .. Len(rows) : rows[k] \in 1 .. Len(journal)
    /\ Walking => (cursor = IF rows = << >> THEN 0 ELSE rows[Len(rows)])

\* The entries that were there at first and in the window of every page so far.
Owed ==
    {i \in 1 .. known : (\A s \in starts : s <= journal[i]) /\ journal[i] <= request.end}

\* Each of them has been delivered, or comes after the cursor.
Gathered ==
    /\ known <= Len(journal)
    /\ (Walking /\ rows # << >>) =>
          \A i \in Owed : (\E k \in 1 .. Len(rows) : rows[k] = i) \/ InOrder(cursor, i)
    /\ (outcome = "complete") =>
          \A i \in Owed : \E k \in 1 .. Len(rows) : rows[k] = i

IInv == TypeOK /\ Dated /\ RunsApart /\ Resolved /\ Delivered /\ RowsOnce /\ Gathered

-----------------------------------------------------------------------------
(***************************************************************************)
(* Times and the order of rows.                                            *)
(***************************************************************************)

\* What is cut off a printed time leaves it no later, and times in order.
LEMMA PrintedFacts ==
  /\ \A a \in Nat : Printed(a) \in Nat /\ Printed(a) <= a
  /\ \A a, b \in Nat : a <= b => Printed(a) <= Printed(b)
  /\ \A a, b \in Nat : (Printed(a) <= b /\ b <= a) => Printed(b) = Printed(a)
  <1>1. Milli \in Nat /\ Milli > 0
    BY TimesAssumption
  <1>2. ASSUME NEW a \in Nat
        PROVE  /\ a \div Milli \in Nat /\ a % Milli \in 0 .. (Milli - 1)
               /\ a = Milli * (a \div Milli) + (a % Milli)
    BY <1>1
  <1>3. ASSUME NEW a \in Nat PROVE Printed(a) = Milli * (a \div Milli)
    BY <1>1, <1>2 DEF Printed
  <1>4. ASSUME NEW a \in Nat PROVE Printed(a) \in Nat /\ Printed(a) <= a
    BY <1>1, <1>2, <1>3
  <1>5. ASSUME NEW a \in Nat, NEW b \in Nat, a <= b PROVE Printed(a) <= Printed(b)
    <2> DEFINE q == a \div Milli
               r == b \div Milli
    <2>1. q \in Nat /\ r \in Nat /\ a = Milli * q + (a % Milli) /\ b = Milli * r + (b % Milli)
      BY <1>2
    <2>2. a % Milli \in 0 .. (Milli - 1) /\ b % Milli \in 0 .. (Milli - 1)
      BY <1>2
    <2>3. Printed(a) = Milli * q /\ Printed(b) = Milli * r
      BY <1>3
    <2> HIDE DEF q, r
    <2>4. CASE q <= r
      <3>1. Milli * q <= Milli * r
        BY <1>1, <2>1, <2>4
      <3> QED
        BY <2>3, <3>1
    <2>5. CASE q >= r + 1
      <3>1. Milli * q >= Milli * r + Milli
        BY <1>1, <2>1, <2>5
      <3>2. Milli * q \in Nat /\ Milli * r \in Nat
        BY <1>1, <2>1
      <3>3. a >= Milli * q /\ b < Milli * r + Milli
        BY <1>1, <2>1, <2>2, <3>2
      <3> QED
        BY <1>1, <1>5, <3>1, <3>2, <3>3
    <2> QED
      BY <2>1, <2>4, <2>5
  <1>6. ASSUME NEW a \in Nat, NEW b \in Nat, Printed(a) <= b, b <= a PROVE Printed(b) = Printed(a)
    <2> DEFINE q == a \div Milli
               r == b \div Milli
    <2>1. q \in Nat /\ r \in Nat /\ a = Milli * q + (a % Milli) /\ b = Milli * r + (b % Milli)
      BY <1>2
    <2>2. a % Milli \in 0 .. (Milli - 1) /\ b % Milli \in 0 .. (Milli - 1)
      BY <1>2
    <2>3. Printed(a) = Milli * q /\ Printed(b) = Milli * r /\ Printed(b) <= Printed(a)
      BY <1>3, <1>5, <1>6
    <2> HIDE DEF q, r
    <2>4. Milli * q \in Nat /\ Milli * r \in Nat
      BY <1>1, <2>1
    <2>5. CASE q <= r
      <3>1. Milli * q <= Milli * r
        BY <1>1, <2>1, <2>5
      <3> QED
        BY <2>3, <2>4, <3>1
    <2>6. CASE q >= r + 1
      <3>1. Milli * q >= Milli * r + Milli
        BY <1>1, <2>1, <2>6
      <3>2. b < Milli * r + Milli
        BY <1>1, <2>1, <2>2, <2>4
      <3> QED
        BY <1>1, <1>6, <2>3, <2>4, <3>1, <3>2
    <2> QED
      BY <2>1, <2>5, <2>6
  <1> QED
    BY <1>4, <1>5, <1>6

\* Rows are in a strict total order.
LEMMA OrderFacts ==
  /\ \A x \in Int : ~InOrder(x, x)
  /\ \A x, y, z \in Int : (InOrder(x, y) /\ InOrder(y, z)) => InOrder(x, z)
  /\ \A x, y \in Int : InOrder(x, y) \/ InOrder(y, x) \/ x = y
  BY DEF InOrder

\* Arranged puts each row at the place of its rank, and none is left out.
LEMMA ArrangedFacts ==
  ASSUME NEW S \in SUBSET Int, IsFiniteSet(S)
  PROVE  LET list == Arranged(S, InOrder)
         IN  /\ list \in Seq(S)
             /\ \A x \in S : \E k \in 1 .. Len(list) : list[k] = x
             /\ \A j, k \in 1 .. Len(list) : j < k => InOrder(list[j], list[k])
  <1> DEFINE n == Cardinality(S)
             Below(x) == {y \in S : InOrder(y, x)}
             list == Arranged(S, InOrder)
  <1>1. /\ \A x \in S : ~InOrder(x, x)
        /\ \A x, y, z \in S : (InOrder(x, y) /\ InOrder(y, z)) => InOrder(x, z)
        /\ \A x, y \in S : InOrder(x, y) \/ InOrder(y, x) \/ x = y
    BY OrderFacts
  <1>2. n \in Nat
    BY FS_CardinalityType
  <1>3. \A x \in S : Cardinality(Below(x)) \in 0 .. (n - 1)
    <2> SUFFICES ASSUME NEW x \in S PROVE Cardinality(Below(x)) \in 0 .. (n - 1)
      OBVIOUS
    <2>1. Below(x) \in SUBSET S /\ Below(x) # S
      BY <1>1
    <2>2. Cardinality(Below(x)) \in Nat /\ Cardinality(Below(x)) <= n /\ Cardinality(Below(x)) # n
      BY <2>1, FS_Subset, FS_CardinalityType
    <2> QED
      BY <1>2, <2>2
  <1>4. \A x, y \in S : InOrder(x, y) => Cardinality(Below(x)) < Cardinality(Below(y))
    <2> SUFFICES ASSUME NEW x \in S, NEW y \in S, InOrder(x, y)
                 PROVE  Cardinality(Below(x)) < Cardinality(Below(y))
      OBVIOUS
    <2>1. Below(x) \in SUBSET Below(y) /\ Below(x) # Below(y)
      BY <1>1
    <2>2. IsFiniteSet(Below(y))
      <3>1. Below(y) \in SUBSET S
        OBVIOUS
      <3> QED
        BY <3>1, FS_Subset
    <2>3. Cardinality(Below(x)) <= Cardinality(Below(y)) /\ Cardinality(Below(x)) # Cardinality(Below(y))
      BY <2>1, <2>2, FS_Subset
    <2> HIDE DEF Below
    <2> QED
      BY <1>2, <1>3, <2>3
  <1>5. \A k \in 1 .. n : \E x \in S : Cardinality(Below(x)) = k - 1
    <2> DEFINE rank == [x \in S |-> Cardinality(Below(x)) + 1]
    <2>1. rank \in [S -> 1 .. n]
      BY <1>2, <1>3
    <2>2. ASSUME NEW x \in S, NEW y \in S, rank[x] = rank[y] PROVE x = y
      <3>1. /\ Cardinality(Below(x)) \in Int /\ Cardinality(Below(y)) \in Int
            /\ Cardinality(Below(x)) + 1 = Cardinality(Below(y)) + 1
        BY <1>2, <1>3, <2>2
      <3>2. Cardinality(Below(x)) = Cardinality(Below(y))
        BY <3>1
      <3>3. ~InOrder(x, y) /\ ~InOrder(y, x)
        BY <1>4, <3>1, <3>2
      <3> QED
        BY <1>1, <3>3
    <2>3. rank \in Injection(S, 1 .. n)
      BY <2>1, <2>2 DEF Injection, IsInjective
    <2>4. IsFiniteSet(1 .. n) /\ Cardinality(1 .. n) = n
      BY <1>2, FS_Interval
    <2>5. rank \in Surjection(S, 1 .. n)
      BY <2>3, <2>4, FS_Injection
    <2>6. \A k \in 1 .. n : \E x \in S : rank[x] = k
      BY <2>5 DEF Surjection
    <2> HIDE DEF Below
    <2>7. \A x \in S : rank[x] = Cardinality(Below(x)) + 1
      OBVIOUS
    <2> HIDE DEF rank
    <2> QED
      BY <1>2, <1>3, <2>6, <2>7
  <1>6. list = [k \in 1 .. n |-> CHOOSE x \in S : Cardinality(Below(x)) = k - 1]
    BY DEF Arranged
  <1> HIDE DEF list, Below
  <1>7. \A k \in 1 .. n : list[k] \in S /\ Cardinality(Below(list[k])) = k - 1
    BY <1>5, <1>6
  <1>8. list \in Seq(S) /\ Len(list) = n
    <2>1. list \in [1 .. n -> S]
      BY <1>6, <1>7
    <2> QED
      BY <1>2, <2>1
  <1>9. \A x \in S : Cardinality(Below(x)) \in Int
    BY <1>2, <1>3
  <1>10. ASSUME NEW x \in S, NEW y \in S, Cardinality(Below(x)) <= Cardinality(Below(y))
         PROVE  InOrder(x, y) \/ x = y
    <2>1. ~InOrder(y, x)
      <3>1. ASSUME InOrder(y, x) PROVE FALSE
        <4>1. Cardinality(Below(y)) < Cardinality(Below(x))
          BY <1>4, <3>1
        <4> QED
          BY <1>9, <1>10, <4>1
      <3> QED
        BY <3>1
    <2> QED
      BY <1>1, <2>1
  <1>11. ASSUME NEW x \in S PROVE \E k \in 1 .. n : list[k] = x
    <2>1. Cardinality(Below(x)) + 1 \in 1 .. n
      BY <1>2, <1>3
    <2>2. PICK k \in 1 .. n : k = Cardinality(Below(x)) + 1
      BY <2>1
    <2>3. PICK y \in S : y = list[k] /\ Cardinality(Below(y)) = Cardinality(Below(x))
      <3>1. list[k] \in S /\ Cardinality(Below(list[k])) = k - 1
        BY <1>7
      <3>2. k - 1 = Cardinality(Below(x))
        BY <1>9, <2>2
      <3> QED
        BY <3>1, <3>2
    <2>4. (InOrder(x, y) \/ x = y) /\ (InOrder(y, x) \/ x = y)
      BY <1>9, <1>10, <2>3
    <2>5. y = x
      BY <1>1, <2>3, <2>4
    <2> QED
      BY <2>3, <2>5
  <1>12. ASSUME NEW j \in 1 .. n, NEW k \in 1 .. n, j < k PROVE InOrder(list[j], list[k])
    <2>1. list[j] \in S /\ list[k] \in S
      BY <1>7
    <2>2. Cardinality(Below(list[j])) = j - 1 /\ Cardinality(Below(list[k])) = k - 1
      BY <1>7
    <2>3. Cardinality(Below(list[j])) <= Cardinality(Below(list[k])) /\ list[j] # list[k]
      BY <1>2, <1>12, <2>2
    <2> QED
      BY <1>10, <2>1, <2>3
  <1> QED
    BY <1>8, <1>11, <1>12 DEF list

-----------------------------------------------------------------------------
(***************************************************************************)
(* Every step keeps the invariant.                                         *)
(***************************************************************************)

\* systemd and the unit: the clock goes on, the unit's start moves, entries are appended.
LEMMA HostInvariant ==
  ASSUME IInv, Tick \/ StartMain \/ Activate \/ Stop \/ Unload \/ Log
  PROVE  IInv'
  <1>1. UNCHANGED << request, pc, cursor, start, rows, outcome, starts, asked, known, over >>
    BY DEF Tick, StartMain, Activate, Stop, Unload, Log, handler
  <1>2. /\ (now' = now /\ entered' = entered) \/ (now' = now + 1 /\ entered' = entered)
           \/ (now' = now /\ entered' = now) \/ (now' = now /\ entered' = None)
        /\ journal' = journal \/ journal' = Append(journal, now)
        /\ began' = began \/ began' = Len(journal)
        /\ (run' = run /\ (entered' = entered \/ entered' = None)) \/ (run' = began /\ entered' = now)
    BY DEF Tick, StartMain, Activate, Stop, Unload, Log
  <1>3. TypeOK'
    <2>1. now' \in Nat /\ entered' \in Nat \union {None}
      BY <1>2 DEF IInv, TypeOK
    <2>2. journal' \in Seq(Nat)
      <3>1. journal \in Seq(Nat) /\ now \in Nat
        BY DEF IInv, TypeOK
      <3>2. Append(journal, now) \in Seq(Nat)
        BY <3>1
      <3> QED
        BY <1>2, <3>1, <3>2
    <2>3. began' \in Nat /\ run' \in Nat
      BY <1>2 DEF IInv, TypeOK
    <2> QED
      BY <1>1, <2>1, <2>2, <2>3 DEF IInv, TypeOK
  <1>4. Dated'
    <2>1. /\ now \in Nat /\ (entered = None \/ entered \in Nat) /\ (asked = None \/ asked \in Nat)
          /\ (entered # None) => (entered <= now)
          /\ (asked # None /\ entered # None) => (asked <= entered)
          /\ (asked # None) => (asked <= now)
      BY DEF IInv, TypeOK, Dated
    <2> QED
      BY <1>1, <1>2, <2>1 DEF Dated
  <1>5. Resolved'
    BY <1>1 DEF IInv, Resolved, Walking, LimitOf, Printed
  <1>6. /\ Len(journal) \in Nat /\ Len(journal') \in Nat /\ Len(journal') >= Len(journal)
        /\ \A i \in 1 .. Len(journal) : journal'[i] = journal[i]
    <2>1. journal \in Seq(Nat) /\ now \in Nat
      BY DEF IInv, TypeOK
    <2>2. CASE journal' = journal
      BY <2>1, <2>2
    <2>3. CASE journal' = Append(journal, now)
      BY <2>1, <2>3
    <2> QED
      BY <1>2, <2>2, <2>3
  <1>7. Delivered'
    BY <1>1, <1>6 DEF IInv, Delivered, Walking
  <1>11. RunsApart'
    <2>1. /\ now \in Nat /\ now' \in Nat /\ now <= now' /\ began \in Nat /\ run \in Nat /\ over \in Nat
          /\ began <= Len(journal) /\ run <= Len(journal) /\ over <= Len(journal)
          /\ \A i \in 1 .. Len(journal) : journal[i] \in Nat /\ journal[i] <= now
      BY <1>2 DEF IInv, TypeOK, RunsApart
    <2>2. \A i \in 1 .. Len(journal') : journal'[i] \in Nat /\ journal'[i] <= now'
      <3>1. CASE journal' = journal
        BY <2>1, <3>1
      <3>2. CASE journal' = Append(journal, now)
        <4>1. Len(journal') = Len(journal) + 1 /\ journal'[Len(journal) + 1] = now
          BY <3>2 DEF IInv, TypeOK
        <4>2. ASSUME NEW i \in 1 .. Len(journal') PROVE i \in 1 .. Len(journal) \/ i = Len(journal) + 1
          BY <1>6, <4>1
        <4> QED
          BY <1>6, <2>1, <4>1, <4>2
      <3> QED
        BY <1>2, <3>1, <3>2
    <2>3. began' <= Len(journal') /\ run' <= Len(journal') /\ over' <= Len(journal')
      BY <1>1, <1>2, <1>6, <2>1
    <2>4. (entered' # None) => \A i \in 1 .. run' : journal'[i] <= entered'
      <3>1. CASE run' = run /\ (entered' = entered \/ entered' = None)
        <4>1. \A i \in 1 .. run : journal'[i] = journal[i]
          BY <1>6, <2>1
        <4> QED
          BY <3>1, <4>1 DEF IInv, RunsApart
      <3>2. CASE run' = began /\ entered' = now
        <4>1. \A i \in 1 .. began : journal'[i] = journal[i] /\ journal[i] <= now
          BY <1>6, <2>1
        <4> QED
          BY <3>2, <4>1
      <3> QED
        BY <1>2, <3>1, <3>2
    <2>5. (over' > 0) => (asked' # None /\ \A i \in 1 .. over' : journal'[i] <= asked')
      <3>1. \A i \in 1 .. over : journal'[i] = journal[i]
        BY <1>6, <2>1
      <3> QED
        BY <1>1, <3>1 DEF IInv, RunsApart
    <2> QED
      BY <2>2, <2>3, <2>4, <2>5 DEF RunsApart
  <1>8. RowsOnce'
    BY <1>1 DEF IInv, RowsOnce, InOrder
  <1>9. Owed' = Owed
    <2>1. \A i \in 1 .. known : journal'[i] = journal[i]
      BY <1>6 DEF IInv, Gathered, TypeOK
    <2> QED
      BY <1>1, <2>1 DEF Owed
  <1>10. Gathered'
    <2>1. known' <= Len(journal')
      BY <1>1, <1>6 DEF IInv, Gathered, TypeOK
    <2> QED
      BY <1>1, <1>9, <2>1 DEF IInv, Gathered, Walking, InOrder
  <1> QED
    BY <1>3, <1>4, <1>5, <1>7, <1>8, <1>10, <1>11 DEF IInv

\* The client asks for a page.
LEMMA AskInvariant == ASSUME IInv, Ask PROVE IInv'
  <1>1. /\ Walking /\ pc' = "resolve" /\ asked' = entered
        /\ over' = (IF entered = None THEN 0 ELSE run)
        /\ UNCHANGED << request, now, entered, journal, cursor, start, rows, outcome, starts, known,
                        began, run >>
    BY DEF Ask, unit
  <1>2. TypeOK' /\ Dated'
    <2>1. over' \in Nat
      BY <1>1 DEF IInv, TypeOK
    <2> QED
      BY <1>1, <2>1 DEF IInv, TypeOK, Dated
  <1>7. RunsApart'
    <2>1. Len(journal) \in Nat
      BY DEF IInv, TypeOK
    <2>2. CASE entered = None
      BY <1>1, <2>1, <2>2 DEF IInv, RunsApart
    <2>3. CASE entered # None
      BY <1>1, <2>1, <2>3 DEF IInv, RunsApart
    <2> QED
      BY <2>2, <2>3
  <1>3. Resolved'
    BY <1>1 DEF Resolved, Walking
  <1>4. Delivered' /\ RowsOnce'
    BY <1>1 DEF IInv, Delivered, RowsOnce, InOrder, Walking
  <1>5. Owed' = Owed
    BY <1>1 DEF Owed
  <1>6. Gathered'
    BY <1>1, <1>5 DEF IInv, Gathered, Walking, InOrder
  <1> QED
    BY <1>2, <1>3, <1>4, <1>6, <1>7 DEF IInv

\* The call is refused, or the unit has no start.
LEMMA ResolveFailsInvariant == ASSUME IInv, ResolveFails PROVE IInv'
  <1>1. /\ pc = "resolve" /\ pc' = "client" /\ outcome' \notin {"walking", "complete"}
        /\ UNCHANGED << request, now, entered, journal, cursor, start, rows, starts, asked, known,
                        began, run, over >>
    BY DEF ResolveFails, Refuse, Premature, unit
  <1>2. ~Walking'
    BY <1>1 DEF Walking
  <1>3. TypeOK' /\ Dated' /\ RunsApart'
    BY <1>1 DEF IInv, TypeOK, Dated, RunsApart
  <1>4. Resolved'
    BY <1>1 DEF Resolved
  <1>5. Delivered' /\ RowsOnce'
    BY <1>1, <1>2 DEF IInv, Delivered, RowsOnce, InOrder
  <1>6. Gathered'
    BY <1>1, <1>2 DEF IInv, Gathered
  <1> QED
    BY <1>3, <1>4, <1>5, <1>6 DEF IInv

\* The limit of a call that is not refused is a number, and not zero.
LEMMA LimitFacts ==
  ASSUME NEW args, Refusal(args) = None, args.limit \in Nat \union {None}
  PROVE  LimitOf(args) \in Nat \ {0}
  <1>1. LimitOf(args) \in Nat
    BY PagesAssumption DEF LimitOf
  <1>2. LimitOf(args) # 0
    BY CodesAssumption DEF Refusal
  <1> QED
    BY <1>1, <1>2

\* The start of the unit is looked up, and makes the window of the page.
LEMMA ResolveInvariant == ASSUME IInv, Resolve PROVE IInv'
  <1>1. /\ pc = "resolve" /\ entered # None
        /\ start' = Printed(entered) /\ starts' = starts \union {start'}
        /\ UNCHANGED << request, now, entered, journal, cursor, rows, asked, known, began, run, over >>
    BY DEF Resolve, unit
  <1>2. \/ Refusal(Arguments) = None /\ pc' = "read" /\ outcome' = outcome
        \/ Refusal(Arguments) # None /\ pc' = "client" /\ outcome' = Refusal(Arguments)
    BY DEF Resolve, Refuse
  <1>3. (outcome' = "complete") => (outcome = "complete")
    BY <1>2 DEF Refusal
  <1>4. Walking' => Walking
    BY <1>1 DEF IInv, Resolved
  <1>5. TypeOK' /\ Dated' /\ RunsApart'
    BY <1>1, <1>2 DEF IInv, TypeOK, Dated, RunsApart
  <1>6. Resolved'
    <2>1. CASE Refusal(Arguments) = None /\ pc' = "read" /\ outcome' = outcome
      <3>1. request.limit \in Nat \union {None}
        BY PagesAssumption DEF IInv, TypeOK
      <3>2. LimitOf(Arguments) = LimitOf(request) /\ Arguments.limit = request.limit
        BY DEF LimitOf, Arguments
      <3>3. LimitOf(request) \in Nat \ {0}
        BY <2>1, <3>1, <3>2, LimitFacts
      <3>4. start' \in Nat /\ start' \in starts' /\ ((asked # None) => Printed(asked) <= start')
        <4>1. entered \in Nat /\ asked \in Nat \union {None} /\ ((asked # None) => asked <= entered)
          BY <1>1 DEF IInv, TypeOK, Dated
        <4> QED
          BY <1>1, <4>1, PrintedFacts
      <3>5. Walking'
        BY <1>1, <2>1 DEF IInv, Resolved, Walking
      <3> QED
        BY <1>1, <2>1, <3>3, <3>4, <3>5 DEF Resolved, LimitOf, Printed
    <2>2. CASE pc' = "client"
      BY <2>2 DEF Resolved
    <2> QED
      BY <1>2, <2>1, <2>2
  <1>7. Delivered' /\ RowsOnce'
    BY <1>1, <1>4 DEF IInv, Delivered, RowsOnce, InOrder
  <1>8. Owed' \subseteq Owed
    BY <1>1 DEF Owed
  <1>9. Gathered'
    BY <1>1, <1>3, <1>4, <1>8 DEF IInv, Gathered, InOrder
  <1> QED
    BY <1>5, <1>6, <1>7, <1>9 DEF IInv

\* A page: its rows come after the cursor, and what it leaves out comes after its last.
LEMMA PageFacts ==
  ASSUME IInv, Read
  PROVE  \E page \in Seq(Nat) :
            /\ rows' = rows \o page
            /\ \A k \in 1 .. Len(page) : page[k] \in Remaining
            /\ \A j, k \in 1 .. Len(page) : j < k => InOrder(page[j], page[k])
            /\ \/ /\ outcome' = "complete" /\ cursor' = 0
                  /\ \A i \in Remaining : \E k \in 1 .. Len(page) : page[k] = i
               \/ /\ outcome' = "walking" /\ Len(page) > 0 /\ cursor' = page[Len(page)]
                  /\ \A i \in Remaining :
                        (\E k \in 1 .. Len(page) : page[k] = i) \/ InOrder(cursor', i)
  <1> DEFINE list == Arranged(Remaining, InOrder)
             limit == LimitOf(request)
             more == Len(list) > limit
             m == IF more THEN limit ELSE Len(list)
             page == SubSeq(list, 1, m)
  <1>1. Remaining \in SUBSET Int /\ Remaining \in SUBSET Nat /\ IsFiniteSet(Remaining)
    <2>1. DOMAIN journal = 1 .. Len(journal) /\ Len(journal) \in Nat
      BY DEF IInv, TypeOK
    <2>2. IsFiniteSet(1 .. Len(journal))
      BY <2>1, FS_Interval
    <2>3. Remaining \in SUBSET (1 .. Len(journal))
      BY <2>1 DEF Remaining
    <2>4. IsFiniteSet(Remaining)
      BY <2>2, <2>3, FS_Subset
    <2>5. (1 .. Len(journal)) \in SUBSET Nat /\ (1 .. Len(journal)) \in SUBSET Int
      BY <2>1
    <2> QED
      BY <2>3, <2>4, <2>5
  <1>2. /\ list \in Seq(Remaining)
        /\ \A i \in Remaining : \E k \in 1 .. Len(list) : list[k] = i
        /\ \A j, k \in 1 .. Len(list) : j < k => InOrder(list[j], list[k])
    BY <1>1, ArrangedFacts
  <1>3. limit \in Nat \ {0}
    BY DEF IInv, Resolved, Read
  <1>4. /\ rows' = rows \o page
        /\ cursor' = (IF more THEN page[limit] ELSE 0)
        /\ outcome' = (IF more THEN "walking" ELSE "complete")
    BY DEF Read
  <1> HIDE DEF list, limit
  <1>5. /\ Len(list) \in Nat /\ m \in 0 .. Len(list)
        /\ more => (m = limit /\ m > 0)
        /\ ~more => (m = Len(list))
    BY <1>2, <1>3
  <1> HIDE DEF more, m
  <1>6. /\ page \in Seq(Remaining) /\ Len(page) = m
        /\ \A k \in 1 .. m : page[k] = list[k]
    BY <1>2, <1>5
  <1>7. page \in Seq(Nat)
    <2>1. \A k \in 1 .. Len(page) : page[k] \in Nat
      BY <1>1, <1>6, ElementOfSeq
    <2>2. page = [k \in 1 .. Len(page) |-> page[k]] /\ Len(page) \in Nat
      BY <1>6
    <2> HIDE DEF page
    <2> QED
      BY <2>1, <2>2
  <1> HIDE DEF page
  <1>8. \A k \in 1 .. Len(page) : page[k] \in Remaining
    BY <1>6, ElementOfSeq
  <1>9. \A j, k \in 1 .. Len(page) : j < k => InOrder(page[j], page[k])
    <2>1. \A k \in 1 .. m : k \in 1 .. Len(list)
      BY <1>5
    <2> QED
      BY <1>2, <1>6, <2>1
  <1>10. ASSUME NEW i \in Remaining
         PROVE  (\E k \in 1 .. Len(page) : page[k] = i)
                \/ (more /\ InOrder(page[m], i))
    <2>1. PICK k \in 1 .. Len(list) : list[k] = i
      BY <1>2
    <2>2. CASE k <= m
      <3>1. k \in 1 .. m
        BY <1>5, <2>2
      <3> QED
        BY <1>6, <2>1, <3>1
    <2>3. CASE k > m
      <3>1. more /\ m \in 1 .. Len(list) /\ m \in 1 .. m
        BY <1>5, <2>3
      <3>2. InOrder(list[m], list[k]) /\ page[m] = list[m]
        BY <1>2, <1>6, <2>3, <3>1
      <3> QED
        BY <2>1, <3>1, <3>2
    <2> QED
      BY <1>5, <2>2, <2>3
  <1>11. CASE more
    <2>1. outcome' = "walking" /\ Len(page) > 0 /\ cursor' = page[Len(page)]
      BY <1>4, <1>5, <1>6, <1>11
    <2>2. \A i \in Remaining : (\E k \in 1 .. Len(page) : page[k] = i) \/ InOrder(cursor', i)
      BY <1>6, <1>10, <2>1
    <2> QED
      BY <1>4, <1>7, <1>8, <1>9, <2>1, <2>2
  <1>12. CASE ~more
    <2>1. outcome' = "complete" /\ cursor' = 0
      BY <1>4, <1>12
    <2>2. \A i \in Remaining : \E k \in 1 .. Len(page) : page[k] = i
      BY <1>10, <1>12
    <2> QED
      BY <1>4, <1>7, <1>8, <1>9, <2>1, <2>2
  <1> QED
    BY <1>11, <1>12

\* A page is read.
LEMMA ReadInvariant == ASSUME IInv, Read PROVE IInv'
  <1>1. /\ pc = "read" /\ pc' = "client" /\ Walking
        /\ known' = (IF rows = << >> THEN Len(journal) ELSE known)
        /\ UNCHANGED << request, now, entered, journal, start, starts, asked, began, run, over >>
    BY DEF Read, unit, IInv, Resolved
  <1>2. PICK page \in Seq(Nat) :
            /\ rows' = rows \o page
            /\ \A k \in 1 .. Len(page) : page[k] \in Remaining
            /\ \A j, k \in 1 .. Len(page) : j < k => InOrder(page[j], page[k])
            /\ \/ /\ outcome' = "complete" /\ cursor' = 0
                  /\ \A i \in Remaining : \E k \in 1 .. Len(page) : page[k] = i
               \/ /\ outcome' = "walking" /\ Len(page) > 0 /\ cursor' = page[Len(page)]
                  /\ \A i \in Remaining :
                        (\E k \in 1 .. Len(page) : page[k] = i) \/ InOrder(cursor', i)
    BY PageFacts
  <1>3. /\ rows \in Seq(Nat) /\ Len(rows) \in Nat /\ Len(page) \in Nat
        /\ rows' \in Seq(Nat) /\ Len(rows') = Len(rows) + Len(page)
        /\ \A k \in 1 .. Len(rows) : rows'[k] = rows[k]
        /\ \A k \in 1 .. Len(page) : rows'[Len(rows) + k] = page[k]
    BY <1>2 DEF IInv, TypeOK
  <1>4. Len(journal) \in Nat /\ DOMAIN journal = 1 .. Len(journal) /\ known \in Nat
    BY DEF IInv, TypeOK
  <1>5. TypeOK'
    <2>1. known' \in Nat
      BY <1>1, <1>4
    <2> QED
      BY <1>1, <1>3, <2>1 DEF IInv, TypeOK
  <1>6. Dated' /\ RunsApart'
    BY <1>1 DEF IInv, Dated, RunsApart
  <1>7. Resolved'
    BY <1>1 DEF Resolved
  <1>8. \A k \in 1 .. Len(rows') : k \in 1 .. Len(rows) \/ k - Len(rows) \in 1 .. Len(page)
    BY <1>3
  <1>9. \A k \in 1 .. Len(page) : page[k] \in 1 .. Len(journal) /\ ((rows # << >>) => InOrder(cursor, page[k]))
    <2>1. (rows # << >>) => (cursor # 0)
      <3>1. ASSUME rows # << >> PROVE cursor # 0
        <4>1. Len(rows) \in 1 .. Len(rows)
          BY <1>3, <3>1
        <4>2. cursor = rows[Len(rows)] /\ cursor \in 1 .. Len(journal)
          BY <1>1, <3>1, <4>1 DEF IInv, Delivered
        <4> QED
          BY <1>4, <4>2
      <3> QED
        BY <3>1
    <2> QED
      BY <1>2, <1>4, <2>1 DEF Remaining
  <1>10. Delivered'
    <2>1. ASSUME NEW k \in 1 .. Len(rows') PROVE rows'[k] \in 1 .. Len(journal)
      <3>1. CASE k \in 1 .. Len(rows)
        BY <1>3, <3>1 DEF IInv, Delivered
      <3>2. CASE k - Len(rows) \in 1 .. Len(page)
        <4>1. rows'[Len(rows) + (k - Len(rows))] = page[k - Len(rows)]
          BY <1>3, <3>2
        <4>2. Len(rows) + (k - Len(rows)) = k
          BY <1>3
        <4> QED
          BY <1>9, <3>2, <4>1, <4>2
      <3> QED
        BY <1>8, <3>1, <3>2
    <2>2. Walking' => (rows' # << >> /\ cursor' = rows'[Len(rows')])
      <3>1. ASSUME Walking' PROVE Len(page) > 0 /\ cursor' = page[Len(page)]
        BY <1>2, <3>1 DEF Walking
      <3>2. ASSUME Walking' PROVE Len(rows') > 0 /\ cursor' = rows'[Len(rows')]
        <4>1. Len(page) \in 1 .. Len(page)
          BY <1>3, <3>1, <3>2
        <4>2. rows'[Len(rows) + Len(page)] = page[Len(page)]
          BY <1>3, <4>1
        <4> QED
          BY <1>3, <3>1, <3>2, <4>2
      <3> QED
        BY <1>3, <3>2
    <2> QED
      BY <1>1, <2>1, <2>2 DEF Delivered
  <1>11. RowsOnce'
    <2>1. DOMAIN rows' = 1 .. Len(rows') /\ DOMAIN rows = 1 .. Len(rows)
      BY <1>3
    <2>2. \A i, j : InOrder(i, j)' <=> InOrder(i, j)
      BY <1>1 DEF InOrder
    <2>3. ASSUME NEW j \in 1 .. Len(rows'), NEW k \in 1 .. Len(rows'), j < k
          PROVE  InOrder(rows'[j], rows'[k])
      <3>1. CASE k \in 1 .. Len(rows)
        <4>1. j \in 1 .. Len(rows)
          BY <1>3, <2>3, <3>1
        <4> QED
          BY <1>3, <2>1, <2>3, <3>1, <4>1 DEF IInv, RowsOnce
      <3>2. CASE k - Len(rows) \in 1 .. Len(page)
        <4> DEFINE h == k - Len(rows)
        <4>1. rows'[k] = page[h] /\ h \in 1 .. Len(page)
          <5>1. Len(rows) + h = k
            BY <1>3
          <5> QED
            BY <1>3, <3>2, <5>1
        <4>2. CASE j \in 1 .. Len(rows)
          <5>1. rows # << >> /\ Len(rows) \in 1 .. Len(rows)
            BY <1>3, <4>2
          <5>2. cursor = rows[Len(rows)]
            BY <1>1, <5>1 DEF IInv, Delivered
          <5>3. rows[j] = cursor \/ InOrder(rows[j], cursor)
            <6>1. j = Len(rows) \/ j < Len(rows)
              BY <1>3, <4>2
            <6>2. (j < Len(rows)) => InOrder(rows[j], rows[Len(rows)])
              BY <2>1, <4>2, <5>1 DEF IInv, RowsOnce
            <6> QED
              BY <5>2, <6>1, <6>2
          <5>4. InOrder(cursor, page[h])
            BY <1>9, <4>1, <5>1
          <5>5. rows[j] \in Int /\ cursor \in Int /\ page[h] \in Int
            <6>1. rows[j] \in 1 .. Len(journal) /\ cursor \in 1 .. Len(journal)
              BY <4>2, <5>1, <5>2 DEF IInv, Delivered
            <6>2. page[h] \in 1 .. Len(journal)
              BY <1>9, <4>1
            <6> QED
              BY <6>1, <6>2
          <5>6. InOrder(rows[j], page[h])
            BY <5>3, <5>4, <5>5, OrderFacts
          <5> QED
            BY <1>3, <4>1, <4>2, <5>6
        <4>3. CASE j - Len(rows) \in 1 .. Len(page)
          <5>1. rows'[j] = page[j - Len(rows)]
            <6>1. Len(rows) + (j - Len(rows)) = j
              BY <1>3
            <6> QED
              BY <1>3, <4>3, <6>1
          <5>2. j - Len(rows) < h
            BY <1>3, <2>3
          <5> HIDE DEF h
          <5> QED
            BY <1>2, <4>1, <4>3, <5>1, <5>2
        <4> QED
          BY <1>8, <4>2, <4>3
      <3> QED
        BY <1>8, <3>1, <3>2
    <2> QED
      BY <2>1, <2>2, <2>3 DEF RowsOnce
  <1>12. Gathered'
    <2> DEFINE Due == {i \in 1 .. known' : (\A s \in starts : s <= journal[i]) /\ journal[i] <= request.end}
    <2>1. known' <= Len(journal')
      BY <1>1, <1>4 DEF IInv, Gathered
    <2>2. Owed' = Due
      BY <1>1 DEF Owed
    <2>3. start \in starts
      BY <1>1 DEF IInv, Resolved
    <2>4. ASSUME NEW i \in Due
          PROVE  (\E k \in 1 .. Len(rows) : rows[k] = i) \/ i \in Remaining
      <3>1. CASE rows = << >>
        <4>1. cursor = 0 /\ i \in 1 .. Len(journal)
          BY <1>1, <3>1 DEF IInv, Delivered
        <4> QED
          BY <1>4, <2>3, <4>1 DEF Remaining
      <3>2. CASE rows # << >>
        <4>1. i \in Owed
          BY <1>1, <3>2 DEF Owed
        <4>2. (\E k \in 1 .. Len(rows) : rows[k] = i) \/ InOrder(cursor, i)
          BY <1>1, <3>2, <4>1 DEF IInv, Gathered
        <4>3. i \in 1 .. Len(journal)
          BY <1>1, <1>4, <2>1
        <4> QED
          BY <1>4, <2>3, <4>2, <4>3 DEF Remaining
      <3> QED
        BY <3>1, <3>2
    <2> HIDE DEF Due
    <2>5. ASSUME NEW i \in Nat,
                 (\E k \in 1 .. Len(rows) : rows[k] = i) \/ (\E k \in 1 .. Len(page) : page[k] = i)
          PROVE  \E k \in 1 .. Len(rows') : rows'[k] = i
      <3>1. CASE \E k \in 1 .. Len(rows) : rows[k] = i
        <4>1. PICK k \in 1 .. Len(rows) : rows[k] = i
          BY <3>1
        <4>2. k \in 1 .. Len(rows')
          BY <1>3
        <4> QED
          BY <1>3, <4>1, <4>2
      <3>2. CASE \E k \in 1 .. Len(page) : page[k] = i
        <4>1. PICK k \in 1 .. Len(page) : page[k] = i
          BY <3>2
        <4>2. Len(rows) + k \in 1 .. Len(rows')
          BY <1>3
        <4> QED
          BY <1>3, <4>1, <4>2
      <3> QED
        BY <2>5, <3>1, <3>2
    <2>6. \A i \in Due : i \in Nat
      BY <1>1, <1>4 DEF Due
    <2>7. Walking' => \A i \in Due : (\E k \in 1 .. Len(rows') : rows'[k] = i) \/ InOrder(cursor', i)
      <3>1. ASSUME Walking', NEW i \in Due, i \in Remaining
            PROVE  (\E k \in 1 .. Len(page) : page[k] = i) \/ InOrder(cursor', i)
        BY <1>2, <3>1 DEF Walking
      <3> QED
        BY <2>4, <2>5, <2>6, <3>1
    <2>8. (outcome' = "complete") => \A i \in Due : \E k \in 1 .. Len(rows') : rows'[k] = i
      <3>1. ASSUME outcome' = "complete", NEW i \in Due, i \in Remaining
            PROVE  \E k \in 1 .. Len(page) : page[k] = i
        BY <1>2, <3>1
      <3> QED
        BY <2>4, <2>5, <2>6, <3>1
    <2>9. \A i, j : InOrder(i, j)' <=> InOrder(i, j)
      BY <1>1 DEF InOrder
    <2> QED
      BY <2>1, <2>2, <2>7, <2>8, <2>9 DEF Gathered
  <1> QED
    BY <1>5, <1>6, <1>7, <1>10, <1>11, <1>12 DEF IInv

\* It holds before the first page.
LEMMA InitInvariant == ASSUME Init PROVE IInv
  <1>1. TypeOK /\ Dated /\ RunsApart /\ Resolved
    BY DEF Init, TypeOK, Dated, RunsApart, Resolved
  <1>2. rows = << >> /\ cursor = 0 /\ known = 0 /\ outcome = "walking" /\ journal = << >>
    BY DEF Init
  <1>3. Delivered /\ RowsOnce
    BY <1>2 DEF Delivered, RowsOnce
  <1>4. Gathered
    BY <1>2 DEF Gathered
  <1> QED
    BY <1>1, <1>3, <1>4 DEF IInv

\* Nothing happens.
LEMMA StutterInvariant == ASSUME IInv, UNCHANGED vars PROVE IInv'
  <1>1. UNCHANGED << request, now, entered, journal, pc, cursor, start, rows, outcome, starts,
                     asked, known, began, run, over >>
    BY DEF vars, unit
  <1>2. TypeOK' /\ Dated' /\ RunsApart' /\ Resolved' /\ Delivered'
    BY <1>1 DEF IInv, TypeOK, Dated, RunsApart, Resolved, Delivered, Walking, LimitOf, Printed
  <1>3. RowsOnce'
    BY <1>1 DEF IInv, RowsOnce, InOrder
  <1>4. Gathered'
    BY <1>1 DEF IInv, Gathered, Owed, Walking, InOrder
  <1> QED
    BY <1>2, <1>3, <1>4 DEF IInv

\* Every step keeps it.
LEMMA NextInvariant == ASSUME IInv, [Next]_vars PROVE IInv'
  <1>1. CASE UNCHANGED vars \/ Rest
    BY <1>1, StutterInvariant DEF Rest
  <1>2. CASE Tick \/ StartMain \/ Activate \/ Stop \/ Unload \/ Log
    BY <1>2, HostInvariant
  <1>3. CASE Ask
    BY <1>3, AskInvariant
  <1>4. CASE Resolve
    BY <1>4, ResolveInvariant
  <1>5. CASE ResolveFails
    BY <1>5, ResolveFailsInvariant
  <1>6. CASE Read
    BY <1>6, ReadInvariant
  <1> QED
    BY <1>1, <1>2, <1>3, <1>4, <1>5, <1>6 DEF Next

\* The invariant holds of every reachable state.
THEOREM Invariance == Spec => []IInv
  BY InitInvariant, NextInvariant, PTL DEF Spec

-----------------------------------------------------------------------------
(***************************************************************************)
(* The theorems.                                                           *)
(***************************************************************************)

\* Rows come once and in order across pages, though every page has a window of its own
\* (handle_list_logs looks the start up again for each).
THEOREM RowsComeOnce == Spec => []RowsOnce
  <1>1. IInv => RowsOnce
    BY DEF IInv
  <1> QED
    BY <1>1, Invariance, PTL

\* A complete walk over a run of the unit that is not over has all that was logged since
\* the unit became active: cutting the start to milliseconds loses nothing.
THEOREM RunIsWhole == Spec => []WholeRun
  <1>1. ASSUME IInv PROVE WholeRun
    <2> SUFFICES ASSUME outcome = "complete", entered # None, starts = {Printed(entered)},
                        NEW i \in Expected(entered)
                 PROVE  i \in ToSet(rows)
      BY DEF WholeRun
    <2>1. i \in 1 .. known /\ entered <= journal[i] /\ journal[i] <= request.end
      BY DEF Expected
    <2>2. i \in 1 .. Len(journal)
      BY <1>1, <2>1 DEF IInv, Gathered, TypeOK
    <2>3. entered \in Nat /\ journal[i] \in Nat
      BY <1>1, <2>2 DEF IInv, TypeOK
    <2>4. Printed(entered) \in Nat /\ Printed(entered) <= entered
      BY <2>3, PrintedFacts
    <2>5. Printed(entered) <= journal[i]
      BY <2>1, <2>3, <2>4
    <2>6. i \in Owed
      BY <2>1, <2>5 DEF Owed
    <2>7. PICK k \in 1 .. Len(rows) : rows[k] = i
      BY <1>1, <2>6 DEF IInv, Gathered
    <2>8. k \in DOMAIN rows
      BY <1>1 DEF IInv, TypeOK
    <2> QED
      BY <2>7, <2>8 DEF ToSet
  <1> QED
    BY <1>1, Invariance, PTL

\* No page shows an entry of a run that was over, by a later activation, when the page was
\* asked for, but for those of the millisecond of that activation (ActiveEnterTimestamp in
\* unit_main_start, printed in milliseconds).
THEOREM OldRunsStayOut == Spec => NoOldRun
  <1> DEFINE Step == \A k \in (Len(rows) + 1) .. Len(rows') :
                        rows'[k] <= over => Printed(journal[rows'[k]]) = Printed(asked)
  <1>1. ASSUME IInv, [Next]_vars PROVE [Step]_vars
    <2>1. CASE rows' = rows
      <3>1. Len(rows) \in Nat
        BY <1>1 DEF IInv, TypeOK
      <3>2. (Len(rows) + 1) .. Len(rows') = {}
        BY <2>1, <3>1
      <3> QED
        BY <3>2
    <2>2. CASE Read
      <3>1. PICK page \in Seq(Nat) :
               rows' = rows \o page /\ \A k \in 1 .. Len(page) : page[k] \in Remaining
        BY <1>1, <2>2, PageFacts
      <3> SUFFICES ASSUME NEW k \in (Len(rows) + 1) .. Len(rows'), rows'[k] <= over
                   PROVE  Printed(journal[rows'[k]]) = Printed(asked)
        OBVIOUS
      <3>2. rows \in Seq(Nat) /\ journal \in Seq(Nat) /\ over \in Nat
        BY <1>1 DEF IInv, TypeOK
      <3>3. k - Len(rows) \in 1 .. Len(page) /\ rows'[k] = page[k - Len(rows)]
        BY <3>1, <3>2
      <3>4. rows'[k] \in Remaining
        BY <3>1, <3>3
      <3>5. rows'[k] \in 1 .. Len(journal) /\ start <= journal[rows'[k]]
        BY <3>2, <3>4 DEF Remaining
      <3>6. over > 0 /\ rows'[k] \in 1 .. over
        BY <3>2, <3>5
      <3>7. asked # None /\ journal[rows'[k]] <= asked
        BY <1>1, <3>6 DEF IInv, RunsApart
      <3>8. journal[rows'[k]] \in Nat /\ asked \in Nat
        BY <1>1, <3>2, <3>5, <3>7 DEF IInv, TypeOK
      <3>9. start \in Nat /\ Printed(asked) <= start
        BY <1>1, <2>2, <3>7 DEF IInv, Resolved, Read
      <3>10. Printed(asked) \in Nat
        BY <3>8, PrintedFacts
      <3>11. Printed(asked) <= journal[rows'[k]]
        BY <3>5, <3>8, <3>9, <3>10
      <3> QED
        BY <3>7, <3>8, <3>11, PrintedFacts
    <2> QED
      BY <1>1, <2>1, <2>2 DEF Next, Tick, StartMain, Activate, Stop, Unload, Log, Ask, Resolve,
         ResolveFails, Rest, handler, vars
  <1> QED
    BY <1>1, Invariance, PTL DEF Spec, NoOldRun

=============================================================================
