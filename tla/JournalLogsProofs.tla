------------------------- MODULE JournalLogsProofs -------------------------
(***************************************************************************)
(* Proofs about JournalLogs for every set of queries and entries, and for  *)
(* journals, walks and numbers of faults of any length: what a client that *)
(* follows next_cursor gets is an exclusive walk without gaps              *)
(* (NoDuplicates, NoGaps), complete when it says so (CompleteIsComplete),  *)
(* never continued from a neighbour of its cursor and, unless a call       *)
(* failed, refused only when the cursor is gone (CursorIsExact), and       *)
(* JournalLogs implements LogWalk.                                         *)
(*                                                                         *)
(* None of these is inductive as it stands: they say nothing of the page   *)
(* that is being read.  The strengthening, IInv, says which entries the    *)
(* reader has been past (Passed), that the page has all of those that it   *)
(* should have (Scanning), and that a scan that ended with room to spare   *)
(* left nothing behind (Exhausted).                                        *)
(***************************************************************************)
EXTENDS JournalLogs, SequenceTheorems, FiniteSetTheorems, TLAPS

-----------------------------------------------------------------------------
(***************************************************************************)
(* The inductive invariant.                                                *)
(***************************************************************************)

\* The stamps of the journal never go back.
InOrder == \A i, j \in DOMAIN journal : i < j => journal[i].ts <= journal[j].ts

\* A walk that is over has no page under way, and the cursor is that of the last row.
Linked ==
    /\ (outcome # "walking") => (pc = "client")
    /\ (outcome \in {"walking", "refused"}) =>
          (cursor = IF rows = << >> THEN 0 ELSE rows[Len(rows)])
    /\ (pc = "seek") => (cursor # 0 /\ page = << >>)
    /\ (pc \in {"seek", "scan", "reply"}) => (cursor <= known)

\* Entry i lies behind the cursor, in the order of the walk.
Beyond(i) == cursor # 0 => Before(query, cursor, i)

\* Entry i is where the reader stands, or on the near side of it.
Reached(i) == pos # 0 /\ (i = pos \/ Before(query, i, pos))

\* The reader has been past entry i.  A descending scan starts at the end of the window
\* as it was at its first step: what was written there later is not part of it.
Passed(i) ==
    /\ Reached(i)
    /\ (query.order = "desc") => (i <= known \/ (page # << >> /\ i <= page[1]))

\* What a page under way has is what it should: selected rows beyond the cursor, in order,
\* each visible to the handle and passed, and none that was passed is missing.
Scanning ==
    (pc \in {"scan", "reply"}) =>
        /\ pos # 0 => floor < pos
        /\ cursor # 0 => (pos # 0 /\ (pos = cursor \/ Before(query, cursor, pos)))
        /\ page # << >> => pos # 0
        /\ \A k \in DOMAIN page :
              /\ floor < page[k] /\ Rows(page[k]) /\ Beyond(page[k])
              /\ page[k] = pos \/ Before(query, page[k], pos)
        /\ \A j, k \in DOMAIN page : j < k => Before(query, page[j], page[k])
        /\ \A i \in Visible : (Rows(i) /\ Beyond(i) /\ Passed(i)) =>
              \E k \in DOMAIN page : page[k] = i

\* A scan that ended without a look-ahead row has everything there was to have.
Exhausted ==
    (pc = "reply" /\ ~HasMore) =>
        \A i \in (floor + 1)..known : (Rows(i) /\ Beyond(i)) =>
            \E k \in DOMAIN page : page[k] = i

\* NoGaps for the entries written since, too: they lie ahead of an ascending walk, and
\* behind the first row of a descending one.
GapFree ==
    \A i \in (head + 1)..Len(journal) :
        (Rows(i) /\ ~Walk!Ahead(rows, i) /\ (query.order = "desc" => i <= rows[1])) =>
            \E k \in DOMAIN rows : rows[k] = i

IInv ==
    /\ TypeOK /\ InOrder /\ Linked
    /\ NoDuplicates /\ CursorIsExact
    /\ Scanning /\ Exhausted
    /\ GapFree /\ CompleteIsComplete

-----------------------------------------------------------------------------
(***************************************************************************)
(* Numbers and shapes.                                                     *)
(***************************************************************************)

\* A set of numbers that is not empty has a least element, which is its Min.  The intervals
\* up to its members are finite, and strict inclusion is well founded on finite sets.
LEMMA LeastOf ==
  ASSUME NEW S \in SUBSET Nat, S # {}
  PROVE  Min(S) \in S /\ \A y \in S : Min(S) <= y
  <1> DEFINE T == {0..y : y \in S}
  <1>1. T \subseteq FiniteSubsetsOf(Nat)
    <2>1. ASSUME NEW y \in S PROVE 0..y \in FiniteSubsetsOf(Nat)
      <3>1. IsFiniteSet(0..y)
        BY FS_Interval
      <3> QED
        BY <3>1 DEF FiniteSubsetsOf
    <2> QED
      BY <2>1
  <1>2. T # {}
    OBVIOUS
  <1>3. PICK t \in T : \A u \in T : ~(<< u, t >> \in StrictSubsetOrdering(Nat))
    BY <1>1, <1>2, FS_StrictSubsetOrderingWellFounded, WFMin
  <1>4. PICK x \in S : t = 0..x
    BY <1>3
  <1>5. ASSUME NEW y \in S, y < x PROVE FALSE
    <2>1. 0..y \in T /\ 0..y \subseteq 0..x /\ x \in 0..x /\ x \notin 0..y
      BY <1>5
    <2>2. << 0..y, t >> \in StrictSubsetOrdering(Nat)
      BY <2>1, <1>4 DEF StrictSubsetOrdering
    <2> QED
      BY <1>3, <2>1, <2>2
  <1>6. \A y \in S : x <= y
    BY <1>5
  <1> QED
    BY <1>6 DEF Min

\* A set of numbers that is not empty and has a bound has a greatest element.
LEMMA GreatestOf ==
  ASSUME NEW S \in SUBSET Nat, S # {}, NEW b \in Nat, \A y \in S : y <= b
  PROVE  Max(S) \in S /\ \A y \in S : y <= Max(S)
  <1> DEFINE D == {b - y : y \in S}
  <1>1. D \in SUBSET Nat
    <2>1. \A y \in S : b - y \in Nat
      OBVIOUS
    <2> QED
      BY <2>1
  <1>2. D # {}
    OBVIOUS
  <1>3. PICK d \in D : \A y \in D : d <= y
    BY <1>1, <1>2, LeastOf
  <1>4. PICK x \in S : d = b - x
    BY <1>3
  <1>5. \A y \in S : y <= x
    <2>1. \A y \in S : b - x <= b - y
      BY <1>3, <1>4
    <2> QED
      BY <2>1
  <1> QED
    BY <1>5 DEF Max

\* What TypeOK says of the query, the journal, the page and the rows.
LEMMA Shapes ==
  ASSUME TypeOK
  PROVE  /\ query.limit \in Nat /\ query.limit >= 1
         /\ query.order \in {"asc", "desc"}
         /\ query.start \in Int /\ query.end \in Int
         /\ Len(journal) \in Nat /\ DOMAIN journal = 1..Len(journal)
         /\ \A i \in 1..Len(journal) : journal[i] \in Entries /\ journal[i].ts \in Int
         /\ Len(page) \in Nat /\ DOMAIN page = 1..Len(page)
         /\ \A k \in 1..Len(page) : page[k] \in 1..Len(journal)
         /\ Len(rows) \in Nat /\ DOMAIN rows = 1..Len(rows)
         /\ \A k \in 1..Len(rows) : rows[k] \in 1..Len(journal)
         /\ page = << >> <=> Len(page) = 0
         /\ rows = << >> <=> Len(rows) = 0
         /\ head \in Nat /\ floor \in Nat /\ floor <= head /\ head <= Len(journal)
         /\ pos \in 0..Len(journal) /\ cursor \in 0..Len(journal)
         /\ known \in 0..Len(journal)
  <1>1. /\ query \in Queries /\ journal \in Seq(Entries)
        /\ page \in Seq(Indices) /\ rows \in Seq(Indices)
    BY DEF TypeOK
  <1>2. Len(journal) \in Nat /\ Len(page) \in Nat /\ Len(rows) \in Nat
    BY <1>1, LenProperties
  <1>3. /\ DOMAIN journal = 1..Len(journal)
        /\ \A i \in 1..Len(journal) : journal[i] \in Entries /\ journal[i].ts \in Int
    BY <1>1, LenProperties, ElementOfSeq, EntriesAssumption
  <1>4. /\ DOMAIN page = 1..Len(page) /\ DOMAIN rows = 1..Len(rows)
        /\ \A k \in 1..Len(page) : page[k] \in Indices
        /\ \A k \in 1..Len(rows) : rows[k] \in Indices
    BY <1>1, LenProperties, ElementOfSeq
  <1>5. page = << >> <=> Len(page) = 0
    BY <1>1, EmptySeq
  <1>6. rows = << >> <=> Len(rows) = 0
    BY <1>1, EmptySeq
  <1>7. /\ query.limit \in Nat /\ query.limit >= 1
        /\ query.order \in {"asc", "desc"}
        /\ query.start \in Int /\ query.end \in Int
    BY <1>1, QueriesAssumption
  <1>8. /\ head \in Nat /\ floor \in Nat /\ floor <= head /\ head <= Len(journal)
        /\ pos \in 0..Len(journal) /\ cursor \in 0..Len(journal)
        /\ known \in 0..Len(journal)
    BY <1>2 DEF TypeOK
  <1> QED
    BY <1>2, <1>3, <1>4, <1>5, <1>6, <1>7, <1>8 DEF Indices

\* The numbers alone.
LEMMA Numbers ==
  ASSUME TypeOK
  PROVE  /\ Len(journal) \in Nat
         /\ head \in Nat /\ head <= Len(journal)
         /\ floor \in Nat /\ floor <= head
         /\ pos \in Nat /\ pos <= Len(journal)
         /\ cursor \in Nat /\ cursor <= Len(journal)
         /\ known \in Nat /\ known <= Len(journal)
         /\ query.order \in {"asc", "desc"}
  BY Shapes

\* The page that is returned is a beginning of what was read, within the limit.
LEMMA ReturnedFacts ==
  ASSUME TypeOK
  PROVE  /\ Returned \in Seq(Indices)
         /\ Len(Returned) <= Len(page) /\ Len(Returned) <= query.limit
         /\ Len(Returned) \in Nat /\ DOMAIN Returned = 1..Len(Returned)
         /\ Len(Returned) = IF HasMore THEN query.limit ELSE Len(page)
         /\ \A k \in 1..Len(Returned) : Returned[k] = page[k]
         /\ ~HasMore => Returned = page
  <1> DEFINE n == Min({Len(page), query.limit})
  <1>1. n = IF HasMore THEN query.limit ELSE Len(page)
    <2>1. {Len(page), query.limit} \in SUBSET Nat
      BY Shapes
    <2>2. n \in {Len(page), query.limit} /\ n <= Len(page) /\ n <= query.limit
      BY <2>1, LeastOf
    <2> HIDE DEF n
    <2> QED
      BY <2>2, Shapes DEF HasMore
  <1>2. n \in 0..Len(page) /\ n <= query.limit
    BY <1>1, Shapes DEF HasMore
  <1> HIDE DEF n
  <1>3. \A k \in 1..n : page[k] \in Indices
    BY <1>2, Shapes DEF Indices
  <1>4. /\ SubSeq(page, 1, n) \in Seq(Indices)
        /\ Len(SubSeq(page, 1, n)) = n
        /\ \A k \in 1..n : SubSeq(page, 1, n)[k] = page[k]
    BY <1>2, <1>3, Shapes, SubSeqProperties
  <1>5. Returned = SubSeq(page, 1, n)
    BY DEF Returned, n
  <1>6. DOMAIN Returned = 1..Len(Returned)
    BY <1>4, <1>5, LenProperties
  <1>7. ~HasMore => Returned = page
    <2>1. page \in Seq(Indices)
      BY DEF TypeOK
    <2> QED
      BY <1>1, <1>5, <2>1, SubSeqFull
  <1>8. /\ Len(Returned) = n /\ Len(Returned) \in Nat
        /\ Len(Returned) <= Len(page) /\ Len(Returned) <= query.limit
    BY <1>2, <1>4, <1>5
  <1>9. \A k \in 1..Len(Returned) : Returned[k] = page[k]
    BY <1>4, <1>5
  <1> QED
    BY <1>1, <1>4, <1>5, <1>6, <1>7, <1>8, <1>9

\* What an advance of a reader without a position selects, and the seek for the cursor.
LEMMA Sought ==
  ASSUME TypeOK
  PROVE  /\ SoughtByTime \in Visible \cup {0}
         /\ SoughtByCursor \in Visible \cup {0}
         /\ (cursor \in Visible) => (SoughtByCursor = cursor)
  <1>1. Visible \subseteq Nat /\ \A i \in Visible : i <= Len(journal)
    BY Shapes DEF Visible
  <1>2. SoughtByTime \in Visible \cup {0}
    <2> DEFINE ahead == {i \in Visible :
                           IF query.order = "asc" THEN journal[i].ts >= query.start
                                                  ELSE journal[i].ts <= query.end}
    <2>1. ahead \in SUBSET Nat /\ (\A i \in ahead : i <= Len(journal)) /\ ahead \subseteq Visible
      BY <1>1
    <2>2. SoughtByTime = IF ahead = {} THEN 0
                         ELSE IF query.order = "asc" THEN Min(ahead) ELSE Max(ahead)
      BY DEF SoughtByTime
    <2>3. ahead # {} => Min(ahead) \in ahead /\ Max(ahead) \in ahead
      <3> HIDE DEF ahead
      <3> QED
        BY <2>1, LeastOf, GreatestOf, Shapes
    <2> HIDE DEF ahead
    <2> QED
      BY <2>1, <2>2, <2>3
  <1>3. /\ SoughtByCursor \in Visible \cup {0}
        /\ (cursor \in Visible) => (SoughtByCursor = cursor)
    <2> DEFINE after == {i \in Visible : i >= cursor}
    <2>1. /\ after \in SUBSET Nat /\ after \subseteq Visible
          /\ \A i \in after : cursor <= i
      BY <1>1, Shapes
    <2>2. (cursor \in Visible) => (cursor \in after)
      BY Shapes
    <2>3. SoughtByCursor = IF after = {} THEN 0 ELSE Min(after)
      BY DEF SoughtByCursor
    <2> HIDE DEF after
    <2>4. (after # {}) => (Min(after) \in after /\ \A i \in after : Min(after) <= i)
      BY <2>1, LeastOf
    <2> QED
      BY <1>1, <2>1, <2>2, <2>3, <2>4, Shapes
  <1> QED
    BY <1>2, <1>3

\* An advance selects an entry the handle shows, or none.
LEMMA AdvanceRange ==
  ASSUME TypeOK
  PROVE  /\ Visible \subseteq 1..Len(journal)
         /\ Advance \in Visible \cup {0}
         /\ Advance \in 0..Len(journal)
  <1>1. Visible \subseteq 1..Len(journal)
    BY Shapes DEF Visible
  <1>2. Advance \in Visible \cup {0}
    BY Sought DEF Advance
  <1> QED
    BY <1>1, <1>2, Shapes

\* Without a position, the entries on the near side of the sought one are out of the window.
LEMMA NearSide ==
  ASSUME TypeOK, InOrder, NEW i \in Visible, Rows(i)
  PROVE  SoughtByTime # 0 /\ ~Before(query, i, SoughtByTime)
  <1> DEFINE ahead == {j \in Visible :
                         IF query.order = "asc" THEN journal[j].ts >= query.start
                                                ELSE journal[j].ts <= query.end}
  <1>1. /\ ahead \in SUBSET Nat
        /\ \A j \in ahead : j <= Len(journal) /\ j # 0
    BY AdvanceRange, Shapes
  <1>2. i \in ahead
    BY AdvanceRange, Shapes DEF Rows, Selects, InWindow
  <1>3. SoughtByTime = IF ahead = {} THEN 0
                       ELSE IF query.order = "asc" THEN Min(ahead) ELSE Max(ahead)
    BY DEF SoughtByTime
  <1> HIDE DEF ahead
  <1>4. /\ Min(ahead) \in ahead /\ Min(ahead) <= i
        /\ Max(ahead) \in ahead /\ i <= Max(ahead)
    BY <1>1, <1>2, LeastOf, GreatestOf, Shapes
  <1>5. i \in Nat /\ Min(ahead) \in Nat /\ Max(ahead) \in Nat
    BY <1>1, <1>2, <1>4
  <1>6. SoughtByTime = IF query.order = "asc" THEN Min(ahead) ELSE Max(ahead)
    BY <1>2, <1>3
  <1>7. SoughtByTime # 0
    BY <1>1, <1>4, <1>6
  <1> QED
    BY <1>4, <1>5, <1>6, <1>7 DEF Before

\* An advance goes on in the order of the walk and leaves no row out.
LEMMA AdvanceFacts ==
  ASSUME TypeOK, InOrder, (pos # 0) => (floor < pos)
  PROVE  /\ (Advance # 0 /\ pos # 0) => Before(query, pos, Advance)
         /\ \A i \in Visible :
               (Rows(i) /\ (Advance = 0 \/ Before(query, i, Advance))) => Reached(i)
  <1>1. CASE pos = 0
    BY <1>1, NearSide DEF Advance
  <1>2. CASE pos # 0
    <2>1. (Advance # 0) => Before(query, pos, Advance)
      BY <1>2, Shapes DEF Advance, Before
    <2>2. ASSUME NEW i \in Visible, Advance = 0 \/ Before(query, i, Advance)
          PROVE  Reached(i)
      <3>1. /\ pos \in Nat /\ pos <= Len(journal) /\ floor \in Nat /\ Len(journal) \in Nat
            /\ query.order \in {"asc", "desc"}
        BY Numbers
      <3>2. CASE query.order = "asc"
        <4>1. Advance = IF pos + 1 \in Visible THEN pos + 1 ELSE 0
          BY <1>2, <3>2 DEF Advance
        <4>2. i <= pos
          BY <1>2, <2>2, <3>1, <3>2, <4>1 DEF Before, Visible
        <4> QED
          BY <1>2, <3>1, <3>2, <4>2 DEF Reached, Before, Visible
      <3>3. CASE query.order = "desc"
        <4>1. Advance = IF pos - 1 \in Visible THEN pos - 1 ELSE 0
          BY <1>2, <3>3 DEF Advance
        <4>2. pos <= i
          BY <1>2, <2>2, <3>1, <3>3, <4>1 DEF Before, Visible
        <4> QED
          BY <1>2, <3>1, <3>3, <4>2 DEF Reached, Before, Visible
      <3> QED
        BY <3>1, <3>2, <3>3
    <2> QED
      BY <2>1, <2>2
  <1> QED
    BY <1>1, <1>2

\* Beyond an entry that is past the window, nothing is in it.
LEMMA FarSide ==
  ASSUME TypeOK, InOrder, NEW a \in 1..Len(journal), PastWindow(a),
         NEW i \in 1..Len(journal), Rows(i)
  PROVE  Before(query, i, a)
  <1>0. /\ query.start \in Int /\ query.end \in Int
        /\ journal[a].ts \in Int /\ journal[i].ts \in Int
        /\ a \in Int /\ i \in Int
    BY Shapes
  <1>1. \A j, k \in 1..Len(journal) : j < k => journal[j].ts <= journal[k].ts
    BY Shapes DEF InOrder
  <1>2. query.start <= journal[i].ts /\ journal[i].ts <= query.end
    BY DEF Rows, Selects, InWindow
  <1>3. CASE query.order = "asc"
    <2>1. journal[a].ts > query.end
      BY <1>3 DEF PastWindow
    <2>2. ~(a < i) /\ a # i
      BY <1>0, <1>1, <1>2, <2>1
    <2> QED
      BY <1>0, <1>3, <2>2 DEF Before
  <1>4. CASE query.order # "asc"
    <2>1. journal[a].ts < query.start
      BY <1>4 DEF PastWindow
    <2>2. ~(i < a) /\ a # i
      BY <1>0, <1>1, <1>2, <2>1
    <2> QED
      BY <1>0, <1>4, <2>2 DEF Before
  <1> QED
    BY <1>3, <1>4

\* The rows of the client once a page is answered: those it had, then those of the page.
LEMMA Answered ==
  ASSUME TypeOK
  PROVE  /\ rows \o Returned \in Seq(Indices)
         /\ Len(rows \o Returned) = Len(rows) + Len(Returned)
         /\ DOMAIN (rows \o Returned) = 1..(Len(rows) + Len(Returned))
         /\ \A k \in 1..Len(rows) : (rows \o Returned)[k] = rows[k]
         /\ \A k \in 1..Len(Returned) : (rows \o Returned)[Len(rows) + k] = page[k]
         /\ Len(rows) \in Nat /\ Len(Returned) \in Nat /\ Len(page) \in Nat
         /\ Len(Returned) <= Len(page)
         /\ DOMAIN page = 1..Len(page) /\ DOMAIN rows = 1..Len(rows)
         /\ \A k \in 1..Len(page) : page[k] \in Nat
         /\ \A k \in 1..Len(rows) : rows[k] \in Nat
  <1>0. Len(rows) \in Nat /\ Len(Returned) \in Nat
    BY Shapes, ReturnedFacts
  <1>1. rows \in Seq(Indices) /\ Returned \in Seq(Indices)
    BY ReturnedFacts DEF TypeOK
  <1>2. /\ rows \o Returned \in Seq(Indices)
        /\ Len(rows \o Returned) = Len(rows) + Len(Returned)
        /\ \A k \in 1..(Len(rows) + Len(Returned)) : (rows \o Returned)[k] =
              IF k <= Len(rows) THEN rows[k] ELSE Returned[k - Len(rows)]
    BY <1>1, ConcatProperties
  <1>3. DOMAIN (rows \o Returned) = 1..(Len(rows) + Len(Returned))
    BY <1>2, LenProperties
  <1>4. ASSUME NEW k \in 1..Len(rows)
        PROVE  (rows \o Returned)[k] = rows[k]
    <2>1. k \in 1..(Len(rows) + Len(Returned)) /\ k <= Len(rows)
      BY <1>0
    <2> QED
      BY <1>2, <2>1
  <1>5. ASSUME NEW k \in 1..Len(Returned)
        PROVE  (rows \o Returned)[Len(rows) + k] = page[k]
    <2>1. /\ Len(rows) + k \in 1..(Len(rows) + Len(Returned))
          /\ ~(Len(rows) + k <= Len(rows))
          /\ (Len(rows) + k) - Len(rows) = k
      BY <1>0
    <2>2. (rows \o Returned)[Len(rows) + k] = Returned[k]
      BY <1>2, <2>1
    <2> QED
      BY <2>2, ReturnedFacts
  <1>6. /\ Len(page) \in Nat /\ Len(Returned) <= Len(page)
        /\ DOMAIN page = 1..Len(page) /\ DOMAIN rows = 1..Len(rows)
    BY Shapes, ReturnedFacts
  <1>7. /\ \A k \in 1..Len(page) : page[k] \in Nat
        /\ \A k \in 1..Len(rows) : rows[k] \in Nat
    BY Shapes
  <1> QED
    BY <1>0, <1>2, <1>3, <1>4, <1>5, <1>6, <1>7

-----------------------------------------------------------------------------
(***************************************************************************)
(* Type correctness.                                                       *)
(***************************************************************************)

\* The walk starts with a journal and nothing else.
LEMMA InitTyped == Init => TypeOK
  <1> SUFFICES ASSUME Init PROVE TypeOK
    OBVIOUS
  <1>1. PICK n \in 0..MaxInitial : journal \in [1..n -> Entries]
    BY DEF Init
  <1>2. n \in Nat /\ n <= MaxLen
    BY <1>1, BoundsAssumption
  <1>3. journal \in Seq(Entries) /\ Len(journal) = n
    BY <1>1, <1>2, SeqDef, LenProperties
  <1>4. << >> \in Seq(Indices) /\ Len(<< >>) = 0
    BY EmptySeq
  <1>5. query.limit \in Nat
    BY QueriesAssumption DEF Init
  <1> QED
    BY <1>2, <1>3, <1>4, <1>5, BoundsAssumption DEF Init, TypeOK

\* journald's steps keep the shapes: the journal only grows, so indices stay indices.
LEMMA JournalTyped ==
  ASSUME TypeOK, (\E e \in Entries : Write(e)) \/ Vacuum
  PROVE  TypeOK'
  <1>1. ASSUME NEW e \in Entries, Write(e) PROVE TypeOK'
    <2>1. journal' \in Seq(Entries) /\ Len(journal') = Len(journal) + 1
      BY <1>1, AppendProperties DEF TypeOK, Write
    <2>2. Len(journal') <= MaxLen
      BY <1>1, <2>1, Shapes, BoundsAssumption DEF Write
    <2>3. Indices \subseteq Indices'
      BY <2>1, Shapes DEF Indices
    <2>4. page' \in Seq(Indices') /\ rows' \in Seq(Indices')
      BY <1>1, <2>3, SeqDef, LenProperties, ElementOfSeq DEF TypeOK, Write, client, reader
    <2> QED
      <3>1. 0..Len(journal) \subseteq 0..Len(journal')
        BY <2>1, Numbers
      <3> QED
        BY <1>1, <2>1, <2>2, <2>4, <3>1 DEF TypeOK, Write, client, reader
  <1>2. ASSUME Vacuum PROVE TypeOK'
    <2>1. head' \in 0..Len(journal) /\ head <= head'
      BY <1>2, Shapes DEF Vacuum
    <2> QED
      BY <1>2, <2>1, Shapes DEF TypeOK, Vacuum, client, reader, Indices
  <1> QED
    BY <1>1, <1>2

\* The reader's steps keep the shapes: it stands on an entry of the journal, and reads at
\* most one row more than the page.
LEMMA ReaderTyped ==
  ASSUME TypeOK,
         \/ OpenByTime \/ OpenByCursor \/ SeekCursor \/ RejectCursor
         \/ Skip \/ Keep \/ StopScan
  PROVE  TypeOK'
  <1>0. << >> \in Seq(Indices) /\ Len(<< >>) = 0
    BY EmptySeq
  <1>1. CASE OpenByTime \/ OpenByCursor
    <2>1. /\ floor' \in 0..head' /\ pos' = 0 /\ page' = << >>
          /\ Len(page') <= query'.limit + 1
          /\ known' \in 0..Len(journal')
      BY <1>0, <1>1, Shapes DEF OpenByTime, OpenByCursor, client
    <2> QED
      BY <1>0, <1>1, <2>1 DEF TypeOK, OpenByTime, OpenByCursor, client, reader, Indices
  <1>2. CASE SeekCursor
    BY <1>2, Sought, AdvanceRange, Shapes
       DEF TypeOK, SeekCursor, ResumeAt, client, Indices
  <1>3. CASE RejectCursor
    BY <1>3 DEF TypeOK, RejectCursor, reader, Indices
  <1>4. CASE Skip
    BY <1>4, AdvanceRange DEF TypeOK, Skip, client, Indices
  <1>5. CASE Keep
    <2>1. Advance \in Indices
      BY <1>5, AdvanceRange, Shapes DEF Keep, Continues, Indices
    <2>2. page' \in Seq(Indices) /\ Len(page') = Len(page) + 1
      BY <1>5, <2>1, AppendProperties DEF TypeOK, Keep
    <2>3. Len(page') <= query.limit + 1
      BY <1>5, <2>2, Shapes DEF Keep, Continues, Scannable
    <2> QED
      BY <1>5, <2>2, <2>3, AdvanceRange DEF TypeOK, Keep, client, Indices
  <1>6. CASE StopScan
    BY <1>6 DEF TypeOK, StopScan, client, reader, Indices
  <1> QED
    BY <1>1, <1>2, <1>3, <1>4, <1>5, <1>6

\* The answers keep the shapes: the rows of a page are entries of the journal.
LEMMA AnswerTyped ==
  ASSUME TypeOK,
         \/ ReplyMore \/ ReplyLast \/ ReplyStranded
  PROVE  TypeOK'
  <1>1. rows' \in Seq(Indices)
    BY Answered DEF ReplyMore, ReplyLast, ReplyStranded
  <1>2. CASE ReplyMore
    <2>1. NextCursor \in Indices
      BY <1>2, ReturnedFacts, Shapes, ElementOfSeq DEF ReplyMore, NextCursor
    <2> QED
      BY <1>1, <1>2, <2>1, Shapes DEF TypeOK, ReplyMore, reader, Indices
  <1>3. CASE ReplyLast
    BY <1>1, <1>3 DEF TypeOK, ReplyLast, reader, Indices
  <1>4. CASE ReplyStranded
    BY <1>1, <1>4, BoundsAssumption DEF TypeOK, ReplyStranded, reader, Indices
  <1> QED
    BY <1>2, <1>3, <1>4

\* Every step keeps the shapes.
LEMMA NextTyped == TypeOK /\ [Next]_vars => TypeOK'
  <1> SUFFICES ASSUME TypeOK, [Next]_vars PROVE TypeOK'
    OBVIOUS
  <1>1. CASE Request
    BY <1>1 DEF TypeOK, Request, client, reader, Indices
  <1>2. CASE Fault
    <2>1. << >> \in Seq(Indices) /\ Len(<< >>) = 0
      BY EmptySeq
    <2> QED
      BY <1>2, <2>1, Shapes, BoundsAssumption DEF TypeOK, Fault, client, Indices
  <1>3. CASE SeekFault
    BY <1>3, BoundsAssumption DEF TypeOK, SeekFault, reader, Indices
  <1>4. CASE UNCHANGED vars
    BY <1>4 DEF TypeOK, vars, Indices
  <1> QED
    BY <1>1, <1>2, <1>3, <1>4, JournalTyped, ReaderTyped, AnswerTyped
       DEF Next, Server, Rest

\* Type correctness of list_logs: the cursor, the reader and the rows of a page stay within
\* the journal, and a page within its limit and the look-ahead row.
THEOREM TypeCorrect == Spec => []TypeOK
  BY InitTyped, NextTyped, PTL DEF Spec

-----------------------------------------------------------------------------
(***************************************************************************)
(* The inductive invariant is one.                                         *)
(***************************************************************************)

\* Row i lies ahead of the rows of a walk, in the words of this module.
LEMMA AheadMeans ==
  ASSUME NEW done, NEW i
  PROVE  Walk!Ahead(done, i) <=> \A k \in DOMAIN done : Before(query, done[k], i)
  BY DEF Walk!Ahead, Walk!Before, Before

\* A walk that has not begun satisfies it.
LEMMA InitInvariant == Init => IInv
  <1> SUFFICES ASSUME Init PROVE IInv
    OBVIOUS
  <1>1. TypeOK
    BY InitTyped
  <1>2. DOMAIN rows = {}
    BY <1>1, Shapes DEF Init
  <1>3. InOrder /\ Linked /\ CursorIsExact /\ Scanning /\ Exhausted /\ CompleteIsComplete
    BY DEF Init, InOrder, Linked, CursorIsExact, Scanning, Exhausted, CompleteIsComplete
  <1>4. NoDuplicates /\ GapFree
    BY <1>2, AheadMeans DEF NoDuplicates, GapFree
  <1> QED
    BY <1>1, <1>3, <1>4 DEF IInv

\* What is delivered stays right while nothing is written and nothing delivered: vacuuming
\* only takes entries from those that a gap could be among.
LEMMA WalkKept ==
  ASSUME TypeOK, TypeOK', InOrder, NoDuplicates, GapFree, CompleteIsComplete,
         UNCHANGED << query, journal, rows >>, head' >= head,
         (outcome' = "complete") => (outcome = "complete" /\ known' = known)
  PROVE  InOrder' /\ NoDuplicates' /\ GapFree' /\ CompleteIsComplete'
  <1>1. /\ InOrder'
        /\ \A i : Rows(i)' <=> Rows(i)
        /\ \A i : Walk!Ahead(rows, i)' <=> Walk!Ahead(rows, i)
    BY DEF InOrder, Rows, Walk!Ahead, Walk!Before
  <1>2. NoDuplicates'
    BY <1>1 DEF NoDuplicates
  <1>3. head' \in Nat /\ head \in Nat
    BY Shapes DEF TypeOK
  <1>4. GapFree'
    <2>1. (head' + 1)..Len(journal') \subseteq (head + 1)..Len(journal)
      BY <1>3, Shapes
    <2> QED
      BY <1>1, <2>1 DEF GapFree
  <1>5. CompleteIsComplete'
    <2>1. ASSUME outcome' = "complete"
          PROVE  (head' + 1)..known' \subseteq (head + 1)..known
      BY <1>3, <2>1, Shapes
    <2> QED
      BY <1>1, <2>1 DEF CompleteIsComplete
  <1> QED
    BY <1>1, <1>2, <1>4, <1>5

\* A scan stays right while the reader and what it reads stay as they are.
LEMMA ScanKept ==
  ASSUME Scanning, Exhausted,
         UNCHANGED << query, journal, pc, cursor, floor, pos, page, known >>
  PROVE  Scanning' /\ Exhausted'
  <1>1. /\ Visible' = Visible /\ (HasMore' <=> HasMore)
        /\ \A i : Rows(i)' <=> Rows(i)
        /\ \A i : Beyond(i)' <=> Beyond(i)
        /\ \A i : Passed(i)' <=> Passed(i)
    BY DEF Visible, HasMore, Rows, Beyond, Passed, Reached
  <1> QED
    BY <1>1 DEF Scanning, Exhausted

\* An entry that is written is the last in the order of the journal: ahead of an ascending
\* walk, and behind the first row of a descending one.
LEMMA WriteStep ==
  ASSUME IInv, NEW e \in Entries, Write(e)
  PROVE  IInv'
  <1> DEFINE n == Len(journal) + 1
  <1>1. /\ UNCHANGED << query, rows, outcome, floor, pos, page, head, pc, cursor, faults, known >>
        /\ TypeOK /\ InOrder /\ Linked /\ NoDuplicates /\ CursorIsExact
        /\ Scanning /\ Exhausted /\ GapFree /\ CompleteIsComplete
    BY DEF IInv, Write, client, reader
  <1>2. TypeOK'
    BY <1>1, NextTyped DEF Next
  <1>3. /\ Len(journal') = n /\ Len(journal) \in Nat
        /\ \A i \in 1..Len(journal) : journal'[i] = journal[i]
        /\ journal'[n] = e
    BY <1>1, AppendProperties, Shapes DEF TypeOK, Write
  <1>4. \A i \in 1..Len(journal) : Rows(i)' <=> Rows(i)
    BY <1>1, <1>3 DEF Rows
  <1>5. InOrder'
    <2>1. DOMAIN journal' = 1..n
      BY <1>2, <1>3, LenProperties DEF TypeOK
    <2>2. \A i, j \in 1..Len(journal) : i < j => journal[i].ts <= journal[j].ts
      BY <1>1, Shapes DEF InOrder
    <2>3. ASSUME NEW i \in 1..Len(journal) PROVE journal[i].ts <= e.ts
      <3>1. journal[Len(journal)].ts <= e.ts
        BY <1>1, <2>3, Shapes DEF Write, Stamped
      <3>2. journal[i].ts <= journal[Len(journal)].ts
        BY <1>1, <2>2, <2>3, Shapes
      <3>3. /\ journal[i].ts \in Int /\ journal[Len(journal)].ts \in Int
            /\ e.ts \in Int
        <4>1. Len(journal) \in 1..Len(journal)
          BY <1>3, <2>3
        <4>2. \A k \in 1..Len(journal) : journal[k].ts \in Int
          BY <1>1, Shapes
        <4> QED
          BY <2>3, <4>1, <4>2, EntriesAssumption
      <3> QED
        BY <3>1, <3>2, <3>3
    <2> HIDE DEF n
    <2>4. ASSUME NEW i \in 1..n, NEW j \in 1..n, i < j
          PROVE  journal'[i].ts <= journal'[j].ts
      <3>1. i \in 1..Len(journal)
        BY <1>3, <2>4 DEF n
      <3>2. CASE j = n
        BY <1>3, <2>3, <3>1, <3>2
      <3>3. CASE j # n
        BY <1>3, <2>2, <2>4, <3>1, <3>3 DEF n
      <3> QED
        BY <3>2, <3>3
    <2> QED
      BY <2>1, <2>4 DEF InOrder
  <1>6. Linked' /\ CursorIsExact'
    BY <1>1 DEF Linked, CursorIsExact
  <1>7. NoDuplicates'
    BY <1>1, <1>4, Shapes DEF NoDuplicates
  <1>8. Scanning' /\ Exhausted'
    <2>1. Visible' \subseteq Visible \cup {n}
      BY <1>1, <1>3, Shapes DEF Visible
    <2>2. \A i : (Beyond(i)' <=> Beyond(i)) /\ (Passed(i)' <=> Passed(i))
      BY <1>1 DEF Beyond, Passed, Reached
    <2>3. ~Passed(n)
      BY <1>1, Shapes DEF Passed, Reached, Before
    <2>4. (HasMore' <=> HasMore) /\ Visible \subseteq 1..Len(journal)
      BY <1>1, AdvanceRange DEF HasMore
    <2>5. (floor + 1)..known \subseteq 1..Len(journal)
      BY <1>1, Shapes
    <2>6. \A k \in DOMAIN page : Rows(page[k])' <=> Rows(page[k])
      BY <1>1, <1>4, Shapes
    <2> HIDE DEF n
    <2>7. Scanning'
      BY <1>1, <1>4, <2>1, <2>2, <2>3, <2>4, <2>6 DEF Scanning
    <2>8. Exhausted'
      BY <1>1, <1>4, <2>2, <2>4, <2>5 DEF Exhausted
    <2> QED
      BY <2>7, <2>8
  <1>9. GapFree' /\ CompleteIsComplete'
    <2>1. \A i : Walk!Ahead(rows, i)' <=> Walk!Ahead(rows, i)
      BY <1>1 DEF Walk!Ahead, Walk!Before
    <2>2. (query.order = "asc") => Walk!Ahead(rows, n)
      BY <1>1, AheadMeans, Shapes DEF Before
    <2>3. (query.order = "desc") => (Walk!Ahead(rows, n) \/ ~(n <= rows[1]))
      BY <1>1, AheadMeans, Shapes
    <2>4. (head' + 1)..Len(journal') \subseteq ((head + 1)..Len(journal)) \cup {n}
      BY <1>1, <1>3, Shapes
    <2>5. /\ (head + 1)..Len(journal) \subseteq 1..Len(journal)
          /\ (head + 1)..known \subseteq 1..Len(journal)
      BY <1>1, Numbers
    <2>6. query.order \in {"asc", "desc"}
      BY <1>1, Shapes
    <2> HIDE DEF n
    <2>7. GapFree'
      BY <1>1, <1>4, <2>1, <2>2, <2>3, <2>4, <2>5, <2>6 DEF GapFree
    <2>8. CompleteIsComplete'
      BY <1>1, <1>4, <2>1, <2>5 DEF CompleteIsComplete
    <2> QED
      BY <2>7, <2>8
  <1> QED
    BY <1>2, <1>5, <1>6, <1>7, <1>8, <1>9 DEF IInv

\* The entry of a cursor that is rejected without a failure is gone.
LEMMA RejectedIsGone ==
  ASSUME TypeOK, Linked, RejectCursor
  PROVE  cursor # 0 /\ cursor <= head
  <1>1. cursor # 0 /\ cursor <= known
    BY DEF RejectCursor, Linked
  <1>2. cursor \notin Visible
    BY <1>1, Sought DEF RejectCursor, Positioned
  <1> QED
    BY <1>1, <1>2, Shapes DEF Visible

\* A step that leaves no page under way disturbs only what it says of the walk.
LEMMA QuietStep ==
  ASSUME IInv, Vacuum \/ Request \/ RejectCursor \/ Fault \/ SeekFault
  PROVE  IInv'
  <1>1. /\ TypeOK /\ InOrder /\ Linked /\ NoDuplicates /\ CursorIsExact
        /\ Scanning /\ Exhausted /\ GapFree /\ CompleteIsComplete
    BY DEF IInv
  <1>2. TypeOK'
    BY <1>1, NextTyped DEF Next, Server
  <1>3. /\ UNCHANGED << query, journal, rows, cursor, known, floor, pos >>
        /\ head' \in Nat /\ head' >= head
    BY <1>1, <1>2, Shapes
       DEF Vacuum, Request, RejectCursor, Fault, SeekFault, client, reader
  <1>4. InOrder' /\ NoDuplicates' /\ GapFree' /\ CompleteIsComplete'
    <2>1. (outcome' = "complete") => (outcome = "complete")
      BY DEF Vacuum, Request, RejectCursor, Fault, SeekFault, client
    <2> QED
      BY <1>1, <1>2, <1>3, <2>1, WalkKept
  <1>5. Linked'
    BY <1>1, <1>3
       DEF Linked, Vacuum, Request, RejectCursor, Fault, SeekFault, client, reader
  <1>6. Scanning' /\ Exhausted'
    <2>1. CASE Vacuum
      BY <1>1, <1>3, <2>1, ScanKept DEF Vacuum, reader
    <2>2. CASE Request \/ RejectCursor \/ Fault \/ SeekFault
      BY <2>2 DEF Request, RejectCursor, Fault, SeekFault, Scanning, Exhausted
    <2> QED
      BY <2>1, <2>2
  <1>7. CursorIsExact'
    <2>1. CASE Vacuum
      BY <1>1, <1>3, <2>1, Shapes DEF CursorIsExact, Vacuum, client
    <2>2. CASE RejectCursor
      BY <1>1, <1>3, <2>2, RejectedIsGone DEF CursorIsExact, RejectCursor
    <2>3. CASE Request
      BY <1>1, <1>3, <2>3 DEF CursorIsExact, Request, client
    <2>4. CASE Fault \/ SeekFault
      <3>1. faults \in Nat /\ faults' = faults + 1
        BY <1>1, <2>4, BoundsAssumption DEF TypeOK, Fault, SeekFault
      <3>2. faults' > 0 /\ pc' = "client"
        BY <2>4, <3>1 DEF Fault, SeekFault
      <3>3. (outcome' = "refused") => cursor' # 0
        BY <1>1, <1>3, <2>4 DEF Fault, SeekFault, client, Linked, CursorIsExact
      <3> QED
        BY <3>2, <3>3 DEF CursorIsExact
    <2> QED
      BY <2>1, <2>2, <2>3, <2>4
  <1> QED
    BY <1>2, <1>4, <1>5, <1>6, <1>7 DEF IInv

\* A handle is opened on an empty page, and what is in the journal by then is what the
\* answer has to account for.
LEMMA OpenStep ==
  ASSUME IInv, OpenByTime \/ OpenByCursor
  PROVE  IInv'
  <1>1. /\ TypeOK /\ InOrder /\ Linked /\ NoDuplicates /\ CursorIsExact
        /\ GapFree /\ CompleteIsComplete
    BY DEF IInv
  <1>2. TypeOK'
    BY <1>1, NextTyped DEF Next, Server
  <1>3. /\ UNCHANGED << query, journal, rows, outcome, cursor, head >>
        /\ outcome = "walking" /\ pc = "open"
        /\ pos' = 0 /\ page' = << >> /\ known' = Len(journal)
    BY <1>1 DEF OpenByTime, OpenByCursor, client, Linked
  <1>4. InOrder' /\ NoDuplicates' /\ GapFree' /\ CompleteIsComplete'
    BY <1>1, <1>2, <1>3, Shapes, WalkKept
  <1>5. Linked' /\ CursorIsExact'
    BY <1>1, <1>3, Shapes DEF Linked, CursorIsExact, OpenByTime, OpenByCursor
  <1>6. Scanning' /\ Exhausted'
    <2>1. DOMAIN page' = {}
      BY <1>2, <1>3, Shapes, LenProperties, EmptySeq DEF TypeOK
    <2>2. \A i : ~Passed(i)'
      BY <1>3 DEF Passed, Reached
    <2>3. (pc' \in {"scan", "reply"}) => (cursor' = 0 /\ pc' # "reply")
      BY <1>3 DEF OpenByTime, OpenByCursor
    <2> QED
      BY <1>3, <2>1, <2>2, <2>3 DEF Scanning, Exhausted
  <1> QED
    BY <1>2, <1>4, <1>5, <1>6 DEF IInv

\* The scan resumes at the cursor's own entry: what it has passed lies behind the cursor.
LEMMA SeekStep ==
  ASSUME IInv, SeekCursor
  PROVE  IInv'
  <1>1. /\ TypeOK /\ InOrder /\ Linked /\ NoDuplicates /\ CursorIsExact
        /\ GapFree /\ CompleteIsComplete
    BY DEF IInv
  <1>2. TypeOK'
    BY <1>1, NextTyped DEF Next, Server
  <1>3. /\ UNCHANGED << query, journal, rows, outcome, cursor, head, floor, known, page >>
        /\ pc = "seek" /\ pc' = "scan"
        /\ pos' = cursor /\ cursor # 0 /\ cursor \in Visible /\ page = << >>
    BY <1>1, Sought DEF SeekCursor, Positioned, ResumeAt, client, Linked
  <1>4. InOrder' /\ NoDuplicates' /\ GapFree' /\ CompleteIsComplete'
    BY <1>1, <1>2, <1>3, Shapes, WalkKept
  <1>5. floor < cursor
    BY <1>1, <1>3, Shapes DEF Visible
  <1>6. Linked' /\ CursorIsExact'
    BY <1>1, <1>3, <1>5 DEF Linked, CursorIsExact
  <1>7. Scanning' /\ Exhausted'
    <2>1. DOMAIN page' = {}
      BY <1>2, <1>3, Shapes, LenProperties, EmptySeq DEF TypeOK
    <2>2. \A i \in Visible : ~(Beyond(i)' /\ Passed(i)')
      BY <1>1, <1>3, AdvanceRange, Shapes DEF Beyond, Passed, Reached, Before
    <2>3. Visible' = Visible
      BY <1>3 DEF Visible
    <2> QED
      BY <1>3, <1>5, <2>1, <2>2, <2>3 DEF Scanning, Exhausted
  <1> QED
    BY <1>2, <1>4, <1>6, <1>7 DEF IInv

\* What the scan knows of the entry it advances to: it lies in the order of the walk beyond
\* the cursor and the page, and all rows on its near side were passed.
LEMMA NextEntry ==
  ASSUME IInv, pc = "scan"
  PROVE  /\ (Advance # 0) =>
               /\ Advance \in Visible /\ Advance \in 1..Len(journal)
               /\ Beyond(Advance)
               /\ \A k \in DOMAIN page : Before(query, page[k], Advance)
         /\ \A i \in Visible :
               (Rows(i) /\ (Advance = 0 \/ Before(query, i, Advance))) => Reached(i)
  <1>1. TypeOK /\ InOrder /\ Scanning
    BY DEF IInv
  <1>2. /\ (Advance # 0 /\ pos # 0) => Before(query, pos, Advance)
        /\ \A i \in Visible :
              (Rows(i) /\ (Advance = 0 \/ Before(query, i, Advance))) => Reached(i)
    BY <1>1, AdvanceFacts DEF Scanning
  <1>3. (Advance # 0) => (Advance \in Visible /\ Advance \in 1..Len(journal))
    BY <1>1, AdvanceRange
  <1>4. ASSUME Advance # 0 PROVE Beyond(Advance)
    <2>1. CASE cursor # 0
      <3>1. pos # 0 /\ (pos = cursor \/ Before(query, cursor, pos))
        BY <1>1, <2>1 DEF Scanning
      <3>2. Before(query, pos, Advance)
        BY <1>2, <1>4, <3>1
      <3> QED
        BY <1>1, <1>3, <1>4, <3>1, <3>2, Shapes DEF Beyond, Before
    <2> QED
      BY <2>1 DEF Beyond
  <1>5. ASSUME Advance # 0, NEW k \in DOMAIN page
        PROVE  Before(query, page[k], Advance)
    <2>1. pos # 0 /\ (page[k] = pos \/ Before(query, page[k], pos))
      BY <1>1, Shapes DEF Scanning
    <2>2. Before(query, pos, Advance)
      BY <1>2, <1>5, <2>1
    <2>3. page[k] \in Nat /\ pos \in Nat /\ Advance \in Nat
      BY <1>1, <1>3, <1>5, Shapes
    <2> QED
      BY <2>1, <2>2, <2>3 DEF Before
  <1> QED
    BY <1>2, <1>3, <1>4, <1>5

\* A skipped entry is no row, so passing it owes the page nothing.
LEMMA SkipStep ==
  ASSUME IInv, Skip
  PROVE  IInv'
  <1>1. /\ TypeOK /\ InOrder /\ Linked /\ NoDuplicates /\ CursorIsExact
        /\ Scanning /\ GapFree /\ CompleteIsComplete
    BY DEF IInv
  <1>2. TypeOK'
    BY <1>1, NextTyped DEF Next, Server
  <1>3. /\ UNCHANGED << query, journal, rows, outcome, head, pc, cursor, floor, page, known >>
        /\ pc = "scan" /\ pos' = Advance /\ Advance # 0 /\ ~Rows(Advance)
    BY DEF Skip, Continues, client
  <1>4. InOrder' /\ NoDuplicates' /\ GapFree' /\ CompleteIsComplete'
    BY <1>1, <1>2, <1>3, Shapes, WalkKept
  <1>5. Linked' /\ CursorIsExact'
    BY <1>1, <1>3 DEF Linked, CursorIsExact
  <1>6. /\ Advance \in Visible /\ Advance \in 1..Len(journal)
        /\ floor < Advance /\ Beyond(Advance)
        /\ \A k \in DOMAIN page : Before(query, page[k], Advance)
        /\ \A i \in Visible : (Rows(i) /\ Before(query, i, Advance)) => Reached(i)
    BY <1>1, <1>3, NextEntry, Shapes DEF Visible
  <1>7. /\ Visible' = Visible
        /\ \A i : (Rows(i)' <=> Rows(i)) /\ (Beyond(i)' <=> Beyond(i))
    BY <1>3 DEF Visible, Rows, Beyond
  <1>8. ASSUME NEW i \in Visible, Rows(i), Passed(i)'
        PROVE  Passed(i)
    <2>1. i # Advance /\ Before(query, i, Advance)
      BY <1>3, <1>8 DEF Passed, Reached
    <2> QED
      BY <1>3, <1>6, <1>8, <2>1 DEF Passed
  <1>9. Scanning'
    BY <1>1, <1>3, <1>6, <1>7, <1>8 DEF Scanning, Beyond
  <1>10. Exhausted'
    BY <1>3 DEF Exhausted
  <1> QED
    BY <1>2, <1>4, <1>5, <1>9, <1>10 DEF IInv

\* A kept entry is the next row, and the page has it.
LEMMA KeepStep ==
  ASSUME IInv, Keep
  PROVE  IInv'
  <1> DEFINE n == Len(page) + 1
  <1>1. /\ TypeOK /\ InOrder /\ Linked /\ NoDuplicates /\ CursorIsExact
        /\ Scanning /\ GapFree /\ CompleteIsComplete
    BY DEF IInv
  <1>2. TypeOK'
    BY <1>1, NextTyped DEF Next, Server
  <1>3. /\ UNCHANGED << query, journal, rows, outcome, head, pc, cursor, floor, known >>
        /\ pc = "scan" /\ pos' = Advance /\ Advance # 0 /\ Rows(Advance)
        /\ page' = Append(page, Advance)
    BY DEF Keep, Continues, client
  <1>4. InOrder' /\ NoDuplicates' /\ GapFree' /\ CompleteIsComplete'
    BY <1>1, <1>2, <1>3, Shapes, WalkKept
  <1>5. Linked' /\ CursorIsExact'
    BY <1>1, <1>3 DEF Linked, CursorIsExact
  <1>6. /\ Advance \in Visible /\ Advance \in 1..Len(journal)
        /\ floor < Advance /\ Beyond(Advance)
        /\ \A k \in DOMAIN page : Before(query, page[k], Advance)
        /\ \A i \in Visible : (Rows(i) /\ Before(query, i, Advance)) => Reached(i)
    BY <1>1, <1>3, NextEntry, Shapes DEF Visible
  <1>7. /\ Visible' = Visible
        /\ \A i : (Rows(i)' <=> Rows(i)) /\ (Beyond(i)' <=> Beyond(i))
    BY <1>3 DEF Visible, Rows, Beyond
  <1>8. /\ DOMAIN page = 1..Len(page) /\ DOMAIN page' = 1..n /\ Len(page) \in Nat
        /\ \A k \in 1..Len(page) : page'[k] = page[k]
        /\ page'[n] = Advance /\ page' # << >>
    <2>1. Advance \in Indices
      BY <1>6 DEF Indices
    <2>2. /\ Len(page') = n /\ page'[n] = Advance
          /\ \A k \in 1..Len(page) : page'[k] = page[k]
      BY <1>1, <1>3, <2>1, AppendProperties DEF TypeOK
    <2> QED
      BY <1>1, <1>2, <2>2, Shapes, LenProperties, EmptySeq DEF TypeOK
  <1> HIDE DEF n
  <1>9. ASSUME NEW i \in Visible, Rows(i), i # Advance, Passed(i)'
        PROVE  Passed(i)
    <2>1. Before(query, i, Advance) /\ Reached(i)
      BY <1>3, <1>6, <1>9 DEF Passed, Reached
    <2>2. CASE page = << >>
      <3>1. page'[1] = Advance
        BY <1>1, <1>8, <2>2, Shapes DEF n
      <3>2. (query.order = "desc") => i <= known
        BY <1>3, <1>6, <1>9, <2>1, <3>1, AdvanceRange, Shapes DEF Passed, Before
      <3> QED
        BY <2>1, <3>2 DEF Passed
    <2>3. CASE page # << >>
      <3>1. page'[1] = page[1]
        BY <1>1, <1>8, <2>3, Shapes
      <3> QED
        BY <1>3, <1>9, <2>1, <2>3, <3>1 DEF Passed
    <2> QED
      BY <2>2, <2>3
  <1>10. Scanning'
    <2>1. \A k \in 1..n : k \in 1..Len(page) \/ k = n
      BY <1>8 DEF n
    <2>2. ASSUME NEW k \in DOMAIN page'
          PROVE  /\ floor < page'[k] /\ Rows(page'[k]) /\ Beyond(page'[k])
                 /\ page'[k] = Advance \/ Before(query, page'[k], Advance)
      BY <1>1, <1>3, <1>6, <1>8, <2>1, <2>2 DEF Scanning
    <2>3. ASSUME NEW j \in DOMAIN page', NEW k \in DOMAIN page', j < k
          PROVE  Before(query, page'[j], page'[k])
      <3>1. j \in 1..Len(page)
        BY <1>8, <2>3 DEF n
      <3>2. CASE k = n
        BY <1>6, <1>8, <3>1, <3>2
      <3>3. CASE k \in 1..Len(page)
        BY <1>1, <1>3, <1>8, <2>3, <3>1, <3>3 DEF Scanning
      <3> QED
        BY <1>8, <2>1, <3>2, <3>3
    <2>4. ASSUME NEW i \in Visible, Rows(i), Beyond(i), Passed(i)'
          PROVE  \E k \in DOMAIN page' : page'[k] = i
      <3>1. n \in 1..n /\ 1..Len(page) \subseteq 1..n
        BY <1>8 DEF n
      <3>2. CASE i = Advance
        BY <1>8, <3>1, <3>2
      <3>3. CASE i # Advance
        <4>1. PICK k \in DOMAIN page : page[k] = i
          BY <1>1, <1>3, <1>9, <2>4, <3>3 DEF Scanning
        <4> QED
          BY <1>8, <3>1, <4>1
      <3> QED
        BY <3>2, <3>3
    <2>5. /\ floor < pos'
          /\ (cursor # 0) => Before(query, cursor, pos')
      BY <1>3, <1>6 DEF Beyond
    <2> QED
      BY <1>3, <1>6, <1>7, <2>2, <2>3, <2>4, <2>5 DEF Scanning
  <1>11. Exhausted'
    BY <1>3 DEF Exhausted
  <1> QED
    BY <1>2, <1>4, <1>5, <1>10, <1>11 DEF IInv

\* A scan that stops with room on the page has run out of entries or of the window.
LEMMA StopStep ==
  ASSUME IInv, StopScan
  PROVE  IInv'
  <1>1. /\ TypeOK /\ InOrder /\ Linked /\ NoDuplicates /\ CursorIsExact
        /\ Scanning /\ GapFree /\ CompleteIsComplete
    BY DEF IInv
  <1>2. TypeOK'
    BY <1>1, NextTyped DEF Next, Server
  <1>3. /\ UNCHANGED << query, journal, rows, outcome, head, cursor, floor, pos, page, known >>
        /\ pc = "scan" /\ pc' = "reply" /\ ~Continues
    BY DEF StopScan, client, reader
  <1>4. InOrder' /\ NoDuplicates' /\ GapFree' /\ CompleteIsComplete'
    BY <1>1, <1>2, <1>3, Shapes, WalkKept
  <1>5. Linked' /\ CursorIsExact'
    BY <1>1, <1>3 DEF Linked, CursorIsExact
  <1>6. /\ Visible' = Visible /\ (HasMore' <=> HasMore)
        /\ \A i : Rows(i)' <=> Rows(i)
        /\ \A i : Beyond(i)' <=> Beyond(i)
        /\ \A i : Passed(i)' <=> Passed(i)
    BY <1>3 DEF Visible, HasMore, Rows, Beyond, Passed, Reached
  <1>7. Scanning'
    BY <1>1, <1>3, <1>6 DEF Scanning
  <1>8. Exhausted'
    <2>1. ASSUME ~HasMore, NEW i \in (floor + 1)..known, Rows(i), Beyond(i)
          PROVE  \E k \in DOMAIN page : page[k] = i
      <3>1. Advance = 0 \/ PastWindow(Advance)
        BY <1>1, <1>3, <2>1, Shapes DEF HasMore, Continues, Scannable
      <3>2. i \in Visible /\ i \in 1..Len(journal) /\ i <= known
        BY <1>1, <2>1, Shapes DEF Visible
      <3>3. Advance = 0 \/ Before(query, i, Advance)
        BY <1>1, <2>1, <3>1, <3>2, FarSide, AdvanceRange
      <3>4. Passed(i)
        BY <1>3, <2>1, <3>2, <3>3, NextEntry DEF Passed
      <3> QED
        BY <1>1, <1>3, <2>1, <3>2, <3>4 DEF Scanning
    <2> QED
      BY <1>3, <1>6, <2>1 DEF Exhausted
  <1> QED
    BY <1>2, <1>4, <1>5, <1>7, <1>8 DEF IInv

\* A page continues the walk: its rows are selected and lie ahead of those delivered, in order.
LEMMA PageContinues ==
  ASSUME IInv, pc = "reply"
  PROVE  /\ \A k \in DOMAIN (rows \o Returned) : Rows((rows \o Returned)[k])
         /\ \A j, k \in DOMAIN (rows \o Returned) :
               j < k => Before(query, (rows \o Returned)[j], (rows \o Returned)[k])
         /\ \A j \in 1..Len(rows), k \in 1..Len(page) : Before(query, rows[j], page[k])
  <1> DEFINE m == Len(rows)
             n == Len(Returned)
             R == rows \o Returned
  <1>1. TypeOK /\ Linked /\ NoDuplicates /\ Scanning
    BY DEF IInv
  <1>2. /\ m \in Nat /\ n \in Nat /\ Len(page) \in Nat /\ n <= Len(page)
        /\ DOMAIN R = 1..(m + n)
        /\ \A k \in 1..m : R[k] = rows[k]
        /\ \A k \in 1..m : rows[k] \in Nat
        /\ \A k \in 1..n : R[m + k] = page[k]
        /\ DOMAIN page = 1..Len(page) /\ DOMAIN rows = 1..m
        /\ \A k \in 1..Len(page) : page[k] \in Nat
    BY <1>1, Answered
  <1>a. /\ (rows # << >>) => (cursor = rows[m])
        /\ (m # 0) => (rows # << >> /\ rows[m] # 0)
    BY <1>1, Shapes DEF Linked
  <1>b. /\ \A k \in 1..m : Rows(rows[k])
        /\ \A j, k \in 1..m : j < k => Before(query, rows[j], rows[k])
    BY <1>1, <1>2 DEF NoDuplicates
  <1>c. /\ \A k \in 1..Len(page) : Rows(page[k]) /\ Beyond(page[k])
        /\ \A j, k \in 1..Len(page) : j < k => Before(query, page[j], page[k])
    BY <1>1, <1>2 DEF Scanning
  <1> HIDE DEF m, n, R
  <1>3. ASSUME NEW j \in 1..m, NEW k \in 1..Len(page)
        PROVE  Before(query, rows[j], page[k])
    <2>1. m # 0 /\ m \in 1..m
      BY <1>2, <1>3
    <2>2. Before(query, rows[m], page[k])
      BY <1>a, <1>c, <1>3, <2>1 DEF Beyond
    <2>3. j = m \/ Before(query, rows[j], rows[m])
      <3>1. j = m \/ j < m
        BY <1>2, <1>3
      <3> QED
        BY <1>b, <1>3, <2>1, <3>1
    <2>4. rows[j] \in Nat /\ rows[m] \in Nat /\ page[k] \in Nat
      BY <1>2, <1>3, <2>1
    <2> QED
      BY <2>2, <2>3, <2>4 DEF Before
  <1>4. ASSUME NEW k \in 1..(m + n)
        PROVE  k \in 1..m \/ (\E i \in 1..n : k = m + i)
    <2>1. CASE k > m
      <3>1. k - m \in 1..n /\ k = m + (k - m)
        BY <1>2, <1>4, <2>1
      <3> QED
        BY <3>1
    <2> QED
      BY <1>2, <1>4, <2>1
  <1>5. ASSUME NEW k \in 1..(m + n) PROVE Rows(R[k])
    <2>1. CASE k \in 1..m
      BY <1>2, <1>b, <2>1
    <2>2. ASSUME NEW i \in 1..n, k = m + i PROVE Rows(R[k])
      <3>1. R[k] = page[i] /\ i \in 1..Len(page)
        BY <1>2, <2>2
      <3> QED
        BY <1>c, <3>1
    <2> QED
      BY <1>4, <1>5, <2>1, <2>2
  <1>6. ASSUME NEW j \in 1..(m + n), NEW k \in 1..(m + n), j < k
        PROVE  Before(query, R[j], R[k])
    <2>1. CASE j \in 1..m /\ k \in 1..m
      BY <1>2, <1>b, <1>6, <2>1
    <2>2. ASSUME j \in 1..m, NEW i \in 1..n, k = m + i
          PROVE  Before(query, R[j], R[k])
      <3>1. R[j] = rows[j] /\ R[k] = page[i] /\ i \in 1..Len(page)
        BY <1>2, <2>2
      <3> QED
        BY <1>3, <2>2, <3>1
    <2>3. ASSUME NEW h \in 1..n, j = m + h, NEW i \in 1..n, k = m + i
          PROVE  Before(query, R[j], R[k])
      <3>1. h < i /\ h \in 1..Len(page) /\ i \in 1..Len(page)
        BY <1>2, <1>6, <2>3
      <3>2. R[j] = page[h] /\ R[k] = page[i]
        BY <1>2, <2>3
      <3> QED
        BY <1>c, <3>1, <3>2
    <2>4. (j \notin 1..m) => (k \notin 1..m)
      BY <1>2, <1>6
    <2> QED
      BY <1>4, <1>6, <2>1, <2>2, <2>3, <2>4
  <1> QED
    BY <1>2, <1>3, <1>5, <1>6 DEF R, m

\* A page leaves no gap: a row ahead of the walk before it and not after it is one of its own.
LEMMA PageHasNoGap ==
  ASSUME IInv, pc = "reply",
         NEW i \in (head + 1)..Len(journal), Rows(i),
         Walk!Ahead(rows, i), ~Walk!Ahead(rows \o Returned, i),
         (query.order = "desc") => (i <= known \/ (rows = << >> /\ i <= page[1]))
  PROVE  \E k \in DOMAIN (rows \o Returned) : (rows \o Returned)[k] = i
  <1> DEFINE m == Len(rows)
             n == Len(Returned)
             R == rows \o Returned
  <1>1. TypeOK /\ Linked /\ Scanning
    BY DEF IInv
  <1>2. /\ m \in Nat /\ n \in Nat /\ Len(page) \in Nat /\ n <= Len(page)
        /\ DOMAIN R = 1..(m + n)
        /\ \A k \in 1..m : R[k] = rows[k]
        /\ \A k \in 1..n : R[m + k] = page[k]
        /\ DOMAIN page = 1..Len(page) /\ DOMAIN rows = 1..m
        /\ \A k \in 1..Len(page) : page[k] \in Nat
        /\ pos \in Nat /\ i \in Nat /\ head \in Nat /\ floor \in Nat
    <2>1. pos \in Nat /\ i \in Nat /\ head \in Nat /\ floor \in Nat
      BY <1>1, Shapes
    <2> QED
      BY <1>1, <2>1, Answered
  <1> HIDE DEF m, n, R
  <1>3. \A k \in 1..m : Before(query, rows[k], i)
    BY <1>2, AheadMeans
  <1>4. PICK h \in 1..(m + n) : ~Before(query, R[h], i)
    BY <1>2, AheadMeans DEF R
  <1>5. h \notin 1..m
    BY <1>2, <1>3, <1>4
  <1>6. PICK k \in 1..n : h = m + k
    <2>1. h - m \in 1..n /\ h = m + (h - m)
      BY <1>2, <1>4, <1>5
    <2> QED
      BY <2>1
  <1>7. k \in 1..Len(page) /\ ~Before(query, page[k], i)
    <2>1. R[h] = page[k]
      BY <1>2, <1>6
    <2>2. k \in 1..Len(page)
      BY <1>2
    <2> QED
      BY <1>4, <2>1, <2>2
  <1>8. i \in Visible /\ Beyond(i)
    <2>1. i \in Visible
      BY <1>1, Shapes DEF Visible
    <2>2. (cursor # 0) => (rows # << >> /\ cursor = rows[m])
      BY <1>1 DEF Linked, m
    <2>3. (rows # << >>) => m \in 1..m
      <3>1. (rows # << >>) => m # 0
        BY <1>1, Shapes DEF m
      <3> QED
        BY <1>2, <3>1
    <2>4. Beyond(i)
      BY <1>3, <2>2, <2>3 DEF Beyond
    <2> QED
      BY <2>1, <2>4
  <1>9. Passed(i)
    <2>1. pos # 0 /\ (page[k] = pos \/ Before(query, page[k], pos))
      <3>1. page # << >>
        BY <1>1, <1>2, <1>7, Shapes
      <3> QED
        BY <1>1, <1>2, <1>7, <3>1 DEF Scanning
    <2>2. Reached(i)
      <3>1. page[k] \in Nat
        BY <1>2, <1>7
      <3> QED
        BY <1>2, <1>7, <2>1, <3>1 DEF Reached, Before
    <2> QED
      BY <1>1, <1>2, <1>7, <2>2, Shapes DEF Passed
  <1>10. PICK j \in 1..Len(page) : page[j] = i
    BY <1>1, <1>2, <1>8, <1>9 DEF Scanning
  <1>11. j <= k
    <2>1. (k < j) => Before(query, page[k], page[j])
      BY <1>1, <1>2, <1>7, <1>10 DEF Scanning
    <2> QED
      BY <1>7, <1>10, <2>1
  <1>12. j \in 1..n /\ m + j \in 1..(m + n)
    BY <1>2, <1>11
  <1>13. R[m + j] = i
    BY <1>2, <1>10, <1>12
  <1> QED
    BY <1>2, <1>12, <1>13 DEF R

\* When there is more, the look-ahead row is a row ahead of the page.
LEMMA MoreMeansMore ==
  ASSUME IInv, pc = "reply", HasMore
  PROVE  /\ Len(Returned) = query.limit /\ Returned # << >>
         /\ NextCursor = (rows \o Returned)[Len(rows \o Returned)]
         /\ rows \o Returned # << >>
         /\ \E i \in DOMAIN journal : Rows(i) /\ Walk!Ahead(rows \o Returned, i)
  <1> DEFINE m == Len(rows)
             n == Len(Returned)
             R == rows \o Returned
  <1>1. TypeOK /\ Scanning
    BY DEF IInv
  <1>2. /\ m \in Nat /\ n \in Nat /\ n = query.limit /\ n >= 1
        /\ Len(page) \in Nat /\ n + 1 <= Len(page)
        /\ R \in Seq(Indices) /\ Len(R) = m + n /\ DOMAIN R = 1..(m + n)
        /\ \A k \in 1..m : R[k] = rows[k]
        /\ \A k \in 1..n : R[m + k] = page[k] /\ Returned[k] = page[k]
        /\ DOMAIN page = 1..Len(page)
        /\ \A k \in 1..Len(page) : page[k] \in DOMAIN journal
    <2>1. /\ m \in Nat /\ n \in Nat /\ n = query.limit /\ n >= 1
          /\ Len(page) \in Nat /\ n + 1 <= Len(page)
      <3>1. m \in Nat /\ n \in Nat /\ n = query.limit
        BY <1>1, ReturnedFacts, Shapes
      <3>2. query.limit \in Nat /\ query.limit >= 1 /\ Len(page) \in Nat /\ Len(page) > query.limit
        BY <1>1, Shapes DEF HasMore
      <3> HIDE DEF m, n
      <3> QED
        BY <3>1, <3>2
    <2>2. /\ R \in Seq(Indices) /\ Len(R) = m + n /\ DOMAIN R = 1..(m + n)
          /\ \A k \in 1..m : R[k] = rows[k]
          /\ \A k \in 1..n : R[m + k] = page[k]
      BY <1>1, Answered
    <2>3. /\ \A k \in 1..n : Returned[k] = page[k]
          /\ DOMAIN page = 1..Len(page)
          /\ \A k \in 1..Len(page) : page[k] \in DOMAIN journal
      BY <1>1, ReturnedFacts, Shapes
    <2> QED
      BY <2>1, <2>2, <2>3
  <1>3. Returned # << >> /\ R # << >>
    BY <1>2, EmptySeq
  <1>4. NextCursor = R[Len(R)]
    <2>1. NextCursor = Returned[n]
      BY DEF NextCursor
    <2> HIDE DEF m, n, R
    <2> QED
      BY <1>2, <2>1
  <1> HIDE DEF R
  <1>5. n + 1 \in 1..Len(page)
    BY <1>2
  <1>6. ASSUME NEW k \in 1..(m + n)
        PROVE  Before(query, R[k], page[n + 1])
    <2>1. CASE k \in 1..m
      BY <1>2, <1>5, <2>1, PageContinues
    <2>2. CASE k \notin 1..m
      <3>1. k - m \in 1..n /\ k = m + (k - m) /\ k - m < n + 1 /\ k - m \in 1..Len(page)
        BY <1>2, <1>6, <2>2
      <3>2. R[k] = page[k - m]
        BY <1>2, <3>1
      <3> QED
        BY <1>1, <1>2, <1>5, <3>1, <3>2 DEF Scanning
    <2> QED
      BY <2>1, <2>2
  <1>7. Rows(page[n + 1])
    BY <1>1, <1>2, <1>5 DEF Scanning
  <1>8. Walk!Ahead(R, page[n + 1])
    BY <1>2, <1>6, AheadMeans
  <1> QED
    BY <1>2, <1>3, <1>4, <1>5, <1>7, <1>8 DEF R

\* When there is no more, nothing known to the client is ahead of the page.
LEMMA LastMeansLast ==
  ASSUME IInv, pc = "reply", ~HasMore,
         NEW i \in (head + 1)..known, Rows(i)
  PROVE  ~Walk!Ahead(rows \o Returned, i)
  <1> DEFINE m == Len(rows)
             R == rows \o Returned
  <1>1. TypeOK /\ Linked /\ Exhausted
    BY DEF IInv
  <1>2. /\ m \in Nat /\ Len(page) \in Nat
        /\ DOMAIN R = 1..(m + Len(page))
        /\ \A k \in 1..m : R[k] = rows[k]
        /\ \A k \in 1..Len(page) : R[m + k] = page[k]
        /\ DOMAIN page = 1..Len(page)
        /\ i \in Nat /\ i \in (floor + 1)..known
    BY <1>1, Answered, ReturnedFacts, Shapes
  <1> HIDE DEF m, R
  <1>3. SUFFICES ASSUME \A k \in DOMAIN R : Before(query, R[k], i)
                 PROVE  FALSE
    BY AheadMeans DEF R
  <1>4. Beyond(i)
    <2>1. (cursor # 0) => (rows # << >> /\ cursor = rows[m])
      BY <1>1 DEF Linked, m
    <2>2. (rows # << >>) => (m \in DOMAIN R /\ R[m] = rows[m])
      <3>1. (rows # << >>) => (m # 0)
        BY <1>1, Shapes DEF m
      <3>2. (m # 0) => (m \in 1..m /\ m \in 1..(m + Len(page)))
        BY <1>2
      <3> QED
        BY <1>2, <3>1, <3>2
    <2> QED
      BY <1>3, <2>1, <2>2 DEF Beyond
  <1>5. PICK k \in 1..Len(page) : page[k] = i
    BY <1>1, <1>2, <1>4 DEF Exhausted
  <1>6. m + k \in DOMAIN R /\ R[m + k] = i
    BY <1>2, <1>5
  <1> QED
    BY <1>2, <1>3, <1>6 DEF Before

\* An answer delivers the page.
LEMMA ReplyStep ==
  ASSUME IInv, ReplyMore \/ ReplyStranded \/ ReplyLast
  PROVE  IInv'
  <1>1. /\ TypeOK /\ InOrder /\ Linked /\ NoDuplicates /\ CursorIsExact
        /\ GapFree /\ CompleteIsComplete
    BY DEF IInv
  <1>2. TypeOK'
    BY <1>1, NextTyped DEF Next, Server
  <1>3. /\ UNCHANGED << query, journal, head, known >>
        /\ pc = "reply" /\ pc' = "client" /\ outcome = "walking"
        /\ rows' = rows \o Returned
    BY <1>1 DEF ReplyMore, ReplyStranded, ReplyLast, Linked
  <1>4. /\ \A i : Rows(i)' <=> Rows(i)
        /\ \A i : Walk!Ahead(rows, i)' <=> Walk!Ahead(rows \o Returned, i)
        /\ \A i, j : Before(query', i, j) <=> Before(query, i, j)
    BY <1>3 DEF Rows, Walk!Ahead, Walk!Before
  <1>5. InOrder'
    BY <1>1, <1>3 DEF InOrder
  <1>6. Linked'
    <2>1. CASE ReplyMore
      BY <1>3, <2>1, MoreMeansMore DEF Linked, ReplyMore
    <2>2. CASE ReplyStranded \/ ReplyLast
      BY <2>2 DEF Linked, ReplyStranded, ReplyLast
    <2> QED
      BY <2>1, <2>2
  <1>7. NoDuplicates'
    BY <1>3, <1>4, PageContinues DEF NoDuplicates
  <1>8. CursorIsExact' /\ Scanning' /\ Exhausted'
    BY <1>3 DEF CursorIsExact, Scanning, Exhausted, ReplyMore, ReplyStranded, ReplyLast
  <1>9. GapFree'
    <2>1. SUFFICES ASSUME NEW i \in (head + 1)..Len(journal), Rows(i),
                          ~Walk!Ahead(rows \o Returned, i),
                          (query.order = "desc") => (i <= (rows \o Returned)[1])
                   PROVE  \E k \in DOMAIN (rows \o Returned) : (rows \o Returned)[k] = i
      BY <1>3, <1>4 DEF GapFree
    <2>2. CASE ~Walk!Ahead(rows, i)
      <3>1. rows # << >> /\ Len(rows) \in Nat /\ 1 \in 1..Len(rows)
        BY <1>1, <2>2, AheadMeans, Shapes
      <3>2. (rows \o Returned)[1] = rows[1]
        BY <1>1, <3>1, Answered
      <3>3. PICK k \in DOMAIN rows : rows[k] = i
        BY <1>1, <2>1, <2>2, <3>2 DEF GapFree
      <3>4. k \in 1..Len(rows) /\ k \in DOMAIN (rows \o Returned)
        <4>1. Len(rows) \in Nat /\ Len(Returned) \in Nat /\ k \in 1..Len(rows)
          BY <1>1, <3>3, ReturnedFacts, Shapes
        <4>2. DOMAIN (rows \o Returned) = 1..(Len(rows) + Len(Returned))
          BY <1>1, Answered
        <4> QED
          BY <4>1, <4>2
      <3> QED
        BY <1>1, <3>3, <3>4, Answered
    <2>3. CASE Walk!Ahead(rows, i)
      <3>1. CASE rows = << >>
        <4>1. Len(rows) = 0 /\ Len(Returned) \in Nat /\ Returned \in Seq(Indices)
          BY <1>1, <3>1, Shapes, ReturnedFacts
        <4>2. Len(Returned) # 0
          BY <1>1, <2>1, <4>1, AheadMeans, Answered
        <4>3. 1 \in 1..Len(Returned) /\ Len(rows) + 1 = 1
          BY <4>1, <4>2
        <4>4. (rows \o Returned)[1] = page[1]
          BY <1>1, <4>3, Answered
        <4> QED
          BY <1>3, <2>1, <2>3, <3>1, <4>4, PageHasNoGap
      <3>2. CASE rows # << >>
        <4>1. cursor = rows[Len(rows)] /\ cursor <= known /\ Len(rows) \in DOMAIN rows
          BY <1>1, <1>3, <3>2, Shapes DEF Linked
        <4>2. Before(query, cursor, i)
          BY <2>3, <4>1, AheadMeans
        <4>3. (query.order = "desc") => i <= known
          BY <1>1, <4>1, <4>2, Shapes DEF Before
        <4> QED
          BY <1>3, <2>1, <2>3, <4>3, PageHasNoGap
      <3> QED
        BY <3>1, <3>2
    <2> QED
      BY <2>2, <2>3
  <1>10. CompleteIsComplete'
    BY <1>3, <1>4, LastMeansLast
       DEF CompleteIsComplete, ReplyMore, ReplyStranded, ReplyLast
  <1> QED
    BY <1>2, <1>5, <1>6, <1>7, <1>8, <1>9, <1>10 DEF IInv

\* Every step keeps the inductive invariant.
LEMMA NextInvariant == IInv /\ [Next]_vars => IInv'
  <1> SUFFICES ASSUME IInv, [Next]_vars PROVE IInv'
    OBVIOUS
  <1>1. CASE UNCHANGED vars
    <2>1. /\ TypeOK /\ InOrder /\ Linked /\ NoDuplicates /\ CursorIsExact
          /\ Scanning /\ Exhausted /\ GapFree /\ CompleteIsComplete
      BY DEF IInv
    <2>2. TypeOK'
      BY <2>1, NextTyped
    <2>3. InOrder' /\ NoDuplicates' /\ GapFree' /\ CompleteIsComplete'
      BY <1>1, <2>1, <2>2, Shapes, WalkKept DEF vars
    <2>4. Scanning' /\ Exhausted'
      BY <1>1, <2>1, ScanKept DEF vars
    <2>5. Linked' /\ CursorIsExact'
      BY <1>1, <2>1 DEF vars, Linked, CursorIsExact
    <2> QED
      BY <2>2, <2>3, <2>4, <2>5 DEF IInv
  <1> QED
    BY <1>1, WriteStep, QuietStep, OpenStep, SeekStep, SkipStep, KeepStep, StopStep, ReplyStep
       DEF Next, Server, Rest

\* The inductive invariant holds of every behaviour of list_logs.
LEMMA Invariance == Spec => []IInv
  BY InitInvariant, NextInvariant, PTL DEF Spec

-----------------------------------------------------------------------------
(***************************************************************************)
(* What a client gets.                                                     *)
(***************************************************************************)

\* Across pages, retries, appends and vacuuming, the client gets selected rows, each once and
\* in the selected order.
THEOREM WalkIsExclusive == Spec => []NoDuplicates
  <1>1. IInv => NoDuplicates
    BY DEF IInv
  <1> QED
    BY <1>1, Invariance, PTL

\* Nothing is lost between pages: what is selected, still in the journal and not ahead of the
\* last row delivered was itself delivered.
THEOREM WalkHasNoGaps == Spec => []NoGaps
  <1>1. IInv => NoGaps
    <2> SUFFICES ASSUME IInv PROVE NoGaps
      OBVIOUS
    <2>1. TypeOK /\ GapFree
      BY DEF IInv
    <2>2. (head + 1)..known \subseteq (head + 1)..Len(journal)
      BY <2>1, Shapes
    <2> QED
      BY <2>1, <2>2 DEF NoGaps, GapFree
  <1> QED
    BY <1>1, Invariance, PTL

\* A page that is not truncated leaves no row ahead that the client could have asked for.
THEOREM CompleteWalkIsComplete == Spec => []CompleteIsComplete
  <1>1. IInv => CompleteIsComplete
    BY DEF IInv
  <1> QED
    BY <1>1, Invariance, PTL

\* An expired cursor yields no row of its neighbours, and a walk is refused only for an
\* expired cursor or after a call that failed.
THEOREM CursorsAreExact == Spec => []CursorIsExact
  <1>1. IInv => CursorIsExact
    BY DEF IInv
  <1> QED
    BY <1>1, Invariance, PTL

-----------------------------------------------------------------------------
(***************************************************************************)
(* list_logs implements the exclusive walk of LogWalk.                     *)
(***************************************************************************)

\* The variables of LogWalk are seven of this module's.
LEMMA WalkState ==
  /\ \A i : Walk!Selected(i) <=> Rows(i)
  /\ \A i, j : Walk!Before(query, i, j) <=> Before(query, i, j)
  BY DEF Walk!Selected, Walk!Selects, Walk!InWindow, Walk!PassesUnit, Walk!PassesExclusions,
         Walk!PassesPriority, Walk!PassesGrep, Walk!SelectUnit, Walk!Before,
         Rows, Selects, InWindow, PassesUnit, PassesExclusions, PassesPriority, PassesGrep,
         SelectUnit, Before

\* The batch that LogWalk reads off an answer is the page that was returned.
LEMMA BatchIsPage ==
  ASSUME TypeOK, rows' = rows \o Returned
  PROVE  Walk!Batch = Returned
  <1>1. rows \in Seq(Indices) /\ Returned \in Seq(Indices)
    BY ReturnedFacts DEF TypeOK
  <1>2. Len(rows \o Returned) = Len(rows) + Len(Returned)
    BY Answered
  <1>3. SubSeq(rows \o Returned, Len(rows) + 1, Len(rows) + Len(Returned)) = Returned
    BY <1>1, SubSeqOfConcat2
  <1> QED
    BY <1>2, <1>3 DEF Walk!Batch

\* An answer that delivers a page is a batch of the walk.
LEMMA AnswerDelivers ==
  ASSUME IInv, ReplyMore \/ ReplyStranded \/ ReplyLast
  PROVE  \E result \in {"walking", "complete", "stranded"} : Walk!Deliver(Walk!Batch, result)
  <1>1. TypeOK /\ Linked
    BY DEF IInv
  <1>2. /\ UNCHANGED << query, journal, head, known >>
        /\ pc = "reply" /\ outcome = "walking"
        /\ rows' = rows \o Returned
    BY <1>1 DEF ReplyMore, ReplyStranded, ReplyLast, Linked
  <1>3. Walk!Batch = Returned
    BY <1>1, <1>2, BatchIsPage
  <1>4. /\ Len(Returned) <= query.limit
        /\ \A k \in DOMAIN Returned : Walk!Selected(Returned[k])
    <2>1. \A k \in 1..Len(Returned) : Returned[k] = page[k] /\ k \in DOMAIN page
      <3>1. \A k \in 1..Len(Returned) : Returned[k] = page[k]
        BY <1>1, ReturnedFacts
      <3>2. /\ Len(Returned) \in Nat /\ Len(page) \in Nat /\ Len(Returned) <= Len(page)
            /\ DOMAIN page = 1..Len(page)
        BY <1>1, Answered
      <3> QED
        BY <3>1, <3>2
    <2>2. \A k \in DOMAIN page : Rows(page[k])
      BY <1>2 DEF IInv, Scanning
    <2> QED
      BY <1>1, <2>1, <2>2, ReturnedFacts, WalkState
  <1>5. \A j, k \in DOMAIN rows' : j < k => Walk!Before(query, rows'[j], rows'[k])
    BY <1>2, PageContinues, WalkState
  <1>6. Walk!PassesNone(rows, rows')
    <2>1. SUFFICES ASSUME NEW i \in (head + 1)..known, Rows(i),
                          Walk!Ahead(rows, i), ~Walk!Ahead(rows \o Returned, i)
                   PROVE  \E k \in DOMAIN (rows \o Returned) : (rows \o Returned)[k] = i
      BY <1>2, WalkState DEF Walk!PassesNone
    <2>2. i \in (head + 1)..Len(journal) /\ i <= known
      BY <1>1, <2>1, Shapes
    <2> QED
      BY <1>2, <2>1, <2>2, PageHasNoGap
  <1>7. CASE ReplyMore
    <2>1. outcome' = "walking" /\ HasMore
      BY <1>2, <1>7 DEF ReplyMore
    <2>2. Returned # << >> /\ \E i \in DOMAIN journal : Walk!Selected(i) /\ Walk!Ahead(rows', i)
      BY <1>2, <2>1, MoreMeansMore, WalkState
    <2>3. Walk!Deliver(Returned, "walking")
      BY <1>2, <1>4, <1>5, <1>6, <1>7, <2>1, <2>2 DEF Walk!Deliver, ReplyMore
    <2> QED
      BY <1>3, <2>3
  <1>8. CASE ReplyStranded
    <2>1. outcome' = "stranded" /\ faults' = faults + 1
      BY <1>8 DEF ReplyStranded
    <2>2. Walk!Deliver(Returned, "stranded")
      BY <1>2, <1>4, <1>5, <1>6, <2>1 DEF Walk!Deliver
    <2> QED
      BY <1>3, <2>2
  <1>9. CASE ReplyLast
    <2>1. \A i \in (head + 1)..known : Walk!Selected(i) => ~Walk!Ahead(rows', i)
      BY <1>2, <1>9, LastMeansLast, WalkState DEF ReplyLast
    <2>2. Walk!Deliver(Returned, "complete")
      BY <1>2, <1>4, <1>5, <1>6, <1>9, <2>1 DEF Walk!Deliver, ReplyLast
    <2> QED
      BY <1>3, <2>2
  <1> QED
    BY <1>7, <1>8, <1>9

\* A refused cursor is that of the last row delivered, and it is gone unless a call failed.
LEMMA SeekRefuses ==
  ASSUME IInv, RejectCursor \/ SeekFault
  PROVE  Walk!Refuse
  <1>1. TypeOK /\ Linked
    BY DEF IInv
  <1>2. /\ pc = "seek" /\ outcome' = "refused"
        /\ UNCHANGED << query, rows, journal, head, known >>
    BY DEF RejectCursor, SeekFault, reader
  <1>3. outcome = "walking" /\ cursor # 0
    BY <1>1, <1>2 DEF Linked
  <1>4. rows # << >> /\ cursor = rows[Len(rows)]
    BY <1>1, <1>3 DEF Linked
  <1>5. CASE RejectCursor
    <2>1. cursor <= head /\ faults' = faults
      BY <1>1, <1>5, RejectedIsGone DEF RejectCursor
    <2> QED
      BY <1>2, <1>3, <1>4, <2>1 DEF Walk!Refuse
  <1>6. CASE SeekFault
    BY <1>2, <1>3, <1>4, <1>6 DEF Walk!Refuse, SeekFault
  <1> QED
    BY <1>5, <1>6

\* Every step of list_logs is a step of the walk or none.
LEMMA StepImplements == IInv /\ [Next]_vars => [Walk!Next]_(Walk!vars)
  <1> SUFFICES ASSUME IInv, [Next]_vars PROVE [Walk!Next]_(Walk!vars)
    OBVIOUS
  <1>1. ASSUME NEW e \in Entries, Write(e) PROVE Walk!Append1(e)
    BY <1>1 DEF Write, Walk!Append1, client
  <1>2. CASE Vacuum
    <2>1. head' > head /\ head' <= Len(journal)
      <3>1. head \in Nat /\ Len(journal) \in Nat
        BY Shapes DEF IInv
      <3> QED
        BY <1>2, <3>1 DEF Vacuum
    <2> QED
      BY <1>2, <2>1 DEF Vacuum, Walk!Vacuum, Walk!Next, client
  <1>3. CASE OpenByTime \/ OpenByCursor
    <2>1. outcome = "walking"
      BY <1>3 DEF IInv, Linked, OpenByTime, OpenByCursor
    <2>2. Walk!Ask
      BY <1>3, <2>1 DEF OpenByTime, OpenByCursor, Walk!Ask, client
    <2> QED
      BY <2>2 DEF Walk!Next
  <1>4. CASE RejectCursor \/ SeekFault
    BY <1>4, SeekRefuses DEF Walk!Next
  <1>5. CASE Fault
    <2>1. outcome = "walking"
      BY <1>5 DEF IInv, Linked, Fault
    <2>2. Walk!Fail
      BY <1>5, <2>1 DEF Fault, Walk!Fail, client
    <2> QED
      BY <2>2 DEF Walk!Next
  <1>6. CASE ReplyMore \/ ReplyStranded \/ ReplyLast
    BY <1>6, AnswerDelivers DEF Walk!Next
  <1>7. CASE Request \/ SeekCursor \/ Skip \/ Keep \/ StopScan \/ UNCHANGED vars
    BY <1>7 DEF Request, SeekCursor, Skip, Keep, StopScan, vars, client, Walk!vars
  <1> QED
    BY <1>1, <1>2, <1>3, <1>4, <1>5, <1>6, <1>7 DEF Next, Server, Rest, Walk!Next

\* The pages of list_logs make up an exclusive walk over a live journal.
THEOREM Implementation == Spec => ImplementsWalk
  <1>1. Init => Walk!Init
    BY DEF Init, Walk!Init
  <1> QED
    BY <1>1, Invariance, StepImplements, PTL DEF Spec, ImplementsWalk, Walk!Spec

=============================================================================
