------------------------------- MODULE LogWalk -------------------------------
(***************************************************************************)
(* What list_logs promises to a client that follows next_cursor until it   *)
(* is null: an exclusive walk, in the selected order, over a journal that  *)
(* keeps growing at one end and being vacuumed at the other.               *)
(*                                                                         *)
(* Each page is the next batch of selected rows; it skips none that is     *)
(* still in the journal.  The walk is complete only when no selected row   *)
(* it was asked about is left, and it is refused only when the row it      *)
(* would continue from is gone.  A failed call may cost the client a page, *)
(* the walk (refused, too) or the cursor to go on from (stranded), and     *)
(* nothing but a failed call does.                                         *)
(***************************************************************************)
EXTENDS LogQuery

CONSTANT Entries   \* the entries the journal may hold

VARIABLES
    query,     \* the query, the same on every page
    journal,   \* every entry ever written
    head,      \* how many of the oldest are vacuumed
    rows,      \* the rows delivered so far, as indices into journal
    outcome,   \* "walking", "complete", "refused" or "stranded"
    faults,    \* calls that failed so far
    known      \* the length of the journal when the client last asked

vars == << query, journal, head, rows, outcome, faults, known >>

Selected(i) == Selects(query, journal[i])

\* Row i lies ahead of the walk.
Ahead(done, i) ==
    \A k \in DOMAIN done : Before(query, done[k], i)

\* No selected row that is still in the journal is passed over: everything ahead
\* of `old` and not ahead of `new` has been delivered.
PassesNone(old, new) ==
    \A i \in (head' + 1)..known :
        Selected(i) /\ Ahead(old, i) /\ ~ Ahead(new, i) =>
            \E k \in DOMAIN new : new[k] = i

Init ==
    /\ head = 0
    /\ rows = << >>
    /\ outcome = "walking"
    /\ faults = 0
    /\ known = Len(journal)

Append1(e) ==
    /\ journal' = Append(journal, e)
    /\ UNCHANGED << query, head, rows, outcome, faults, known >>

Vacuum ==
    /\ head' > head
    /\ head' <= Len(journal)
    /\ UNCHANGED << query, journal, rows, outcome, faults, known >>

\* The client asks for the next page, or again for one that failed: what is in
\* the journal by now is what the answer has to account for.
Ask ==
    /\ outcome = "walking"
    /\ known' = Len(journal)
    /\ UNCHANGED << query, journal, head, rows, outcome, faults >>

\* A page of at most limit rows: each selected, each ahead of the one before.  The walk
\* is to go on only when there was a row to go on to, gone as it may be by now.
Deliver(batch, result) ==
    /\ outcome = "walking"
    /\ Len(batch) <= query.limit
    /\ \A k \in DOMAIN batch : Selected(batch[k])
    /\ rows' = rows \o batch
    /\ \A j, k \in DOMAIN rows' : j < k => Before(query, rows'[j], rows'[k])
    /\ head' = head
    /\ PassesNone(rows, rows')
    /\ outcome' = result
    /\ result = "walking" =>
          batch # << >> /\ \E i \in DOMAIN journal : Selected(i) /\ Ahead(rows', i)
    /\ result = "complete" =>
          \A i \in (head + 1)..known : Selected(i) => ~ Ahead(rows', i)
    /\ faults' = IF result = "stranded" THEN faults + 1 ELSE faults
    /\ UNCHANGED << query, journal, known >>

\* The answer is an error, and the client may ask again.
Fail ==
    /\ outcome = "walking"
    /\ faults' = faults + 1
    /\ UNCHANGED << query, journal, head, rows, outcome, known >>

\* The continuation is refused: because its row is gone, or because a call fails now.
Refuse ==
    /\ outcome = "walking"
    /\ rows # << >>
    /\ outcome' = "refused"
    /\ \/ rows[Len(rows)] <= head /\ faults' = faults
       \/ faults' = faults + 1
    /\ UNCHANGED << query, journal, head, rows, known >>

\* The batch of a step, read off its two states.
Batch == SubSeq(rows', Len(rows) + 1, Len(rows'))

Next ==
    \/ \E e \in Entries : Append1(e)
    \/ Vacuum
    \/ Ask
    \/ \E result \in {"walking", "complete", "stranded"} : Deliver(Batch, result)
    \/ Fail
    \/ Refuse

Spec == Init /\ [][Next]_vars

=============================================================================
