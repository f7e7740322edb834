------------------------------- MODULE RowOps -------------------------------
(***************************************************************************)
(* What the list tools do with a sequence of rows (src/src/domain/):       *)
(* filters and the stable sort of `sort_by`, `truncate`, paginate_rows,    *)
(* and the maps the summaries count into.                                  *)
(***************************************************************************)
EXTENDS Ordering, SequencesExt

\* The rows that pass, sorted: as under Slice::sort_by, those that compare equal stay in the
\* order they had.
FilterSort(rows, Passes(_), Less(_, _)) ==
    LET places == {k \in DOMAIN rows : Passes(rows[k])}
        order == Enumerated([k \in places |->
            {j \in places : IF j < k THEN ~Less(rows[k], rows[j])
                                     ELSE Less(rows[j], rows[k])}])
    IN  [k \in DOMAIN order |-> rows[order[k]]]

Truncate(rows, n) == SubSeq(rows, 1, IF Len(rows) < n THEN Len(rows) ELSE n)

\* Mutant of Paginate: the rows are counted after the limit.
PaginateLate(rows, limit) ==
    LET page == Truncate(rows, limit)
    IN  [rows |-> page, total |-> Len(page), returned |-> Len(page), truncated |-> FALSE]

\* paginate_rows
Paginate(rows, limit) ==
    LET page == Truncate(rows, limit)
    IN  [rows |-> page, total |-> Len(rows), returned |-> Len(page),
         truncated |-> Len(rows) > Len(page)]

\* How many rows have each key, given the key of every row; none is no key.
Tally(keys, none) ==
    [key \in ToSet(keys) \ {none} |-> Cardinality({k \in DOMAIN keys : keys[k] = key})]

=============================================================================
