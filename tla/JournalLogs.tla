----------------------------- MODULE JournalLogs -----------------------------
(***************************************************************************)
(* list_logs over a live journal: read_journal_logs and                    *)
(* position_at_exact_cursor (src/src/systemd_client.rs) run once per page  *)
(* on a blocking thread, handle_list_logs (src/src/domain/tools/logs.rs)   *)
(* turns the rows into a page with next_cursor, and a client follows       *)
(* next_cursor until it is null or refused.                                *)
(*                                                                         *)
(* The journal is journald's: it grows at one end while a page is read,    *)
(* and whole files are vacuumed at the other.  A reader handle keeps the   *)
(* files it opened, so what is vacuumed during a page still shows to that  *)
(* page and is gone for the next.  Each loop iteration of the scan is a    *)
(* step of its own, because the journal changes between iterations.        *)
(*                                                                         *)
(* An entry's index stands for its cursor.                                 *)
(***************************************************************************)
EXTENDS LogQuery, FiniteSetsExt

CONSTANTS
    Queries,       \* the queries a client may walk with
    Entries,       \* the entries the journal may hold
    MaxInitial,    \* bound: entries in the journal when the walk begins
    MaxLen,        \* bound: entries ever written
    MaxFaults      \* bound: calls into libsystemd that fail

\* A query as build_log_query lets it through: the limit is at least 1, times are numbers.
ASSUME QueriesAssumption ==
    \A q \in Queries : /\ q.limit \in Nat \ {0}
                       /\ q.order \in {"asc", "desc"}
                       /\ q.start \in Int /\ q.end \in Int

ASSUME EntriesAssumption == \A e \in Entries : e.ts \in Int

ASSUME BoundsAssumption ==
    MaxLen \in Nat /\ MaxInitial \in 0..MaxLen /\ MaxFaults \in Nat

VARIABLES
    query,     \* the client's query, the same on every page
    journal,   \* every entry ever written
    head,      \* how many of the oldest are vacuumed
    pc,        \* the request: "client", "open", "scan" or "reply"
    cursor,    \* the client's continuation cursor, 0 for none
    floor,     \* head when the reader's handle was opened
    pos,       \* where the reader stands, 0 while only a seek is pending
    page,      \* the `entries` of read_journal_logs
    faults,    \* failed calls so far
    rows,      \* history: the rows delivered so far, as indices into journal
    outcome,   \* history: what the client knows of its walk: "walking", "complete",
               \* "refused" (invalid_cursor) or "stranded" (more, but no next_cursor)
    known      \* history: the length of the journal when the page was opened

vars == << query, journal, head, pc, cursor, floor, pos, page, faults,
           rows, outcome, known >>

client == << query, rows, outcome >>
reader == << floor, pos, page >>

Walk == INSTANCE LogWalk

Rows(i) == Selects(query, journal[i])

\* Entries are stamped in order: the wall clock is not set back, which the scan relies on.
Stamped(j, e) == j # << >> => j[Len(j)].ts <= e.ts

Init ==
    /\ query \in Queries
    /\ journal \in UNION {[1..n -> Entries] : n \in 0..MaxInitial}
    /\ \A i, j \in DOMAIN journal : i < j => journal[i].ts <= journal[j].ts
    /\ head = 0
    /\ pc = "client"
    /\ cursor = 0
    /\ floor = 0 /\ pos = 0 /\ page = << >>
    /\ faults = 0
    /\ rows = << >> /\ outcome = "walking"
    /\ known = Len(journal)

-----------------------------------------------------------------------------
(***************************************************************************)
(* journald.                                                               *)
(***************************************************************************)

\* A service logs an entry.
Write(e) ==
    /\ Len(journal) < MaxLen
    /\ Stamped(journal, e)
    /\ journal' = Append(journal, e)
    /\ UNCHANGED << client, reader, head, pc, cursor, faults, known >>

\* The oldest files are removed to keep the journal within its size.
Vacuum ==
    /\ head' \in (head + 1)..Len(journal)
    /\ UNCHANGED << client, reader, journal, pc, cursor, faults, known >>

-----------------------------------------------------------------------------
(***************************************************************************)
(* The reader.                                                             *)
(***************************************************************************)

\* What the open handle can see.
Visible == (floor + 1)..Len(journal)

\* The first entry an advance selects after seek_realtime_usec (seek_head or
\* seek_tail when the bound is before the epoch), and 0 when there is none.
SoughtByTime ==
    LET ahead == {i \in Visible :
                     IF query.order = "asc" THEN journal[i].ts >= query.start
                                            ELSE journal[i].ts <= query.end}
    IN  IF ahead = {} THEN 0
        ELSE IF query.order = "asc" THEN Min(ahead) ELSE Max(ahead)

\* The entry select_sought_entry selects after seek_cursor: the entry of the
\* cursor or, when that is gone, the nearest one after it; 0 when there is none.
SoughtByCursor ==
    LET after == {i \in Visible : i >= cursor}
    IN  IF after = {} THEN 0 ELSE Min(after)

\* previous() or next(): 0 when the handle shows nothing further.
Advance ==
    IF pos = 0 THEN SoughtByTime
    ELSE IF query.order = "asc"
         THEN IF pos + 1 \in Visible THEN pos + 1 ELSE 0
         ELSE IF pos - 1 \in Visible THEN pos - 1 ELSE 0

\* Mutant of Positioned: the nearest entry is taken for the cursor's.
PositionedNearby == SoughtByCursor # 0

\* position_at_exact_cursor: the sought entry must be the cursor's own.
Positioned == SoughtByCursor # 0 /\ SoughtByCursor = cursor

\* Mutant of ResumeAt: the page starts with the cursor's entry again.
ResumeInclusive ==
    IF query.order = "asc" THEN SoughtByCursor - 1 ELSE SoughtByCursor + 1

\* The scan resumes from the cursor's entry, which its first advance leaves.
ResumeAt == SoughtByCursor

\* Mutants of Scannable: the loop stops at a full page, with no look-ahead row,
\* or reads a second one.
ScannableNoLookahead == Len(page) < query.limit

ScannableOneTooMany == Len(page) <= query.limit + 1

\* The loop condition: one row more than the page is read, to know has_more.
Scannable == Len(page) <= query.limit

\* Mutant of PastWindow: the scan stops at the window's edge, not beyond it.
PastWindowAtEdge(i) ==
    IF query.order = "asc" THEN journal[i].ts >= query.end
                           ELSE journal[i].ts <= query.start

\* The scan has left the window on its far side and breaks.
PastWindow(i) ==
    IF query.order = "asc" THEN journal[i].ts > query.end
                           ELSE journal[i].ts < query.start

\* The loop goes on with the entry it advances to.
Continues == Scannable /\ Advance # 0 /\ ~ PastWindow(Advance)

\* The client asks for its first page, or for the one after its cursor.
Request ==
    /\ pc = "client"
    /\ outcome = "walking"
    /\ pc' = "open"
    /\ UNCHANGED << client, reader, journal, head, cursor, faults, known >>

\* The handle is opened; without a cursor, the seek to the window's near edge
\* takes effect only with the first advance.
OpenByTime ==
    /\ pc = "open"
    /\ cursor = 0
    /\ floor' = head /\ pos' = 0 /\ page' = << >>
    /\ known' = Len(journal)
    /\ pc' = "scan"
    /\ UNCHANGED << client, journal, head, cursor, faults >>

\* The handle is opened.
OpenByCursor ==
    /\ pc = "open"
    /\ cursor # 0
    /\ floor' = head /\ pos' = 0 /\ page' = << >>
    /\ known' = Len(journal)
    /\ pc' = "seek"
    /\ UNCHANGED << client, journal, head, cursor, faults >>

\* The cursor's entry is found and the scan will go on from it.
SeekCursor ==
    /\ pc = "seek"
    /\ Positioned
    /\ pos' = ResumeAt
    /\ pc' = "scan"
    /\ UNCHANGED << client, journal, head, cursor, floor, page, faults, known >>

\* invalid_cursor: the client learns that its walk cannot be continued.
RejectCursor ==
    /\ pc = "seek"
    /\ ~ Positioned
    /\ pc' = "client"
    /\ outcome' = "refused"
    /\ UNCHANGED << query, rows, reader, journal, head, cursor, faults, known >>

\* Any error of the seek is answered with the same invalid_cursor, whether or not the
\* cursor's entry is still there: the client cannot tell the two apart.
SeekFault ==
    /\ pc = "seek"
    /\ faults < MaxFaults
    /\ faults' = faults + 1
    /\ pc' = "client"
    /\ outcome' = "refused"
    /\ UNCHANGED << query, rows, reader, journal, head, cursor, known >>

\* One iteration that skips the entry: before the window or not selected.
Skip ==
    /\ pc = "scan"
    /\ Continues
    /\ ~ Rows(Advance)
    /\ pos' = Advance
    /\ UNCHANGED << client, journal, head, pc, cursor, floor, page, faults, known >>

\* One iteration that keeps the entry.
Keep ==
    /\ pc = "scan"
    /\ Continues
    /\ Rows(Advance)
    /\ pos' = Advance
    /\ page' = Append(page, Advance)
    /\ UNCHANGED << client, journal, head, pc, cursor, floor, faults, known >>

\* Mutant of StopScan: with nothing further to read, the scan waits for more.
StopScanWaits ==
    /\ pc = "scan"
    /\ Advance # 0
    /\ ~ Continues
    /\ pc' = "reply"
    /\ UNCHANGED << client, reader, journal, head, cursor, faults, known >>

\* The loop ends: look-ahead row found, nothing further, or past the window.
StopScan ==
    /\ pc = "scan"
    /\ ~ Continues
    /\ pc' = "reply"
    /\ UNCHANGED << client, reader, journal, head, cursor, faults, known >>

\* A call into libsystemd fails: the tool call answers with an internal error,
\* nothing of the page is returned, and the client may ask again.
Fault ==
    /\ pc \in {"open", "scan"}
    /\ faults < MaxFaults
    /\ faults' = faults + 1
    /\ page' = << >>
    /\ pc' = "client"
    /\ UNCHANGED << client, journal, head, cursor, floor, pos, known >>

-----------------------------------------------------------------------------
(***************************************************************************)
(* handle_list_logs.                                                       *)
(***************************************************************************)

HasMore == Len(page) > query.limit

\* entries.truncate(limit)
Returned == SubSeq(page, 1, Min({Len(page), query.limit}))

\* Mutant of NextCursor: the cursor of the look-ahead row.
NextCursorOfLookahead == page[Len(page)]

\* The cursor of the last row of the page, when there is more.
NextCursor == Returned[Len(Returned)]

\* The page is answered with next_cursor, and the client goes on from it.
ReplyMore ==
    /\ pc = "reply"
    /\ HasMore
    /\ rows' = rows \o Returned
    /\ cursor' = NextCursor
    /\ pc' = "client"
    /\ UNCHANGED << query, outcome, reader, journal, head, faults, known >>

\* reader.cursor() failed for the last row: the page says truncated and has a
\* null next_cursor, which leaves the client nothing to go on from.
ReplyStranded ==
    /\ pc = "reply"
    /\ HasMore
    /\ faults < MaxFaults
    /\ faults' = faults + 1
    /\ rows' = rows \o Returned
    /\ outcome' = "stranded"
    /\ pc' = "client"
    /\ UNCHANGED << query, reader, journal, head, cursor, known >>

\* The last page: truncated is false.
ReplyLast ==
    /\ pc = "reply"
    /\ ~ HasMore
    /\ rows' = rows \o Returned
    /\ outcome' = "complete"
    /\ pc' = "client"
    /\ UNCHANGED << query, reader, journal, head, cursor, faults, known >>

\* The client's walk is over.
Rest == outcome # "walking" /\ UNCHANGED vars

Server ==
    \/ OpenByTime \/ OpenByCursor \/ SeekCursor \/ RejectCursor
    \/ Skip \/ Keep \/ StopScan
    \/ ReplyMore \/ ReplyLast

Next ==
    \/ \E e \in Entries : Write(e)
    \/ Vacuum
    \/ Request
    \/ Server
    \/ Fault \/ SeekFault
    \/ ReplyStranded
    \/ Rest

\* The blocking thread runs until it answers, and the client keeps walking.
Spec == Init /\ [][Next]_vars /\ WF_vars(Server) /\ WF_vars(Request)

-----------------------------------------------------------------------------
Indices == 1..Len(journal)

\* The shape of the state.
TypeOK ==
    /\ query \in Queries
    /\ journal \in Seq(Entries) /\ Len(journal) <= MaxLen
    /\ head \in 0..Len(journal)
    /\ pc \in {"client", "open", "seek", "scan", "reply"}
    /\ cursor \in 0..Len(journal)
    /\ floor \in 0..head
    /\ pos \in 0..Len(journal)
    /\ page \in Seq(Indices) /\ Len(page) <= query.limit + 1
    /\ faults \in 0..MaxFaults
    /\ rows \in Seq(Indices)
    /\ outcome \in {"walking", "complete", "refused", "stranded"}
    /\ known \in 0..Len(journal)

\* Across pages, retries, appends and vacuuming, the client gets selected rows,
\* each once and in the selected order.
NoDuplicates ==
    /\ \A k \in DOMAIN rows : Rows(rows[k])
    /\ \A j, k \in DOMAIN rows : j < k => Before(query, rows[j], rows[k])

\* Nothing is lost between pages: whatever is selected, still in the journal and
\* not ahead of the last row delivered has itself been delivered.  Rows written
\* behind a descending walk after its page was opened are not part of it.
NoGaps ==
    \A i \in (head + 1)..known :
        Rows(i) /\ ~ Walk!Ahead(rows, i) /\ (query.order = "desc" => i <= rows[1]) =>
            \E k \in DOMAIN rows : rows[k] = i

\* A page that is not truncated is the last one: when the walk is complete, no
\* selected row that was in the journal when the page was opened is still ahead.
\* (A truncated page without next_cursor, ReplyStranded, promises nothing of the kind.)
CompleteIsComplete ==
    outcome = "complete" =>
        \A i \in (head + 1)..known : Rows(i) => ~ Walk!Ahead(rows, i)

\* An expired cursor never yields a row of its neighbours: a scan that continues has
\* found the cursor's own entry.  And while no call into libsystemd has failed, a
\* client is refused only when that entry is gone.  After a failed call a client with a
\* live cursor may be refused as well, which docs/requirements.md:339 does not provide for;
\* ImplementsWalk says that it takes a call that fails at that very moment.
CursorIsExact ==
    /\ pc \in {"scan", "reply"} /\ cursor # 0 => floor < cursor
    /\ outcome = "refused" => cursor # 0 /\ (cursor <= head \/ faults > 0)

\* Following next_cursor comes to an end.
WalkEnds == <>(outcome # "walking")

\* With both scopes, the records of a user unit are part of the answer: a
\* complete walk for that unit has delivered each of them.
UserRecordsIncluded ==
    outcome = "complete" /\ query.scope = "both" =>
        \A i \in (head + 1)..known :
            InWindow(query, journal[i]) /\ journal[i].usr = query.unit =>
                \E k \in DOMAIN rows : rows[k] = i

\* The pages of list_logs make up an exclusive walk.
ImplementsWalk == Walk!Spec

=============================================================================
