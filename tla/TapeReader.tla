----------------------------- MODULE TapeReader -----------------------------
(***************************************************************************)
(* ReplayEngine._stream_events (src/src/runner/replay_engine.py): the tape *)
(* of a window, page by page, with keyset pagination on (ts, id).  Between *)
(* two pages the table changes: the event writer inserts rows, with any    *)
(* time stamp, and retention deletes the oldest ones.                      *)
(*                                                                         *)
(* Rows of markets outside market_filter are as good as not there.         *)
(***************************************************************************)
EXTENDS Integers, Sequences, SequencesExt, FiniteSets

CONSTANTS
    Times,          \* time stamps
    Start, End,     \* range_start and range_end
    Page,           \* rows per query
    Payloads,       \* what an event can be
    MaxRows         \* bound: rows ever inserted

ASSUME ReaderAssumption ==
    /\ Times \subseteq Int /\ Start \in Int /\ End \in Int
    /\ Page \in Nat \ {0}
    /\ MaxRows \in Nat

VARIABLES
    table,          \* the rows of market_events
    inserted,       \* the highest id given out
    cursor,         \* offset_ts and offset_id
    page,           \* the rows of the last query that are still to be yielded
    short,          \* whether the last query returned less than a page
    reader,         \* "query", "yield" or "done"
    yielded,        \* history: the rows yielded, in order
    stable          \* history: the rows of the window that were there at the
                    \* start of the replay and have not been deleted

readerVars == <<table, inserted, cursor, page, short, reader, yielded, stable>>

Row == [id : 1 .. MaxRows, ts : Times, payload : Payloads]

\* (ts, id) order, the ORDER BY of the query.
Before(r, s) == r.ts < s.ts \/ (r.ts = s.ts /\ r.id < s.id)

InWindow(r) == Start <= r.ts /\ r.ts < End

-----------------------------------------------------------------------------
\* A replay starts on any tape; ids are handed out in the order of insertion,
\* time stamps come from the venues and are in no order.
ReaderInit ==
    /\ \E n \in 0 .. MaxRows :
          /\ inserted = n
          /\ \E f \in [1 .. n -> Times \X Payloads] :
                table = {[id |-> i, ts |-> f[i][1], payload |-> f[i][2]] : i \in 1 .. n}
    /\ cursor = [ts |-> Start, id |-> -1]
    /\ page = {} /\ short = FALSE
    /\ reader = "query"
    /\ yielded = <<>>
    /\ stable = {r \in table : InWindow(r)}

\* EventWriter: a flushed event.
Insert(ts, payload) ==
    /\ inserted < MaxRows
    /\ inserted' = inserted + 1
    /\ table' = table \cup {[id |-> inserted', ts |-> ts, payload |-> payload]}
    /\ UNCHANGED <<cursor, page, short, reader, yielded, stable>>

\* Retention._sweep: everything before the cutoff.
Expire(cutoff) ==
    /\ table' = {r \in table : r.ts >= cutoff}
    /\ stable' = {r \in stable : r.ts >= cutoff}
    /\ UNCHANGED <<inserted, cursor, page, short, reader, yielded>>

-----------------------------------------------------------------------------
\* Mistakes: the row of the cursor comes again (before Audit P1-2); the other
\* rows of its time are passed over.
After_Repeats(r) == r.ts >= cursor.ts
After_Skips(r) == r.ts > cursor.ts
After(r) == Before(cursor, r)

Following == {r \in table : r.ts < End /\ After(r)}

\* LIMIT: the first rows of a set, a page of them or all there are.
FirstPages(rows) ==
    {some \in SUBSET rows :
        /\ \A r \in some, s \in rows \ some : Before(r, s)
        /\ Cardinality(some) <= Page
        /\ Cardinality(some) < Page => some = rows}

\* Mistake: an empty page is asked for again.
Query_Polls ==
    /\ reader = "query"
    /\ \E rows \in FirstPages(Following) :
          /\ page' = rows
          /\ short' = (Cardinality(rows) < Page)
          /\ reader' = IF rows = {} THEN "query" ELSE "yield"
    /\ UNCHANGED <<table, inserted, cursor, yielded, stable>>

Query ==
    /\ reader = "query"
    /\ \E rows \in FirstPages(Following) :
          /\ page' = rows
          /\ short' = (Cardinality(rows) < Page)
          /\ reader' = IF rows = {} THEN "done" ELSE "yield"
    /\ UNCHANGED <<table, inserted, cursor, yielded, stable>>

\* The next row of the page; after the last one the cursor moves to it.
Yield(r) ==
    /\ reader = "yield"
    /\ r \in page /\ \A s \in page \ {r} : Before(r, s)
    /\ yielded' = Append(yielded, r)
    /\ page' = page \ {r}
    /\ IF page' # {} THEN UNCHANGED <<cursor, reader>>
       ELSE /\ cursor' = [ts |-> r.ts, id |-> r.id]
            /\ reader' = IF short THEN "done" ELSE "query"
    /\ UNCHANGED <<table, inserted, short, stable>>

Tape ==
    \/ \E ts \in Times, payload \in Payloads : Insert(ts, payload)
    \/ \E cutoff \in Times : Expire(cutoff)

ReaderNext == Tape \/ Query \/ \E r \in page : Yield(r)

ReaderSpec == ReaderInit /\ [][ReaderNext]_readerVars

-----------------------------------------------------------------------------
(* Properties *)

ReaderTypeOK ==
    /\ inserted \in 0 .. MaxRows
    /\ table \subseteq [id : 1 .. inserted, ts : Times, payload : Payloads]
    /\ \A r, s \in table : r.id = s.id => r = s
    /\ cursor \in [ts : Int, id : Int]
    /\ page \subseteq Row /\ IsFiniteSet(page)
    /\ short \in BOOLEAN
    /\ reader \in {"query", "yield", "done"}
    /\ reader = "yield" <=> page # {}
    /\ yielded \in Seq(Row)
    /\ stable \subseteq table

\* The tape is replayed in (ts, id) order and no row comes twice, however many
\* rows share a time stamp, across page boundaries and while rows are inserted
\* and deleted (Audit P1-2).
InTapeOrder ==
    \A i, j \in 1 .. Len(yielded) : i < j => Before(yielded[i], yielded[j])

\* What was on the tape of the window when the replay started, and has not
\* been deleted meanwhile, has been replayed when it ends.
StableRowsAreSeen == reader = "done" => stable \subseteq ToSet(yielded)
=============================================================================
