------------------------- MODULE ReplayEngineProofs -------------------------
(***************************************************************************)
(* Proofs about TapeReader and ReplayEngine, for tapes, pages, windows,    *)
(* latencies and signals of any number: the tape is replayed once and in   *)
(* order, nothing that stays on it is passed over, and every order arrives *)
(* once, at the book it was meant for.                                     *)
(***************************************************************************)
EXTENDS ReplayEngine, TLAPS, FiniteSetTheorems, SequenceTheorems

-----------------------------------------------------------------------------
(* The inductive invariant.                                                *)

\* Every row that was yielded comes before the ones that are still to come:
\* those of the page, and, between two pages, those after the cursor.
Ordered ==
    /\ \A i, j \in 1 .. Len(yielded) : i < j => Before(yielded[i], yielded[j])
    /\ \A i \in 1 .. Len(yielded), r \in page : Before(yielded[i], r)
    /\ reader = "query" => \A i \in 1 .. Len(yielded) :
          \/ Before(yielded[i], cursor)
          \/ yielded[i].ts = cursor.ts /\ yielded[i].id = cursor.id

\* A stable row has been yielded, or it is on the page, or it comes after the
\* page and the page was full, so that another query follows.
Yielded(s) == \E i \in 1 .. Len(yielded) : yielded[i] = s
Covered ==
    \A s \in stable :
        /\ InWindow(s)
        /\ reader = "query" => Yielded(s) \/ Before(cursor, s)
        /\ reader = "yield" => \/ Yielded(s) \/ s \in page
                               \/ ~short /\ \A r \in page : Before(r, s)
        /\ reader = "done" => Yielded(s)

Types ==
    /\ inserted \in 0 .. MaxRows
    /\ table \subseteq [id : 1 .. inserted, ts : Times, payload : Payloads]
    /\ IsFiniteSet(table) /\ IsFiniteSet(page)
    /\ \A r, s \in table : r.id = s.id => r = s
    /\ cursor \in [ts : Int, id : Int]
    /\ page \subseteq Row
    /\ short \in BOOLEAN
    /\ reader \in {"query", "yield", "done"}
    /\ reader = "yield" <=> page # {}
    /\ yielded \in Seq(Row)
    /\ stable \subseteq table

ReaderInv == Types /\ Ordered /\ Covered

-----------------------------------------------------------------------------
LEMMA BeforeIsTransitive ==
    ASSUME NEW a, NEW b, NEW c,
           a.ts \in Int, a.id \in Int, b.ts \in Int, b.id \in Int, c.ts \in Int, c.id \in Int,
           Before(a, b), Before(b, c)
    PROVE  Before(a, c)
BY DEF Before

LEMMA RowFields ==
    ASSUME NEW r \in Row
    PROVE  r.ts \in Int /\ r.id \in Int
<1>1. r.ts \in Times /\ r.id \in 1 .. MaxRows
  BY DEF Row
<1>2. r.ts \in Int
  BY <1>1, ReaderAssumption
<1>3. r.id \in Int
  BY <1>1, ReaderAssumption
<1> QED BY <1>2, <1>3

LEMMA TableRows ==
    ASSUME Types
    PROVE  table \subseteq Row
BY ReaderAssumption DEF Types, Row

LEMMA InitHolds == ReaderInit => ReaderInv
<1> SUFFICES ASSUME ReaderInit PROVE ReaderInv
  OBVIOUS
<1>1. PICK n \in 0 .. MaxRows :
        /\ inserted = n
        /\ \E f \in [1 .. n -> Times \X Payloads] :
              table = {[id |-> i, ts |-> f[i][1], payload |-> f[i][2]] : i \in 1 .. n}
  BY DEF ReaderInit
<1>2. PICK f \in [1 .. n -> Times \X Payloads] :
              table = {[id |-> i, ts |-> f[i][1], payload |-> f[i][2]] : i \in 1 .. n}
  BY <1>1
<1>3. n \in Nat
  BY ReaderAssumption
<1>4. IsFiniteSet(table)
  <2> DEFINE row(i) == [id |-> i, ts |-> f[i][1], payload |-> f[i][2]]
             g == [i \in 1 .. n |-> row(i)]
  <2>1. IsFiniteSet(1 .. n)
    BY <1>3, FS_Interval
  <2>2. g \in Surjection(1 .. n, table)
    BY <1>2 DEF Surjection
  <2> QED BY <2>1, <2>2, FS_Surjection
<1>5. table \subseteq [id : 1 .. inserted, ts : Times, payload : Payloads]
  BY <1>1, <1>2
<1>6. Types
  <2>0. \A r, s \in table : r.id = s.id => r = s
    BY <1>2
  <2>1. inserted \in 0 .. MaxRows
    BY <1>1
  <2>2. cursor \in [ts : Int, id : Int]
    BY ReaderAssumption DEF ReaderInit
  <2>3. page = {} /\ short = FALSE /\ reader = "query" /\ yielded = <<>> /\ stable \subseteq table
    BY DEF ReaderInit
  <2>4. yielded \in Seq(Row)
    BY <2>3
  <2>5. IsFiniteSet(page)
    BY <2>3, FS_EmptySet
  <2> QED BY <2>0, <2>1, <2>2, <2>3, <2>4, <2>5, <1>4, <1>5 DEF Types
<1>7. Ordered
  BY DEF ReaderInit, Ordered
<1>8. Covered
  <2> SUFFICES ASSUME NEW s \in stable PROVE InWindow(s) /\ Before(cursor, s)
    BY DEF ReaderInit, Covered
  <2>1. s \in Row /\ s.id \in 1 .. MaxRows /\ InWindow(s)
    BY <1>6, TableRows DEF ReaderInit, Row
  <2>2. s.ts \in Int /\ s.id \in Int /\ -1 < s.id
    BY <2>1, RowFields, ReaderAssumption
  <2> QED BY <2>1, <2>2, ReaderAssumption DEF ReaderInit, InWindow, Before
<1> QED BY <1>6, <1>7, <1>8 DEF ReaderInv

-----------------------------------------------------------------------------
(* A step of the tape: rows come and go, the reader does not see it.       *)

LEMMA TapeKeepsInv ==
    ASSUME ReaderInv, Tape
    PROVE  ReaderInv'
<1>1. CASE \E ts \in Times, payload \in Payloads : Insert(ts, payload)
  <2>1. PICK ts \in Times, payload \in Payloads : Insert(ts, payload)
    BY <1>1
  <2> DEFINE new == [id |-> inserted', ts |-> ts, payload |-> payload]
  <2>2. /\ table' = table \cup {new} /\ inserted' = inserted + 1 /\ inserted < MaxRows
        /\ UNCHANGED <<cursor, page, short, reader, yielded, stable>>
    BY <2>1 DEF Insert
  <2>3. inserted' \in 0 .. MaxRows /\ inserted \in Nat
    BY <2>2, ReaderAssumption DEF ReaderInv, Types
  <2>4. table' \subseteq [id : 1 .. inserted', ts : Times, payload : Payloads]
    BY <2>2, <2>3 DEF ReaderInv, Types
  <2>5. IsFiniteSet(table')
    BY <2>2, FS_AddElement DEF ReaderInv, Types
  <2>8. \A r, s \in table' : r.id = s.id => r = s
    <3>1. \A r \in table : r.id \in 1 .. inserted /\ r.id # new.id
      BY <2>2, <2>3 DEF ReaderInv, Types
    <3> HIDE DEF new
    <3> QED
      BY <2>2, <3>1 DEF ReaderInv, Types
  <2>6. Types'
    BY <2>2, <2>3, <2>4, <2>5, <2>8 DEF ReaderInv, Types
  <2>7. Ordered' /\ Covered'
    BY <2>2 DEF ReaderInv, Ordered, Covered, Yielded, Before, InWindow
  <2> QED BY <2>6, <2>7 DEF ReaderInv
<1>2. CASE \E cutoff \in Times : Expire(cutoff)
  <2>1. PICK cutoff \in Times : Expire(cutoff)
    BY <1>2
  <2>2. /\ table' \subseteq table /\ stable' \subseteq stable /\ stable' \subseteq table'
        /\ UNCHANGED <<inserted, cursor, page, short, reader, yielded>>
    BY <2>1 DEF Expire, ReaderInv, Types
  <2>3. IsFiniteSet(table')
    BY <2>2, FS_Subset DEF ReaderInv, Types
  <2>4. Types'
    BY <2>2, <2>3 DEF ReaderInv, Types
  <2>5. Ordered'
    BY <2>2 DEF ReaderInv, Ordered, Before
  <2>6. Covered'
    BY <2>2 DEF ReaderInv, Covered, Yielded, Before, InWindow
  <2> QED BY <2>4, <2>5, <2>6 DEF ReaderInv
<1> QED BY <1>1, <1>2 DEF Tape

-----------------------------------------------------------------------------
(* A query: the first rows after the cursor, and a full page unless there  *)
(* are no others.                                                          *)

LEMMA QueryKeepsInv ==
    ASSUME ReaderInv, Query
    PROVE  ReaderInv'
<1>1. PICK some \in FirstPages(Following) :
         /\ page' = some
         /\ short' = (Cardinality(some) < Page)
         /\ reader' = IF some = {} THEN "done" ELSE "yield"
  BY DEF Query
<1>2. reader = "query" /\ UNCHANGED <<table, inserted, cursor, yielded, stable>>
  BY DEF Query
<1>3. /\ some \subseteq Following
      /\ \A r \in some, s \in Following \ some : Before(r, s)
      /\ Cardinality(some) < Page => some = Following
  BY <1>1 DEF FirstPages
<1>4. some \subseteq table /\ \A r \in some : Before(cursor, r)
  BY <1>3 DEF Following, After
<1>5. \A r \in some : r \in Row /\ r.ts \in Int /\ r.id \in Int
  BY <1>4, TableRows, RowFields DEF ReaderInv
<1>6. Types'
  <2>1. IsFiniteSet(some)
    BY <1>4, FS_Subset DEF ReaderInv, Types
  <2> QED BY <1>1, <1>2, <1>4, <1>5, <2>1 DEF ReaderInv, Types
<1>7. Ordered'
  <2>1. \A i \in 1 .. Len(yielded), r \in some : Before(yielded[i], r)
    <3> SUFFICES ASSUME NEW i \in 1 .. Len(yielded), NEW r \in some PROVE Before(yielded[i], r)
      OBVIOUS
    <3>1. yielded[i] \in Row
      BY DEF ReaderInv, Types
    <3>2. yielded[i].ts \in Int /\ yielded[i].id \in Int
      BY <3>1, RowFields
    <3>3. cursor.ts \in Int /\ cursor.id \in Int
      BY DEF ReaderInv, Types
    <3>4. CASE Before(yielded[i], cursor)
      BY <3>2, <3>3, <3>4, <1>4, <1>5, BeforeIsTransitive
    <3>5. CASE yielded[i].ts = cursor.ts /\ yielded[i].id = cursor.id
      BY <3>5, <1>4 DEF Before
    <3> QED BY <3>4, <3>5, <1>2 DEF ReaderInv, Ordered
  <2> QED BY <1>1, <1>2, <2>1 DEF ReaderInv, Ordered, Before
<1>8. Covered'
  <2> SUFFICES ASSUME NEW s \in stable
               PROVE  /\ InWindow(s)
                      /\ some # {} => \/ Yielded(s) \/ s \in some
                                      \/ ~(Cardinality(some) < Page) /\ \A r \in some : Before(r, s)
                      /\ some = {} => Yielded(s)
    BY <1>1, <1>2 DEF Covered, Yielded, Before, InWindow
  <2>1. InWindow(s) /\ (Yielded(s) \/ Before(cursor, s)) /\ s \in table
    BY <1>2 DEF ReaderInv, Covered, Types
  <2>2. ~Yielded(s) => s \in Following
    BY <2>1 DEF Following, After, InWindow
  <2>3. some = {} => Cardinality(some) < Page
    BY FS_EmptySet, ReaderAssumption
  <2>4. Cardinality(some) < Page => some = Following
    BY <1>3
  <2>5. some = {} => Yielded(s)
    BY <2>2, <2>3, <2>4
  <2>6. \/ Yielded(s) \/ s \in some
        \/ ~(Cardinality(some) < Page) /\ \A r \in some : Before(r, s)
    BY <2>2, <2>4, <1>3
  <2> QED BY <2>1, <2>5, <2>6
<1> QED BY <1>6, <1>7, <1>8 DEF ReaderInv

-----------------------------------------------------------------------------
(* A row of the page.                                                      *)

LEMMA YieldKeepsInv ==
    ASSUME ReaderInv, NEW r, Yield(r)
    PROVE  ReaderInv'
<1>1. /\ reader = "yield" /\ r \in page
      /\ \A s \in page \ {r} : Before(r, s)
      /\ yielded' = Append(yielded, r)
      /\ page' = page \ {r}
      /\ UNCHANGED <<table, inserted, short, stable>>
  BY DEF Yield
<1>2. r \in Row /\ r.ts \in Int /\ r.id \in Int
  BY <1>1, RowFields DEF ReaderInv, Types
<1>3. /\ Len(yielded') = Len(yielded) + 1 /\ Len(yielded) \in Nat
      /\ \A i \in 1 .. Len(yielded) : yielded'[i] = yielded[i]
      /\ yielded'[Len(yielded) + 1] = r
      /\ yielded' \in Seq(Row)
  BY <1>1, <1>2 DEF ReaderInv, Types
<1>0. IsFiniteSet(page')
  BY <1>1, FS_Subset DEF ReaderInv, Types
<1>4. CASE page' # {}
  <2>1. cursor' = cursor /\ reader' = reader
    BY <1>4 DEF Yield
  <2>2. Types'
    BY <1>0, <1>1, <1>3, <1>4, <2>1 DEF ReaderInv, Types
  <2>3. Ordered'
    BY <1>1, <1>3, <2>1 DEF ReaderInv, Ordered, Before
  <2>4. Covered'
    BY <1>1, <1>3, <2>1 DEF ReaderInv, Covered, Yielded, InWindow, Before
  <2> QED BY <2>2, <2>3, <2>4 DEF ReaderInv
<1>5. CASE page' = {}
  <2>1. /\ cursor' = [ts |-> r.ts, id |-> r.id]
        /\ reader' = IF short THEN "done" ELSE "query"
        /\ page = {r}
    BY <1>1, <1>5 DEF Yield
  <2>2. Types'
    BY <1>0, <1>1, <1>2, <1>3, <1>5, <2>1 DEF ReaderInv, Types
  <2>3. Ordered'
    BY <1>1, <1>3, <1>5, <2>1 DEF ReaderInv, Ordered, Before
  <2>4. Covered'
    BY <1>1, <1>3, <2>1 DEF ReaderInv, Covered, Yielded, InWindow, Before
  <2> QED BY <2>2, <2>3, <2>4 DEF ReaderInv
<1> QED BY <1>4, <1>5

LEMMA ReaderStep ==
    ASSUME ReaderInv, [ReaderNext]_readerVars
    PROVE  ReaderInv'
<1>1. CASE Tape
  BY <1>1, TapeKeepsInv
<1>2. CASE Query
  BY <1>2, QueryKeepsInv
<1>3. CASE \E r \in page : Yield(r)
  BY <1>3, YieldKeepsInv
<1>4. CASE UNCHANGED readerVars
  BY <1>4 DEF readerVars, ReaderInv, Types, Ordered, Covered, Yielded, InWindow, Before
<1> QED BY <1>1, <1>2, <1>3, <1>4 DEF ReaderNext

-----------------------------------------------------------------------------
(* The engine reads the tape as TapeReader says.                           *)

LEMMA EngineReads == [Next]_vars => [ReaderNext]_readerVars
<1> SUFFICES ASSUME [Next]_vars PROVE [ReaderNext]_readerVars
  OBVIOUS
<1>1. CASE Fetch
  BY <1>1 DEF Fetch, ReaderNext
<1>2. CASE \E r \in page : Event(r)
  BY <1>2 DEF Event, ReaderNext
<1>3. CASE Drain \/ Apply \/ LastDrain \/ Finish
  BY <1>3 DEF Drain, Apply, LastDrain, Finish
<1>4. CASE \E o \in unheard : Tick(o)
  BY <1>4 DEF Tick
<1>5. CASE \E k \in Tokens, side \in Sides, size \in Sizes : Signal(k, side, size)
  BY <1>5 DEF Signal
<1>6. CASE Tape
  BY <1>6 DEF ReaderNext
<1>7. CASE UNCHANGED vars
  BY <1>7 DEF vars
<1> QED BY <1>1, <1>2, <1>3, <1>4, <1>5, <1>6, <1>7 DEF Next, Replay

-----------------------------------------------------------------------------
(* The engine: what orders, heap and books are between any two steps.      *)

Heard == Len(yielded)

\* The events that have reached the books.
Seen == 1 .. (IF engine = "draining" THEN Heard - 1 ELSE Heard)

Signalled == [key : Tokens, side : Sides, size : Sizes, eta : Int, heard : Nat]

EngineTypes ==
    /\ latency \in Nat /\ (latency = 0 => heap = <<>>)
    /\ books \in [Tokens -> Nat]
    /\ sent \in 0 .. MaxSignals
    /\ order \in [Orders -> {NoOrder} \cup Signalled]
    /\ heap \in Seq(1 .. sent)
    /\ arrived \in Seq([order : 1 .. sent, book : Nat \ {0}])
    /\ engine \in Stages
    /\ engine \in {"draining", "ticking", "signalling"} => Heard > 0

\* What rests has arrived and has something left to fill; what has not arrived
\* has nothing filled.
AccountInv ==
    /\ net \in [Tokens -> Int]
    /\ filled \in [Orders -> Nat]
    /\ unheard \subseteq resting /\ resting \subseteq Submitted
    /\ \A o \in resting : filled[o] < order[o].size
    /\ \A o \in Orders \ Submitted : filled[o] = 0
    /\ trades \in Nat /\ rows \in Nat

\* A signal was heard with an event, and its eta follows from it; later
\* signals were heard with later events.
SignalInv ==
    /\ \A o \in 1 .. sent : /\ order[o] \in Signalled /\ order[o].heard \in 1 .. Heard
                            /\ order[o].eta = yielded[order[o].heard].ts + latency
    /\ \A o, p \in 1 .. sent : o <= p => order[o].heard <= order[p].heard

\* Orders arrive in the order of the signals, before those that still wait.
QueueInv ==
    /\ \A i, j \in DOMAIN heap : i < j => heap[i] < heap[j]
    /\ \A i, j \in DOMAIN arrived : i < j => arrived[i].order < arrived[j].order
    /\ \A i \in DOMAIN arrived, j \in DOMAIN heap : arrived[i].order < heap[j]

\* An order that waits has a book and is later than every event in the books;
\* one that neither waits nor has arrived had no book.
Waiting(j) == /\ books[order[heap[j]].key] > 0
              /\ \A m \in Seen : yielded[m].ts < order[heap[j]].eta
Dropped(o) == BookAfter(order[o].key, 1 .. order[o].heard) = 0
WaitInv == engine # "raised" =>
    /\ \A j \in DOMAIN heap : Waiting(j)
    /\ \A o \in 1 .. sent : o \in Submitted \/ o \in ToSet(heap) \/ Dropped(o)
    /\ engine = "completed" => heap = <<>>

BooksInv == engine # "raised" => \A k \in Tokens : books[k] = BookAfter(k, Seen)

\* What has arrived is not later than any event to come.
Past(o) == order[o].eta <= yielded[Heard].ts \/ reader = "done"
AsOfInv ==
    /\ AsOfEta
    /\ latency > 0 => \A i \in DOMAIN arrived : Past(arrived[i].order)

EngineInv ==
    EngineTypes /\ AccountInv /\ SignalInv /\ QueueInv /\ WaitInv /\ BooksInv /\ AsOfInv

-----------------------------------------------------------------------------
(* What events make of a book                                              *)

IsOf(i, k) == yielded[i].payload.key = k
SnapshotOf(i, k) == IsOf(i, k) /\ yielded[i].payload.kind = "snapshot"
BookOf(i, k) == IsOf(i, k) /\ yielded[i].payload.kind \in {"snapshot", "delta"}
Counted(k, seen) == {i \in seen : BookOf(i, k) /\ \E j \in seen : j <= i /\ SnapshotOf(j, k)}

LEMMA BookIsCount ==
    ASSUME NEW k, NEW seen
    PROVE  BookAfter(k, seen) = Cardinality(Counted(k, seen))
BY DEF BookAfter, Counted, BookOf, SnapshotOf, IsOf

LEMMA CountedIsFinite ==
    ASSUME NEW k, NEW m \in Nat
    PROVE  /\ IsFiniteSet(Counted(k, 1 .. m))
           /\ BookAfter(k, 1 .. m) \in Nat
           /\ BookAfter(k, 1 .. m) = 0 <=> Counted(k, 1 .. m) = {}
<1>1. IsFiniteSet(Counted(k, 1 .. m))
  <2>1. IsFiniteSet(1 .. m)
    BY FS_Interval
  <2>2. Counted(k, 1 .. m) \subseteq 1 .. m
    BY DEF Counted
  <2> QED BY <2>1, <2>2, FS_Subset
<1> QED BY <1>1, BookIsCount, FS_CardinalityType, FS_EmptySet

\* A book exists from its first snapshot on.
LEMMA BookExists ==
    ASSUME NEW k, NEW m \in Nat
    PROVE  BookAfter(k, 1 .. m) > 0 <=> \E j \in 1 .. m : SnapshotOf(j, k)
<1>1. (\E j \in 1 .. m : SnapshotOf(j, k)) <=> Counted(k, 1 .. m) # {}
  <2>1. ASSUME NEW j \in 1 .. m, SnapshotOf(j, k) PROVE j \in Counted(k, 1 .. m)
    BY <2>1 DEF Counted, BookOf, SnapshotOf
  <2>2. ASSUME NEW i \in Counted(k, 1 .. m) PROVE \E j \in 1 .. m : SnapshotOf(j, k)
    BY DEF Counted
  <2> QED BY <2>1, <2>2
<1>2. BookAfter(k, 1 .. m) \in Nat /\ (BookAfter(k, 1 .. m) = 0 <=> Counted(k, 1 .. m) = {})
  BY CountedIsFinite
<1> QED BY <1>1, <1>2

\* One event more: what _apply_event_to_book does.
LEMMA BookGrows ==
    ASSUME NEW k, NEW m \in Nat, NEW n, n = m + 1
    PROVE  LET adds == \/ SnapshotOf(n, k)
                       \/ BookOf(n, k) /\ BookAfter(k, 1 .. m) > 0
           IN  /\ adds => BookAfter(k, 1 .. n) = BookAfter(k, 1 .. m) + 1
               /\ ~adds => BookAfter(k, 1 .. n) = BookAfter(k, 1 .. m)
<1> DEFINE old == Counted(k, 1 .. m)
           new == Counted(k, 1 .. n)
           adds == \/ SnapshotOf(n, k)
                   \/ BookOf(n, k) /\ BookAfter(k, 1 .. m) > 0
<1>1. IsFiniteSet(old) /\ n \notin old
  <2>1. old \subseteq 1 .. m /\ n \notin 1 .. m
    BY DEF Counted
  <2> QED BY <2>1, CountedIsFinite
<1>2. 1 .. n = (1 .. m) \cup {n}
  OBVIOUS
<1>3. \A i \in 1 .. m : i \in new <=> i \in old
  <2> SUFFICES ASSUME NEW i \in 1 .. m
               PROVE  (\E j \in 1 .. n : j <= i /\ SnapshotOf(j, k))
                         <=> (\E j \in 1 .. m : j <= i /\ SnapshotOf(j, k))
    BY <1>2 DEF Counted
  <2>1. \A j \in 1 .. n : j <= i => j \in 1 .. m
    OBVIOUS
  <2> QED BY <2>1, <1>2
<1>4. n \in new <=> adds
  <2>1. \A j \in 1 .. m : j <= n
    OBVIOUS
  <2>2. (\E j \in 1 .. n : j <= n /\ SnapshotOf(j, k))
           <=> SnapshotOf(n, k) \/ BookAfter(k, 1 .. m) > 0
    BY <1>2, <2>1, BookExists
  <2>3. SnapshotOf(n, k) => BookOf(n, k)
    BY DEF SnapshotOf, BookOf
  <2>4. n \in new <=> /\ BookOf(n, k)
                          /\ \E j \in 1 .. n : j <= n /\ SnapshotOf(j, k)
    BY <1>2 DEF Counted
  <2> QED BY <2>2, <2>3, <2>4
<1>5. new \subseteq 1 .. n /\ old \subseteq 1 .. m
  BY DEF Counted
<1>6. CASE adds
  <2>1. new = old \cup {n}
    BY <1>2, <1>3, <1>4, <1>5, <1>6
  <2>2. Cardinality(new) = Cardinality(old) + 1
    BY <1>1, <2>1, FS_AddElement
  <2> QED BY <1>6, <2>2, BookIsCount
<1>7. CASE ~adds
  <2>1. new = old
    BY <1>2, <1>3, <1>4, <1>5, <1>7
  <2> QED BY <1>7, <2>1, BookIsCount
<1> QED BY <1>6, <1>7

LEMMA NoEventsNoBook == ASSUME NEW k PROVE BookAfter(k, {}) = 0
BY BookIsCount, FS_EmptySet DEF Counted

\* The tape that has been read does not change.
TapeKept == Heard' >= Heard /\ \A i \in 1 .. Heard : yielded'[i] = yielded[i]

LEMMA BookStays ==
    ASSUME TapeKept, NEW k, NEW seen \in SUBSET (1 .. Heard)
    PROVE  BookAfter(k, seen)' = BookAfter(k, seen)
<1>1. \A i \in seen : yielded'[i] = yielded[i]
  BY DEF TapeKept
<1> QED BY <1>1 DEF BookAfter

-----------------------------------------------------------------------------
(* Times and orders                                                        *)

LEMMA TimesAscend ==
    ASSUME ReaderInv
    PROVE  /\ Heard \in Nat /\ DOMAIN yielded = 1 .. Heard
           /\ \A i \in 1 .. Heard : yielded[i] \in Row /\ yielded[i].ts \in Int
           /\ \A i, j \in 1 .. Heard : i <= j => yielded[i].ts <= yielded[j].ts
<1>1. yielded \in Seq(Row)
  BY DEF ReaderInv, Types
<1>2. Heard \in Nat /\ DOMAIN yielded = 1 .. Heard /\ \A i \in 1 .. Heard : yielded[i] \in Row
  BY <1>1 DEF Heard
<1>3. \A i \in 1 .. Heard : yielded[i].ts \in Int /\ yielded[i].id \in Int
  BY <1>2, RowFields
<1>4. ASSUME NEW i \in 1 .. Heard, NEW j \in 1 .. Heard, i <= j
      PROVE  yielded[i].ts <= yielded[j].ts
  <2>1. CASE i = j
    BY <1>3, <2>1
  <2>2. CASE i < j
    BY <1>3, <2>2 DEF ReaderInv, Ordered, Before, Heard
  <2> QED BY <1>4, <2>1, <2>2
<1> QED BY <1>2, <1>3, <1>4

\* The event being handled.
LEMMA EventFacts ==
    ASSUME ReaderInv, Heard > 0
    PROVE  /\ Heard \in 1 .. Heard /\ event = yielded[Heard].payload /\ now = yielded[Heard].ts
           /\ event \in Payloads /\ event.key \in Tokens
           /\ event.kind \in {"snapshot", "delta", "print"}
           /\ now \in Int
<1>1. Heard \in 1 .. Heard /\ yielded[Heard] \in Row /\ yielded[Heard].ts \in Int
  BY TimesAscend
<1>2. event = yielded[Heard].payload /\ now = yielded[Heard].ts
  BY DEF event, now, Heard
<1>3. event \in Payloads
  BY <1>1, <1>2 DEF Row
<1> QED BY <1>1, <1>2, <1>3, EngineAssumption

LEMMA SentFacts ==
    ASSUME EngineTypes
    PROVE  sent \in Nat /\ MaxSignals \in Nat /\ sent <= MaxSignals /\ 1 .. sent \subseteq Orders
<1>1. MaxSignals \in Nat /\ sent \in 0 .. MaxSignals
  BY EngineAssumption DEF EngineTypes
<1> QED BY <1>1 DEF Orders

\* What was submitted was sent.
LEMMA ArrivedFacts ==
    ASSUME EngineTypes
    PROVE  /\ DOMAIN arrived = 1 .. Len(arrived) /\ Len(arrived) \in Nat
           /\ \A i \in DOMAIN arrived : /\ arrived[i].order \in 1 .. sent
                                        /\ arrived[i].book \in Nat \ {0}
           /\ Submitted \subseteq 1 .. sent
<1>1. arrived \in Seq([order : 1 .. sent, book : Nat \ {0}])
  BY DEF EngineTypes
<1>2. DOMAIN arrived = 1 .. Len(arrived) /\ Len(arrived) \in Nat
  BY <1>1
<1>3. \A i \in DOMAIN arrived : arrived[i] \in [order : 1 .. sent, book : Nat \ {0}]
  BY <1>1, <1>2, ElementOfSeq
<1> QED BY <1>2, <1>3 DEF Submitted

LEMMA HeapFacts ==
    ASSUME EngineTypes
    PROVE  /\ DOMAIN heap = 1 .. Len(heap) /\ Len(heap) \in Nat
           /\ \A i \in DOMAIN heap : heap[i] \in 1 .. sent
<1>1. heap \in Seq(1 .. sent)
  BY DEF EngineTypes
<1>2. DOMAIN heap = 1 .. Len(heap) /\ Len(heap) \in Nat
  BY <1>1
<1>3. \A i \in DOMAIN heap : heap[i] \in 1 .. sent
  BY <1>1, <1>2, ElementOfSeq
<1> QED BY <1>2, <1>3

LEMMA PoppedFacts ==
    ASSUME EngineTypes, heap # <<>>
    PROVE  /\ 1 \in DOMAIN heap /\ Head(heap) = heap[1] /\ Head(heap) \in 1 .. sent
           /\ Tail(heap) \in Seq(1 .. sent)
           /\ \A i \in DOMAIN Tail(heap) : i + 1 \in DOMAIN heap /\ Tail(heap)[i] = heap[i + 1]
           /\ \A i \in DOMAIN heap : i = 1 \/ (i - 1 \in DOMAIN Tail(heap)
                                               /\ Tail(heap)[i - 1] = heap[i])
<1>1. heap \in Seq(1 .. sent)
  BY DEF EngineTypes
<1>2. Tail(heap) \in Seq(1 .. sent) /\ Len(Tail(heap)) = Len(heap) - 1
      /\ Head(heap) = heap[1] /\ Len(heap) \in Nat \ {0}
  BY <1>1
<1>3. DOMAIN heap = 1 .. Len(heap) /\ DOMAIN Tail(heap) = 1 .. Len(heap) - 1
  BY <1>1, <1>2
<1>4. ASSUME NEW i \in DOMAIN Tail(heap) PROVE i + 1 \in DOMAIN heap /\ Tail(heap)[i] = heap[i + 1]
  BY <1>1, <1>2, <1>3
<1>5. ASSUME NEW i \in DOMAIN heap, i # 1
      PROVE  i - 1 \in DOMAIN Tail(heap) /\ Tail(heap)[i - 1] = heap[i]
  <2>1. i - 1 \in DOMAIN Tail(heap) /\ (i - 1) + 1 = i
    BY <1>2, <1>3, <1>5
  <2> QED BY <2>1, <1>4
<1>6. 1 \in DOMAIN heap /\ heap[1] \in 1 .. sent
  BY <1>2, <1>3, HeapFacts
<1> QED BY <1>2, <1>4, <1>5, <1>6

-----------------------------------------------------------------------------
(* Fills and submissions                                                   *)

\* What a fill of n of o does to the account.
Accounted(o, n) ==
    /\ net' \in [Tokens -> Int]
    /\ filled' \in [Orders -> Nat] /\ filled'[o] = filled[o] + n
    /\ \A p \in Orders \ {o} : filled'[p] = filled[p]
    /\ trades' \in Nat

LEMMA SizesArePositive ==
    ASSUME NEW o, order'[o] \in Signalled
    PROVE  order'[o].key \in Tokens /\ order'[o].size \in Nat \ {0}
BY EngineAssumption DEF Signalled

LEMMA FillIsAccounted ==
    ASSUME AccountInv, NEW o \in Orders, order'[o] \in Signalled, NEW n \in Nat, TrackFill(o, n)
    PROVE  Accounted(o, n)
<1>1. PICK k \in Tokens : k = order'[o].key
  BY SizesArePositive
<1>2. /\ net \in [Tokens -> Int] /\ net[k] \in Int /\ trades \in Nat
      /\ filled \in [Orders -> Nat] /\ filled[o] \in Nat
  BY DEF AccountInv
<1>3. /\ filled' = [filled EXCEPT ![o] = @ + n] /\ trades' \in {trades, trades + 1}
      /\ net' = [net EXCEPT ![k] = @ + n] \/ net' = [net EXCEPT ![k] = @ - n]
  BY <1>1 DEF TrackFill
<1>4. net' \in [Tokens -> Int]
  BY <1>2, <1>3
<1>5. filled' \in [Orders -> Nat] /\ filled'[o] = filled[o] + n /\ \A p \in Orders \ {o} : filled'[p] = filled[p]
  BY <1>2, <1>3
<1> QED BY <1>2, <1>3, <1>4, <1>5 DEF Accounted

LEMMA InsertIsCounted ==
    ASSUME AccountInv, NEW o, InsertTrade(o)
    PROVE  rows' \in Nat
BY DEF AccountInv, InsertTrade

\* A submission is remembered with the book it met.
Arriving(o) ==
    /\ arrived' = Append(arrived, [order |-> o, book |-> books[order'[o].key]])
    /\ Submitted' = Submitted \cup {o}
    /\ DOMAIN arrived' = DOMAIN arrived \cup {Len(arrived) + 1}
    /\ \A i \in DOMAIN arrived : arrived'[i] = arrived[i]
    /\ arrived'[Len(arrived) + 1].order = o
    /\ arrived'[Len(arrived) + 1].book = books[order'[o].key]
    /\ \A i \in DOMAIN arrived : i < Len(arrived) + 1

LEMMA SubmitFacts ==
    ASSUME EngineTypes, AccountInv, NEW o \in Orders, o \notin Submitted, order'[o] \in Signalled,
           \A p \in Submitted : order'[p] = order[p], unheard' = unheard, Submit(o)
    PROVE  Arriving(o) /\ AccountInv'
<1> DEFINE new == [order |-> o, book |-> books[order'[o].key]]
           last == Len(arrived) + 1
<1>1. arrived' = Append(arrived, new)
  BY DEF Submit
<1>2. /\ Len(arrived) \in Nat /\ DOMAIN arrived = 1 .. Len(arrived)
      /\ arrived \in Seq([order : 1 .. sent, book : Nat \ {0}])
  BY ArrivedFacts DEF EngineTypes
<1>3. new.order = o /\ new.book = books[order'[o].key]
  OBVIOUS
<1> HIDE DEF new
<1>4. /\ DOMAIN arrived' = 1 .. last /\ arrived'[last] = new
      /\ \A i \in 1 .. Len(arrived) : arrived'[i] = arrived[i]
  BY <1>1, <1>2
<1>5. 1 .. last = (1 .. Len(arrived)) \cup {last} /\ \A i \in 1 .. Len(arrived) : i < last
  BY <1>2
<1>6. Submitted' = Submitted \cup {o}
  <2>1. Submitted' = {arrived'[i].order : i \in DOMAIN arrived'}
    BY DEF Submitted
  <2>2. Submitted = {arrived[i].order : i \in 1 .. Len(arrived)}
    BY <1>2 DEF Submitted
  <2>3. ASSUME NEW i \in 1 .. Len(arrived) PROVE arrived'[i].order = arrived[i].order
    BY <1>4
  <2>4. arrived'[last].order = o
    BY <1>3, <1>4
  <2> HIDE DEF last
  <2>5. \A x : x \in Submitted' <=> x \in Submitted \/ x = o
    BY ONLY <1>4, <1>5, <2>1, <2>2, <2>3, <2>4
  <2> QED BY <2>5
<1>7. Arriving(o)
  BY <1>1, <1>2, <1>3, <1>4, <1>5, <1>6 DEF Arriving, new
<1>8. /\ o \notin resting /\ filled[o] = 0 /\ unheard \subseteq resting /\ resting \subseteq Submitted
      /\ net \in [Tokens -> Int] /\ filled \in [Orders -> Nat]
      /\ trades \in Nat /\ rows \in Nat
      /\ order'[o].size \in Nat \ {0}
  BY SizesArePositive DEF AccountInv
<1>9. \A p \in resting : filled[p] < order'[p].size
  BY <1>8 DEF AccountInv
<1>10. \A p \in Orders \ Submitted' : p # o /\ filled[p] = 0
  BY <1>6 DEF AccountInv
<1>11. CASE (\E n \in 1 .. Remaining(o) : TrackFill(o, n)) /\ InsertTrade(o) /\ UNCHANGED resting
  <2>1. PICK n \in Nat : TrackFill(o, n)
    <3>1. PICK n \in 1 .. Remaining(o) : TrackFill(o, n)
      BY <1>11
    <3>2. Remaining(o) \in Nat
      BY <1>8 DEF Remaining
    <3> HIDE DEF Remaining
    <3>3. n \in Nat
      BY <3>1, <3>2
    <3> QED BY <3>1, <3>3
  <2>2. Accounted(o, n) /\ rows' \in Nat
    BY <1>11, <2>1, FillIsAccounted, InsertIsCounted
  <2>3. resting \subseteq Orders
    BY <1>8, ArrivedFacts, SentFacts
  <2>4. ASSUME NEW p \in resting' PROVE filled'[p] < order'[p].size
    <3>1. p \in resting /\ p \in Orders \ {o}
      BY <1>8, <1>11, <2>3
    <3>2. filled'[p] = filled[p]
      BY <2>2, <3>1 DEF Accounted
    <3> QED BY <1>9, <3>1, <3>2
  <2>5. \A p \in Orders \ Submitted' : filled'[p] = 0
    BY <1>10, <2>2 DEF Accounted
  <2> QED BY <1>6, <1>7, <1>8, <1>11, <2>2, <2>4, <2>5 DEF Accounted, AccountInv
<1>12. CASE resting' = resting \cup {o} /\ UNCHANGED account
  <2>1. \A p \in resting' : filled'[p] < order'[p].size
    BY <1>8, <1>9, <1>12 DEF account
  <2> QED BY <1>6, <1>7, <1>8, <1>10, <1>12, <2>1 DEF account, AccountInv
<1>13. CASE UNCHANGED <<resting, account>>
  BY <1>6, <1>7, <1>8, <1>9, <1>10, <1>13 DEF account, AccountInv
<1> QED BY <1>11, <1>12, <1>13 DEF Submit

-----------------------------------------------------------------------------
(* The book an order should meet                                           *)

Earlier(o) == {m \in DOMAIN yielded : yielded[m].ts < order[o].eta}
Meant(o) == BookAfter(order[o].key, IF latency = 0 THEN 1 .. order[o].heard ELSE Earlier(o))

LEMMA AsOfEtaMeans == AsOfEta <=> \A i \in DOMAIN arrived : arrived[i].book = Meant(arrived[i].order)
BY DEF AsOfEta, Meant, Earlier

LEMMA AsOfEtaWillMean ==
    AsOfEta' <=> \A i \in DOMAIN arrived' :
                    \A o : o = arrived'[i].order => arrived'[i].book = Meant(o)'
BY DEF AsOfEta, Meant, Earlier

LEMMA MeantStays ==
    ASSUME NEW o, order'[o] = order[o], latency' = latency, yielded' = yielded
    PROVE  Meant(o)' = Meant(o) /\ (Dropped(o)' <=> Dropped(o))
BY DEF Meant, Earlier, BookAfter, Dropped

LEMMA TapeIsKept == ASSUME ReaderInv, yielded' = yielded PROVE TapeKept /\ Heard' = Heard
BY TimesAscend DEF TapeKept, Heard

-----------------------------------------------------------------------------
(* Steps that leave orders, heap and books alone                           *)

\* From one stage to another, with the same events in the books.
StageMoves ==
    /\ engine' \in Stages
    /\ engine' \in {"draining", "ticking", "signalling"} => Heard > 0
    /\ engine' # "raised" => engine # "raised" /\ (engine' = "draining" <=> engine = "draining")
    /\ engine' = "completed" => heap = <<>> \/ engine = "completed"
    /\ reader = "done" => reader' = "done"

OrdersInv == EngineTypes /\ SignalInv /\ QueueInv /\ WaitInv /\ BooksInv /\ AsOfInv

LEMMA OrdersKept ==
    ASSUME ReaderInv, OrdersInv, StageMoves, yielded' = yielded,
           UNCHANGED <<latency, books, heap, order, sent, arrived>>
    PROVE  OrdersInv'
<1>1. TapeKept /\ Heard' = Heard
  BY TapeIsKept
<1>2. EngineTypes'
  BY <1>1 DEF OrdersInv, EngineTypes, StageMoves
<1>3. SignalInv'
  BY <1>1 DEF OrdersInv, SignalInv
<1>4. QueueInv'
  BY DEF OrdersInv, QueueInv
<1>5. Submitted' = Submitted /\ ToSet(heap)' = ToSet(heap)
  BY DEF Submitted, ToSet
<1>6. engine' # "raised" => engine # "raised" /\ Seen' = Seen
  BY <1>1 DEF StageMoves, Seen
<1>7. WaitInv'
  <2> SUFFICES ASSUME engine' # "raised"
               PROVE  /\ \A j \in DOMAIN heap : Waiting(j)'
                      /\ \A o \in 1 .. sent :
                            o \in Submitted \/ o \in ToSet(heap) \/ Dropped(o)'
                      /\ engine' = "completed" => heap = <<>>
    BY <1>5 DEF WaitInv
  <2>1. \A j : Waiting(j)' <=> Waiting(j)
    BY <1>6 DEF Waiting
  <2>2. \A o : Dropped(o)' <=> Dropped(o)
    BY MeantStays
  <2> QED BY <1>6, <2>1, <2>2 DEF OrdersInv, WaitInv, StageMoves
<1>8. BooksInv'
  BY <1>6 DEF OrdersInv, BooksInv, BookAfter
<1>9. AsOfInv'
  <2>1. \A o : Meant(o)' = Meant(o)
    BY MeantStays
  <2>2. AsOfEta'
    <3> SUFFICES ASSUME NEW i \in DOMAIN arrived', NEW o, o = arrived'[i].order
                 PROVE  arrived'[i].book = Meant(o)'
      BY AsOfEtaWillMean
    <3>1. i \in DOMAIN arrived /\ arrived[i].book = Meant(o)
      BY AsOfEtaMeans DEF OrdersInv, AsOfInv
    <3> QED BY <2>1, <3>1
  <2>3. \A o : Past(o) => Past(o)'
    BY <1>1 DEF Past, StageMoves
  <2> QED BY <2>2, <2>3 DEF OrdersInv, AsOfInv
<1> QED BY <1>2, <1>3, <1>4, <1>7, <1>8, <1>9 DEF OrdersInv

LEMMA EngineSplits == EngineInv <=> OrdersInv /\ AccountInv
BY DEF EngineInv, OrdersInv

LEMMA EngineWillSplit == EngineInv' <=> OrdersInv' /\ AccountInv'
BY EngineSplits, PTL

LEMMA AccountKept ==
    ASSUME AccountInv, UNCHANGED <<resting, account, arrived>>, unheard' \in SUBSET resting,
           \A o \in Submitted : order'[o] = order[o]
    PROVE  AccountInv'
BY DEF AccountInv, account, Submitted

\* The tape changes, or nothing does; a query; the end; an exception.
LEMMA IdleKeeps ==
    ASSUME ReaderInv, EngineInv, StageMoves, yielded' = yielded,
           UNCHANGED <<latency, books, heap, order, sent, resting, unheard, account, arrived>>
    PROVE  EngineInv'
<1>1. unheard' \in SUBSET resting
  BY DEF EngineInv, AccountInv
<1> QED BY <1>1, OrdersKept, AccountKept, EngineSplits, EngineWillSplit

LEMMA NextIsKnown == ReaderInv /\ EngineInv => Heard \in Nat /\ engine \in Stages
BY TimesAscend DEF EngineInv, EngineTypes

LEMMA FetchKeeps == ASSUME ReaderInv, EngineInv, Fetch PROVE EngineInv'
<1>1. yielded' = yielded /\ reader = "query" /\ engine' = "reading" /\ Between
  BY DEF Fetch, Query
<1>2. StageMoves
  BY <1>1 DEF StageMoves, Between, Stages
<1> QED BY <1>1, <1>2, IdleKeeps DEF Fetch

LEMMA FinishKeeps == ASSUME ReaderInv, EngineInv, Finish PROVE EngineInv'
<1>1. yielded' = yielded /\ reader' = reader /\ engine' = "completed" /\ Between /\ heap = <<>>
  BY DEF Finish, readerVars
<1>2. StageMoves
  BY <1>1 DEF StageMoves, Between, Stages
<1> QED BY <1>1, <1>2, IdleKeeps DEF Finish

LEMMA RestingKeeps ==
    ASSUME ReaderInv, EngineInv, UNCHANGED <<yielded, reader, engineVars>>
    PROVE  EngineInv'
<1>1. UNCHANGED <<latency, books, heap, order, sent, resting, unheard, account, engine, arrived>>
  BY DEF engineVars
<1>2. StageMoves
  BY <1>1 DEF StageMoves, EngineInv, EngineTypes
<1> QED BY <1>1, <1>2, IdleKeeps

LEMMA TickKeeps == ASSUME ReaderInv, EngineInv, NEW o \in unheard, Tick(o) PROVE EngineInv'
<1>1. /\ yielded' = yielded /\ reader' = reader /\ engine' = engine /\ engine = "ticking"
      /\ UNCHANGED <<latency, books, heap, order, sent, arrived, rows>>
      /\ unheard' = unheard \ {o} /\ Submitted' = Submitted
  BY DEF Tick, readerVars, Submitted
<1>2. Heard > 0 /\ Heard \in Nat
  BY <1>1, NextIsKnown DEF EngineInv, EngineTypes
<1>3. StageMoves
  BY <1>1, <1>2 DEF StageMoves, Stages
<1>4. AccountInv'
  <2>1. /\ o \in resting /\ unheard \subseteq resting /\ resting \subseteq Submitted
        /\ net \in [Tokens -> Int] /\ filled \in [Orders -> Nat]
        /\ \A p \in resting : filled[p] < order[p].size
        /\ \A p \in Orders \ Submitted : filled[p] = 0
        /\ trades \in Nat /\ rows \in Nat
    BY DEF EngineInv, AccountInv
  <2>2. Submitted \subseteq 1 .. sent /\ 1 .. sent \subseteq Orders
    BY ArrivedFacts, SentFacts DEF EngineInv
  <2>3. order'[o] \in Signalled
    BY <1>1, <2>1, <2>2 DEF EngineInv, SignalInv
  <2>4. CASE \E n \in 1 .. Remaining(o) :
               TrackFill(o, n) /\ resting' = IF n = Remaining(o) THEN resting \ {o} ELSE resting
    <3>1. order'[o].size \in Nat /\ filled[o] \in Nat /\ Remaining(o) = order'[o].size - filled[o]
      BY <2>1, <2>2, <2>3, SizesArePositive DEF Remaining
    <3>2. PICK n \in 1 .. Remaining(o) :
               TrackFill(o, n) /\ resting' = IF n = Remaining(o) THEN resting \ {o} ELSE resting
      BY <2>4
    <3>3. n \in Nat /\ n <= order'[o].size - filled[o]
      BY <3>1, <3>2
    <3>4. Accounted(o, n)
      BY <2>1, <2>2, <2>3, <3>2, <3>3, FillIsAccounted DEF EngineInv
    <3>5. \A p \in resting' : filled'[p] < order'[p].size
      <4> SUFFICES ASSUME NEW p \in resting' PROVE filled'[p] < order'[p].size
        OBVIOUS
      <4>1. p \in resting
        BY <3>2
      <4>2. CASE p = o
        <5>1. n # Remaining(o)
          BY <3>2, <4>2
        <5>2. filled'[o] = filled[o] + n /\ filled[o] + n < order'[o].size
          BY <3>1, <3>3, <3>4, <5>1 DEF Accounted
        <5> QED BY <4>2, <5>2
      <4>3. CASE p # o
        BY <1>1, <2>1, <2>2, <3>4, <4>1, <4>3 DEF Accounted
      <4> QED BY <4>2, <4>3
    <3>6. unheard' \subseteq resting' /\ resting' \subseteq Submitted
      BY <1>1, <2>1, <3>2
    <3>7. \A p \in Orders \ Submitted : filled'[p] = 0
      BY <2>1, <3>4 DEF Accounted
    <3> QED BY <1>1, <2>1, <3>4, <3>5, <3>6, <3>7 DEF Accounted, AccountInv
  <2>5. CASE resting' = resting \ {o} /\ UNCHANGED <<filled, net, trades>>
    BY <1>1, <2>1, <2>5 DEF AccountInv
  <2> QED BY <2>4, <2>5 DEF Tick
<1>5. OrdersInv'
  BY <1>1, <1>3, OrdersKept, EngineSplits
<1> QED BY <1>4, <1>5, EngineWillSplit

-----------------------------------------------------------------------------
(* The next event                                                          *)

LEMMA EtasAscend ==
    ASSUME ReaderInv, EngineTypes, SignalInv
    PROVE  /\ \A o \in 1 .. sent : /\ order[o].eta \in Int /\ order[o].key \in Tokens
                                   /\ order[o].heard \in 1 .. Heard
           /\ \A o, p \in 1 .. sent : o <= p => order[o].eta <= order[p].eta
<1>1. \A o \in 1 .. sent : /\ order[o].eta \in Int /\ order[o].key \in Tokens
                           /\ order[o].heard \in 1 .. Heard
                           /\ order[o].eta = yielded[order[o].heard].ts + latency
  BY DEF SignalInv, Signalled
<1>2. ASSUME NEW o \in 1 .. sent, NEW p \in 1 .. sent, o <= p
      PROVE  order[o].eta <= order[p].eta
  <2> DEFINE i == order[o].heard
             j == order[p].heard
  <2>1. i \in 1 .. Heard /\ j \in 1 .. Heard /\ i <= j
    BY <1>1, <1>2 DEF SignalInv
  <2>2. yielded[i].ts <= yielded[j].ts /\ yielded[i].ts \in Int /\ yielded[j].ts \in Int
    BY <2>1, TimesAscend
  <2>3. latency \in Int
    BY DEF EngineTypes
  <2>4. order[o].eta = yielded[i].ts + latency /\ order[p].eta = yielded[j].ts + latency
    BY <1>1
  <2> QED BY ONLY <2>2, <2>3, <2>4
<1> QED BY <1>1, <1>2

\* What was meant for an order that has arrived is not changed by later events.
LEMMA MeantIsFinal ==
    ASSUME ReaderInv, EngineInv, TapeKept, NEW o \in 1 .. sent,
           order'[o] = order[o], latency' = latency,
           DOMAIN yielded' = 1 .. Heard + 1,
           latency > 0 => order[o].eta <= yielded'[Heard + 1].ts,
           yielded'[Heard + 1].ts \in Int
    PROVE  Meant(o)' = Meant(o)
<1>1. Heard \in Nat /\ DOMAIN yielded = 1 .. Heard
  BY TimesAscend
<1>2. order[o].heard \in 1 .. Heard /\ order[o].eta \in Int /\ latency \in Nat
  BY EtasAscend DEF EngineInv, EngineTypes
<1>3. PICK k, S : k = order[o].key /\ S = IF latency = 0 THEN 1 .. order[o].heard ELSE Earlier(o)
  OBVIOUS
<1>4. S \in SUBSET (1 .. Heard)
  BY <1>1, <1>2, <1>3 DEF Earlier
<1>5. CASE latency = 0
  <2>1. Meant(o)' = BookAfter(k, S)'
    BY <1>3, <1>5 DEF Meant, BookAfter
  <2> QED BY <1>3, <1>4, <2>1, BookStays DEF Meant
<1>6. CASE latency # 0
  <2>1. latency > 0
    BY <1>2, <1>6
  <2>2. 1 .. Heard + 1 = (1 .. Heard) \cup {Heard + 1} /\ Heard + 1 \notin 1 .. Heard
    BY <1>1
  <2>3. ~(yielded'[Heard + 1].ts < order[o].eta)
    BY <1>2, <2>1
  <2>4. Earlier(o)' = Earlier(o)
    BY <1>1, <2>2, <2>3 DEF Earlier, TapeKept
  <2>5. Meant(o)' = BookAfter(k, S)'
    BY <1>3, <1>6, <2>4 DEF Meant, BookAfter
  <2> QED BY <1>3, <1>4, <2>5, BookStays DEF Meant
<1> QED BY <1>5, <1>6

LEMMA EventKeeps == ASSUME ReaderInv, EngineInv, NEW r \in page, Event(r) PROVE EngineInv'
<1>1. /\ reader = "yield" /\ yielded' = Append(yielded, r) /\ Between /\ engine' = "draining"
      /\ UNCHANGED <<latency, books, heap, order, sent, resting, account, arrived>> /\ unheard' \in SUBSET resting
  BY DEF Event, Yield
<1>2. r \in Row /\ r.ts \in Int
  BY RowFields DEF ReaderInv, Types
<1>3. /\ Heard \in Nat /\ DOMAIN yielded = 1 .. Heard /\ yielded \in Seq(Row)
      /\ \A i \in 1 .. Heard : yielded[i].ts \in Int
  BY TimesAscend DEF ReaderInv, Types
<1>4. /\ Heard' = Heard + 1 /\ DOMAIN yielded' = 1 .. Heard + 1 /\ yielded'[Heard + 1] = r
      /\ \A i \in 1 .. Heard : yielded'[i] = yielded[i]
  BY <1>1, <1>2, <1>3 DEF Heard
<1>5. TapeKept
  BY <1>3, <1>4 DEF TapeKept
<1>6. \A i \in 1 .. Heard : yielded[i].ts <= r.ts
  BY <1>2, <1>3 DEF ReaderInv, Ordered, Before, Heard
<1>7. Seen = 1 .. Heard /\ Seen' = 1 .. Heard /\ engine # "raised" /\ engine # "completed"
  BY <1>1, <1>3, <1>4 DEF Seen, Between
<1>8. \A o \in 1 .. sent : order[o].heard \in 1 .. Heard /\ order[o].eta \in Int
  BY EtasAscend DEF EngineInv
<1>9. EngineTypes'
  BY <1>1, <1>3, <1>4 DEF EngineInv, EngineTypes, Stages
<1>10. SignalInv'
  BY <1>1, <1>3, <1>4 DEF EngineInv, SignalInv
<1>11. QueueInv' /\ AccountInv'
  BY <1>1, AccountKept DEF EngineInv, QueueInv
<1>12. Submitted' = Submitted /\ ToSet(heap)' = ToSet(heap)
  BY <1>1 DEF Submitted, ToSet
<1>13. WaitInv'
  <2> SUFFICES /\ \A j \in DOMAIN heap : Waiting(j)'
               /\ \A o \in 1 .. sent : o \in Submitted \/ o \in ToSet(heap) \/ Dropped(o)'
    BY <1>1, <1>12 DEF WaitInv
  <2>1. ASSUME NEW j \in DOMAIN heap PROVE Waiting(j)'
    <3>1. Waiting(j)
      BY <1>7 DEF EngineInv, WaitInv
    <3> QED BY <1>1, <1>4, <1>7, <3>1 DEF Waiting
  <2>2. ASSUME NEW o \in 1 .. sent, Dropped(o) PROVE Dropped(o)'
    <3>1. PICK k, h : k = order[o].key /\ h = order[o].heard
      OBVIOUS
    <3>2. 1 .. h \in SUBSET (1 .. Heard)
      BY <1>3, <1>8, <3>1
    <3>3. BookAfter(k, 1 .. h)' = BookAfter(k, 1 .. h)
      BY <1>5, <3>2, BookStays
    <3>4. Dropped(o)' <=> BookAfter(k, 1 .. h)' = 0
      BY <1>1, <3>1 DEF Dropped, BookAfter
    <3> QED BY <2>2, <3>1, <3>3, <3>4 DEF Dropped
  <2>3. \A o \in 1 .. sent : o \in Submitted \/ o \in ToSet(heap) \/ Dropped(o)
    BY <1>7 DEF EngineInv, WaitInv
  <2> QED BY <2>1, <2>2, <2>3
<1>14. BooksInv'
  <2> SUFFICES ASSUME NEW k \in Tokens PROVE books[k] = BookAfter(k, Seen)'
    BY <1>1 DEF BooksInv
  <2>2. PICK S : S = 1 .. Heard
    OBVIOUS
  <2>3. BookAfter(k, S)' = BookAfter(k, S)
    BY <1>5, <2>2, BookStays
  <2>4. BookAfter(k, Seen)' = BookAfter(k, S)'
    BY <1>7, <2>2 DEF BookAfter
  <2> QED BY <1>7, <2>2, <2>3, <2>4 DEF EngineInv, BooksInv
<1>15. AsOfInv'
  <2>1. ASSUME NEW i \in DOMAIN arrived, latency > 0
        PROVE  /\ order[arrived[i].order].eta <= r.ts
               /\ Past(arrived[i].order)'
    <3> DEFINE o == arrived[i].order
    <3>1. Past(o) /\ o \in 1 .. sent
      BY <2>1, ArrivedFacts DEF EngineInv, AsOfInv
    <3>2. Heard \in 1 .. Heard /\ order[o].eta \in Int
      BY <1>3, <1>8, <3>1
    <3>3. order[o].eta <= yielded[Heard].ts
      BY <1>1, <3>1 DEF Past
    <3>4. order[o].eta <= r.ts
      BY <1>2, <1>3, <1>6, <3>2, <3>3
    <3> QED BY <1>1, <1>4, <3>4 DEF Past
  <2>2. AsOfEta'
    <3> SUFFICES ASSUME NEW i \in DOMAIN arrived', NEW o, o = arrived'[i].order
                 PROVE  arrived'[i].book = Meant(o)'
      BY AsOfEtaWillMean
    <3>1. i \in DOMAIN arrived /\ arrived[i].book = Meant(o) /\ o = arrived[i].order
      BY <1>1, AsOfEtaMeans DEF EngineInv, AsOfInv
    <3>2. o \in 1 .. sent
      BY <3>1, ArrivedFacts DEF EngineInv
    <3>3. latency > 0 => order[o].eta <= yielded'[Heard + 1].ts
      BY <1>4, <2>1, <3>1
    <3>4. yielded'[Heard + 1].ts \in Int /\ order'[o] = order[o] /\ latency' = latency
      BY <1>1, <1>2, <1>4
    <3>5. Meant(o)' = Meant(o)
      BY <1>4, <1>5, <3>2, <3>3, <3>4, MeantIsFinal
    <3> QED BY <1>1, <3>1, <3>5
  <2> QED BY <1>1, <2>1, <2>2 DEF AsOfInv
<1> QED BY <1>9, <1>10, <1>11, <1>13, <1>14, <1>15 DEF EngineInv

-----------------------------------------------------------------------------
(* The event reaches its book                                              *)

LEMMA SeenWhileDraining ==
    ASSUME ReaderInv, EngineTypes, engine = "draining"
    PROVE  /\ Heard \in Nat /\ Heard > 0 /\ Heard - 1 \in Nat
           /\ Seen = 1 .. Heard - 1 /\ 1 .. Heard = Seen \cup {Heard}
<1>1. Heard \in Nat /\ Heard > 0
  BY TimesAscend DEF EngineTypes
<1>2. Seen = 1 .. Heard - 1
  BY DEF Seen
<1> QED BY <1>1, <1>2

\* No order waits for the event, nor for an earlier one.
LEMMA NoneIsDue ==
    ASSUME ReaderInv, EngineInv, engine = "draining", ~AnyDue, NEW j \in DOMAIN heap
    PROVE  \A m \in 1 .. Heard : yielded[m].ts < order[heap[j]].eta
<1>1. Heard \in Nat /\ Heard > 0 /\ now = yielded[Heard].ts
  BY SeenWhileDraining, EventFacts DEF EngineInv
<1>2. heap # <<>> /\ 1 \in DOMAIN heap /\ Head(heap) = heap[1]
  BY HeapFacts, PoppedFacts DEF EngineInv
<1>3. heap[1] \in 1 .. sent /\ heap[j] \in 1 .. sent /\ heap[1] <= heap[j]
  BY <1>2, HeapFacts DEF EngineInv, QueueInv
<1>4. /\ order[heap[1]].eta <= order[heap[j]].eta
      /\ order[heap[1]].eta \in Int /\ order[heap[j]].eta \in Int
  BY <1>3, EtasAscend DEF EngineInv
<1>5. ~(order[heap[1]].eta <= now)
  BY <1>2 DEF AnyDue, IsDue
<1>6. \A m \in 1 .. Heard : yielded[m].ts \in Int /\ yielded[m].ts <= yielded[Heard].ts
  BY <1>1, TimesAscend
<1>7. yielded[Heard].ts \in Int
  BY <1>1, <1>6
<1> QED BY ONLY <1>1, <1>4, <1>5, <1>6, <1>7

LEMMA AppliedFacts ==
    ASSUME ReaderInv, EngineInv, engine = "draining"
    PROVE  /\ Applied \in [Tokens -> Nat]
           /\ \A k \in Tokens : /\ Applied[k] >= books[k]
                                /\ Applied[k] = BookAfter(k, 1 .. Heard)
<1>1. /\ Heard \in Nat /\ Heard > 0 /\ Heard - 1 \in Nat
      /\ Seen = 1 .. Heard - 1
  BY SeenWhileDraining DEF EngineInv
<1>2. /\ event = yielded[Heard].payload /\ event.key \in Tokens
      /\ event.kind \in {"snapshot", "delta", "print"}
  BY <1>1, EventFacts
<1>3. books \in [Tokens -> Nat]
  BY DEF EngineInv, EngineTypes
<1>4. ASSUME NEW k \in Tokens
      PROVE  Applied[k] = IF k = event.key /\ (\/ event.kind = "snapshot"
                                               \/ event.kind = "delta" /\ books[k] > 0)
                          THEN books[k] + 1 ELSE books[k]
  BY <1>2, <1>3, <1>4 DEF Applied
<1>5. Applied \in [Tokens -> Nat]
  BY <1>2, <1>3 DEF Applied
<1>6. ASSUME NEW k \in Tokens PROVE Applied[k] >= books[k] /\ Applied[k] = BookAfter(k, 1 .. Heard)
  <2>1. PICK m \in Nat : m = Heard - 1 /\ m + 1 = Heard
    BY <1>1
  <2>2. books[k] = BookAfter(k, 1 .. m) /\ books[k] \in Nat
    BY <1>1, <1>3, <2>1 DEF EngineInv, BooksInv
  <2> DEFINE adds == \/ SnapshotOf(Heard, k)
                     \/ BookOf(Heard, k) /\ BookAfter(k, 1 .. m) > 0
  <2>3. /\ adds => BookAfter(k, 1 .. Heard) = books[k] + 1
        /\ ~adds => BookAfter(k, 1 .. Heard) = books[k]
    BY <2>1, <2>2, BookGrows
  <2>4. adds <=> k = event.key /\ (\/ event.kind = "snapshot"
                                   \/ event.kind = "delta" /\ books[k] > 0)
    BY <1>2, <2>2 DEF SnapshotOf, BookOf, IsOf
  <2> HIDE DEF adds
  <2>5. /\ adds => Applied[k] = books[k] + 1
        /\ ~adds => Applied[k] = books[k]
    BY <1>4, <2>4
  <2> QED BY <2>2, <2>3, <2>5
<1> QED BY <1>5, <1>6

LEMMA ApplyKeeps == ASSUME ReaderInv, EngineInv, Apply PROVE EngineInv'
<1>1. /\ engine = "draining" /\ engine' = "ticking" /\ ~AnyDue /\ books' = Applied
      /\ yielded' = yielded /\ reader' = reader
      /\ UNCHANGED <<latency, heap, order, sent, resting, account, arrived>> /\ unheard' \in SUBSET resting
  BY DEF Apply, readerVars
<1>2. TapeKept /\ Heard' = Heard
  BY <1>1, TapeIsKept
<1>3. Heard \in Nat /\ Heard > 0 /\ 1 .. Heard = Seen \cup {Heard} /\ Seen' = 1 .. Heard
  BY <1>1, <1>2, SeenWhileDraining DEF EngineInv, Seen
<1>4. EngineTypes'
  BY <1>1, <1>2, <1>3, AppliedFacts DEF EngineInv, EngineTypes, Stages
<1>5. SignalInv'
  BY <1>1, <1>2 DEF EngineInv, SignalInv
<1>6. QueueInv' /\ AccountInv'
  BY <1>1, AccountKept DEF EngineInv, QueueInv
<1>7. Submitted' = Submitted /\ ToSet(heap)' = ToSet(heap)
  BY <1>1 DEF Submitted, ToSet
<1>8. \A o : (Dropped(o)' <=> Dropped(o)) /\ Meant(o)' = Meant(o)
  BY <1>1, MeantStays
<1>9. WaitInv'
  <2> SUFFICES /\ \A j \in DOMAIN heap : Waiting(j)'
               /\ \A o \in 1 .. sent : o \in Submitted \/ o \in ToSet(heap) \/ Dropped(o)
    BY <1>1, <1>7, <1>8 DEF WaitInv
  <2>1. ASSUME NEW j \in DOMAIN heap PROVE Waiting(j)'
    <3>1. Waiting(j)
      BY <1>1, <2>1 DEF EngineInv, WaitInv
    <3>2. order[heap[j]].key \in Tokens
      BY HeapFacts, EtasAscend DEF EngineInv
    <3>3. PICK k \in Tokens : k = order[heap[j]].key
      BY <3>2
    <3>4. books[k] > 0 /\ books[k] \in Nat /\ Applied[k] \in Nat /\ Applied[k] >= books[k]
      BY <1>1, <3>1, <3>3, AppliedFacts DEF Waiting, EngineInv, EngineTypes
    <3>5. \A m \in 1 .. Heard : yielded[m].ts < order[heap[j]].eta
      BY <1>1, <2>1, NoneIsDue
    <3>6. Applied[k] > 0
      BY ONLY <3>4
    <3> QED BY <1>1, <1>3, <3>3, <3>5, <3>6 DEF Waiting
  <2>2. \A o \in 1 .. sent : o \in Submitted \/ o \in ToSet(heap) \/ Dropped(o)
    BY <1>1 DEF EngineInv, WaitInv
  <2> QED BY <2>1, <2>2
<1>10. BooksInv'
  <2> SUFFICES ASSUME NEW k \in Tokens PROVE books'[k] = BookAfter(k, Seen)'
    BY DEF BooksInv
  <2>1. PICK S : S = 1 .. Heard
    OBVIOUS
  <2>2. BookAfter(k, S)' = BookAfter(k, S)
    BY <1>1 DEF BookAfter
  <2>3. BookAfter(k, Seen)' = BookAfter(k, S)'
    BY <1>3, <2>1 DEF BookAfter
  <2> QED BY <1>1, <2>1, <2>2, <2>3, AppliedFacts
<1>11. AsOfInv'
  <2>1. AsOfEta'
    <3> SUFFICES ASSUME NEW i \in DOMAIN arrived', NEW o, o = arrived'[i].order
                 PROVE  arrived'[i].book = Meant(o)'
      BY AsOfEtaWillMean
    <3>1. i \in DOMAIN arrived /\ arrived[i].book = Meant(o)
      BY <1>1, AsOfEtaMeans DEF EngineInv, AsOfInv
    <3> QED BY <1>1, <1>8, <3>1
  <2>2. \A o : Past(o) => Past(o)'
    BY <1>1, <1>2 DEF Past
  <2> QED BY <1>1, <2>1, <2>2 DEF EngineInv, AsOfInv
<1> QED BY <1>4, <1>5, <1>6, <1>9, <1>10, <1>11 DEF EngineInv

-----------------------------------------------------------------------------
(* The first order in latency arrives                                      *)

LEMMA FirstFacts ==
    ASSUME ReaderInv, EngineInv, engine # "raised", heap # <<>>, NEW o, o = Head(heap)
    PROVE  /\ o \in 1 .. sent /\ o = heap[1] /\ 1 \in DOMAIN heap /\ o \notin Submitted
           /\ order[o].key \in Tokens /\ order[o].eta \in Int
           /\ books[order[o].key] \in Nat \ {0}
           /\ \A m \in Seen : yielded[m].ts < order[o].eta
           /\ latency > 0
<1>1. o \in 1 .. sent /\ o = heap[1] /\ 1 \in DOMAIN heap
  BY PoppedFacts DEF EngineInv
<1>2. o \notin Submitted
  <2> SUFFICES ASSUME NEW i \in DOMAIN arrived, arrived[i].order = o PROVE FALSE
    BY DEF Submitted
  <2>1. arrived[i].order < heap[1]
    BY <1>1 DEF EngineInv, QueueInv
  <2> QED BY <1>1, <2>1
<1>3. order[o].key \in Tokens /\ order[o].eta \in Int
  BY <1>1, EtasAscend DEF EngineInv
<1>4. Waiting(1)
  BY <1>1 DEF EngineInv, WaitInv
<1>5. books[order[o].key] > 0 /\ \A m \in Seen : yielded[m].ts < order[o].eta
  BY <1>1, <1>4 DEF Waiting
<1>6. books[order[o].key] \in Nat
  BY <1>3 DEF EngineInv, EngineTypes
<1>7. latency > 0
  BY DEF EngineInv, EngineTypes
<1> QED BY <1>1, <1>2, <1>3, <1>5, <1>6, <1>7

\* It meets the book that was meant for it, and is not later than what comes.
LEMMA ArrivalKeeps ==
    ASSUME ReaderInv, EngineInv, StageMoves, engine' # "raised", engine' # "completed",
           UNCHANGED <<readerVars, latency, books, order, sent, unheard>>,
           heap # <<>>, heap' = Tail(heap),
           NEW o, o = Head(heap), Submit(o), Earlier(o) = Seen, Past(o)
    PROVE  EngineInv'
<1>1. /\ engine # "raised" /\ yielded' = yielded /\ reader' = reader
      /\ UNCHANGED <<latency, books, order, sent>>
      /\ engine' = "draining" <=> engine = "draining"
  BY DEF StageMoves, readerVars
<1>2. TapeKept /\ Heard' = Heard /\ Seen' = Seen
  BY <1>1, TapeIsKept DEF Seen
<1>3. /\ o \in 1 .. sent /\ o = heap[1] /\ 1 \in DOMAIN heap /\ o \notin Submitted
      /\ order[o].key \in Tokens /\ books[order[o].key] \in Nat \ {0} /\ latency > 0
  BY <1>1, FirstFacts
<1>4. Arriving(o) /\ AccountInv'
  <2>1. o \in Orders /\ order'[o] \in Signalled
    BY <1>1, <1>3, SentFacts DEF EngineInv, SignalInv
  <2> QED BY <1>1, <1>3, <2>1, SubmitFacts DEF EngineInv
<1> DEFINE last == Len(arrived) + 1
           entry == [order |-> o, book |-> books[order[o].key]]
<1>5. /\ arrived' = Append(arrived, entry)
      /\ Submitted' = Submitted \cup {o}
      /\ DOMAIN arrived' = DOMAIN arrived \cup {last}
      /\ \A i \in DOMAIN arrived : arrived'[i] = arrived[i] /\ i < last
      /\ arrived'[last].order = o /\ arrived'[last].book = books[order[o].key]
  BY <1>1, <1>4 DEF Arriving
<1>6. entry \in [order : 1 .. sent, book : Nat \ {0}]
  BY <1>3
<1>7. /\ Tail(heap) \in Seq(1 .. sent)
      /\ \A i \in DOMAIN heap' : i + 1 \in DOMAIN heap /\ heap'[i] = heap[i + 1]
      /\ \A i \in DOMAIN heap : i = 1 \/ (i - 1 \in DOMAIN heap' /\ heap'[i - 1] = heap[i])
      /\ DOMAIN heap = 1 .. Len(heap) /\ Len(heap) \in Nat
  BY PoppedFacts, HeapFacts DEF EngineInv
<1> HIDE DEF entry, last
<1>8. EngineTypes'
  <2>1. arrived' \in Seq([order : 1 .. sent, book : Nat \ {0}])
    BY <1>5, <1>6 DEF EngineInv, EngineTypes
  <2> QED BY <1>1, <1>2, <1>3, <1>7, <2>1 DEF EngineInv, EngineTypes, StageMoves
<1>9. SignalInv'
  BY <1>1, <1>2 DEF EngineInv, SignalInv
<1>10. \A i \in DOMAIN heap' : heap'[i] > o /\ heap'[i] \in Int
  <2> SUFFICES ASSUME NEW i \in DOMAIN heap' PROVE heap[i + 1] > heap[1] /\ heap[i + 1] \in Int
    BY <1>3, <1>7
  <2>1. i + 1 \in DOMAIN heap /\ i \in DOMAIN Tail(heap)
    BY <1>7
  <2>2. i \in Nat /\ i >= 1
    BY <1>7, <2>1
  <2>3. heap[1] < heap[i + 1] /\ heap[i + 1] \in 1 .. sent /\ heap[1] \in 1 .. sent
    BY <1>3, <2>1, <2>2, HeapFacts DEF EngineInv, QueueInv
  <2> QED BY <2>3
<1>11. \A i \in DOMAIN arrived : arrived[i].order < o /\ arrived[i].order \in Int
  BY <1>3, ArrivedFacts DEF EngineInv, QueueInv
<1>12. QueueInv'
  <2>1. \A i, j \in DOMAIN heap' : i < j => heap'[i] < heap'[j]
    <3> SUFFICES ASSUME NEW i \in DOMAIN heap', NEW j \in DOMAIN heap', i < j
                 PROVE  heap'[i] < heap'[j]
      OBVIOUS
    <3>1. i \in Int /\ j \in Int
      BY <1>7
    <3>2. i + 1 < j + 1
      BY <3>1
    <3> QED BY <1>7, <3>2 DEF EngineInv, QueueInv
  <2>2. \A i, j \in DOMAIN arrived' : i < j => arrived'[i].order < arrived'[j].order
    <3> SUFFICES ASSUME NEW i \in DOMAIN arrived', NEW j \in DOMAIN arrived', i < j
                 PROVE  arrived'[i].order < arrived'[j].order
      OBVIOUS
    <3>1. last \in Int /\ \A x \in DOMAIN arrived : x \in Int
      BY ArrivedFacts DEF EngineInv, last
    <3>2. i \in DOMAIN arrived
      BY <1>5, <3>1
    <3>3. CASE j \in DOMAIN arrived
      BY <1>5, <3>2, <3>3 DEF EngineInv, QueueInv
    <3>4. CASE j = last
      BY <1>5, <1>11, <3>2, <3>4
    <3> QED BY <1>5, <3>3, <3>4
  <2>3. ASSUME NEW i \in DOMAIN arrived', NEW j \in DOMAIN heap' PROVE arrived'[i].order < heap'[j]
    <3>1. heap'[j] > o /\ heap'[j] \in Int /\ o \in Int
      BY <1>3, <1>10
    <3>2. CASE i \in DOMAIN arrived
      <4>1. arrived'[i].order < o /\ arrived'[i].order \in Int
        BY <1>5, <1>11, <3>2
      <4> QED BY ONLY <3>1, <4>1
    <3>3. CASE i = last
      BY <1>5, <3>1, <3>3
    <3> QED BY <1>5, <3>2, <3>3
  <2> QED BY <2>1, <2>2, <2>3 DEF QueueInv
<1>13. \A p : (Dropped(p)' <=> Dropped(p)) /\ Meant(p)' = Meant(p)
  BY <1>1, MeantStays
<1>14. WaitInv'
  <2> SUFFICES /\ \A j \in DOMAIN heap' : Waiting(j)'
               /\ \A p \in 1 .. sent : p \in Submitted' \/ p \in ToSet(heap') \/ Dropped(p)
    BY <1>1, <1>13 DEF WaitInv
  <2>1. ASSUME NEW j \in DOMAIN heap' PROVE Waiting(j)'
    <3>1. Waiting(j + 1) /\ heap'[j] = heap[j + 1]
      BY <1>1, <1>7 DEF EngineInv, WaitInv
    <3> QED BY <1>1, <1>2, <3>1 DEF Waiting
  <2>2. ASSUME NEW p \in ToSet(heap) PROVE p \in Submitted' \/ p \in ToSet(heap')
    <3>1. PICK i \in DOMAIN heap : p = heap[i]
      BY DEF ToSet
    <3>2. CASE i = 1
      BY <1>3, <1>5, <3>1, <3>2
    <3>3. CASE i - 1 \in DOMAIN heap' /\ heap'[i - 1] = heap[i]
      BY <3>1, <3>3 DEF ToSet
    <3> QED BY <1>7, <3>2, <3>3
  <2>3. \A p \in 1 .. sent : p \in Submitted \/ p \in ToSet(heap) \/ Dropped(p)
    BY <1>1 DEF EngineInv, WaitInv
  <2> QED BY <1>5, <2>1, <2>2, <2>3
<1>15. BooksInv'
  BY <1>1, <1>2 DEF EngineInv, BooksInv, BookAfter
<1>16. AsOfInv'
  <2>1. books[order[o].key] = Meant(o)
    BY <1>1, <1>3 DEF EngineInv, BooksInv, Meant
  <2>2. AsOfEta'
    <3> SUFFICES ASSUME NEW i \in DOMAIN arrived', NEW p, p = arrived'[i].order
                 PROVE  arrived'[i].book = Meant(p)
      BY <1>13, AsOfEtaWillMean
    <3>1. CASE i \in DOMAIN arrived
      BY <1>5, <3>1, AsOfEtaMeans DEF EngineInv, AsOfInv
    <3>2. CASE i = last
      BY <1>5, <2>1, <3>2
    <3> QED BY <1>5, <3>1, <3>2
  <2>3. ASSUME NEW i \in DOMAIN arrived', NEW p, p = arrived'[i].order PROVE Past(p)'
    <3>1. i \in DOMAIN arrived => Past(p)
      BY <1>3, <1>5, <2>3 DEF EngineInv, AsOfInv
    <3>2. Past(p)
      BY <1>5, <2>3, <3>1
    <3> QED BY <1>1, <1>2, <3>2 DEF Past
  <2> QED BY <2>2, <2>3 DEF AsOfInv
<1> QED BY <1>4, <1>8, <1>9, <1>12, <1>14, <1>15, <1>16 DEF EngineInv

LEMMA RaiseKeeps ==
    ASSUME ReaderInv, EngineInv, Raise, UNCHANGED <<readerVars, latency, books, order, sent, unheard>>
    PROVE  EngineInv'
<1>1. StageMoves
  BY DEF Raise, StageMoves, Stages, readerVars
<1> QED BY <1>1, IdleKeeps DEF Raise, readerVars

LEMMA DrainKeeps == ASSUME ReaderInv, EngineInv, Drain PROVE EngineInv'
<1>1. /\ engine = "draining" /\ heap # <<>> /\ order[Head(heap)].eta <= now
      /\ UNCHANGED <<readerVars, latency, books, order, sent, unheard>> /\ reader' = reader
  BY DEF Drain, Pop, AnyDue, IsDue, readerVars
<1>2. CASE heap' = Tail(heap) /\ Submit(Head(heap)) /\ engine' = "draining"
  <2>1. PICK o : o = Head(heap)
    OBVIOUS
  <2>2. /\ o \in 1 .. sent /\ order[o].eta \in Int
        /\ \A m \in Seen : yielded[m].ts < order[o].eta
    BY <1>1, <2>1, FirstFacts
  <2>3. /\ Heard \in Nat /\ Heard > 0 /\ 1 .. Heard = Seen \cup {Heard}
        /\ now = yielded[Heard].ts /\ now \in Int /\ DOMAIN yielded = 1 .. Heard
    BY <1>1, SeenWhileDraining, EventFacts, TimesAscend DEF EngineInv
  <2>4. ~(yielded[Heard].ts < order[o].eta)
    BY <1>1, <2>1, <2>2, <2>3
  <2>5. Earlier(o) = Seen
    BY <2>2, <2>3, <2>4 DEF Earlier
  <2>6. Past(o)
    BY <1>1, <2>1, <2>3 DEF Past
  <2>7. StageMoves
    BY <1>1, <1>2, <2>3 DEF StageMoves, Stages
  <2> QED BY <1>1, <1>2, <2>1, <2>5, <2>6, <2>7, ArrivalKeeps
<1>3. CASE Raise
  BY <1>1, <1>3, RaiseKeeps
<1> QED BY <1>2, <1>3 DEF Drain, Pop

LEMMA LastDrainKeeps == ASSUME ReaderInv, EngineInv, LastDrain PROVE EngineInv'
<1>1. /\ Between /\ reader = "done" /\ heap # <<>> /\ reader' = reader
      /\ engine # "raised" /\ engine # "draining"
      /\ UNCHANGED <<readerVars, latency, books, order, sent, unheard>>
  BY DEF LastDrain, Pop, readerVars, Between
<1>2. CASE heap' = Tail(heap) /\ Submit(Head(heap)) /\ engine' = "reading"
  <2>1. PICK o : o = Head(heap)
    OBVIOUS
  <2>2. /\ o \in 1 .. sent /\ order[o].eta \in Int
        /\ \A m \in Seen : yielded[m].ts < order[o].eta
    BY <1>1, <2>1, FirstFacts
  <2>3. DOMAIN yielded = 1 .. Heard /\ Seen = 1 .. Heard
    BY <1>1, TimesAscend DEF Seen
  <2>4. Earlier(o) = Seen
    BY <2>2, <2>3 DEF Earlier
  <2>5. Past(o)
    BY <1>1 DEF Past
  <2>6. StageMoves
    BY <1>1, <1>2 DEF StageMoves, Stages
  <2> QED BY <1>1, <1>2, <2>1, <2>4, <2>5, <2>6, ArrivalKeeps
<1>3. CASE Raise
  BY <1>1, <1>3, RaiseKeeps
<1> QED BY <1>2, <1>3 DEF LastDrain, Pop

-----------------------------------------------------------------------------
(* A signal                                                                *)

\* o is sent, for the book of k.
Sent(o, k) ==
    /\ o \in Orders /\ sent' = o /\ sent' \in 0 .. MaxSignals
    /\ 1 .. sent' = (1 .. sent) \cup {o} /\ \A p \in 1 .. sent : p < o
    /\ order' \in [Orders -> {NoOrder} \cup Signalled]
    /\ order'[o] \in Signalled /\ order'[o].key = k /\ order'[o].heard = Heard
    /\ order'[o].eta = now + latency
    /\ \A p \in 1 .. sent : order'[p] = order[p]

LEMMA SignalFacts ==
    ASSUME ReaderInv, EngineTypes, NEW k \in Tokens, NEW side \in Sides, NEW size \in Sizes, Signal(k, side, size)
    PROVE  /\ UNCHANGED <<readerVars, latency, books, unheard>>
           /\ engine \in {"ticking", "signalling"} /\ Heard \in Nat /\ Heard > 0
           /\ Sent(sent + 1, k)
<1> DEFINE o == sent + 1
           new == [key |-> k, side |-> side, size |-> size, eta |-> now + latency, heard |-> Heard]
<1>1. /\ engine \in {"ticking", "signalling"} /\ sent < MaxSignals /\ sent' = o
      /\ UNCHANGED <<readerVars, latency, books, unheard>>
      /\ order' = [order EXCEPT ![o] = new]
  BY DEF Signal, Heard
<1>2. Heard \in Nat /\ Heard > 0 /\ now \in Int /\ latency \in Int
  BY <1>1, TimesAscend, EventFacts DEF EngineTypes
<1>3. new \in Signalled
  BY <1>2 DEF Signalled
<1>4. new.key = k /\ new.heard = Heard /\ new.eta = now + latency
  OBVIOUS
<1> HIDE DEF new
<1>5. /\ o \in Orders /\ sent' \in 0 .. MaxSignals
      /\ 1 .. sent' = (1 .. sent) \cup {o} /\ \A p \in 1 .. sent : p < o
      /\ 1 .. sent \subseteq Orders
  BY <1>1, SentFacts DEF Orders
<1> HIDE DEF o
<1>6. /\ order' \in [Orders -> {NoOrder} \cup Signalled]
      /\ order'[o] = new
  BY <1>1, <1>3, <1>5 DEF EngineTypes
<1>7. ASSUME NEW p \in 1 .. sent PROVE order'[p] = order[p]
  <2>1. p # o /\ p \in Orders
    BY <1>5
  <2> QED BY <1>1, <2>1 DEF EngineTypes
<1> QED BY <1>1, <1>2, <1>3, <1>4, <1>5, <1>6, <1>7 DEF Sent, o

\* What was sent before is as it was.
LEMMA OldStay ==
    ASSUME EngineTypes, NEW o, NEW k, Sent(o, k), UNCHANGED <<readerVars, latency, books>>
    PROVE  /\ \A p \in 1 .. sent : (Dropped(p)' <=> Dropped(p)) /\ Meant(p)' = Meant(p)
           /\ heap \in Seq(1 .. sent') /\ arrived \in Seq([order : 1 .. sent', book : Nat \ {0}])
<1>1. yielded' = yielded /\ latency' = latency /\ \A p \in 1 .. sent : order'[p] = order[p]
  BY DEF readerVars, Sent
<1>2. \A p \in 1 .. sent : (Dropped(p)' <=> Dropped(p)) /\ Meant(p)' = Meant(p)
  BY <1>1, MeantStays
<1>3. 1 .. sent \subseteq 1 .. sent'
  BY DEF Sent
<1>4. heap \in Seq(1 .. sent')
  BY <1>3, HeapFacts, SeqMonotonic DEF EngineTypes
<1>5. arrived \in Seq([order : 1 .. sent', book : Nat \ {0}])
  <2>1. [order : 1 .. sent, book : Nat \ {0}] \subseteq [order : 1 .. sent', book : Nat \ {0}]
    BY <1>3
  <2> QED BY <2>1, SeqMonotonic DEF EngineTypes
<1> QED BY <1>2, <1>4, <1>5

LEMMA SentIsSignal ==
    ASSUME ReaderInv, EngineInv, Heard > 0, NEW o, NEW k, o = sent + 1, Sent(o, k),
           UNCHANGED <<readerVars, latency>>
    PROVE  SignalInv'
<1>1. yielded' = yielded /\ latency' = latency /\ Heard' = Heard /\ Heard \in 1 .. Heard
      /\ now = yielded[Heard].ts
  BY EventFacts DEF readerVars, Heard
<1>2. /\ 1 .. sent' = (1 .. sent) \cup {o} /\ \A p \in 1 .. sent : p < o
      /\ order'[o] \in Signalled /\ order'[o].heard = Heard /\ order'[o].eta = now + latency
      /\ \A p \in 1 .. sent : order'[p] = order[p]
  BY DEF Sent
<1>3. ASSUME NEW p \in 1 .. sent'
      PROVE  /\ order'[p] \in Signalled /\ order'[p].heard \in 1 .. Heard
             /\ order'[p].eta = yielded[order'[p].heard].ts + latency
  <2>1. CASE p \in 1 .. sent
    BY <1>2, <2>1 DEF EngineInv, SignalInv
  <2>2. CASE p = o
    BY <1>1, <1>2, <2>2
  <2> QED BY <1>2, <2>1, <2>2
<1>4. ASSUME NEW p \in 1 .. sent', NEW q \in 1 .. sent', p <= q
      PROVE  order'[p].heard <= order'[q].heard
  <2>1. CASE q = o
    <3>1. order'[p].heard \in 1 .. Heard /\ order'[q].heard = Heard
      BY <1>2, <1>3, <2>1
    <3> QED BY <3>1
  <2>2. CASE q \in 1 .. sent
    <3>1. p \in 1 .. sent
      BY <1>4, <2>2, SentFacts DEF EngineInv
    <3> QED BY <1>2, <1>4, <2>2, <3>1 DEF EngineInv, SignalInv
  <2> QED BY <1>2, <2>1, <2>2
<1> QED BY <1>1, <1>3, <1>4 DEF SignalInv

\* Without a book it is dropped; a push that raises leaves no replay behind.
LEMMA DroppedKeeps ==
    ASSUME ReaderInv, EngineInv, engine \in {"ticking", "signalling"}, NEW k \in Tokens,
           NEW o, o = sent + 1, Sent(o, k), UNCHANGED <<readerVars, latency, books>>,
           UNCHANGED <<heap, resting, unheard, account, arrived>>,
           (engine' = "signalling" /\ books[k] = 0) \/ engine' = "raised"
    PROVE  EngineInv'
<1>1. /\ yielded' = yielded /\ reader' = reader /\ Heard' = Heard /\ Heard \in Nat /\ Heard > 0
      /\ latency' = latency /\ books' = books /\ Seen = 1 .. Heard
      /\ engine' # "raised" => Seen' = Seen
  BY TimesAscend DEF readerVars, Heard, Seen, EngineInv, EngineTypes
<1>2. /\ sent' \in 0 .. MaxSignals /\ 1 .. sent' = (1 .. sent) \cup {o}
      /\ order' \in [Orders -> {NoOrder} \cup Signalled]
      /\ order'[o].key = k /\ order'[o].heard = Heard
      /\ \A p \in 1 .. sent : order'[p] = order[p]
  BY DEF Sent
<1>3. /\ \A p \in 1 .. sent : (Dropped(p)' <=> Dropped(p)) /\ Meant(p)' = Meant(p)
      /\ heap \in Seq(1 .. sent') /\ arrived \in Seq([order : 1 .. sent', book : Nat \ {0}])
  BY OldStay DEF EngineInv
<1>4. EngineTypes'
  BY <1>1, <1>2, <1>3 DEF EngineInv, EngineTypes, Stages
<1>5. SignalInv'
  BY <1>1, SentIsSignal
<1>6. QueueInv' /\ AccountInv'
  <2>1. unheard' \in SUBSET resting /\ \A p \in Submitted : order'[p] = order[p]
    BY <1>2, ArrivedFacts DEF EngineInv, AccountInv
  <2> QED BY <2>1, AccountKept DEF EngineInv, QueueInv
<1>7. Submitted' = Submitted /\ ToSet(heap)' = ToSet(heap)
  BY DEF Submitted, ToSet
<1>8. WaitInv'
  <2> SUFFICES ASSUME engine' = "signalling", books[k] = 0
               PROVE  /\ \A j \in DOMAIN heap : Waiting(j)'
                      /\ \A p \in 1 .. sent' :
                            p \in Submitted \/ p \in ToSet(heap) \/ Dropped(p)'
    BY <1>7 DEF WaitInv
  <2>1. ASSUME NEW j \in DOMAIN heap PROVE Waiting(j)'
    <3>1. Waiting(j) /\ order'[heap[j]] = order[heap[j]]
      BY <1>2, HeapFacts DEF EngineInv, WaitInv
    <3> QED BY <1>1, <3>1 DEF Waiting
  <2>2. Dropped(o)'
    <3>1. BookAfter(k, Seen) = 0
      BY DEF EngineInv, BooksInv
    <3> QED BY <1>1, <1>2, <3>1 DEF Dropped, BookAfter
  <2>3. \A p \in 1 .. sent : p \in Submitted \/ p \in ToSet(heap) \/ Dropped(p)
    BY DEF EngineInv, WaitInv
  <2> QED BY <1>2, <1>3, <2>1, <2>2, <2>3
<1>9. BooksInv'
  BY <1>1 DEF EngineInv, BooksInv, BookAfter
<1>10. AsOfInv'
  <2>1. ASSUME NEW i \in DOMAIN arrived', NEW p, p = arrived'[i].order
        PROVE  /\ i \in DOMAIN arrived /\ p = arrived[i].order /\ p \in 1 .. sent
               /\ order'[p] = order[p]
    BY <1>2, <2>1, ArrivedFacts DEF EngineInv
  <2>2. AsOfEta'
    <3> SUFFICES ASSUME NEW i \in DOMAIN arrived', NEW p, p = arrived'[i].order
                 PROVE  arrived'[i].book = Meant(p)'
      BY AsOfEtaWillMean
    <3>1. i \in DOMAIN arrived /\ p = arrived[i].order /\ p \in 1 .. sent
      BY <2>1
    <3>2. arrived[i].book = Meant(p)
      BY <3>1, AsOfEtaMeans DEF EngineInv, AsOfInv
    <3> QED BY <1>3, <3>1, <3>2
  <2>3. ASSUME latency > 0, NEW i \in DOMAIN arrived', NEW p, p = arrived'[i].order
        PROVE  Past(p)'
    BY <1>1, <2>1, <2>3 DEF Past, EngineInv, AsOfInv
  <2> QED BY <1>1, <2>2, <2>3 DEF AsOfInv
<1> QED BY <1>4, <1>5, <1>6, <1>8, <1>9, <1>10 DEF EngineInv

\* Without latency it meets the book the strategy saw.
LEMMA MetKeeps ==
    ASSUME ReaderInv, EngineInv, engine \in {"ticking", "signalling"}, NEW k \in Tokens,
           NEW o, o = sent + 1, Sent(o, k), UNCHANGED <<readerVars, latency, books, heap>>,
           books[k] # 0, latency = 0, Submit(o), engine' = "signalling", unheard' = unheard
    PROVE  EngineInv'
<1>1. /\ yielded' = yielded /\ reader' = reader /\ Heard' = Heard /\ Heard \in Nat /\ Heard > 0
      /\ latency' = latency /\ books' = books /\ Seen = 1 .. Heard /\ Seen' = Seen
  BY TimesAscend DEF readerVars, Heard, Seen, EngineInv, EngineTypes
<1>2. /\ sent' \in 0 .. MaxSignals /\ 1 .. sent' = (1 .. sent) \cup {o}
      /\ \A p \in 1 .. sent : p < o /\ order'[p] = order[p]
      /\ order' \in [Orders -> {NoOrder} \cup Signalled]
      /\ order'[o].key = k /\ order'[o].heard = Heard
  BY DEF Sent
<1>3. /\ \A p \in 1 .. sent : (Dropped(p)' <=> Dropped(p)) /\ Meant(p)' = Meant(p)
      /\ arrived \in Seq([order : 1 .. sent', book : Nat \ {0}])
  BY OldStay DEF EngineInv
<1>4. heap = <<>> /\ heap' = <<>> /\ DOMAIN heap' = {} /\ ToSet(heap) = {}
  BY DEF EngineInv, EngineTypes, ToSet
<1>5. o \notin Submitted /\ sent \in Nat
  BY <1>2, ArrivedFacts, SentFacts DEF EngineInv
<1>6. Arriving(o) /\ AccountInv'
  <2>1. o \in Orders /\ order'[o] \in Signalled /\ \A p \in Submitted : order'[p] = order[p]
    BY <1>2, ArrivedFacts DEF Sent, EngineInv
  <2> QED BY <1>2, <1>5, <2>1, SubmitFacts DEF EngineInv
<1> DEFINE last == Len(arrived) + 1
           entry == [order |-> o, book |-> books[k]]
<1>7. /\ arrived' = Append(arrived, entry)
      /\ Submitted' = Submitted \cup {o}
      /\ DOMAIN arrived' = DOMAIN arrived \cup {last}
      /\ \A i \in DOMAIN arrived : arrived'[i] = arrived[i] /\ i < last
      /\ arrived'[last].order = o /\ arrived'[last].book = books[k]
  BY <1>2, <1>6 DEF Arriving
<1>8. entry \in [order : 1 .. sent', book : Nat \ {0}]
  BY <1>2 DEF EngineInv, EngineTypes
<1>9. last \in Int /\ \A i \in DOMAIN arrived : i \in Int /\ arrived[i].order \in 1 .. sent
  BY ArrivedFacts DEF EngineInv
<1> HIDE DEF entry, last
<1>10. EngineTypes'
  <2>1. arrived' \in Seq([order : 1 .. sent', book : Nat \ {0}])
    BY <1>3, <1>7, <1>8
  <2>2. heap' \in Seq(1 .. sent')
    BY <1>4
  <2> QED BY <1>1, <1>2, <1>4, <2>1, <2>2 DEF EngineInv, EngineTypes, Stages
<1>11. SignalInv'
  BY <1>1, SentIsSignal
<1>12. QueueInv'
  <2>1. \A i, j \in DOMAIN arrived' : i < j => arrived'[i].order < arrived'[j].order
    <3> SUFFICES ASSUME NEW i \in DOMAIN arrived', NEW j \in DOMAIN arrived', i < j
                 PROVE  arrived'[i].order < arrived'[j].order
      OBVIOUS
    <3>1. i \in DOMAIN arrived
      BY <1>7, <1>9
    <3>2. CASE j \in DOMAIN arrived
      BY <1>7, <3>1, <3>2 DEF EngineInv, QueueInv
    <3>3. CASE j = last
      BY <1>2, <1>7, <1>9, <3>1, <3>3
    <3> QED BY <1>7, <3>2, <3>3
  <2> QED BY <1>4, <2>1 DEF QueueInv
<1>13. WaitInv'
  <2>1. \A p \in 1 .. sent : p \in Submitted \/ Dropped(p)
    BY <1>4 DEF EngineInv, WaitInv
  <2> QED BY <1>2, <1>3, <1>4, <1>7, <2>1 DEF WaitInv
<1>14. BooksInv'
  BY <1>1 DEF EngineInv, BooksInv, BookAfter
<1>15. AsOfInv'
  <2>1. Meant(o)' = books[k]
    <3>1. books[k] = BookAfter(k, Seen)
      BY DEF EngineInv, BooksInv
    <3> QED BY <1>1, <1>2, <3>1 DEF Meant, BookAfter
  <2>2. AsOfEta'
    <3> SUFFICES ASSUME NEW i \in DOMAIN arrived', NEW p, p = arrived'[i].order
                 PROVE  arrived'[i].book = Meant(p)'
      BY AsOfEtaWillMean
    <3>1. CASE i \in DOMAIN arrived
      <4>1. arrived[i].book = Meant(p) /\ p \in 1 .. sent
        BY <1>7, <1>9, <3>1, AsOfEtaMeans DEF EngineInv, AsOfInv
      <4> QED BY <1>3, <1>7, <3>1, <4>1
    <3>2. CASE i = last
      BY <1>7, <2>1, <3>2
    <3> QED BY <1>7, <3>1, <3>2
  <2> QED BY <1>1, <2>2 DEF AsOfInv
<1> QED BY <1>6, <1>10, <1>11, <1>12, <1>13, <1>14, <1>15 DEF EngineInv

\* With latency it waits behind the others.
LEMMA WaitingKeeps ==
    ASSUME ReaderInv, EngineInv, engine \in {"ticking", "signalling"}, NEW k \in Tokens,
           NEW o, o = sent + 1, Sent(o, k), UNCHANGED <<readerVars, latency, books>>,
           books[k] # 0, latency # 0, heap' = Append(heap, o), engine' = "signalling",
           UNCHANGED <<resting, unheard, account, arrived>>
    PROVE  EngineInv'
<1>1. /\ yielded' = yielded /\ reader' = reader /\ Heard' = Heard /\ Heard \in Nat /\ Heard > 0
      /\ latency' = latency /\ books' = books /\ Seen = 1 .. Heard /\ Seen' = Seen
  BY TimesAscend DEF readerVars, Heard, Seen, EngineInv, EngineTypes
<1>2. /\ sent' \in 0 .. MaxSignals /\ 1 .. sent' = (1 .. sent) \cup {o}
      /\ \A p \in 1 .. sent : p < o /\ order'[p] = order[p]
      /\ order' \in [Orders -> {NoOrder} \cup Signalled]
      /\ order'[o].key = k /\ order'[o].heard = Heard /\ order'[o].eta = now + latency
  BY DEF Sent
<1>3. /\ \A p \in 1 .. sent : (Dropped(p)' <=> Dropped(p)) /\ Meant(p)' = Meant(p)
      /\ heap \in Seq(1 .. sent') /\ arrived \in Seq([order : 1 .. sent', book : Nat \ {0}])
  BY OldStay DEF EngineInv
<1>4. /\ DOMAIN heap = 1 .. Len(heap) /\ Len(heap) \in Nat
      /\ \A j \in DOMAIN heap : heap[j] \in 1 .. sent
  BY HeapFacts DEF EngineInv
<1> DEFINE last == Len(heap) + 1
<1>5. /\ heap' \in Seq(1 .. sent')
      /\ DOMAIN heap' = DOMAIN heap \cup {last} /\ heap'[last] = o
      /\ \A j \in DOMAIN heap : heap'[j] = heap[j] /\ j < last /\ j \in Int
      /\ last \in Int
  BY <1>2, <1>3, <1>4
<1> HIDE DEF last
<1>6. EngineTypes'
  BY <1>1, <1>2, <1>3, <1>5 DEF EngineInv, EngineTypes, Stages
<1>7. SignalInv'
  BY <1>1, SentIsSignal
<1>8. AccountInv'
  <2>1. unheard' \in SUBSET resting /\ \A p \in Submitted : order'[p] = order[p]
    BY <1>2, ArrivedFacts DEF EngineInv, AccountInv
  <2> QED BY <2>1, AccountKept DEF EngineInv
<1>9. QueueInv'
  <2>1. \A i, j \in DOMAIN heap' : i < j => heap'[i] < heap'[j]
    <3> SUFFICES ASSUME NEW i \in DOMAIN heap', NEW j \in DOMAIN heap', i < j
                 PROVE  heap'[i] < heap'[j]
      OBVIOUS
    <3>1. i \in DOMAIN heap
      BY <1>5
    <3>2. CASE j \in DOMAIN heap
      BY <1>5, <3>1, <3>2 DEF EngineInv, QueueInv
    <3>3. CASE j = last
      BY <1>2, <1>4, <1>5, <3>1, <3>3
    <3> QED BY <1>5, <3>2, <3>3
  <2>2. ASSUME NEW i \in DOMAIN arrived, NEW j \in DOMAIN heap' PROVE arrived[i].order < heap'[j]
    <3>1. CASE j \in DOMAIN heap
      BY <1>5, <3>1 DEF EngineInv, QueueInv
    <3>2. CASE j = last
      BY <1>2, <1>5, <3>2, ArrivedFacts DEF EngineInv
    <3> QED BY <1>5, <3>1, <3>2
  <2> QED BY <2>1, <2>2 DEF QueueInv, EngineInv
<1>10. WaitInv'
  <2>1. ASSUME NEW j \in DOMAIN heap' PROVE Waiting(j)'
    <3>1. CASE j \in DOMAIN heap
      <4>1. Waiting(j) /\ heap'[j] = heap[j] /\ order'[heap[j]] = order[heap[j]]
        BY <1>2, <1>4, <1>5, <3>1 DEF EngineInv, WaitInv
      <4> QED BY <1>1, <4>1 DEF Waiting
    <3>2. CASE j = last
      <4>1. now \in Int /\ now = yielded[Heard].ts /\ latency \in Nat
            /\ \A m \in 1 .. Heard : yielded[m].ts \in Int /\ yielded[m].ts <= yielded[Heard].ts
        BY <1>1, EventFacts, TimesAscend DEF EngineInv, EngineTypes
      <4>2. ASSUME NEW m \in Seen PROVE yielded[m].ts < now + latency
        <5>1. /\ yielded[m].ts \in Int /\ yielded[m].ts <= now /\ now \in Int
              /\ latency \in Nat /\ latency # 0
          BY <1>1, <4>1
        <5> QED BY ONLY <5>1
      <4>3. books[k] > 0
        BY DEF EngineInv, EngineTypes
      <4> QED BY <1>1, <1>2, <1>5, <3>2, <4>2, <4>3 DEF Waiting
    <3> QED BY <1>5, <3>1, <3>2
  <2>2. ToSet(heap') = ToSet(heap) \cup {o}
    <3>1. \A x : x \in ToSet(heap') <=> x \in ToSet(heap) \/ x = o
      BY <1>5 DEF ToSet
    <3> QED BY <3>1
  <2>3. \A p \in 1 .. sent : p \in Submitted \/ p \in ToSet(heap) \/ Dropped(p)
    BY DEF EngineInv, WaitInv
  <2>4. Submitted' = Submitted
    BY DEF Submitted
  <2>5. \A p \in 1 .. sent' : p \in Submitted' \/ p \in ToSet(heap)' \/ Dropped(p)'
    BY <1>2, <1>3, <2>2, <2>3, <2>4
  <2> QED BY <2>1, <2>5 DEF WaitInv
<1>11. BooksInv'
  BY <1>1 DEF EngineInv, BooksInv, BookAfter
<1>12. AsOfInv'
  <2>1. ASSUME NEW i \in DOMAIN arrived', NEW p, p = arrived'[i].order
        PROVE  /\ i \in DOMAIN arrived /\ p = arrived[i].order /\ p \in 1 .. sent
               /\ order'[p] = order[p]
    BY <1>2, <2>1, ArrivedFacts DEF EngineInv
  <2>2. AsOfEta'
    <3> SUFFICES ASSUME NEW i \in DOMAIN arrived', NEW p, p = arrived'[i].order
                 PROVE  arrived'[i].book = Meant(p)'
      BY AsOfEtaWillMean
    <3>1. i \in DOMAIN arrived /\ p = arrived[i].order /\ p \in 1 .. sent
      BY <2>1
    <3>2. arrived[i].book = Meant(p)
      BY <3>1, AsOfEtaMeans DEF EngineInv, AsOfInv
    <3> QED BY <1>3, <3>1, <3>2
  <2>3. ASSUME latency > 0, NEW i \in DOMAIN arrived', NEW p, p = arrived'[i].order
        PROVE  Past(p)'
    BY <1>1, <2>1, <2>3 DEF Past, EngineInv, AsOfInv
  <2> QED BY <1>1, <2>2, <2>3 DEF AsOfInv
<1> QED BY <1>6, <1>7, <1>8, <1>9, <1>10, <1>11, <1>12 DEF EngineInv

LEMMA SignalKeeps ==
    ASSUME ReaderInv, EngineInv, NEW k \in Tokens, NEW side \in Sides, NEW size \in Sizes, Signal(k, side, size)
    PROVE  EngineInv'
<1>1. PICK o : o = sent + 1
  OBVIOUS
<1>2. /\ UNCHANGED <<readerVars, latency, books, unheard>>
      /\ engine \in {"ticking", "signalling"} /\ Sent(o, k)
  BY <1>1, SignalFacts DEF EngineInv
<1>3. CASE books[k] = 0
  <2>1. engine' = "signalling" /\ UNCHANGED <<heap, resting, account, arrived>>
    BY <1>3 DEF Signal
  <2> QED BY <1>1, <1>2, <1>3, <2>1, DroppedKeeps
<1>4. CASE books[k] # 0 /\ latency = 0
  <2>1. Submit(o) /\ engine' = "signalling" /\ UNCHANGED heap
    BY <1>1, <1>4 DEF Signal
  <2> QED BY <1>1, <1>2, <1>4, <2>1, MetKeeps
<1>5. CASE books[k] # 0 /\ latency # 0
  <2>1. Heappush(o)
    BY <1>1, <1>5 DEF Signal
  <2>2. CASE Raise
    BY <1>1, <1>2, <2>2, DroppedKeeps DEF Raise
  <2>3. CASE heap' = Append(heap, o) /\ engine' = "signalling" /\ UNCHANGED <<resting, account, arrived>>
    BY <1>1, <1>2, <1>5, <2>3, WaitingKeeps
  <2> QED BY <2>1, <2>2, <2>3 DEF Heappush
<1> QED BY <1>3, <1>4, <1>5

-----------------------------------------------------------------------------
(* The invariant holds at the start and after every step.                  *)

LEMMA StartHolds == Init => EngineInv
<1> SUFFICES ASSUME Init PROVE EngineInv
  OBVIOUS
<1>1. /\ latency \in Nat /\ heap = <<>> /\ sent = 0 /\ resting = {} /\ unheard = {}
      /\ filled = [o \in Orders |-> 0]
      /\ books = [k \in Tokens |-> 0] /\ net = [k \in Tokens |-> 0]
      /\ order = [o \in Orders |-> NoOrder]
      /\ trades = 0 /\ rows = 0 /\ engine = "reading" /\ arrived = <<>> /\ yielded = <<>>
  BY EngineAssumption DEF Init, EngineInit, ReaderInit
<1>2. Heard = 0 /\ Seen = {} /\ Submitted = {} /\ 1 .. sent = {}
  BY <1>1 DEF Heard, Seen, Submitted
<1>3. EngineTypes
  <2>1. heap \in Seq(1 .. sent) /\ arrived \in Seq([order : 1 .. sent, book : Nat \ {0}])
    BY <1>1, EmptySeq
  <2>2. sent \in 0 .. MaxSignals
    BY <1>1, EngineAssumption
  <2> QED BY <1>1, <2>1, <2>2 DEF EngineTypes, Stages
<1>4. AccountInv
  BY <1>1, <1>2 DEF AccountInv
<1>5. SignalInv /\ QueueInv /\ WaitInv
  BY <1>1, <1>2 DEF SignalInv, QueueInv, WaitInv
<1>6. BooksInv
  BY <1>1, <1>2, NoEventsNoBook DEF BooksInv
<1>7. AsOfInv
  BY <1>1 DEF AsOfInv, AsOfEta
<1> QED BY <1>3, <1>4, <1>5, <1>6, <1>7 DEF EngineInv

LEMMA EngineStep ==
    ASSUME ReaderInv, EngineInv, [Next]_vars
    PROVE  EngineInv'
<1>1. CASE Fetch
  BY <1>1, FetchKeeps
<1>2. CASE \E r \in page : Event(r)
  BY <1>2, EventKeeps
<1>3. CASE Drain
  BY <1>3, DrainKeeps
<1>4. CASE Apply
  BY <1>4, ApplyKeeps
<1>5. CASE \E o \in unheard : Tick(o)
  BY <1>5, TickKeeps
<1>6. CASE \E k \in Tokens, side \in Sides, size \in Sizes : Signal(k, side, size)
  BY <1>6, SignalKeeps
<1>7. CASE LastDrain
  BY <1>7, LastDrainKeeps
<1>8. CASE Finish
  BY <1>8, FinishKeeps
<1>9. CASE Tape /\ UNCHANGED engineVars
  <2>1. yielded' = yielded /\ reader' = reader
    BY <1>9 DEF Tape, Insert, Expire
  <2> QED BY <1>9, <2>1, RestingKeeps
<1>10. CASE UNCHANGED vars
  BY <1>10, RestingKeeps DEF vars, readerVars
<1> QED BY <1>1, <1>2, <1>3, <1>4, <1>5, <1>6, <1>7, <1>8, <1>9, <1>10 DEF Next, Replay

LEMMA Invariance == Spec => [](ReaderInv /\ EngineInv)
<1>1. Init => ReaderInv /\ EngineInv
  BY InitHolds, StartHolds DEF Init
<1>2. ReaderInv /\ EngineInv /\ [Next]_vars => (ReaderInv /\ EngineInv)'
  BY ReaderStep, EngineReads, EngineStep
<1> QED BY <1>1, <1>2, PTL DEF Spec

\* The engine's event loop sees every row of the tape at most once and in the
\* order of (ts, id), whatever the writer inserts and retention deletes while
\* the replay runs (_stream_events, Audit P1-2).
THEOREM TapeIsReplayedInOrder == Spec => []InTapeOrder
<1>1. ReaderInv => InTapeOrder
  BY DEF ReaderInv, Ordered, InTapeOrder
<1> QED BY <1>1, Invariance, PTL

\* When the stream ends, every row of the window that was on the tape at the
\* start and has not been deleted has been yielded: no row is lost between two
\* pages, however many share a time stamp.
THEOREM NothingIsPassedOver == Spec => []StableRowsAreSeen
<1>1. ReaderInv => StableRowsAreSeen
  <2> SUFFICES ASSUME ReaderInv, reader = "done", NEW s \in stable
               PROVE  s \in ToSet(yielded)
    BY DEF StableRowsAreSeen
  <2>1. PICK i \in 1 .. Len(yielded) : yielded[i] = s
    BY DEF ReaderInv, Covered, Yielded
  <2>2. yielded \in Seq(Row)
    BY DEF ReaderInv, Types
  <2> QED BY <2>1, <2>2 DEF ToSet
<1> QED BY <1>1, Invariance, PTL

\* Every variable of the replay keeps its type, an order is in latency or has
\* arrived and never both, and what rests in the simulator has arrived and is
\* not done, however its fills are split between prints.
THEOREM ReplayTypesHold == Spec => []TypeOK
<1>1. ReaderInv /\ EngineInv => TypeOK
  <2> SUFFICES ASSUME ReaderInv, EngineInv PROVE TypeOK
    OBVIOUS
  <2>1. ReaderTypeOK
    BY DEF ReaderInv, Types, ReaderTypeOK
  <2>2. ToSet(heap) \cap Submitted = {}
    <3> SUFFICES ASSUME NEW i \in DOMAIN arrived, NEW j \in DOMAIN heap,
                        arrived[i].order = heap[j]
                 PROVE  FALSE
      BY DEF ToSet, Submitted
    <3>1. arrived[i].order < heap[j] /\ heap[j] \in 1 .. sent
      BY HeapFacts DEF EngineInv, QueueInv
    <3> QED BY <3>1
  <2>3. arrived \in Seq([order : Orders, book : Nat \ {0}])
    <3>1. PICK S, T : /\ S = [order : 1 .. sent, book : Nat \ {0}]
                      /\ T = [order : Orders, book : Nat \ {0}]
      OBVIOUS
    <3>2. S \subseteq T
      BY <3>1, SentFacts DEF EngineInv
    <3>3. arrived \in Seq(S)
      BY <3>1 DEF EngineInv, EngineTypes
    <3>4. arrived \in Seq(T)
      BY <3>2, <3>3, SeqMonotonic
    <3> QED BY <3>1, <3>4
  <2>4. /\ order \in [Orders -> {NoOrder} \cup [key : Tokens, side : Sides, size : Sizes, eta : Int, heard : Nat]]
        /\ latency \in Nat /\ books \in [Tokens -> Nat] /\ heap \in Seq(1 .. sent)
        /\ sent \in 0 .. MaxSignals /\ engine \in Stages
    BY DEF EngineInv, EngineTypes, Signalled
  <2>5. /\ unheard \subseteq resting /\ resting \subseteq Submitted
        /\ filled \in [Orders -> Nat] /\ \A o \in resting : filled[o] < order[o].size
        /\ net \in [Tokens -> Int] /\ trades \in Nat /\ rows \in Nat
    BY DEF EngineInv, AccountInv
  <2> QED BY <2>1, <2>2, <2>3, <2>4, <2>5 DEF TypeOK
<1> QED BY <1>1, Invariance, PTL

\* No look-ahead and no stale book: every order meets the book that the events
\* before its arrival time made, or without latency the one its strategy saw
\* (the drain before the event is applied, replay_engine.py).
THEOREM OrdersMeetTheirBook == Spec => []AsOfEta
<1>1. EngineInv => AsOfEta
  BY DEF EngineInv, AsOfInv
<1> QED BY <1>1, Invariance, PTL

\* Orders arrive once each, in the order of their arrival times, and when a
\* replay completes every one that had a book has arrived.
THEOREM OrdersArriveOnce == Spec => []EveryOrderArrives
<1>1. ReaderInv /\ EngineInv => EveryOrderArrives
  <2> SUFFICES ASSUME ReaderInv, EngineInv PROVE EveryOrderArrives
    OBVIOUS
  <2>1. ASSUME NEW i \in DOMAIN arrived, NEW j \in DOMAIN arrived, i < j
        PROVE  /\ arrived[i].order # arrived[j].order
               /\ order[arrived[i].order].eta <= order[arrived[j].order].eta
    <3>1. /\ arrived[i].order \in 1 .. sent /\ arrived[j].order \in 1 .. sent
          /\ arrived[i].order < arrived[j].order
      BY <2>1, ArrivedFacts DEF EngineInv, QueueInv
    <3>2. arrived[i].order <= arrived[j].order /\ arrived[i].order # arrived[j].order
      BY <3>1
    <3> QED BY <3>1, <3>2, EtasAscend DEF EngineInv
  <2>2. ASSUME engine = "completed", NEW o \in 1 .. sent
        PROVE  o \in Submitted \/ BookAfter(order[o].key, 1 .. order[o].heard) = 0
    <3>1. ToSet(heap) = {}
      BY <2>2 DEF EngineInv, WaitInv, ToSet
    <3> QED BY <2>2, <3>1 DEF EngineInv, WaitInv, Dropped
  <2> QED BY <2>1, <2>2 DEF EveryOrderArrives
<1> QED BY <1>1, Invariance, PTL
=============================================================================
