------------------------- MODULE PeriodicJobsProofs -------------------------
(***************************************************************************)
(* Proofs about PeriodicJobs, for buffers, batches, clocks and plans of    *)
(* any size: the tape keeps its order and loses nothing unaccounted for,   *)
(* through failing batches, a stop and a dying process; a verdict is what  *)
(* the prints say, and is not taken back; bars miss late prints only, and  *)
(* never shrink; a change of mode is dated by the boot that made it, and a *)
(* kill stays.                                                             *)
(*                                                                         *)
(* The invariants are stacked: WriterInv is about the writer alone, TapeInv*)
(* needs it, and those of the validator (VerdictsInv) and the aggregator   *)
(* (BarsInv, RunsInv, CaughtInv) need TapeInv, of which TapeGrows says what*)
(* a step may do to it.                                                    *)
(***************************************************************************)
EXTENDS PeriodicJobs, FiniteSetTheorems, WellFoundedInduction, TLAPS

-----------------------------------------------------------------------------
(* Sequences of numbers, by what is in them.                               *)

Ascending(s) == \A i, j \in 1 .. Len(s) : i < j => s[i] < s[j]
Below(s, t) == \A i \in 1 .. Len(s), j \in 1 .. Len(t) : s[i] < t[j]

LEMMA Elements ==
    ASSUME NEW s \in Seq(Nat)
    PROVE  ToSet(s) = {s[i] : i \in 1 .. Len(s)}
<1>1. DOMAIN s = 1 .. Len(s)
  OBVIOUS
<1> QED
  BY <1>1 DEF ToSet

\* Sequences one below the other share nothing.
LEMMA Apart ==
    ASSUME NEW s \in Seq(Nat), NEW t \in Seq(Nat), Below(s, t)
    PROVE  ToSet(s) \cap ToSet(t) = {}
<1> SUFFICES ASSUME NEW i \in 1 .. Len(s), NEW j \in 1 .. Len(t), s[i] = t[j] PROVE FALSE
  <2>1. ToSet(s) = {s[k] : k \in 1 .. Len(s)} /\ ToSet(t) = {t[k] : k \in 1 .. Len(t)}
    BY Elements
  <2> QED
    BY <2>1
<1>1. s[i] < t[j] /\ s[i] \in Nat
  BY DEF Below
<1> QED
  BY <1>1

\* A sequence that is cut in two.
LEMMA Cut ==
    ASSUME NEW s \in Seq(Nat), NEW n \in 0 .. Len(s)
    PROVE  LET a == SubSeq(s, 1, n)
               b == SubSeq(s, n + 1, Len(s))
           IN  /\ a \in Seq(Nat) /\ b \in Seq(Nat)
               /\ ToSet(a) \cup ToSet(b) = ToSet(s)
               /\ Ascending(s) => Ascending(a) /\ Ascending(b) /\ Below(a, b) /\ ToSet(a) \cap ToSet(b) = {}
               /\ \A t \in Seq(Nat) : Below(t, s) => Below(t, a) /\ Below(t, b)
<1> DEFINE a == SubSeq(s, 1, n)
           b == SubSeq(s, n + 1, Len(s))
<1>1. a \in Seq(Nat) /\ Len(a) = n /\ \A i \in 1 .. n : a[i] = s[i]
  OBVIOUS
<1>2. b \in Seq(Nat) /\ Len(b) = Len(s) - n /\ \A i \in 1 .. Len(s) - n : b[i] = s[n + i]
  OBVIOUS
<1> HIDE DEF a, b
<1>0. Len(s) \in Nat /\ n \in Nat /\ n <= Len(s)
  OBVIOUS
<1>3. \A i \in 1 .. Len(s) : i \in 1 .. n \/ (i - n \in 1 .. Len(s) - n /\ n + (i - n) = i)
  OBVIOUS
<1>4. ToSet(s) \subseteq ToSet(a) \cup ToSet(b)
  <2> SUFFICES ASSUME NEW i \in 1 .. Len(s) PROVE s[i] \in ToSet(a) \cup ToSet(b)
    BY Elements
  <2>1. CASE i \in 1 .. n
    BY <2>1, <1>1, Elements
  <2>2. CASE i - n \in 1 .. Len(s) - n /\ n + (i - n) = i
    <3>1. b[i - n] = s[i]
      BY <2>2, <1>2
    <3> QED
      BY <3>1, <2>2, <1>2, Elements
  <2> QED
    BY <2>1, <2>2, <1>3
<1>5. ToSet(a) \subseteq ToSet(s) /\ ToSet(b) \subseteq ToSet(s)
  <2>1. ASSUME NEW i \in 1 .. Len(a) PROVE a[i] \in ToSet(s)
    <3>1. i \in 1 .. Len(s) /\ a[i] = s[i]
      BY <1>1
    <3> QED
      BY <3>1, Elements
  <2>2. ASSUME NEW i \in 1 .. Len(b) PROVE b[i] \in ToSet(s)
    <3>1. n + i \in 1 .. Len(s) /\ b[i] = s[n + i]
      BY <1>2
    <3> QED
      BY <3>1, Elements
  <2>3. ToSet(a) = {a[i] : i \in 1 .. Len(a)} /\ ToSet(b) = {b[i] : i \in 1 .. Len(b)}
    BY <1>1, <1>2, Elements
  <2> QED
    BY <2>1, <2>2, <2>3
<1>6. Ascending(s) => Ascending(a) /\ Ascending(b) /\ Below(a, b)
  <2> SUFFICES ASSUME Ascending(s) PROVE Ascending(a) /\ Ascending(b) /\ Below(a, b)
    OBVIOUS
  <2>1. \A i, j \in 1 .. Len(s) : i < j => s[i] < s[j]
    BY DEF Ascending
  <2>2. Ascending(a)
    <3> SUFFICES ASSUME NEW i \in 1 .. Len(a), NEW j \in 1 .. Len(a), i < j PROVE a[i] < a[j]
      BY DEF Ascending
    <3>1. i \in 1 .. Len(s) /\ j \in 1 .. Len(s) /\ a[i] = s[i] /\ a[j] = s[j]
      BY <1>0, <1>1
    <3> QED
      BY <3>1, <2>1
  <2>3. Ascending(b)
    <3> SUFFICES ASSUME NEW i \in 1 .. Len(b), NEW j \in 1 .. Len(b), i < j PROVE b[i] < b[j]
      BY DEF Ascending
    <3>1. n + i \in 1 .. Len(s) /\ n + j \in 1 .. Len(s) /\ n + i < n + j
      BY <1>2
    <3> QED
      BY <3>1, <2>1, <1>2
  <2>4. Below(a, b)
    <3> SUFFICES ASSUME NEW i \in 1 .. Len(a), NEW j \in 1 .. Len(b) PROVE a[i] < b[j]
      BY DEF Below
    <3>1. i \in 1 .. Len(s) /\ n + j \in 1 .. Len(s) /\ i < n + j
      <4>1. Len(a) = n /\ Len(b) = Len(s) - n
        BY <1>1, <1>2
      <4> QED
        BY <4>1, <1>0
    <3> QED
      BY <3>1, <2>1, <1>1, <1>2
  <2> QED
    BY <2>2, <2>3, <2>4
<1>7. Below(a, b) => ToSet(a) \cap ToSet(b) = {}
  BY <1>1, <1>2, Apart
<1>8. ASSUME NEW t \in Seq(Nat), Below(t, s) PROVE Below(t, a) /\ Below(t, b)
  <2>1. \A i \in 1 .. Len(t), j \in 1 .. Len(s) : t[i] < s[j]
    BY <1>8 DEF Below
  <2>2. \A j \in 1 .. Len(b) : n + j \in 1 .. Len(s) /\ b[j] = s[n + j]
    BY <1>2
  <2>3. \A j \in 1 .. Len(a) : j \in 1 .. Len(s) /\ a[j] = s[j]
    BY <1>1
  <2> QED
    BY <2>1, <2>2, <2>3 DEF Below
<1> QED
  BY <1>1, <1>2, <1>4, <1>5, <1>6, <1>7, <1>8 DEF a, b

\* Two sequences that are put one after the other.
LEMMA Joined ==
    ASSUME NEW s \in Seq(Nat), NEW t \in Seq(Nat)
    PROVE  /\ s \o t \in Seq(Nat)
           /\ ToSet(s \o t) = ToSet(s) \cup ToSet(t)
           /\ Ascending(s) /\ Ascending(t) /\ Below(s, t) => Ascending(s \o t)
           /\ \A u \in Seq(Nat) : Below(s, u) /\ Below(t, u) => Below(s \o t, u)
<1> DEFINE c == s \o t
<1>1. /\ c \in Seq(Nat) /\ Len(c) = Len(s) + Len(t)
      /\ \A i \in 1 .. Len(s) : c[i] = s[i]
      /\ \A i \in 1 .. Len(t) : c[Len(s) + i] = t[i]
  OBVIOUS
<1> HIDE DEF c
<1>0. Len(s) \in Nat /\ Len(t) \in Nat
  OBVIOUS
<1>2. \A i \in 1 .. Len(c) : i \in 1 .. Len(s) \/ (i - Len(s) \in 1 .. Len(t) /\ Len(s) + (i - Len(s)) = i)
  <2>1. Len(c) = Len(s) + Len(t)
    BY <1>1
  <2> QED
    BY <1>0, <2>1
<1>3. \A i \in 1 .. Len(c) :
        (i \in 1 .. Len(s) /\ c[i] = s[i]) \/ (i - Len(s) \in 1 .. Len(t) /\ c[i] = t[i - Len(s)])
  <2> SUFFICES ASSUME NEW i \in 1 .. Len(c)
               PROVE  (i \in 1 .. Len(s) /\ c[i] = s[i]) \/ (i - Len(s) \in 1 .. Len(t) /\ c[i] = t[i - Len(s)])
    OBVIOUS
  <2>1. CASE i \in 1 .. Len(s)
    <3>1. c[i] = s[i]
      BY <2>1, <1>1, Zenon
    <3> QED
      BY <2>1, <3>1
  <2>2. CASE i - Len(s) \in 1 .. Len(t) /\ Len(s) + (i - Len(s)) = i
    <3> DEFINE k == i - Len(s)
    <3>1. k \in 1 .. Len(t) /\ Len(s) + k = i
      BY <2>2
    <3> HIDE DEF k
    <3>2. c[Len(s) + k] = t[k]
      BY <3>1, <1>1
    <3>3. c[i] = t[k]
      BY <3>1, <3>2
    <3> QED
      BY <3>3, <2>2 DEF k
  <2> QED
    BY <2>1, <2>2, <1>2
<1>4. ToSet(c) = ToSet(s) \cup ToSet(t)
  <2>0. /\ ToSet(c) = {c[i] : i \in 1 .. Len(c)}
        /\ ToSet(s) = {s[i] : i \in 1 .. Len(s)}
        /\ ToSet(t) = {t[i] : i \in 1 .. Len(t)}
    BY <1>1, Elements
  <2>1. ToSet(c) \subseteq ToSet(s) \cup ToSet(t)
    BY <2>0, <1>3
  <2>2. ASSUME NEW i \in 1 .. Len(s) PROVE s[i] \in ToSet(c)
    <3>1. i \in 1 .. Len(c) /\ c[i] = s[i]
      BY <1>0, <1>1
    <3> QED
      BY <3>1, <2>0
  <2>3. ASSUME NEW i \in 1 .. Len(t) PROVE t[i] \in ToSet(c)
    <3>1. Len(s) + i \in 1 .. Len(c) /\ c[Len(s) + i] = t[i]
      BY <1>0, <1>1
    <3> QED
      BY <3>1, <2>0
  <2> QED
    BY <2>0, <2>1, <2>2, <2>3
<1>5. Ascending(s) /\ Ascending(t) /\ Below(s, t) => Ascending(c)
  <2> SUFFICES ASSUME Ascending(s), Ascending(t), Below(s, t),
                      NEW i \in 1 .. Len(c), NEW j \in 1 .. Len(c), i < j
               PROVE  c[i] < c[j]
    BY DEF Ascending
  <2>1. CASE j \in 1 .. Len(s)
    <3>1. i \in 1 .. Len(s)
      BY <2>1
    <3> QED
      BY <3>1, <2>1, <1>1 DEF Ascending
  <2>2. CASE i \in 1 .. Len(s) /\ j - Len(s) \in 1 .. Len(t) /\ c[j] = t[j - Len(s)]
    BY <2>2, <1>1 DEF Below
  <2>3. CASE /\ i - Len(s) \in 1 .. Len(t) /\ c[i] = t[i - Len(s)]
             /\ j - Len(s) \in 1 .. Len(t) /\ c[j] = t[j - Len(s)]
    <3>1. i - Len(s) < j - Len(s)
      BY <1>0
    <3> QED
      BY <3>1, <2>3 DEF Ascending
  <2> QED
    BY <2>1, <2>2, <2>3, <1>3
<1>6. \A u \in Seq(Nat) : Below(s, u) /\ Below(t, u) => Below(c, u)
  BY <1>3 DEF Below
<1> QED
  BY <1>1, <1>4, <1>5, <1>6 DEF c

-----------------------------------------------------------------------------
(* The inductive invariant of the writer.                                  *)

Types ==
    /\ submitted \in Nat
    /\ table \in Seq(Nat) /\ batch \in Seq(Nat) /\ buffer \in Seq(Nat)

\* TapeInOrder, by the pieces of the trail.
InOrder ==
    /\ Ascending(table) /\ Ascending(batch) /\ Ascending(buffer)
    /\ Below(table, batch) /\ Below(table, buffer) /\ Below(batch, buffer)

\* NothingUnaccounted, by the pieces of the trail.
Accounted ==
    /\ ToSet(table) \cup ToSet(batch) \cup ToSet(buffer) \cup dropped \cup lost = Events
    /\ dropped \cap lost = {}
    /\ (ToSet(table) \cup ToSet(batch) \cup ToSet(buffer)) \cap (dropped \cup lost) = {}

\* Only one of the two that take a batch is at it: whoever takes one finds
\* none that is still being written.
OneBatch ==
    /\ loop \in {"wait", "flush", "ended"} /\ stopping \in {"no", "set", "final", "done"}
    /\ stopping \in {"final", "done"} => loop = "ended"
    /\ batch # <<>> => loop = "flush" \/ stopping = "final"

WriterInv == Types /\ InOrder /\ Accounted /\ OneBatch

LEMMA EmptySequence ==
    /\ <<>> \in Seq(Nat) /\ ToSet(<<>>) = {} /\ Ascending(<<>>)
    /\ \A s \in Seq(Nat) : Below(s, <<>>) /\ Below(<<>>, s)
<1>1. <<>> \in Seq(Nat) /\ Len(<<>>) = 0 /\ 1 .. 0 = {}
  OBVIOUS
<1>2. ToSet(<<>>) = {<<>>[i] : i \in 1 .. Len(<<>>)}
  BY <1>1, Elements
<1> QED
  BY <1>1, <1>2 DEF Ascending, Below

LEMMA WriterInitially == WriterInit => WriterInv
<1> SUFFICES ASSUME WriterInit PROVE WriterInv
  OBVIOUS
<1>1. Events = {}
  BY DEF WriterInit, Events
<1>2. Types /\ InOrder /\ OneBatch
  BY EmptySequence DEF WriterInit, Types, InOrder, OneBatch
<1>3. Accounted
  BY <1>1, EmptySequence DEF WriterInit, Accounted
<1> QED
  BY <1>2, <1>3 DEF WriterInv

\* The invariant is about the writer's variables only.
LEMMA WriterIdles ==
    ASSUME WriterInv, UNCHANGED writerVars PROVE WriterInv'
<1>1. Types' /\ InOrder' /\ OneBatch'
  BY DEF WriterInv, writerVars, Types, InOrder, OneBatch
<1>2. Events' = Events
  BY DEF writerVars, Events
<1>3. Accounted'
  BY <1>2 DEF WriterInv, writerVars, Accounted
<1> QED
  BY <1>1, <1>3 DEF WriterInv

\* A batch is taken when there is none.
LEMMA BatchTaken ==
    ASSUME WriterInv, batch = <<>>, TakeBatch,
           UNCHANGED <<table, submitted, dropped, lost>>
    PROVE  Types' /\ InOrder' /\ Accounted' /\ (buffer = <<>> => batch' = <<>>)
<1> DEFINE n == Smaller(BatchSize, Len(buffer))
<1>1. buffer \in Seq(Nat) /\ table \in Seq(Nat) /\ Len(buffer) \in Nat
  BY DEF WriterInv, Types
<1>2. n \in 0 .. Len(buffer)
  BY <1>1, WriterAssumption DEF Smaller
<1>3. batch' = SubSeq(buffer, 1, n) /\ buffer' = SubSeq(buffer, n + 1, Len(buffer))
  BY DEF TakeBatch
<1> HIDE DEF n
<1>4. /\ batch' \in Seq(Nat) /\ buffer' \in Seq(Nat)
      /\ ToSet(batch') \cup ToSet(buffer') = ToSet(buffer)
      /\ Ascending(batch') /\ Ascending(buffer') /\ Below(batch', buffer')
      /\ Below(table, batch') /\ Below(table, buffer')
  BY <1>1, <1>2, <1>3, Cut DEF WriterInv, InOrder
<1>5. Types' /\ InOrder'
  BY <1>4 DEF WriterInv, Types, InOrder
<1>6. Accounted'
  <2>1. ToSet(batch) = {} /\ Events' = Events
    BY EmptySequence DEF Events
  <2> QED
    BY <1>4, <2>1 DEF WriterInv, Accounted
<1>7. buffer = <<>> => batch' = <<>>
  <2> SUFFICES ASSUME buffer = <<>> PROVE batch' = <<>>
    OBVIOUS
  <2>1. n = 0
    BY <1>2
  <2> QED
    BY <2>1, <1>3
<1> QED
  BY <1>5, <1>6, <1>7

\* A batch is in the table or is lost.
LEMMA BatchEnded ==
    ASSUME WriterInv, EndBatch, UNCHANGED <<buffer, submitted, dropped>>
    PROVE  Types' /\ InOrder' /\ Accounted' /\ batch' = <<>>
<1>1. /\ table \in Seq(Nat) /\ batch \in Seq(Nat) /\ buffer \in Seq(Nat)
      /\ Events' = Events /\ batch' = <<>>
  BY DEF WriterInv, Types, EndBatch, Events
<1>2. CASE table' = table \o batch /\ UNCHANGED lost
  <2>1. /\ table' \in Seq(Nat) /\ ToSet(table') = ToSet(table) \cup ToSet(batch)
        /\ Ascending(table') /\ Below(table', buffer)
    BY <1>1, <1>2, Joined DEF WriterInv, InOrder
  <2>2. Types' /\ InOrder'
    BY <1>1, <2>1, EmptySequence DEF WriterInv, Types, InOrder
  <2>3. Accounted'
    BY <1>1, <1>2, <2>1, EmptySequence DEF WriterInv, Accounted
  <2> QED
    BY <1>1, <2>2, <2>3
<1>3. CASE lost' = lost \cup ToSet(batch) /\ UNCHANGED table
  <2>1. Types' /\ InOrder'
    BY <1>1, <1>3, EmptySequence DEF WriterInv, Types, InOrder
  <2>2. ToSet(batch) \cap dropped = {} /\ ToSet(batch) \cap (ToSet(table) \cup ToSet(buffer)) = {}
    BY <1>1, Apart DEF WriterInv, Accounted, InOrder
  <2>3. Accounted'
    BY <1>1, <1>3, <2>2, EmptySequence DEF WriterInv, Accounted
  <2> QED
    BY <1>1, <2>1, <2>3
<1> QED
  BY <1>2, <1>3 DEF EndBatch

\* A sequence that loses its head or gains an element.
LEMMA Behead ==
    ASSUME NEW s \in Seq(Nat), Len(s) > 0
    PROVE  /\ Tail(s) = SubSeq(s, 2, Len(s)) /\ Head(s) \in Nat
           /\ ToSet(SubSeq(s, 1, 1)) = {Head(s)}
<1>1. Tail(s) = SubSeq(s, 2, Len(s))
  OBVIOUS
<1>2. SubSeq(s, 1, 1) \in Seq(Nat) /\ Len(SubSeq(s, 1, 1)) = 1 /\ SubSeq(s, 1, 1)[1] = s[1]
  OBVIOUS
<1>3. ToSet(SubSeq(s, 1, 1)) = {SubSeq(s, 1, 1)[i] : i \in 1 .. 1}
  BY <1>2, Elements
<1>4. Head(s) = s[1] /\ s[1] \in Nat
  OBVIOUS
<1> QED
  BY <1>1, <1>2, <1>3, <1>4

LEMMA Appended ==
    ASSUME NEW s \in Seq(Nat), NEW e \in Nat
    PROVE  /\ Append(s, e) = s \o <<e>> /\ <<e>> \in Seq(Nat)
           /\ ToSet(<<e>>) = {e} /\ Ascending(<<e>>)
<1>1. Append(s, e) = s \o <<e>>
  OBVIOUS
<1>2. <<e>> \in Seq(Nat) /\ Len(<<e>>) = 1 /\ <<e>>[1] = e
  OBVIOUS
<1>3. ToSet(<<e>>) = {<<e>>[i] : i \in 1 .. 1}
  BY <1>2, Elements
<1> QED
  BY <1>1, <1>2, <1>3 DEF Ascending

\* What is newer than everything in a sequence comes after it.
LEMMA NewestLast ==
    ASSUME NEW s \in Seq(Nat), NEW e \in Nat, \A x \in ToSet(s) : x < e
    PROVE  Below(s, <<e>>)
<1>1. ToSet(s) = {s[i] : i \in 1 .. Len(s)}
  BY Elements
<1>2. Len(<<e>>) = 1 /\ <<e>>[1] = e
  OBVIOUS
<1> QED
  BY <1>1, <1>2 DEF Below

LEMMA SubmitStep == ASSUME WriterInv, Submit PROVE WriterInv'
<1> DEFINE new == submitted + 1
           full == Len(buffer) >= MaxBuffer
           kept == IF full THEN Tail(buffer) ELSE buffer
<1>1. /\ table \in Seq(Nat) /\ batch \in Seq(Nat) /\ buffer \in Seq(Nat)
      /\ submitted \in Nat /\ Len(buffer) \in Nat
  BY DEF WriterInv, Types
<1>2. /\ new \in Nat /\ Events' = Events \cup {new} /\ \A e \in Events : e < new
      /\ submitted' = new
  BY <1>1 DEF Submit, Events
<1>3. /\ kept \in Seq(Nat) /\ Ascending(kept) /\ Below(table, kept) /\ Below(batch, kept)
      /\ ToSet(kept) \subseteq ToSet(buffer)
      /\ \/ ~full /\ ToSet(kept) = ToSet(buffer)
         \/ /\ full /\ ToSet(kept) \cup {Head(buffer)} = ToSet(buffer) /\ Head(buffer) \notin ToSet(kept)
  <2>1. CASE ~full
    BY <1>1, <2>1 DEF WriterInv, InOrder
  <2>2. CASE full
    <3>1. Len(buffer) > 0 /\ 1 \in 0 .. Len(buffer) /\ 1 + 1 = 2
      BY <1>1, <2>2, WriterAssumption
    <3>2. kept = SubSeq(buffer, 2, Len(buffer)) /\ ToSet(SubSeq(buffer, 1, 1)) = {Head(buffer)}
      BY <1>1, <2>2, <3>1, Behead
    <3> HIDE DEF kept
    <3> DEFINE a == SubSeq(buffer, 1, 1)
               b == SubSeq(buffer, 1 + 1, Len(buffer))
    <3>5. /\ b \in Seq(Nat) /\ ToSet(a) \cup ToSet(b) = ToSet(buffer)
          /\ (Ascending(buffer) => Ascending(b) /\ ToSet(a) \cap ToSet(b) = {})
          /\ \A t \in Seq(Nat) : Below(t, buffer) => Below(t, b)
      BY <1>1, <3>1, Cut
    <3>6. b = kept /\ Ascending(buffer)
      BY <3>1, <3>2 DEF WriterInv, InOrder
    <3>3. /\ kept \in Seq(Nat) /\ ToSet(a) \cup ToSet(kept) = ToSet(buffer)
          /\ Ascending(kept) /\ ToSet(a) \cap ToSet(kept) = {}
          /\ \A t \in Seq(Nat) : Below(t, buffer) => Below(t, kept)
      BY <3>5, <3>6
    <3>4. Below(table, kept) /\ Below(batch, kept)
      BY <1>1, <3>3 DEF WriterInv, InOrder
    <3> QED
      BY <2>2, <3>2, <3>3, <3>4
  <2> QED
    BY <2>1, <2>2
<1>4. buffer' = Append(kept, new) /\ UNCHANGED <<table, batch, lost, loop, stopping>>
  BY <1>2 DEF Submit
<1>5. dropped' = IF full THEN dropped \cup {Head(buffer)} ELSE dropped
  BY DEF Submit
<1> HIDE DEF new, full, kept
<1>6. ToSet(table) \subseteq Events /\ ToSet(batch) \subseteq Events /\ ToSet(buffer) \subseteq Events
  BY DEF WriterInv, Accounted
<1>7. Below(table, <<new>>) /\ Below(batch, <<new>>) /\ Below(kept, <<new>>)
  BY <1>1, <1>2, <1>3, <1>6, NewestLast
<1>8. /\ buffer' \in Seq(Nat) /\ ToSet(buffer') = ToSet(kept) \cup {new} /\ Ascending(buffer')
  <2>1. buffer' = kept \o <<new>> /\ <<new>> \in Seq(Nat) /\ ToSet(<<new>>) = {new} /\ Ascending(<<new>>)
    BY <1>2, <1>3, <1>4, Appended
  <2> QED
    BY <1>3, <1>7, <2>1, Joined
<1>9. ASSUME NEW t \in Seq(Nat), Below(t, kept), Below(t, <<new>>) PROVE Below(t, buffer')
  <2>1. buffer' = Append(kept, new) /\ Len(kept) \in Nat /\ Len(buffer') = Len(kept) + 1
    BY <1>2, <1>3, <1>4
  <2>2. \A j \in 1 .. Len(buffer') : (j \in 1 .. Len(kept) /\ buffer'[j] = kept[j]) \/ buffer'[j] = new
    BY <1>2, <1>3, <2>1
  <2>3. 1 \in 1 .. Len(<<new>>) /\ <<new>>[1] = new
    OBVIOUS
  <2>4. \A i \in 1 .. Len(t) : t[i] < new
    BY <1>9, <2>3 DEF Below
  <2>5. \A i \in 1 .. Len(t), j \in 1 .. Len(kept) : t[i] < kept[j]
    BY <1>9 DEF Below
  <2> QED
    BY <2>2, <2>4, <2>5 DEF Below
<1>10. Types' /\ InOrder'
  BY <1>1, <1>2, <1>3, <1>4, <1>7, <1>8, <1>9 DEF WriterInv, Types, InOrder
<1>11. Accounted'
  <2>1. new \notin Events /\ dropped \subseteq Events /\ lost \subseteq Events
    BY <1>2 DEF WriterInv, Accounted
  <2>2. CASE ~full
    BY <1>2, <1>3, <1>4, <1>5, <1>6, <1>8, <2>1, <2>2 DEF WriterInv, Accounted
  <2>3. CASE full
    <3>1. Head(buffer) \in ToSet(buffer) /\ Head(buffer) \notin ToSet(table) \cup ToSet(batch)
      BY <1>1, <1>3, <2>3, Apart DEF WriterInv, InOrder
    <3> QED
      BY <1>2, <1>3, <1>4, <1>5, <1>6, <1>8, <2>1, <2>3, <3>1 DEF WriterInv, Accounted
  <2> QED
    BY <2>2, <2>3
<1>12. OneBatch'
  BY <1>4 DEF WriterInv, OneBatch
<1> QED
  BY <1>10, <1>11, <1>12 DEF WriterInv

LEMMA WriteStep ==
    ASSUME WriterInv, Flush \/ Flushed \/ Stop \/ FinalFlush \/ Stopped PROVE WriterInv'
<1>0. OneBatch
  BY DEF WriterInv
<1>1. CASE Flush
  <2>1. batch = <<>>
    BY <1>0, <1>1 DEF Flush, OneBatch
  <2>2. TakeBatch /\ UNCHANGED <<table, submitted, dropped, lost>>
    BY <1>1 DEF Flush
  <2>3. Types' /\ InOrder' /\ Accounted' /\ (buffer = <<>> => batch' = <<>>)
    BY <2>1, <2>2, BatchTaken
  <2>4. OneBatch'
    BY <1>0, <1>1, <2>3 DEF Flush, OneBatch
  <2> QED
    BY <2>3, <2>4 DEF WriterInv
<1>2. CASE Flushed
  <2>1. Types' /\ InOrder' /\ Accounted' /\ batch' = <<>>
    BY <1>2, BatchEnded DEF Flushed
  <2>2. OneBatch'
    BY <1>0, <1>2, <2>1 DEF Flushed, OneBatch
  <2> QED
    BY <2>1, <2>2 DEF WriterInv
<1>3. CASE Stop
  <2>1. Types' /\ InOrder' /\ Events' = Events
    BY <1>3 DEF Stop, WriterInv, Types, InOrder, Events
  <2>2. Accounted'
    BY <1>3, <2>1 DEF Stop, WriterInv, Accounted
  <2>3. OneBatch'
    BY <1>0, <1>3 DEF Stop, OneBatch
  <2> QED
    BY <2>1, <2>2, <2>3 DEF WriterInv
<1>4. CASE FinalFlush
  <2>1. batch = <<>>
    BY <1>0, <1>4 DEF FinalFlush, OneBatch
  <2>2. TakeBatch /\ UNCHANGED <<table, submitted, dropped, lost>>
    BY <1>4 DEF FinalFlush
  <2>3. Types' /\ InOrder' /\ Accounted' /\ (buffer = <<>> => batch' = <<>>)
    BY <2>1, <2>2, BatchTaken
  <2>4. OneBatch'
    BY <1>0, <1>4, <2>3 DEF FinalFlush, OneBatch
  <2> QED
    BY <2>3, <2>4 DEF WriterInv
<1>5. CASE Stopped
  <2>1. Types' /\ InOrder' /\ Accounted' /\ batch' = <<>>
    BY <1>5, BatchEnded DEF Stopped
  <2>2. OneBatch'
    BY <1>0, <1>5, <2>1 DEF Stopped, OneBatch
  <2> QED
    BY <2>1, <2>2 DEF WriterInv
<1> QED
  BY <1>1, <1>2, <1>3, <1>4, <1>5

\* A dying process: its batch is in the table or is not.
LEMMA DieStep == ASSUME WriterInv, Die PROVE WriterInv'
<1>1. /\ table \in Seq(Nat) /\ batch \in Seq(Nat) /\ buffer \in Seq(Nat)
      /\ Events' = Events /\ buffer' = <<>> /\ batch' = <<>> /\ UNCHANGED <<submitted, dropped>>
      /\ lost' = lost \cup ToSet(buffer) \cup (ToSet(batch) \ ToSet(table'))
  BY DEF WriterInv, Types, Die, Events
<1>2. /\ ToSet(table) \cap ToSet(batch) = {} /\ ToSet(table) \cap ToSet(buffer) = {}
      /\ ToSet(batch) \cap ToSet(buffer) = {}
  BY <1>1, Apart DEF WriterInv, InOrder
<1>3. /\ table' \in Seq(Nat) /\ Ascending(table')
      /\ ToSet(table') = ToSet(table) \/ ToSet(table') = ToSet(table) \cup ToSet(batch)
  <2>1. CASE table' = table
    BY <1>1, <2>1 DEF WriterInv, InOrder
  <2>2. CASE table' = table \o batch
    BY <1>1, <2>2, Joined DEF WriterInv, InOrder
  <2> QED
    BY <2>1, <2>2 DEF Die
<1>4. Types' /\ InOrder'
  BY <1>1, <1>3, EmptySequence DEF WriterInv, Types, InOrder
<1>5. Accounted'
  BY <1>1, <1>2, <1>3, EmptySequence DEF WriterInv, Accounted
<1>6. OneBatch'
  BY <1>1 DEF Die, OneBatch
<1> QED
  BY <1>4, <1>5, <1>6 DEF WriterInv

LEMMA WriterStays == WriterInv /\ [Next]_vars => WriterInv'
<1> SUFFICES ASSUME WriterInv, [Next]_vars PROVE WriterInv'
  OBVIOUS
<1>1. CASE WriterStep
  BY <1>1, SubmitStep, WriteStep DEF WriterStep, Arrive, Write
<1>2. CASE AggregatorStep
  BY <1>2, WriterIdles DEF AggregatorStep
<1>3. CASE RetentionStep
  BY <1>3, WriterIdles DEF RetentionStep
<1>4. CASE ValidatorStep
  BY <1>4, WriterIdles DEF ValidatorStep
<1>5. CASE SleeveStep
  BY <1>5, WriterIdles DEF SleeveStep
<1>6. CASE TimePasses
  BY <1>6, WriterIdles DEF TimePasses, Tick
<1>7. CASE Reboot
  BY <1>7, DieStep DEF Reboot
<1>8. CASE UNCHANGED vars
  BY <1>8, WriterIdles DEF vars
<1> QED
  BY <1>1, <1>2, <1>3, <1>4, <1>5, <1>6, <1>7, <1>8 DEF Next

LEMMA WriterAlways == Spec => []WriterInv
<1>1. Init => WriterInv
  BY WriterInitially DEF Init
<1> QED
  BY <1>1, WriterStays, PTL DEF Spec

-----------------------------------------------------------------------------
(* What the writer promises.                                               *)

\* The tape keeps the order of submission: a full buffer, a failing batch, a
\* stop and a dying process take events out, and never swap two.
THEOREM TapeStaysInOrder == Spec => []TapeInOrder
<1>1. WriterInv => TapeInOrder
  <2> SUFFICES ASSUME WriterInv PROVE TapeInOrder
    OBVIOUS
  <2>1. table \in Seq(Nat) /\ batch \in Seq(Nat) /\ buffer \in Seq(Nat)
    BY DEF WriterInv, Types
  <2>2. table \o batch \in Seq(Nat) /\ Ascending(table \o batch) /\ Below(table \o batch, buffer)
    BY <2>1, Joined DEF WriterInv, InOrder
  <2>3. Trail \in Seq(Nat) /\ Ascending(Trail)
    BY <2>1, <2>2, Joined DEF WriterInv, InOrder, Trail
  <2>4. ASSUME NEW i \in 1 .. Len(Trail) - 1 PROVE Trail[i] < Trail[i + 1]
    <3>1. Len(Trail) \in Nat
      BY <2>3
    <3>2. i \in 1 .. Len(Trail) /\ i + 1 \in 1 .. Len(Trail) /\ i < i + 1
      BY <3>1
    <3> QED
      BY <2>3, <3>2 DEF Ascending
  <2> QED
    BY <2>4 DEF TapeInOrder
<1> QED
  BY <1>1, WriterAlways, PTL

\* Every event submitted is in one place: on its way to the table or in it,
\* dropped and counted, or lost with a failed batch or with the process.
THEOREM EveryEventIsAccountedFor == Spec => []NothingUnaccounted
<1>1. WriterInv => NothingUnaccounted
  <2> SUFFICES ASSUME WriterInv PROVE NothingUnaccounted
    OBVIOUS
  <2>1. table \in Seq(Nat) /\ batch \in Seq(Nat) /\ buffer \in Seq(Nat)
    BY DEF WriterInv, Types
  <2>2. table \o batch \in Seq(Nat) /\ ToSet(table \o batch) = ToSet(table) \cup ToSet(batch)
    BY <2>1, Joined
  <2>3. ToSet(Trail) = ToSet(table) \cup ToSet(batch) \cup ToSet(buffer)
    BY <2>1, <2>2, Joined DEF Trail
  <2> QED
    BY <2>3 DEF WriterInv, Accounted, NothingUnaccounted
<1> QED
  BY <1>1, WriterAlways, PTL

-----------------------------------------------------------------------------
(* Verdicts on fills.                                                      *)

FillsInv == now \in Times /\ fills \in Seq(Fill) /\ Len(fills) <= MaxFills

FinalStep ==
    \A i \in DOMAIN fills :
        fills[i].flag \in {"implausible", "picked_off"} => fills'[i].flag = fills[i].flag

LEMMA ClockAdvances == now \in Times /\ [Next]_vars => now' \in Times /\ now \in Nat /\ now' \in {now, now + 1}
BY TapeAssumption DEF Times, Next, WriterStep, Arrive, Write, Committed, AggregatorStep, RetentionStep, Sweep, SweepBars,
       ValidatorStep, SleeveStep, TimePasses, Tick, Reboot, vars, tapeVars

\* Only the validator's steps change a fill.
LEMMA OthersLeaveFills == [Next]_vars => ValidatorStep \/ UNCHANGED fills
BY DEF Next, WriterStep, AggregatorStep, RetentionStep, SleeveStep, TimePasses, Reboot, vars

LEMMA FillsStep ==
    ASSUME FillsInv, ValidatorStep PROVE fills' \in Seq(Fill) /\ Len(fills') <= MaxFills /\ FinalStep
<1>0. now \in Times /\ fills \in Seq(Fill) /\ DOMAIN fills = 1 .. Len(fills) /\ Len(fills) \in Nat /\ MaxFills \in Nat
  BY ValidatorAssumption DEF FillsInv
<1>1. CASE NewFill
  <2>1. PICK o \in Orders : fills' = Append(fills, [ts |-> now, side |-> o.side, kind |-> o.kind, flag |-> o.flag,
                                                 validated |-> FALSE, checked |-> FALSE])
    BY <1>1 DEF NewFill
  <2> DEFINE new == [ts |-> now, side |-> o.side, kind |-> o.kind, flag |-> o.flag,
                     validated |-> FALSE, checked |-> FALSE]
  <2>2. o \in [side : {"buy", "sell"}, kind : {"taker", "maker", "missed"},
               flag : {"clean", "thin_market", "would_have_moved_market"}]
    BY ValidatorAssumption
  <2>3. new \in Fill
    BY <1>0, <2>2 DEF Fill, Flags
  <2> HIDE DEF new
  <2>4. fills' = Append(fills, new)
    BY <2>1 DEF new
  <2>6. Len(fills) < MaxFills
    BY <1>1 DEF NewFill
  <2>5. fills' \in Seq(Fill) /\ Len(fills') = Len(fills) + 1 /\ \A i \in 1 .. Len(fills) : fills'[i] = fills[i]
    BY <1>0, <2>3, <2>4
  <2> QED
    BY <1>0, <2>5, <2>6 DEF FinalStep
<1>2. ASSUME NEW i \in 1 .. MaxFills, Validate(i) PROVE fills' \in Seq(Fill) /\ Len(fills') <= MaxFills /\ FinalStep
  <2> DEFINE f == fills[i]
             g == [f EXCEPT !.flag = IF Implausible(f, OnTape) THEN "implausible" ELSE "clean", !.validated = TRUE]
  <2>1. i \in DOMAIN fills /\ f.flag = "clean" /\ f \in Fill
    BY <1>0, <1>2 DEF Validate, IsTentative
  <2>2. g \in Fill
    BY <2>1 DEF Fill, Flags
  <2>3. fills' = [fills EXCEPT ![i] = g]
    BY <1>2 DEF Validate
  <2> HIDE DEF g
  <2>4. fills' \in Seq(Fill) /\ Len(fills') = Len(fills) /\ \A j \in DOMAIN fills : j # i => fills'[j] = fills[j]
    BY <1>0, <2>1, <2>2, <2>3
  <2> QED
    BY <2>1, <2>4 DEF FinalStep, FillsInv
<1>3. ASSUME NEW i \in 1 .. MaxFills, CheckAdverse(i) PROVE fills' \in Seq(Fill) /\ Len(fills') <= MaxFills /\ FinalStep
  <2> DEFINE f == fills[i]
             g == [f EXCEPT !.flag = IF Adverse(f, OnTape) THEN "picked_off" ELSE "clean", !.checked = TRUE]
  <2>1. i \in DOMAIN fills /\ f.flag \in {"clean", "thin_market"} /\ f \in Fill
    BY <1>0, <1>3 DEF CheckAdverse, IsUnchecked
  <2>2. g \in Fill
    BY <2>1 DEF Fill, Flags
  <2>3. fills' = [fills EXCEPT ![i] = g]
    BY <1>3 DEF CheckAdverse
  <2> HIDE DEF g
  <2>4. fills' \in Seq(Fill) /\ Len(fills') = Len(fills) /\ \A j \in DOMAIN fills : j # i => fills'[j] = fills[j]
    BY <1>0, <2>1, <2>2, <2>3
  <2> QED
    BY <2>1, <2>4 DEF FinalStep, FillsInv
<1> QED
  BY <1>1, <1>2, <1>3 DEF ValidatorStep, ValidatorNext

LEMMA FillsAlways == Spec => []FillsInv
<1>1. Init => FillsInv
  BY TapeAssumption, ValidatorAssumption DEF Init, TapeInit, ValidatorInit, FillsInv, Times
<1>2. FillsInv /\ [Next]_vars => FillsInv'
  BY ClockAdvances, OthersLeaveFills, FillsStep DEF FillsInv
<1> QED
  BY <1>1, <1>2, PTL DEF Spec

\* A verdict is not taken back: neither pass looks at a row again that either
\* of them has found implausible or picked off.
THEOREM VerdictsAreFinal == Spec => FlagsAreFinal
<1>1. FillsInv /\ [Next]_vars => [FinalStep]_fills
  BY OthersLeaveFills, FillsStep
<1> QED
  BY <1>1, FillsAlways, PTL DEF Spec, FlagsAreFinal, FinalStep

-----------------------------------------------------------------------------
(* The row of a sleeve.                                                    *)

UpsertRow == [ts : Nat, mode : Modes]

\* A row comes of an upsert.
SleeveInv ==
    /\ now \in Times /\ upserts \in Seq(UpsertRow) /\ mode \in Modes
    /\ sleeve = NoSleeve => upserts = <<>>
    /\ sleeve # NoSleeve =>
          sleeve \in SleeveRow /\ sleeve.started_at <= sleeve.last_mode_change_at /\ sleeve.last_mode_change_at <= now
    /\ ChangeOfModeIsDated

\* Only a boot writes the row.
LEMMA OthersLeaveTheRow == [Next]_vars => Reboot \/ UNCHANGED <<mode, sleeve, upserts>>
BY DEF Next, WriterStep, AggregatorStep, RetentionStep, ValidatorStep, SleeveStep, Moves, Snapshot, Emits,
       Replayed, TimePasses, promotionVars, vars

LEMMA BootStep ==
    ASSUME SleeveInv, NEW m \in Modes, Boots(m), now' = now PROVE SleeveInv'
<1>0. /\ now \in Times /\ now \in Nat
      /\ upserts \in Seq(UpsertRow) /\ Len(upserts) \in Nat /\ DOMAIN upserts = 1 .. Len(upserts)
  BY TapeAssumption DEF SleeveInv, Times
<1>1. mode' \in Modes
  BY DEF Boots
<1>2. CASE UNCHANGED <<sleeve, upserts>>
  <2>1. ChangeOfModeIsDated'
    BY <1>2 DEF SleeveInv, ChangeOfModeIsDated
  <2> QED
    BY <1>1, <1>2, <2>1 DEF SleeveInv
<1>3. CASE UpsertSleeve(m) /\ upserts' = Append(upserts, [ts |-> now, mode |-> m])
  <2> DEFINE new == [ts |-> now, mode |-> m]
             n == Len(upserts) + 1
  <2>1. new \in UpsertRow /\ new.ts = now /\ new.mode = m
    BY <1>0 DEF UpsertRow
  <2> HIDE DEF new
  <2>2. upserts' = Append(upserts, new)
    BY <1>3 DEF new
  <2>3. /\ upserts' \in Seq(UpsertRow) /\ DOMAIN upserts' = 1 .. n /\ upserts'[n] = new
        /\ \A i \in 1 .. Len(upserts) : upserts'[i] = upserts[i]
    BY <1>0, <2>1, <2>2
  <2>4. /\ sleeve' \in SleeveRow /\ sleeve'.mode = m
        /\ sleeve'.started_at <= sleeve'.last_mode_change_at /\ sleeve'.last_mode_change_at <= now
    <3>1. CASE sleeve = NoSleeve
      BY <1>0, <1>3, <3>1 DEF UpsertSleeve, SleeveRow
    <3>2. CASE sleeve # NoSleeve
      <4>1. /\ sleeve \in SleeveRow /\ sleeve.started_at <= sleeve.last_mode_change_at
            /\ sleeve.last_mode_change_at <= now
        BY <3>2 DEF SleeveInv
      <4>2. /\ sleeve' \in SleeveRow /\ sleeve'.mode = m /\ sleeve'.started_at = sleeve.started_at
            /\ sleeve'.last_mode_change_at \in {now, sleeve.last_mode_change_at}
        BY <1>0, <1>3, <3>2, <4>1 DEF UpsertSleeve, SleeveRow
      <4> QED
        BY <1>0, <4>1, <4>2 DEF SleeveRow
    <3> QED
      BY <3>1, <3>2
  <2>5. sleeve' # NoSleeve
    BY <2>4, PromotionAssumption
  <2>6. ChangeOfModeIsDated'
    <3>1. CASE sleeve = NoSleeve
      <4>1. n = 1 /\ sleeve'.last_mode_change_at = now
        BY <1>3, <3>1 DEF UpsertSleeve, SleeveInv
      <4>2. \A j \in DOMAIN upserts' : j = 1
        BY <2>3, <4>1
      <4> QED
        BY <2>1, <2>3, <2>4, <4>1, <4>2 DEF ChangeOfModeIsDated
    <3>2. CASE sleeve # NoSleeve /\ sleeve.mode = m
      <4>1. sleeve'.last_mode_change_at = sleeve.last_mode_change_at
        BY <1>3, <3>2 DEF UpsertSleeve, SleeveRow, SleeveInv
      <4>2. PICK i \in DOMAIN upserts :
               /\ upserts[i].ts = sleeve.last_mode_change_at
               /\ \A j \in DOMAIN upserts : j >= i => upserts[j].mode = sleeve.mode
               /\ i > 1 => upserts[i - 1].mode # sleeve.mode
        BY <3>2 DEF SleeveInv, ChangeOfModeIsDated
      <4>3. i \in DOMAIN upserts' /\ upserts'[i] = upserts[i]
        BY <1>0, <2>3
      <4>4. \A j \in DOMAIN upserts' : j >= i => upserts'[j].mode = m
        BY <1>0, <2>1, <2>3, <3>2, <4>2
      <4>5. i > 1 => upserts'[i - 1] = upserts[i - 1]
        BY <1>0, <2>3
      <4> QED
        BY <2>4, <3>2, <4>1, <4>2, <4>3, <4>4, <4>5 DEF ChangeOfModeIsDated
    <3>3. CASE sleeve # NoSleeve /\ sleeve.mode # m
      <4>1. sleeve'.last_mode_change_at = now
        BY <1>3, <3>3 DEF UpsertSleeve, SleeveRow, SleeveInv
      <4>2. Len(upserts) \in DOMAIN upserts /\ upserts[Len(upserts)].mode = sleeve.mode
        BY <1>0, <3>3 DEF SleeveInv, ChangeOfModeIsDated
      <4>3. n \in DOMAIN upserts' /\ n - 1 = Len(upserts) /\ upserts'[n - 1] = upserts[Len(upserts)]
        BY <1>0, <2>3, <4>2
      <4>4. \A j \in DOMAIN upserts' : j >= n => upserts'[j].mode = m
        BY <1>0, <2>1, <2>3
      <4> QED
        BY <2>1, <2>3, <2>4, <3>3, <4>1, <4>2, <4>3, <4>4 DEF ChangeOfModeIsDated
    <3> QED
      BY <3>1, <3>2, <3>3
  <2> QED
    BY <1>0, <1>1, <2>3, <2>4, <2>5, <2>6 DEF SleeveInv
<1> QED
  BY <1>2, <1>3 DEF Boots

LEMMA SleeveInitially == Init => SleeveInv
<1> SUFFICES ASSUME Init PROVE SleeveInv
  OBVIOUS
<1>0. now = 0 /\ now \in Times /\ mode \in Modes
  BY TapeAssumption DEF Init, TapeInit, PromotionInit, Times
<1>1. CASE sleeve = NoSleeve /\ upserts = <<>>
  BY <1>0, <1>1 DEF SleeveInv, ChangeOfModeIsDated
<1>2. CASE /\ sleeve = [mode |-> mode, started_at |-> now, last_mode_change_at |-> now]
           /\ upserts = <<[ts |-> now, mode |-> mode]>>
  <2>1. /\ sleeve \in SleeveRow /\ sleeve # NoSleeve /\ sleeve.mode = mode
        /\ sleeve.started_at = now /\ sleeve.last_mode_change_at = now
    BY <1>0, <1>2, PromotionAssumption DEF SleeveRow
  <2>2. [ts |-> now, mode |-> mode] \in UpsertRow
    BY <1>0 DEF UpsertRow
  <2>3. upserts \in Seq(UpsertRow) /\ DOMAIN upserts = {1} /\ upserts[1] = [ts |-> now, mode |-> mode]
    BY <1>2, <2>2
  <2>4. ChangeOfModeIsDated
    BY <2>1, <2>3 DEF ChangeOfModeIsDated
  <2> QED
    BY <1>0, <2>1, <2>3, <2>4 DEF SleeveInv
<1> QED
  BY <1>1, <1>2 DEF Init, PromotionInit

LEMMA SleeveStays == SleeveInv /\ [Next]_vars => SleeveInv'
<1> SUFFICES ASSUME SleeveInv, [Next]_vars PROVE SleeveInv'
  OBVIOUS
<1>1. CASE Reboot
  <2>1. now' = now /\ \E m \in Modes : Boots(m)
    BY <1>1 DEF Reboot, Committed
  <2> QED
    BY <2>1, BootStep
<1>2. CASE UNCHANGED <<mode, sleeve, upserts>>
  <2>1. now' \in Times /\ now \in Nat /\ now' \in {now, now + 1}
    BY ClockAdvances DEF SleeveInv
  <2>2. ChangeOfModeIsDated'
    BY <1>2 DEF SleeveInv, ChangeOfModeIsDated
  <2>3. sleeve # NoSleeve => sleeve.last_mode_change_at <= now'
    BY <2>1 DEF SleeveInv, SleeveRow
  <2> QED
    BY <1>2, <2>1, <2>2, <2>3 DEF SleeveInv
<1> QED
  BY <1>1, <1>2, OthersLeaveTheRow

LEMMA SleeveAlways == Spec => []SleeveInv
BY SleeveInitially, SleeveStays, PTL DEF Spec

\* The row tells since when the sleeve has been in its mode, however often the
\* worker was restarted, its configuration edited, and the row not written.
THEOREM ModeIsDated == Spec => []ChangeOfModeIsDated
<1>1. SleeveInv => ChangeOfModeIsDated
  BY DEF SleeveInv
<1> QED
  BY <1>1, SleeveAlways, PTL
-----------------------------------------------------------------------------
(* The tape.                                                               *)

\* What the jobs may rely on: an event is in the table from the time it was
\* written, which is not before the time of its print, and one that is gone was
\* old enough to be deleted.
TapeInv ==
    /\ now \in Times
    /\ prints \in Seq(TradePrint) /\ Len(prints) = submitted
    /\ \A e \in 1 .. submitted : prints[e].ts <= now
    /\ Written = ToSet(table)
    /\ \A e \in Written : writtenAt[e] \in Nat /\ prints[e].ts <= writtenAt[e] /\ writtenAt[e] <= now
    /\ swept \subseteq Written
    /\ \A e \in swept : Old(e)

\* What a step may do to the tape: time and the tape go forward, and what is
\* written is written now.
TapeGrows ==
    /\ now' \in {now, now + 1}
    /\ submitted <= submitted' /\ \A e \in 1 .. submitted : prints'[e] = prints[e]
    /\ Written \subseteq Written' /\ \A e \in Written : writtenAt'[e] = writtenAt[e]
    /\ \A e \in Written' : e \notin Written => writtenAt'[e] = now /\ now' = now
    /\ swept \subseteq swept'

\* The numbers of the events written are those of prints.
LEMMA WrittenWerePrinted ==
    ASSUME WriterInv, TapeInv, NEW e \in Written
    PROVE  /\ submitted \in Nat /\ e \in 1 .. submitted /\ prints[e] \in TradePrint
           /\ prints[e].ts \in Nat /\ prints[e].ts <= MaxTime
<1>1. submitted \in Nat
  BY DEF WriterInv, Types
<1>2. e \in 1 .. submitted
  BY DEF WriterInv, Accounted, TapeInv, Events
<1>3. prints[e] \in TradePrint
  BY <1>1, <1>2 DEF TapeInv
<1>4. prints[e].ts \in Nat /\ prints[e].ts <= MaxTime
  BY <1>3, TapeAssumption DEF TradePrint, Times
<1> QED
  BY <1>1, <1>2, <1>3, <1>4

\* Every step of the writer but submit leaves the table as it was or adds the
\* batch to it.
LEMMA TableGrows ==
    ASSUME WriterInv,
           Flush \/ Flushed \/ Stop \/ FinalFlush \/ Stopped \/ Die
    PROVE  ToSet(table) \subseteq ToSet(table') /\ submitted' = submitted
<1>1. table \in Seq(Nat) /\ batch \in Seq(Nat)
  BY DEF WriterInv, Types
<1>2. submitted' = submitted /\ (table' = table \/ table' = table \o batch)
  BY DEF Flush, Flushed, Stop, FinalFlush, Stopped, Die, EndBatch
<1> QED
  BY <1>1, <1>2, Joined

\* Printed and committed.
LEMMA TapeIsWritten ==
    ASSUME WriterInv, WriterInv', TapeInv, Committed, ToSet(table) \subseteq ToSet(table'), submitted' = submitted
    PROVE  TapeInv' /\ TapeGrows
<1>1. /\ now' = now /\ prints' = prints /\ swept' = swept
      /\ writtenAt' = [e \in ToSet(table') |-> IF e \in Written THEN writtenAt[e] ELSE now]
  BY DEF Committed
<1>2. now \in Nat
  BY TapeAssumption DEF TapeInv, Times
<1>3. Written' = ToSet(table') /\ Written \subseteq Written'
  BY <1>1 DEF Written, TapeInv
<1>4. /\ \A e \in Written : writtenAt'[e] = writtenAt[e]
      /\ \A e \in Written' : e \notin Written => writtenAt'[e] = now
  BY <1>1, <1>3
<1>5. TapeGrows
  <2>1. submitted \in Nat
    BY DEF WriterInv, Types
  <2> QED
    BY <1>1, <1>3, <1>4, <2>1 DEF TapeGrows
<1>6. \A e \in Written' : e \in 1 .. submitted
  BY <1>3 DEF WriterInv, Accounted, Events
<1>7. ASSUME NEW e \in Written' PROVE writtenAt'[e] \in Nat /\ prints'[e].ts <= writtenAt'[e] /\ writtenAt'[e] <= now'
  <2>1. CASE e \in Written
    BY <2>1, <1>1, <1>4 DEF TapeInv
  <2>2. CASE e \notin Written
    <3>1. writtenAt'[e] = now
      BY <2>2, <1>4
    <3>2. prints'[e].ts <= now
      BY <1>1, <1>6 DEF TapeInv
    <3> QED
      BY <3>1, <3>2, <1>1, <1>2
  <2> QED
    BY <2>1, <2>2
<1>8. \A e \in swept' : Old(e)'
  BY <1>1 DEF TapeInv, Old
<1> QED
  BY <1>1, <1>3, <1>5, <1>7, <1>8 DEF TapeInv

LEMMA TapeArrives ==
    ASSUME WriterInv, TapeInv, Arrive PROVE TapeInv' /\ TapeGrows
<1>1. /\ submitted' = submitted + 1 /\ table' = table
      /\ now' = now /\ swept' = swept /\ writtenAt' = writtenAt
  BY DEF Arrive, Submit
<1>2. PICK p \in TradePrint : p.ts <= now /\ prints' = Append(prints, p)
  BY DEF Arrive
<1>3. submitted \in Nat /\ Len(prints) = submitted /\ prints \in Seq(TradePrint)
  BY DEF WriterInv, Types, TapeInv
<1>4. /\ prints' \in Seq(TradePrint) /\ Len(prints') = submitted'
      /\ \A e \in 1 .. submitted : prints'[e] = prints[e]
      /\ prints'[submitted'] = p
  BY <1>1, <1>2, <1>3
<1>5. \A e \in 1 .. submitted' : prints'[e].ts <= now'
  <2> SUFFICES ASSUME NEW e \in 1 .. submitted' PROVE prints'[e].ts <= now'
    OBVIOUS
  <2>1. e \in 1 .. submitted \/ e = submitted'
    BY <1>1, <1>3
  <2> QED
    BY <2>1, <1>1, <1>2, <1>4 DEF TapeInv
<1>6. \A e \in Written : e \in 1 .. submitted
  BY DEF WriterInv, Accounted, Events, TapeInv
<1>7. Written' = Written
  BY <1>1 DEF Written
<1>8. \A e \in Written' : writtenAt'[e] \in Nat /\ prints'[e].ts <= writtenAt'[e] /\ writtenAt'[e] <= now'
  BY <1>1, <1>4, <1>6, <1>7 DEF TapeInv
<1>9. \A e \in swept' : Old(e)'
  BY <1>1, <1>4, <1>6 DEF TapeInv, Old
<1>10. now \in Nat
  BY TapeAssumption DEF TapeInv, Times
<1>11. TapeInv'
  BY <1>1, <1>4, <1>5, <1>7, <1>8, <1>9 DEF TapeInv
<1>12. TapeGrows
  BY <1>1, <1>3, <1>4, <1>7, <1>10 DEF TapeGrows
<1> QED
  BY <1>11, <1>12

\* Time passes, or what is old is deleted.
LEMMA TapeAges ==
    ASSUME WriterInv, TapeInv, UNCHANGED <<table, submitted, prints, writtenAt>>,
           now' \in {now, now + 1}, now' \in Times,
           swept \subseteq swept', \A e \in swept' : e \in swept \/ (e \in OnTape /\ Old(e) /\ now' = now)
    PROVE  TapeInv' /\ TapeGrows
<1>1. now \in Nat /\ now' \in Nat /\ now <= now' /\ submitted \in Nat /\ EventsKeep \in Nat
  BY TapeAssumption, AggregatorAssumption DEF TapeInv, Times, WriterInv, Types
<1>2. Written' = Written
  BY DEF Written
<1>3. \A e \in Written : e \in 1 .. submitted /\ prints[e].ts \in Nat
  BY WrittenWerePrinted
<1>4. swept' \subseteq Written
  BY DEF TapeInv, OnTape
<1>5. ASSUME NEW e \in swept' PROVE Old(e)'
  <2>1. Old(e)
    BY DEF TapeInv
  <2> QED
    BY <2>1, <1>1, <1>3, <1>4 DEF Old
<1>6. \A e \in 1 .. submitted' : prints'[e].ts <= now'
  <2> SUFFICES ASSUME NEW e \in 1 .. submitted PROVE prints[e].ts <= now'
    OBVIOUS
  <2>1. prints[e] \in TradePrint
    BY DEF TapeInv
  <2>2. prints[e].ts \in Nat /\ prints[e].ts <= now
    BY <2>1, TapeAssumption DEF TradePrint, Times, TapeInv
  <2> QED
    BY <2>2, <1>1
<1>7. \A e \in Written' : writtenAt'[e] \in Nat /\ prints'[e].ts <= writtenAt'[e] /\ writtenAt'[e] <= now'
  <2> SUFFICES ASSUME NEW e \in Written PROVE writtenAt[e] \in Nat /\ prints[e].ts <= writtenAt[e] /\ writtenAt[e] <= now'
    BY <1>2
  <2>1. writtenAt[e] \in Nat /\ prints[e].ts <= writtenAt[e] /\ writtenAt[e] <= now
    BY DEF TapeInv
  <2> QED
    BY <2>1, <1>1
<1>8. TapeInv'
  BY <1>2, <1>4, <1>5, <1>6, <1>7 DEF TapeInv
<1>9. TapeGrows
  BY <1>1, <1>2 DEF TapeGrows
<1> QED
  BY <1>8, <1>9

LEMMA TapeStep == WriterInv /\ TapeInv /\ [Next]_vars => TapeInv' /\ TapeGrows
<1> SUFFICES ASSUME WriterInv, TapeInv, [Next]_vars PROVE TapeInv' /\ TapeGrows
  OBVIOUS
<1>0. WriterInv'
  BY WriterStays
<1>1. CASE WriterStep
  <2>1. CASE Arrive
    BY <2>1, TapeArrives
  <2>2. CASE Write
    BY <2>2, <1>0, TableGrows, TapeIsWritten DEF Write
  <2> QED
    BY <1>1, <2>1, <2>2 DEF WriterStep
<1>2. CASE Reboot
  BY <1>2, <1>0, TableGrows, TapeIsWritten DEF Reboot
<1>3. CASE RetentionStep /\ Sweep
  <2>1. UNCHANGED <<table, submitted, prints, writtenAt>> /\ now' = now
    BY <1>3 DEF RetentionStep, Sweep, writerVars
  <2>2. now' \in Times
    BY <2>1 DEF TapeInv
  <2>3. swept' = swept \cup {e \in OnTape : Old(e)}
    BY <1>3 DEF Sweep
  <2> QED
    BY <2>1, <2>2, <2>3, TapeAges
<1>4. CASE TimePasses
  <2>1. UNCHANGED <<table, submitted, prints, writtenAt, swept>> /\ now' = now + 1 /\ now < MaxTime
    BY <1>4 DEF TimePasses, Tick, writerVars
  <2>2. now' \in Times
    BY <2>1, TapeAssumption DEF TapeInv, Times
  <2> QED
    BY <2>1, <2>2, TapeAges
<1>5. CASE UNCHANGED <<table, submitted, tapeVars>>
  <2>1. UNCHANGED <<table, submitted, prints, writtenAt, swept>> /\ now' = now
    BY <1>5 DEF tapeVars
  <2>2. now' \in Times
    BY <2>1 DEF TapeInv
  <2> QED
    BY <2>1, <2>2, TapeAges
<1>6. [Next]_vars =>
        WriterStep \/ Reboot \/ (RetentionStep /\ Sweep) \/ TimePasses \/ UNCHANGED <<table, submitted, tapeVars>>
  BY DEF Next, AggregatorStep, RetentionStep, SweepBars, ValidatorStep, SleeveStep, vars, writerVars
<1> QED
  BY <1>1, <1>2, <1>3, <1>4, <1>5, <1>6

LEMMA TapeAlways == Spec => [](WriterInv /\ TapeInv)
<1>1. Init => TapeInv
  <2> SUFFICES ASSUME Init PROVE TapeInv
    OBVIOUS
  <2>1. now = 0 /\ prints = <<>> /\ swept = {} /\ submitted = 0 /\ table = <<>> /\ writtenAt = [e \in {} |-> 0]
    BY DEF Init, TapeInit, WriterInit
  <2>2. Written = {} /\ ToSet(table) = {}
    BY <2>1, EmptySequence DEF Written
  <2>3. now \in Times /\ prints \in Seq(TradePrint) /\ Len(prints) = submitted
    BY <2>1, TapeAssumption DEF Times
  <2> QED
    BY <2>1, <2>2, <2>3 DEF TapeInv
<1>2. WriterInv /\ TapeInv /\ [Next]_vars => TapeInv'
  BY TapeStep
<1> QED
  BY <1>1, <1>2, WriterAlways, PTL DEF Spec
-----------------------------------------------------------------------------
(* Verdicts and the tape.                                                  *)

NearOf(f) == {e \in Written : Near(f, e)}
AfterOf(f) == {e \in Written : After(f, e)}

\* A pass judges a fill when the prints that count are in, or come too late to
\* count; it marks what it has judged, and the flags it gives are its own.
Judged(f) ==
    /\ f.validated => f.ts <= now - Tentative
    /\ f.checked => f.ts <= now - (Ahead + Grace)
    /\ f.flag = "implausible" => f.validated
    /\ f.flag = "picked_off" => f.checked
    /\ Settled(f, NearOf(f), Tentative) =>
          (f.validated => (f.flag = "implausible" <=> Implausible(f, Written)) \/ f.flag = "picked_off")
    /\ Settled(f, AfterOf(f), Ahead + Grace) =>
          (f.checked => (f.flag = "picked_off" <=> Adverse(f, Written)) \/ f.flag = "implausible")

VerdictsInv == \A i \in DOMAIN fills : Judged(fills[i])

LEMMA VerdictsSuffice == VerdictsInv => VerdictMatchesTheTape
BY DEF VerdictsInv, Judged, VerdictMatchesTheTape, NearOf, AfterOf

\* A pass reads what is left of the tape: all that was written near the fill, when
\* none of it has been deleted.
LEMMA ReadsAllThatIsNear ==
    ASSUME NEW f \in Fill, NEW w, Settled(f, NearOf(f), w)
    PROVE  Implausible(f, OnTape) <=> Implausible(f, Written)
<1>1. {e \in OnTape : Near(f, e)} = {e \in Written : Near(f, e)}
  BY DEF Settled, NearOf, OnTape
<1> QED
  BY <1>1 DEF Implausible

LEMMA ReadsAllThatIsAfter ==
    ASSUME NEW f \in Fill, NEW w, Settled(f, AfterOf(f), w)
    PROVE  Adverse(f, OnTape) <=> Adverse(f, Written)
<1>1. {e \in OnTape : After(f, e)} = {e \in Written : After(f, e)}
  BY DEF Settled, AfterOf, OnTape
<1> QED
  BY <1>1 DEF Adverse

\* What is written after a pass has judged a fill is too late for its verdict.
LEMMA TapeKeepsVerdicts ==
    ASSUME WriterInv, TapeInv, TapeGrows, NEW f \in Fill, Judged(f)
    PROVE  Judged(f)'
<1>0. /\ f.ts \in Nat /\ now \in Nat /\ now' \in Nat /\ now <= now'
      /\ Tentative \in Nat /\ Ahead + Grace \in Nat
  BY ValidatorAssumption, TapeAssumption DEF Fill, TapeInv, TapeGrows, Times
<1>1. Written \subseteq Written' /\ \A e \in Written : prints'[e] = prints[e]
  BY WrittenWerePrinted DEF TapeGrows
<1>2. \A e \in Written : (Near(f, e)' <=> Near(f, e)) /\ (After(f, e)' <=> After(f, e))
  BY <1>1 DEF Near, After
<1>3. \A e \in Written' : e \notin Written => writtenAt'[e] = now
  BY DEF TapeGrows
<1>4. swept \subseteq swept' /\ \A e \in Written : writtenAt'[e] = writtenAt[e]
  BY DEF TapeGrows
<1>5. ASSUME f.validated, Settled(f, NearOf(f), Tentative)'
      PROVE  Settled(f, NearOf(f), Tentative) /\ (Implausible(f, Written)' <=> Implausible(f, Written))
  <2>1. f.ts <= now - Tentative
    BY <1>5 DEF Judged
  <2>2. ~(now < f.ts + Tentative)
    BY <1>0, <2>1
  <2>3. \A e \in NearOf(f)' : e \notin swept' /\ writtenAt'[e] < f.ts + Tentative
    BY <1>5 DEF Settled
  <2>4. NearOf(f)' \subseteq Written
    BY <1>3, <2>2, <2>3 DEF NearOf
  <2>5. NearOf(f)' = NearOf(f)
    BY <1>1, <1>2, <2>4 DEF NearOf
  <2>6. Settled(f, NearOf(f), Tentative)
    <3> SUFFICES ASSUME NEW e \in NearOf(f) PROVE e \notin swept /\ writtenAt[e] < f.ts + Tentative
      BY DEF Settled
    <3>1. e \in NearOf(f)' /\ e \in Written
      BY <2>5 DEF NearOf
    <3> QED
      BY <2>3, <3>1, <1>4
  <2>7. \A e \in NearOf(f) : prints'[e] = prints[e]
    BY <1>1 DEF NearOf
  <2> QED
    BY <2>5, <2>6, <2>7 DEF Implausible, NearOf
<1>6. ASSUME f.checked, Settled(f, AfterOf(f), Ahead + Grace)'
      PROVE  Settled(f, AfterOf(f), Ahead + Grace) /\ (Adverse(f, Written)' <=> Adverse(f, Written))
  <2>1. f.ts <= now - (Ahead + Grace)
    BY <1>6 DEF Judged
  <2>2. ~(now < f.ts + (Ahead + Grace))
    BY <1>0, <2>1
  <2>3. \A e \in AfterOf(f)' : e \notin swept' /\ writtenAt'[e] < f.ts + (Ahead + Grace)
    BY <1>6 DEF Settled
  <2>4. AfterOf(f)' \subseteq Written
    BY <1>3, <2>2, <2>3 DEF AfterOf
  <2>5. AfterOf(f)' = AfterOf(f)
    BY <1>1, <1>2, <2>4 DEF AfterOf
  <2>6. Settled(f, AfterOf(f), Ahead + Grace)
    <3> SUFFICES ASSUME NEW e \in AfterOf(f) PROVE e \notin swept /\ writtenAt[e] < f.ts + (Ahead + Grace)
      BY DEF Settled
    <3>1. e \in AfterOf(f)' /\ e \in Written
      BY <2>5 DEF AfterOf
    <3> QED
      BY <2>3, <3>1, <1>4
  <2>7. \A e \in AfterOf(f) : prints'[e] = prints[e]
    BY <1>1 DEF AfterOf
  <2> QED
    BY <2>5, <2>6, <2>7 DEF Adverse, AfterOf
<1>7. f.validated => f.ts <= now' - Tentative
  BY <1>0 DEF Judged
<1>8. f.checked => f.ts <= now' - (Ahead + Grace)
  BY <1>0 DEF Judged
<1> QED
  BY <1>5, <1>6, <1>7, <1>8 DEF Judged

\* The passes.
LEMMA PassesJudge ==
    ASSUME FillsInv, VerdictsInv, ValidatorStep PROVE VerdictsInv'
<1>0. now \in Times /\ fills \in Seq(Fill) /\ DOMAIN fills = 1 .. Len(fills) /\ UNCHANGED tapeVars
  BY DEF FillsInv, ValidatorStep
<1>1. \A f \in Fill : Judged(f)' <=> Judged(f)
  BY <1>0 DEF tapeVars, Judged, Settled, NearOf, AfterOf, Near, After, Implausible, Adverse, Written
<1>2. CASE NewFill
  <2>1. PICK o \in Orders : fills' = Append(fills, [ts |-> now, side |-> o.side, kind |-> o.kind, flag |-> o.flag,
                                                 validated |-> FALSE, checked |-> FALSE])
    BY <1>2 DEF NewFill
  <2> DEFINE new == [ts |-> now, side |-> o.side, kind |-> o.kind, flag |-> o.flag,
                     validated |-> FALSE, checked |-> FALSE]
  <2>2. o \in [side : {"buy", "sell"}, kind : {"taker", "maker", "missed"},
               flag : {"clean", "thin_market", "would_have_moved_market"}]
    BY ValidatorAssumption
  <2>3. new \in Fill /\ ~new.validated /\ ~new.checked /\ new.flag \in {"clean", "thin_market", "would_have_moved_market"}
    BY <1>0, <2>2 DEF Fill, Flags
  <2> HIDE DEF new
  <2>4. fills' = Append(fills, new)
    BY <2>1 DEF new
  <2>5. Judged(new)
    BY <2>3 DEF Judged
  <2>6. \A i \in DOMAIN fills' : fills'[i] = new \/ (i \in DOMAIN fills /\ fills'[i] = fills[i])
    BY <1>0, <2>3, <2>4
  <2> QED
    BY <1>0, <1>1, <2>3, <2>5, <2>6 DEF VerdictsInv
<1>3. ASSUME NEW i \in 1 .. MaxFills, Validate(i) PROVE VerdictsInv'
  <2> DEFINE f == fills[i]
             g == [f EXCEPT !.flag = IF Implausible(f, OnTape) THEN "implausible" ELSE "clean", !.validated = TRUE]
  <2>1. /\ i \in DOMAIN fills /\ f \in Fill /\ Judged(f)
        /\ f.flag = "clean" /\ ~f.validated /\ f.ts <= now - Tentative
    BY <1>0, <1>3 DEF Validate, IsTentative, VerdictsInv
  <2>2. /\ g \in Fill /\ g.ts = f.ts /\ g.side = f.side /\ g.validated /\ g.checked = f.checked
        /\ g.flag = IF Implausible(f, OnTape) THEN "implausible" ELSE "clean"
    BY <2>1 DEF Fill, Flags
  <2>3. fills' = [fills EXCEPT ![i] = g]
    BY <1>3 DEF Validate
  <2> HIDE DEF f, g
  <2>4. /\ NearOf(g) = NearOf(f) /\ AfterOf(g) = AfterOf(f)
        /\ \A es, w : Settled(g, es, w) <=> Settled(f, es, w)
        /\ \A es : (Implausible(g, es) <=> Implausible(f, es)) /\ (Adverse(g, es) <=> Adverse(f, es))
    BY <2>2 DEF NearOf, AfterOf, Near, After, Settled, Implausible, Adverse
  <2>5. Settled(f, NearOf(f), Tentative) => (Implausible(f, OnTape) <=> Implausible(f, Written))
    BY <2>1, ReadsAllThatIsNear
  <2>6. Judged(g)
    BY <2>1, <2>2, <2>4, <2>5, Zenon DEF Judged
  <2>7. \A j \in DOMAIN fills' : fills'[j] = g \/ (j \in DOMAIN fills /\ fills'[j] = fills[j])
    BY <1>0, <2>1, <2>3
  <2> QED
    BY <1>0, <1>1, <2>2, <2>6, <2>7 DEF VerdictsInv
<1>4. ASSUME NEW i \in 1 .. MaxFills, CheckAdverse(i) PROVE VerdictsInv'
  <2> DEFINE f == fills[i]
             g == [f EXCEPT !.flag = IF Adverse(f, OnTape) THEN "picked_off" ELSE "clean", !.checked = TRUE]
  <2>1. /\ i \in DOMAIN fills /\ f \in Fill /\ Judged(f)
        /\ f.flag \in {"clean", "thin_market"} /\ ~f.checked /\ f.ts <= now - (Ahead + Grace)
    BY <1>0, <1>4 DEF CheckAdverse, IsUnchecked, VerdictsInv
  <2>2. /\ g \in Fill /\ g.ts = f.ts /\ g.side = f.side /\ g.checked /\ g.validated = f.validated
        /\ g.flag = IF Adverse(f, OnTape) THEN "picked_off" ELSE "clean"
    BY <2>1 DEF Fill, Flags
  <2>3. fills' = [fills EXCEPT ![i] = g]
    BY <1>4 DEF CheckAdverse
  <2> HIDE DEF f, g
  <2>4. /\ NearOf(g) = NearOf(f) /\ AfterOf(g) = AfterOf(f)
        /\ \A es, w : Settled(g, es, w) <=> Settled(f, es, w)
        /\ \A es : (Implausible(g, es) <=> Implausible(f, es)) /\ (Adverse(g, es) <=> Adverse(f, es))
    BY <2>2 DEF NearOf, AfterOf, Near, After, Settled, Implausible, Adverse
  <2>5. Settled(f, AfterOf(f), Ahead + Grace) => (Adverse(f, OnTape) <=> Adverse(f, Written))
    BY <2>1, ReadsAllThatIsAfter
  <2>6. Judged(g)
    BY <2>1, <2>2, <2>4, <2>5, Zenon DEF Judged
  <2>7. \A j \in DOMAIN fills' : fills'[j] = g \/ (j \in DOMAIN fills /\ fills'[j] = fills[j])
    BY <1>0, <2>1, <2>3
  <2> QED
    BY <1>0, <1>1, <2>2, <2>6, <2>7 DEF VerdictsInv
<1> QED
  BY <1>2, <1>3, <1>4 DEF ValidatorStep, ValidatorNext

\* A verdict is what the prints around a fill say, all that were written before
\* the pass looked: a late print, a deleted one or a later pass changes nothing.
THEOREM VerdictsMatchTheTape == Spec => []VerdictMatchesTheTape
<1>1. Init => VerdictsInv
  BY DEF Init, ValidatorInit, VerdictsInv
<1>2. (WriterInv /\ TapeInv) /\ FillsInv /\ VerdictsInv /\ [Next]_vars => VerdictsInv'
  <2> SUFFICES ASSUME WriterInv, TapeInv, FillsInv, VerdictsInv, [Next]_vars PROVE VerdictsInv'
    OBVIOUS
  <2>1. CASE UNCHANGED fills
    <3>1. TapeGrows
      BY TapeStep
    <3>2. \A i \in DOMAIN fills : fills[i] \in Fill
      BY DEF FillsInv
    <3>3. \A i \in DOMAIN fills : Judged(fills[i])'
      <4> SUFFICES ASSUME NEW i \in DOMAIN fills PROVE Judged(fills[i])'
        OBVIOUS
      <4>1. PICK f \in Fill : f = fills[i]
        BY <3>2
      <4>2. Judged(f)
        BY <4>1 DEF VerdictsInv
      <4>3. Judged(f)'
        BY <3>1, <4>2, TapeKeepsVerdicts
      <4> QED
        BY <4>1, <4>3, <2>1
    <3> QED
      BY <2>1, <3>3 DEF VerdictsInv
  <2> QED
    BY <2>1, PassesJudge, OthersLeaveFills
<1> QED
  BY <1>1, <1>2, TapeAlways, FillsAlways, VerdictsSuffice, PTL DEF Spec
-----------------------------------------------------------------------------
(* Minutes and days.                                                       *)

LEMMA Quotient ==
    ASSUME NEW x \in Nat, NEW w \in Nat \ {0}
    PROVE  x \div w \in Nat /\ (x \div w) * w <= x /\ x < (x \div w) * w + w
<1>1. /\ x \div w \in Nat
      /\ (x \div w) * w <= x
      /\ x < ((x \div w) + 1) * w
  BY SMTT(30)
<1> DEFINE q == x \div w
<1> HIDE DEF q
<1>2. q \in Nat /\ q * w <= x /\ x < (q + 1) * w
  BY <1>1 DEF q
<1>3. (q + 1) * w = q * w + w
  BY <1>2
<1> QED
  BY <1>2, <1>3 DEF q

\* A multiple that is not larger bounds the quotient from below.
LEMMA QuotientAtLeast ==
    ASSUME NEW x \in Nat, NEW w \in Nat \ {0}, NEW k \in Int, k * w <= x
    PROVE  k <= x \div w
<1> DEFINE q == x \div w
<1>1. q \in Nat /\ x < q * w + w
  BY Quotient
<1> HIDE DEF q
<1> SUFFICES ASSUME q + 1 <= k PROVE FALSE
  BY <1>1 DEF q
<1>2. (q + 1) * w <= k * w
  BY <1>1
<1>3. (q + 1) * w = q * w + w /\ k * w \in Int
  BY <1>1
<1> QED
  BY <1>1, <1>2, <1>3

LEMMA QuotientsGrow ==
    ASSUME NEW x \in Nat, NEW y \in Nat, NEW w \in Nat \ {0}, x <= y
    PROVE  x \div w <= y \div w
<1>1. x \div w \in Nat /\ (x \div w) * w <= x
  BY Quotient
<1> DEFINE q == x \div w
<1> HIDE DEF q
<1>2. q \in Nat /\ q * w <= y
  BY <1>1 DEF q
<1>3. q <= y \div w
  BY <1>2, QuotientAtLeast
<1> QED
  BY <1>3 DEF q

LEMMA MinuteFacts ==
    ASSUME NEW t \in Nat
    PROVE  /\ MinuteOf(t) \in Nat /\ MinuteOf(t) * Minute <= t /\ t < MinuteOf(t) * Minute + Minute
           /\ \A k \in Int : k * Minute <= t => k <= MinuteOf(t)
           /\ \A u \in Nat : t <= u => MinuteOf(t) <= MinuteOf(u)
BY AggregatorAssumption, Quotient, QuotientAtLeast, QuotientsGrow DEF MinuteOf

LEMMA DayFacts ==
    ASSUME NEW m \in Nat
    PROVE  /\ DayOf(m) \in Nat /\ DayOf(m) * Day <= m
           /\ \A k \in Int : k * Day <= m => k <= DayOf(m)
           /\ \A n \in Nat : m <= n => DayOf(m) <= DayOf(n)
BY AggregatorAssumption, Quotient, QuotientAtLeast, QuotientsGrow DEF DayOf

LEMMA ClockFacts ==
    ASSUME TapeInv
    PROVE  now \in Nat /\ now <= MaxTime /\ MaxTime \in Nat /\ MinuteOf(now) \in Nat /\ DayOf(MinuteOf(now)) \in Nat
<1>1. now \in Nat /\ now <= MaxTime /\ MaxTime \in Nat
  BY TapeAssumption DEF TapeInv, Times
<1>2. MinuteOf(now) \in Nat
  BY <1>1, MinuteFacts
<1>3. DayOf(MinuteOf(now)) \in Nat
  BY <1>2, DayFacts
<1> QED
  BY <1>1, <1>2, <1>3

\* An event is kept for longer than any run looks back.
LEMMA SweptIsOutOfReach ==
    ASSUME WriterInv, TapeInv, NEW e \in swept
    PROVE  MinuteOf(prints[e].ts) + 3 <= MinuteOf(now)
<1>1. e \in Written /\ Old(e)
  BY DEF TapeInv
<1>2. prints[e].ts \in Nat
  BY <1>1, WrittenWerePrinted
<1>3. now \in Nat /\ prints[e].ts < now - EventsKeep
  BY <1>1, ClockFacts DEF Old
<1>4. Minute \in Nat
  BY AggregatorAssumption
<1>10. EventsKeep \in Nat /\ EventsKeep >= 3 * Minute - 1
  BY AggregatorAssumption
<1>5. PICK t \in Nat : t = prints[e].ts
  BY <1>2
<1>6. PICK m \in Nat : m = MinuteOf(t) /\ m * Minute <= t
  BY MinuteFacts
<1>7. (m + 3) * Minute <= now
  <2>1. (m + 3) * Minute = m * Minute + 3 * Minute
    BY ONLY m \in Nat, <1>4
  <2>2. m * Minute \in Nat
    BY ONLY m \in Nat, <1>4
  <2> QED
    BY <1>3, <1>4, <1>10, <1>5, <1>6, <2>1, <2>2
<1>8. m + 3 \in Int
  OBVIOUS
<1>9. m + 3 <= MinuteOf(now)
  BY <1>3, <1>7, <1>8, MinuteFacts
<1> QED
  BY <1>5, <1>6, <1>9

\* A bar is kept for longer than a daily run looks back.
LEMMA OutlivedIsOutOfReach ==
    ASSUME TapeInv, NEW m \in Nat, Outlived(m)
    PROVE  DayOf(m) + 2 <= DayOf(MinuteOf(now))
<1>1. now \in Nat /\ m * Minute < now - BarsKeep
  BY ClockFacts DEF Outlived
<1>2. Minute \in Nat /\ Day \in Nat /\ BarsKeep \in Nat /\ BarsKeep >= 2 * Day * Minute
  BY AggregatorAssumption
<1>3. PICK d \in Nat : d = DayOf(m) /\ d * Day <= m
  BY DayFacts
<1>4. PICK k \in Nat : k = 2 * Day
  BY <1>2
<1>5. m + k <= MinuteOf(now)
  <2>1. (m + k) * Minute = m * Minute + k * Minute /\ m * Minute \in Nat /\ k * Minute \in Nat
    BY ONLY m \in Nat, k \in Nat, <1>2
  <2>2. BarsKeep >= k * Minute
    BY <1>2, <1>4
  <2>3. (m + k) * Minute <= now
    BY <1>1, <1>2, <2>1, <2>2
  <2>4. m + k \in Int
    OBVIOUS
  <2> QED
    BY <1>1, <2>3, <2>4, MinuteFacts
<1>6. (d + 2) * Day <= m + k
  <2>1. (d + 2) * Day = d * Day + 2 * Day
    BY ONLY d \in Nat, <1>2
  <2>2. d * Day \in Nat
    BY ONLY d \in Nat, <1>2
  <2> QED
    BY <1>2, <1>3, <1>4, <2>1, <2>2
<1>7. MinuteOf(now) \in Nat
  BY ClockFacts
<1>8. (d + 2) * Day <= MinuteOf(now) /\ d + 2 \in Int
  <2>1. (d + 2) * Day \in Nat
    BY ONLY d \in Nat, <1>2
  <2> QED
    BY <1>5, <1>6, <1>7, <2>1
<1>9. d + 2 <= DayOf(MinuteOf(now))
  BY <1>7, <1>8, DayFacts
<1> QED
  BY <1>3, <1>9

-----------------------------------------------------------------------------
(* Bars.                                                                   *)

WrittenIn(m) == {e \in Written : MinuteOf(prints[e].ts) = m}
BarsOf(d) == UNION {bars[m] : m \in {m \in DOMAIN bars : DayOf(m) = d}}

\* A bar sums up prints of its minute; the bar of a day that a run may write
\* again sums up what is in its minute bars.
BarsInv ==
    /\ \A m \in DOMAIN bars : m \in Minutes /\ bars[m] \subseteq WrittenIn(m)
    /\ \A d \in DOMAIN days :
          /\ d \in Int /\ days[d] \subseteq Written
          /\ d >= DayOf(MinuteOf(now)) - 1 => days[d] \subseteq BarsOf(d)

BarsGrow ==
    /\ \A m \in DOMAIN bars : m \in DOMAIN bars' => bars[m] \subseteq bars'[m]
    /\ \A d \in DOMAIN days : d \in DOMAIN days' /\ days[d] \subseteq days'[d]

LEMMA Upserted ==
    ASSUME NEW rows, NEW new
    PROVE  LET r == Upsert(rows, new) IN
           /\ \A k \in DOMAIN rows : k \in DOMAIN r
           /\ \A k \in DOMAIN new : new[k] # {} => k \in DOMAIN r /\ r[k] = new[k]
           /\ \A k \in DOMAIN r : \/ k \in DOMAIN new /\ new[k] # {} /\ r[k] = new[k]
                                  \/ k \in DOMAIN rows /\ r[k] = rows[k]
BY DEF Upsert

\* While a step leaves the bars alone, the tape may grow and time pass.
LEMMA TapeLeavesBars ==
    ASSUME WriterInv, TapeInv, TapeInv', TapeGrows, BarsInv, UNCHANGED <<bars, days>>
    PROVE  BarsInv'
<1>1. \A m : WrittenIn(m) \subseteq WrittenIn(m)'
  BY WrittenWerePrinted DEF WrittenIn, TapeGrows
<1>2. now \in Nat /\ now' \in Nat /\ now <= now'
  <2>1. now \in Nat
    BY ClockFacts
  <2> QED
    BY <2>1 DEF TapeGrows
<1>3. MinuteOf(now) \in Nat /\ MinuteOf(now') \in Nat /\ MinuteOf(now) <= MinuteOf(now')
  <2>1. PICK t \in Nat, u \in Nat : t = now /\ u = now' /\ t <= u
    BY <1>2
  <2>2. MinuteOf(t) \in Nat /\ MinuteOf(u) \in Nat /\ MinuteOf(t) <= MinuteOf(u)
    BY <2>1, MinuteFacts
  <2> QED
    BY <2>1, <2>2
<1>4. DayOf(MinuteOf(now)) \in Nat /\ DayOf(MinuteOf(now')) \in Nat /\ DayOf(MinuteOf(now)) <= DayOf(MinuteOf(now'))
  <2>1. PICK t \in Nat, u \in Nat : t = MinuteOf(now) /\ u = MinuteOf(now') /\ t <= u
    BY <1>3
  <2>2. DayOf(t) \in Nat /\ DayOf(u) \in Nat /\ DayOf(t) <= DayOf(u)
    BY <2>1, DayFacts
  <2> QED
    BY <2>1, <2>2
<1>5. \A m \in DOMAIN bars' : m \in Minutes /\ bars'[m] \subseteq WrittenIn(m)'
  BY <1>1 DEF BarsInv
<1>6. ASSUME NEW d \in DOMAIN days'
      PROVE  d \in Int /\ days'[d] \subseteq Written' /\ (d >= DayOf(MinuteOf(now')) - 1 => days'[d] \subseteq BarsOf(d)')
  <2>1. d \in DOMAIN days /\ d \in Int /\ days[d] \subseteq Written /\ Written \subseteq Written'
    BY DEF BarsInv, TapeGrows
  <2>2. d >= DayOf(MinuteOf(now')) - 1 => d >= DayOf(MinuteOf(now)) - 1
    BY <1>4, <2>1
  <2>3. BarsOf(d)' = BarsOf(d)
    BY DEF BarsOf
  <2> QED
    BY <2>1, <2>2, <2>3 DEF BarsInv
<1> QED
  BY <1>5, <1>6 DEF BarsInv

\* A run finds everything the bars it replaces were made of.
LEMMA MinuteRuns ==
    ASSUME WriterInv, TapeInv, BarsInv, RunMinute, UNCHANGED tapeVars
    PROVE  /\ BarsInv' /\ BarsGrow
           /\ \A e \in Written : MinuteOf(prints[e].ts) \in {MinuteOf(now) - 2, MinuteOf(now) - 1} =>
                 MinuteOf(prints[e].ts) \in DOMAIN bars' /\ e \in bars'[MinuteOf(prints[e].ts)]
           /\ DOMAIN bars \subseteq DOMAIN bars'
<1> DEFINE M == MinuteOf(now)
           new == [m \in Minutes |-> EventsOf(m) \cap MinuteWindow]
<1>1. bars' = Upsert(bars, new) /\ days' = days
  BY DEF RunMinute
<1>2. UNCHANGED <<now, prints, swept, writtenAt>> /\ Written' = Written
  BY DEF tapeVars, Written
<1>3. M \in Nat
  BY ClockFacts
<1>4. ASSUME NEW e \in Written
      PROVE  /\ MinuteOf(prints[e].ts) \in Minutes /\ MinuteOf(prints[e].ts) \in Nat
             /\ MinuteOf(prints[e].ts) \in {M - 2, M - 1} => e \notin swept
  <2>1. prints[e].ts \in Nat /\ prints[e].ts <= MaxTime /\ MaxTime \in Nat
    BY WrittenWerePrinted, TapeAssumption
  <2>2. PICK t \in Nat : t = prints[e].ts
    BY <2>1
  <2>3. MinuteOf(t) \in Nat /\ MinuteOf(MaxTime) \in Nat /\ MinuteOf(t) <= MinuteOf(MaxTime)
    BY <2>1, <2>2, MinuteFacts
  <2>4. e \in swept => MinuteOf(t) + 3 <= M
    BY <2>2, SweptIsOutOfReach
  <2> QED
    BY <1>3, <2>2, <2>3, <2>4 DEF Minutes
<1>5. \A m \in Minutes : /\ new[m] \subseteq WrittenIn(m)
                         /\ m \in {M - 2, M - 1} => new[m] = WrittenIn(m)
                         /\ m \notin {M - 2, M - 1} => new[m] = {}
  BY <1>4 DEF EventsOf, MinuteWindow, WrittenIn, OnTape
<1>6. DOMAIN new = Minutes
  OBVIOUS
<1> HIDE DEF new, M
<1>7. /\ DOMAIN bars \subseteq DOMAIN bars'
      /\ \A m \in Minutes : new[m] # {} => m \in DOMAIN bars' /\ bars'[m] = new[m]
      /\ \A m \in DOMAIN bars' : \/ m \in Minutes /\ new[m] # {} /\ bars'[m] = new[m]
                                 \/ m \in DOMAIN bars /\ bars'[m] = bars[m]
  BY <1>1, <1>6, Upserted
<1>8. \A m : WrittenIn(m)' = WrittenIn(m)
  BY <1>2 DEF WrittenIn
<1>9. \A m \in DOMAIN bars' : m \in Minutes /\ bars'[m] \subseteq WrittenIn(m)
  BY <1>5, <1>7 DEF BarsInv
<1>10. ASSUME NEW m \in DOMAIN bars PROVE m \in DOMAIN bars' /\ bars[m] \subseteq bars'[m]
  <2>1. m \in Minutes /\ bars[m] \subseteq WrittenIn(m)
    BY DEF BarsInv
  <2> QED
    BY <2>1, <1>5, <1>7
<1>11. \A d : BarsOf(d) \subseteq BarsOf(d)'
  BY <1>10 DEF BarsOf
<1>12. BarsInv'
  <2>1. ASSUME NEW d \in DOMAIN days'
        PROVE  d \in Int /\ days'[d] \subseteq Written' /\ (d >= DayOf(MinuteOf(now')) - 1 => days'[d] \subseteq BarsOf(d)')
    BY <1>1, <1>2, <1>11 DEF BarsInv
  <2> QED
    BY <2>1, <1>8, <1>9 DEF BarsInv
<1>13. BarsGrow
  BY <1>1, <1>10 DEF BarsGrow
<1>14. ASSUME NEW e \in Written, MinuteOf(prints[e].ts) \in {M - 2, M - 1}
       PROVE  MinuteOf(prints[e].ts) \in DOMAIN bars' /\ e \in bars'[MinuteOf(prints[e].ts)]
  <2>1. MinuteOf(prints[e].ts) \in Minutes /\ e \in WrittenIn(MinuteOf(prints[e].ts))
    BY <1>4 DEF WrittenIn
  <2> QED
    BY <2>1, <1>5, <1>7, <1>14
<1> QED
  BY <1>7, <1>12, <1>13, <1>14 DEF M

LEMMA DayRuns ==
    ASSUME TapeInv, BarsInv, RunDaily, UNCHANGED tapeVars
    PROVE  BarsInv' /\ BarsGrow
<1> DEFINE D == DayOf(MinuteOf(now))
           new == [d \in {D - 1, D} |-> BarsOf(d)]
<1>1. days' = Upsert(days, new) /\ bars' = bars
  BY DEF RunDaily, BarsOf
<1>2. UNCHANGED <<now, prints, swept, writtenAt>> /\ Written' = Written
  BY DEF tapeVars, Written
<1>3. D \in Nat
  BY ClockFacts
<1>4. DOMAIN new = {D - 1, D} /\ \A d \in {D - 1, D} : new[d] = BarsOf(d)
  OBVIOUS
<1> HIDE DEF new
<1>5. /\ DOMAIN days \subseteq DOMAIN days'
      /\ \A d \in {D - 1, D} : new[d] # {} => d \in DOMAIN days' /\ days'[d] = new[d]
      /\ \A d \in DOMAIN days' : \/ d \in {D - 1, D} /\ new[d] # {} /\ days'[d] = new[d]
                                 \/ d \in DOMAIN days /\ days'[d] = days[d]
  BY <1>1, <1>4, Upserted
<1>6. \A m : WrittenIn(m)' = WrittenIn(m)
  BY <1>2 DEF WrittenIn
<1>7. \A d : BarsOf(d)' = BarsOf(d) /\ BarsOf(d) \subseteq Written
  BY <1>1 DEF BarsOf, BarsInv, WrittenIn
<1>8. ASSUME NEW d \in DOMAIN days'
      PROVE  d \in Int /\ days'[d] \subseteq Written /\ (d >= D - 1 => days'[d] \subseteq BarsOf(d))
  <2>1. CASE d \in {D - 1, D} /\ days'[d] = new[d]
    BY <2>1, <1>3, <1>4, <1>7
  <2>2. CASE d \in DOMAIN days /\ days'[d] = days[d]
    BY <2>2 DEF BarsInv
  <2> QED
    BY <2>1, <2>2, <1>5
<1>9. BarsInv'
  <2>1. \A m \in DOMAIN bars' : m \in Minutes /\ bars'[m] \subseteq WrittenIn(m)'
    BY <1>1, <1>6 DEF BarsInv
  <2>2. \A d \in DOMAIN days' : /\ d \in Int /\ days'[d] \subseteq Written'
                                /\ d >= DayOf(MinuteOf(now')) - 1 => days'[d] \subseteq BarsOf(d)'
    BY <1>2, <1>7, <1>8
  <2> QED
    BY <2>1, <2>2 DEF BarsInv
<1>10. ASSUME NEW d \in DOMAIN days PROVE d \in DOMAIN days' /\ days[d] \subseteq days'[d]
  <2>1. d \in DOMAIN days' /\ d \in Int /\ (d >= D - 1 => days[d] \subseteq BarsOf(d))
    BY <1>5 DEF BarsInv
  <2>2. CASE d \in {D - 1, D} /\ days'[d] = new[d]
    BY <2>1, <2>2, <1>3, <1>4
  <2> QED
    BY <2>1, <2>2, <1>5
<1>11. BarsGrow
  BY <1>1, <1>10 DEF BarsGrow
<1> QED
  BY <1>9, <1>11

\* What a sweep deletes, no run writes again.
LEMMA BarsAreSwept ==
    ASSUME TapeInv, BarsInv, SweepBars
    PROVE  BarsInv' /\ BarsGrow
<1>1. /\ bars' = [m \in {m \in DOMAIN bars : ~Outlived(m)} |-> bars[m]] /\ days' = days
      /\ UNCHANGED <<now, prints, swept, writtenAt>> /\ Written' = Written
  BY DEF SweepBars, tapeVars, Written
<1>2. DOMAIN bars' = {m \in DOMAIN bars : ~Outlived(m)} /\ \A m \in DOMAIN bars' : bars'[m] = bars[m]
  BY <1>1
<1>3. \A m : WrittenIn(m)' = WrittenIn(m)
  BY <1>1 DEF WrittenIn
<1>4. ASSUME NEW d \in Int, d >= DayOf(MinuteOf(now)) - 1 PROVE BarsOf(d)' = BarsOf(d)
  <2>1. ASSUME NEW m \in DOMAIN bars, DayOf(m) = d PROVE ~Outlived(m)
    <3>1. m \in Nat
      <4>1. MinuteOf(MaxTime) \in Nat
        BY TapeAssumption, MinuteFacts
      <4> QED
        BY <4>1 DEF BarsInv, Minutes
    <3>2. DayOf(MinuteOf(now)) \in Nat
      BY ClockFacts
    <3>3. Outlived(m) => DayOf(m) + 2 <= DayOf(MinuteOf(now))
      BY <3>1, OutlivedIsOutOfReach
    <3> QED
      BY <3>2, <3>3, <2>1, <1>4
  <2> QED
    BY <2>1, <1>2 DEF BarsOf
<1>5. BarsInv'
  <2>1. \A m \in DOMAIN bars' : m \in Minutes /\ bars'[m] \subseteq WrittenIn(m)'
    BY <1>2, <1>3 DEF BarsInv
  <2>2. \A d \in DOMAIN days' : /\ d \in Int /\ days'[d] \subseteq Written'
                                /\ d >= DayOf(MinuteOf(now')) - 1 => days'[d] \subseteq BarsOf(d)'
    BY <1>1, <1>4 DEF BarsInv
  <2> QED
    BY <2>1, <2>2 DEF BarsInv
<1> QED
  BY <1>1, <1>2, <1>5 DEF BarsGrow

LEMMA OthersLeaveBars ==
    ASSUME [Next]_vars
    PROVE  \/ RunMinute /\ UNCHANGED <<writerVars, tapeVars>>
           \/ RunDaily /\ UNCHANGED <<writerVars, tapeVars>>
           \/ SweepBars
           \/ UNCHANGED <<bars, days>>
BY DEF Next, WriterStep, AggregatorStep, Aggregate, RunFails, RetentionStep, Sweep, ValidatorStep, SleeveStep,
       TimePasses, Reboot, AggregatorStarts, aggregatorVars, vars

LEMMA BarsStep == WriterInv /\ TapeInv /\ BarsInv /\ [Next]_vars => BarsInv' /\ BarsGrow
<1> SUFFICES ASSUME WriterInv, TapeInv, BarsInv, [Next]_vars PROVE BarsInv' /\ BarsGrow
  OBVIOUS
<1>1. CASE UNCHANGED <<bars, days>>
  <2>1. TapeInv' /\ TapeGrows
    BY TapeStep
  <2> QED
    BY <1>1, <2>1, TapeLeavesBars DEF BarsGrow
<1> QED
  BY <1>1, OthersLeaveBars, MinuteRuns, DayRuns, BarsAreSwept

LEMMA BarsAlways == Spec => []BarsInv
<1>1. Init => BarsInv
  BY DEF Init, AggregatorInit, BarsInv
<1> QED
  BY <1>1, BarsStep, TapeAlways, PTL DEF Spec

\* An aggregation that runs again over a minute or a day finds all it found
\* before: Retention keeps the events and the minute bars for as long as a run
\* reads them (retention.py, aggregator.py).
THEOREM BarsNeverLosePrints == Spec => BarsNeverShrink
<1>1. (WriterInv /\ TapeInv) /\ BarsInv /\ [Next]_vars => [BarsGrow]_<<bars, days>>
  BY BarsStep
<1> QED
  BY <1>1, TapeAlways, BarsAlways, PTL DEF Spec, BarsNeverShrink, BarsGrow
-----------------------------------------------------------------------------
(* Late prints.                                                            *)

RunsInv ==
    /\ step \in {"wait", "daily"} /\ due \in Nat /\ runsCompleted \in 0 .. DailyEvery - 1
    /\ ranAt \in 0 .. now /\ gap \in Times

InBar(e) == MinuteOf(prints[e].ts) \in DOMAIN bars /\ e \in bars[MinuteOf(prints[e].ts)]

\* A minute is closed by a run when the run comes after its end.  What was written
\* by then and belongs to it is in its bar, unless runs have lain too far apart or
\* the bar is gone.
ClosedWith(e) ==
    LET m == MinuteOf(prints[e].ts) IN
    writtenAt[e] < m * Minute + Minute /\ m * Minute + Minute <= ranAt /\ ~Outlived(m)
CaughtInv == gap < 2 * Minute => \A e \in Written : ClosedWith(e) => InBar(e)

LEMMA RunsInitially == Init => RunsInv /\ CaughtInv
<1> SUFFICES ASSUME Init PROVE RunsInv /\ CaughtInv
  OBVIOUS
<1>1. /\ step = "wait" /\ due = 0 /\ runsCompleted = 0 /\ ranAt = 0 /\ gap = 0 /\ now = 0
      /\ writtenAt = [e \in {} |-> 0]
  BY DEF Init, TapeInit, AggregatorInit
<1>2. Written = {}
  BY <1>1 DEF Written
<1>3. DailyEvery \in Nat \ {0} /\ MaxTime \in Nat
  BY AggregatorAssumption, TapeAssumption
<1> QED
  BY <1>1, <1>2, <1>3 DEF RunsInv, CaughtInv, Times

LEMMA WaitTypes ==
    ASSUME RunsInv, TapeInv, NEW b \in BOOLEAN, Wait(b)
    PROVE  step' = "wait" /\ due' \in Nat /\ runsCompleted' \in 0 .. DailyEvery - 1
<1>1. now \in Nat /\ Minute \in Nat /\ DailyEvery \in Nat \ {0}
  BY ClockFacts, AggregatorAssumption
<1>2. PICK n \in Nat : n = runsCompleted
  BY <1>1 DEF RunsInv
<1>3. (n + 1) % DailyEvery \in 0 .. DailyEvery - 1
  BY <1>1, SMTT(30)
<1> QED
  BY <1>1, <1>2, <1>3 DEF Wait, RunsInv

LEMMA RunsStep == WriterInv /\ TapeInv /\ RunsInv /\ [Next]_vars => RunsInv'
<1> SUFFICES ASSUME WriterInv, TapeInv, RunsInv, [Next]_vars PROVE RunsInv'
  OBVIOUS
<1>1. now \in Nat /\ now' \in Nat /\ now <= now' /\ DailyEvery \in Nat \ {0} /\ MaxTime \in Nat /\ now <= MaxTime
  <2>1. now \in Nat /\ now <= MaxTime /\ MaxTime \in Nat
    BY ClockFacts
  <2>2. now' \in {now, now + 1}
    BY TapeStep DEF TapeGrows
  <2> QED
    BY <2>1, <2>2, AggregatorAssumption
<1>2. CASE UNCHANGED <<step, due, runsCompleted, ranAt, gap>>
  BY <1>1, <1>2 DEF RunsInv
<1>3. CASE AggregatorStep
  <2>1. now' = now
    BY <1>3 DEF AggregatorStep, tapeVars
  <2>2. CASE RunMinute
    <3>1. ranAt' = now /\ gap' = Larger(gap, now - ranAt)
      BY <2>2 DEF RunMinute
    <3>2. ranAt' \in 0 .. now' /\ gap' \in Times
      BY <3>1, <2>1, <1>1 DEF RunsInv, Larger, Times
    <3>3. step' \in {"wait", "daily"} /\ due' \in Nat /\ runsCompleted' \in 0 .. DailyEvery - 1
      <4>1. CASE step' = "daily" /\ UNCHANGED <<due, runsCompleted>>
        BY <4>1 DEF RunsInv
      <4>2. CASE Wait(TRUE)
        BY <4>2, WaitTypes
      <4> QED
        BY <2>2, <4>1, <4>2 DEF RunMinute
    <3> QED
      BY <3>2, <3>3 DEF RunsInv
  <2>3. CASE RunDaily \/ RunFails
    <3>1. (Wait(TRUE) \/ Wait(FALSE)) /\ UNCHANGED <<ranAt, gap>>
      BY <2>3 DEF RunDaily, RunFails
    <3>2. step' = "wait" /\ due' \in Nat /\ runsCompleted' \in 0 .. DailyEvery - 1
      BY <3>1, WaitTypes
    <3> QED
      BY <3>1, <3>2, <2>1 DEF RunsInv
  <2> QED
    BY <1>3, <2>2, <2>3 DEF AggregatorStep, Aggregate
<1>4. CASE Reboot
  <2>1. now' = now /\ step' = "wait" /\ due' = now /\ runsCompleted' = 0 /\ UNCHANGED <<ranAt, gap>>
    BY <1>4 DEF Reboot, AggregatorStarts, Committed
  <2> QED
    BY <2>1, <1>1 DEF RunsInv
<1>5. [Next]_vars => AggregatorStep \/ Reboot \/ UNCHANGED <<step, due, runsCompleted, ranAt, gap>>
  BY DEF Next, WriterStep, RetentionStep, Sweep, SweepBars, ValidatorStep, SleeveStep, TimePasses,
         aggregatorVars, vars
<1> QED
  BY <1>2, <1>3, <1>4, <1>5

LEMMA RunsAlways == Spec => []RunsInv
BY RunsInitially, RunsStep, TapeAlways, PTL DEF Spec

TimesAreNumbers == \A e \in Written : prints[e].ts \in Nat

LEMMA TimesAreNumbersNow == WriterInv /\ TapeInv => TimesAreNumbers
BY WrittenWerePrinted DEF TimesAreNumbers

LEMMA TimesAreNumbersNext == WriterInv' /\ TapeInv' => TimesAreNumbers'
BY TimesAreNumbersNow, PTL

\* What is written after a run is late for the minutes the run has closed.
LEMMA TapeLeavesTheCaught ==
    ASSUME WriterInv, WriterInv', TapeInv, TapeInv', TapeGrows, RunsInv, CaughtInv, UNCHANGED <<ranAt, gap>>,
           \A m \in DOMAIN bars : ~Outlived(m) => m \in DOMAIN bars' /\ bars'[m] = bars[m]
    PROVE  CaughtInv'
<1> SUFFICES ASSUME gap < 2 * Minute, NEW e \in Written', ClosedWith(e)' PROVE InBar(e)'
  BY DEF CaughtInv
<1>0. /\ now \in Nat /\ now' \in Nat /\ now <= now' /\ ranAt \in Nat /\ ranAt <= now
      /\ Minute \in Nat /\ BarsKeep \in Nat
  <2>1. now \in Nat
    BY ClockFacts
  <2> QED
    BY <2>1, AggregatorAssumption DEF TapeGrows, RunsInv
<1>3. PICK t \in Nat : t = prints'[e].ts
  BY TimesAreNumbersNext DEF TimesAreNumbers
<1>4. PICK m \in Nat : m = MinuteOf(t)
  BY MinuteFacts
<1>5. writtenAt'[e] < m * Minute + Minute /\ m * Minute + Minute <= ranAt /\ ~Outlived(m)'
  BY <1>3, <1>4 DEF ClosedWith, MinuteOf
<1>6. m * Minute \in Nat
  BY ONLY m \in Nat, <1>0
<1>7. e \in Written
  <2> SUFFICES ASSUME e \notin Written PROVE FALSE
    OBVIOUS
  <2>1. writtenAt'[e] = now
    BY DEF TapeGrows
  <2> QED
    BY <2>1, <1>0, <1>5, <1>6
<1>8. prints'[e] = prints[e] /\ writtenAt'[e] = writtenAt[e]
  BY <1>7, WrittenWerePrinted DEF TapeGrows
<1>9. ~Outlived(m)
  BY <1>0, <1>5, <1>6 DEF Outlived
<1>10. ClosedWith(e)
  BY <1>3, <1>4, <1>5, <1>8, <1>9 DEF ClosedWith
<1>11. m \in DOMAIN bars /\ e \in bars[m]
  BY <1>3, <1>4, <1>7, <1>8, <1>10 DEF CaughtInv, InBar
<1>12. m \in DOMAIN bars' /\ e \in bars'[m]
  BY <1>9, <1>11
<1> QED
  BY <1>3, <1>4, <1>12 DEF InBar, MinuteOf

\* A run closes the minutes since the last one, if that was not too long ago.
LEMMA MinuteRunCatches ==
    ASSUME WriterInv, TapeInv, BarsInv, RunsInv, CaughtInv, RunMinute, UNCHANGED tapeVars
    PROVE  CaughtInv'
<1>0. UNCHANGED <<now, prints, swept, writtenAt>> /\ Written' = Written
  BY DEF tapeVars, Written
<1> SUFFICES ASSUME gap' < 2 * Minute, NEW e \in Written, ClosedWith(e)' PROVE InBar(e)'
  BY <1>0 DEF CaughtInv
<1>1. ranAt' = now /\ gap' = Larger(gap, now - ranAt)
  BY DEF RunMinute
<1>2. now \in Nat /\ ranAt \in Nat /\ gap \in Nat /\ Minute \in Nat \ {0} /\ MinuteOf(now) \in Nat
  BY ClockFacts, AggregatorAssumption DEF RunsInv, Times
<1>3. gap < 2 * Minute /\ now - ranAt < 2 * Minute
  BY <1>1, <1>2 DEF Larger
<1>4. PICK t \in Nat : t = prints[e].ts
  BY WrittenWerePrinted
<1>5. PICK m \in Nat : m = MinuteOf(t)
  BY MinuteFacts
<1>6. writtenAt[e] < m * Minute + Minute /\ m * Minute + Minute <= now /\ ~Outlived(m)
  BY <1>0, <1>1, <1>4, <1>5 DEF ClosedWith, Outlived, MinuteOf
<1>7. /\ m \in {MinuteOf(now) - 2, MinuteOf(now) - 1} => m \in DOMAIN bars' /\ e \in bars'[m]
      /\ DOMAIN bars \subseteq DOMAIN bars' /\ BarsGrow
  BY <1>4, <1>5, MinuteRuns
<1>8. CASE m * Minute + Minute <= ranAt
  <2>1. ClosedWith(e)
    BY <1>4, <1>5, <1>6, <1>8 DEF ClosedWith
  <2>2. m \in DOMAIN bars /\ e \in bars[m]
    BY <1>3, <1>4, <1>5, <2>1 DEF CaughtInv, InBar
  <2>3. m \in DOMAIN bars' /\ e \in bars'[m]
    BY <1>7, <2>2 DEF BarsGrow
  <2> QED
    BY <1>0, <1>4, <1>5, <2>3 DEF InBar
<1>9. CASE ranAt < m * Minute + Minute
  <2>1. m * Minute \in Nat
    BY ONLY m \in Nat, <1>2
  <2>2. m + 1 <= MinuteOf(now)
    <3>1. (m + 1) * Minute = m * Minute + Minute
      BY ONLY m \in Nat, <1>2
    <3>2. m + 1 \in Int /\ (m + 1) * Minute <= now
      BY <1>6, <3>1
    <3> QED
      BY <1>2, <3>2, MinuteFacts
  <2>3. MinuteOf(now) < m + 3
    <3> SUFFICES ASSUME m + 3 <= MinuteOf(now) PROVE FALSE
      BY <1>2
    <3>1. PICK k \in Nat : k = MinuteOf(now) /\ k * Minute <= now
      BY <1>2, MinuteFacts
    <3>2. (m + 3) * Minute <= k * Minute
      <4>1. m + 3 <= k
        BY <3>1
      <4> QED
        BY ONLY m \in Nat, k \in Nat, <1>2, <4>1
    <3>3. (m + 3) * Minute = m * Minute + 3 * Minute
      BY ONLY m \in Nat, <1>2
    <3>4. k * Minute \in Nat
      BY ONLY k \in Nat, <1>2
    <3> QED
      BY <1>2, <1>3, <1>9, <2>1, <3>1, <3>2, <3>3, <3>4
  <2>4. m \in {MinuteOf(now) - 2, MinuteOf(now) - 1}
    BY <1>2, <2>2, <2>3
  <2> QED
    BY <1>0, <1>4, <1>5, <1>7, <2>4 DEF InBar
<1> QED
  <2>1. m * Minute \in Nat
    BY ONLY m \in Nat, <1>2
  <2> QED
    BY <1>2, <1>8, <1>9, <2>1

LEMMA CaughtStep ==
    (WriterInv /\ TapeInv) /\ BarsInv /\ RunsInv /\ CaughtInv /\ [Next]_vars => CaughtInv'
<1> SUFFICES ASSUME WriterInv, TapeInv, BarsInv, RunsInv, CaughtInv, [Next]_vars PROVE CaughtInv'
  OBVIOUS
<1>1. CASE RunMinute /\ UNCHANGED tapeVars
  BY <1>1, MinuteRunCatches
<1>2. CASE UNCHANGED <<ranAt, gap>> /\ (bars' = bars \/ SweepBars)
  <2>1. WriterInv' /\ TapeInv' /\ TapeGrows
    BY WriterStays, TapeStep
  <2>2. \A m \in DOMAIN bars : ~Outlived(m) => m \in DOMAIN bars' /\ bars'[m] = bars[m]
    BY <1>2 DEF SweepBars
  <2> QED
    BY <1>2, <2>1, <2>2, TapeLeavesTheCaught
<1>3. [Next]_vars => (RunMinute /\ UNCHANGED tapeVars) \/ (UNCHANGED <<ranAt, gap>> /\ (bars' = bars \/ SweepBars))
  BY DEF Next, WriterStep, AggregatorStep, Aggregate, RunDaily, RunFails, RetentionStep, Sweep, SweepBars,
         ValidatorStep, SleeveStep, TimePasses, Reboot, AggregatorStarts, aggregatorVars, vars
<1> QED
  BY <1>1, <1>2, <1>3

\* An aggregator that keeps its schedule misses late prints only: every print that
\* was written by the end of its minute is in the bar two minutes later, whatever
\* the drift of its timer against the minutes.
THEOREM OnlyLatePrintsMissed == Spec => []OnlyLatePrintsAreMissing
<1>1. (WriterInv /\ TapeInv) /\ RunsInv /\ CaughtInv => OnlyLatePrintsAreMissing
  <2> SUFFICES ASSUME WriterInv, TapeInv, RunsInv, CaughtInv, NEW e \in Written,
                      OnSchedule, ~Outlived(MinuteOf(prints[e].ts)),
                      writtenAt[e] < (MinuteOf(prints[e].ts) + 1) * Minute,
                      now >= (MinuteOf(prints[e].ts) + 3) * Minute - 1
               PROVE  MinuteOf(prints[e].ts) \in DOMAIN bars /\ e \in bars[MinuteOf(prints[e].ts)]
    BY DEF OnlyLatePrintsAreMissing
  <2>1. now \in Nat /\ ranAt \in Nat /\ gap \in Nat /\ Minute \in Nat
    BY ClockFacts, AggregatorAssumption DEF RunsInv, Times
  <2>2. gap < 2 * Minute /\ now - ranAt < 2 * Minute
    BY <2>1 DEF OnSchedule, Larger
  <2>3. PICK t \in Nat : t = prints[e].ts
    BY WrittenWerePrinted
  <2>4. PICK m \in Nat : m = MinuteOf(t)
    BY MinuteFacts
  <2>5. (m + 1) * Minute = m * Minute + Minute
    BY ONLY m \in Nat, <2>1
  <2>6. (m + 3) * Minute = m * Minute + 3 * Minute
    BY ONLY m \in Nat, <2>1
  <2>7. m * Minute \in Nat
    BY ONLY m \in Nat, <2>1
  <2>8. m * Minute + Minute <= ranAt
    <3>1. now >= (m + 3) * Minute - 1
      BY <2>3, <2>4
    <3> QED
      BY <2>1, <2>2, <2>6, <2>7, <3>1
  <2>9. ClosedWith(e)
    BY <2>3, <2>4, <2>5, <2>8 DEF ClosedWith
  <2> QED
    BY <2>2, <2>9 DEF CaughtInv, InBar
<1> QED
  BY <1>1, RunsInitially, CaughtStep, RunsAlways, BarsAlways, TapeAlways, PTL DEF Spec
-----------------------------------------------------------------------------
(* Types and limits.                                                       *)

\* The writer's limits.
LimitsInv == submitted <= MaxEvents /\ Len(buffer) <= MaxBuffer /\ Len(batch) <= BatchSize

LEMMA BatchWithinLimits ==
    ASSUME WriterInv, LimitsInv, TakeBatch
    PROVE  Len(buffer') <= MaxBuffer /\ Len(batch') <= BatchSize
<1> DEFINE n == Smaller(BatchSize, Len(buffer))
<1>1. buffer \in Seq(Nat) /\ Len(buffer) \in Nat /\ BatchSize \in Nat /\ MaxBuffer \in Nat
  BY WriterAssumption DEF WriterInv, Types
<1>2. n \in 0 .. Len(buffer) /\ n <= BatchSize
  BY <1>1 DEF Smaller
<1>3. batch' = SubSeq(buffer, 1, n) /\ buffer' = SubSeq(buffer, n + 1, Len(buffer))
  BY DEF TakeBatch
<1> HIDE DEF n
<1>4. Len(batch') = n
  BY <1>1, <1>2, <1>3
<1>5. Len(buffer') = Len(buffer) - n
  BY <1>1, <1>2, <1>3
<1> QED
  BY <1>1, <1>2, <1>4, <1>5 DEF LimitsInv

LEMMA LimitsStep == WriterInv /\ LimitsInv /\ [Next]_vars => LimitsInv'
<1> SUFFICES ASSUME WriterInv, LimitsInv, [Next]_vars PROVE LimitsInv'
  OBVIOUS
<1>0. /\ buffer \in Seq(Nat) /\ Len(buffer) \in Nat /\ submitted \in Nat
      /\ MaxBuffer \in Nat \ {0} /\ BatchSize \in Nat \ {0} /\ MaxEvents \in Nat
  BY WriterAssumption DEF WriterInv, Types
<1>1. CASE Submit
  <2>1. submitted' <= MaxEvents /\ batch' = batch
    BY <1>0, <1>1 DEF Submit
  <2>2. CASE Len(buffer) >= MaxBuffer
    <3>1. buffer' = Append(Tail(buffer), submitted') /\ submitted' \in Nat
      BY <1>0, <1>1, <2>2 DEF Submit
    <3>2. Len(buffer') = Len(buffer)
      BY <1>0, <2>2, <3>1
    <3> QED
      BY <2>1, <3>2 DEF LimitsInv
  <2>3. CASE Len(buffer) < MaxBuffer
    <3>1. buffer' = Append(buffer, submitted') /\ submitted' \in Nat
      BY <1>0, <1>1, <2>3 DEF Submit
    <3>2. Len(buffer') = Len(buffer) + 1
      BY <1>0, <3>1
    <3> QED
      BY <1>0, <2>1, <2>3, <3>2 DEF LimitsInv
  <2> QED
    BY <1>0, <2>2, <2>3
<1>2. CASE Flush \/ FinalFlush
  <2>1. TakeBatch /\ submitted' = submitted
    BY <1>2 DEF Flush, FinalFlush
  <2> QED
    BY <2>1, BatchWithinLimits DEF LimitsInv
<1>3. CASE Flushed \/ Stopped
  <2>1. batch' = <<>> /\ buffer' = buffer /\ submitted' = submitted
    BY <1>3 DEF Flushed, Stopped, EndBatch
  <2> QED
    BY <1>0, <2>1 DEF LimitsInv
<1>4. CASE Die
  <2>1. batch' = <<>> /\ buffer' = <<>> /\ submitted' = submitted
    BY <1>4 DEF Die
  <2> QED
    BY <1>0, <2>1 DEF LimitsInv
<1>5. CASE UNCHANGED <<buffer, batch, submitted>>
  BY <1>5 DEF LimitsInv
<1>6. [Next]_vars =>
        Submit \/ Flush \/ FinalFlush \/ Flushed \/ Stopped \/ Die \/ UNCHANGED <<buffer, batch, submitted>>
  BY DEF Next, WriterStep, Arrive, Write, Stop, AggregatorStep, RetentionStep, ValidatorStep, SleeveStep,
         TimePasses, Tick, Reboot, writerVars, vars
<1> QED
  BY <1>1, <1>2, <1>3, <1>4, <1>5, <1>6

LEMMA SequenceOf ==
    ASSUME NEW s \in Seq(Nat), NEW S, ToSet(s) \subseteq S
    PROVE  s \in Seq(S)
<1>1. \A i \in 1 .. Len(s) : s[i] \in S
  BY Elements
<1> QED
  BY <1>1

-----------------------------------------------------------------------------
ReplayRow == {[ts |-> t] @@ r : t \in Times, r \in Replays}

PlanRow == [jobs : SUBSET {"aggregator", "retention", "fill_validator", "pnl_snapshotter"},
            events : 0 .. MaxEvents, stops : BOOLEAN, boots : Nat, ends : Times]

\* The rows beside the sleeve's: a snapshot is of a time that has come.
RowsInv ==
    /\ plan \in PlanRow
    /\ now \in Times
    /\ equity \in Nat
    /\ DOMAIN snapshots \subseteq Times
    /\ \A t \in DOMAIN snapshots : t <= now /\ snapshots[t] \in Nat
    /\ signals \in Seq(Times)
    /\ replays \in Seq(ReplayRow) /\ Len(replays) <= MaxReplays

LEMMA RowsInitially == Init => RowsInv
<1> SUFFICES ASSUME Init PROVE RowsInv
  OBVIOUS
<1>1. /\ now = 0 /\ plan \in Plans /\ equity = Capital /\ snapshots = [t \in {} |-> 0]
      /\ signals = <<>> /\ replays = <<>>
  BY DEF Init, TapeInit, PromotionInit
<1>2. plan \in PlanRow
  BY <1>1, PlansAssumption DEF PlanRow
<1>3. now \in Times /\ Capital \in Nat /\ MaxReplays \in Nat
  BY <1>1, TapeAssumption, PromotionAssumption DEF Times
<1> QED
  BY <1>1, <1>2, <1>3 DEF RowsInv

LEMMA SleeveStepKeepsRows ==
    ASSUME RowsInv, SleeveStep PROVE RowsInv'
<1>0. now \in Times /\ now \in Nat /\ now' = now /\ plan' = plan
  BY TapeAssumption DEF RowsInv, SleeveStep, tapeVars, Times
<1>1. CASE Moves
  BY <1>0, <1>1, PromotionAssumption DEF Moves, RowsInv
<1>2. CASE Snapshot
  <2>1. snapshots' = [t \in DOMAIN snapshots \cup {now} |-> IF t = now THEN equity ELSE snapshots[t]]
    BY <1>2 DEF Snapshot
  <2>2. DOMAIN snapshots' \subseteq Times /\ \A t \in DOMAIN snapshots' : t <= now /\ snapshots'[t] \in Nat
    BY <1>0, <2>1 DEF RowsInv
  <2> QED
    BY <1>0, <1>2, <2>2 DEF Snapshot, RowsInv
<1>3. CASE Emits
  <2>1. signals' \in Seq(Times)
    BY <1>0, <1>3 DEF Emits, RowsInv
  <2> QED
    BY <1>0, <1>3, <2>1 DEF Emits, RowsInv
<1>4. CASE Replayed
  <2>1. PICK r \in Replays : replays' = Append(replays, [ts |-> now] @@ r)
    BY <1>4 DEF Replayed
  <2> DEFINE row == [ts |-> now] @@ r
  <2>2. row \in ReplayRow
    BY <1>0 DEF ReplayRow
  <2> HIDE DEF row
  <2>3. replays' = Append(replays, row)
    BY <2>1 DEF row
  <2>4. replays' \in Seq(ReplayRow) /\ Len(replays') = Len(replays) + 1 /\ Len(replays) \in Nat
    BY <2>2, <2>3 DEF RowsInv
  <2>5. Len(replays) < MaxReplays /\ MaxReplays \in Nat
    BY <1>4, PromotionAssumption DEF Replayed
  <2> QED
    BY <1>0, <1>4, <2>4, <2>5 DEF Replayed, RowsInv
<1> QED
  BY <1>1, <1>2, <1>3, <1>4 DEF SleeveStep

LEMMA RowsStep == RowsInv /\ [Next]_vars => RowsInv'
<1> SUFFICES ASSUME RowsInv, [Next]_vars PROVE RowsInv'
  OBVIOUS
<1>0. now \in Times /\ now' \in Times /\ now \in Nat /\ now' \in {now, now + 1}
  BY ClockAdvances DEF RowsInv
<1>1. \A t \in DOMAIN snapshots : t <= now'
  <2> SUFFICES ASSUME NEW t \in DOMAIN snapshots PROVE t <= now'
    OBVIOUS
  <2>1. t \in Times /\ t <= now
    BY DEF RowsInv
  <2>2. t \in Nat
    BY <2>1, TapeAssumption DEF Times
  <2> QED
    BY ONLY <1>0, <2>1, <2>2
<1>2. CASE SleeveStep
  BY <1>2, SleeveStepKeepsRows
<1>3. CASE Reboot
  <2>1. equity' = Capital /\ UNCHANGED <<snapshots, signals, replays>>
    BY <1>3 DEF Reboot, Boots
  <2>2. plan' = [plan EXCEPT !.boots = @ - 1] /\ plan.boots > 0
    BY <1>3 DEF Reboot
  <2>3. plan' \in PlanRow
    BY <2>2 DEF RowsInv, PlanRow
  <2> QED
    BY <1>0, <1>1, <2>1, <2>3, PromotionAssumption DEF RowsInv
<1>4. CASE UNCHANGED <<plan, equity, snapshots, signals, replays>>
  BY <1>0, <1>1, <1>4 DEF RowsInv
<1>5. [Next]_vars => SleeveStep \/ Reboot \/ UNCHANGED <<plan, equity, snapshots, signals, replays>>
  BY DEF Next, WriterStep, AggregatorStep, RetentionStep, ValidatorStep, TimePasses, promotionVars, vars
<1> QED
  BY <1>2, <1>3, <1>4, <1>5

LEMMA RowsAlways == Spec => []RowsInv
BY RowsInitially, RowsStep, PTL DEF Spec

LEMMA LimitsAlways == Spec => []LimitsInv
<1>1. Init => LimitsInv
  BY WriterAssumption DEF Init, WriterInit, LimitsInv
<1> QED
  BY <1>1, LimitsStep, WriterAlways, PTL DEF Spec

LEMMA TypesAreRight ==
    ASSUME WriterInv, TapeInv, FillsInv, BarsInv, RunsInv, LimitsInv, RowsInv, SleeveInv
    PROVE  TypeOK
<1>1. plan \in [jobs : SUBSET {"aggregator", "retention", "fill_validator", "pnl_snapshotter"},
                events : 0 .. MaxEvents, stops : BOOLEAN, boots : Nat, ends : Times]
  BY DEF RowsInv, PlanRow
<1>2. WriterTypeOK
  <2>1. submitted \in 0 .. MaxEvents
    BY WriterAssumption DEF WriterInv, Types, LimitsInv
  <2>2. buffer \in Seq(Events) /\ batch \in Seq(Events) /\ table \in Seq(Events)
    BY SequenceOf DEF WriterInv, Types, Accounted
  <2> QED
    BY <2>1, <2>2 DEF WriterTypeOK, LimitsInv, WriterInv, OneBatch, Accounted
<1>3. TapeTypeOK
  <2>1. ASSUME NEW e \in Written PROVE writtenAt[e] \in prints[e].ts .. now
    <3>1. writtenAt[e] \in Nat /\ prints[e].ts <= writtenAt[e] /\ writtenAt[e] <= now /\ prints[e].ts \in Nat /\ now \in Nat
      BY WrittenWerePrinted, ClockFacts DEF TapeInv
    <3> QED
      BY <3>1
  <2> QED
    BY <1>2, <2>1 DEF TapeTypeOK, TapeInv
<1>4. AggregatorTypeOK
  BY DEF AggregatorTypeOK, BarsInv, WrittenIn, RunsInv
<1>5. ValidatorTypeOK
  BY DEF ValidatorTypeOK, FillsInv
<1>6. PromotionTypeOK
  BY DEF PromotionTypeOK, RowsInv, SleeveInv
<1> QED
  BY <1>1, <1>2, <1>3, <1>4, <1>5, <1>6 DEF TypeOK

\* The worker's writer, tape, jobs and rows keep their types and their limits,
\* for buffers, batches, clocks and plans of any size.
THEOREM JobsTypeCorrect == Spec => []TypeOK
BY TypesAreRight, TapeAlways, FillsAlways, BarsAlways, RunsAlways, LimitsAlways, RowsAlways, SleeveAlways, PTL
-----------------------------------------------------------------------------
(* Drawdowns.                                                              *)

LEMMA LeastOfNat ==
    ASSUME NEW T \in SUBSET Nat, T # {}
    PROVE  \E n \in T : \A m \in T : n <= m
<1>1. \E n \in T : \A m \in T : ~(<<m, n>> \in OpToRel(<, Nat))
  BY NatLessThanWellFounded, WFMin, Zenon
<1>2. PICK n \in T : \A m \in T : ~(<<m, n>> \in OpToRel(<, Nat))
  BY <1>1
<1>3. \A m \in T : ~(m < n)
  BY <1>2 DEF OpToRel
<1> QED
  BY <1>3

IsLargest(x, S) == x \in S /\ \A y \in S : y <= x

\* A set of numbers that is finite and not empty has a largest: the one of a
\* smallest set without one is not to be found.
LEMMA LargestExists ==
    ASSUME NEW S \in SUBSET Int, IsFiniteSet(S), S # {}
    PROVE  IsLargest(LargestOf(S), S)
<1> DEFINE Without == {R \in SUBSET S : R # {} /\ ~(\E x : IsLargest(x, R))}
           Sizes == {Cardinality(R) : R \in Without}
<1>1. Without = {}
  <2> SUFFICES ASSUME Without # {} PROVE FALSE
    OBVIOUS
  <2>1. \A R \in SUBSET S : IsFiniteSet(R) /\ Cardinality(R) \in Nat
    BY FS_Subset, FS_CardinalityType
  <2>2. Sizes \in SUBSET Nat /\ Sizes # {}
    BY <2>1
  <2>3. PICK n \in Sizes : \A m \in Sizes : n <= m
    BY <2>2, LeastOfNat
  <2>4. PICK R \in Without : Cardinality(R) = n /\ n \in Nat
    BY <2>1, <2>3
  <2>5. PICK a \in R : a \in Int
    BY <2>4
  <2> DEFINE Rest == R \ {a}
  <2>6. IsFiniteSet(R) /\ Cardinality(Rest) = n - 1 /\ n - 1 < n /\ n - 1 \in Int
    BY <2>1, <2>4, <2>5, FS_RemoveElement
  <2>7. Rest \notin Without
    <3>1. Rest \in Without => n <= n - 1
      BY <2>3, <2>6
    <3> QED
      BY <2>4, <2>6, <3>1
  <2>8. CASE Rest = {}
    <3>1. R = {a}
      BY <2>5, <2>8
    <3>2. IsLargest(a, R)
      BY <2>5, <3>1 DEF IsLargest
    <3> QED
      BY <2>4, <3>2
  <2>9. CASE Rest # {}
    <3>1. PICK x : IsLargest(x, Rest)
      BY <2>4, <2>7, <2>9
    <3>2. x \in Int /\ x \in R
      BY <2>4, <3>1 DEF IsLargest
    <3>3. IsLargest(IF x <= a THEN a ELSE x, R)
      <4>1. \A y \in R : y \in Int /\ (y = a \/ y <= x)
        BY <2>4, <3>1 DEF IsLargest
      <4>2. CASE x <= a
        BY <2>5, <3>2, <4>1, <4>2 DEF IsLargest
      <4>3. CASE ~(x <= a)
        BY <2>5, <3>2, <4>1, <4>3 DEF IsLargest
      <4> QED
        BY <4>2, <4>3
    <3> QED
      BY <2>4, <3>3
  <2> QED
    BY <2>8, <2>9
<1>2. \E x : IsLargest(x, S)
  BY <1>1
<1>3. \E x \in S : \A y \in S : y <= x
  BY <1>2 DEF IsLargest
<1> QED
  BY <1>3 DEF IsLargest, LargestOf

LEMMA ImageIsFinite ==
    ASSUME NEW S, IsFiniteSet(S), NEW f PROVE IsFiniteSet({f[x] : x \in S})
<1> DEFINE T == {f[x] : x \in S}
           g == [x \in S |-> f[x]]
<1>1. g \in Surjection(S, T)
  BY DEF Surjection
<1> HIDE DEF g, T
<1>2. IsFiniteSet(T)
  BY <1>1, FS_Surjection
<1> QED
  BY <1>2 DEF T

Before(c, t) == {u \in DOMAIN c : u <= t}
Peak(c, t) == LargestOf({c[u] : u \in Before(c, t)})
Drops(c) == {Peak(c, t) - c[t] : t \in DOMAIN c}

LEMMA DrawdownIsLargestDrop ==
    ASSUME NEW c, DOMAIN c # {} PROVE Drawdown(c) = LargestOf(Drops(c))
BY DEF Drawdown, Drops, Peak, Before

LEMMA DropsAreNumbers ==
    ASSUME NEW c, IsFiniteSet(DOMAIN c), DOMAIN c \subseteq Int, \A t \in DOMAIN c : c[t] \in Int
    PROVE  Drops(c) \in SUBSET Int /\ IsFiniteSet(Drops(c))
<1>1. ASSUME NEW t \in DOMAIN c PROVE Peak(c, t) \in Int
  <2> DEFINE P == {c[u] : u \in Before(c, t)}
  <2>1. Before(c, t) \subseteq DOMAIN c /\ t \in Before(c, t)
    BY DEF Before
  <2>2. IsFiniteSet(Before(c, t))
    BY <2>1, FS_Subset
  <2>3. IsFiniteSet(P)
    BY <2>2, ImageIsFinite
  <2>4. P \in SUBSET Int /\ P # {}
    BY <2>1
  <2>5. IsLargest(LargestOf(P), P)
    BY <2>3, <2>4, LargestExists
  <2> QED
    BY <2>4, <2>5 DEF Peak, IsLargest
<1>2. Drops(c) \in SUBSET Int
  BY <1>1 DEF Drops
<1>3. IsFiniteSet(Drops(c))
  <2> DEFINE drop == [t \in DOMAIN c |-> Peak(c, t) - c[t]]
  <2>1. Drops(c) = {drop[t] : t \in DOMAIN c}
    BY DEF Drops
  <2> HIDE DEF drop
  <2> QED
    BY <2>1, ImageIsFinite
<1> QED
  BY <1>2, <1>3

\* The drawdown of a curve is no less than any fall along it.
LEMMA DrawdownIsNoLess ==
    ASSUME NEW c, IsFiniteSet(DOMAIN c), DOMAIN c \subseteq Int, \A t \in DOMAIN c : c[t] \in Int,
           NEW t \in DOMAIN c, NEW u \in DOMAIN c, t <= u
    PROVE  Drawdown(c) \in Int /\ c[t] - c[u] <= Drawdown(c)
<1> DEFINE P == {c[v] : v \in Before(c, u)}
<1>1. Before(c, u) \subseteq DOMAIN c /\ t \in Before(c, u)
  BY DEF Before
<1>2. IsFiniteSet(P) /\ P \in SUBSET Int /\ c[t] \in P
  <2>1. IsFiniteSet(Before(c, u))
    BY <1>1, FS_Subset
  <2> QED
    BY <1>1, <2>1, ImageIsFinite
<1>3. Peak(c, u) \in Int /\ c[t] <= Peak(c, u)
  BY <1>2, LargestExists DEF Peak, IsLargest
<1>4. Peak(c, u) - c[u] \in Drops(c)
  BY DEF Drops
<1>5. Drops(c) \in SUBSET Int /\ IsFiniteSet(Drops(c))
  BY DropsAreNumbers
<1>6. LargestOf(Drops(c)) \in Int /\ Peak(c, u) - c[u] <= LargestOf(Drops(c))
  BY <1>4, <1>5, LargestExists DEF IsLargest
<1>7. Drawdown(c) = LargestOf(Drops(c))
  BY DrawdownIsLargestDrop
<1> QED
  BY <1>3, <1>6, <1>7

RecentCurve == [t \in {t \in DOMAIN snapshots : Recent(t)} |-> snapshots[t]]

LEMMA KillStays ==
    ASSUME RowsInv, [Next]_vars, NEW t \in DOMAIN snapshots, NEW u \in DOMAIN snapshots, Loss(t, u), Recent(t)'
    PROVE  DrawdownKill'
<1> DEFINE d == RecentCurve'
<1>0. /\ now \in Nat /\ MaxTime \in Nat /\ now' \in Nat /\ Month \in Nat
      /\ Capital \in Nat /\ FullDrawdown \in Nat /\ FullDrawdown * Capital \in Nat
  <2>1. Capital \in Nat /\ FullDrawdown \in Nat /\ Month \in Nat
    BY PromotionAssumption
  <2>2. FullDrawdown * Capital \in Nat
    BY ONLY <2>1
  <2>3. now' \in Nat
    BY ClockAdvances DEF RowsInv
  <2> QED
    BY <2>1, <2>2, <2>3, TapeAssumption DEF RowsInv, Times
<1>1. \/ UNCHANGED snapshots
      \/ now \notin DOMAIN snapshots /\ DOMAIN snapshots' = DOMAIN snapshots \cup {now}
            /\ \A v \in DOMAIN snapshots : snapshots'[v] = snapshots[v]
  BY DEF Next, WriterStep, AggregatorStep, RetentionStep, ValidatorStep, SleeveStep, Moves, Snapshot, Emits,
         Replayed, TimePasses, Reboot, Boots, promotionVars, vars
<1>2. /\ t \in Nat /\ u \in Nat /\ t <= u /\ snapshots[t] \in Nat /\ snapshots[u] \in Nat
      /\ 100 * (snapshots[t] - snapshots[u]) > FullDrawdown * Capital
  BY TapeAssumption DEF RowsInv, Times, Loss
<1>3. t > now' - Month /\ u > now' - Month
  BY <1>0, <1>2 DEF Recent
<1>4. t \in DOMAIN d /\ u \in DOMAIN d /\ d[t] = snapshots[t] /\ d[u] = snapshots[u]
  BY <1>1, <1>3 DEF RecentCurve, Recent
<1>5. RowsInv'
  BY RowsStep
<1>6. DOMAIN d \subseteq Times /\ \A v \in DOMAIN d : d[v] \in Nat
  BY <1>5 DEF RecentCurve, RowsInv
<1> HIDE DEF d
<1>7. /\ IsFiniteSet(DOMAIN d) /\ DOMAIN d \subseteq Int /\ \A v \in DOMAIN d : d[v] \in Int
  <2>1. IsFiniteSet(Times) /\ Times \subseteq Int
    BY <1>0, FS_Interval DEF Times
  <2>2. IsFiniteSet(DOMAIN d)
    BY <1>6, <2>1, FS_Subset
  <2>3. DOMAIN d \subseteq Int
    BY <1>6, <2>1
  <2>4. \A v \in DOMAIN d : d[v] \in Int
    BY <1>6
  <2> QED
    BY <2>2, <2>3, <2>4
<1>8. Drawdown(d) \in Int /\ d[t] - d[u] <= Drawdown(d)
  BY <1>2, <1>4, <1>7, DrawdownIsNoLess
<1>9. 100 * Drawdown(d) > FullDrawdown * Capital
  BY <1>0, <1>2, <1>4, <1>8
<1> QED
  BY <1>9 DEF d, DrawdownKill, RecentCurve

\* A loss beyond the limit kills the sleeve until the snapshot of its peak is a
\* month old: a later gain, a later snapshot, a restart or less time than that
\* does not take the kill back.
THEOREM KillIsNotTakenBack == Spec => DrawdownKillStays
<1>1. RowsInv /\ [Next]_vars =>
         [\A t, u \in DOMAIN snapshots : Loss(t, u) /\ Recent(t)' => DrawdownKill']_<<now, snapshots, equity, sleeve>>
  BY KillStays
<1> QED
  BY <1>1, RowsAlways, PTL DEF Spec, DrawdownKillStays
=============================================================================
