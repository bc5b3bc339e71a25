--------------------------- MODULE BookFeedProofs ---------------------------
(***************************************************************************)
(* Proofs about BookFeed: a drained connection leaves every stored book    *)
(* equal to the venue's but for the levels a late REST answer overwrote,   *)
(* for any assets, levels, batches and numbers of faults.                  *)
(***************************************************************************)
EXTENDS BookFeed, TLAPS, FiniteSetTheorems, SequenceTheorems

-----------------------------------------------------------------------------
(* The inductive invariant.                                                *)

Index == 1 .. Len(socket)

\* Message i settles level l of the book of a, and what it says of the level.
Concerns(i, a, l) ==
  socket[i].asset = a /\ (socket[i].kind = "book" \/ socket[i].level = l)
Says(i, l) == IF socket[i].kind = "book" THEN l \in socket[i].levels ELSE socket[i].there

\* Level by level: from some message on, everything under way says what the
\* venue has; or nothing under way speaks of the level, and the store has it
\* right, unless a REST answer brought it.
WillBeTold(a, l) ==
  \E i \in Index : /\ Concerns(i, a, l)
                   /\ \A j \in Index : j >= i /\ Concerns(j, a, l) => (Says(j, l) <=> l \in server[a])
IsTold(a, l) ==
  /\ \A i \in Index : ~Concerns(i, a, l)
  /\ (l \in store[a] <=> l \in server[a]) \/ l \in drift[a]

\* The asset has a book, or one is under way.
GetsBook(a) ==
  \/ store[a] # NoBook
  \/ \E i \in Index : socket[i].asset = a /\ socket[i].kind = "book"

Synced ==
  link = "up" => \A a \in told : GetsBook(a) /\ \A l \in Levels : WillBeTold(a, l) \/ IsTold(a, l)

\* A REST answer under way differs from the venue only where the book has
\* changed since it was read.
AnswersAreRecent ==
  \A c \in call : c.levels # Unread => Differences(c.levels, server[c.asset]) \subseteq c.since

AllTold == pc \in {"reading", "handling"} => told = Assets

IInv == TypeOK /\ Synced /\ AnswersAreRecent /\ AllTold

-----------------------------------------------------------------------------
(* Lemmas about the operators of the model.                                *)

LEMMA BooksAreBooks ==
  \A levels \in SUBSET Levels : levels # NoBook /\ levels # Unread
BY FeedAssumption

LEMMA WithOneLevel ==
  ASSUME NEW levels \in SUBSET Levels, NEW l \in Levels, NEW there \in BOOLEAN
  PROVE  /\ With(levels, l, there) \in SUBSET Levels
         /\ \A k \in Levels : k # l => (k \in With(levels, l, there) <=> k \in levels)
         /\ l \in With(levels, l, there) <=> there
BY DEF With

LEMMA AppliedType ==
  ASSUME NEW book \in (SUBSET Levels) \cup {NoBook}, NEW msg \in Message
  PROVE  Applied(book, msg) \in (SUBSET Levels) \cup {NoBook}
<1>1. CASE msg.kind = "book"
  <2>1. msg.levels \in SUBSET Levels
    BY <1>1 DEF Message
  <2> QED
    BY <1>1, <2>1 DEF Applied
<1>2. CASE msg.kind = "delta" /\ book = NoBook
  BY <1>2 DEF Applied
<1>3. CASE msg.kind = "delta" /\ book # NoBook
  <2>1. msg.level \in Levels /\ msg.there \in BOOLEAN /\ book \in SUBSET Levels
    BY <1>3 DEF Message
  <2> QED
    BY <1>3, <2>1, WithOneLevel DEF Applied
<1> QED
  BY <1>1, <1>2, <1>3 DEF Message

\* What a subscription is answered with.
LEMMA BooksOfBatch ==
  ASSUME NEW batch \in SUBSET Assets, NEW books \in Books(batch),
         server \in [Assets -> SUBSET Levels]
  PROVE  /\ books \in Seq(Message)
         /\ \A i \in 1 .. Len(books) :
              /\ books[i].asset \in batch /\ books[i].kind = "book"
              /\ books[i].levels = server[books[i].asset]
         /\ \A a \in batch : \E i \in 1 .. Len(books) : books[i].asset = a
<1> DEFINE answers == {[kind |-> "book", asset |-> a, levels |-> server[a]] : a \in batch}
<1>1. books \in [1 .. Cardinality(batch) -> answers] /\ Range(books) = answers
  BY DEF Books
<1>2. Cardinality(batch) \in Nat
  BY FeedAssumption, FS_Subset, FS_CardinalityType
<1>3. answers \subseteq Message
  BY DEF Message
<1>4. books \in Seq(answers) /\ Len(books) = Cardinality(batch) /\ DOMAIN books = 1 .. Len(books)
  BY <1>1, <1>2
<1>5. books \in Seq(Message)
  BY <1>3, <1>4, SeqMonotonic
<1>6. ASSUME NEW i \in 1 .. Len(books)
      PROVE  /\ books[i].asset \in batch /\ books[i].kind = "book"
             /\ books[i].levels = server[books[i].asset]
  <2>1. books[i] \in answers
    BY <1>1, <1>4
  <2> QED
    BY <2>1
<1>7. ASSUME NEW a \in batch
      PROVE  \E i \in 1 .. Len(books) : books[i].asset = a
  <2>1. [kind |-> "book", asset |-> a, levels |-> server[a]] \in Range(books)
    BY <1>1
  <2> QED
    BY <1>4, <2>1 DEF Range
<1> QED
  BY <1>5, <1>6, <1>7


-----------------------------------------------------------------------------
(* Types.                                                                  *)

LEMMA InitTyped == Init => TypeOK
<1> SUFFICES ASSUME Init PROVE TypeOK
  OBVIOUS
<1>1. server \in [Assets -> SUBSET Levels]
  BY FeedAssumption DEF Init
<1>2. backoff \in 1 .. MaxBackoff
  BY FeedAssumption DEF Init
<1>3. socket \in Seq(Message)
  BY DEF Init
<1> QED
  BY <1>1, <1>2, <1>3 DEF Init, TypeOK

\* The venue's own steps.
LEMMA VenueTyped ==
  ASSUME TypeOK
  PROVE  /\ \A a \in Assets, l \in Levels : Change(a, l) => TypeOK'
         /\ \A how \in {"closed", "broken"} : Disconnect(how) => TypeOK'
         /\ \A c \in call : ServeRest(c) => TypeOK'
<1>1. ASSUME NEW a \in Assets, NEW l \in Levels, Change(a, l) PROVE TypeOK'
  <2>1. server' \in [Assets -> SUBSET Levels]
    BY <1>1, WithOneLevel DEF Change, TypeOK, With
  <2>2. socket' \in Seq(Message)
    <3> DEFINE msg == [kind |-> "delta", asset |-> a, level |-> l, there |-> l \notin server[a]]
    <3>1. msg \in Message
      BY DEF Message
    <3>2. socket' = Append(socket, msg) \/ socket' = socket
      BY <1>1 DEF Change
    <3> QED
      BY <3>1, <3>2, AppendProperties DEF TypeOK
  <2> DEFINE Later(c) == [c EXCEPT !.since = IF c.asset = a /\ c.levels # Unread THEN @ \cup {l} ELSE @]
  <2>3. \A c \in call : Later(c) \in Call /\ Later(c).by = c.by
    BY DEF TypeOK, Call
  <2>4. call' = {Later(c) : c \in call}
    BY <1>1 DEF Change
  <2>5. call' \subseteq Call
    BY <2>3, <2>4
  <2> HIDE DEF Later
  <2>6. ASSUME NEW c \in call', NEW d \in call', c.by = d.by PROVE c = d
    <3>1. PICK p \in call, q \in call : c = Later(p) /\ d = Later(q)
      BY <2>4
    <3>2. p.by = q.by
      BY <2>3, <2>6, <3>1
    <3>3. p = q
      BY <3>2 DEF TypeOK
    <3> QED
      BY <3>1, <3>3
  <2> QED
    BY <1>1, <2>1, <2>2, <2>5, <2>6 DEF Change, TypeOK
<1>2. ASSUME NEW how \in {"closed", "broken"}, Disconnect(how) PROVE TypeOK'
  <2>1. socket' \in Seq(Message)
    <3>1. PICK n \in 0 .. Len(socket) : socket' = SubSeq(socket, 1, n)
      BY <1>2 DEF Disconnect
    <3>2. \A i \in 1 .. n : socket[i] \in Message
      BY <3>1, ElementOfSeq DEF TypeOK
    <3> QED
      BY <3>1, <3>2, SubSeqProperties
  <2> QED
    BY <1>2, <2>1 DEF Disconnect, TypeOK
<1>3. ASSUME NEW c \in call, ServeRest(c) PROVE TypeOK'
  <2> DEFINE read == [c EXCEPT !.levels = server[c.asset], !.since = {}]
  <2>1. read \in Call /\ read.by = c.by
    <3>1. c \in Call /\ server[c.asset] \in SUBSET Levels
      BY DEF TypeOK, Call
    <3>2. /\ read.by = c.by /\ read.asset = c.asset
          /\ read.levels = server[c.asset] /\ read.since = {}
          /\ DOMAIN read = {"by", "asset", "levels", "since"}
      BY <3>1 DEF Call
    <3> QED
      BY <3>1, <3>2 DEF Call
  <2>2. call' = (call \ {c}) \cup {read}
    BY <1>3 DEF ServeRest
  <2>3. \A d, e \in call' : d.by = e.by => d = e
    BY <2>1, <2>2 DEF TypeOK
  <2> QED
    BY <1>3, <2>1, <2>2, <2>3 DEF ServeRest, TypeOK
<1> QED
  BY <1>1, <1>2, <1>3

\* The steps of ReconnectingWS.stream.
LEMMA StreamTyped ==
  ASSUME TypeOK
  PROVE  Stream \/ ConnectFails \/ Cancelled \/ Stop => TypeOK'
<1>1. CASE Connect
  BY <1>1, FeedAssumption DEF Connect, TypeOK
<1>2. CASE Subscribe
  <2>1. CASE told = Assets
    BY <1>2, <2>1 DEF Subscribe, TypeOK
  <2>2. CASE told # Assets
    <3>0. PICK batch \in Batches(Assets \ told) :
            told' = told \cup batch /\ \E books \in Books(batch) : socket' = socket \o books
      BY <1>2, <2>2 DEF Subscribe
    <3>1. PICK books \in Books(batch) : socket' = socket \o books
      BY <3>0
    <3>2. batch \in SUBSET Assets
      BY DEF Batches
    <3>3. books \in Seq(Message)
      BY <3>2, BooksOfBatch DEF TypeOK
    <3>4. socket' \in Seq(Message)
      BY <3>1, <3>3, ConcatProperties DEF TypeOK
    <3> QED
      BY <1>2, <2>2, <3>0, <3>2, <3>4 DEF Subscribe, TypeOK
  <2> QED
    BY <2>1, <2>2
<1>3. CASE Read
  <2>1. Head(socket) \in Message /\ Tail(socket) \in Seq(Message)
    BY <1>3, HeadTailProperties DEF Read, TypeOK
  <2> DEFINE a == Head(socket).asset
  <2>2. a \in Assets
    BY <2>1 DEF Message
  <2>3. Applied(store[a], Head(socket)) \in (SUBSET Levels) \cup {NoBook}
    BY <2>1, <2>2, AppliedType DEF TypeOK
  <2>4. store' = [store EXCEPT ![a] = Applied(store[a], Head(socket))]
    BY <1>3 DEF Read
  <2>5. store' \in [Assets -> (SUBSET Levels) \cup {NoBook}]
    BY <2>2, <2>3, <2>4 DEF TypeOK
  <2>6. drift' \in [Assets -> SUBSET Levels]
    BY <1>3 DEF Read, TypeOK
  <2> QED
    BY <1>3, <2>1, <2>5, <2>6 DEF Read, TypeOK
<1>4. CASE Handled
  <2>1. \/ socket' = << >> /\ link' = "closed"
        \/ socket' = socket /\ link' = link
    BY <1>4 DEF Handled
  <2>2. pc' \in {"reading", "ended"}
    BY <1>4 DEF Handled
  <2>3. UNCHANGED <<server, told, backoff, stopped, store, call, drift>>
    BY <1>4 DEF Handled
  <2>4. socket' \in Seq(Message) /\ link' \in {"up", "closed", "broken"}
    <3>1. CASE socket' = << >> /\ link' = "closed"
      <4>1. << >> \in Seq(Message)
        OBVIOUS
      <4> QED
        BY <3>1, <4>1
    <3>2. CASE socket' = socket /\ link' = link
      BY <3>2 DEF TypeOK
    <3> QED
      BY <2>1, <3>1, <3>2
  <2>5. TypeOK'
    BY <2>2, <2>3, <2>4 DEF TypeOK
  <2> QED
    BY <2>5
<1>5. CASE NoticeEnd
  BY <1>5 DEF NoticeEnd, TypeOK
<1>6. CASE BackoffOver
  BY <1>6, FeedAssumption DEF BackoffOver, Doubled, TypeOK
<1>7. CASE PauseOver
  BY <1>7 DEF PauseOver, TypeOK
<1>8. CASE LeaveLoop
  BY <1>8 DEF LeaveLoop, TypeOK
<1>9. CASE ConnectFails
  BY <1>9 DEF ConnectFails, TypeOK
<1>10. CASE Cancelled
  BY <1>10 DEF Cancelled, TypeOK
<1>11. CASE Stop
  BY <1>11 DEF Stop, TypeOK
<1> QED
  BY <1>1, <1>2, <1>3, <1>4, <1>5, <1>6, <1>7, <1>8, <1>9, <1>10, <1>11 DEF Stream

\* REST refreshes.
LEMMA RefreshTyped ==
  ASSUME TypeOK
  PROVE  /\ \A by \in {"clob", "other"}, a \in Assets : AskRest(by, a) => TypeOK'
         /\ \A c \in call : RestAnswer(c) \/ RestFails(c) => TypeOK'
<1>1. ASSUME NEW by \in {"clob", "other"}, NEW a \in Assets, AskRest(by, a) PROVE TypeOK'
  <2> DEFINE new == [by |-> by, asset |-> a, levels |-> Unread, since |-> {}]
  <2>1. new \in Call /\ new.by = by
    BY DEF Call
  <2>2. call' = call \cup {new} /\ \A c \in call : c.by # by
    BY <1>1 DEF AskRest, Waits
  <2>3. \A c, d \in call' : c.by = d.by => c = d
    BY <2>1, <2>2 DEF TypeOK
  <2> QED
    BY <1>1, <2>1, <2>2, <2>3 DEF AskRest, TypeOK
<1>2. ASSUME NEW c \in call, RestAnswer(c) PROVE TypeOK'
  <2>1. c.asset \in Assets /\ c.levels \in SUBSET Levels /\ c.since \in SUBSET Levels
    BY <1>2 DEF RestAnswer, TypeOK, Call
  <2> QED
    BY <1>2, <2>1 DEF RestAnswer, TypeOK
<1>3. ASSUME NEW c \in call, RestFails(c) PROVE TypeOK'
  BY <1>3 DEF RestFails, TypeOK
<1> QED
  BY <1>1, <1>2, <1>3

LEMMA NextTyped == TypeOK /\ [Next]_feedVars => TypeOK'
<1>1. ASSUME TypeOK, Next PROVE TypeOK'
  BY <1>1, VenueTyped, StreamTyped, RefreshTyped DEF Next, Answers
<1>2. ASSUME TypeOK, UNCHANGED feedVars PROVE TypeOK'
  BY <1>2 DEF feedVars, TypeOK
<1> QED
  BY <1>1, <1>2

\* The state is well typed: backoff stays within its maximum, and each task
\* waits for one REST answer at most.
THEOREM TypeCorrect == Spec => []TypeOK
  BY InitTyped, NextTyped, PTL DEF Spec

-----------------------------------------------------------------------------
(* A drained connection leaves the stored books true.                      *)

LEMMA InitInv == Init => IInv
<1> SUFFICES ASSUME Init PROVE IInv
  OBVIOUS
<1>1. link # "up" /\ call = {} /\ pc = "top"
  BY DEF Init
<1> QED
  BY <1>1, InitTyped DEF IInv, Synced, AnswersAreRecent, AllTold

\* A step that leaves messages, books and answers alone says nothing new.
LEMMA SyncedKept ==
  ASSUME Synced, UNCHANGED <<told, socket, store, server, drift>>, link' = "up" => link = "up"
  PROVE  Synced'
BY DEF Synced, GetsBook, WillBeTold, IsTold, Index, Concerns, Says

\* A change is sent to those who have subscribed, after what was sent before.
LEMMA ChangeSynced ==
  ASSUME IInv, NEW b \in Assets, NEW k \in Levels, Change(b, k)
  PROVE  Synced'
<1> SUFFICES ASSUME link' = "up", NEW a \in told', NEW l \in Levels
             PROVE  GetsBook(a)' /\ (WillBeTold(a, l)' \/ IsTold(a, l)')
  BY DEF Synced
<1> DEFINE msg == [kind |-> "delta", asset |-> b, level |-> k, there |-> k \notin server[b]]
<1>1. link = "up" /\ a \in told /\ a \in Assets
  BY DEF Change, IInv, TypeOK
<1>2. GetsBook(a) /\ (WillBeTold(a, l) \/ IsTold(a, l))
  BY <1>1 DEF IInv, Synced
<1>3. UNCHANGED <<store, drift>> /\ server' = [server EXCEPT ![b] = With(@, k, k \notin @)]
  BY DEF Change
<1>4. socket \in Seq(Message) /\ Len(socket) \in Nat /\ server \in [Assets -> SUBSET Levels]
  BY DEF IInv, TypeOK
<1>5. CASE b \notin told
  <2>1. socket' = socket
    BY <1>1, <1>5 DEF Change
  <2>2. server'[a] = server[a]
    BY <1>1, <1>3, <1>4, <1>5
  <2> QED
    BY <1>2, <1>3, <2>1, <2>2 DEF GetsBook, WillBeTold, IsTold, Index, Concerns, Says
<1>6. CASE b \in told
  <2>1. socket' = Append(socket, msg)
    BY <1>1, <1>6 DEF Change
  <2>2. msg \in Message
    BY DEF Message
  <2> HIDE DEF msg
  <2>n. PICK n \in Nat : n = Len(socket) + 1
    BY <1>4
  <2>3. /\ Len(socket') = n
        /\ \A i \in 1 .. Len(socket) : socket'[i] = socket[i]
        /\ socket'[n] = msg
    BY <1>4, <2>1, <2>2, <2>n, AppendProperties
  <2>4. GetsBook(a)'
    BY <1>2, <1>3, <1>4, <2>n, <2>3 DEF GetsBook, Index
  <2>5. CASE a = b /\ l = k
    <3>1. l \in server'[a] <=> k \notin server[b]
      BY <1>3, <1>4, <2>5, WithOneLevel
    <3>2. socket'[n].asset = b /\ socket'[n].kind = "delta"
          /\ socket'[n].level = k /\ socket'[n].there = (k \notin server[b])
      BY <2>3 DEF msg
    <3>3. WillBeTold(a, l)'
      <4>1. n \in Index' /\ \A j \in Index' : j >= n => j = n
        BY <1>4, <2>n, <2>3 DEF Index
      <4>2. Concerns(n, a, l)'
        BY <2>5, <3>2 DEF Concerns
      <4>3. Says(n, l)' <=> l \in server'[a]
        BY <3>1, <3>2 DEF Says
      <4> QED
        BY <4>1, <4>2, <4>3 DEF WillBeTold
    <3> QED
      BY <2>4, <3>3
  <2>6. CASE ~(a = b /\ l = k)
    <3>1. l \in server'[a] <=> l \in server[a]
      BY <1>1, <1>3, <1>4, <2>6, WithOneLevel
    <3>2. ~Concerns(n, a, l)'
      BY <2>3, <2>6 DEF msg, Concerns
    <3>3. \A i \in Index : (Concerns(i, a, l)' <=> Concerns(i, a, l)) /\ (Says(i, l)' <=> Says(i, l))
      BY <2>3 DEF Index, Concerns, Says
    <3>4. \A i \in Index' : i \in Index \/ i = n
      BY <1>4, <2>n, <2>3 DEF Index
    <3>5. \A i \in Index : i \in Index'
      BY <1>4, <2>n, <2>3 DEF Index
    <3>6. WillBeTold(a, l) => WillBeTold(a, l)'
      BY <3>1, <3>2, <3>3, <3>4, <3>5 DEF WillBeTold
    <3>7. IsTold(a, l) => IsTold(a, l)'
      BY <1>3, <3>1, <3>2, <3>3, <3>4 DEF IsTold
    <3> QED
      BY <1>2, <2>4, <3>6, <3>7
  <2> QED
    BY <2>5, <2>6
<1> QED
  BY <1>5, <1>6

\* A batch is answered with its books as they are, and with no other's.
LEMMA SubscribeSynced == ASSUME IInv, Subscribe PROVE Synced'
<1>1. CASE told = Assets
  BY <1>1, SyncedKept DEF Subscribe, IInv
<1>2. CASE told # Assets
  <2>1. PICK batch \in Batches(Assets \ told) :
          told' = told \cup batch /\ \E books \in Books(batch) : socket' = socket \o books
    BY <1>2 DEF Subscribe
  <2>2. PICK books \in Books(batch) : socket' = socket \o books
    BY <2>1
  <2>3. batch \in SUBSET Assets /\ batch \cap told = {}
    BY DEF Batches
  <2>4. /\ books \in Seq(Message)
        /\ \A i \in 1 .. Len(books) :
             /\ books[i].asset \in batch /\ books[i].kind = "book"
             /\ books[i].levels = server[books[i].asset]
        /\ \A a \in batch : \E i \in 1 .. Len(books) : books[i].asset = a
    BY <2>3, BooksOfBatch DEF IInv, TypeOK
  <2>5. socket \in Seq(Message) /\ Len(socket) \in Nat /\ Len(books) \in Nat
    BY <2>4 DEF IInv, TypeOK
  <2>n. PICK n \in Nat : n = Len(socket)
    BY <2>5
  <2>6. /\ Len(socket') = n + Len(books)
        /\ \A i \in 1 .. n : socket'[i] = socket[i]
        /\ \A i \in 1 .. Len(books) : socket'[n + i] = books[i]
    <3>1. /\ Len(socket \o books) = Len(socket) + Len(books)
          /\ \A i \in 1 .. Len(socket) + Len(books) :
               (socket \o books)[i] = IF i <= Len(socket) THEN socket[i] ELSE books[i - Len(socket)]
      BY <2>4, <2>5, ConcatProperties
    <3>2. \A i \in 1 .. n : socket'[i] = socket[i]
      BY <2>2, <2>5, <2>n, <3>1
    <3>3. ASSUME NEW i \in 1 .. Len(books) PROVE socket'[n + i] = books[i]
      <4>1. n + i \in 1 .. n + Len(books) /\ ~(n + i <= n)
            /\ (n + i) - n = i
        BY <2>5, <2>n
      <4> QED
        BY <2>2, <2>n, <3>1, <4>1
    <3> QED
      BY <2>2, <2>n, <3>1, <3>2, <3>3
  <2>7. \A j \in Index' : j \in Index \/ \E i \in 1 .. Len(books) : j = n + i
    <3> SUFFICES ASSUME NEW j \in Index', j \notin Index
                 PROVE  \E i \in 1 .. Len(books) : j = n + i
      OBVIOUS
    <3>1. j - n \in 1 .. Len(books) /\ j = n + (j - n)
      BY <2>5, <2>n, <2>6 DEF Index
    <3> QED
      BY <3>1
  <2>8. \A j \in Index : j \in Index'
    BY <2>5, <2>n, <2>6 DEF Index
  <2>9. UNCHANGED <<store, drift, server, link>>
    BY DEF Subscribe
  <2>10. \A j \in Index : (\A a, l : Concerns(j, a, l)' <=> Concerns(j, a, l))
                          /\ (\A l : Says(j, l)' <=> Says(j, l))
    BY <2>n, <2>6 DEF Index, Concerns, Says
  <2>11. ASSUME link' = "up", NEW a \in told'
         PROVE  GetsBook(a)' /\ \A l \in Levels : WillBeTold(a, l)' \/ IsTold(a, l)'
    <3>1. CASE a \in batch
      <4>1. PICK i \in 1 .. Len(books) : books[i].asset = a
        BY <2>4, <3>1
      <4>p. PICK p \in Nat : p = n + i
        BY <2>n, <2>5
      <4>2. p \in Index' /\ socket'[p] = books[i] /\ \A j \in Index : ~(j >= p)
        BY <2>5, <2>n, <2>6, <4>p DEF Index
      <4>3. GetsBook(a)'
        BY <2>4, <4>1, <4>2 DEF GetsBook
      <4>4. \A l : Concerns(p, a, l)'
        BY <2>4, <4>1, <4>2 DEF Concerns
      <4>5. ASSUME NEW l \in Levels, NEW j \in Index', j >= p, Concerns(j, a, l)'
            PROVE  Says(j, l)' <=> l \in server'[a]
        <5>1. PICK m \in 1 .. Len(books) : j = n + m
          BY <2>7, <4>2, <4>5
        <5>2. socket'[j] = books[m]
          BY <2>6, <5>1
        <5>3. books[m].kind = "book" /\ books[m].asset = a /\ books[m].levels = server[a]
          BY <2>4, <4>5, <5>2 DEF Concerns
        <5> QED
          BY <2>9, <5>2, <5>3 DEF Says
      <4>6. \A l \in Levels : WillBeTold(a, l)'
        BY <4>2, <4>4, <4>5 DEF WillBeTold
      <4> QED
        BY <4>3, <4>6
    <3>2. CASE a \in told
      <4>1. GetsBook(a) /\ \A l \in Levels : WillBeTold(a, l) \/ IsTold(a, l)
        BY <2>9, <2>11, <3>2 DEF IInv, Synced
      <4>2. \A i \in 1 .. Len(books) : \A l : ~Concerns(n + i, a, l)'
        BY <2>3, <2>4, <2>6, <3>2 DEF Concerns
      <4>3. \A j \in Index' : \A l : Concerns(j, a, l)' => j \in Index
        BY <2>7, <4>2
      <4>4. GetsBook(a)'
        BY <2>n, <2>6, <2>8, <2>9, <4>1 DEF GetsBook, Index
      <4>5. \A l \in Levels : WillBeTold(a, l) => WillBeTold(a, l)'
        BY <2>8, <2>9, <2>10, <4>3 DEF WillBeTold
      <4>6. \A l \in Levels : IsTold(a, l) => IsTold(a, l)'
        BY <2>9, <2>10, <4>3 DEF IsTold
      <4> QED
        BY <4>1, <4>4, <4>5, <4>6
    <3> QED
      BY <2>1, <2>11, <3>1, <3>2
  <2> QED
    BY <2>11 DEF Synced
<1> QED
  BY <1>1, <1>2

\* The head of the socket is settled, and the rest says what it said before.
LEMMA ReadSynced == ASSUME IInv, Read PROVE Synced'
<1>1. /\ socket \in Seq(Message) /\ socket # << >> /\ Len(socket) \in Nat \ {0}
      /\ store \in [Assets -> (SUBSET Levels) \cup {NoBook}]
      /\ drift \in [Assets -> SUBSET Levels]
  <2>1. socket \in Seq(Message) /\ socket # << >>
    BY DEF Read, IInv, TypeOK
  <2> QED
    BY <2>1, EmptySeq DEF IInv, TypeOK
<1>2. PICK msg : msg = Head(socket)
  OBVIOUS
<1>3. msg \in Message /\ msg = socket[1] /\ msg.asset \in Assets
  <2>1. msg \in Message /\ msg = socket[1]
    BY <1>1, <1>2, HeadTailProperties
  <2> QED
    BY <2>1 DEF Message
<1>4. /\ Len(socket') = Len(socket) - 1
      /\ \A i \in 1 .. Len(socket) - 1 : socket'[i] = socket[i + 1]
  BY <1>1, HeadTailProperties DEF Read
<1>5. /\ store' = [store EXCEPT ![msg.asset] = Applied(store[msg.asset], msg)]
      /\ drift' = [drift EXCEPT ![msg.asset] =
                      IF msg.kind = "book" THEN {} ELSE drift[msg.asset] \ {msg.level}]
      /\ UNCHANGED <<server, link, told>>
  BY <1>2 DEF Read
<1>6. ASSUME NEW i \in 1 .. Len(socket)
      PROVE  i = 1 \/ (i - 1 \in Index' /\ socket'[i - 1] = socket[i])
  <2>1. i = 1 \/ (i - 1 \in 1 .. Len(socket) - 1 /\ (i - 1) + 1 = i)
    BY <1>1
  <2> QED
    BY <1>1, <1>4, <2>1 DEF Index
<1>7. ASSUME NEW j \in Index'
      PROVE  j + 1 \in Index /\ socket'[j] = socket[j + 1] /\ j + 1 # 1
  BY <1>1, <1>4 DEF Index
<1>8. SUFFICES ASSUME link' = "up", NEW a \in told'
               PROVE  GetsBook(a)' /\ \A l \in Levels : WillBeTold(a, l)' \/ IsTold(a, l)'
  BY DEF Synced
<1>9. a \in told /\ a \in Assets /\ GetsBook(a) /\ \A l \in Levels : WillBeTold(a, l) \/ IsTold(a, l)
  BY <1>5, <1>8 DEF IInv, Synced, TypeOK
<1>10. GetsBook(a)'
  <2>1. CASE msg.asset = a /\ (msg.kind = "book" \/ store[a] # NoBook)
    <3>1. Applied(store[a], msg) # NoBook
      <4>1. CASE msg.kind = "book"
        <5>1. msg.levels \in SUBSET Levels
          BY <1>3, <4>1 DEF Message
        <5> QED
          BY <4>1, <5>1, BooksAreBooks DEF Applied
      <4>2. CASE msg.kind = "delta" /\ store[a] # NoBook
        <5>1. msg.level \in Levels /\ msg.there \in BOOLEAN /\ store[a] \in SUBSET Levels
          BY <1>1, <1>3, <1>9, <4>2 DEF Message
        <5>2. With(store[a], msg.level, msg.there) \in SUBSET Levels
          BY <5>1, WithOneLevel
        <5> QED
          BY <4>2, <5>2, BooksAreBooks DEF Applied
      <4> QED
        BY <1>3, <2>1, <4>1, <4>2 DEF Message
    <3> QED
      BY <1>1, <1>5, <1>9, <2>1, <3>1 DEF GetsBook
  <2>2. CASE msg.asset # a /\ store[a] # NoBook
    BY <1>1, <1>3, <1>5, <1>9, <2>2 DEF GetsBook
  <2>3. CASE store[a] = NoBook /\ ~(msg.asset = a /\ msg.kind = "book")
    <3>1. PICK i \in Index : socket[i].asset = a /\ socket[i].kind = "book"
      BY <1>9, <2>3 DEF GetsBook
    <3>2. i - 1 \in Index' /\ socket'[i - 1] = socket[i]
      BY <1>3, <1>6, <2>3, <3>1 DEF Index
    <3> QED
      BY <3>1, <3>2 DEF GetsBook
  <2> QED
    BY <2>1, <2>2, <2>3
<1>11. ASSUME NEW l \in Levels PROVE WillBeTold(a, l)' \/ IsTold(a, l)'
  <2>1. ASSUME NEW j \in Index'
        PROVE  (Concerns(j, a, l)' <=> Concerns(j + 1, a, l)) /\ (Says(j, l)' <=> Says(j + 1, l))
    BY <1>7 DEF Concerns, Says
  <2>2. CASE \E i \in Index : /\ i # 1 /\ Concerns(i, a, l)
                             /\ \A j \in Index : j >= i /\ Concerns(j, a, l) => (Says(j, l) <=> l \in server[a])
    <3>1. PICK i \in Index : /\ i # 1 /\ Concerns(i, a, l)
                             /\ \A j \in Index : j >= i /\ Concerns(j, a, l) => (Says(j, l) <=> l \in server[a])
      BY <2>2
    <3>p. PICK p \in Int : p = i - 1
      BY DEF Index
    <3>2. p \in Index' /\ p + 1 = i
      BY <1>6, <3>1, <3>p DEF Index
    <3>3. Concerns(p, a, l)'
      BY <2>1, <3>1, <3>2
    <3>4. ASSUME NEW j \in Index', j >= p, Concerns(j, a, l)'
          PROVE  Says(j, l)' <=> l \in server'[a]
      <4>1. j + 1 \in Index /\ j + 1 >= i
        BY <1>7, <3>2, <3>4 DEF Index
      <4> QED
        BY <1>5, <2>1, <3>1, <3>4, <4>1
    <3> QED
      BY <3>2, <3>3, <3>4 DEF WillBeTold
  <2>3. CASE \A i \in Index : i # 1 => ~Concerns(i, a, l)
    <3>1. \A j \in Index' : ~Concerns(j, a, l)'
      BY <1>7, <2>1, <2>3
    <3>2. CASE Concerns(1, a, l)
      <4>1. Says(1, l) <=> l \in server[a]
        <5>1. 1 \in Index
          BY <1>1 DEF Index
        <5>2. WillBeTold(a, l)
          BY <1>9, <3>2, <5>1 DEF IsTold
        <5> QED
          BY <2>3, <3>2, <5>1, <5>2 DEF WillBeTold, Index
      <4>2. msg.asset = a /\ (msg.kind = "book" \/ msg.level = l)
        BY <1>3, <3>2 DEF Concerns
      <4>3. l \in Applied(store[a], msg) <=> Says(1, l)
        <5>1. CASE msg.kind = "book"
          BY <1>3, <5>1 DEF Applied, Says
        <5>2. CASE msg.kind = "delta"
          <6>1. store[a] # NoBook
            BY <1>3, <1>9, <2>3, <5>2 DEF GetsBook, Concerns
          <6>2. msg.there \in BOOLEAN /\ store[a] \in SUBSET Levels /\ msg.level = l
            BY <1>1, <1>3, <1>9, <4>2, <5>2, <6>1 DEF Message
          <6>3. Applied(store[a], msg) = With(store[a], l, msg.there)
            BY <5>2, <6>1, <6>2 DEF Applied
          <6> QED
            BY <1>3, <5>2, <6>2, <6>3, WithOneLevel DEF Says
        <5> QED
          BY <1>3, <5>1, <5>2 DEF Message
      <4>4. l \in store'[a] <=> l \in server'[a]
        BY <1>1, <1>5, <1>9, <4>1, <4>2, <4>3
      <4> QED
        BY <3>1, <4>4 DEF IsTold
    <3>3. CASE ~Concerns(1, a, l)
      <4>1. ~(msg.asset = a /\ (msg.kind = "book" \/ msg.level = l))
        BY <1>3, <3>3 DEF Concerns
      <4>2. (l \in store[a] <=> l \in server[a]) \/ l \in drift[a]
        <5>1. \A i \in Index : ~Concerns(i, a, l)
          BY <2>3, <3>3
        <5> QED
          BY <1>9, <5>1 DEF WillBeTold, IsTold
      <4>3. CASE msg.asset # a
        <5>1. store'[a] = store[a] /\ drift'[a] = drift[a]
          BY <1>1, <1>3, <1>5, <1>9, <4>3
        <5> QED
          BY <1>5, <3>1, <4>2, <5>1 DEF IsTold
      <4>4. CASE msg.asset = a /\ msg.kind = "delta" /\ msg.level # l
        <5>1. drift'[a] = drift[a] \ {msg.level} /\ store'[a] = Applied(store[a], msg)
          BY <1>1, <1>5, <1>9, <4>4
        <5>2. l \in store'[a] <=> l \in store[a]
          <6>1. CASE store[a] = NoBook
            BY <4>4, <5>1, <6>1 DEF Applied
          <6>2. CASE store[a] # NoBook
            <7>1. msg.there \in BOOLEAN /\ store[a] \in SUBSET Levels /\ msg.level \in Levels
              BY <1>1, <1>3, <1>9, <4>4, <6>2 DEF Message
            <7>2. Applied(store[a], msg) = With(store[a], msg.level, msg.there)
              BY <4>4, <6>2 DEF Applied
            <7> QED
              BY <4>4, <5>1, <7>1, <7>2, WithOneLevel
          <6> QED
            BY <6>1, <6>2
        <5> QED
          BY <1>5, <3>1, <4>2, <4>4, <5>1, <5>2 DEF IsTold
      <4> QED
        BY <1>3, <4>1, <4>3, <4>4 DEF Message
    <3> QED
      BY <3>2, <3>3
  <2>4. CASE /\ \E i \in Index : i # 1 /\ Concerns(i, a, l)
             /\ WillBeTold(a, l)
             /\ ~\E i \in Index : /\ i # 1 /\ Concerns(i, a, l)
                                  /\ \A j \in Index : j >= i /\ Concerns(j, a, l) => (Says(j, l) <=> l \in server[a])
    <3>1. PICK k \in Index : k # 1 /\ Concerns(k, a, l)
      BY <2>4
    <3>2. \A j \in Index : Concerns(j, a, l) => (Says(j, l) <=> l \in server[a])
      <4>1. PICK i \in Index : /\ Concerns(i, a, l)
                               /\ \A j \in Index : j >= i /\ Concerns(j, a, l) => (Says(j, l) <=> l \in server[a])
        BY <2>4 DEF WillBeTold
      <4>2. i = 1
        BY <2>4, <4>1
      <4> QED
        BY <4>1, <4>2 DEF Index
    <3> QED
      BY <2>4, <3>1, <3>2
  <2>5. WillBeTold(a, l) \/ IsTold(a, l)
    BY <1>9
  <2>6. IsTold(a, l) => \A i \in Index : ~Concerns(i, a, l)
    BY DEF IsTold
  <2> QED
    BY <2>2, <2>3, <2>4, <2>5, <2>6
<1> QED
  BY <1>10, <1>11

\* What a REST answer gets wrong has changed since the answer was read.
LEMMA RestAnswerSynced == ASSUME IInv, NEW c \in call, RestAnswer(c) PROVE Synced'
<1>1. /\ c.asset \in Assets /\ c.levels \in SUBSET Levels
      /\ Differences(c.levels, server[c.asset]) \subseteq c.since
  BY DEF RestAnswer, IInv, TypeOK, AnswersAreRecent, Call
<1>2. /\ store' = [store EXCEPT ![c.asset] = c.levels]
      /\ drift' = [drift EXCEPT ![c.asset] = c.since]
      /\ UNCHANGED <<server, link, told, socket>>
  BY DEF RestAnswer
<1>3. store \in [Assets -> (SUBSET Levels) \cup {NoBook}] /\ drift \in [Assets -> SUBSET Levels]
  BY DEF IInv, TypeOK
<1> SUFFICES ASSUME link' = "up", NEW a \in told'
             PROVE  GetsBook(a)' /\ \A l \in Levels : WillBeTold(a, l)' \/ IsTold(a, l)'
  BY DEF Synced
<1>4. a \in Assets /\ GetsBook(a) /\ \A l \in Levels : WillBeTold(a, l) \/ IsTold(a, l)
  BY <1>2 DEF IInv, Synced, TypeOK
<1>5. GetsBook(a)'
  <2>1. store[a] # NoBook => store'[a] # NoBook
    BY <1>1, <1>2, <1>3, <1>4, BooksAreBooks
  <2> QED
    BY <1>2, <1>4, <2>1 DEF GetsBook, Index
<1>6. ASSUME NEW l \in Levels PROVE WillBeTold(a, l)' \/ IsTold(a, l)'
  <2>1. WillBeTold(a, l) => WillBeTold(a, l)'
    BY <1>2 DEF WillBeTold, Index, Concerns, Says
  <2>2. IsTold(a, l) => IsTold(a, l)'
    <3>1. CASE a = c.asset
      <4>1. (l \in store'[a] <=> l \in server[a]) \/ l \in drift'[a]
        BY <1>1, <1>2, <1>3, <1>4, <3>1 DEF Differences
      <4> QED
        BY <1>2, <4>1 DEF IsTold, Index, Concerns
    <3>2. CASE a # c.asset
      <4>1. store'[a] = store[a] /\ drift'[a] = drift[a]
        BY <1>1, <1>2, <1>3, <1>4, <3>2
      <4> QED
        BY <1>2, <4>1 DEF IsTold, Index, Concerns
    <3> QED
      BY <3>1, <3>2
  <2> QED
    BY <1>4, <1>6, <2>1, <2>2
<1> QED
  BY <1>5, <1>6

LEMMA NextSynced == IInv /\ [Next]_feedVars => Synced'
<1> SUFFICES ASSUME IInv, [Next]_feedVars PROVE Synced'
  OBVIOUS
<1> USE SyncedKept
<1>1. CASE \E a \in Assets, l \in Levels : Change(a, l)
  BY <1>1, ChangeSynced
<1>2. CASE \E how \in {"closed", "broken"} : Disconnect(how)
  BY <1>2 DEF Disconnect, Synced
<1>3. CASE ConnectFails
  BY <1>3 DEF ConnectFails, IInv
<1>4. CASE Connect
  BY <1>4 DEF Connect, Synced
<1>5. CASE Subscribe
  BY <1>5, SubscribeSynced
<1>6. CASE Read
  BY <1>6, ReadSynced
<1>7. CASE Handled
  <2>1. CASE stopped
    BY <1>7, <2>1 DEF Handled, Synced
  <2>2. CASE ~stopped
    BY <1>7, <2>2 DEF Handled, IInv
  <2> QED
    BY <2>1, <2>2
<1>8. CASE NoticeEnd
  BY <1>8 DEF NoticeEnd, Synced
<1>9. CASE BackoffOver \/ PauseOver \/ LeaveLoop
  BY <1>9 DEF BackoffOver, PauseOver, LeaveLoop, IInv
<1>10. CASE Stop
  BY <1>10 DEF Stop, IInv
<1>11. CASE Cancelled
  BY <1>11 DEF Cancelled, Synced
<1>12. CASE \E by \in {"clob", "other"}, a \in Assets : AskRest(by, a)
  BY <1>12 DEF AskRest, IInv
<1>13. ASSUME NEW c \in call, ServeRest(c) \/ RestAnswer(c) \/ RestFails(c) PROVE Synced'
  <2>1. CASE ServeRest(c)
    BY <2>1 DEF ServeRest, IInv
  <2>2. CASE RestAnswer(c)
    BY <2>2, RestAnswerSynced
  <2>3. CASE RestFails(c)
    BY <2>3 DEF RestFails, IInv
  <2> QED
    BY <1>13, <2>1, <2>2, <2>3
<1>14. CASE UNCHANGED feedVars
  BY <1>14 DEF feedVars, IInv
<1> QED
  BY <1>1, <1>2, <1>3, <1>4, <1>5, <1>6, <1>7, <1>8, <1>9, <1>10, <1>11, <1>12, <1>13, <1>14
  DEF Next, Stream, Answers

\* A level that changes while an answer is under way is noted with it.
LEMMA NextRecent == IInv /\ [Next]_feedVars => AnswersAreRecent'
<1> SUFFICES ASSUME IInv, [Next]_feedVars PROVE AnswersAreRecent'
  OBVIOUS
<1> USE DEF AnswersAreRecent
<1>1. ASSUME NEW a \in Assets, NEW l \in Levels, Change(a, l) PROVE AnswersAreRecent'
  <2> DEFINE Later(c) == [c EXCEPT !.since = IF c.asset = a /\ c.levels # Unread THEN @ \cup {l} ELSE @]
  <2>1. call' = {Later(c) : c \in call} /\ server' = [server EXCEPT ![a] = With(@, l, l \notin @)]
    BY <1>1 DEF Change
  <2>2. ASSUME NEW c \in call
        PROVE  Later(c).levels # Unread =>
                 Differences(Later(c).levels, server'[Later(c).asset]) \subseteq Later(c).since
    <3>1. c \in Call /\ c.asset \in Assets
      BY DEF IInv, TypeOK, Call
    <3>2. /\ Later(c).levels = c.levels /\ Later(c).asset = c.asset
          /\ Later(c).since = IF c.asset = a /\ c.levels # Unread THEN c.since \cup {l} ELSE c.since
      BY <3>1 DEF Call
    <3> HIDE DEF Later
    <3>3. c.levels # Unread => Differences(c.levels, server[c.asset]) \subseteq c.since
      BY DEF IInv
    <3>4. server'[c.asset] = IF c.asset = a THEN With(server[a], l, l \notin server[a]) ELSE server[c.asset]
      BY <2>1, <3>1 DEF IInv, TypeOK
    <3> QED
      BY <3>2, <3>3, <3>4 DEF Differences, With
  <2> QED
    BY <2>1, <2>2
<1>2. ASSUME NEW c \in call, ServeRest(c) PROVE AnswersAreRecent'
  <2> DEFINE read == [c EXCEPT !.levels = server[c.asset], !.since = {}]
  <2>1. call' = (call \ {c}) \cup {read} /\ server' = server
    BY <1>2 DEF ServeRest
  <2>2. read.levels = server[c.asset] /\ read.asset = c.asset
    BY DEF IInv, TypeOK, Call
  <2>3. Differences(read.levels, server'[read.asset]) = {}
    BY <2>1, <2>2 DEF Differences
  <2> HIDE DEF read
  <2> QED
    BY <2>1, <2>3 DEF IInv
<1>3. ASSUME NEW by \in {"clob", "other"}, NEW a \in Assets, AskRest(by, a) PROVE AnswersAreRecent'
  BY <1>3 DEF AskRest, IInv
<1>4. CASE call' \subseteq call /\ server' = server
  BY <1>4 DEF IInv
<1>5. \/ call' \subseteq call /\ server' = server
      \/ \E a \in Assets, l \in Levels : Change(a, l)
      \/ \E c \in call : ServeRest(c)
      \/ \E by \in {"clob", "other"}, a \in Assets : AskRest(by, a)
  BY DEF Next, Stream, Answers, Disconnect, ConnectFails, Connect, Subscribe, Read, Handled,
         NoticeEnd, BackoffOver, PauseOver, LeaveLoop, Stop, Cancelled, RestAnswer, RestFails, feedVars
<1> QED
  BY <1>1, <1>2, <1>3, <1>4, <1>5

\* The stream reads only when it has subscribed to every asset.
LEMMA NextAllTold == IInv /\ [Next]_feedVars => AllTold'
BY DEF IInv, AllTold, Next, Stream, Answers, Change, Disconnect, ServeRest, ConnectFails, Connect,
       Subscribe, Read, Handled, NoticeEnd, BackoffOver, PauseOver, LeaveLoop, Stop, Cancelled,
       AskRest, RestAnswer, RestFails, feedVars

LEMMA NextInv == IInv /\ [Next]_feedVars => IInv'
BY NextTyped, NextSynced, NextRecent, NextAllTold DEF IInv

LEMMA InvSuffices == IInv => DrainedBooksAreTrue
<1> SUFFICES ASSUME IInv, Drained, NEW a \in Assets
             PROVE  store[a] # NoBook /\ Differences(store[a], server[a]) \subseteq drift[a]
  BY DEF DrainedBooksAreTrue
<1>1. Index = {} /\ told = Assets /\ link = "up"
  BY DEF IInv, AllTold, Drained, Index
<1>2. store[a] # NoBook /\ \A l \in Levels : IsTold(a, l)
  BY <1>1 DEF IInv, Synced, GetsBook, WillBeTold
<1>3. store[a] \in SUBSET Levels /\ server[a] \in SUBSET Levels
  BY <1>2 DEF IInv, TypeOK
<1> QED
  BY <1>2, <1>3 DEF IsTold, Differences

\* _ws_helper.py and polymarket_clob.py: whatever connections are refused or
\* dropped, and however the books change meanwhile, a connection whose
\* messages have all been applied has left the venue's books in the store,
\* but for levels that a REST answer overwrote after they had changed.
THEOREM DrainedConnectionsAreTrue == Spec => []DrainedBooksAreTrue
<1>1. Spec => []IInv
  BY InitInv, NextInv, PTL DEF Spec
<1> QED
  BY <1>1, InvSuffices, PTL

=============================================================================
