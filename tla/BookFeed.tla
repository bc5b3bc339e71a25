------------------------------ MODULE BookFeed ------------------------------
(***************************************************************************)
(* How a book of the venue reaches OrderBookStore: the reconnecting        *)
(* websocket (venues/_ws_helper.py), the Polymarket adapter that           *)
(* subscribes, normalises and applies its messages                         *)
(* (venues/polymarket_clob.py), and the REST refresh of a stale book that  *)
(* the runner asks for, from the task that reads the socket or from        *)
(* another.  The venue, its books and the network are external.            *)
(*                                                                         *)
(* A book is the set of its non-empty levels; a delta says whether one     *)
(* is there now.  An operator with a suffix, as Doubled_Unbounded, is a    *)
(* deliberate mistake.                                                     *)
(***************************************************************************)
EXTENDS Naturals, Sequences, FiniteSets, Functions

CONSTANTS
  Assets,      \* the outcome tokens the adapter was given at boot
  Levels,      \* the price levels of a book
  FirstBooks,  \* the venue's books when the worker boots
  NoBook,      \* the store has not seen the asset
  Unread,      \* the venue has not read the book for a REST call yet
  BatchSize,   \* assets per subscribe message
  MaxBackoff,  \* backoff_max, in units of backoff_initial
  MaxChanges,  \* bound: changes of the venue's books
  MaxFaults,   \* bound: refused connections and dropped ones
  MaxCalls     \* bound: REST refreshes

ASSUME FeedAssumption ==
  /\ IsFiniteSet(Assets) /\ FirstBooks \subseteq [Assets -> SUBSET Levels]
  /\ \A levels \in SUBSET Levels : levels # NoBook /\ levels # Unread
  /\ BatchSize \in Nat \ {0} /\ MaxBackoff \in Nat \ {0}
  /\ {MaxChanges, MaxFaults, MaxCalls} \subseteq Nat

VARIABLES
  server,   \* the venue's books
  link,     \* "up", or how the connection ended: "closed" cleanly, "broken"
  told,     \* the assets the venue has been asked for on this connection
  socket,   \* messages on their way, in order
  pc,       \* where ReconnectingWS.stream is
  backoff,  \* the local of stream, in units of backoff_initial
  stopped,  \* _stop
  store,    \* OrderBookStore._books
  call,     \* REST refreshes in flight
  drift,    \* per asset, levels that changed between a REST read and its use
  used      \* how much of the bounds is used

feedVars == <<server, link, told, socket, pc, backoff, stopped, store, call, drift, used>>

Message == [kind : {"book"}, asset : Assets, levels : SUBSET Levels]
             \cup [kind : {"delta"}, asset : Assets, level : Levels, there : BOOLEAN]

(* fetch_book_rest suspended on its answer; "clob" when the task that     *)
(* reads the socket is the one that waits.                                 *)
Call == [by : {"clob", "other"}, asset : Assets,
         levels : (SUBSET Levels) \cup {Unread}, since : SUBSET Levels]

Init ==
  /\ server \in FirstBooks
  /\ link = "closed" /\ told = {} /\ socket = << >>
  /\ pc = "top" /\ backoff = 1 /\ stopped = FALSE
  /\ store = [a \in Assets |-> NoBook]
  /\ call = {} /\ drift = [a \in Assets |-> {}]
  /\ used = [changes |-> 0, faults |-> 0, calls |-> 0]

Spend(what) == used' = [used EXCEPT ![what] = @ + 1]

-----------------------------------------------------------------------------
(* The venue and the network, as far as the adapter sees them.             *)

With(levels, level, there) == IF there THEN levels \cup {level} ELSE levels \ {level}

(* A level of a book appears or empties; a subscriber is sent the level's  *)
(* new absolute size.                                                      *)
Change(a, l) ==
  /\ used.changes < MaxChanges /\ Spend("changes")
  /\ server' = [server EXCEPT ![a] = With(@, l, l \notin @)]
  /\ socket' = IF link = "up" /\ a \in told
               THEN Append(socket, [kind |-> "delta", asset |-> a, level |-> l,
                                    there |-> l \notin server[a]])
               ELSE socket
  /\ call' = {[c EXCEPT !.since = IF c.asset = a /\ c.levels # Unread THEN @ \cup {l} ELSE @] : c \in call}
  /\ UNCHANGED <<link, told, pc, backoff, stopped, store, drift>>

(* The connection ends; what has not been received by then is lost.        *)
Disconnect(how) ==
  /\ link = "up" /\ used.faults < MaxFaults /\ Spend("faults")
  /\ link' = how
  /\ \E n \in 0..Len(socket) : socket' = SubSeq(socket, 1, n)
  /\ UNCHANGED <<server, told, pc, backoff, stopped, store, call, drift>>

ServeRest(c) ==
  /\ c.levels = Unread
  /\ call' = (call \ {c}) \cup {[c EXCEPT !.levels = server[c.asset], !.since = {}]}
  /\ UNCHANGED <<server, link, told, socket, pc, backoff, stopped, store, drift, used>>

-----------------------------------------------------------------------------
(* ReconnectingWS.stream.                                                   *)

(* The connection is up: backoff is reset before the setup hook has run.   *)
Connect ==
  /\ pc = "top" /\ ~stopped
  /\ link' = "up" /\ told' = {} /\ socket' = << >>
  /\ backoff' = 1 /\ pc' = "setup"
  /\ UNCHANGED <<server, stopped, store, call, drift, used>>

ConnectFails ==
  /\ pc = "top" /\ ~stopped
  /\ used.faults < MaxFaults /\ Spend("faults")
  /\ pc' = "backoff"
  /\ UNCHANGED <<server, link, told, socket, backoff, stopped, store, call, drift>>

(* The setup hook sends one subscribe message per batch of assets; the     *)
(* venue answers each with the books of the batch.                         *)
Batches(assets) ==
  {b \in SUBSET assets : b # {} /\ Cardinality(b) <= BatchSize
                           /\ (b = assets \/ Cardinality(b) = BatchSize)}

(* The books of a batch come in any order.                                 *)
Books(batch) ==
  LET books == {[kind |-> "book", asset |-> a, levels |-> server[a]] : a \in batch}
  IN  {s \in [1..Cardinality(batch) -> books] : Range(s) = books}

Subscribe_FirstBatch ==
  /\ pc = "setup" /\ link = "up"
  /\ \E batch \in Batches(Assets) :
       /\ told' = told \cup batch
       /\ \E books \in Books(batch) : socket' = socket \o books
  /\ pc' = "reading"
  /\ UNCHANGED <<server, link, backoff, stopped, store, call, drift, used>>

Subscribe ==
  /\ pc = "setup" /\ link = "up"
  /\ IF told = Assets
     THEN pc' = "reading" /\ UNCHANGED <<told, socket>>
     ELSE \E batch \in Batches(Assets \ told) :
            /\ told' = told \cup batch
            /\ \E books \in Books(batch) : socket' = socket \o books
            /\ UNCHANGED pc
  /\ UNCHANGED <<server, link, backoff, stopped, store, call, drift, used>>

(* OrderBookStore.apply_snapshot and apply_delta: a delta for an asset     *)
(* without a book waits for the snapshot.                                  *)
Applied(book, msg) ==
  CASE msg.kind = "book" -> msg.levels
    [] msg.kind = "delta" /\ book = NoBook -> NoBook
    [] OTHER -> With(book, msg.level, msg.there)

(* One message: _normalize applies it to the store and yields the event,   *)
(* and the stream waits for the consumer.                                  *)
Read ==
  /\ pc = "reading" /\ socket # << >>
  /\ LET msg == Head(socket) IN
       /\ store' = [store EXCEPT ![msg.asset] = Applied(@, msg)]
       /\ drift' = [drift EXCEPT ![msg.asset] = IF msg.kind = "book" THEN {} ELSE @ \ {msg.level}]
  /\ socket' = Tail(socket)
  /\ pc' = "handling"
  /\ UNCHANGED <<server, link, told, backoff, stopped, call, used>>

Waits(task) == \E c \in call : c.by = task

(* Runner._on_event has returned; a stopped stream breaks out of its loop  *)
(* and closes the socket.                                                  *)
Handled ==
  /\ pc = "handling" /\ ~Waits("clob")
  /\ IF stopped
     THEN pc' = "ended" /\ link' = "closed" /\ socket' = << >>
     ELSE pc' = "reading" /\ UNCHANGED <<link, socket>>
  /\ UNCHANGED <<server, told, backoff, stopped, store, call, drift, used>>

(* The end of the connection is noticed while subscribing, or after the    *)
(* last message that was received.                                         *)
NoticeEnd ==
  /\ link # "up"
  /\ pc = "setup" \/ (pc = "reading" /\ socket = << >>)
  /\ socket' = << >>
  /\ pc' = CASE pc = "setup" \/ link = "broken" -> "backoff"
             [] stopped -> "ended"
             [] OTHER -> "pause"
  /\ UNCHANGED <<server, link, told, backoff, stopped, store, call, drift, used>>

Doubled_Unbounded(b) == 2 * b

Doubled(b) == IF 2 * b > MaxBackoff THEN MaxBackoff ELSE 2 * b

(* The break stands outside the try: every error ends the stream.           *)
BackoffOver_GivesUp ==
  /\ pc = "backoff" /\ pc' = "ended"
  /\ UNCHANGED <<server, link, told, socket, backoff, stopped, store, call, drift, used>>

(* The wait after an error ends: with the stop event, or after backoff.    *)
BackoffOver ==
  /\ pc = "backoff"
  /\ IF stopped THEN pc' = "ended" /\ UNCHANGED backoff
                ELSE pc' = "top" /\ backoff' = Doubled(backoff)
  /\ UNCHANGED <<server, link, told, socket, stopped, store, call, drift, used>>

PauseOver ==
  /\ pc = "pause" /\ pc' = "top"
  /\ UNCHANGED <<server, link, told, socket, backoff, stopped, store, call, drift, used>>

(* while not self._stop.is_set()                                           *)
LeaveLoop ==
  /\ pc = "top" /\ stopped /\ pc' = "ended"
  /\ UNCHANGED <<server, link, told, socket, backoff, stopped, store, call, drift, used>>

(* Runner.stop stops the venues and then cancels their tasks, which ends   *)
(* the stream, and the refresh it may be waiting for, wherever it is.      *)
Stop ==
  /\ ~stopped /\ stopped' = TRUE
  /\ UNCHANGED <<server, link, told, socket, pc, backoff, store, call, drift, used>>

Cancelled ==
  /\ stopped /\ pc # "ended"
  /\ pc' = "ended" /\ link' = "closed" /\ socket' = << >>
  /\ call' = {c \in call : c.by # "clob"}
  /\ UNCHANGED <<server, told, backoff, stopped, store, drift, used>>

-----------------------------------------------------------------------------
(* PolymarketCLOB.fetch_book_rest, which the runner asks for when a         *)
(* stored book looks old (_refresh_stale_book_if_needed); any book may, the *)
(* clock is left out.                                                       *)

AskRest(by, a) ==
  /\ ~stopped /\ store[a] # NoBook
  /\ used.calls < MaxCalls /\ Spend("calls")
  /\ ~Waits(by) /\ (by = "clob" => pc = "handling")
  /\ call' = call \cup {[by |-> by, asset |-> a, levels |-> Unread, since |-> {}]}
  /\ UNCHANGED <<server, link, told, socket, pc, backoff, stopped, store, drift>>

(* The answer replaces the stored book, whatever the socket brought since. *)
RestAnswer(c) ==
  /\ c.levels # Unread
  /\ store' = [store EXCEPT ![c.asset] = c.levels]
  /\ drift' = [drift EXCEPT ![c.asset] = c.since]
  /\ call' = call \ {c}
  /\ UNCHANGED <<server, link, told, socket, pc, backoff, stopped, used>>

(* Not 200, a timeout, an unreadable body: counted, and nothing changes.   *)
RestFails(c) ==
  /\ call' = call \ {c}
  /\ UNCHANGED <<server, link, told, socket, pc, backoff, stopped, store, drift, used>>

-----------------------------------------------------------------------------
Stream == \/ Connect \/ Subscribe \/ Read \/ Handled \/ NoticeEnd
          \/ BackoffOver \/ PauseOver \/ LeaveLoop

Answers == \E c \in call : ServeRest(c) \/ RestAnswer(c) \/ RestFails(c)

Next ==
  \/ \E a \in Assets, l \in Levels : Change(a, l)
  \/ \E how \in {"closed", "broken"} : Disconnect(how)
  \/ ConnectFails
  \/ Stream
  \/ Stop \/ Cancelled
  \/ \E by \in {"clob", "other"}, a \in Assets : AskRest(by, a)
  \/ Answers

(* The event loop runs a task that can go on, a sleep ends, and a REST     *)
(* call is answered or times out after five seconds.                       *)
Spec == Init /\ [][Next]_feedVars /\ WF_feedVars(Stream) /\ WF_feedVars(Answers)

-----------------------------------------------------------------------------
(* The shape of the state: backoff stays within its maximum, and the       *)
(* reader waits for at most one refresh.                                   *)
TypeOK ==
  /\ server \in [Assets -> SUBSET Levels]
  /\ link \in {"up", "closed", "broken"} /\ told \in SUBSET Assets
  /\ socket \in Seq(Message)
  /\ pc \in {"top", "setup", "reading", "handling", "backoff", "pause", "ended"}
  /\ backoff \in 1..MaxBackoff /\ stopped \in BOOLEAN
  /\ store \in [Assets -> (SUBSET Levels) \cup {NoBook}]
  /\ drift \in [Assets -> SUBSET Levels]
  /\ call \subseteq Call
  /\ \A c, d \in call : c.by = d.by => c = d

Drained == link = "up" /\ pc = "reading" /\ socket = << >>

Differences(p, q) == (p \ q) \cup (q \ p)

(* polymarket_clob.py and _orderbook_store.py: once every message of a     *)
(* connection has been applied, every stored book is the venue's book      *)
(* again, whatever was lost with earlier connections: each asset was       *)
(* subscribed and has its book.  The only differences are levels that      *)
(* changed while a REST answer was under way and were then overwritten.    *)
DrainedBooksAreTrue ==
  Drained => \A a \in Assets :
    store[a] # NoBook /\ Differences(store[a], server[a]) \subseteq drift[a]

(* _ws_helper.py: whatever connections are refused or dropped, the stream  *)
(* reconnects, subscribes and catches up with the venue, unless it is      *)
(* stopped; then it ends.                                                  *)
BooksCatchUp == <>[]((stopped /\ pc = "ended") \/ Drained)
=============================================================================
