------------------------------- MODULE Poller -------------------------------
(***************************************************************************)
(* The polling venues, which keep a bounded set of the ids they have       *)
(* emitted: src/src/venues/polymarket_activity.py, news_rss.py, reddit.py. *)
(*                                                                         *)
(* Items are numbered in the order they are published.  A page holds the   *)
(* newest ones and is handled item by item, in any order; what an item     *)
(* says is its time stamp, or none.                                        *)
(***************************************************************************)
EXTENDS Integers, FiniteSets

CONSTANTS
    Venues,         \* the venues that may be running
    PageSize,       \* items on a page
    SeenMax,        \* _seen_max, thousands; half of 1 would cut nothing
    MaxItems,       \* bound: items published
    MaxFetches      \* bound: polls that answer

ASSUME PollerAssumption ==
    /\ Venues \subseteq {"polymarket_activity", "news_rss", "reddit"}
    /\ SeenMax \in Nat \ {0, 1} /\ PageSize \in 0 .. SeenMax /\ MaxItems \in Nat /\ MaxFetches \in Nat

VARIABLES
    venue,          \* the venue
    stamps,         \* the time stamps of the items published so far, None for none
    fresh,          \* items of the page that are still to be looked at
    out,            \* news_rss: items that are marked as seen and still to be yielded
    seen,           \* _seen_ids, _seen_urls, seen
    fetches,        \* polls that have answered
    emitted         \* history: how often an item has been emitted

pollerVars == <<venue, stamps, fresh, out, seen, fetches, emitted>>

None == -1
Items == 1 .. MaxItems
Published == DOMAIN stamps
Newest == {i \in Published : i > Cardinality(Published) - PageSize}

\* Mistake: the set is cut one id later.
Trimmed_Late(s) ==
    IF Cardinality(s) <= SeenMax + 1 THEN {s}
    ELSE {t \in SUBSET s : Cardinality(t) = Cardinality(s) - SeenMax \div 2}

\* The ids that may be left after an id was added: set(list(s)[max // 2 :]),
\* in no particular order.
Trimmed(s) ==
    IF Cardinality(s) <= SeenMax THEN {s}
    ELSE {t \in SUBSET s : Cardinality(t) = Cardinality(s) - SeenMax \div 2}

\* A process starts: news_rss and reddit mark the page of the moment as seen,
\* unless that request fails; polymarket_activity does not.
Seeds == IF venue = "polymarket_activity" THEN {{}} ELSE {{}, Newest}

PollerInit ==
    /\ venue \in Venues
    /\ stamps = [i \in {} |-> 0]
    /\ fresh = {} /\ out = {} /\ seen \in Seeds
    /\ fetches = 0
    /\ emitted = [i \in Items |-> 0]

\* The next start.
Restarted ==
    /\ fresh' = {} /\ out' = {} /\ seen' \in Seeds
    /\ UNCHANGED <<venue, stamps, fetches, emitted>>

-----------------------------------------------------------------------------
Publish(ts) ==
    /\ Cardinality(Published) < MaxItems
    /\ stamps' = [i \in 1 .. Cardinality(Published) + 1 |-> IF i \in Published THEN stamps[i] ELSE ts]
    /\ UNCHANGED <<venue, fresh, out, seen, fetches, emitted>>

\* _fetch_recent, _fetch_new, _fetch_feed.  A failed request changes nothing.
Fetch ==
    /\ fresh = {} /\ out = {} /\ fetches < MaxFetches
    /\ fetches' = fetches + 1
    /\ fresh' = Newest
    /\ UNCHANGED <<venue, stamps, out, seen, emitted>>

\* An item that has been seen is passed over.
Pass(i) ==
    /\ i \in fresh \cap seen
    /\ fresh' = fresh \ {i}
    /\ UNCHANGED <<venue, stamps, out, seen, fetches, emitted>>

Mark(i) ==
    /\ i \in fresh \ seen
    /\ seen' \in Trimmed(seen \cup {i})

Emit(i) == emitted' = [emitted EXCEPT ![i] = @ + 1]

\* _normalize of polymarket_activity and the loop of reddit: marked, then
\* yielded at once.
Yield(i) ==
    /\ venue # "news_rss"
    /\ Mark(i) /\ Emit(i)
    /\ fresh' = fresh \ {i}
    /\ UNCHANGED <<venue, stamps, out, fetches>>

\* polymarket_activity: an item that cannot be read raises after it has been
\* marked, and the rest of the page is left for the next poll.
Raise(i) ==
    /\ venue = "polymarket_activity"
    /\ Mark(i)
    /\ fresh' = {}
    /\ UNCHANGED <<venue, stamps, out, fetches, emitted>>

\* _fetch_feed of news_rss marks a whole page before any of it is yielded.
MarkAhead(i) ==
    /\ venue = "news_rss"
    /\ Mark(i)
    /\ fresh' = fresh \ {i}
    /\ out' = out \cup {i}
    /\ UNCHANGED <<venue, stamps, fetches, emitted>>

YieldMarked(i) ==
    /\ fresh = {} /\ i \in out
    /\ out' = out \ {i}
    /\ Emit(i)
    /\ UNCHANGED <<venue, stamps, fresh, seen, fetches>>

PollerNext ==
    \/ \E i \in Items : Pass(i) \/ Raise(i) \/ MarkAhead(i) \/ YieldMarked(i)
    \/ Fetch

-----------------------------------------------------------------------------
PollerTypeOK ==
    /\ venue \in Venues
    /\ Published \subseteq Items /\ \A i \in Published : stamps[i] \in Nat \cup {None}
    /\ fresh \subseteq Published /\ out \subseteq Published
    /\ seen \subseteq Published /\ Cardinality(seen) <= SeenMax
    /\ fetches \in 0 .. MaxFetches
    /\ emitted \in [Items -> Nat]
=============================================================================
