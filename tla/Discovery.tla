------------------------------ MODULE Discovery -----------------------------
(***************************************************************************)
(* src/src/venues/polymarket_markets.py, and the use Runner._init_venues   *)
(* makes of it: the markets known, the assets whose books are subscribed   *)
(* to, and the two events discovery emits, MARKET_META when a market is    *)
(* first seen and MARKET_RESOLVED when its flag turns.                     *)
(*                                                                         *)
(* A poll reads a page of the venue's open markets and handles it item by  *)
(* item.  The handler of MARKET_RESOLVED awaits the database, and other    *)
(* events are handled meanwhile.                                           *)
(***************************************************************************)
EXTENDS MarketAssets, Integers, Sequences, SequencesExt, FiniteSets

CONSTANTS
    NoMarket,       \* outside Markets
    PageLimit,      \* the markets a page holds
    TopN,           \* top_n_by_volume: how many assets are subscribed to
    MaxPolls        \* bound: polls that answer

ASSUME DiscoveryAssumption ==
    /\ NoMarket \notin Markets
    /\ PageLimit \in Nat /\ TopN \in Nat /\ MaxPolls \in Nat

VARIABLES
    stage,          \* of a market at the venue
    known,          \* _known_meta
    flagged,        \* _last_resolution_state: the markets it has True for
    page,           \* what is left of the page of this poll: market to resolved flag
    resolving,      \* the market whose MARKET_RESOLVED is being handled
    subscribed,     \* the assets the CLOB adapter was given
    polls           \* polls that have answered with a page

discoveryVars == <<stage, known, flagged, page, resolving, subscribed, polls>>

Stages == {"unlisted", "open", "resolved", "closed"}
NoPage == [m \in {} |-> FALSE]

\* A page holds the active markets that are not closed, by volume: any order
\* may come out, and no more than the limit.  A failed request gives no page.
Listed == {m \in Markets : stage[m] \in {"open", "resolved"}}
Page(ms) == [m \in ms |-> stage[m] = "resolved"]
Fits(ms) == ms \subseteq Listed /\ (ms = Listed \/ Cardinality(ms) = PageLimit)
                /\ Cardinality(ms) <= PageLimit

\* asset_ids(): the assets of the known markets ms, market by market.
AssetIds(ms) ==
    {ids \in SetToSeqs({a \in Assets : MarketOf[a] \in ms}) :
        \A i, j \in DOMAIN ids : i < j /\ MarketOf[ids[i]] = MarketOf[ids[j]] =>
            /\ ids[i] < ids[j]
            /\ \A k \in i .. j : MarketOf[ids[k]] = MarketOf[ids[i]]}

FirstOf(ids) == {ids[i] : i \in {i \in DOMAIN ids : i <= TopN}}

\* _init_venues: one fetch before anything runs.  Whatever it lists is known,
\* and the first TopN assets are subscribed to for the life of the process;
\* when it fails (ms is empty) nothing is.
Boots ==
    UNION {{[known |-> ms, subscribed |-> FirstOf(ids)] : ids \in AssetIds(ms)} :
           ms \in {ms \in SUBSET Listed : Fits(ms) \/ ms = {}}}

DiscoveryInit ==
    /\ stage \in [Markets -> {"unlisted", "open"}]
    /\ \E b \in Boots : known = b.known /\ subscribed = b.subscribed
    /\ flagged = {} /\ page = NoPage /\ resolving = NoMarket
    /\ polls = 0

\* The next boot; what the venue has listed is listed still.
Reboot ==
    /\ \E b \in Boots : known' = b.known /\ subscribed' = b.subscribed
    /\ flagged' = {} /\ page' = NoPage /\ resolving' = NoMarket
    /\ UNCHANGED <<stage, polls>>

-----------------------------------------------------------------------------
\* The venue lists a market, resolves it, and some time later closes it.
Move(m) ==
    /\ \E i \in {<<"unlisted", "open">>, <<"open", "resolved">>, <<"resolved", "closed">>} :
          stage[m] = i[1] /\ stage' = [stage EXCEPT ![m] = i[2]]
    /\ UNCHANGED <<known, flagged, page, resolving, subscribed, polls>>

\* stream_events: a poll, the last page having been handled.
Poll ==
    /\ page = NoPage /\ resolving = NoMarket /\ polls < MaxPolls
    /\ polls' = polls + 1
    /\ \E ms \in SUBSET Listed : Fits(ms) /\ page' = Page(ms)
    /\ UNCHANGED <<stage, known, flagged, resolving, subscribed>>

IsNew(m) == m \notin known

\* An item of the page; it is resolved if the flag has turned since the last
\* poll, and the flag is only remembered when the event has been handled.
Item(m) ==
    /\ resolving = NoMarket /\ m \in DOMAIN page
    /\ known' = known \cup {m}
    /\ page' = [x \in DOMAIN page \ {m} |-> page[x]]
    /\ IF page[m] /\ m \notin flagged
       THEN resolving' = m /\ UNCHANGED flagged
       ELSE /\ flagged' = IF page[m] THEN flagged \cup {m} ELSE flagged \ {m}
            /\ UNCHANGED resolving
    /\ UNCHANGED <<stage, subscribed, polls>>

\* The handler of MARKET_RESOLVED has come to its end.
Resolved(m) ==
    /\ resolving = m
    /\ resolving' = NoMarket
    /\ flagged' = flagged \cup {m}
    /\ UNCHANGED <<stage, known, page, subscribed, polls>>

DiscoveryTypeOK ==
    /\ stage \in [Markets -> Stages]
    /\ known \subseteq Markets /\ flagged \subseteq known
    /\ DOMAIN page \subseteq Markets /\ page \in [DOMAIN page -> BOOLEAN]
    /\ resolving \in Markets \cup {NoMarket}
    /\ subscribed \subseteq Assets /\ Cardinality(subscribed) <= TopN
    /\ polls \in 0 .. MaxPolls
=============================================================================
