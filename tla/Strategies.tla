----------------------------- MODULE Strategies -----------------------------
(***************************************************************************)
(* The shipped strategies, src/src/strategies/*/strategy.py, and what they *)
(* keep in the state of their StrategyRunner: the books rebuilt from the   *)
(* events (_lib/book_state.py), the metadata (_lib/market_meta_cache.py),  *)
(* the active set (_lib/active_state.py), cooldowns, recent prices.        *)
(*                                                                         *)
(* One sleeve runs one of them.  on_event awaits nothing, so an event is   *)
(* handled in one step.  A book is its best bid and ask; an event carries  *)
(* the top it leaves behind.  Sizes, limits and reasons of signals are     *)
(* left out: a signal is the entry it makes in the active set.             *)
(***************************************************************************)
EXTENDS MarketAssets, Integers, Sequences, FiniteSets, FiniteSetsExt

CONSTANTS
    Wallets,            \* tracked_wallets
    Kinds,              \* the strategies that may be running
    Tops,               \* the tops of book that occur, 0 for an empty side
    PrintPrices,        \* the prices of trade prints
    MinLegs,            \* basket_arb: min_legs
    MaxSum,             \* max_sum_threshold of the arbs, less their min_edge
    MinSpread,          \* maker_passive: min_spread_ticks, a tick being 1
    Low, High,          \* the prices between which a strategy trades
    Adverse,            \* recent_adverse_threshold
    Spike,              \* mean_revert: spike_threshold_pct, in percent
    Cooldown,           \* place_interval, cooldown, fade_cooldown, wallet_market_cooldown
    Window,             \* recent_window_secs, window_secs
    Keep,               \* how long prints are kept
    Horizon,            \* redemption_sniper: time_to_resolution_window_secs
    EndTime,            \* the end_time of a market
    Weather, Liquid,    \* the markets with the category, with the volume a strategy asks for
    MaxTime,            \* bound: the clock
    MaxRecent,          \* bound: prints kept of an asset
    MaxEntries,         \* bound: entries made
    MaxRestarts         \* bound: restarts of the process

MetaKinds == {"maker_passive", "redemption_sniper", "weather_tail_buy", "weather_tail_sell"}
PrintKinds == {"redemption_sniper", "weather_tail_buy", "weather_tail_sell"}
OnceKinds == {"cross_outcome_arb", "basket_arb", "mean_revert_post_spike"} \cup PrintKinds
CooledKinds == {"maker_passive", "momentum_orderbook", "mean_revert_post_spike", "whale_copy_eod"}

Sides == {"buy", "sell"}

ASSUME StrategiesAssumption ==
    /\ \A m \in Markets : m \notin Assets /\ m \notin Wallets /\ m \notin Sides
    /\ Kinds \subseteq OnceKinds \cup CooledKinds
    /\ Tops \subseteq [bid : Nat, ask : Nat] /\ PrintPrices \subseteq Nat
    /\ Cooldown \in Nat \ {0}
    /\ \A n \in {MinLegs, MaxSum, MinSpread, Low, High, Adverse, Spike, Window, Keep, Horizon} : n \in Nat
    /\ EndTime \in [Markets -> Nat]
    /\ MaxTime \in Nat /\ MaxRecent \in Nat /\ MaxEntries \in Nat /\ MaxRestarts \in Nat

VARIABLES
    kind,       \* the strategy of the sleeve
    cap,        \* its max_concurrent_positions
    now,        \* the clock: the ts of the book events, prints and resolutions that come
    books,      \* state["_books"]: the top of an asset, seen once a snapshot has come
    meta,       \* state["_market_meta"]: the markets whose MARKET_META has come
    recent,     \* state["_recent_prints"] or ["_price_history"]
    active,     \* the active set, whichever key it is under
    last,       \* the cooldown map: when a key was last entered
    entered,    \* history: the entries made, in order
    freed,      \* history: how often a resolution has cleared a market
    life        \* restarts of the process so far

memory == <<books, meta, recent, active, last>>
strategyVars == <<kind, cap, now, memory, entered, freed, life>>

NoBook == [bid |-> 0, ask |-> 0, seen |-> FALSE]

\* What an entry of an active set is, for all shapes of them.
Keys == {<<m>> : m \in Markets}
          \cup {<<MarketOf[a], a>> : a \in Assets}
          \cup {<<MarketOf[a], a, side>> : a \in Assets, side \in Sides}
          \cup (Wallets \X Markets)

\* What a strategy that has seen no event keeps.
NoBooks == [a \in Assets |-> NoBook]
NoPrints == [a \in Assets |-> <<>>]
Never == [k \in {} |-> 0]

StrategyInit ==
    /\ kind \in Kinds /\ cap \in Nat
    /\ now = 0
    /\ books = NoBooks /\ meta = {} /\ recent = NoPrints /\ active = {} /\ last = Never
    /\ entered = <<>>
    /\ freed = [m \in Markets |-> 0]
    /\ life = 0

-----------------------------------------------------------------------------
(* What the strategies share *)

\* The assets of a market that have been seen: state["_market_assets"] gets an
\* asset with its first snapshot.
Legs(b, m) == {a \in Assets : MarketOf[a] = m /\ b[a].seen}

\* Mistake: the cap is compared after the fact.
Room_OneMore == Cardinality(active) <= cap
Room == Cardinality(active) < cap

\* Mistake: the distance in time counts, whichever came first.
Cooled_Distance(k, ts) ==
    k \in DOMAIN last => ts - last[k] >= Cooldown \/ last[k] - ts >= Cooldown
Cooled(k, ts) == k \in DOMAIN last => ts - last[k] >= Cooldown

\* The keys are added to the active set, a signal is emitted for each (for each
\* leg of an arb), and a strategy with cooldowns notes the time.
Enter(keys, ts, id) ==
    /\ keys # {} => Len(entered) < MaxEntries
    /\ active' = active \cup keys
    /\ last' = IF kind \in CooledKinds
               THEN [k \in DOMAIN last \cup keys |-> IF k \in keys THEN ts ELSE last[k]]
               ELSE last
    /\ entered' = IF keys = {} THEN entered
                  ELSE Append(entered, [keys |-> keys, ts |-> ts, id |-> id, life |-> life])

InBand(p) == Low <= p /\ p <= High

\* A print of the last Window ticks that is adverse to an entry at `ask`.
AdversePrint(a, ask) ==
    \E i \in DOMAIN recent[a] :
        /\ recent[a][i].price <= IF kind = "weather_tail_buy" THEN Adverse ELSE ask - Adverse
        /\ recent[a][i].ts >= now - Window

Mid(top) == top.bid + top.ask       \* in halves
TwoSided(top) == top.bid > 0 /\ top.ask > 0

\* A list of (ts, price): the new one goes in, those older than `keep` go.  Times
\* ascend, so these are the first ones.
Recall(list, price, keep) ==
    LET longer == Append(list, [ts |-> now, price |-> price])
    IN  SubSeq(longer, Min({i \in DOMAIN longer : longer[i].ts >= now - keep}), Len(longer))

\* Every leg has an ask, and together they cost no more than MaxSum.
CheapLegs(m, b) ==
    /\ \A a \in Legs(b, m) : b[a].ask > 0
    /\ MapThenSumSet(LAMBDA a : b[a].ask, Legs(b, m)) <= MaxSum

-----------------------------------------------------------------------------
(* on_event: what is entered on a book event of asset a of market m, b being
   the books with the event applied and h the recent prices of a. *)

\* Mistake: an arb that is already on is not skipped.
CrossOutcomeArb_Again(m, b) ==
    {k \in {<<m>>} : Cardinality(Legs(b, m)) = 2 /\ Room /\ CheapLegs(m, b)}
CrossOutcomeArb(m, b) ==
    {k \in {<<m>>} :
        Cardinality(Legs(b, m)) = 2 /\ k \notin active /\ Room /\ CheapLegs(m, b)}

\* With MARKET_META the number of legs is checked, without it MinLegs will do.
BasketArb(m, b) ==
    {k \in {<<m>>} :
        /\ k \notin active /\ Room
        /\ Cardinality(Legs(b, m)) >= MinLegs
        /\ m \in meta => Legs(b, m) = {a \in Assets : MarketOf[a] = m}
        /\ CheapLegs(m, b)}

\* A pair of quotes; the cap is looked at once for both.
MakerPassive(m, a, b) ==
    {k \in {<<m, a, side>> : side \in Sides} :
        /\ m \in meta /\ m \in Liquid
        /\ TwoSided(b[a]) /\ b[a].ask - b[a].bid >= MinSpread /\ b[a].ask - b[a].bid > 1
        /\ Room /\ Cooled(k, now)}

\* Bullish buys the asset, bearish the first other leg in the band.
MomentumTargets(m, a, b, lean) ==
    LET others == {x \in Legs(b, m) \ {a} : b[x].ask > 0 /\ InBand(b[x].ask)}
    IN  CASE lean = "bullish"  -> {a}
          [] lean = "bearish"  -> {x \in others : \A y \in others : x <= y}
          [] lean = "balanced" -> {}

MomentumOrderbook(m, a, b, lean) ==
    {k \in {<<m, x>> : x \in MomentumTargets(m, a, b, lean)} :
        /\ TwoSided(b[a]) /\ 2 * Low <= Mid(b[a]) /\ Mid(b[a]) <= 2 * High
        /\ Cooled(k, now) /\ Room}

\* A rise over the window is faded by buying another leg of the market.
MeanRevertPostSpike(m, a, b, h) ==
    {k \in {<<m>>} :
        /\ TwoSided(b[a]) /\ Len(h) >= 2
        /\ h[1].price > 0 /\ 100 * (Mid(b[a]) - h[1].price) >= Spike * h[1].price
        /\ Cooled(k, now) /\ k \notin active /\ Room
        /\ \E x \in Legs(b, m) \ {a} : b[x].ask > 0 /\ InBand(b[x].ask)}

\* What redemption_sniper and the weather strategies ask of an offer.
TailOffer(k, a, b) ==
    /\ b[a].ask > 0 /\ InBand(b[a].ask)
    /\ ~AdversePrint(a, b[a].ask)
    /\ k \notin active /\ Room

RedemptionSniper(m, a, b) ==
    {k \in {<<m, a>>} :
        /\ m \in meta
        /\ EndTime[m] - now <= Horizon /\ EndTime[m] > now
        /\ TailOffer(k, a, b)}

WeatherTail(m, a, b) == {k \in {<<m, a>>} : m \in meta /\ m \in Weather /\ TailOffer(k, a, b)}

Entries(m, a, b, h, lean) ==
    CASE kind = "cross_outcome_arb" -> CrossOutcomeArb(m, b)
      [] kind = "basket_arb" -> BasketArb(m, b)
      [] kind = "maker_passive" -> MakerPassive(m, a, b)
      [] kind = "momentum_orderbook" -> MomentumOrderbook(m, a, b, lean)
      [] kind = "mean_revert_post_spike" -> MeanRevertPostSpike(m, a, b, h)
      [] kind = "redemption_sniper" -> RedemptionSniper(m, a, b)
      [] kind \in {"weather_tail_buy", "weather_tail_sell"} -> WeatherTail(m, a, b)

-----------------------------------------------------------------------------
(* Events *)

\* A snapshot, or a delta for an asset that has a book; any other delta is
\* dropped.  lean is what the sizes at the top say to momentum_orderbook.
\* whale_copy_eod keeps books to price its copies only.
OnBook(a, top, lean) ==
    LET m == MarketOf[a]
        b == [books EXCEPT ![a] = [bid |-> top.bid, ask |-> top.ask, seen |-> TRUE]]
        h == IF kind = "mean_revert_post_spike" /\ TwoSided(top)
             THEN Recall(recent[a], Mid(top), Window) ELSE recent[a]
    IN  /\ kind # "whale_copy_eod"
        /\ lean # "balanced" => kind = "momentum_orderbook"
        /\ Len(h) <= MaxRecent
        /\ books' = b
        /\ recent' = [recent EXCEPT ![a] = h]
        /\ Enter(Entries(m, a, b, h, lean), now, 0)
        /\ UNCHANGED <<kind, cap, now, meta, freed, life>>

\* A trade print: the strategies that look for adverse prints keep it.
OnPrint(a, price) ==
    /\ kind \in PrintKinds /\ Len(recent[a]) < MaxRecent
    /\ recent' = [recent EXCEPT ![a] = Recall(@, price, Keep)]
    /\ UNCHANGED <<kind, cap, now, books, meta, active, last, entered, freed, life>>

\* market_meta_cache.apply
OnMeta(m) ==
    /\ meta' = IF kind \in MetaKinds \cup {"basket_arb"} THEN meta \cup {m} ELSE meta
    /\ UNCHANGED <<kind, cap, now, books, recent, active, last, entered, freed, life>>

\* whale_copy_eod: a trade of a tracked wallet, worth copying, with a price.
\* ts is the trade's own time, and trades need not come in its order.
OnTrade(w, m, ts, id) ==
    /\ kind = "whale_copy_eod"
    /\ Enter({k \in {<<w, m>>} : Cooled(k, ts) /\ Room}, ts, id)
    /\ UNCHANGED <<kind, cap, now, books, meta, recent, freed, life>>

\* active_state.clear_for_market, of every position of an entry; cooldowns and
\* books stay.
ClearForMarket(m) == active' = {k \in active : \A i \in DOMAIN k : k[i] # m}

OnResolution(m) ==
    /\ ClearForMarket(m)
    /\ freed' = [freed EXCEPT ![m] = @ + 1]
    /\ UNCHANGED <<kind, cap, now, books, meta, recent, last, entered, life>>

\* The process dies and boots again: every runner starts with an empty state.
Forget ==
    /\ life < MaxRestarts
    /\ life' = life + 1
    /\ books' = NoBooks /\ meta' = {} /\ recent' = NoPrints /\ active' = {} /\ last' = Never
    /\ UNCHANGED <<kind, cap, now, entered, freed>>

Tick ==
    /\ now < MaxTime
    /\ now' = now + 1
    /\ UNCHANGED <<kind, cap, memory, entered, freed, life>>

-----------------------------------------------------------------------------
(* Properties *)

\* The strategy's state is well typed: whatever the events, the active set and
\* the cooldown map hold keys of the shape the clearing of a market scans.
StrategyTypeOK ==
    /\ kind \in Kinds /\ cap \in Nat /\ now \in Nat /\ life \in Nat
    /\ books \in [Assets -> [bid : Nat, ask : Nat, seen : BOOLEAN]]
    /\ meta \subseteq Markets
    /\ recent \in [Assets -> Seq([ts : Nat, price : Nat])]
    /\ active \subseteq Keys
    /\ DOMAIN last \subseteq Keys /\ last \in [DOMAIN last -> Int]
    /\ entered \in Seq([keys : SUBSET Keys, ts : Int, id : Nat, life : 0 .. life])
    /\ freed \in [Markets -> Nat]

\* max_concurrent_positions bounds the active set through any sequence of
\* events, resolutions and restarts; a pair of quotes, whose cap is looked at
\* once for both, may end one above it (maker_passive/strategy.py:101).
CapHolds == Cardinality(active) <= IF kind = "maker_passive" THEN cap + 1 ELSE cap

EntriesOf(k) == {i \in DOMAIN entered : k \in entered[i].keys}

\* An arb, a fade or a tail is on at most once: a strategy that looks at its
\* active set enters a key again only if a resolution has cleared the market in
\* between, or a restart has emptied the set (main.py:172).
OnceUntilFreed ==
    kind \in OnceKinds =>
        \A m \in Markets : \A k \in Keys :
            k[1] = m => Cardinality(EntriesOf(k)) <= 1 + freed[m] + life

\* Two entries of one key in one life of the process are a cooldown apart by
\* the time of their events, though resolutions clear the active set, and
\* trades come out of order and come again.
CooldownHolds ==
    kind \in CooledKinds =>
        \A i, j \in DOMAIN entered :
            i < j /\ entered[i].life = entered[j].life /\ entered[i].keys \cap entered[j].keys # {} =>
                entered[j].ts - entered[i].ts >= Cooldown
=============================================================================
