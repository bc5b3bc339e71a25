---------------------------- MODULE StrategyFeed ----------------------------
(***************************************************************************)
(* The strategy of a sleeve and what feeds it.  In a replay the events of  *)
(* the tape come in the order of their time, metadata included, and        *)
(* nothing clears the active set (replay_engine.py never calls             *)
(* clear_for_market).  In the live worker they come from the venues whose  *)
(* pipe is switched on: books and prints of the subscribed assets and the  *)
(* events of discovery from polymarket_clob, trades from                   *)
(* polymarket_activity; news_rss and reddit feed no shipped strategy.      *)
(* Each venue has a task of its own, and a restart resets them all.        *)
(***************************************************************************)
EXTENDS Strategies, Discovery, Poller

CONSTANTS
    Deployments,    \* [kind, cap, pipes] that occur; a replay has no pipes
    TradeOf         \* the wallet and the market of an item of polymarket_activity

ASSUME FeedAssumption ==
    /\ Deployments \subseteq [kind : Kinds, cap : Nat, pipes : SUBSET (Venues \cup {"polymarket_clob"})]
    /\ TradeOf \in [Items -> Wallets \X Markets]

VARIABLE pipes  \* the pipes that are on

vars == <<strategyVars, discoveryVars, pollerVars, pipes>>

Live == pipes # {}
Leans == {"bullish", "bearish", "balanced"}

Init ==
    /\ \E d \in Deployments :
          /\ kind = d.kind /\ cap = d.cap /\ pipes = d.pipes
          /\ venue = IF pipes \cap Venues = {} THEN "polymarket_activity"
                     ELSE CHOOSE v \in pipes : v \in Venues
    /\ StrategyInit /\ DiscoveryInit /\ PollerInit
    /\ "polymarket_clob" \notin pipes => stage = [m \in Markets |-> "unlisted"]

-----------------------------------------------------------------------------
\* An event of an asset: any of the tape, or one of a subscribed asset.
Heard(a) == IF Live THEN a \in subscribed ELSE TRUE

BookEvent(a) ==
    /\ Heard(a)
    /\ \E top \in Tops, lean \in Leans : OnBook(a, top, lean)
    /\ UNCHANGED <<discoveryVars, pollerVars, pipes>>

TradePrint(a) ==
    /\ Heard(a)
    /\ \E p \in PrintPrices : OnPrint(a, p)
    /\ UNCHANGED <<discoveryVars, pollerVars, pipes>>

\* Of the tape: metadata, and trades, which come in the order of their time.
TapeMeta(m) == ~Live /\ OnMeta(m) /\ UNCHANGED <<discoveryVars, pollerVars, pipes>>
TapeTrade(w, m) ==
    /\ ~Live
    /\ OnTrade(w, m, now, 0)
    /\ UNCHANGED <<discoveryVars, pollerVars, pipes>>

\* The discovery task: MARKET_META for an item that is new, and the end of a
\* MARKET_RESOLVED.
Discover(m) ==
    /\ "polymarket_clob" \in pipes
    /\ Item(m)
    /\ IF IsNew(m) THEN OnMeta(m) ELSE UNCHANGED strategyVars
    /\ UNCHANGED <<pollerVars, pipes>>

Resolve(m) ==
    /\ Resolved(m) /\ OnResolution(m)
    /\ UNCHANGED <<pollerVars, pipes>>

Venue ==
    /\ "polymarket_clob" \in pipes
    /\ Poll \/ \E m \in Markets : Move(m)
    /\ UNCHANGED <<strategyVars, pollerVars, pipes>>

\* Mistake: a trade happens when it is read.
StampOf_Now(i) == now
\* The polling task.  _parse_ts: a trade without a time stamp happens now.
StampOf(i) == IF stamps[i] = None THEN now ELSE stamps[i]

Trade(i) ==
    /\ Yield(i)
    /\ IF venue = "polymarket_activity" /\ kind = "whale_copy_eod"
       THEN OnTrade(TradeOf[i][1], TradeOf[i][2], StampOf(i), i)
       ELSE UNCHANGED strategyVars
    /\ UNCHANGED <<discoveryVars, pipes>>

PollingVenue ==
    /\ venue \in pipes
    /\ \/ Publish(now) \/ Publish(None)
       \/ PollerNext
    /\ UNCHANGED <<strategyVars, discoveryVars, pipes>>

\* A crash of the worker, and its next boot.
Restart ==
    /\ Live
    /\ Forget /\ Reboot /\ Restarted
    /\ UNCHANGED pipes

Time == Tick /\ UNCHANGED <<discoveryVars, pollerVars, pipes>>

Next ==
    \/ \E a \in Assets : BookEvent(a) \/ TradePrint(a)
    \/ \E m \in Markets : TapeMeta(m) \/ Discover(m) \/ Resolve(m)
    \/ \E w \in Wallets, m \in Markets : TapeTrade(w, m)
    \/ \E i \in Items : Trade(i)
    \/ Venue \/ PollingVenue \/ Restart \/ Time

Spec == Init /\ [][Next]_vars

-----------------------------------------------------------------------------
(* Properties *)

\* The strategy, discovery and the polling venue are well typed together: the
\* set of seen ids and what is subscribed to stay within their limits.
TypeOK ==
    /\ StrategyTypeOK /\ DiscoveryTypeOK /\ PollerTypeOK
    /\ pipes \subseteq Venues \cup {"polymarket_clob"}

\* However often a trade is emitted, it is copied once in a life of the process:
\* the cooldown, which compares time stamps with their sign, catches what the
\* set of seen ids lets through.  A trade without a time stamp is not caught.
TradesAreCopiedOnce ==
    \A i, j \in DOMAIN entered :
        /\ i # j /\ entered[i].id = entered[j].id
        /\ entered[i].id \in Published /\ stamps[entered[i].id] # None
        => entered[i].life # entered[j].life

\* What polymarket_markets.py:106-107 says of MARKET_META: the strategies can
\* cache it.  Once the first boot has been followed by a poll, a strategy that
\* waits for metadata has it for the markets whose books it sees.
MetaReachesStrategies ==
    /\ Live /\ life = 0 /\ kind \in MetaKinds
    /\ polls > 0 /\ page = NoPage /\ resolving = NoMarket
    => \A a \in subscribed : MarketOf[a] \in meta
=============================================================================
