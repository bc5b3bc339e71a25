--------------------------- MODULE StrategyProofs ---------------------------
(***************************************************************************)
(* Proofs about StrategyFeed, for any markets, events, pages, limits and   *)
(* number of restarts: the cap of an active set, cooldowns, entries made   *)
(* once, and trades copied once.                                           *)
(*                                                                         *)
(* All of them are about the entries a strategy makes.  Admissible says    *)
(* what is true of the keys of one entry, whichever strategy makes it; the *)
(* properties follow from that, and from what clears the active set.       *)
(***************************************************************************)
EXTENDS StrategyFeed, TLAPS, FiniteSetTheorems, SequenceTheorems, WellFoundedInduction

Entry == [keys : SUBSET Keys, ts : Int, id : Nat, life : Nat]

\* One key, or two of maker_passive.
Few(K) == \E e, f : K \subseteq {e, f} /\ (kind # "maker_passive" => e = f)

\* The keys K are entered for an event of time ts, of the item id of the polling
\* venue or 0.
Admissible(K, ts, id) ==
    /\ K \in SUBSET Keys /\ ts \in Int /\ id \in Nat
    /\ Few(K)
    /\ K # {} => Room
    /\ kind \in CooledKinds => \A k \in K : Cooled(k, ts)
    /\ kind \in OnceKinds => K \cap active = {}
    /\ id # 0 =>
          /\ id \in Published /\ kind = "whale_copy_eod" /\ K \subseteq {TradeOf[id]}
          /\ stamps[id] # None => ts = stamps[id]

-----------------------------------------------------------------------------
(* The polling venue: items are published one after the other. *)

PollerInv ==
    /\ \E n \in Nat : Published = 1 .. n
    /\ \A i \in Published : stamps[i] \in Int
    /\ fresh \subseteq Published

StampsStay ==
    /\ Published \subseteq Published'
    /\ \A i \in Published : stamps'[i] = stamps[i]

LEMMA PublishStep ==
    ASSUME PollerInv, NEW ts \in Int, Publish(ts) PROVE PollerInv' /\ StampsStay
<1>1. PICK n \in Nat : Published = 1 .. n
  BY DEF PollerInv
<1>2. Cardinality(Published) = n
  BY <1>1, FS_Interval
<1>3. stamps' = [i \in 1 .. n + 1 |-> IF i \in Published THEN stamps[i] ELSE ts] /\ fresh' = fresh
  BY <1>2 DEF Publish
<1>4. Published' = 1 .. n + 1
  BY <1>3 DEF Published
<1>5. Published \subseteq Published'
  BY <1>1, <1>4
<1>6. \A i \in Published' : stamps'[i] = IF i \in Published THEN stamps[i] ELSE ts
  BY <1>3, <1>4
<1>7. PollerInv'
  <2>1. n + 1 \in Nat
    OBVIOUS
  <2> QED
    BY <1>3, <1>4, <1>5, <1>6, <2>1 DEF PollerInv
<1> QED
  BY <1>5, <1>6, <1>7 DEF StampsStay

\* Every other step leaves the stamps alone, and looks at what is published.
LEMMA PollerStep ==
    ASSUME PollerInv, UNCHANGED stamps, fresh' \subseteq fresh \/ fresh' = Newest
    PROVE  PollerInv' /\ StampsStay
BY DEF PollerInv, StampsStay, Published, Newest

-----------------------------------------------------------------------------
(* What the strategies enter. *)

\* A comprehension over one key gives that key or nothing.
LEMMA EntriesAreAdmissible ==
    ASSUME kind \in Kinds, kind # "whale_copy_eod", now \in Nat,
           NEW a \in Assets, NEW b, NEW h, NEW lean \in Leans
    PROVE  Admissible(Entries(MarketOf[a], a, b, h, lean), now, 0)
<1> DEFINE m == MarketOf[a]
           K == Entries(m, a, b, h, lean)
<1>0. m \in Markets /\ a \in Assets /\ now \in Int /\ 0 \in Nat
  BY AssetsAssumption
<1>1. kind \in OnceKinds \cup CooledKinds
  BY StrategiesAssumption
<1>2. /\ <<m>> \in Keys /\ <<m, a>> \in Keys
      /\ \A side \in Sides : <<m, a, side>> \in Keys
      /\ \A x \in Assets : MarketOf[x] = m => <<m, x>> \in Keys
  BY <1>0 DEF Keys
<1> HIDE DEF K
<1>3. SUFFICES /\ K \subseteq Keys /\ Few(K)
               /\ K # {} => Room
               /\ kind \in CooledKinds => \A k \in K : Cooled(k, now)
               /\ kind \in OnceKinds => K \cap active = {}
  BY <1>0, <1>3 DEF Admissible, K
<1>4. CASE kind = "cross_outcome_arb"
  <2>1. K \subseteq {<<m>>} /\ \A k \in K : k \notin active /\ Room
    BY <1>4 DEF K, Entries, CrossOutcomeArb
  <2> QED
    BY <1>2, <1>4, <2>1 DEF Few, CooledKinds
<1>5. CASE kind = "basket_arb"
  <2>1. K \subseteq {<<m>>} /\ \A k \in K : k \notin active /\ Room
    BY <1>5 DEF K, Entries, BasketArb
  <2> QED
    BY <1>2, <1>5, <2>1 DEF Few, CooledKinds
<1>6. CASE kind = "maker_passive"
  <2>1. /\ K \subseteq {<<m, a, "buy">>, <<m, a, "sell">>}
        /\ \A k \in K : Room /\ Cooled(k, now)
    BY <1>6 DEF K, Entries, MakerPassive, Sides
  <2>2. kind \notin OnceKinds
    BY <1>6 DEF OnceKinds, PrintKinds
  <2> QED
    BY <1>2, <1>6, <2>1, <2>2 DEF Few, Sides
<1>7. CASE kind = "momentum_orderbook"
  <2> DEFINE T == MomentumTargets(m, a, b, lean)
  <2>1. \A k \in K : (\E x \in T : k = <<m, x>>) /\ Room /\ Cooled(k, now)
    BY <1>7 DEF K, Entries, MomentumOrderbook
  <2>2. \A x, y \in T : x = y /\ x \in Assets /\ MarketOf[x] = m
    <3>1. CASE lean = "bullish"
      BY <3>1, <1>0 DEF MomentumTargets
    <3>2. CASE lean = "bearish"
      <4> DEFINE others == {x \in Legs(b, m) \ {a} : b[x].ask > 0 /\ InBand(b[x].ask)}
      <4>1. T = {x \in others : \A y \in others : x <= y}
        BY <3>2 DEF MomentumTargets
      <4>2. \A x \in others : x \in Assets /\ MarketOf[x] = m
        BY DEF Legs
      <4> HIDE DEF others, T
      <4>3. \A x, y \in T : x \in others /\ y \in others /\ x <= y /\ y <= x
        BY <4>1
      <4>4. \A x, y \in T : x \in Nat /\ y \in Nat
        BY <4>2, <4>3, AssetsAssumption
      <4> QED
        BY <4>2, <4>3, <4>4
    <3>3. CASE lean = "balanced"
      BY <3>3 DEF MomentumTargets
    <3> QED
      BY <3>1, <3>2, <3>3 DEF Leans
  <2> HIDE DEF T
  <2>3. K \subseteq Keys
    BY <1>2, <2>1, <2>2
  <2>4. \E e : K \subseteq {e}
    <3>1. CASE K = {}
      BY <3>1
    <3>2. CASE K # {}
      <4>1. PICK e \in K : TRUE
        BY <3>2
      <4>2. \A k \in K : k = e
        BY <2>1, <2>2
      <4> QED
        BY <4>2
    <3> QED
      BY <3>1, <3>2
  <2>5. Few(K)
    BY <2>4 DEF Few
  <2>6. kind \notin OnceKinds
    BY <1>7 DEF OnceKinds, PrintKinds
  <2> QED
    BY <2>1, <2>3, <2>5, <2>6
<1>8. CASE kind = "mean_revert_post_spike"
  <2>1. K \subseteq {<<m>>} /\ \A k \in K : k \notin active /\ Room /\ Cooled(k, now)
    BY <1>8 DEF K, Entries, MeanRevertPostSpike
  <2> QED
    BY <1>2, <2>1 DEF Few
<1>9. CASE kind = "redemption_sniper"
  <2>1. K \subseteq {<<m, a>>} /\ \A k \in K : k \notin active /\ Room
    BY <1>9 DEF K, Entries, RedemptionSniper, TailOffer
  <2> QED
    BY <1>2, <1>9, <2>1 DEF Few, CooledKinds
<1>10. CASE kind \in {"weather_tail_buy", "weather_tail_sell"}
  <2>1. K \subseteq {<<m, a>>} /\ \A k \in K : k \notin active /\ Room
    BY <1>10 DEF K, Entries, WeatherTail, TailOffer
  <2> QED
    BY <1>2, <1>10, <2>1 DEF Few, CooledKinds
<1> QED
  BY <1>1, <1>4, <1>5, <1>6, <1>7, <1>8, <1>9, <1>10 DEF OnceKinds, CooledKinds, PrintKinds

LEMMA TradesAreAdmissible ==
    ASSUME kind = "whale_copy_eod", NEW w \in Wallets, NEW m \in Markets, NEW ts \in Int, NEW id \in Nat,
           id # 0 => /\ id \in Published /\ TradeOf[id] = <<w, m>>
                     /\ stamps[id] # None => ts = stamps[id]
    PROVE  Admissible({k \in {<<w, m>>} : Cooled(k, ts) /\ Room}, ts, id)
<1> DEFINE K == {k \in {<<w, m>>} : Cooled(k, ts) /\ Room}
<1>1. K \subseteq {<<w, m>>} /\ \A k \in K : Cooled(k, ts) /\ Room
  OBVIOUS
<1>2. <<w, m>> \in Keys
  BY DEF Keys
<1> HIDE DEF K
<1>3. kind \notin OnceKinds
  BY DEF OnceKinds, PrintKinds
<1>4. Few(K)
  BY <1>1 DEF Few
<1>5. K \in SUBSET Keys
  BY <1>1, <1>2
<1>6. Admissible(K, ts, id)
  BY <1>1, <1>3, <1>4, <1>5 DEF Admissible
<1> QED
  BY <1>6 DEF K

-----------------------------------------------------------------------------
(* What a step is to the active set. *)

Entering ==
    \E K, ts, id :
        /\ Admissible(K, ts, id) /\ Enter(K, ts, id)
        /\ UNCHANGED <<kind, cap, now, freed, life>>
Clearing == \E m \in Markets : OnResolution(m)
Resting == UNCHANGED <<kind, cap, active, last, entered, freed, life>> /\ now' \in Nat

Scalars == kind \in Kinds /\ cap \in Nat /\ now \in Nat

LEMMA BookStep ==
    ASSUME Scalars, PollerInv, NEW a \in Assets, BookEvent(a)
    PROVE  Entering /\ PollerInv' /\ StampsStay
<1>1. PICK top \in Tops, lean \in Leans : OnBook(a, top, lean)
  BY DEF BookEvent
<1>2. PICK b, h : Enter(Entries(MarketOf[a], a, b, h, lean), now, 0)
  BY <1>1 DEF OnBook
<1>3. Admissible(Entries(MarketOf[a], a, b, h, lean), now, 0)
  BY <1>1, EntriesAreAdmissible DEF Scalars, OnBook
<1>4. Entering
  BY <1>1, <1>2, <1>3 DEF Entering, OnBook
<1>5. UNCHANGED stamps /\ fresh' \subseteq fresh
  BY DEF BookEvent, pollerVars
<1> QED
  BY <1>4, <1>5, PollerStep

LEMMA TapeTradeStep ==
    ASSUME Scalars, PollerInv, NEW w \in Wallets, NEW m \in Markets, TapeTrade(w, m)
    PROVE  Entering /\ PollerInv' /\ StampsStay
<1>1. OnTrade(w, m, now, 0) /\ UNCHANGED stamps /\ fresh' \subseteq fresh
  BY DEF TapeTrade, pollerVars
<1>2. Admissible({k \in {<<w, m>>} : Cooled(k, now) /\ Room}, now, 0)
  BY <1>1, TradesAreAdmissible DEF OnTrade, Scalars
<1>3. Entering
  BY <1>1, <1>2 DEF Entering, OnTrade
<1> QED
  BY <1>1, <1>3, PollerStep

LEMMA TradeStep ==
    ASSUME Scalars, PollerInv, NEW i \in Items, Trade(i)
    PROVE  (Entering \/ Resting) /\ PollerInv' /\ StampsStay
<1>1. i \in Published /\ UNCHANGED stamps /\ fresh' \subseteq fresh
  BY DEF Trade, Yield, Mark, PollerInv
<1>2. PollerInv' /\ StampsStay
  BY <1>1, PollerStep
<1>3. CASE venue = "polymarket_activity" /\ kind = "whale_copy_eod"
  <2> DEFINE w == TradeOf[i][1]
             m == TradeOf[i][2]
             ts == StampOf(i)
  <2>1. OnTrade(w, m, ts, i)
    BY <1>3 DEF Trade
  <2>2. TradeOf[i] \in Wallets \X Markets /\ w \in Wallets /\ m \in Markets /\ TradeOf[i] = <<w, m>>
    BY FeedAssumption
  <2>3. ts \in Int /\ (stamps[i] # None => ts = stamps[i])
    BY <1>1 DEF StampOf, PollerInv, Scalars
  <2>4. i \in Nat
    BY <1>1 DEF PollerInv
  <2> HIDE DEF w, m, ts
  <2>5. Admissible({k \in {<<w, m>>} : Cooled(k, ts) /\ Room}, ts, i)
    BY <1>1, <1>3, <2>2, <2>3, <2>4, TradesAreAdmissible
  <2>6. Entering
    BY <2>1, <2>5 DEF Entering, OnTrade
  <2> QED
    BY <1>2, <2>6
<1>4. CASE ~(venue = "polymarket_activity" /\ kind = "whale_copy_eod")
  <2>1. Resting
    BY <1>4 DEF Trade, strategyVars, memory, Resting, Scalars
  <2> QED
    BY <1>2, <2>1
<1> QED
  BY <1>3, <1>4

LEMMA PollingStep ==
    ASSUME Scalars, PollerInv, PollingVenue PROVE Resting /\ PollerInv' /\ StampsStay
<1>1. Resting
  BY DEF PollingVenue, strategyVars, memory, Resting, Scalars
<1>2. CASE Publish(now) \/ Publish(None)
  BY <1>1, <1>2, PublishStep DEF Scalars, None
<1>3. CASE PollerNext
  <2>1. UNCHANGED stamps /\ (fresh' \subseteq fresh \/ fresh' = Newest)
    BY <1>3 DEF PollerNext, Pass, Raise, MarkAhead, YieldMarked, Fetch
  <2> QED
    BY <1>1, <2>1, PollerStep
<1> QED
  BY <1>2, <1>3 DEF PollingVenue

\* Every step enters keys that are admissible, clears a market, starts the
\* process anew, or leaves the active set and its history alone.
LEMMA StepKinds ==
    ASSUME Scalars, PollerInv, [Next]_vars
    PROVE  /\ Entering \/ Clearing \/ Forget \/ Resting
           /\ Scalars' /\ PollerInv' /\ StampsStay
<1>1. ASSUME NEW a \in Assets, BookEvent(a) PROVE Entering /\ PollerInv' /\ StampsStay
  BY <1>1, BookStep
<1>2. ASSUME NEW a \in Assets, TradePrint(a) PROVE Resting /\ PollerInv' /\ StampsStay
  <2>1. Resting /\ UNCHANGED stamps /\ fresh' \subseteq fresh
    BY <1>2 DEF TradePrint, OnPrint, pollerVars, Resting, Scalars
  <2> QED
    BY <2>1, PollerStep
<1>3. ASSUME NEW m \in Markets, TapeMeta(m) \/ Discover(m) PROVE Resting /\ PollerInv' /\ StampsStay
  <2>1. Resting /\ UNCHANGED stamps /\ fresh' \subseteq fresh
    BY <1>3 DEF TapeMeta, Discover, OnMeta, pollerVars, strategyVars, memory, Resting, Scalars
  <2> QED
    BY <2>1, PollerStep
<1>4. ASSUME NEW m \in Markets, Resolve(m) PROVE Clearing /\ PollerInv' /\ StampsStay
  <2>1. Clearing /\ UNCHANGED stamps /\ fresh' \subseteq fresh
    BY <1>4 DEF Resolve, pollerVars, Clearing
  <2> QED
    BY <2>1, PollerStep
<1>5. ASSUME NEW w \in Wallets, NEW m \in Markets, TapeTrade(w, m) PROVE Entering /\ PollerInv' /\ StampsStay
  BY <1>5, TapeTradeStep
<1>6. ASSUME NEW i \in Items, Trade(i) PROVE (Entering \/ Resting) /\ PollerInv' /\ StampsStay
  BY <1>6, TradeStep
<1>7. CASE Venue \/ Time \/ UNCHANGED vars
  <2>1. Resting /\ UNCHANGED stamps /\ fresh' \subseteq fresh
    BY <1>7 DEF Venue, Time, Tick, vars, pollerVars, strategyVars, memory, Resting, Scalars
  <2> QED
    BY <2>1, PollerStep DEF Resting, Scalars
<1>8. CASE PollingVenue
  BY <1>8, PollingStep DEF Resting, Scalars
<1>9. CASE Restart
  <2>1. Forget /\ UNCHANGED stamps /\ fresh' \subseteq fresh
    BY <1>9 DEF Restart, Restarted
  <2> QED
    BY <2>1, PollerStep DEF Forget, Scalars
<1>10. Entering \/ Clearing \/ Forget \/ Resting => Scalars'
  BY DEF Entering, Clearing, OnResolution, Forget, Resting, Scalars
<1> QED
  BY <1>1, <1>2, <1>3, <1>4, <1>5, <1>6, <1>7, <1>8, <1>9, <1>10 DEF Next

-----------------------------------------------------------------------------
(* What all steps preserve. *)

History ==
    /\ active \subseteq Keys /\ IsFiniteSet(active)
    /\ entered \in Seq(Entry) /\ life \in Nat /\ freed \in [Markets -> Nat]

BaseInv == Scalars /\ PollerInv /\ History

\* An entry is put behind the others, or nothing is entered.
LEMMA Entered ==
    ASSUME entered \in Seq(Entry), life \in Nat, NEW K \in SUBSET Keys, NEW ts \in Int, NEW id \in Nat,
           Enter(K, ts, id)
    PROVE  /\ entered' \in Seq(Entry)
           /\ \/ K = {} /\ entered' = entered
              \/ /\ K # {}
                 /\ DOMAIN entered' = 1 .. Len(entered) + 1 /\ DOMAIN entered = 1 .. Len(entered)
                 /\ entered'[Len(entered) + 1] = [keys |-> K, ts |-> ts, id |-> id, life |-> life]
                 /\ \A i \in 1 .. Len(entered) : entered'[i] = entered[i]
<1>1. CASE K = {}
  BY <1>1 DEF Enter
<1>2. CASE K # {}
  <2> DEFINE e == [keys |-> K, ts |-> ts, id |-> id, life |-> life]
  <2>1. e \in Entry
    BY DEF Entry
  <2>2. entered' = Append(entered, e)
    BY <1>2 DEF Enter
  <2> HIDE DEF e
  <2>3. /\ entered' \in Seq(Entry) /\ DOMAIN entered' = 1 .. Len(entered) + 1 /\ DOMAIN entered = 1 .. Len(entered)
        /\ entered'[Len(entered) + 1] = e
        /\ \A i \in 1 .. Len(entered) : entered'[i] = entered[i]
    BY <2>1, <2>2
  <2> QED
    BY <1>2, <2>3 DEF e
<1> QED
  BY <1>1, <1>2

LEMMA FewAreFinite ==
    ASSUME NEW K, Few(K), NEW S, IsFiniteSet(S)
    PROVE  /\ IsFiniteSet(S \cup K)
           /\ Cardinality(S \cup K) <= Cardinality(S) + (IF kind = "maker_passive" THEN 2 ELSE 1)
<1>1. PICK e, f : K \subseteq {e, f} /\ (kind # "maker_passive" => e = f)
  BY DEF Few
<1> DEFINE T == S \cup {e}
           U == T \cup {f}
<1>2. Cardinality(S) \in Nat
  BY FS_CardinalityType
<1>3. IsFiniteSet(T) /\ Cardinality(T) <= Cardinality(S) + 1 /\ Cardinality(T) \in Nat
  BY <1>2, FS_AddElement
<1> HIDE DEF T
<1>4. IsFiniteSet(U) /\ Cardinality(U) = IF f \in T THEN Cardinality(T) ELSE Cardinality(T) + 1
  BY <1>3, FS_AddElement
<1>5. S \cup K \subseteq U /\ (kind # "maker_passive" => f \in T)
  BY <1>1 DEF T
<1> HIDE DEF U
<1>6. IsFiniteSet(S \cup K) /\ Cardinality(S \cup K) <= Cardinality(U) /\ Cardinality(S \cup K) \in Nat
  BY <1>4, <1>5, FS_Subset, FS_CardinalityType
<1>7. Cardinality(U) <= Cardinality(S) + (IF kind = "maker_passive" THEN 2 ELSE 1)
  BY <1>2, <1>3, <1>4, <1>5
<1>8. Cardinality(U) \in Nat
  BY <1>3, <1>4
<1> QED
  BY <1>2, <1>6, <1>7, <1>8

LEMMA ClearingShrinks ==
    ASSUME IsFiniteSet(active), active' \subseteq active
    PROVE  IsFiniteSet(active') /\ Cardinality(active') <= Cardinality(active)
BY FS_Subset

LEMMA BaseStep == BaseInv /\ [Next]_vars => BaseInv' /\ StampsStay /\ (Entering \/ Clearing \/ Forget \/ Resting)
<1> SUFFICES ASSUME BaseInv, [Next]_vars
             PROVE  BaseInv' /\ StampsStay /\ (Entering \/ Clearing \/ Forget \/ Resting)
  OBVIOUS
<1>1. /\ Entering \/ Clearing \/ Forget \/ Resting
      /\ Scalars' /\ PollerInv' /\ StampsStay
  BY StepKinds DEF BaseInv
<1>2. CASE Entering
  <2>1. PICK K, ts, id : Admissible(K, ts, id) /\ Enter(K, ts, id) /\ UNCHANGED <<kind, cap, now, freed, life>>
    BY <1>2 DEF Entering
  <2>2. entered' \in Seq(Entry)
    BY <2>1, Entered DEF BaseInv, History, Admissible
  <2>3. active' = active \cup K /\ K \in SUBSET Keys /\ Few(K)
    BY <2>1 DEF Enter, Admissible
  <2>4. IsFiniteSet(active') /\ active' \subseteq Keys
    BY <2>3, FewAreFinite DEF BaseInv, History
  <2> QED
    BY <1>1, <1>2, <2>1, <2>2, <2>4 DEF BaseInv, History
<1>3. CASE Clearing
  <2>1. active' \subseteq active /\ UNCHANGED <<entered, life>> /\ freed' \in [Markets -> Nat]
    BY <1>3 DEF Clearing, OnResolution, ClearForMarket, BaseInv, History
  <2>2. IsFiniteSet(active')
    BY <2>1, ClearingShrinks DEF BaseInv, History
  <2> QED
    BY <1>1, <1>3, <2>1, <2>2 DEF BaseInv, History
<1>4. CASE Forget
  BY <1>1, <1>4, FS_EmptySet DEF Forget, BaseInv, History
<1>5. CASE Resting
  BY <1>1, <1>5 DEF Resting, BaseInv, History
<1> QED
  BY <1>1, <1>2, <1>3, <1>4, <1>5

LEMMA BaseInitially == Init => BaseInv
<1> SUFFICES ASSUME Init PROVE BaseInv
  OBVIOUS
<1>1. kind \in Kinds /\ cap \in Nat /\ now = 0 /\ active = {} /\ entered = <<>> /\ life = 0 /\ freed = [m \in Markets |-> 0]
  BY DEF Init, StrategyInit
<1>2. stamps = [i \in {} |-> 0] /\ fresh = {}
  BY DEF Init, PollerInit
<1>3. Published = 1 .. 0 /\ 0 \in Nat
  BY <1>2 DEF Published
<1>4. \A i \in Published : FALSE
  BY <1>2 DEF Published
<1>5. PollerInv
  BY <1>2, <1>3, <1>4 DEF PollerInv
<1> QED
  BY <1>1, <1>5, FS_EmptySet DEF BaseInv, Scalars, History

-----------------------------------------------------------------------------
(* The cap. *)

LEMMA CapStep == BaseInv /\ CapHolds /\ [Next]_vars => CapHolds'
<1> SUFFICES ASSUME BaseInv, CapHolds, [Next]_vars PROVE CapHolds'
  OBVIOUS
<1>0. /\ Entering \/ Clearing \/ Forget \/ Resting
      /\ IsFiniteSet(active) /\ IsFiniteSet(active') /\ cap \in Nat
  BY BaseStep DEF BaseInv, History, Scalars
<1>1. Cardinality(active) \in Nat /\ Cardinality(active') \in Nat
  BY <1>0, FS_CardinalityType
<1>2. CASE Entering
  <2>1. PICK K, ts, id : Admissible(K, ts, id) /\ Enter(K, ts, id) /\ UNCHANGED <<kind, cap>>
    BY <1>2 DEF Entering
  <2>2. active' = active \cup K /\ Few(K)
    BY <2>1 DEF Enter, Admissible
  <2>3. CASE K = {}
    BY <2>1, <2>2, <2>3 DEF CapHolds
  <2>4. CASE Room
    <3>1. Cardinality(active') <= Cardinality(active) + (IF kind = "maker_passive" THEN 2 ELSE 1)
      BY <1>0, <2>2, FewAreFinite
    <3> QED
      BY <1>0, <1>1, <2>1, <2>4, <3>1 DEF CapHolds, Room
  <2> QED
    BY <2>1, <2>3, <2>4 DEF Admissible
<1>3. CASE Clearing
  <2>1. active' \subseteq active /\ UNCHANGED <<kind, cap>>
    BY <1>3 DEF Clearing, OnResolution, ClearForMarket
  <2>2. Cardinality(active') <= Cardinality(active)
    BY <1>0, <2>1, ClearingShrinks
  <2> QED
    BY <1>0, <1>1, <2>1, <2>2 DEF CapHolds
<1>4. CASE Forget
  BY <1>0, <1>4, FS_EmptySet DEF Forget, CapHolds
<1>5. CASE Resting
  BY <1>5 DEF Resting, CapHolds
<1> QED
  BY <1>0, <1>2, <1>3, <1>4, <1>5

\* The active set keeps to max_concurrent_positions, a pair of quotes aside,
\* whichever strategy runs, in a replay and live.
THEOREM CapIsKept == Spec => []CapHolds
<1>1. Init => CapHolds
  BY FS_EmptySet DEF Init, StrategyInit, CapHolds
<1>2. BaseInv /\ CapHolds /\ [Next]_vars => BaseInv' /\ CapHolds'
  BY BaseStep, CapStep
<1> QED
  BY <1>1, <1>2, BaseInitially, PTL DEF Spec

-----------------------------------------------------------------------------
(* Cooldowns. *)

\* The cooldown map remembers the latest entry of every key of this life.
Remembered ==
    kind \in CooledKinds =>
        /\ \A k \in DOMAIN last : last[k] \in Int
        /\ \A i \in DOMAIN entered :
              /\ entered[i].life <= life
              /\ entered[i].life = life =>
                    \A k \in entered[i].keys : k \in DOMAIN last /\ entered[i].ts <= last[k]

CoolInv == Remembered /\ CooldownHolds

LEMMA CoolEntering ==
    ASSUME BaseInv, CoolInv, Entering, kind \in CooledKinds PROVE CoolInv'
<1>1. PICK K, ts, id : /\ Admissible(K, ts, id) /\ Enter(K, ts, id)
                       /\ UNCHANGED <<kind, cap, now, freed, life>>
  BY DEF Entering
<1> DEFINE n == Len(entered) + 1
<1>2. /\ K \in SUBSET Keys /\ ts \in Int /\ id \in Nat /\ \A k \in K : Cooled(k, ts)
      /\ entered \in Seq(Entry) /\ life \in Nat
  BY <1>1 DEF Admissible, BaseInv, History
<1>3. last' = [k \in DOMAIN last \cup K |-> IF k \in K THEN ts ELSE last[k]]
  BY <1>1 DEF Enter
<1>4. /\ \A k \in DOMAIN last : last[k] \in Int
      /\ \A i \in DOMAIN entered :
            /\ entered[i].life <= life
            /\ entered[i].life = life =>
                  \A k \in entered[i].keys : k \in DOMAIN last /\ entered[i].ts <= last[k]
  BY DEF CoolInv, Remembered
<1>5. \A k \in DOMAIN last : k \in DOMAIN last' /\ last[k] \in Int /\ last'[k] \in Int /\ last[k] <= last'[k]
  <2> SUFFICES ASSUME NEW k \in DOMAIN last
               PROVE  k \in DOMAIN last' /\ last[k] \in Int /\ last'[k] \in Int /\ last[k] <= last'[k]
    OBVIOUS
  <2>1. k \in DOMAIN last' /\ last'[k] = IF k \in K THEN ts ELSE last[k]
    BY <1>3
  <2>2. k \in K => ts - last[k] >= Cooldown
    BY <1>2 DEF Cooled
  <2> QED
    BY <1>2, <1>4, <2>1, <2>2, StrategiesAssumption
<1>6. DOMAIN last' = DOMAIN last \cup K /\ \A k \in K : last'[k] = ts
  BY <1>3
<1>7. \A i \in DOMAIN entered : entered[i] \in Entry
  BY <1>2
<1>8. \A i \in DOMAIN entered :
         entered[i].life = life =>
             \A k \in entered[i].keys : k \in DOMAIN last' /\ entered[i].ts <= last'[k]
  <2> SUFFICES ASSUME NEW i \in DOMAIN entered, entered[i].life = life, NEW k \in entered[i].keys
               PROVE  k \in DOMAIN last' /\ entered[i].ts <= last'[k]
    OBVIOUS
  <2>1. k \in DOMAIN last /\ entered[i].ts <= last[k] /\ entered[i].ts \in Int
    BY <1>4, <1>7 DEF Entry
  <2> QED
    BY <1>5, <2>1
<1>9. \A k \in DOMAIN last' : last'[k] \in Int
  BY <1>2, <1>5, <1>6
<1>10. CASE K = {} /\ entered' = entered
  <2>1. Remembered'
    BY <1>1, <1>4, <1>8, <1>9, <1>10 DEF Remembered
  <2>2. CooldownHolds'
    BY <1>1, <1>10 DEF CoolInv, CooldownHolds
  <2> QED
    BY <2>1, <2>2 DEF CoolInv
<1>11. CASE /\ DOMAIN entered' = 1 .. n /\ DOMAIN entered = 1 .. Len(entered)
            /\ entered'[n] = [keys |-> K, ts |-> ts, id |-> id, life |-> life]
            /\ \A i \in 1 .. Len(entered) : entered'[i] = entered[i]
  <2>0. Len(entered) \in Nat /\ \A i \in DOMAIN entered' : i = n \/ (i \in DOMAIN entered /\ entered'[i] = entered[i])
    BY <1>2, <1>11
  <2>00. entered'[n].keys = K /\ entered'[n].ts = ts /\ entered'[n].life = life /\ life <= life
    BY <1>2, <1>11
  <2>1. Remembered'
    <3>1. ASSUME NEW i \in DOMAIN entered'
          PROVE  /\ entered'[i].life <= life
                 /\ entered'[i].life = life =>
                       \A k \in entered'[i].keys : k \in DOMAIN last' /\ entered'[i].ts <= last'[k]
      <4>1. CASE i = n
        BY <1>2, <1>6, <2>00, <4>1
      <4>2. CASE i \in DOMAIN entered /\ entered'[i] = entered[i]
        BY <1>4, <1>8, <4>2
      <4> QED
        BY <2>0, <4>1, <4>2
    <3> QED
      BY <1>1, <1>9, <3>1 DEF Remembered
  <2>2. CooldownHolds'
    <3> SUFFICES ASSUME NEW i \in DOMAIN entered', NEW j \in DOMAIN entered', i < j,
                        entered'[i].life = entered'[j].life,
                        entered'[i].keys \cap entered'[j].keys # {}
                 PROVE  entered'[j].ts - entered'[i].ts >= Cooldown
      BY DEF CooldownHolds
    <3>1. i \in DOMAIN entered /\ entered'[i] = entered[i]
      BY <1>11, <2>0
    <3>2. CASE j = n
      <4>1. PICK k : k \in entered[i].keys /\ k \in K
        BY <2>00, <3>1, <3>2
      <4>0. entered[i].life = life /\ entered[i] \in Entry
        BY <1>7, <2>00, <3>1, <3>2
      <4>2. k \in DOMAIN last /\ entered[i].ts <= last[k] /\ last[k] \in Int /\ entered[i].ts \in Int
        BY <1>4, <3>1, <4>1, <4>0 DEF Entry
      <4>3. ts - last[k] >= Cooldown
        BY <1>2, <4>1, <4>2 DEF Cooled
      <4>4. ts \in Int /\ Cooldown \in Int
        BY <1>2, StrategiesAssumption
      <4>5. ts - entered[i].ts >= Cooldown
        BY ONLY <4>2, <4>3, <4>4
      <4> QED
        BY <2>00, <3>1, <3>2, <4>5
    <3>3. CASE j \in DOMAIN entered /\ entered'[j] = entered[j]
      BY <3>1, <3>3 DEF CoolInv, CooldownHolds
    <3> QED
      BY <2>0, <3>2, <3>3
  <2> QED
    BY <2>1, <2>2 DEF CoolInv
<1>12. \/ K = {} /\ entered' = entered
       \/ /\ DOMAIN entered' = 1 .. n /\ DOMAIN entered = 1 .. Len(entered)
          /\ entered'[n] = [keys |-> K, ts |-> ts, id |-> id, life |-> life]
          /\ \A i \in 1 .. Len(entered) : entered'[i] = entered[i]
  BY <1>1, <1>2, Entered
<1> QED
  BY <1>10, <1>11, <1>12

LEMMA CoolStep == BaseInv /\ CoolInv /\ [Next]_vars => CoolInv'
<1> SUFFICES ASSUME BaseInv, CoolInv, [Next]_vars PROVE CoolInv'
  OBVIOUS
<1>0. (Entering \/ Clearing \/ Forget \/ Resting) /\ kind' = kind
  BY BaseStep DEF Entering, Clearing, OnResolution, Forget, Resting
<1>1. CASE kind \notin CooledKinds
  BY <1>0, <1>1 DEF CoolInv, Remembered, CooldownHolds
<1>2. CASE kind \in CooledKinds
  <2>1. CASE Entering
    BY <1>2, <2>1, CoolEntering
  <2>2. CASE Clearing \/ Resting
    <3>1. UNCHANGED <<kind, cap, last, entered, life>>
      BY <2>2 DEF Clearing, OnResolution, Resting
    <3> QED
      BY <3>1 DEF CoolInv, Remembered, CooldownHolds
  <2>3. CASE Forget
    <3>1. CooldownHolds'
      BY <2>3 DEF Forget, CoolInv, CooldownHolds
    <3>2. \A i \in DOMAIN entered : entered[i].life \in Nat /\ entered[i].life <= life /\ life \in Nat
      <4>1. \A i \in DOMAIN entered : entered[i] \in Entry
        BY DEF BaseInv, History
      <4>2. \A i \in DOMAIN entered : entered[i].life \in Nat
        BY <4>1 DEF Entry
      <4> QED
        BY <1>2, <4>2 DEF BaseInv, History, CoolInv, Remembered
    <3>3. entered' = entered /\ life' = life + 1 /\ \A k \in DOMAIN last' : FALSE
      BY <2>3 DEF Forget, Never
    <3>4. \A i \in DOMAIN entered' : entered'[i].life <= life' /\ entered'[i].life # life'
      BY <3>2, <3>3
    <3>5. Remembered'
      BY <3>3, <3>4 DEF Remembered
    <3> QED
      BY <3>1, <3>5 DEF CoolInv
  <2> QED
    BY <1>0, <2>1, <2>2, <2>3
<1> QED
  BY <1>1, <1>2

LEMMA CoolInitially == Init => CoolInv
BY DEF Init, StrategyInit, Never, CoolInv, Remembered, CooldownHolds

\* A key is not entered again before its cooldown is over, by the time of the
\* events, though the active set was cleared and trades come out of order.
THEOREM CooldownsAreKept == Spec => []CooldownHolds
<1>1. BaseInv /\ CoolInv /\ [Next]_vars => BaseInv' /\ CoolInv'
  BY BaseStep, CoolStep
<1>2. CoolInv => CooldownHolds
  BY DEF CoolInv
<1> QED
  BY <1>1, <1>2, BaseInitially, CoolInitially, PTL DEF Spec

-----------------------------------------------------------------------------
(* Copies of trades. *)

\* An entry made for a trade is that trade's, at its time.
OfTheTrade(e) ==
    /\ e.keys # {}
    /\ e.id # 0 =>
          /\ e.id \in Published /\ kind = "whale_copy_eod" /\ e.keys = {TradeOf[e.id]}
          /\ stamps[e.id] # None => e.ts = stamps[e.id]
CopyInv == \A i \in DOMAIN entered : OfTheTrade(entered[i])

LEMMA CopyStep == BaseInv /\ CopyInv /\ [Next]_vars => CopyInv'
<1> SUFFICES ASSUME BaseInv, CopyInv, [Next]_vars PROVE CopyInv'
  OBVIOUS
<1>0. (Entering \/ Clearing \/ Forget \/ Resting) /\ StampsStay /\ kind' = kind
  BY BaseStep DEF Entering, Clearing, OnResolution, Forget, Resting
<1>1. ASSUME NEW e, OfTheTrade(e) PROVE OfTheTrade(e)'
  BY <1>0, <1>1 DEF OfTheTrade, StampsStay
<1>2. CASE Entering
  <2>1. PICK K, ts, id : Admissible(K, ts, id) /\ Enter(K, ts, id)
    BY <1>2 DEF Entering
  <2>2. K \in SUBSET Keys /\ ts \in Int /\ id \in Nat /\ entered \in Seq(Entry) /\ life \in Nat
    BY <2>1 DEF Admissible, BaseInv, History
  <2>3. CASE K = {} /\ entered' = entered
    BY <1>1, <2>3 DEF CopyInv
  <2>4. CASE /\ K # {}
             /\ DOMAIN entered' = 1 .. Len(entered) + 1 /\ DOMAIN entered = 1 .. Len(entered)
             /\ entered'[Len(entered) + 1] = [keys |-> K, ts |-> ts, id |-> id, life |-> life]
             /\ \A i \in 1 .. Len(entered) : entered'[i] = entered[i]
    <3> DEFINE new == [keys |-> K, ts |-> ts, id |-> id, life |-> life]
    <3>1. new.keys = K /\ new.ts = ts /\ new.id = id
      OBVIOUS
    <3> HIDE DEF new
    <3>2. OfTheTrade(new)
      BY <2>1, <2>4, <3>1 DEF Admissible, OfTheTrade
    <3>3. \A i \in DOMAIN entered' : entered'[i] = new \/ (i \in DOMAIN entered /\ entered'[i] = entered[i])
      BY <2>2, <2>4 DEF new
    <3>4. ASSUME NEW i \in DOMAIN entered' PROVE OfTheTrade(entered'[i])
      BY <3>2, <3>3 DEF CopyInv
    <3>5. Published \subseteq Published' /\ \A i \in Published : stamps'[i] = stamps[i]
      BY <1>0 DEF StampsStay
    <3> QED
      BY <1>0, <3>4, <3>5 DEF CopyInv, OfTheTrade
  <2> QED
    BY <2>1, <2>2, <2>3, <2>4, Entered
<1>3. CASE Clearing \/ Forget \/ Resting
  <2>1. entered' = entered
    BY <1>3 DEF Clearing, OnResolution, Forget, Resting
  <2> QED
    BY <1>1, <2>1 DEF CopyInv
<1> QED
  BY <1>0, <1>2, <1>3

\* A trade that carries a time stamp is copied once in a life of the process,
\* whatever the set of seen ids forgets: the two copies would have the same key
\* and the same time, and a cooldown is between them.
THEOREM TradesCopiedOnce == Spec => []TradesAreCopiedOnce
<1>1. BaseInv /\ CoolInv /\ CopyInv /\ [Next]_vars => BaseInv' /\ CoolInv' /\ CopyInv'
  BY BaseStep, CoolStep, CopyStep
<1>2. BaseInv /\ CoolInv /\ CopyInv => TradesAreCopiedOnce
  <2> SUFFICES ASSUME BaseInv, CoolInv, CopyInv,
                      NEW i \in DOMAIN entered, NEW j \in DOMAIN entered, i # j,
                      entered[i].id = entered[j].id, entered[i].id \in Published,
                      stamps[entered[i].id] # None, entered[i].life = entered[j].life
               PROVE  FALSE
    BY DEF TradesAreCopiedOnce
  <2>1. entered[i].id # 0
    BY DEF BaseInv, PollerInv
  <2>2. /\ kind = "whale_copy_eod" /\ entered[i].keys = entered[j].keys /\ entered[i].ts = entered[j].ts
        /\ entered[i].keys \cap entered[j].keys # {}
    BY <2>1 DEF CopyInv, OfTheTrade
  <2>3. /\ entered[i] \in Entry /\ entered[j] \in Entry
        /\ DOMAIN entered = 1 .. Len(entered)
    BY DEF BaseInv, History
  <2>4. i < j \/ j < i
    BY <2>3
  <2>5. entered[j].ts - entered[i].ts >= Cooldown \/ entered[i].ts - entered[j].ts >= Cooldown
    BY <2>2, <2>4 DEF CoolInv, CooldownHolds, CooledKinds
  <2> QED
    BY <2>2, <2>3, <2>5, StrategiesAssumption DEF Entry
<1>3. Init => CopyInv
  BY DEF Init, StrategyInit, CopyInv
<1> QED
  BY <1>1, <1>2, <1>3, BaseInitially, CoolInitially, PTL DEF Spec

-----------------------------------------------------------------------------
(* Entries made once. *)

\* What there has been of a key: an entry for every time its market was cleared
\* or the process started, and the one that is on.
On(k) == IF k \in active THEN 1 ELSE 0
OnceInv ==
    kind \in OnceKinds =>
        \A m \in Markets : \A k \in Keys :
            k[1] = m => Cardinality(EntriesOf(k)) <= freed[m] + life + On(k)

LEMMA EntriesAreFinite ==
    ASSUME History, NEW k PROVE IsFiniteSet(EntriesOf(k)) /\ Cardinality(EntriesOf(k)) \in Nat
<1>1. DOMAIN entered = 1 .. Len(entered) /\ Len(entered) \in Nat
  BY DEF History
<1>2. IsFiniteSet(1 .. Len(entered)) /\ EntriesOf(k) \subseteq 1 .. Len(entered)
  BY <1>1, FS_Interval DEF EntriesOf
<1>3. IsFiniteSet(EntriesOf(k))
  BY <1>2, FS_Subset
<1> QED
  BY <1>3, FS_CardinalityType

LEMMA OnceEntering ==
    ASSUME BaseInv, OnceInv, Entering, kind \in OnceKinds PROVE OnceInv'
<1>1. PICK K, ts, id : /\ Admissible(K, ts, id) /\ Enter(K, ts, id)
                       /\ UNCHANGED <<kind, cap, now, freed, life>>
  BY DEF Entering
<1>2. /\ K \in SUBSET Keys /\ ts \in Int /\ id \in Nat /\ K \cap active = {}
      /\ entered \in Seq(Entry) /\ life \in Nat /\ freed \in [Markets -> Nat]
      /\ active' = active \cup K
  BY <1>1 DEF Admissible, Enter, BaseInv, History
<1> SUFFICES ASSUME NEW m \in Markets, NEW k \in Keys, k[1] = m
             PROVE  Cardinality(EntriesOf(k)') <= freed[m] + life + On(k)'
  BY <1>1 DEF OnceInv
<1>3. /\ IsFiniteSet(EntriesOf(k)) /\ Cardinality(EntriesOf(k)) \in Nat /\ freed[m] \in Nat
      /\ Cardinality(EntriesOf(k)) <= freed[m] + life + On(k)
  BY <1>2, EntriesAreFinite DEF BaseInv, OnceInv
<1>4. CASE k \notin K
  <2>1. EntriesOf(k)' = EntriesOf(k)
    <3>1. CASE K = {} /\ entered' = entered
      BY <3>1 DEF EntriesOf
    <3>2. CASE /\ DOMAIN entered' = 1 .. Len(entered) + 1 /\ DOMAIN entered = 1 .. Len(entered)
               /\ entered'[Len(entered) + 1] = [keys |-> K, ts |-> ts, id |-> id, life |-> life]
               /\ \A i \in 1 .. Len(entered) : entered'[i] = entered[i]
      <4>1. \A i \in DOMAIN entered' : i = Len(entered) + 1 \/ i \in DOMAIN entered
        BY <1>2, <3>2
      <4>2. DOMAIN entered \subseteq DOMAIN entered' /\ k \notin entered'[Len(entered) + 1].keys
        BY <1>2, <1>4, <3>2
      <4> QED
        BY <3>2, <4>1, <4>2 DEF EntriesOf
    <3> QED
      BY <1>1, <1>2, <3>1, <3>2, Entered
  <2>2. On(k)' = On(k)
    BY <1>2, <1>4 DEF On
  <2> QED
    BY <1>3, <2>1, <2>2
<1>5. CASE k \in K
  <2>1. /\ DOMAIN entered' = 1 .. Len(entered) + 1 /\ DOMAIN entered = 1 .. Len(entered)
        /\ entered'[Len(entered) + 1] = [keys |-> K, ts |-> ts, id |-> id, life |-> life]
        /\ \A i \in 1 .. Len(entered) : entered'[i] = entered[i]
    BY <1>1, <1>2, <1>5, Entered
  <2>2. EntriesOf(k)' = EntriesOf(k) \cup {Len(entered) + 1}
    <3>1. \A i \in DOMAIN entered' : i = Len(entered) + 1 \/ i \in DOMAIN entered
      BY <1>2, <2>1
    <3>2. Len(entered) + 1 \in DOMAIN entered' /\ DOMAIN entered \subseteq DOMAIN entered'
      BY <1>2, <2>1
    <3>3. k \in entered'[Len(entered) + 1].keys
      BY <1>5, <2>1
    <3> QED
      BY <2>1, <3>1, <3>2, <3>3 DEF EntriesOf
  <2>3. /\ Cardinality(EntriesOf(k)') <= Cardinality(EntriesOf(k)) + 1
        /\ Cardinality(EntriesOf(k)') \in Nat
    <3> DEFINE E == EntriesOf(k)
    <3>1. IsFiniteSet(E) /\ Cardinality(E) \in Nat
      BY <1>3
    <3> HIDE DEF E
    <3>2. Cardinality(E \cup {Len(entered) + 1}) = IF Len(entered) + 1 \in E THEN Cardinality(E) ELSE Cardinality(E) + 1
      BY <3>1, FS_AddElement
    <3> QED
      BY <2>2, <3>1, <3>2 DEF E
  <2>4. On(k) = 0 /\ On(k)' = 1
    BY <1>2, <1>5 DEF On
  <2> QED
    BY <1>2, <1>3, <2>3, <2>4
<1> QED
  BY <1>4, <1>5

\* Only its own market clears a key that begins with a market.
LEMMA OwnMarketOnly ==
    ASSUME NEW m \in Markets, NEW k \in Keys, k[1] = m, NEW x \in Markets, NEW i \in DOMAIN k, k[i] = x
    PROVE  x = m
<1>1. m \notin Wallets /\ x \notin Assets /\ x \notin Sides
  BY StrategiesAssumption
<1>2. CASE \E y \in Markets : k = <<y>>
  BY <1>2
<1>3. CASE \E a \in Assets : k = <<MarketOf[a], a>>
  BY <1>1, <1>3
<1>4. CASE \E a \in Assets, side \in Sides : k = <<MarketOf[a], a, side>>
  BY <1>1, <1>4
<1>5. CASE k \in Wallets \X Markets
  BY <1>1, <1>5
<1> QED
  BY <1>2, <1>3, <1>4, <1>5 DEF Keys

LEMMA OnceStep == BaseInv /\ OnceInv /\ [Next]_vars => OnceInv'
<1> SUFFICES ASSUME BaseInv, OnceInv, [Next]_vars PROVE OnceInv'
  OBVIOUS
<1>0. (Entering \/ Clearing \/ Forget \/ Resting) /\ kind' = kind
  BY BaseStep DEF Entering, Clearing, OnResolution, Forget, Resting
<1>1. CASE kind \notin OnceKinds
  BY <1>0, <1>1 DEF OnceInv
<1>2. CASE kind \in OnceKinds
  <2>1. CASE Entering
    BY <1>2, <2>1, OnceEntering
  <2>2. CASE Resting
    <3>1. UNCHANGED <<kind, cap, active, entered, freed, life>>
      BY <2>2 DEF Resting
    <3> QED
      BY <3>1 DEF OnceInv, EntriesOf, On
  <2>3. CASE Forget
    <3>1. entered' = entered /\ life' = life + 1 /\ freed' = freed /\ active' = {}
      BY <2>3 DEF Forget
    <3>2. ASSUME NEW m \in Markets, NEW k \in Keys, k[1] = m
          PROVE  Cardinality(EntriesOf(k)') <= freed'[m] + life' + On(k)'
      <4>1. Cardinality(EntriesOf(k)) <= freed[m] + life + On(k) /\ Cardinality(EntriesOf(k)) \in Nat
        BY <1>2, <3>2, EntriesAreFinite DEF BaseInv, OnceInv
      <4>2. EntriesOf(k)' = EntriesOf(k) /\ On(k)' = 0 /\ On(k) \in {0, 1}
        BY <3>1 DEF EntriesOf, On
      <4>3. freed[m] \in Nat /\ life \in Nat
        BY DEF BaseInv, History
      <4> QED
        BY <3>1, <4>1, <4>2, <4>3
    <3> QED
      BY <3>2 DEF OnceInv
  <2>4. CASE Clearing
    <3>1. PICK x \in Markets : /\ active' = {k \in active : \A i \in DOMAIN k : k[i] # x}
                              /\ freed' = [freed EXCEPT ![x] = @ + 1]
                              /\ UNCHANGED <<entered, life>>
      BY <2>4 DEF Clearing, OnResolution, ClearForMarket
    <3>2. ASSUME NEW m \in Markets, NEW k \in Keys, k[1] = m
          PROVE  Cardinality(EntriesOf(k)') <= freed'[m] + life' + On(k)'
      <4>1. Cardinality(EntriesOf(k)) <= freed[m] + life + On(k) /\ Cardinality(EntriesOf(k)) \in Nat
        BY <1>2, <3>2, EntriesAreFinite DEF BaseInv, OnceInv
      <4>2. EntriesOf(k)' = EntriesOf(k)
        BY <3>1 DEF EntriesOf
      <4>3. /\ freed \in [Markets -> Nat] /\ freed[m] \in Nat /\ life \in Nat
            /\ On(k) \in {0, 1} /\ On(k)' \in {0, 1}
        BY DEF BaseInv, History, On
      <4>4. CASE x = m
        <5>1. freed'[m] = freed[m] + 1
          BY <3>1, <4>3, <4>4
        <5> QED
          BY <3>1, <4>1, <4>2, <4>3, <5>1
      <4>5. CASE x # m
        <5>1. freed'[m] = freed[m]
          BY <3>1, <4>3, <4>5
        <5>2. k \in active => k \in active'
          BY <3>1, <3>2, <4>5, OwnMarketOnly
        <5>3. On(k) <= On(k)'
          BY <5>2 DEF On
        <5> QED
          BY <3>1, <4>1, <4>2, <4>3, <5>1, <5>3
      <4> QED
        BY <4>4, <4>5
    <3> QED
      BY <3>2 DEF OnceInv
  <2> QED
    BY <1>0, <2>1, <2>2, <2>3, <2>4
<1> QED
  BY <1>1, <1>2

LEMMA OnceInitially == Init => OnceInv
<1> SUFFICES ASSUME Init PROVE OnceInv
  OBVIOUS
<1>1. entered = <<>> /\ active = {} /\ life = 0 /\ freed = [m \in Markets |-> 0]
  BY DEF Init, StrategyInit
<1>2. \A k : EntriesOf(k) = {}
  BY <1>1 DEF EntriesOf
<1>3. Cardinality({}) = 0
  BY FS_EmptySet
<1>4. ASSUME NEW m \in Markets, NEW k \in Keys PROVE Cardinality(EntriesOf(k)) <= freed[m] + life + On(k)
  <2>1. Cardinality(EntriesOf(k)) = 0 /\ freed[m] = 0 /\ life = 0 /\ On(k) = 0
    BY <1>1, <1>2, <1>3 DEF On
  <2> QED
    BY <2>1
<1> QED
  BY <1>4 DEF OnceInv

\* A strategy that looks at its active set enters a key again only after its
\* market was cleared or the process started anew.
THEOREM EnteredOnce == Spec => []OnceUntilFreed
<1>1. BaseInv /\ OnceInv /\ [Next]_vars => BaseInv' /\ OnceInv'
  BY BaseStep, OnceStep
<1>2. BaseInv /\ OnceInv => OnceUntilFreed
  <2> SUFFICES ASSUME BaseInv, OnceInv, kind \in OnceKinds, NEW m \in Markets, NEW k \in Keys, k[1] = m
               PROVE  Cardinality(EntriesOf(k)) <= 1 + freed[m] + life
    BY DEF OnceUntilFreed
  <2>1. Cardinality(EntriesOf(k)) <= freed[m] + life + On(k) /\ Cardinality(EntriesOf(k)) \in Nat
    BY EntriesAreFinite DEF BaseInv, OnceInv
  <2>2. freed[m] \in Nat /\ life \in Nat /\ On(k) \in {0, 1}
    BY DEF BaseInv, History, On
  <2> QED
    BY <2>1, <2>2
<1> QED
  BY <1>1, <1>2, BaseInitially, OnceInitially, PTL DEF Spec

-----------------------------------------------------------------------------
(* Types *)

\* What is pending has been heard of.
TypeInv == TypeOK /\ resolving \in known \cup {NoMarket}

LEMMA LeastOfNats ==
    ASSUME NEW T \in SUBSET Nat, T # {}
    PROVE  \E n \in T : \A m \in T : n <= m
<1>1. PICK n \in T : \A m \in T : ~(<<m, n>> \in OpToRel(<, Nat))
  <2>1. \E n \in T : \A m \in T : ~(<<m, n>> \in OpToRel(<, Nat))
    BY NatLessThanWellFounded, WFMin, Zenon
  <2> QED BY <2>1
<1>2. \A m \in T : ~(m < n)
  BY <1>1 DEF OpToRel
<1> QED
  BY <1>2

LEMMA RecallKeeps ==
    ASSUME NEW list \in Seq([ts : Nat, price : Nat]), now \in Nat, NEW price \in Nat, NEW keep \in Nat
    PROVE  Recall(list, price, keep) \in Seq([ts : Nat, price : Nat])
<1> DEFINE new == [ts |-> now, price |-> price]
           longer == Append(list, new)
           young == {i \in DOMAIN longer : longer[i].ts >= now - keep}
<1>1. new \in [ts : Nat, price : Nat]
  OBVIOUS
<1> PICK Point : Point = [ts : Nat, price : Nat]
  OBVIOUS
<1>2. /\ longer \in Seq(Point) /\ Len(longer) = Len(list) + 1 /\ Len(list) \in Nat
      /\ DOMAIN longer = 1 .. Len(longer) /\ longer[Len(longer)] = new
  <2>1. list \in Seq(Point) /\ new \in Point
    BY <1>1
  <2> HIDE DEF new
  <2> QED BY <2>1
<1>3. Len(longer) \in young
  BY <1>2
<1>4. young \in SUBSET Nat
  BY <1>2
<1> HIDE DEF longer, young
<1>5. PICK n \in young : \A i \in young : n <= i
  BY <1>3, <1>4, LeastOfNats
<1>6. Min(young) \in young
  BY <1>5 DEF Min
<1>7. Min(young) \in 1 .. Len(longer)
  BY <1>2, <1>6 DEF young
<1>8. SubSeq(longer, Min(young), Len(longer)) \in Seq(Point)
  <2>1. Min(young) \in Int /\ Len(longer) \in Int
    BY <1>2, <1>7
  <2>2. \A i \in Min(young) .. Len(longer) : longer[i] \in Point
    <3>1. \A i \in 1 .. Len(longer) : longer[i] \in Point
      BY <1>2, ElementOfSeq
    <3> QED BY <1>2, <1>7, <3>1
  <2> QED BY <2>1, <2>2, SubSeqProperties
<1> QED
  BY <1>8 DEF Recall, longer, young

\* The strategy.
LEMMA EnterTypes ==
    ASSUME StrategyTypeOK, NEW K \in SUBSET Keys, NEW ts \in Int, NEW id \in Nat, Enter(K, ts, id)
    PROVE  /\ active' \subseteq Keys
           /\ DOMAIN last' \subseteq Keys /\ last' \in [DOMAIN last' -> Int]
           /\ entered' \in Seq([keys : SUBSET Keys, ts : Int, id : Nat, life : 0 .. life])
<1>1. active' \subseteq Keys
  BY DEF Enter, StrategyTypeOK
<1>2. DOMAIN last' \subseteq Keys /\ last' \in [DOMAIN last' -> Int]
  <2>1. CASE kind \in CooledKinds
    <3>1. last' = [k \in DOMAIN last \cup K |-> IF k \in K THEN ts ELSE last[k]]
      BY <2>1 DEF Enter
    <3>2. DOMAIN last \subseteq Keys /\ \A k \in DOMAIN last : last[k] \in Int
      BY DEF StrategyTypeOK
    <3> QED BY <3>1, <3>2
  <2>2. CASE kind \notin CooledKinds
    BY <2>2 DEF Enter, StrategyTypeOK
  <2> QED BY <2>1, <2>2
<1>3. entered' \in Seq([keys : SUBSET Keys, ts : Int, id : Nat, life : 0 .. life])
  <2>1. PICK E : E = [keys : SUBSET Keys, ts : Int, id : Nat, life : 0 .. life]
    OBVIOUS
  <2>2. entered \in Seq(E) /\ [keys |-> K, ts |-> ts, id |-> id, life |-> life] \in E
    BY <2>1 DEF StrategyTypeOK
  <2>3. entered' \in Seq(E)
    BY <2>2 DEF Enter
  <2> QED BY <2>1, <2>3
<1> QED
  BY <1>1, <1>2, <1>3

LEMMA BookTypes ==
    ASSUME StrategyTypeOK, NEW a \in Assets, NEW top \in Tops, NEW lean \in Leans, OnBook(a, top, lean)
    PROVE  StrategyTypeOK'
<1> DEFINE b == [books EXCEPT ![a] = [bid |-> top.bid, ask |-> top.ask, seen |-> TRUE]]
           h == IF kind = "mean_revert_post_spike" /\ TwoSided(top)
                THEN Recall(recent[a], Mid(top), Window) ELSE recent[a]
<1>1. kind \in Kinds /\ kind # "whale_copy_eod" /\ now \in Nat
  BY DEF OnBook, StrategyTypeOK
<1>2. Enter(Entries(MarketOf[a], a, b, h, lean), now, 0)
  BY DEF OnBook
<1>3. Entries(MarketOf[a], a, b, h, lean) \in SUBSET Keys
  BY <1>1, EntriesAreAdmissible DEF Admissible
<1>4. /\ active' \subseteq Keys
      /\ DOMAIN last' \subseteq Keys /\ last' \in [DOMAIN last' -> Int]
      /\ entered' \in Seq([keys : SUBSET Keys, ts : Int, id : Nat, life : 0 .. life])
  <2> HIDE DEF b, h
  <2>1. now \in Int /\ 0 \in Nat
    BY <1>1
  <2> QED BY <1>2, <1>3, <2>1, EnterTypes
<1>5. top.bid \in Nat /\ top.ask \in Nat /\ Window \in Nat
  BY StrategiesAssumption
<1>6. books' \in [Assets -> [bid : Nat, ask : Nat, seen : BOOLEAN]]
  BY <1>5 DEF OnBook, StrategyTypeOK
<1>7. recent' \in [Assets -> Seq([ts : Nat, price : Nat])]
  <2>1. recent[a] \in Seq([ts : Nat, price : Nat])
    BY DEF StrategyTypeOK
  <2>2. Mid(top) \in Nat
    BY <1>5 DEF Mid
  <2>3. h \in Seq([ts : Nat, price : Nat])
    BY <1>1, <1>5, <2>1, <2>2, RecallKeeps
  <2>4. recent' = [recent EXCEPT ![a] = h]
    BY DEF OnBook
  <2> HIDE DEF h
  <2> QED BY <2>3, <2>4 DEF StrategyTypeOK
<1>8. UNCHANGED <<kind, cap, now, meta, freed, life>>
  BY DEF OnBook
<1> QED
  BY <1>4, <1>6, <1>7, <1>8 DEF StrategyTypeOK

LEMMA PrintTypes ==
    ASSUME StrategyTypeOK, NEW a \in Assets, NEW p \in PrintPrices, OnPrint(a, p)
    PROVE  StrategyTypeOK'
<1>1. recent[a] \in Seq([ts : Nat, price : Nat]) /\ p \in Nat /\ Keep \in Nat /\ now \in Nat
  BY StrategiesAssumption DEF StrategyTypeOK
<1>2. Recall(recent[a], p, Keep) \in Seq([ts : Nat, price : Nat])
  BY <1>1, RecallKeeps
<1>3. recent' \in [Assets -> Seq([ts : Nat, price : Nat])]
  BY <1>2 DEF OnPrint, StrategyTypeOK
<1> QED
  BY <1>3 DEF OnPrint, StrategyTypeOK

LEMMA TradeTypes ==
    ASSUME StrategyTypeOK, NEW w \in Wallets, NEW m \in Markets, NEW ts \in Int, NEW id \in Nat,
           OnTrade(w, m, ts, id)
    PROVE  StrategyTypeOK'
<1> DEFINE K == {k \in {<<w, m>>} : Cooled(k, ts) /\ Room}
<1>1. K \in SUBSET Keys
  BY DEF Keys
<1>2. Enter(K, ts, id)
  BY DEF OnTrade
<1> HIDE DEF K
<1>3. /\ active' \subseteq Keys
      /\ DOMAIN last' \subseteq Keys /\ last' \in [DOMAIN last' -> Int]
      /\ entered' \in Seq([keys : SUBSET Keys, ts : Int, id : Nat, life : 0 .. life])
  BY <1>1, <1>2, EnterTypes
<1> QED
  BY <1>3 DEF OnTrade, StrategyTypeOK

LEMMA ForgetTypes == ASSUME StrategyTypeOK, Forget PROVE StrategyTypeOK'
<1>1. entered' \in Seq([keys : SUBSET Keys, ts : Int, id : Nat, life : 0 .. life'])
  <2>1. PICK E : E = [keys : SUBSET Keys, ts : Int, id : Nat, life : 0 .. life]
    OBVIOUS
  <2>2. PICK F : F = [keys : SUBSET Keys, ts : Int, id : Nat, life : 0 .. life']
    OBVIOUS
  <2>3. E \subseteq F
    <3>1. life \in Nat /\ life' = life + 1
      BY DEF Forget, StrategyTypeOK
    <3>2. 0 .. life \subseteq 0 .. life'
      BY <3>1
    <3> QED BY <2>1, <2>2, <3>2
  <2>4. entered \in Seq(E) /\ entered' = entered
    BY <2>1 DEF Forget, StrategyTypeOK
  <2>5. entered \in Seq(F)
    BY <2>3, <2>4
  <2> QED BY <2>2, <2>4, <2>5
<1>2. books' \in [Assets -> [bid : Nat, ask : Nat, seen : BOOLEAN]]
  BY DEF Forget, NoBooks, NoBook
<1>3. recent' \in [Assets -> Seq([ts : Nat, price : Nat])]
  BY DEF Forget, NoPrints
<1>4. DOMAIN last' \subseteq Keys /\ last' \in [DOMAIN last' -> Int]
  BY DEF Forget, Never
<1> QED
  BY <1>1, <1>2, <1>3, <1>4 DEF Forget, StrategyTypeOK

\* What the other steps do to a strategy.
LEMMA OtherTypes ==
    ASSUME StrategyTypeOK,
           \/ \E m \in Markets : OnMeta(m) \/ OnResolution(m)
           \/ Tick
           \/ UNCHANGED strategyVars
    PROVE  StrategyTypeOK'
<1>1. ASSUME NEW m \in Markets, OnMeta(m) PROVE StrategyTypeOK'
  BY <1>1 DEF OnMeta, StrategyTypeOK
<1>2. ASSUME NEW m \in Markets, OnResolution(m) PROVE StrategyTypeOK'
  <2>1. active' \subseteq Keys
    BY <1>2 DEF OnResolution, ClearForMarket, StrategyTypeOK
  <2>2. freed' \in [Markets -> Nat]
    BY <1>2 DEF OnResolution, StrategyTypeOK
  <2> QED BY <1>2, <2>1, <2>2 DEF OnResolution, StrategyTypeOK
<1>3. CASE Tick
  BY <1>3 DEF Tick, memory, StrategyTypeOK
<1>4. CASE UNCHANGED strategyVars
  BY <1>4 DEF strategyVars, memory, StrategyTypeOK
<1> QED
  BY <1>1, <1>2, <1>3, <1>4

\* Discovery.
LEMMA BootTypes ==
    ASSUME NEW b \in Boots
    PROVE  /\ b.known \subseteq Markets
           /\ b.subscribed \subseteq Assets /\ Cardinality(b.subscribed) <= TopN
<1>0. PICK ms \in SUBSET Listed : \E ids \in AssetIds(ms) : b = [known |-> ms, subscribed |-> FirstOf(ids)]
  BY DEF Boots
<1>1. PICK ids \in AssetIds(ms) : b = [known |-> ms, subscribed |-> FirstOf(ids)]
  BY <1>0
<1> DEFINE S == {a \in Assets : MarketOf[a] \in ms}
           D == {i \in DOMAIN ids : i <= TopN}
<1>2. IsFiniteSet(S) /\ Cardinality(S) \in Nat
  BY AssetsAssumption, FS_Subset, FS_CardinalityType
<1>3. ids \in [1 .. Cardinality(S) -> S]
  BY <1>1 DEF AssetIds, SetToSeqs
<1> HIDE DEF S
<1>4. D \subseteq 1 .. TopN /\ TopN \in Nat
  BY <1>2, <1>3, DiscoveryAssumption
<1>5. IsFiniteSet(1 .. TopN) /\ Cardinality(1 .. TopN) = TopN
  <2>1. 1 \in Int /\ TopN \in Int
    BY <1>4
  <2>2. IsFiniteSet(1 .. TopN) /\ Cardinality(1 .. TopN) = IF 1 > TopN THEN 0 ELSE TopN - 1 + 1
    BY <2>1, FS_Interval
  <2> QED BY <1>4, <2>2
<1>6. IsFiniteSet(D) /\ Cardinality(D) <= TopN /\ Cardinality(D) \in Nat
  BY <1>4, <1>5, FS_Subset, FS_CardinalityType
<1> HIDE DEF D
<1> DEFINE first == {ids[i] : i \in D}
<1>7. IsFiniteSet(first) /\ Cardinality(first) <= Cardinality(D)
  <2>1. \A i \in D : ids[i] \in first
    OBVIOUS
  <2> DEFINE f == [i \in D |-> ids[i]]
  <2>2. f \in Surjection(D, first)
    BY DEF Surjection
  <2> HIDE DEF f, first
  <2> QED BY <1>6, <2>2, FS_Surjection
<1>8. first \subseteq Assets
  BY <1>3 DEF D, S
<1>9. FirstOf(ids) = first
  BY DEF FirstOf, D
<1>10. Cardinality(first) <= TopN
  <2>1. Cardinality(first) \in Nat
    BY <1>7, FS_CardinalityType
  <2> QED BY <1>4, <1>6, <1>7, <2>1
<1> HIDE DEF first
<1> QED
  BY <1>1, <1>8, <1>9, <1>10 DEF Listed

DiscoveryInv == DiscoveryTypeOK /\ resolving \in known \cup {NoMarket}

LEMMA RebootTypes == ASSUME DiscoveryInv, Reboot PROVE DiscoveryInv'
<1>1. PICK b \in Boots : known' = b.known /\ subscribed' = b.subscribed
  BY DEF Reboot
<1>2. /\ known' \subseteq Markets
      /\ subscribed' \subseteq Assets /\ Cardinality(subscribed') <= TopN
  BY <1>1, BootTypes
<1> QED
  BY <1>2 DEF Reboot, NoPage, DiscoveryInv, DiscoveryTypeOK

LEMMA DiscoverySteps ==
    ASSUME DiscoveryInv,
           \/ \E m \in Markets : Item(m) \/ Resolved(m) \/ Move(m)
           \/ Poll
           \/ UNCHANGED discoveryVars
    PROVE  DiscoveryInv'
<1> USE DEF DiscoveryInv, DiscoveryTypeOK
<1>1. ASSUME NEW m \in Markets, Item(m) PROVE DiscoveryInv'
  <2>1. DOMAIN page' \subseteq Markets /\ page' \in [DOMAIN page' -> BOOLEAN]
    BY <1>1 DEF Item
  <2>2. known' = known \cup {m} /\ UNCHANGED <<stage, subscribed, polls>>
    BY <1>1 DEF Item
  <2>3. flagged' \subseteq known' /\ resolving' \in known' \cup {NoMarket}
    BY <1>1 DEF Item
  <2> QED BY <2>1, <2>2, <2>3
<1>2. ASSUME NEW m \in Markets, Resolved(m) PROVE DiscoveryInv'
  BY <1>2, DiscoveryAssumption DEF Resolved
<1>3. ASSUME NEW m \in Markets, Move(m) PROVE DiscoveryInv'
  <2>1. stage' \in [Markets -> Stages]
    BY <1>3 DEF Move, Stages
  <2> QED BY <1>3, <2>1 DEF Move
<1>4. CASE Poll
  <2>1. PICK ms \in SUBSET Listed : page' = Page(ms)
    BY <1>4 DEF Poll
  <2>2. DOMAIN page' \subseteq Markets /\ page' \in [DOMAIN page' -> BOOLEAN]
    BY <2>1 DEF Page, Listed
  <2>3. polls' \in 0 .. MaxPolls
    BY <1>4, DiscoveryAssumption DEF Poll
  <2> QED BY <1>4, <2>2, <2>3 DEF Poll
<1>5. CASE UNCHANGED discoveryVars
  BY <1>5 DEF discoveryVars
<1> QED
  BY <1>1, <1>2, <1>3, <1>4, <1>5

LEMMA DiscoveryInitially == DiscoveryInit => DiscoveryInv
<1> SUFFICES ASSUME DiscoveryInit PROVE DiscoveryInv
  OBVIOUS
<1>1. PICK b \in Boots : known = b.known /\ subscribed = b.subscribed
  BY DEF DiscoveryInit
<1>2. known \subseteq Markets /\ subscribed \subseteq Assets /\ Cardinality(subscribed) <= TopN
  BY <1>1, BootTypes
<1> QED
  BY <1>2, DiscoveryAssumption DEF DiscoveryInit, NoPage, Stages, DiscoveryInv, DiscoveryTypeOK

\* The polling venue.
LEMMA NewestFit ==
    ASSUME PollerInv
    PROVE  /\ IsFiniteSet(Published) /\ Cardinality(Published) \in Nat
           /\ Newest \subseteq Published /\ Cardinality(Newest) <= SeenMax
<1>1. PICK n \in Nat : Published = 1 .. n
  BY DEF PollerInv
<1>2. IsFiniteSet(Published) /\ Cardinality(Published) = n
  BY <1>1, FS_Interval
<1> DEFINE low == n - PageSize + 1
<1>3. PageSize \in Nat /\ SeenMax \in Nat /\ PageSize <= SeenMax
  BY PollerAssumption
<1>4. Newest \subseteq low .. n
  BY <1>1, <1>2, <1>3 DEF Newest
<1>5. IsFiniteSet(low .. n) /\ Cardinality(low .. n) = PageSize
  <2>1. low \in Int /\ n \in Int
    BY <1>3
  <2>2. IsFiniteSet(low .. n) /\ Cardinality(low .. n) = IF low > n THEN 0 ELSE n - low + 1
    <3> HIDE DEF low
    <3> QED BY <2>1, FS_Interval
  <2> QED BY <1>3, <2>2
<1>6. Cardinality(Newest) <= PageSize /\ Cardinality(Newest) \in Nat
  <2> HIDE DEF low
  <2> QED BY <1>4, <1>5, FS_Subset, FS_CardinalityType
<1> QED
  BY <1>2, <1>3, <1>6 DEF Newest

\* What is left after an id was added to the set, and the set was cut.
LEMMA TrimmedFits ==
    ASSUME NEW s, IsFiniteSet(s), Cardinality(s) <= SeenMax, NEW i, NEW t \in Trimmed(s \cup {i})
    PROVE  t \subseteq s \cup {i} /\ Cardinality(t) <= SeenMax
<1> DEFINE u == s \cup {i}
<1>1. IsFiniteSet(u) /\ Cardinality(u) \in Nat /\ Cardinality(s) \in Nat /\ Cardinality(u) <= Cardinality(s) + 1
  <2>1. IsFiniteSet(u) /\ Cardinality(u) = IF i \in s THEN Cardinality(s) ELSE Cardinality(s) + 1
    BY FS_AddElement
  <2>2. Cardinality(s) \in Nat
    BY FS_CardinalityType
  <2> HIDE DEF u
  <2> QED BY <2>1, <2>2
<1>2. SeenMax \in Nat /\ SeenMax >= 2
  BY PollerAssumption
<1>3. SeenMax \div 2 \in Nat /\ SeenMax \div 2 >= 1
  BY <1>2
<1> HIDE DEF u
<1>4. CASE Cardinality(u) <= SeenMax
  BY <1>4 DEF Trimmed, u
<1>5. CASE ~(Cardinality(u) <= SeenMax)
  <2>1. t \subseteq u /\ Cardinality(t) = Cardinality(u) - SeenMax \div 2
    BY <1>5 DEF Trimmed, u
  <2>2. Cardinality(t) <= SeenMax
    BY <1>1, <1>2, <1>3, <2>1
  <2> QED BY <2>1, <2>2 DEF u
<1> QED
  BY <1>4, <1>5

LEMMA MarkTypes ==
    ASSUME PollerInv, PollerTypeOK, NEW i \in Items, Mark(i)
    PROVE  i \in Published /\ seen' \subseteq Published /\ Cardinality(seen') <= SeenMax
<1>1. i \in fresh /\ seen' \in Trimmed(seen \cup {i})
  BY DEF Mark
<1>2. IsFiniteSet(seen) /\ Cardinality(seen) <= SeenMax /\ seen \subseteq Published
  BY NewestFit, FS_Subset DEF PollerTypeOK
<1>3. seen' \subseteq seen \cup {i} /\ Cardinality(seen') <= SeenMax
  BY <1>1, <1>2, TrimmedFits
<1> QED
  BY <1>1, <1>2, <1>3 DEF PollerTypeOK

LEMMA PollerSteps ==
    ASSUME PollerInv, PollerTypeOK, now \in Nat,
           \/ Publish(now) \/ Publish(None)
           \/ PollerNext
           \/ \E i \in Items : Yield(i)
           \/ Restarted
           \/ UNCHANGED pollerVars
    PROVE  PollerTypeOK'
<1>1. ASSUME NEW ts \in Nat \cup {None}, Publish(ts) PROVE PollerTypeOK'
  <2>1. PICK n \in Nat : Published = 1 .. n
    BY DEF PollerInv
  <2>2. Cardinality(Published) = n /\ n < MaxItems /\ MaxItems \in Nat
    BY <1>1, <2>1, FS_Interval, PollerAssumption DEF Publish
  <2>3. stamps' = [i \in 1 .. n + 1 |-> IF i \in Published THEN stamps[i] ELSE ts]
    BY <1>1, <2>2 DEF Publish
  <2>4. Published' = 1 .. n + 1
    BY <2>3 DEF Published
  <2>5. Published \subseteq Published' /\ Published' \subseteq Items
    BY <2>1, <2>2, <2>4 DEF Items
  <2>6. \A i \in Published' : stamps'[i] \in Nat \cup {None}
    BY <1>1, <2>3, <2>4 DEF PollerTypeOK
  <2> QED BY <1>1, <2>5, <2>6 DEF Publish, PollerTypeOK
<1>2. CASE Fetch
  <2>1. fetches' \in 0 .. MaxFetches
    BY <1>2, PollerAssumption DEF Fetch, PollerTypeOK
  <2> QED BY <1>2, <2>1, NewestFit DEF Fetch, PollerTypeOK, Published
<1>3. ASSUME NEW i \in Items, Pass(i) PROVE PollerTypeOK'
  BY <1>3 DEF Pass, PollerTypeOK, Published
<1>4. ASSUME NEW i \in Items, Yield(i) \/ Raise(i) \/ MarkAhead(i) PROVE PollerTypeOK'
  <2>1. i \in Published /\ seen' \subseteq Published /\ Cardinality(seen') <= SeenMax
    BY <1>4, MarkTypes DEF Yield, Raise, MarkAhead
  <2>2. UNCHANGED <<venue, stamps, fetches>>
    BY <1>4 DEF Yield, Raise, MarkAhead
  <2>3. fresh' \subseteq fresh /\ out' \subseteq out \cup {i}
    BY <1>4 DEF Yield, Raise, MarkAhead
  <2>4. emitted' \in [Items -> Nat]
    BY <1>4 DEF Yield, Raise, MarkAhead, Emit, PollerTypeOK
  <2>5. Published' = Published
    BY <2>2 DEF Published
  <2> QED BY <2>1, <2>2, <2>3, <2>4, <2>5 DEF PollerTypeOK
<1>5. ASSUME NEW i \in Items, YieldMarked(i) PROVE PollerTypeOK'
  <2>1. emitted' \in [Items -> Nat]
    BY <1>5 DEF YieldMarked, Emit, PollerTypeOK
  <2> QED BY <1>5, <2>1 DEF YieldMarked, PollerTypeOK, Published
<1>6. CASE Restarted
  <2>1. seen' \subseteq Published /\ Cardinality(seen') <= SeenMax
    <3>1. seen' \in {{}, Newest}
      BY <1>6 DEF Restarted, Seeds
    <3>2. Cardinality({}) <= SeenMax
      BY FS_EmptySet, PollerAssumption
    <3> QED BY <3>1, <3>2, NewestFit
  <2> QED BY <1>6, <2>1 DEF Restarted, PollerTypeOK, Published
<1>7. CASE UNCHANGED pollerVars
  BY <1>7 DEF pollerVars, PollerTypeOK, Published
<1> QED
  BY <1>1, <1>2, <1>3, <1>4, <1>5, <1>6, <1>7 DEF PollerNext

LEMMA PollerInitially == ASSUME PollerInit, PollerInv PROVE PollerTypeOK
<1>1. seen \in {{}, Newest}
  BY DEF PollerInit, Seeds
<1>2. Cardinality({}) <= SeenMax
  BY FS_EmptySet, PollerAssumption
<1>3. seen \subseteq Published /\ Cardinality(seen) <= SeenMax
  BY <1>1, <1>2, NewestFit
<1>4. Published = {}
  BY DEF PollerInit, Published
<1> QED
  BY <1>3, <1>4, PollerAssumption DEF PollerInit, PollerTypeOK

LEMMA TypeStep == BaseInv /\ TypeInv /\ [Next]_vars => TypeInv'
<1> SUFFICES ASSUME BaseInv, TypeInv, [Next]_vars PROVE TypeInv'
  OBVIOUS
<1>1. /\ StrategyTypeOK /\ DiscoveryInv /\ PollerTypeOK
      /\ PollerInv /\ now \in Nat /\ kind \in Kinds
      /\ pipes \subseteq Venues \cup {"polymarket_clob"}
  BY DEF TypeInv, TypeOK, DiscoveryInv, BaseInv, Scalars
<1> DEFINE Goal == StrategyTypeOK' /\ DiscoveryInv' /\ PollerTypeOK' /\ UNCHANGED pipes
<1>2. ASSUME NEW a \in Assets, BookEvent(a) PROVE Goal
  <2>1. PICK top \in Tops, lean \in Leans : OnBook(a, top, lean)
    BY <1>2 DEF BookEvent
  <2> QED BY <1>1, <1>2, <2>1, BookTypes, DiscoverySteps, PollerSteps DEF BookEvent
<1>3. ASSUME NEW a \in Assets, TradePrint(a) PROVE Goal
  BY <1>1, <1>3, PrintTypes, DiscoverySteps, PollerSteps DEF TradePrint
<1>4. ASSUME NEW m \in Markets, TapeMeta(m) PROVE Goal
  BY <1>1, <1>4, OtherTypes, DiscoverySteps, PollerSteps DEF TapeMeta
<1>5. ASSUME NEW m \in Markets, Discover(m) PROVE Goal
  BY <1>1, <1>5, OtherTypes, DiscoverySteps, PollerSteps DEF Discover
<1>6. ASSUME NEW m \in Markets, Resolve(m) PROVE Goal
  BY <1>1, <1>6, OtherTypes, DiscoverySteps, PollerSteps DEF Resolve
<1>7. ASSUME NEW w \in Wallets, NEW m \in Markets, TapeTrade(w, m) PROVE Goal
  <2>1. StrategyTypeOK'
    BY <1>1, <1>7, TradeTypes, 0 \in Nat, now \in Int DEF TapeTrade
  <2> QED BY <1>1, <1>7, <2>1, DiscoverySteps, PollerSteps DEF TapeTrade
<1>8. ASSUME NEW i \in Items, Trade(i) PROVE Goal
  <2>1. i \in Published /\ i \in Nat
    BY <1>1, <1>8 DEF Trade, Yield, Mark, PollerTypeOK, Items
  <2>2. StrategyTypeOK'
    <3>1. CASE venue = "polymarket_activity" /\ kind = "whale_copy_eod"
      <4>1. PICK w \in Wallets, m \in Markets : TradeOf[i] = <<w, m>>
        BY FeedAssumption
      <4>2. OnTrade(w, m, StampOf(i), i)
        BY <1>8, <3>1, <4>1 DEF Trade
      <4>3. StampOf(i) \in Int
        BY <1>1, <2>1 DEF StampOf, PollerInv
      <4> QED BY <1>1, <2>1, <4>2, <4>3, TradeTypes
    <3>2. CASE ~(venue = "polymarket_activity" /\ kind = "whale_copy_eod")
      BY <1>1, <1>8, <3>2, OtherTypes DEF Trade
    <3> QED BY <3>1, <3>2
  <2> QED BY <1>1, <1>8, <2>2, DiscoverySteps, PollerSteps DEF Trade
<1>9. ASSUME Venue PROVE Goal
  BY <1>1, <1>9, OtherTypes, DiscoverySteps, PollerSteps DEF Venue
<1>10. ASSUME PollingVenue PROVE Goal
  BY <1>1, <1>10, OtherTypes, DiscoverySteps, PollerSteps DEF PollingVenue
<1>11. ASSUME Restart PROVE Goal
  BY <1>1, <1>11, ForgetTypes, RebootTypes, PollerSteps DEF Restart
<1>12. ASSUME Time PROVE Goal
  BY <1>1, <1>12, OtherTypes, DiscoverySteps, PollerSteps DEF Time
<1>13. ASSUME UNCHANGED vars PROVE Goal
  BY <1>1, <1>13, OtherTypes, DiscoverySteps, PollerSteps DEF vars
<1> HIDE DEF Goal
<1>14. Goal
  BY <1>2, <1>3, <1>4, <1>5, <1>6, <1>7, <1>8, <1>9, <1>10, <1>11, <1>12, <1>13 DEF Next
<1> QED
  BY <1>1, <1>14 DEF Goal, TypeInv, TypeOK, DiscoveryInv

LEMMA TypeInitially == Init => TypeInv
<1> SUFFICES ASSUME Init PROVE TypeInv
  OBVIOUS
<1>1. DiscoveryInv
  BY DiscoveryInitially DEF Init
<1>2. PollerTypeOK
  BY BaseInitially, PollerInitially DEF Init, BaseInv
<1>3. StrategyTypeOK
  BY DEF Init, StrategyInit, StrategyTypeOK, NoBooks, NoBook, NoPrints, Never
<1>4. pipes \subseteq Venues \cup {"polymarket_clob"}
  BY FeedAssumption DEF Init
<1> QED
  BY <1>1, <1>2, <1>3, <1>4 DEF TypeInv, TypeOK, DiscoveryInv

\* The strategy, discovery and the polling venue are well typed together: the
\* set of seen ids is cut back to its limit by every id that exceeds it, and no
\* boot subscribes to more assets than it was told to.
THEOREM TypesAndLimitsHold == Spec => []TypeOK
<1>1. BaseInv /\ TypeInv /\ [Next]_vars => BaseInv' /\ TypeInv'
  BY BaseStep, TypeStep
<1>2. TypeInv => TypeOK
  BY DEF TypeInv
<1> QED
  BY <1>1, <1>2, BaseInitially, TypeInitially, PTL DEF Spec
=============================================================================
