------------------------ MODULE FillSimulatorProofs -------------------------
(***************************************************************************)
(* Theorems about the paper exchange, for every set of orders and assets,  *)
(* every size, every book and every sequence of prints: RestingMaker by    *)
(* itself, that FillSimulator implements it, and that its takers get the   *)
(* best execution there is.                                                *)
(***************************************************************************)
EXTENDS FillSimulator, FiniteSetTheorems, WellFoundedInduction, TLAPS

-----------------------------------------------------------------------------
(* RestingMaker *)

\* The queue, the fills and the printed volume of one registered order.
InQueue(o) ==
    /\ filled[o] = IF printed[o] <= queue0[o] THEN 0
                   ELSE Least(order[o].size, printed[o] - queue0[o])
    /\ q_ahead[o] = IF printed[o] <= queue0[o] THEN queue0[o] - printed[o] ELSE 0

\* An id without an order has no history yet.
UnusedIsBlank ==
    \A o \in Orders : order[o] = NoOrder =>
        /\ o \notin resting
        /\ filled[o] = 0
        /\ printed[o] = 0

IInv == MakerTypeOK /\ QueuePosition /\ RestingIsUnfilled /\ UnusedIsBlank

LEMMA OrderIsNotNoOrder == ASSUME NEW x \in Order PROVE x # NoOrder
<1>1. DOMAIN x = {"asset", "side", "price", "size"}
  BY DEF Order
<1>2. DOMAIN NoOrder = {"asset"}
  BY DEF NoOrder
<1>3. "size" \in DOMAIN x /\ "size" \notin DOMAIN NoOrder
  BY <1>1, <1>2
<1> QED
  BY <1>3

LEMMA InitInvariant == MakerInit => IInv
BY DEF MakerInit, IInv, MakerTypeOK, QueuePosition, RestingIsUnfilled, UnusedIsBlank

LEMMA SizeOfOrder ==
    ASSUME MakerTypeOK, NEW o \in Orders, order[o] # NoOrder
    PROVE  order[o].size \in Nat \ {0}
BY MakerAssumption DEF MakerTypeOK, Order

LEMMA RegisterInvariant ==
    ASSUME IInv, NEW o \in Orders, NEW ord \in Order, NEW depth \in Nat,
           Register(o, ord, depth)
    PROVE  IInv'
<1>1. order[o] = NoOrder /\ o \notin resting /\ filled[o] = 0 /\ printed[o] = 0
  BY DEF Register, IInv, UnusedIsBlank
<1>2. ord # NoOrder /\ ord.size \in Nat \ {0}
  BY OrderIsNotNoOrder, MakerAssumption DEF Order
<1>3. /\ order'[o] = ord /\ queue0'[o] = depth /\ q_ahead'[o] = depth
      /\ \A p \in Orders : p # o =>
            order'[p] = order[p] /\ queue0'[p] = queue0[p] /\ q_ahead'[p] = q_ahead[p]
  BY DEF Register, IInv, MakerTypeOK
<1>4. MakerTypeOK'
  BY <1>1, <1>2, <1>3 DEF Register, IInv, MakerTypeOK
<1>5. QueuePosition'
  BY <1>1, <1>2, <1>3 DEF Register, IInv, QueuePosition
<1>6. RestingIsUnfilled'
  BY <1>1, <1>2, <1>3 DEF Register, IInv, RestingIsUnfilled, MakerTypeOK
<1>7. UnusedIsBlank'
  BY <1>1, <1>2, <1>3 DEF Register, IInv, UnusedIsBlank
<1> QED
  BY <1>4, <1>5, <1>6, <1>7 DEF IInv

\* One print moves one order from one closed form to the next.
LEMMA PrintMovesQueue ==
    ASSUME IInv, NEW o \in resting, NEW size \in Nat
    PROVE  /\ Consumed(o, size) \in Nat
           /\ Consumed(o, size) <= q_ahead[o]
           /\ FillSize(o, size) \in Nat
           /\ filled[o] + FillSize(o, size) =
                 IF printed[o] + size <= queue0[o] THEN 0
                 ELSE Least(order[o].size, printed[o] + size - queue0[o])
           /\ q_ahead[o] - Consumed(o, size) =
                 IF printed[o] + size <= queue0[o] THEN queue0[o] - (printed[o] + size) ELSE 0
<1>1. /\ o \in Orders /\ order[o] # NoOrder
      /\ q_ahead[o] \in Nat /\ filled[o] \in Nat /\ queue0[o] \in Nat /\ printed[o] \in Nat
  BY DEF IInv, MakerTypeOK
<1>2. order[o].size \in Nat \ {0}
  BY <1>1, SizeOfOrder DEF IInv
<1>3. InQueue(o) /\ filled[o] < order[o].size
  BY <1>1 DEF IInv, QueuePosition, RestingIsUnfilled, InQueue
<1>4. CASE printed[o] + size < queue0[o]
  <2>1. filled[o] = 0 /\ q_ahead[o] = queue0[o] - printed[o] /\ q_ahead[o] > size
    BY <1>1, <1>3, <1>4 DEF InQueue
  <2>2. Consumed(o, size) = size /\ FillSize(o, size) = 0
    BY <1>1, <2>1 DEF Consumed, FillSize, Least
  <2> QED
    BY <1>1, <1>4, <2>1, <2>2
<1>5. CASE printed[o] <= queue0[o] /\ queue0[o] <= printed[o] + size
  <2>1. filled[o] = 0 /\ q_ahead[o] = queue0[o] - printed[o] /\ q_ahead[o] <= size
    BY <1>1, <1>3, <1>5 DEF InQueue
  <2>2. Consumed(o, size) = q_ahead[o]
    BY <1>1, <2>1 DEF Consumed, Least
  <2>3. FillSize(o, size) = Least(order[o].size, printed[o] + size - queue0[o])
    BY <1>1, <1>2, <2>1, <2>2 DEF FillSize, Remaining
  <2>4. /\ Least(order[o].size, printed[o] + size - queue0[o]) \in Nat
        /\ printed[o] + size = queue0[o] =>
              Least(order[o].size, printed[o] + size - queue0[o]) = 0
    BY <1>1, <1>2, <1>5 DEF Least
  <2> QED
    BY <1>1, <1>5, <2>1, <2>2, <2>3, <2>4
<1>6. CASE queue0[o] < printed[o]
  <2>1. filled[o] = printed[o] - queue0[o] /\ q_ahead[o] = 0
    BY <1>1, <1>2, <1>3, <1>6 DEF InQueue, Least
  <2>2. Consumed(o, size) = 0
    BY <2>1 DEF Consumed
  <2>3. FillSize(o, size) = Least(order[o].size - filled[o], size)
    BY <1>1, <2>1, <2>2 DEF FillSize, Remaining
  <2> QED
    BY <1>1, <1>2, <1>3, <1>6, <2>1, <2>2, <2>3 DEF Least
<1> QED
  BY <1>1, <1>4, <1>5, <1>6

LEMMA TradePrintInvariant ==
    ASSUME IInv, NEW asset \in Assets, NEW price \in Ticks, NEW size \in PrintSizes,
           TradePrint(asset, price, size)
    PROVE  IInv'
<1> DEFINE hit == {o \in Orders : EatsQueue(o, asset, price)}
<1>1. size \in Nat
  BY MakerAssumption
<1>2. hit \subseteq resting /\ resting \subseteq Orders
  BY DEF IInv, MakerTypeOK, EatsQueue
<1>3. /\ q_ahead' = [o \in Orders |->
            IF o \in hit THEN q_ahead[o] - Consumed(o, size) ELSE q_ahead[o]]
      /\ filled' = [o \in Orders |->
            IF o \in hit THEN filled[o] + FillSize(o, size) ELSE filled[o]]
      /\ printed' = [o \in Orders |-> IF o \in hit THEN printed[o] + size ELSE printed[o]]
      /\ resting' = resting \ {o \in hit : filled'[o] >= order[o].size}
      /\ order' = order /\ missed' = missed /\ queue0' = queue0
  BY DEF TradePrint, IsDone
<1> HIDE DEF hit
<1>4. MakerTypeOK'
  <2>1. q_ahead' \in [Orders -> Nat]
    <3> SUFFICES ASSUME NEW o \in Orders PROVE q_ahead'[o] \in Nat
      BY <1>3
    <3>1. q_ahead[o] \in Nat
      BY DEF IInv, MakerTypeOK
    <3>2. o \in hit => q_ahead[o] - Consumed(o, size) \in Nat
      BY <1>1, <1>2, <3>1, PrintMovesQueue
    <3> QED
      BY <1>3, <3>1, <3>2
  <2>2. filled' \in [Orders -> Nat]
    <3> SUFFICES ASSUME NEW o \in Orders PROVE filled'[o] \in Nat
      BY <1>3
    <3>1. filled[o] \in Nat
      BY DEF IInv, MakerTypeOK
    <3>2. o \in hit => FillSize(o, size) \in Nat
      BY <1>1, <1>2, PrintMovesQueue
    <3> QED
      BY <1>3, <3>1, <3>2
  <2>3. printed' \in [Orders -> Nat]
    BY <1>1, <1>3 DEF IInv, MakerTypeOK
  <2>4. /\ resting' \subseteq {o \in Orders : order'[o] # NoOrder}
        /\ missed' \subseteq {o \in Orders : order'[o] # NoOrder} \ resting'
    BY <1>3 DEF IInv, MakerTypeOK
  <2> QED
    BY <1>3, <2>1, <2>2, <2>3, <2>4 DEF IInv, MakerTypeOK
<1>5. QueuePosition'
  <2> SUFFICES ASSUME NEW o \in Orders, order[o] # NoOrder
               PROVE  InQueue(o)'
    BY <1>3 DEF QueuePosition, InQueue
  <2>1. InQueue(o)
    BY DEF IInv, QueuePosition, InQueue
  <2>2. CASE o \in hit
    <3>1. /\ filled[o] + FillSize(o, size) =
                IF printed[o] + size <= queue0[o] THEN 0
                ELSE Least(order[o].size, printed[o] + size - queue0[o])
          /\ q_ahead[o] - Consumed(o, size) =
                IF printed[o] + size <= queue0[o]
                THEN queue0[o] - (printed[o] + size) ELSE 0
      BY <1>1, <1>2, <2>2, PrintMovesQueue
    <3>2. /\ filled'[o] = filled[o] + FillSize(o, size)
          /\ q_ahead'[o] = q_ahead[o] - Consumed(o, size)
          /\ printed'[o] = printed[o] + size
      BY <1>3, <2>2
    <3>3. order'[o] = order[o] /\ queue0'[o] = queue0[o]
      BY <1>3
    <3>4. filled'[o] = IF printed'[o] <= queue0'[o] THEN 0
                       ELSE Least(order'[o].size, printed'[o] - queue0'[o])
      <4>1. order'[o].size = order[o].size
        BY <3>3
      <4>2. printed[o] \in Nat /\ queue0[o] \in Nat /\ size \in Nat
        BY <1>1 DEF IInv, MakerTypeOK
      <4>3. printed'[o] - queue0'[o] = printed[o] + size - queue0[o]
        BY <3>2, <3>3, <4>2
      <4>4. CASE printed[o] + size <= queue0[o]
        BY <3>1, <3>2, <3>3, <4>2, <4>4
      <4>5. CASE ~(printed[o] + size <= queue0[o])
        BY <3>1, <3>2, <3>3, <4>1, <4>2, <4>3, <4>5
      <4> QED
        BY <4>4, <4>5
    <3>5. q_ahead'[o] = IF printed'[o] <= queue0'[o] THEN queue0'[o] - printed'[o] ELSE 0
      BY <3>1, <3>2, <3>3
    <3> QED
      BY <3>4, <3>5 DEF InQueue
  <2>3. CASE o \notin hit
    BY <1>3, <2>1, <2>3 DEF InQueue
  <2> QED
    BY <2>2, <2>3
<1>6. RestingIsUnfilled'
  <2> SUFFICES ASSUME NEW o \in resting' PROVE filled'[o] < order[o].size
    BY <1>3 DEF RestingIsUnfilled
  <2>1. o \in resting /\ o \in Orders /\ ~(o \in hit /\ filled'[o] >= order[o].size)
    BY <1>2, <1>3
  <2>2. CASE o \notin hit
    BY <1>3, <2>1, <2>2 DEF IInv, RestingIsUnfilled
  <2>3. CASE o \in hit
    <3>1. order[o].size \in Nat /\ filled'[o] \in Nat
      BY <1>4, <2>1, SizeOfOrder DEF IInv, MakerTypeOK
    <3> QED
      BY <2>1, <2>3, <3>1
  <2> QED
    BY <2>2, <2>3
<1>7. UnusedIsBlank'
  BY <1>2, <1>3 DEF IInv, UnusedIsBlank
<1> QED
  BY <1>4, <1>5, <1>6, <1>7 DEF IInv

LEMMA StepInvariant == IInv /\ [MakerNext]_makerVars => IInv'
<1> SUFFICES ASSUME IInv, [MakerNext]_makerVars PROVE IInv'
  OBVIOUS
<1>1. ASSUME NEW o \in Orders, NEW ord \in Order, NEW depth \in Nat, Register(o, ord, depth)
      PROVE  IInv'
  BY <1>1, RegisterInvariant
<1>2. ASSUME NEW asset \in Assets, NEW price \in Ticks, NEW size \in PrintSizes,
             TradePrint(asset, price, size)
      PROVE  IInv'
  BY <1>2, TradePrintInvariant
<1>3. ASSUME NEW walkedAway \in SUBSET resting, BookMoved(walkedAway)
      PROVE  IInv'
  BY <1>3 DEF BookMoved, IInv, MakerTypeOK, QueuePosition, RestingIsUnfilled, UnusedIsBlank
<1>4. ASSUME NEW o \in Orders, Cancel(o)
      PROVE  IInv'
  BY <1>4 DEF Cancel, IInv, MakerTypeOK, QueuePosition, RestingIsUnfilled, UnusedIsBlank
<1>5. CASE UNCHANGED makerVars
  BY <1>5 DEF makerVars, IInv, MakerTypeOK, QueuePosition, RestingIsUnfilled, UnusedIsBlank
<1> QED
  BY <1>1, <1>2, <1>3, <1>4, <1>5 DEF MakerNext

LEMMA SpecInvariant == MakerSpec => []IInv
BY InitInvariant, StepInvariant, PTL DEF MakerSpec

-----------------------------------------------------------------------------
(* Theorems about RestingMaker *)

\* The fills of a resting order are a function of its queue at placement and
\* the volume printed since, whatever the prints and their order.
THEOREM FillsFollowTheQueue == MakerSpec => []QueuePosition
<1>1. IInv => QueuePosition
  BY DEF IInv
<1> QED
  BY <1>1, SpecInvariant, PTL

\* An order stays in the simulator only as long as something of it is open.
THEOREM RestingHasSomethingLeft == MakerSpec => []RestingIsUnfilled
<1>1. IInv => RestingIsUnfilled
  BY DEF IInv
<1> QED
  BY <1>1, SpecInvariant, PTL

LEMMA StepKeepsGone ==
    ASSUME IInv, [MakerNext]_makerVars, NEW o \in Orders, order[o] # NoOrder, o \notin resting
    PROVE  o \notin resting' /\ filled'[o] = filled[o]
<1>1. ASSUME NEW p \in Orders, NEW ord \in Order, NEW depth \in Nat, Register(p, ord, depth)
      PROVE  o \notin resting' /\ filled'[o] = filled[o]
  BY <1>1 DEF Register
<1>2. ASSUME NEW asset \in Assets, NEW price \in Ticks, NEW size \in PrintSizes,
             TradePrint(asset, price, size)
      PROVE  o \notin resting' /\ filled'[o] = filled[o]
  BY <1>2 DEF TradePrint, EatsQueue
<1>3. ASSUME NEW walkedAway \in SUBSET resting, BookMoved(walkedAway)
      PROVE  o \notin resting' /\ filled'[o] = filled[o]
  BY <1>3 DEF BookMoved
<1>4. ASSUME NEW p \in Orders, Cancel(p)
      PROVE  o \notin resting' /\ filled'[o] = filled[o]
  BY <1>4 DEF Cancel
<1>5. CASE UNCHANGED makerVars
  BY <1>5 DEF makerVars
<1> QED
  BY <1>1, <1>2, <1>3, <1>4, <1>5 DEF MakerNext

\* An order that is filled, missed or cancelled never fills again.
THEOREM GoneOrdersStayGone == MakerSpec => GoneStaysGone
<1>1. IInv /\ [MakerNext]_makerVars =>
         [\A o \in Orders : order[o] # NoOrder /\ o \notin resting =>
             o \notin resting' /\ filled'[o] = filled[o]]_makerVars
  BY StepKeepsGone
<1> QED
  BY <1>1, SpecInvariant, PTL DEF MakerSpec, GoneStaysGone
-----------------------------------------------------------------------------
(* Functions that are defined by taking the members of a finite set one at *)
(* a time: sums over any member first, the walk over the last price first. *)

LEMMA LeastMember ==
    ASSUME NEW T \in SUBSET Nat, T # {}
    PROVE  \E n \in T : \A m \in T : n <= m
<1>1. \E n \in T : \A m \in T : ~(<<m, n>> \in OpToRel(<, Nat))
  BY NatLessThanWellFounded, WFMin, Zenon
<1>2. PICK n \in T : \A m \in T : ~(<<m, n>> \in OpToRel(<, Nat))
  BY <1>1
<1>3. \A m \in T : ~(m < n)
  BY <1>2 DEF OpToRel
<1> QED
  BY <1>3

\* What holds of a set when it holds of every smaller one holds of all.
LEMMA BySize ==
    ASSUME NEW S, IsFiniteSet(S), NEW Q \in SUBSET (SUBSET S),
           \A s \in SUBSET S :
              (\A r \in SUBSET S : Cardinality(r) < Cardinality(s) => r \in Q) => s \in Q
    PROVE  Q = SUBSET S
<1> DEFINE sizes == {Cardinality(s) : s \in (SUBSET S) \ Q}
<1>1. \A s \in SUBSET S : Cardinality(s) \in Nat
  BY FS_Subset, FS_CardinalityType
<1> SUFFICES ASSUME Q # SUBSET S PROVE FALSE
  OBVIOUS
<1>2. sizes \in SUBSET Nat /\ sizes # {}
  BY <1>1
<1>3. PICK n \in sizes : \A m \in sizes : n <= m
  <2> HIDE DEF sizes
  <2> QED BY <1>2, LeastMember
<1>4. PICK s \in (SUBSET S) \ Q : n = Cardinality(s)
  BY <1>3
<1>5. ASSUME NEW r \in SUBSET S, Cardinality(r) < Cardinality(s), r \notin Q PROVE FALSE
  <2>1. Cardinality(r) \in sizes /\ Cardinality(r) \in Nat /\ n \in Nat
    BY <1>1, <1>2, <1>5
  <2> QED BY <1>3, <1>4, <1>5, <2>1
<1> QED
  BY <1>4, <1>5

\* pick takes a member of every set that has one.
Picks(pick, S) == \A s \in SUBSET S : s # {} => pick[s] \in s

\* The same, with one member less: the one that pick takes.
LEMMA EverySubset ==
    ASSUME NEW S, IsFiniteSet(S), NEW pick, Picks(pick, S), NEW Q \in SUBSET (SUBSET S), {} \in Q,
           \A s \in SUBSET S : s # {} /\ s \ {pick[s]} \in Q => s \in Q
    PROVE  Q = SUBSET S
<1>1. ASSUME NEW s \in SUBSET S, \A r \in SUBSET S : Cardinality(r) < Cardinality(s) => r \in Q
      PROVE  s \in Q
  <2>1. CASE s = {}
    BY <2>1
  <2>2. CASE s # {}
    <3>1. pick[s] \in s /\ s \ {pick[s]} \in SUBSET S /\ IsFiniteSet(s)
      BY <2>2, FS_Subset DEF Picks
    <3>2. Cardinality(s \ {pick[s]}) = Cardinality(s) - 1 /\ Cardinality(s) \in Nat
      BY <3>1, FS_RemoveElement, FS_CardinalityType
    <3>3. Cardinality(s \ {pick[s]}) < Cardinality(s)
      BY <3>2
    <3> QED BY <1>1, <2>2, <3>1, <3>3
  <2> QED BY <2>1, <2>2
<1> QED
  BY <1>1, BySize

\* g is defined on the subsets of S by taking members, F being one step.
Steps(g, F, pick, base, subsets) ==
    g = [s \in subsets |-> IF s = {} THEN base ELSE F[<<pick[s], g[s \ {pick[s]}]>>]]

\* Up to a size there is one such function, and one more member is one more step.
LEMMA StepsExist ==
    ASSUME NEW S, IsFiniteSet(S), NEW pick, Picks(pick, S), NEW D, NEW base \in D,
           NEW F \in [S \X D -> D]
    PROVE  \E g \in [SUBSET S -> D] : Steps(g, F, pick, base, SUBSET S)
<1> DEFINE Upto(n) == {s \in SUBSET S : Cardinality(s) <= n}
           Works(n) == \E g \in [Upto(n) -> D] : Steps(g, F, pick, base, Upto(n))
           fails == {n \in Nat : ~Works(n)}
<1>1. \A s \in SUBSET S : /\ IsFiniteSet(s) /\ Cardinality(s) \in Nat
                          /\ Cardinality(s) <= Cardinality(S)
                          /\ Cardinality(s) = 0 => s = {}
  BY FS_Subset, FS_CardinalityType, FS_EmptySet
<1>2. \A s \in SUBSET S : s # {} => /\ pick[s] \in s /\ s \ {pick[s]} \in SUBSET S
                                    /\ Cardinality(s \ {pick[s]}) = Cardinality(s) - 1
  BY <1>1, FS_RemoveElement DEF Picks
<1>3. Upto(0) = {{}}
  BY <1>1, FS_EmptySet
<1>4. Works(0)
  <2>1. Steps([s \in Upto(0) |-> base], F, pick, base, Upto(0))
    BY <1>3 DEF Steps
  <2> QED BY <2>1
<1>5. ASSUME NEW n \in Nat, Works(n) PROVE Works(n + 1)
  <2>1. PICK g \in [Upto(n) -> D] : Steps(g, F, pick, base, Upto(n))
    BY <1>5
  <2> DEFINE h == [s \in Upto(n + 1) |-> IF s = {} THEN base ELSE F[<<pick[s], g[s \ {pick[s]}]>>]]
  <2>2. ASSUME NEW s \in Upto(n + 1), s # {}
        PROVE  pick[s] \in S /\ s \ {pick[s]} \in Upto(n)
    BY <1>1, <1>2, <2>2
  <2>3. ASSUME NEW s \in Upto(n) PROVE s \in Upto(n + 1)
    BY <1>1
  <2>4. h \in [Upto(n + 1) -> D]
    <3> SUFFICES ASSUME NEW s \in Upto(n + 1), s # {}
                 PROVE  F[<<pick[s], g[s \ {pick[s]}]>>] \in D
      OBVIOUS
    <3> QED BY <2>1, <2>2
  <2>5. ASSUME NEW s \in Upto(n) PROVE h[s] = g[s]
    BY <2>1, <2>3 DEF Steps
  <2> HIDE DEF Upto
  <2>6. h = [s \in Upto(n + 1) |-> IF s = {} THEN base ELSE F[<<pick[s], h[s \ {pick[s]}]>>]]
    BY <2>2, <2>5
  <2>7. Steps(h, F, pick, base, Upto(n + 1))
    BY <2>6 DEF Steps
  <2> QED BY <2>4, <2>7
<1>6. fails = {}
  <2> SUFFICES ASSUME fails # {} PROVE FALSE
    OBVIOUS
  <2> HIDE DEF Works
  <2>1. PICK n \in fails : \A m \in fails : n <= m
    BY LeastMember
  <2>2. n # 0 /\ n - 1 \in Nat /\ ~(n - 1 \in fails)
    BY <1>4, <2>1
  <2>3. Works(n - 1) /\ (n - 1) + 1 = n
    BY <2>2
  <2> QED BY <1>5, <2>1, <2>2, <2>3
<1>7. Cardinality(S) \in Nat /\ Upto(Cardinality(S)) = SUBSET S
  BY <1>1
<1>8. Works(Cardinality(S))
  BY <1>6, <1>7
<1> QED
  BY <1>7, <1>8


-----------------------------------------------------------------------------
(* Sums *)

Any == [s \in SUBSET Ticks |-> CHOOSE p \in s : TRUE]
IsSum(g, f, S) == g = [s \in SUBSET S |-> IF s = {} THEN 0
                          ELSE f[CHOOSE p \in s : TRUE] + g[s \ {CHOOSE p \in s : TRUE}]]
SumOf(f, S) == CHOOSE g : IsSum(g, f, S)

LEMMA TotalIsSum == ASSUME NEW f, NEW S PROVE Total(f, S) = SumOf(f, S)[S]
BY DEF Total, SumFunctionOnSet, FoldFunctionOnSet, MapThenFoldSet, SumOf, IsSum

LEMMA AnyPicks ==
    ASSUME NEW S \in SUBSET Ticks
    PROVE  IsFiniteSet(S) /\ Picks(Any, S) /\ \A s \in SUBSET S : Any[s] = CHOOSE p \in s : TRUE
BY SimulatorAssumption, FS_Subset DEF Picks, Any

LEMMA SumExists ==
    ASSUME NEW f, NEW S \in SUBSET Ticks, \A p \in S : f[p] \in Int
    PROVE  /\ IsSum(SumOf(f, S), f, S)
           /\ SumOf(f, S) \in [SUBSET S -> Int]
<1> DEFINE F == [x \in S \X Int |-> f[x[1]] + x[2]]
<1>1. IsFiniteSet(S) /\ Picks(Any, S)
  BY AnyPicks
<1>2. F \in [S \X Int -> Int]
  OBVIOUS
<1>3. PICK g \in [SUBSET S -> Int] : Steps(g, F, Any, 0, SUBSET S)
  <2> HIDE DEF F
  <2> QED BY <1>1, <1>2, StepsExist, 0 \in Int
<1>4. IsSum(g, f, S)
  <2>0. ASSUME NEW p \in S, NEW n \in Int PROVE F[<<p, n>>] = f[p] + n
    OBVIOUS
  <2>1. ASSUME NEW s \in SUBSET S, s # {}
        PROVE  F[<<Any[s], g[s \ {Any[s]}]>>] = f[Any[s]] + g[s \ {Any[s]}]
    <3>1. Any[s] \in S /\ g[s \ {Any[s]}] \in Int
      BY <1>1, <2>1 DEF Picks
    <3> QED BY <2>0, <3>1
  <2>2. \A s \in SUBSET S : Any[s] = CHOOSE p \in s : TRUE
    BY AnyPicks
  <2> HIDE DEF F
  <2>3. g = [s \in SUBSET S |-> IF s = {} THEN 0 ELSE F[<<Any[s], g[s \ {Any[s]}]>>]]
    BY <1>3 DEF Steps
  <2>4. g = [s \in SUBSET S |-> IF s = {} THEN 0 ELSE f[Any[s]] + g[s \ {Any[s]}]]
    BY <2>1, <2>3
  <2> QED BY <2>2, <2>4 DEF IsSum
<1>5. IsSum(SumOf(f, S), f, S)
  BY <1>4 DEF SumOf
<1> DEFINE h == SumOf(f, S)
<1>6. ASSUME NEW s \in SUBSET S, s # {}, h[s \ {Any[s]}] \in Int PROVE h[s] \in Int
  <2>1. Any[s] \in S /\ h[s] = f[Any[s]] + h[s \ {Any[s]}]
    BY <1>1, <1>5, <1>6, AnyPicks DEF IsSum, Picks
  <2> QED BY <1>6, <2>1
<1>7. h[{}] = 0 /\ h = [s \in SUBSET S |-> h[s]]
  BY <1>5 DEF IsSum
<1> DEFINE Q == {s \in SUBSET S : h[s] \in Int}
<1>8. Q = SUBSET S
  <2>1. Q \in SUBSET (SUBSET S) /\ {} \in Q
    BY <1>7
  <2>2. \A s \in SUBSET S : s # {} /\ s \ {Any[s]} \in Q => s \in Q
    BY <1>6
  <2> HIDE DEF Q
  <2> QED BY <1>1, <2>1, <2>2, EverySubset
<1> QED BY <1>5, <1>7, <1>8

LEMMA SumOfPart ==
    ASSUME NEW f, NEW S \in SUBSET Ticks, NEW R \in SUBSET S, \A p \in S : f[p] \in Int
    PROVE  SumOf(f, S)[R] = Total(f, R)
<1> DEFINE g == SumOf(f, S)
           h == SumOf(f, R)
           Q == {s \in SUBSET R : g[s] = h[s]}
<1>1. IsSum(g, f, S) /\ IsSum(h, f, R) /\ IsFiniteSet(R) /\ Picks(Any, R)
  BY SumExists, AnyPicks, R \in SUBSET Ticks
<1>2. ASSUME NEW s \in SUBSET R, s # {}
      PROVE  g[s] = f[Any[s]] + g[s \ {Any[s]}] /\ h[s] = f[Any[s]] + h[s \ {Any[s]}]
  <2>1. Any[s] = CHOOSE p \in s : TRUE
    BY AnyPicks
  <2>2. s \in SUBSET S
    OBVIOUS
  <2> HIDE DEF g, h
  <2>3. g[s] = f[Any[s]] + g[s \ {Any[s]}]
    BY <1>1, <1>2, <2>1, <2>2 DEF IsSum
  <2>4. h[s] = f[Any[s]] + h[s \ {Any[s]}]
    BY <1>1, <1>2, <2>1 DEF IsSum
  <2> QED BY <2>3, <2>4
<1>3. g[{}] = 0 /\ h[{}] = 0
  BY <1>1 DEF IsSum
<1> HIDE DEF g, h
<1>4. Q \in SUBSET (SUBSET R) /\ {} \in Q
  BY <1>3
<1>5. \A s \in SUBSET R : s # {} /\ s \ {Any[s]} \in Q => s \in Q
  BY <1>2
<1>6. Q = SUBSET R
  <2> HIDE DEF Q
  <2> QED BY <1>1, <1>4, <1>5, EverySubset
<1>7. g[R] = h[R]
  BY <1>6
<1> QED
  BY <1>7, TotalIsSum DEF g, h

\* A sum over nothing, and with one more member.
LEMMA TotalSteps ==
    ASSUME NEW f, NEW S \in SUBSET Ticks, \A p \in S : f[p] \in Int
    PROVE  /\ Total(f, {}) = 0
           /\ Total(f, S) \in Int
           /\ S # {} => /\ Any[S] \in S
                        /\ Total(f, S) = f[Any[S]] + Total(f, S \ {Any[S]})
<1> DEFINE g == SumOf(f, S)
<1>1. IsSum(g, f, S) /\ g \in [SUBSET S -> Int] /\ Picks(Any, S) /\ Any[S] = CHOOSE p \in S : TRUE
  BY SumExists, AnyPicks
<1>2. \A R \in SUBSET S : g[R] = Total(f, R)
  BY SumOfPart
<1> HIDE DEF g
<1>3. g[{}] = 0
  BY <1>1 DEF IsSum
<1>4. g[S] \in Int
  BY <1>1
<1>5. ASSUME S # {} PROVE Any[S] \in S /\ g[S] = f[Any[S]] + g[S \ {Any[S]}]
  BY <1>1, <1>5 DEF IsSum, Picks
<1> QED
  BY <1>2, <1>3, <1>4, <1>5

\* Any member can be the first.
LEMMA TotalWithout ==
    ASSUME NEW f, NEW S \in SUBSET Ticks, \A p \in S : f[p] \in Int, NEW p \in S
    PROVE  Total(f, S) = f[p] + Total(f, S \ {p})
<1> DEFINE Q == {s \in SUBSET S : \A q \in s : Total(f, s) = f[q] + Total(f, s \ {q})}
<1>1. IsFiniteSet(S) /\ Picks(Any, S)
  BY AnyPicks
<1>2. ASSUME NEW s \in SUBSET S, s # {}
      PROVE  Any[s] \in s /\ Total(f, s) = f[Any[s]] + Total(f, s \ {Any[s]})
  BY TotalSteps, <1>2
<1>3. ASSUME NEW s \in SUBSET S PROVE Total(f, s) \in Int
  BY TotalSteps
<1>4. ASSUME NEW s \in SUBSET S, \A r \in SUBSET S : Cardinality(r) < Cardinality(s) => r \in Q
      PROVE  s \in Q
  <2> SUFFICES ASSUME NEW q \in s PROVE Total(f, s) = f[q] + Total(f, s \ {q})
    OBVIOUS
  <2> DEFINE c == Any[s]
             r == (s \ {c}) \ {q}
  <2>1. c \in s /\ Total(f, s) = f[c] + Total(f, s \ {c})
    BY <1>2
  <2>2. CASE q = c
    BY <2>1, <2>2
  <2>3. CASE q # c
    <3>1. \A x \in s : s \ {x} \in Q
      <4>1. IsFiniteSet(s)
        BY <1>1, FS_Subset
      <4>2. \A x \in s : Cardinality(s \ {x}) = Cardinality(s) - 1 /\ Cardinality(s) \in Nat
        BY <4>1, FS_RemoveElement, FS_CardinalityType
      <4>3. \A x \in s : Cardinality(s \ {x}) < Cardinality(s) /\ s \ {x} \in SUBSET S
        BY <4>2
      <4> HIDE DEF Q
      <4> QED BY <1>4, <4>3
    <3>2. Total(f, s \ {c}) = f[q] + Total(f, r)
      BY <2>1, <2>3, <3>1
    <3>3. (s \ {q}) \ {c} = r
      OBVIOUS
    <3>4. Total(f, s \ {q}) = f[c] + Total(f, r)
      BY <2>1, <2>3, <3>1, <3>3
    <3>5. Total(f, r) \in Int /\ f[c] \in Int /\ f[q] \in Int
      BY <1>3, <2>1
    <3> QED
      <4> HIDE DEF c, r
      <4> QED BY <2>1, <3>2, <3>4, <3>5
  <2> QED BY <2>2, <2>3
<1>5. Q = SUBSET S
  <2>1. Q \in SUBSET (SUBSET S)
    OBVIOUS
  <2> HIDE DEF Q
  <2> QED BY <1>1, <1>4, <2>1, BySize
<1> QED
  BY <1>5

\* Values outside a part that are 0 do not count.
LEMMA TotalOfPart ==
    ASSUME NEW f, NEW S \in SUBSET Ticks, \A p \in S : f[p] \in Int,
           NEW R \in SUBSET S, \A p \in S \ R : f[p] = 0
    PROVE  Total(f, S) = Total(f, R)
<1> DEFINE Q == {s \in SUBSET S : Total(f, s) = Total(f, s \cap R)}
<1>1. IsFiniteSet(S) /\ Picks(Any, S)
  BY AnyPicks
<1>2. ASSUME NEW s \in SUBSET S, s # {}, s \ {Any[s]} \in Q PROVE s \in Q
  <2> DEFINE c == Any[s]
  <2>1. c \in s /\ Total(f, s) = f[c] + Total(f, s \ {c})
    BY <1>2, TotalSteps
  <2>2. Total(f, s \ {c}) = Total(f, (s \ {c}) \cap R) /\ Total(f, s \ {c}) \in Int
    BY <1>2, TotalSteps
  <2> HIDE DEF c
  <2>3. CASE c \in R
    <3>1. (s \ {c}) \cap R = (s \cap R) \ {c} /\ c \in s \cap R /\ s \cap R \in SUBSET Ticks
      BY <2>1, <2>3
    <3>2. Total(f, s \cap R) = f[c] + Total(f, (s \cap R) \ {c})
      BY <3>1, TotalWithout
    <3> QED BY <2>1, <2>2, <3>1, <3>2
  <2>4. CASE c \notin R
    <3>1. (s \ {c}) \cap R = s \cap R
      BY <2>4
    <3>2. f[c] = 0
      BY <2>1, <2>4
    <3>3. Total(f, s) = Total(f, s \ {c})
      BY <2>1, <2>2, <3>2
    <3>4. Total(f, s) = Total(f, s \cap R)
      BY <2>2, <3>1, <3>3
    <3> QED BY <3>4
  <2> QED BY <2>3, <2>4
<1>3. {} \in Q
  BY TotalSteps
<1>4. Q = SUBSET S
  <2>1. Q \in SUBSET (SUBSET S)
    OBVIOUS
  <2> HIDE DEF Q
  <2> QED BY <1>1, <1>2, <1>3, <2>1, EverySubset
<1>5. S \cap R = R
  OBVIOUS
<1> QED
  BY <1>4, <1>5

\* Sums that are compared value by value, after a weighted exchange.
LEMMA TotalCompare ==
    ASSUME NEW f, NEW g, NEW x, NEW y, NEW w \in Int, NEW S \in SUBSET Ticks,
           \A p \in S : /\ f[p] \in Int /\ g[p] \in Int /\ x[p] \in Int /\ y[p] \in Int
                       /\ f[p] + w * x[p] <= g[p] + w * y[p]
    PROVE  Total(f, S) + w * Total(x, S) <= Total(g, S) + w * Total(y, S)
<1> DEFINE Q == {s \in SUBSET S : Total(f, s) + w * Total(x, s) <= Total(g, s) + w * Total(y, s)}
<1>1. IsFiniteSet(S) /\ Picks(Any, S)
  BY AnyPicks
<1>2. ASSUME NEW s \in SUBSET S, s # {}, s \ {Any[s]} \in Q PROVE s \in Q
  <2> DEFINE c == Any[s]
             r == s \ {c}
  <2>1. c \in s /\ r \in SUBSET Ticks
    BY <1>2, TotalSteps
  <2>2. \A h \in {f, g, x, y} : /\ Total(h, s) = h[c] + Total(h, r)
                              /\ Total(h, r) \in Int /\ h[c] \in Int
    <3>1. \A h \in {f, g, x, y} : \A p \in s : h[p] \in Int
      OBVIOUS
    <3> QED BY <1>2, <2>1, <3>1, TotalSteps
  <2>3. Total(f, r) + w * Total(x, r) <= Total(g, r) + w * Total(y, r)
    BY <1>2
  <2>4. f[c] + w * x[c] <= g[c] + w * y[c]
    BY <2>1
  <2> HIDE DEF c, r
  <2>5. ASSUME NEW a1 \in Int, NEW a2 \in Int, NEW b1 \in Int, NEW b2 \in Int,
               NEW c1 \in Int, NEW c2 \in Int, NEW d1 \in Int, NEW d2 \in Int,
               a1 + w * c1 <= b1 + w * d1, a2 + w * c2 <= b2 + w * d2
        PROVE  (a1 + a2) + w * (c1 + c2) <= (b1 + b2) + w * (d1 + d2)
    <3>1. w * (c1 + c2) = w * c1 + w * c2 /\ w * (d1 + d2) = w * d1 + w * d2
      OBVIOUS
    <3>2. w * c1 \in Int /\ w * c2 \in Int /\ w * d1 \in Int /\ w * d2 \in Int
      OBVIOUS
    <3> QED BY <2>5, <3>1, <3>2
  <2>6. /\ Total(f, s) = f[c] + Total(f, r) /\ Total(g, s) = g[c] + Total(g, r)
        /\ Total(x, s) = x[c] + Total(x, r) /\ Total(y, s) = y[c] + Total(y, r)
        /\ Total(f, r) \in Int /\ Total(g, r) \in Int /\ Total(x, r) \in Int /\ Total(y, r) \in Int
        /\ f[c] \in Int /\ g[c] \in Int /\ x[c] \in Int /\ y[c] \in Int
    BY <2>2
  <2>7. Total(f, s) + w * Total(x, s) <= Total(g, s) + w * Total(y, s)
    BY <2>3, <2>4, <2>5, <2>6
  <2> QED BY <2>7
<1>3. {} \in Q
  <2>1. Total(f, {}) = 0 /\ Total(g, {}) = 0 /\ Total(x, {}) = 0 /\ Total(y, {}) = 0
    BY TotalSteps
  <2>2. w * 0 = 0
    OBVIOUS
  <2> QED BY <2>1, <2>2
<1>4. Q = SUBSET S
  <2>1. Q \in SUBSET (SUBSET S)
    OBVIOUS
  <2> HIDE DEF Q
  <2>2. \A s \in SUBSET S : s # {} /\ s \ {Any[s]} \in Q => s \in Q
    BY ONLY <1>2
  <2> QED BY ONLY <1>1, <1>3, <2>1, <2>2, EverySubset
<1>5. S \in Q
  BY <1>4
<1> QED
  BY <1>5

LEMMA TotalSame ==
    ASSUME NEW f, NEW g, NEW S \in SUBSET Ticks, \A p \in S : f[p] \in Int /\ g[p] = f[p]
    PROVE  Total(g, S) = Total(f, S)
<1>1. \A p \in S : f[p] + 0 * f[p] = g[p] + 0 * f[p] /\ f[p] + 0 * f[p] \in Int
  OBVIOUS
<1>2. /\ Total(f, S) + 0 * Total(f, S) <= Total(g, S) + 0 * Total(f, S)
      /\ Total(g, S) + 0 * Total(f, S) <= Total(f, S) + 0 * Total(f, S)
  BY <1>1, TotalCompare, 0 \in Int
<1>3. Total(f, S) \in Int /\ Total(g, S) \in Int
  BY TotalSteps
<1> QED
  BY <1>2, <1>3

\* What one more value adds to a sum.
LEMMA TotalChange ==
    ASSUME NEW f, NEW g, NEW S \in SUBSET Ticks, \A q \in S : f[q] \in Int /\ g[q] \in Int,
           NEW p \in S, f[p] = 0, \A q \in S : q # p => g[q] = f[q]
    PROVE  Total(g, S) = Total(f, S) + g[p]
<1>1. Total(g, S) = g[p] + Total(g, S \ {p}) /\ Total(f, S) = 0 + Total(f, S \ {p})
  BY TotalWithout
<1>2. S \ {p} \in SUBSET Ticks /\ \A q \in S \ {p} : f[q] \in Int /\ g[q] = f[q]
  OBVIOUS
<1>3. Total(g, S \ {p}) = Total(f, S \ {p})
  BY <1>2, TotalSame
<1>4. Total(f, S \ {p}) \in Int
  BY <1>2, TotalSteps
<1> QED
  BY <1>1, <1>3, <1>4

-----------------------------------------------------------------------------
(* The walk through a ladder *)

LEMMA OneIsBetter ==
    ASSUME NEW side, NEW p \in Ticks, NEW q \in Ticks
    PROVE  /\ p # q => Better(side, p, q) \/ Better(side, q, p)
           /\ Better(side, p, q) => p # q /\ ~Better(side, q, p)
           /\ \A r \in Ticks : Better(side, p, q) /\ Better(side, q, r) => Better(side, p, r)
BY MakerAssumption DEF Better

LEMMA LastExists ==
    ASSUME NEW side, NEW S \in SUBSET Ticks, S # {}
    PROVE  /\ Last(side, S) \in S
           /\ \A q \in S \ {Last(side, S)} : Better(side, q, Last(side, S))
<1> DEFINE HasLast(s) == \E p \in s : \A q \in s \ {p} : Better(side, q, p)
           Q == {s \in SUBSET S : s # {} => HasLast(s)}
<1>1. IsFiniteSet(S) /\ Picks(Any, S)
  BY AnyPicks
<1>2. ASSUME NEW s \in SUBSET S, s # {}, s \ {Any[s]} \in Q PROVE s \in Q
  <2> DEFINE c == Any[s]
             r == s \ {c}
  <2>1. c \in s
    BY <1>1, <1>2 DEF Picks
  <2> HIDE DEF c
  <2>2. CASE r = {}
    BY <2>1, <2>2
  <2>3. CASE r # {}
    <3>1. PICK p \in r : \A q \in r \ {p} : Better(side, q, p)
      BY <1>2, <2>3 DEF c
    <3>2. p \in Ticks /\ c \in Ticks /\ p # c
      BY <2>1, <3>1
    <3>3. CASE Better(side, c, p)
      BY <3>1, <3>3
    <3>4. CASE Better(side, p, c)
      <4>1. \A q \in s \ {c} : Better(side, q, c)
        BY <3>1, <3>2, <3>4, OneIsBetter
      <4> QED BY <2>1, <4>1
    <3> QED BY <3>2, <3>3, <3>4, OneIsBetter
  <2> QED BY <2>2, <2>3
<1>3. Q = SUBSET S
  <2>1. Q \in SUBSET (SUBSET S) /\ {} \in Q
    OBVIOUS
  <2> HIDE DEF Q
  <2> QED BY <1>1, <1>2, <2>1, EverySubset
<1>4. HasLast(S)
  BY <1>3
<1> QED
  BY <1>4 DEF Last

Acc == [left : Nat, cost : Nat]
IsWalk(walk, ladder, side, price, size) ==
    walk = [met \in SUBSET Levels(ladder) |->
               IF met = {} THEN [left |-> size, cost |-> 0]
               ELSE LET p == Last(side, met)
                        acc == walk[met \ {p}]
                        take == IF Within(side, price, p) THEN Least(acc.left, ladder[p]) ELSE 0
                    IN  [left |-> acc.left - take, cost |-> acc.cost + take * p]]
WalkOf(ladder, side, price, size) == CHOOSE walk : IsWalk(walk, ladder, side, price, size)

LEMMA TakeIsWalk ==
    ASSUME NEW ladder, NEW side, NEW price, NEW size
    PROVE  Take(ladder, side, price, size) = WalkOf(ladder, side, price, size)[Levels(ladder)]
BY DEF Take, WalkOf, IsWalk

LEMMA WalkExists ==
    ASSUME NEW ladder \in [Ticks -> Nat], NEW side, NEW price, NEW size \in Nat
    PROVE  IsWalk(WalkOf(ladder, side, price, size), ladder, side, price, size)
<1> DEFINE S == Levels(ladder)
           last == [s \in SUBSET S |-> Last(side, s)]
           take(left, p) == IF Within(side, price, p) THEN Least(left, ladder[p]) ELSE 0
           Next1(p, acc) == [left |-> acc.left - take(acc.left, p),
                             cost |-> acc.cost + take(acc.left, p) * p]
           F == [x \in S \X Acc |-> Next1(x[1], x[2])]
<1>1. S \in SUBSET Ticks /\ IsFiniteSet(S)
  BY AnyPicks DEF Levels
<1>2. Picks(last, S)
  <2> SUFFICES ASSUME NEW s \in SUBSET S, s # {} PROVE Last(side, s) \in s
    BY DEF Picks
  <2> QED BY <1>1, LastExists
<1>3. ASSUME NEW p \in S, NEW acc \in Acc PROVE Next1(p, acc) \in Acc
  <2>1. p \in Nat /\ ladder[p] \in Nat /\ acc.left \in Nat /\ acc.cost \in Nat
    BY <1>1, MakerAssumption DEF Acc
  <2>2. take(acc.left, p) \in Nat /\ take(acc.left, p) <= acc.left
    BY <2>1 DEF Least
  <2> HIDE DEF take
  <2>3. take(acc.left, p) * p \in Nat
    BY <2>1, <2>2
  <2> QED BY <2>1, <2>2, <2>3 DEF Acc
<1> HIDE DEF Next1, S
<1>4. F \in [S \X Acc -> Acc]
  BY <1>3
<1>5. [left |-> size, cost |-> 0] \in Acc
  BY DEF Acc
<1>6. PICK g \in [SUBSET S -> Acc] : Steps(g, F, last, [left |-> size, cost |-> 0], SUBSET S)
  <2> HIDE DEF F, last
  <2> QED BY <1>1, <1>2, <1>4, <1>5, StepsExist
<1>7. g = [s \in SUBSET S |-> IF s = {} THEN [left |-> size, cost |-> 0]
                              ELSE Next1(Last(side, s), g[s \ {Last(side, s)}])]
  <2>1. ASSUME NEW p \in S, NEW acc \in Acc PROVE F[<<p, acc>>] = Next1(p, acc)
    OBVIOUS
  <2>2. ASSUME NEW s \in SUBSET S, s # {}
        PROVE  F[<<last[s], g[s \ {last[s]}]>>] = Next1(Last(side, s), g[s \ {Last(side, s)}])
    <3>1. last[s] = Last(side, s)
      OBVIOUS
    <3>2. last[s] \in S /\ g[s \ {last[s]}] \in Acc
      BY <1>2, <2>2 DEF Picks
    <3> HIDE DEF F, last
    <3> QED BY <2>1, <3>1, <3>2
  <2> HIDE DEF F
  <2> QED BY <1>6, <2>2 DEF Steps
<1>8. IsWalk(g, ladder, side, price, size)
  BY <1>7 DEF IsWalk, Next1, S
<1> QED
  BY <1>8 DEF WalkOf

\* The walk has taken t[p] from the level at p for every p in met: never past
\* the limit, and nothing from a level unless every better one is used up.
Walked(t, met, acc, ladder, side, price, size) ==
    /\ acc \in Acc
    /\ t \in [Ticks -> Nat]
    /\ \A p \in Ticks : t[p] <= ladder[p] /\ (p \notin met \/ ~Within(side, price, p) => t[p] = 0)
    /\ Total(t, Ticks) + acc.left = size
    /\ acc.cost = Cost(t)
    /\ acc.left > 0 => \A p \in met : Within(side, price, p) => t[p] = ladder[p]
    /\ \A p \in Ticks, q \in met :
          t[p] > 0 /\ Within(side, price, q) /\ Better(side, q, p) => t[q] = ladder[q]

LEMMA CostChange ==
    ASSUME NEW t \in [Ticks -> Nat], NEW p \in Ticks, t[p] = 0, NEW take \in Nat
    PROVE  /\ Total([t EXCEPT ![p] = take], Ticks) = Total(t, Ticks) + take
           /\ Cost([t EXCEPT ![p] = take]) = Cost(t) + take * p
<1> DEFINE u == [t EXCEPT ![p] = take]
           f == [q \in Ticks |-> t[q] * q]
           g == [q \in Ticks |-> u[q] * q]
<1>1. u \in [Ticks -> Nat] /\ u[p] = take /\ \A q \in Ticks : q # p => u[q] = t[q]
  OBVIOUS
<1> HIDE DEF u
<1>2. Total(u, Ticks) = Total(t, Ticks) + u[p]
  <2>1. \A q \in Ticks : t[q] \in Int /\ u[q] \in Int
    BY <1>1
  <2> QED BY <1>1, <2>1, TotalChange, Ticks \in SUBSET Ticks
<1>3. \A q \in Ticks : f[q] \in Int /\ g[q] \in Int
  BY <1>1, MakerAssumption
<1>4. f[p] = 0 /\ g[p] = take * p /\ \A q \in Ticks : q # p => g[q] = f[q]
  BY <1>1, MakerAssumption
<1>5. Total(g, Ticks) = Total(f, Ticks) + g[p]
  <2> HIDE DEF f, g
  <2> QED BY <1>3, <1>4, TotalChange, Ticks \in SUBSET Ticks
<1> QED
  BY <1>1, <1>2, <1>4, <1>5 DEF Cost, Total, u

LEMMA OneMoreLevel ==
    ASSUME NEW ladder \in [Ticks -> Nat], NEW side, NEW price, NEW size \in Nat,
           NEW met \in SUBSET Ticks, NEW p \in met,
           \A q \in met \ {p} : Better(side, q, p),
           NEW t, NEW acc, Walked(t, met \ {p}, acc, ladder, side, price, size),
           NEW take, take = IF Within(side, price, p) THEN Least(acc.left, ladder[p]) ELSE 0
    PROVE  Walked([t EXCEPT ![p] = take], met,
                  [left |-> acc.left - take, cost |-> acc.cost + take * p],
                  ladder, side, price, size)
<1> DEFINE u == [t EXCEPT ![p] = take]
           next == [left |-> acc.left - take, cost |-> acc.cost + take * p]
<1>1. /\ p \in Ticks /\ p \in Nat /\ ladder[p] \in Nat
      /\ acc.left \in Nat /\ acc.cost \in Nat /\ t \in [Ticks -> Nat] /\ t[p] = 0
  BY MakerAssumption DEF Walked, Acc
<1>2. /\ take \in Nat /\ take <= acc.left /\ take <= ladder[p]
      /\ ~Within(side, price, p) => take = 0
      /\ Within(side, price, p) => take = ladder[p] \/ take = acc.left
  BY <1>1 DEF Least
<1>3. u \in [Ticks -> Nat] /\ u[p] = take /\ \A q \in Ticks : q # p => u[q] = t[q]
  BY <1>1, <1>2
<1>4. Total(u, Ticks) = Total(t, Ticks) + take /\ Cost(u) = Cost(t) + take * p
  BY <1>1, <1>2, CostChange
<1>5. next \in Acc /\ next.left = acc.left - take /\ next.cost = acc.cost + take * p
  <2>1. take * p \in Nat
    BY <1>1, <1>2
  <2> QED BY <1>1, <1>2, <2>1 DEF Acc
<1> HIDE DEF u, next
<1>6. \A q \in Ticks : u[q] <= ladder[q] /\ (q \notin met \/ ~Within(side, price, q) => u[q] = 0)
  BY <1>2, <1>3 DEF Walked
<1>7. Total(u, Ticks) + next.left = size
  <2>1. \A q \in Ticks : t[q] \in Int
    BY <1>1
  <2>2. Total(t, Ticks) \in Int /\ Total(t, Ticks) + acc.left = size
    BY <2>1, TotalSteps, Ticks \in SUBSET Ticks DEF Walked
  <2> QED BY <1>1, <1>2, <1>4, <1>5, <2>2
<1>8. next.cost = Cost(u)
  BY <1>4, <1>5 DEF Walked
<1>9. ASSUME next.left > 0, NEW q \in met, Within(side, price, q) PROVE u[q] = ladder[q]
  <2>1. CASE q = p
    BY <1>1, <1>2, <1>3, <1>5, <1>9, <2>1
  <2>2. CASE q # p
    <3>1. acc.left > 0
      BY <1>1, <1>2, <1>5, <1>9
    <3> QED BY <1>3, <1>9, <2>2, <3>1 DEF Walked
  <2> QED BY <2>1, <2>2
<1>10. ASSUME NEW r \in Ticks, NEW q \in met, u[r] > 0, Within(side, price, q), Better(side, q, r)
       PROVE  u[q] = ladder[q]
  <2>1. CASE r = p
    <3>1. q # p
      BY <1>10, <2>1, OneIsBetter
    <3>2. acc.left > 0
      BY <1>1, <1>2, <1>3, <1>10, <2>1
    <3> QED BY <1>3, <1>10, <3>1, <3>2 DEF Walked
  <2>2. CASE r # p
    <3>1. t[r] > 0 /\ r \in met \ {p}
      <4>1. t[r] > 0
        BY <1>3, <1>10, <2>2
      <4>2. t[r] # 0
        BY <4>1
      <4> QED BY <4>1, <4>2 DEF Walked
    <3>2. Better(side, r, p) /\ q # p
      BY <1>10, <3>1, OneIsBetter
    <3> QED BY <1>3, <1>10, <3>1, <3>2 DEF Walked
  <2> QED BY <2>1, <2>2
<1> QED
  BY <1>3, <1>5, <1>6, <1>7, <1>8, <1>9, <1>10 DEF Walked, u, next

\* What a taker takes from a ladder.
LEMMA TakeWalks ==
    ASSUME NEW ladder \in [Ticks -> Nat], NEW side, NEW price, NEW size \in Nat
    PROVE  \E t : Walked(t, Levels(ladder), Take(ladder, side, price, size), ladder, side, price, size)
<1> DEFINE S == Levels(ladder)
           walk == WalkOf(ladder, side, price, size)
           last == [s \in SUBSET S |-> Last(side, s)]
           Fine(s) == \E t : Walked(t, s, walk[s], ladder, side, price, size)
           Q == {s \in SUBSET S : Fine(s)}
<1>1. S \in SUBSET Ticks /\ IsFiniteSet(S)
  BY AnyPicks DEF Levels
<1>2. IsWalk(walk, ladder, side, price, size)
  BY WalkExists
<1> HIDE DEF walk, S
<1>3. Fine({})
  <2> DEFINE none == [p \in Ticks |-> 0]
  <2>1. Total(none, Ticks) = 0 /\ Cost(none) = 0
    <3>1. \A f \in {none, [p \in Ticks |-> none[p] * p]} : \A p \in Ticks : f[p] = 0
      BY MakerAssumption
    <3>2. ASSUME NEW f, \A p \in Ticks : f[p] = 0 PROVE Total(f, Ticks) = 0
      <4>1. Total(f, Ticks) = Total(f, {})
        BY <3>2, TotalOfPart, Ticks \in SUBSET Ticks, {} \in SUBSET Ticks
      <4> QED BY <3>2, <4>1, TotalSteps, {} \in SUBSET Ticks
    <3>3. Total([p \in Ticks |-> none[p] * p], Ticks) = 0 /\ Total(none, Ticks) = 0
      BY <3>1, <3>2
    <3> QED BY <3>3 DEF Cost, Total
  <2>2. walk[{}] = [left |-> size, cost |-> 0]
    BY <1>2 DEF IsWalk, S
  <2>3. Walked(none, {}, walk[{}], ladder, side, price, size)
    BY <2>1, <2>2 DEF Walked, Acc
  <2> QED BY <2>3
<1>4. Picks(last, S)
  <2> SUFFICES ASSUME NEW s \in SUBSET S, s # {} PROVE Last(side, s) \in s
    BY DEF Picks
  <2> QED BY <1>1, LastExists
<1>5. ASSUME NEW s \in SUBSET S, s # {}, s \ {last[s]} \in Q PROVE s \in Q
  <2> DEFINE p == Last(side, s)
             acc == walk[s \ {p}]
             take == IF Within(side, price, p) THEN Least(acc.left, ladder[p]) ELSE 0
  <2>1. s \in SUBSET Ticks
    BY <1>1
  <2>2. p \in s /\ \A q \in s \ {p} : Better(side, q, p)
    BY <1>5, <2>1, LastExists
  <2>3. walk[s] = [left |-> acc.left - take, cost |-> acc.cost + take * p]
    BY <1>2, <1>5 DEF IsWalk, S
  <2>4. last[s] = p
    OBVIOUS
  <2>5. PICK t : Walked(t, s \ {p}, acc, ladder, side, price, size)
    <3> HIDE DEF last, p
    <3> QED BY <1>5, <2>4
  <2> HIDE DEF p, acc
  <2>6. Walked([t EXCEPT ![p] = take], s, walk[s], ladder, side, price, size)
    <3>1. take = IF Within(side, price, p) THEN Least(acc.left, ladder[p]) ELSE 0
      OBVIOUS
    <3> HIDE DEF take
    <3> QED BY <2>1, <2>2, <2>3, <2>5, <3>1, OneMoreLevel
  <2> QED BY <2>6
<1>6. Q = SUBSET S
  <2>1. Q \in SUBSET (SUBSET S) /\ {} \in Q
    BY <1>3
  <2> HIDE DEF Q, last
  <2> QED BY <1>1, <1>4, <1>5, <2>1, EverySubset
<1>7. S \in Q
  BY <1>6
<1> QED
  BY <1>7, TakeIsWalk DEF S, walk

-----------------------------------------------------------------------------
(* What a taker gets *)

\* It fills as much as the levels within its limit hold.
LEMMA TakeFills ==
    ASSUME NEW ladder \in [Ticks -> Nat], NEW side, NEW price, NEW size \in Nat
    PROVE  size - Take(ladder, side, price, size).left
              = Least(size, Total(ladder, {p \in Ticks : Within(side, price, p)}))
<1> DEFINE W == {p \in Ticks : Within(side, price, p)}
           acc == Take(ladder, side, price, size)
<1>1. PICK t : Walked(t, Levels(ladder), acc, ladder, side, price, size)
  BY TakeWalks
<1> HIDE DEF acc
<1>2. acc.left \in Nat /\ t \in [Ticks -> Nat] /\ \A p \in Ticks : t[p] \in Int
  BY <1>1 DEF Walked, Acc
<1>3. \A p \in Ticks \ W : t[p] = 0
  BY <1>1 DEF Walked
<1>4. Total(t, Ticks) = Total(t, W)
  BY <1>2, <1>3, TotalOfPart, Ticks \in SUBSET Ticks, W \in SUBSET Ticks
<1>5. \A p \in W : t[p] \in Int /\ ladder[p] \in Int /\ t[p] <= ladder[p]
  BY <1>1, <1>2 DEF Walked
<1>6. Total(t, W) \in Int /\ Total(ladder, W) \in Int
  BY <1>5, TotalSteps, W \in SUBSET Ticks
<1>7. Total(t, W) + acc.left = size
  BY <1>1, <1>4 DEF Walked
<1> HIDE DEF W
<1>8. Total(t, W) <= Total(ladder, W)
  <2>1. \A p \in W : t[p] + 0 * t[p] <= ladder[p] + 0 * t[p]
    BY <1>5
  <2>2. W \in SUBSET Ticks
    BY DEF W
  <2>3. Total(t, W) + 0 * Total(t, W) <= Total(ladder, W) + 0 * Total(t, W)
    BY <1>5, <2>1, <2>2, TotalCompare, 0 \in Int
  <2> QED BY <1>6, <2>3
<1>9. CASE acc.left = 0
  BY <1>6, <1>7, <1>8, <1>9 DEF Least, acc, W
<1>10. CASE acc.left > 0
  <2>1. \A p \in W : t[p] = ladder[p]
    <3>1. ASSUME NEW p \in W, p \in Levels(ladder) PROVE t[p] = ladder[p]
      BY <1>1, <1>10, <3>1 DEF Walked, W
    <3>2. ASSUME NEW p \in W, p \notin Levels(ladder) PROVE t[p] = ladder[p]
      <4>1. p \in Ticks /\ ~(ladder[p] > 0) /\ ladder[p] \in Nat
        BY <3>2 DEF Levels, W
      <4>2. t[p] <= ladder[p] /\ t[p] \in Nat
        BY <1>1, <1>2, <4>1 DEF Walked
      <4> QED BY <4>1, <4>2
    <3> QED BY <3>1, <3>2
  <2>2. Total(t, W) = Total(ladder, W)
    BY <1>5, <2>1, TotalSame, W \in SUBSET Ticks DEF W
  <2> QED BY <1>2, <1>6, <1>7, <1>10, <2>2 DEF Least, acc, W
<1> QED
  BY <1>2, <1>9, <1>10

\* Shares at a lower price exchanged for shares at a higher one cost more.
LEMMA Exchange ==
    ASSUME NEW a \in Nat, NEW b \in Nat, NEW p \in Nat, NEW w \in Nat,
           (a <= b /\ p >= w) \/ (a >= b /\ p <= w)
    PROVE  a * p + w * b <= b * p + w * a
<1>1. CASE a <= b /\ p >= w
  <2>1. PICK d \in Nat : b = a + d
    BY <1>1, b - a \in Nat, b = a + (b - a)
  <2>2. PICK e \in Nat : p = w + e
    BY <1>1, p - w \in Nat, p = w + (p - w)
  <2>3. d * e \in Nat
    OBVIOUS
  <2>4. b * p + w * a = a * p + w * b + d * e
    BY <2>1, <2>2
  <2>5. a * p \in Nat /\ w * b \in Nat
    OBVIOUS
  <2> QED BY ONLY <2>3, <2>4, <2>5
<1>2. CASE a >= b /\ p <= w
  <2>1. PICK d \in Nat : a = b + d
    BY <1>2, a - b \in Nat, a = b + (a - b)
  <2>2. PICK e \in Nat : w = p + e
    BY <1>2, w - p \in Nat, w = p + (w - p)
  <2>3. d * e \in Nat
    OBVIOUS
  <2>4. b * p + w * a = a * p + w * b + d * e
    BY <2>1, <2>2
  <2>5. a * p \in Nat /\ w * b \in Nat
    OBVIOUS
  <2> QED BY ONLY <2>3, <2>4, <2>5
<1> QED
  BY <1>1, <1>2

LEMMA Cheaper ==
    ASSUME NEW a \in [Ticks -> Nat], NEW b \in [Ticks -> Nat], NEW w \in Nat,
           Total(a, Ticks) = Total(b, Ticks),
           \A p \in Ticks : (a[p] <= b[p] /\ p >= w) \/ (a[p] >= b[p] /\ p <= w)
    PROVE  Cost(a) <= Cost(b)
<1> DEFINE f == [p \in Ticks |-> a[p] * p]
           g == [p \in Ticks |-> b[p] * p]
<1>1. ASSUME NEW p \in Ticks
      PROVE  /\ f[p] \in Int /\ g[p] \in Int /\ b[p] \in Int /\ a[p] \in Int
             /\ f[p] + w * b[p] <= g[p] + w * a[p]
  <2>1. p \in Nat /\ a[p] \in Nat /\ b[p] \in Nat
    BY MakerAssumption
  <2>2. f[p] = a[p] * p /\ g[p] = b[p] * p
    OBVIOUS
  <2>3. a[p] * p + w * b[p] <= b[p] * p + w * a[p]
    BY <2>1, Exchange
  <2> QED BY <2>1, <2>2, <2>3
<1>2. Cost(a) = Total(f, Ticks) /\ Cost(b) = Total(g, Ticks)
  BY DEF Cost, Total
<1> HIDE DEF f, g
<1>3. Total(f, Ticks) + w * Total(b, Ticks) <= Total(g, Ticks) + w * Total(a, Ticks)
  BY <1>1, TotalCompare, w \in Int, Ticks \in SUBSET Ticks
<1>4. /\ Total(f, Ticks) \in Int /\ Total(g, Ticks) \in Int /\ Total(a, Ticks) \in Int
  BY <1>1, TotalSteps, Ticks \in SUBSET Ticks
<1>5. w * Total(a, Ticks) \in Int
  BY <1>4
<1> QED
  BY <1>2, <1>3, <1>4, <1>5

\* No other choice of levels within the limit gives a better price.
LEMMA TakeIsBest ==
    ASSUME NEW ladder \in [Ticks -> Nat], NEW side, NEW price, NEW size \in Nat,
           NEW x \in Allocations(ladder, side, price, size - Take(ladder, side, price, size).left)
    PROVE  IF side = "buy" THEN Take(ladder, side, price, size).cost <= Cost(x)
                           ELSE Take(ladder, side, price, size).cost >= Cost(x)
<1> DEFINE acc == Take(ladder, side, price, size)
<1>1. PICK t : Walked(t, Levels(ladder), acc, ladder, side, price, size)
  BY TakeWalks
<1> HIDE DEF acc
<1> DEFINE used == {p \in Ticks : t[p] > 0}
<1>2. /\ acc.left \in Nat /\ acc.cost = Cost(t)
      /\ t \in [Ticks -> Nat] /\ \A p \in Ticks : t[p] \in Int
  BY <1>1 DEF Walked, Acc
<1>3. Total(t, Ticks) \in Int /\ Total(t, Ticks) = size - acc.left
  <2>1. Total(t, Ticks) \in Int
    BY <1>2, TotalSteps, Ticks \in SUBSET Ticks
  <2>2. Total(t, Ticks) + acc.left = size
    BY <1>1 DEF Walked
  <2> QED BY <1>2, <2>1, <2>2
<1>4. /\ x \in [Ticks -> 0 .. (size - acc.left)] /\ Total(x, Ticks) = size - acc.left
      /\ \A p \in Ticks : x[p] <= ladder[p] /\ (x[p] > 0 => Within(side, price, p))
  BY DEF Allocations, acc
<1>5. x \in [Ticks -> Nat] /\ \A p \in Ticks : x[p] \in Nat
  BY <1>4
<1>6. \E w \in Nat : \A p \in Ticks :
         IF side = "buy" THEN (t[p] <= x[p] /\ p >= w) \/ (t[p] >= x[p] /\ p <= w)
                         ELSE (x[p] <= t[p] /\ p >= w) \/ (x[p] >= t[p] /\ p <= w)
  <2>1. CASE used = {}
    <3>1. \A p \in Ticks : t[p] = 0
      BY <1>2, <2>1
    <3>2. Total(t, Ticks) = 0
      <4>1. Total(t, Ticks) = Total(t, {})
        BY <1>2, <3>1, TotalOfPart, Ticks \in SUBSET Ticks, {} \in SUBSET Ticks
      <4> QED BY <1>2, <4>1, TotalSteps, Ticks \in SUBSET Ticks
    <3>3. \A p \in Ticks : x[p] = 0
      BY <1>3, <1>4, <3>2
    <3>4. \A p \in Ticks : p >= 0
      BY MakerAssumption
    <3> QED BY <3>1, <3>3, <3>4
  <2>2. CASE used # {}
    <3> DEFINE w == Last(side, used)
    <3>1. w \in used /\ \A q \in used \ {w} : Better(side, q, w)
      BY <2>2, LastExists, used \in SUBSET Ticks
    <3> HIDE DEF w
    <3>2. w \in Ticks /\ w \in Nat /\ t[w] > 0
      BY <3>1, MakerAssumption
    <3>3. ASSUME NEW p \in Ticks, Better(side, p, w) PROVE t[p] >= x[p]
      <4>1. CASE p \in Levels(ladder) /\ Within(side, price, p)
        <5>1. t[p] = ladder[p]
          BY <1>1, <3>2, <3>3, <4>1 DEF Walked
        <5> QED BY <1>2, <1>4, <1>5, <5>1
      <4>2. CASE p \notin Levels(ladder)
        <5>1. ~(ladder[p] > 0) /\ ladder[p] \in Nat
          BY <4>2 DEF Levels
        <5>2. x[p] <= ladder[p] /\ x[p] \in Nat /\ t[p] \in Nat
          BY <1>2, <1>4, <1>5
        <5> QED BY <5>1, <5>2
      <4>3. CASE ~Within(side, price, p)
        <5>1. ~(x[p] > 0) /\ x[p] \in Nat /\ t[p] \in Nat
          BY <1>2, <1>4, <1>5, <4>3
        <5> QED BY <5>1
      <4> QED BY <4>1, <4>2, <4>3
    <3>4. ASSUME NEW p \in Ticks, Better(side, w, p) PROVE t[p] <= x[p]
      <4>1. p \notin used
        BY <3>1, <3>2, <3>4, OneIsBetter
      <4>2. t[p] \in Nat /\ x[p] \in Nat /\ ~(t[p] > 0)
        BY <1>2, <1>5, <4>1
      <4> QED BY <4>2
    <3>5. ASSUME NEW p \in Ticks
          PROVE IF side = "buy" THEN (t[p] <= x[p] /\ p >= w) \/ (t[p] >= x[p] /\ p <= w)
                                ELSE (x[p] <= t[p] /\ p >= w) \/ (x[p] >= t[p] /\ p <= w)
      <4>1. p \in Nat /\ t[p] \in Nat /\ x[p] \in Nat
        BY <1>2, <1>5, MakerAssumption
      <4>2. CASE p = w
        BY <3>2, <4>1, <4>2
      <4>3. CASE Better(side, p, w)
        BY <3>2, <3>3, <4>1, <4>3 DEF Better
      <4>4. CASE Better(side, w, p)
        BY <3>2, <3>4, <4>1, <4>4 DEF Better
      <4> QED BY <3>2, <4>2, <4>3, <4>4, OneIsBetter
    <3> QED BY <3>2, <3>5
  <2> QED BY <2>1, <2>2
<1>7. PICK w \in Nat : \A p \in Ticks :
         IF side = "buy" THEN (t[p] <= x[p] /\ p >= w) \/ (t[p] >= x[p] /\ p <= w)
                         ELSE (x[p] <= t[p] /\ p >= w) \/ (x[p] >= t[p] /\ p <= w)
  BY <1>6
<1>8. Total(x, Ticks) = Total(t, Ticks)
  BY <1>3, <1>4
<1>9. CASE side = "buy"
  <2>1. Cost(t) <= Cost(x)
    BY <1>2, <1>5, <1>7, <1>8, <1>9, Cheaper
  <2> QED BY <1>2, <1>9, <2>1 DEF acc
<1>10. CASE side # "buy"
  <2>1. Cost(x) <= Cost(t)
    BY <1>2, <1>5, <1>7, <1>8, <1>10, Cheaper
  <2>2. \A y \in {x, t} : Cost(y) \in Int
    <3>1. ASSUME NEW y \in [Ticks -> Nat] PROVE Cost(y) \in Int
      <4> DEFINE f == [p \in Ticks |-> y[p] * p]
      <4>1. \A p \in Ticks : f[p] \in Int
        BY MakerAssumption
      <4> HIDE DEF f
      <4>2. Total(f, Ticks) \in Int
        BY <4>1, TotalSteps, Ticks \in SUBSET Ticks
      <4> QED BY <4>2 DEF f, Cost, Total
    <3> QED BY <1>2, <1>5, <3>1
  <2> QED BY <1>2, <1>10, <2>1, <2>2 DEF acc
<1> QED
  BY <1>9, <1>10

-----------------------------------------------------------------------------
(* FillSimulator *)

Fill == [asset : Assets, side : Sides, limit : Ticks \cup {NoPrice}, size : OrderSizes,
         filled : Nat, cost : Nat]

SimulatorTypeOK ==
    /\ known \subseteq Assets
    /\ bids \in [Assets -> Ladder]
    /\ asks \in [Assets -> Ladder]
    /\ taken \in [Orders -> Fill \cup {NoFill}]

LEMMA LadderIsNat == Ladder \subseteq [Ticks -> Nat]
BY SimulatorAssumption DEF Ladder

LEMMA DepthIsNat ==
    ASSUME NEW ladder \in Ladder, NEW S \in SUBSET Ticks
    PROVE  Total(ladder, S) \in Nat
<1> DEFINE none == [p \in Ticks |-> 0]
<1>1. \A p \in S : /\ ladder[p] \in Int /\ none[p] \in Int /\ none[p] = 0
                   /\ none[p] + 0 * none[p] <= ladder[p] + 0 * none[p]
  BY LadderIsNat
<1>2. Total(none, S) + 0 * Total(none, S) <= Total(ladder, S) + 0 * Total(none, S)
  <2> HIDE DEF none
  <2> QED BY <1>1, TotalCompare, 0 \in Int
<1> HIDE DEF none
<1>3. Total(none, S) = Total(none, {}) /\ Total(none, {}) = 0
  BY <1>1, TotalOfPart, TotalSteps, {} \in SUBSET S
<1>4. Total(ladder, S) \in Int
  BY <1>1, TotalSteps
<1> QED
  BY <1>2, <1>3, <1>4

LEMMA SideIsLadder ==
    ASSUME SimulatorTypeOK, NEW a \in Assets, NEW side
    PROVE  Opposing(a, side) \in Ladder /\ Joined(a, side) \in Ladder
BY DEF SimulatorTypeOK, Opposing, Joined

LEMMA QueueIsNat ==
    ASSUME SimulatorTypeOK, NEW a \in Assets, NEW side, NEW price
    PROVE  DepthAtOrBetter(a, side, price) \in Nat
<1>1. Joined(a, side) \in Ladder
  BY SideIsLadder
<1> QED
  BY <1>1, DepthIsNat DEF DepthAtOrBetter

LEMMA FillType ==
    ASSUME SimulatorTypeOK, NEW a \in Assets, NEW side \in Sides,
           NEW price \in Ticks \cup {NoPrice}, NEW size \in OrderSizes
    PROVE  TakerFill(a, side, price, size) \in Fill
<1> DEFINE ladder == Opposing(a, side)
           acc == Take(ladder, side, price, size)
           W == {p \in Ticks : Within(side, price, p)}
<1>1. ladder \in Ladder /\ ladder \in [Ticks -> Nat] /\ size \in Nat
  BY SideIsLadder, LadderIsNat, MakerAssumption
<1> HIDE DEF ladder
<1>2. PICK t : Walked(t, Levels(ladder), acc, ladder, side, price, size)
  BY <1>1, TakeWalks
<1>3. acc.cost \in Nat
  BY <1>2 DEF Walked, Acc
<1>4. size - acc.left = Least(size, Total(ladder, W)) /\ Total(ladder, W) \in Nat
  BY <1>1, TakeFills, DepthIsNat, W \in SUBSET Ticks
<1>5. size - acc.left \in Nat
  BY <1>1, <1>4 DEF Least
<1> QED
  BY <1>3, <1>5 DEF TakerFill, Fill, ladder

\* Every step of the simulator is a step of its resting orders, or none.
LEMMA StepMakes ==
    ASSUME SimulatorTypeOK, [Next]_vars
    PROVE  [MakerNext]_makerVars /\ SimulatorTypeOK'
<1>1. ASSUME NEW a \in Assets, NEW newBids \in Ladder, NEW newAsks \in Ladder,
             ApplySnapshot(a, newBids, newAsks)
      PROVE  [MakerNext]_makerVars /\ SimulatorTypeOK'
  BY <1>1 DEF ApplySnapshot, SimulatorTypeOK
<1>2. ASSUME NEW a \in Assets, NEW side \in Sides, NEW p \in Ticks, NEW size \in Depths,
             ApplyDelta(a, side, p, size)
      PROVE  [MakerNext]_makerVars /\ SimulatorTypeOK'
  <2>1. ASSUME NEW books \in [Assets -> Ladder]
        PROVE  [books EXCEPT ![a][p] = size] \in [Assets -> Ladder]
    BY DEF Ladder
  <2>2. bids' \in [Assets -> Ladder] /\ asks' \in [Assets -> Ladder]
    <3>1. CASE side = "buy"
      BY <1>2, <2>1, <3>1 DEF ApplyDelta, SimulatorTypeOK
    <3>2. CASE side # "buy"
      BY <1>2, <2>1, <3>2 DEF ApplyDelta, SimulatorTypeOK
    <3> QED BY <3>1, <3>2
  <2> QED BY <1>2, <2>2 DEF ApplyDelta, SimulatorTypeOK
<1>3. ASSUME NEW o \in Orders, NEW a \in Assets, NEW side \in Sides,
             NEW price \in Ticks \cup {NoPrice}, NEW size \in OrderSizes,
             Submit(o, a, side, price, size)
      PROVE  [MakerNext]_makerVars /\ SimulatorTypeOK'
  <2>1. CASE Crosses(a, side, price)
    <3>1. TakerFill(a, side, price, size) \in Fill
      BY FillType
    <3> QED BY <1>3, <2>1, <3>1 DEF Submit, SimulatorTypeOK
  <2>2. CASE ~Crosses(a, side, price)
    <3> DEFINE ord == [asset |-> a, side |-> side, price |-> price, size |-> size]
    <3>1. ord \in Order
      BY <2>2 DEF Crosses, Order
    <3>2. Register(o, ord, DepthAtOrBetter(a, side, price)) /\ UNCHANGED <<taken, known, bids, asks>>
      BY <1>3, <2>2 DEF Submit
    <3>3. MakerNext
      BY <3>1, <3>2, QueueIsNat DEF MakerNext
    <3> QED BY <3>2, <3>3 DEF SimulatorTypeOK
  <2> QED BY <2>1, <2>2
<1>4. ASSUME NEW a \in Assets, BookEvent(a)
      PROVE  [MakerNext]_makerVars /\ SimulatorTypeOK'
  <2>1. \E walkedAway \in SUBSET resting : BookMoved(walkedAway)
    BY <1>4 DEF BookEvent, BookMoved
  <2> QED BY <1>4, <2>1 DEF BookEvent, MakerNext, SimulatorTypeOK
<1>5. ASSUME NEW a \in Assets, NEW price \in Ticks, NEW size \in PrintSizes,
             PrintEvent(a, price, size)
      PROVE  [MakerNext]_makerVars /\ SimulatorTypeOK'
  BY <1>5 DEF PrintEvent, MakerNext, SimulatorTypeOK
<1>6. ASSUME NEW o \in Orders, CancelOrder(o)
      PROVE  [MakerNext]_makerVars /\ SimulatorTypeOK'
  BY <1>6 DEF CancelOrder, MakerNext, SimulatorTypeOK
<1>7. CASE UNCHANGED vars
  BY <1>7 DEF vars, makerVars, SimulatorTypeOK
<1> QED
  BY <1>1, <1>2, <1>3, <1>4, <1>5, <1>6, <1>7 DEF Next

LEMMA InitTypes == Init => SimulatorTypeOK /\ MakerInit
BY SimulatorAssumption DEF Init, SimulatorTypeOK, Ladder, EmptyLadder

LEMMA SpecTypes == Spec => []SimulatorTypeOK
<1>1. SimulatorTypeOK /\ [Next]_vars => SimulatorTypeOK'
  BY StepMakes
<1> QED
  BY <1>1, InitTypes, PTL DEF Spec

-----------------------------------------------------------------------------
(* Theorems about FillSimulator *)

\* The exchange over the books implements the resting orders alone: whatever
\* the store does between two calls, a submission registers an order with the
\* queue it meets, and a taker, a snapshot or a delta leaves them alone.
THEOREM ImplementsRestingMaker == Spec => MakerSpec
<1>1. SimulatorTypeOK /\ [Next]_vars => [MakerNext]_makerVars
  BY StepMakes
<1> QED
  BY <1>1, InitTypes, SpecTypes, PTL DEF Spec, MakerSpec

\* So what is proved of the resting orders holds of them in the exchange.
THEOREM FillsFollowTheBook == Spec => []QueuePosition
BY ImplementsRestingMaker, FillsFollowTheQueue, PTL

THEOREM GoneFromTheExchange == Spec => GoneStaysGone
BY ImplementsRestingMaker, GoneOrdersStayGone, PTL

LEMMA SubmitIsBest ==
    ASSUME SimulatorTypeOK, NEW o \in Orders, NEW a \in Assets, NEW side \in Sides,
           NEW price \in Ticks \cup {NoPrice}, NEW size \in OrderSizes,
           Submit(o, a, side, price, size), NEW r \in Orders, taken[r] = NoFill, taken'[r] # NoFill
    PROVE  LET f == taken'[r] IN
           /\ f.filled = Least(f.size, TakerConsumableDepth(f.asset, f.side, f.limit))
           /\ \A x \in Allocations(Opposing(f.asset, f.side), f.side, f.limit, f.filled) :
                 IF f.side = "buy" THEN f.cost <= Cost(x) ELSE f.cost >= Cost(x)
<1> DEFINE ladder == Opposing(a, side)
           acc == Take(ladder, side, price, size)
           f == taken'[r]
<1>1. r = o /\ f = TakerFill(a, side, price, size)
  BY DEF Submit, SimulatorTypeOK
<1>2. /\ f.asset = a /\ f.side = side /\ f.limit = price /\ f.size = size
      /\ f.filled = size - acc.left /\ f.cost = acc.cost
  BY <1>1 DEF TakerFill
<1>3. ladder \in [Ticks -> Nat] /\ size \in Nat
  BY SideIsLadder, LadderIsNat, MakerAssumption
<1> HIDE DEF f
<1>4. f.filled = Least(f.size, TakerConsumableDepth(f.asset, f.side, f.limit))
  BY <1>2, <1>3, TakeFills DEF TakerConsumableDepth
<1>5. ASSUME NEW x \in Allocations(Opposing(f.asset, f.side), f.side, f.limit, f.filled)
      PROVE  IF f.side = "buy" THEN f.cost <= Cost(x) ELSE f.cost >= Cost(x)
  <2>1. x \in Allocations(ladder, side, price, size - Take(ladder, side, price, size).left)
    BY <1>2, <1>5
  <2> HIDE DEF ladder
  <2>2. IF side = "buy" THEN acc.cost <= Cost(x) ELSE acc.cost >= Cost(x)
    BY <1>3, <2>1, TakeIsBest
  <2> QED BY <1>2, <2>2
<1> QED
  BY <1>4, <1>5 DEF f

\* A taker gets as much as the book holds within its limit, and at the best
\* price that any choice of levels could have given it.
THEOREM TakersGetTheBestPrice == Spec => BestExecution
<1> DEFINE Best == \A o \in Orders : taken[o] = NoFill /\ taken'[o] # NoFill =>
              LET f == taken'[o] IN
              /\ f.filled = Least(f.size, TakerConsumableDepth(f.asset, f.side, f.limit))
              /\ \A x \in Allocations(Opposing(f.asset, f.side), f.side, f.limit, f.filled) :
                    IF f.side = "buy" THEN f.cost <= Cost(x) ELSE f.cost >= Cost(x)
<1>1. ASSUME SimulatorTypeOK, [Next]_vars PROVE [Best]_vars
  <2>1. ASSUME UNCHANGED taken PROVE Best
    BY <2>1
  <2>2. ASSUME NEW o \in Orders, NEW a \in Assets, NEW side \in Sides,
               NEW price \in Ticks \cup {NoPrice}, NEW size \in OrderSizes,
               Submit(o, a, side, price, size)
        PROVE  Best
    BY <1>1, <2>2, SubmitIsBest
  <2> HIDE DEF Best
  <2>3. CASE Next
    <3>1. \/ UNCHANGED taken
          \/ \E o \in Orders, a \in Assets, side \in Sides, price \in Ticks \cup {NoPrice},
                size \in OrderSizes : Submit(o, a, side, price, size)
      BY <2>3 DEF Next, ApplySnapshot, ApplyDelta, BookEvent, PrintEvent, CancelOrder
    <3> QED BY <2>1, <2>2, <3>1
  <2>4. CASE UNCHANGED vars
    BY <2>4
  <2> QED BY <1>1, <2>3, <2>4
<1>2. SimulatorTypeOK /\ [Next]_vars => [Best]_vars
  BY <1>1
<1> QED
  BY <1>2, SpecTypes, PTL DEF Spec, BestExecution
=============================================================================
