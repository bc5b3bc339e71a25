----------------------- MODULE PositionTrackerProofs ------------------------
(***************************************************************************)
(* Theorems about PositionTracker for every set of sleeves, markets,       *)
(* assets, sizes, prices and gas costs.                                    *)
(***************************************************************************)
EXTENDS PositionTracker, TLAPS

-----------------------------------------------------------------------------
(* Arithmetic of proportional shares *)

LEMMA ProductIsNat ==
    ASSUME NEW x \in Nat, NEW y \in Nat
    PROVE  x * y \in Nat
OBVIOUS

\* Multiplication by a natural number is monotone.
LEMMA ProductMonotone ==
    ASSUME NEW x \in Int, NEW y \in Int, NEW z \in Nat, x <= y
    PROVE  x * z <= y * z
  OBVIOUS

\* The sign of a product with a natural number.
LEMMA SignOfProduct ==
    ASSUME NEW x \in Int, NEW y \in Nat
    PROVE  /\ x >= 0 => 0 <= y * x
           /\ x <= 0 => y * x <= 0
<1>1. x >= 0 => x * y \in Nat
  BY ProductIsNat
<1>2. x <= 0 => (-x) * y \in Nat
  BY ProductIsNat
<1>3. y * x = x * y /\ (-x) * y = -(x * y) /\ x * y \in Int
  OBVIOUS
<1> QED
  BY <1>1, <1>2, <1>3

\* Closing everything takes everything out of the position.
LEMMA ShareOfAll ==
    ASSUME NEW total \in Nat, NEW whole \in Nat \ {0}
    PROVE  Share(total, whole, whole) = total
BY SMTT(30) DEF Share

\* A share is the real number total * part / whole, rounded down.
LEMMA ShareFloor ==
    ASSUME NEW total \in Nat, NEW part \in Nat, NEW whole \in Nat \ {0}
    PROVE  /\ Share(total, part, whole) \in Nat
           /\ Share(total, part, whole) * whole <= total * part
           /\ total * part < (Share(total, part, whole) + 1) * whole
<1> DEFINE x == total * part
<1>1. x \in Nat
  BY ProductIsNat
<1> HIDE DEF x
<1>2. /\ x \div whole \in Nat
      /\ (x \div whole) * whole <= x
      /\ x < ((x \div whole) + 1) * whole
  BY <1>1, SMTT(30)
<1> QED
  BY <1>2 DEF Share, x

\* A share never exceeds the whole it is taken from.
LEMMA ShareWithinTotal ==
    ASSUME NEW total \in Nat, NEW part \in Nat, NEW whole \in Nat \ {0}, part <= whole
    PROVE  Share(total, part, whole) \in 0 .. total
<1> DEFINE q == Share(total, part, whole)
<1>1. q \in Nat /\ q * whole <= total * part
  BY ShareFloor
<1>2. total * part <= total * whole
  OBVIOUS
<1>3. q * whole <= total * whole
  <2>1. q * whole \in Int /\ total * part \in Int /\ total * whole \in Int
    BY <1>1
  <2> QED
    BY <1>1, <1>2, <2>1
<1> HIDE DEF q
<1>4. q <= total
  <2>1. SUFFICES ASSUME q >= total + 1 PROVE FALSE
    BY <1>1
  <2>2. (total + 1) * whole <= q * whole
    BY <1>1, <2>1, ProductMonotone
  <2>3. (total + 1) * whole = total * whole + whole
    OBVIOUS
  <2>4. total * whole \in Nat
    BY ProductIsNat
  <2>5. q * whole \in Int
    BY <1>1
  <2> QED
    BY <1>3, <2>2, <2>3, <2>4, <2>5
<1> QED
  BY <1>1, <1>4 DEF q

\* What a partial close leaves is worth at most One per share, if the whole was.
LEMMA RestWithinPayout ==
    ASSUME NEW cost \in Nat, NEW part \in Nat, NEW size \in Nat \ {0}, NEW unit \in Nat,
           part <= size, cost <= unit * size
    PROVE  cost - Share(cost, part, size) <= unit * (size - part)
<1> DEFINE q == Share(cost, part, size)
           rest == size - part
<1>1. q \in Nat /\ cost * part < (q + 1) * size
  BY ShareFloor DEF q
<1>2. rest \in Nat
  OBVIOUS
<1>3. (cost - q) * size < cost * rest + size
  <2>1. cost * rest = cost * size - cost * part
    OBVIOUS
  <2>2. (cost - q) * size = cost * size - q * size
    BY <1>1
  <2>3. (q + 1) * size = q * size + size
    BY <1>1
  <2>4. cost * size \in Int /\ cost * part \in Int /\ q * size \in Int
    BY <1>1
  <2> QED
    BY <1>1, <2>1, <2>2, <2>3, <2>4
<1>4. cost * rest <= (unit * rest) * size
  <2>1. cost * rest <= (unit * size) * rest
    BY <1>2, ProductMonotone, ProductIsNat
  <2>2. (unit * size) * rest = (unit * rest) * size
    BY <1>2
  <2> QED
    BY <2>1, <2>2
<1> HIDE DEF q, rest
<1>5. unit * rest \in Nat /\ cost * rest \in Nat
  BY <1>2, ProductIsNat
<1>6. SUFFICES ASSUME cost - q >= unit * rest + 1 PROVE FALSE
  <2>1. cost - q \in Int
    BY <1>1
  <2>2. ~(cost - q >= unit * rest + 1) => cost - q <= unit * rest
    BY <1>5, <2>1
  <2> QED
    BY <1>6, <2>2 DEF q, rest
<1> DEFINE d == cost - q
           u == unit * rest
<1>7. d \in Int /\ u \in Nat /\ d >= u + 1
  BY <1>1, <1>5, <1>6
<1>8. d * size < cost * rest + size /\ cost * rest <= u * size
  BY <1>3, <1>4
<1> HIDE DEF d, u
<1>9. (u + 1) * size <= d * size
  BY <1>7, ProductMonotone
<1>10. (u + 1) * size = u * size + size
  BY <1>7
<1>11. u * size \in Int /\ d * size \in Int
  BY <1>7
<1> QED
  BY <1>5, <1>8, <1>9, <1>10, <1>11

-----------------------------------------------------------------------------
(* The inductive invariant *)

IInv == TypeOK /\ OneSided /\ EntryWithinPayout

LEMMA KeyFacts ==
    ASSUME NEW s \in Sleeves, NEW a \in Assets, NEW side \in Sides
    PROVE  /\ <<s, a, side>> \in Keys
           /\ <<s, a, Opposite(side)>> \in Keys
           /\ Opposite(side) \in Sides
           /\ Opposite(side) # side
           /\ Opposite(Opposite(side)) = side
BY DEF Keys, Sides, Opposite

LEMMA InitInvariant == Init => IInv
<1> SUFFICES ASSUME Init PROVE IInv
  OBVIOUS
<1>1. TypeOK
  BY DEF Init, TypeOK, NoPosition, Position, Open
<1>2. OneSided
  <2>1. \A k \in Keys : ~Open(k)
    BY DEF Init, NoPosition, Open
  <2>2. \A s \in Sleeves, a \in Assets : <<s, a, "buy">> \in Keys
    BY DEF Keys, Sides
  <2> QED
    BY <2>1, <2>2 DEF OneSided
<1>3. EntryWithinPayout
  BY TrackerAssumption DEF Init, EntryWithinPayout, NoPosition
<1> QED
  BY <1>1, <1>2, <1>3 DEF IInv

\* Profits are integers, whatever side made them.
LEMMA GainIsInt ==
    ASSUME NEW side \in Sides, NEW entry \in Int, NEW exit \in Int
    PROVE  Gain(side, entry, exit) \in Int
BY DEF Gain

LEMMA OpenOrAddInvariant ==
    ASSUME IInv,
           NEW s \in Sleeves, NEW a \in Assets, NEW side \in Sides,
           NEW size \in Nat \ {0}, NEW price \in Prices, NEW gas \in Gases,
           OpenOrAdd(s, a, side, size, price, gas)
    PROVE  IInv'
<1> DEFINE k == <<s, a, side>>
           pos == positions[k]
           new == [size |-> pos.size + size, cost |-> pos.cost + price * size,
                   gas |-> pos.gas + gas]
<1>1. k \in Keys /\ size \in Nat \ {0} /\ price \in 0 .. One /\ gas \in Nat /\ One \in Nat
  BY TrackerAssumption, KeyFacts
<1>2. pos \in Position /\ pos.size \in Nat /\ pos.cost \in Nat /\ pos.gas \in Nat
  BY <1>1 DEF IInv, TypeOK, Position
<1>3. price * size \in Nat /\ price * size <= One * size
  BY <1>1, ProductIsNat, ProductMonotone
<1>4. new \in Position /\ new.size > 0
  BY <1>1, <1>2, <1>3 DEF Position
<1>5. positions' = [positions EXCEPT ![k] = new]
  BY DEF OpenOrAdd
<1>6. positions'[k] = new /\ \A j \in Keys : j # k => positions'[j] = positions[j]
  BY <1>1, <1>5 DEF IInv, TypeOK
<1>7. TypeOK'
  <2>1. positions' \in [Keys -> Position]
    BY <1>1, <1>4, <1>5 DEF IInv, TypeOK
  <2>2. \A j \in Keys : ~(positions'[j].size > 0) => positions'[j] = NoPosition
    BY <1>4, <1>6 DEF IInv, TypeOK, Open
  <2>3. gasPaid' \in [Sleeves -> Nat]
    BY <1>1 DEF OpenOrAdd, IInv, TypeOK
  <2>4. booked' = booked /\ winnerOf' = winnerOf
    BY DEF OpenOrAdd
  <2> QED
    BY <2>1, <2>2, <2>3, <2>4 DEF IInv, TypeOK, Open
<1>8. OneSided'
  <2> SUFFICES ASSUME NEW t \in Sleeves, NEW b \in Assets,
                      positions'[<<t, b, "buy">>].size > 0,
                      positions'[<<t, b, "sell">>].size > 0
               PROVE  FALSE
    BY DEF OneSided, Open
  <2>1. <<t, b, "buy">> \in Keys /\ <<t, b, "sell">> \in Keys
    BY DEF Keys, Sides
  <2>2. CASE t = s /\ b = a
    <3>1. ~(positions[<<s, a, Opposite(side)>>].size > 0)
      BY DEF OpenOrAdd, Open
    <3>2. positions'[<<s, a, Opposite(side)>>] = positions[<<s, a, Opposite(side)>>]
      BY <1>6, KeyFacts
    <3> QED
      BY <2>2, <3>1, <3>2 DEF Sides, Opposite
  <2>3. CASE ~(t = s /\ b = a)
    <3>1. <<t, b, "buy">> # k /\ <<t, b, "sell">> # k
      BY <2>3
    <3>2. positions[<<t, b, "buy">>].size > 0 /\ positions[<<t, b, "sell">>].size > 0
      BY <1>6, <2>1, <3>1
    <3> QED
      BY <3>2 DEF IInv, OneSided, Open
  <2> QED
    BY <2>2, <2>3
<1>9. EntryWithinPayout'
  <2>1. pos.cost <= One * pos.size
    BY <1>1 DEF IInv, EntryWithinPayout
  <2>2. One * (pos.size + size) = One * pos.size + One * size
    BY <1>1, <1>2
  <2>3. One * pos.size \in Nat /\ One * size \in Nat
    BY <1>1, <1>2, ProductIsNat
  <2>4. new.cost <= One * new.size
    BY <1>2, <1>3, <2>1, <2>2, <2>3
  <2> QED
    BY <1>6, <2>4 DEF IInv, EntryWithinPayout
<1> QED
  BY <1>7, <1>8, <1>9 DEF IInv

LEMMA CloseAgainstInvariant ==
    ASSUME IInv,
           NEW s \in Sleeves, NEW a \in Assets, NEW side \in Sides,
           NEW size \in Nat \ {0}, NEW price \in Prices, NEW gas \in Gases,
           CloseAgainst(s, a, side, size, price, gas)
    PROVE  IInv'
<1> DEFINE key == <<s, a, Opposite(side)>>
           own == <<s, a, side>>
           pos == positions[key]
           part == IF pos.size <= size THEN pos.size ELSE size
           rest == Remainder(pos, part)
           left == IF size > part THEN Leftover(size - part, price, gas) ELSE positions[own]
<1>1. key \in Keys /\ own \in Keys /\ key # own
  BY KeyFacts
<1>2. size \in Nat \ {0} /\ price \in 0 .. One /\ gas \in Nat /\ One \in Nat
  BY TrackerAssumption
<1>3. pos \in Position /\ pos.size \in Nat \ {0} /\ pos.cost \in Nat /\ pos.gas \in Nat
  BY <1>1 DEF CloseAgainst, Open, IInv, TypeOK, Position
<1>4. part \in Nat \ {0} /\ part <= pos.size /\ part <= size
  BY <1>2, <1>3
<1>5. positions' = [positions EXCEPT ![key] = rest, ![own] = left]
  BY <1>1 DEF CloseAgainst, IInv, TypeOK
<1>6. /\ positions'[key] = rest
      /\ positions'[own] = left
      /\ \A j \in Keys : j # key /\ j # own => positions'[j] = positions[j]
  BY <1>1, <1>5 DEF IInv, TypeOK
<1>7. ~Open(own) /\ positions[own] = NoPosition
  <2>1. <<s, a, "buy">> \in Keys /\ <<s, a, "sell">> \in Keys
    BY DEF Keys, Sides
  <2>2. Open(key)
    BY DEF CloseAgainst
  <2>3. ~Open(own)
    BY <2>2 DEF IInv, OneSided, Sides, Opposite
  <2> QED
    BY <1>1, <2>3 DEF IInv, TypeOK
<1>8. Share(pos.cost, part, pos.size) \in 0 .. pos.cost
  BY <1>3, <1>4, ShareWithinTotal
<1>9. Share(pos.gas, part, pos.size) \in 0 .. pos.gas
  BY <1>3, <1>4, ShareWithinTotal
<1>10. /\ rest \in Position
       /\ ~(rest.size > 0) => rest = NoPosition
       /\ rest.cost <= One * rest.size
  <2>1. CASE part = pos.size
    <3>1. rest = NoPosition
      BY <2>1 DEF Remainder
    <3> QED
      BY <1>2, <3>1 DEF NoPosition, Position
  <2>2. CASE part # pos.size
    <3>1. /\ rest.size = pos.size - part
          /\ rest.cost = pos.cost - Share(pos.cost, part, pos.size)
          /\ rest.gas = pos.gas - Share(pos.gas, part, pos.size)
      BY <2>2 DEF Remainder
    <3>2. rest.size > 0 /\ rest.size \in Nat /\ rest.cost \in Nat /\ rest.gas \in Nat
      BY <1>3, <1>4, <1>8, <1>9, <2>2, <3>1
    <3>3. rest \in Position
      BY <2>2, <3>1, <3>2 DEF Remainder, Position
    <3>4. pos.cost <= One * pos.size
      BY <1>1 DEF IInv, EntryWithinPayout
    <3>5. rest.cost <= One * rest.size
      <4>1. pos.cost - Share(pos.cost, part, pos.size) <= One * (pos.size - part)
        BY <1>2, <1>3, <1>4, <3>4, RestWithinPayout
      <4> QED
        BY <3>1, <4>1
    <3> QED
      BY <3>2, <3>3, <3>5
  <2> QED
    BY <2>1, <2>2
<1>11. /\ left \in Position
       /\ ~(left.size > 0) => left = NoPosition
       /\ left.cost <= One * left.size
  <2>1. CASE size > part
    <3>1. size - part \in Nat \ {0}
      BY <1>2, <1>4, <2>1
    <3>2. price * (size - part) \in Nat /\ price * (size - part) <= One * (size - part)
      BY <1>2, <3>1, ProductIsNat, ProductMonotone
    <3>3. left = [size |-> size - part, cost |-> price * (size - part), gas |-> gas]
      BY <2>1 DEF Leftover
    <3> QED
      BY <1>2, <3>1, <3>2, <3>3 DEF Position
  <2>2. CASE ~(size > part)
    <3>1. left = NoPosition
      BY <1>7, <2>2
    <3> QED
      BY <1>2, <3>1 DEF NoPosition, Position
  <2> QED
    BY <2>1, <2>2
<1>12. \/ rest = NoPosition
       \/ left = NoPosition
  <2>1. CASE pos.size <= size
    BY <2>1 DEF Remainder
  <2>2. CASE ~(pos.size <= size)
    <3>1. part = size /\ ~(size > part)
      BY <1>2, <2>2
    <3> QED
      BY <1>7, <3>1
  <2> QED
    BY <2>1, <2>2
<1> HIDE DEF rest, left, part
<1>13. TypeOK'
  <2>1. positions' \in [Keys -> Position]
    BY <1>1, <1>5, <1>10, <1>11 DEF IInv, TypeOK
  <2>2. \A j \in Keys : ~(positions'[j].size > 0) => positions'[j] = NoPosition
    <3> SUFFICES ASSUME NEW j \in Keys, ~(positions'[j].size > 0)
                 PROVE  positions'[j] = NoPosition
      OBVIOUS
    <3>1. CASE j = key
      BY <1>6, <1>10, <3>1
    <3>2. CASE j = own
      BY <1>6, <1>11, <3>2
    <3>3. CASE j # key /\ j # own
      BY <1>6, <3>3 DEF IInv, TypeOK, Open
    <3> QED
      BY <3>1, <3>2, <3>3
  <2>3. gasPaid' \in [Sleeves -> Nat]
    BY <1>2 DEF CloseAgainst, IInv, TypeOK
  <2>4. booked' \in [Sleeves -> [Assets -> Int]]
    <3> DEFINE p == ClosePnl(Opposite(side), pos, part, price, gas)
    <3>1. p \in Int
      <4>1. price * part \in Int
        BY <1>2, <1>4
      <4>2. Share(pos.cost, part, pos.size) \in Int
        BY <1>3, <1>8
      <4>4. Opposite(side) \in Sides
        BY KeyFacts
      <4>3. Gain(Opposite(side), Share(pos.cost, part, pos.size), price * part) \in Int
        BY <4>1, <4>2, <4>4, GainIsInt
      <4> QED
        BY <1>2, <1>3, <1>9, <4>3 DEF ClosePnl
    <3>2. booked' = [booked EXCEPT ![s][a] = @ + p]
      BY DEF CloseAgainst, part
    <3> HIDE DEF p
    <3> QED
      BY <3>1, <3>2 DEF IInv, TypeOK
  <2>5. winnerOf' = winnerOf
    BY DEF CloseAgainst
  <2> QED
    BY <2>1, <2>2, <2>3, <2>4, <2>5 DEF IInv, TypeOK, Open
<1>14. OneSided'
  <2> SUFFICES ASSUME NEW t \in Sleeves, NEW b \in Assets,
                      positions'[<<t, b, "buy">>].size > 0,
                      positions'[<<t, b, "sell">>].size > 0
               PROVE  FALSE
    BY DEF OneSided, Open
  <2>1. <<t, b, "buy">> \in Keys /\ <<t, b, "sell">> \in Keys
    BY DEF Keys, Sides
  <2>2. CASE t = s /\ b = a
    <3>1. positions'[key].size > 0 /\ positions'[own].size > 0
      BY <2>2 DEF Sides, Opposite
    <3> QED
      BY <1>6, <1>12, <3>1 DEF NoPosition
  <2>3. CASE ~(t = s /\ b = a)
    <3>1. /\ <<t, b, "buy">> # key /\ <<t, b, "buy">> # own
          /\ <<t, b, "sell">> # key /\ <<t, b, "sell">> # own
      BY <2>3
    <3>2. positions[<<t, b, "buy">>].size > 0 /\ positions[<<t, b, "sell">>].size > 0
      BY <1>6, <2>1, <3>1
    <3> QED
      BY <3>2 DEF IInv, OneSided, Open
  <2> QED
    BY <2>2, <2>3
<1>15. EntryWithinPayout'
  <2> SUFFICES ASSUME NEW j \in Keys
               PROVE  positions'[j].cost <= One * positions'[j].size
    BY DEF EntryWithinPayout
  <2>1. CASE j = key
    BY <1>6, <1>10, <2>1
  <2>2. CASE j = own
    BY <1>6, <1>11, <2>2
  <2>3. CASE j # key /\ j # own
    BY <1>6, <2>3 DEF IInv, EntryWithinPayout
  <2> QED
    BY <2>1, <2>2, <2>3
<1> QED
  BY <1>13, <1>14, <1>15 DEF IInv

LEMMA RedemptionPnlIsInt ==
    ASSUME IInv, NEW m \in Markets, NEW winner \in Winners(m), NEW k \in Keys
    PROVE  RedemptionPnl(k, winner) \in Int
<1>1. positions[k].size \in Nat /\ positions[k].cost \in Nat /\ positions[k].gas \in Nat
  BY DEF IInv, TypeOK, Position
<1>2. ExitPrice(k[3], k[2] = winner) \in Nat
  BY TrackerAssumption DEF ExitPrice
<1>3. positions[k].size * ExitPrice(k[3], k[2] = winner) \in Nat
  BY <1>1, <1>2, ProductIsNat
<1>4. ExitValue(k, winner) \in Nat
  BY <1>1, <1>3 DEF ExitValue
<1>5. Gain(k[3], positions[k].cost, ExitValue(k, winner)) \in Int
  BY <1>1, <1>4 DEF Gain
<1> QED
  BY <1>1, <1>5 DEF RedemptionPnl

LEMMA RedeemInvariant ==
    ASSUME IInv, NEW m \in Markets, NEW winner \in Winners(m), RedeemMarket(m, winner)
    PROVE  IInv'
<1>1. \A k \in Keys : positions'[k] = positions[k] \/ positions'[k] = NoPosition
  BY DEF RedeemMarket
<1>2. TypeOK'
  <2>1. positions' \in [Keys -> Position]
    BY DEF RedeemMarket, NoPosition, Position, IInv, TypeOK
  <2>2. \A k \in Keys : ~(positions'[k].size > 0) => positions'[k] = NoPosition
    BY <1>1 DEF IInv, TypeOK, Open
  <2>3. booked' \in [Sleeves -> [Assets -> Int]]
    <3> SUFFICES ASSUME NEW s \in Sleeves, NEW a \in Assets
                 PROVE  booked[s][a] + RedemptionPnl(<<s, a, "buy">>, winner)
                                     + RedemptionPnl(<<s, a, "sell">>, winner) \in Int
      BY DEF RedeemMarket, IInv, TypeOK
    <3>1. <<s, a, "buy">> \in Keys /\ <<s, a, "sell">> \in Keys
      BY DEF Keys, Sides
    <3>2. /\ RedemptionPnl(<<s, a, "buy">>, winner) \in Int
          /\ RedemptionPnl(<<s, a, "sell">>, winner) \in Int
      BY <3>1, RedemptionPnlIsInt
    <3> QED
      BY <3>2 DEF IInv, TypeOK
  <2>4. gasPaid' = gasPaid
    BY DEF RedeemMarket
  <2>5. winnerOf' \in [Markets -> Assets \cup {Unknown, NotResolved}]
    BY DEF RedeemMarket, Winners, IInv, TypeOK
  <2> QED
    BY <2>1, <2>2, <2>3, <2>4, <2>5 DEF IInv, TypeOK, Open
<1>3. OneSided'
  <2> SUFFICES ASSUME NEW s \in Sleeves, NEW a \in Assets,
                      positions'[<<s, a, "buy">>].size > 0,
                      positions'[<<s, a, "sell">>].size > 0
               PROVE  FALSE
    BY DEF OneSided, Open
  <2>1. <<s, a, "buy">> \in Keys /\ <<s, a, "sell">> \in Keys
    BY DEF Keys, Sides
  <2>2. positions[<<s, a, "buy">>].size > 0 /\ positions[<<s, a, "sell">>].size > 0
    BY <1>1, <2>1 DEF NoPosition
  <2> QED
    BY <2>2 DEF IInv, OneSided, Open
<1>4. EntryWithinPayout'
  <2> SUFFICES ASSUME NEW k \in Keys
               PROVE  positions'[k].cost <= One * positions'[k].size
    BY DEF EntryWithinPayout
  <2>1. CASE positions'[k] = positions[k]
    BY <2>1 DEF IInv, EntryWithinPayout
  <2>2. CASE positions'[k] = NoPosition
    BY <2>2, TrackerAssumption DEF NoPosition
  <2> QED
    BY <1>1, <2>1, <2>2
<1> QED
  BY <1>2, <1>3, <1>4 DEF IInv

LEMMA StepInvariant == IInv /\ [Next]_vars => IInv'
<1> SUFFICES ASSUME IInv, [Next]_vars PROVE IInv'
  OBVIOUS
<1>1. ASSUME NEW s \in Sleeves, NEW a \in Assets, NEW side \in Sides,
             NEW size \in Sizes, NEW price \in Prices, NEW gas \in Gases,
             OnFill(s, a, side, size, price, gas)
      PROVE  IInv'
  BY <1>1, OpenOrAddInvariant, CloseAgainstInvariant, TrackerAssumption DEF OnFill
<1>2. ASSUME NEW m \in Markets, NEW winner \in Winners(m), RedeemMarket(m, winner)
      PROVE  IInv'
  BY <1>2, RedeemInvariant
<1>3. CASE UNCHANGED vars
  BY <1>3 DEF vars, IInv, TypeOK, OneSided, EntryWithinPayout, Open
<1> QED
  BY <1>1, <1>2, <1>3 DEF Next

-----------------------------------------------------------------------------
(* Theorems *)

LEMMA SpecInvariant == Spec => []IInv
BY InitInvariant, StepInvariant, PTL DEF Spec

\* The state of the tracker is always well formed, and a position that has
\* been closed leaves no cost and no gas behind.
THEOREM TypeCorrect == Spec => []TypeOK
<1>1. IInv => TypeOK
  BY DEF IInv
<1> QED
  BY <1>1, SpecInvariant, PTL

\* No order of fills makes a sleeve long and short of one token at once.
THEOREM NeverBothSides == Spec => []OneSided
<1>1. IInv => OneSided
  BY DEF IInv
<1> QED
  BY <1>1, SpecInvariant, PTL

\* The average entry price never leaves the range between $0 and $1.
THEOREM AverageEntryInRange == Spec => []EntryWithinPayout
<1>1. IInv => EntryWithinPayout
  BY DEF IInv
<1> QED
  BY <1>1, SpecInvariant, PTL

-----------------------------------------------------------------------------
(* The tracker keeps the accounts of Ledger *)

\* Both positions of a sleeve in a token, with at most one of them open.
LEMMA PositionFacts ==
    ASSUME IInv, NEW s \in Sleeves, NEW a \in Assets, NEW side \in Sides
    PROVE  LET p == positions[<<s, a, side>>] IN
           /\ p.size \in Nat /\ p.cost \in Nat /\ p.gas \in Nat
           /\ p.size = 0 => p.cost = 0 /\ p.gas = 0
           /\ p.cost <= One * p.size
<1> DEFINE k == <<s, a, side>>
<1>1. k \in Keys
  BY KeyFacts
<1>2. positions[k] \in Position
  BY <1>1 DEF IInv, TypeOK
<1>3. positions[k].size = 0 => positions[k] = NoPosition
  BY <1>1 DEF IInv, TypeOK, Open
<1>4. positions[k].cost <= One * positions[k].size
  BY <1>1 DEF IInv, EntryWithinPayout
<1> QED
  BY <1>2, <1>3, <1>4 DEF Position, NoPosition

LEMMA LedgerTypes ==
    ASSUME IInv, NEW s \in Sleeves, NEW a \in Assets
    PROVE  NetOf(s, a) \in Int /\ CashOf(s, a) \in Int /\ booked[s][a] \in Int
<1>1. "buy" \in Sides /\ "sell" \in Sides
  BY DEF Sides
<1>2. booked[s][a] \in Int
  BY DEF IInv, TypeOK
<1> QED
  BY <1>1, <1>2, PositionFacts DEF NetOf, CashOf

\* A step that moves one account of the ledger is a Trade of Ledger, and a Fill
\* if it moves the cash by the price of the tokens and the gas.
LEMMA AccountMoves ==
    ASSUME NEW s \in Sleeves, NEW a \in Assets, NEW delta \in Int,
           NetOf(s, a)' = NetOf(s, a) + delta,
           \A t \in Sleeves, b \in Assets : ~(t = s /\ b = a) =>
              NetOf(t, b)' = NetOf(t, b) /\ CashOf(t, b)' = CashOf(t, b),
           winnerOf' = winnerOf
    PROVE  /\ L!Trade(s, a, delta)
           /\ \A price \in Int, gas \in Int :
                 CashOf(s, a)' = CashOf(s, a) - delta * price - gas
                    => L!Fill(s, a, delta, price, gas)
<1> DEFINE net == [t \in Sleeves |-> [b \in Assets |-> NetOf(t, b)]]
           cash == [t \in Sleeves |-> [b \in Assets |-> CashOf(t, b)]]
<1>1. net' = [net EXCEPT ![s][a] = @ + delta]
  OBVIOUS
<1>2. cash' = [cash EXCEPT ![s][a] = cash'[s][a]]
  OBVIOUS
<1>3. ASSUME NEW price \in Int, NEW gas \in Int,
             CashOf(s, a)' = CashOf(s, a) - delta * price - gas
      PROVE  cash' = [cash EXCEPT ![s][a] = @ - delta * price - gas]
  BY <1>3
<1>4. L!Trade(s, a, delta)
  BY <1>1, <1>2 DEF L!Trade
<1>5. ASSUME NEW price \in Int, NEW gas \in Int,
             CashOf(s, a)' = CashOf(s, a) - delta * price - gas
      PROVE  L!Fill(s, a, delta, price, gas)
  BY <1>1, <1>3, <1>5 DEF L!Fill
<1> QED
  BY <1>4, <1>5

\* The accounts of every other sleeve and token stay as they are.
LEMMA OtherAccounts ==
    ASSUME NEW s \in Sleeves, NEW a \in Assets,
           \A k \in Keys : ~(k[1] = s /\ k[2] = a) => positions'[k] = positions[k],
           \A t \in Sleeves, b \in Assets : ~(t = s /\ b = a) => booked'[t][b] = booked[t][b]
    PROVE  \A t \in Sleeves, b \in Assets : ~(t = s /\ b = a) =>
              NetOf(t, b)' = NetOf(t, b) /\ CashOf(t, b)' = CashOf(t, b)
<1> SUFFICES ASSUME NEW t \in Sleeves, NEW b \in Assets, ~(t = s /\ b = a)
             PROVE  NetOf(t, b)' = NetOf(t, b) /\ CashOf(t, b)' = CashOf(t, b)
  OBVIOUS
<1>1. <<t, b, "buy">> \in Keys /\ <<t, b, "sell">> \in Keys
  BY DEF Keys, Sides
<1>2. /\ positions'[<<t, b, "buy">>] = positions[<<t, b, "buy">>]
      /\ positions'[<<t, b, "sell">>] = positions[<<t, b, "sell">>]
  BY <1>1
<1> QED
  BY <1>2 DEF NetOf, CashOf

LEMMA OpenOrAddRefines ==
    ASSUME IInv,
           NEW s \in Sleeves, NEW a \in Assets, NEW side \in Sides,
           NEW size \in Nat \ {0}, NEW price \in Prices, NEW gas \in Gases,
           OpenOrAdd(s, a, side, size, price, gas)
    PROVE  /\ L!Fill(s, a, Signed(side, size), price, gas)
           /\ L!Trade(s, a, Signed(side, size))
<1> DEFINE k == <<s, a, side>>
           o == <<s, a, Opposite(side)>>
           delta == IF side = "buy" THEN size ELSE -size
<1>1. k \in Keys /\ o \in Keys /\ k # o
  BY KeyFacts
<1>2. size \in Nat \ {0} /\ price \in Nat /\ gas \in Nat
  BY TrackerAssumption
<1>3. /\ positions[k].size \in Nat /\ positions[k].cost \in Nat /\ positions[k].gas \in Nat
      /\ positions[o].size = 0 /\ positions[o].cost = 0 /\ positions[o].gas = 0
  BY PositionFacts, KeyFacts DEF OpenOrAdd, Open
<1>4. /\ positions'[k].size = positions[k].size + size
      /\ positions'[k].cost = positions[k].cost + price * size
      /\ positions'[k].gas = positions[k].gas + gas
      /\ \A j \in Keys : j # k => positions'[j] = positions[j]
  BY <1>1 DEF OpenOrAdd, IInv, TypeOK
<1>5. booked' = booked /\ winnerOf' = winnerOf /\ booked[s][a] \in Int
  BY LedgerTypes DEF OpenOrAdd
<1>6. \A t \in Sleeves, b \in Assets : ~(t = s /\ b = a) =>
         NetOf(t, b)' = NetOf(t, b) /\ CashOf(t, b)' = CashOf(t, b)
  <2>1. \A j \in Keys : ~(j[1] = s /\ j[2] = a) => positions'[j] = positions[j]
    BY <1>4
  <2> QED
    BY <1>5, <2>1, OtherAccounts
<1>7. price * size \in Nat /\ delta * price = IF side = "buy" THEN price * size ELSE -(price * size)
  BY <1>2, ProductIsNat
<1>8. /\ NetOf(s, a)' = NetOf(s, a) + delta
      /\ CashOf(s, a)' = CashOf(s, a) - delta * price - gas
  <2>0. positions'[o] = positions[o]
    BY <1>1, <1>4
  <2>1. CASE side = "buy"
    <3>1. k = <<s, a, "buy">> /\ o = <<s, a, "sell">>
      BY <2>1 DEF Opposite
    <3> QED
      BY <1>2, <1>3, <1>4, <1>5, <1>7, <2>0, <2>1, <3>1 DEF NetOf, CashOf
  <2>2. CASE side = "sell"
    <3>1. k = <<s, a, "sell">> /\ o = <<s, a, "buy">>
      BY <2>2 DEF Opposite
    <3> QED
      BY <1>2, <1>3, <1>4, <1>5, <1>7, <2>0, <2>2, <3>1 DEF NetOf, CashOf
  <2> QED
    BY <2>1, <2>2 DEF Sides
<1>9. delta \in Int
  BY <1>2
<1> HIDE DEF delta
<1>10. L!Trade(s, a, delta) /\ L!Fill(s, a, delta, price, gas)
  BY <1>2, <1>5, <1>6, <1>8, <1>9, AccountMoves
<1> QED
  BY <1>10 DEF delta, Signed

\* A closing fill is a Fill of the ledger unless it reverses a position and has gas.
LEMMA CloseAgainstRefines ==
    ASSUME IInv,
           NEW s \in Sleeves, NEW a \in Assets, NEW side \in Sides,
           NEW size \in Nat \ {0}, NEW price \in Prices, NEW gas \in Gases,
           CloseAgainst(s, a, side, size, price, gas)
    PROVE  /\ L!Trade(s, a, Signed(side, size))
           /\ L!Fill(s, a, Signed(side, size), price, gas) \/ ReversalWithGas(s, a)
<1> DEFINE key == <<s, a, Opposite(side)>>
           own == <<s, a, side>>
           pos == positions[key]
           part == IF pos.size <= size THEN pos.size ELSE size
           delta == IF side = "buy" THEN size ELSE -size
           cost == Share(pos.cost, part, pos.size)
           carried == Share(pos.gas, part, pos.size)
           charged == IF size > part THEN 2 * gas ELSE gas
           new == positions'[own]
           rest == positions'[key]
<1>1. key \in Keys /\ own \in Keys /\ key # own /\ Opposite(side) \in Sides
  BY KeyFacts
<1>2. size \in Nat \ {0} /\ price \in Nat /\ gas \in Nat
  BY TrackerAssumption
<1>3. pos.size \in Nat \ {0} /\ pos.cost \in Nat /\ pos.gas \in Nat
  BY <1>1, PositionFacts DEF CloseAgainst, Open
<1>4. /\ positions[own] = NoPosition
      /\ positions[own].size = 0 /\ positions[own].cost = 0 /\ positions[own].gas = 0
  <2>1. ~Open(own)
    BY <1>1 DEF CloseAgainst, Open, IInv, OneSided, Sides, Opposite
  <2> QED
    BY <1>1, <2>1 DEF IInv, TypeOK, NoPosition
<1>5. part \in Nat \ {0} /\ part <= pos.size /\ part <= size
  BY <1>2, <1>3
<1>6. cost \in Int /\ carried \in Int
  <2> HIDE DEF part
  <2>1. cost \in Nat
    BY <1>3, <1>5, ShareFloor
  <2>2. carried \in Nat
    BY <1>3, <1>5, ShareFloor
  <2> QED
    BY <2>1, <2>2
<1>7. part = pos.size => cost = pos.cost /\ carried = pos.gas
  BY <1>3, ShareOfAll
<1>8. positions' = [positions EXCEPT ![key] = Remainder(pos, part),
                       ![own] = IF size > part THEN Leftover(size - part, price, gas)
                                ELSE positions[own]]
  BY <1>1 DEF CloseAgainst, IInv, TypeOK
<1>9. /\ rest = Remainder(pos, part)
      /\ new = IF size > part THEN Leftover(size - part, price, gas) ELSE positions[own]
      /\ \A j \in Keys : j # key /\ j # own => positions'[j] = positions[j]
  BY <1>1, <1>8 DEF IInv, TypeOK
<1>10. /\ rest.size = pos.size - part
       /\ rest.cost = pos.cost - cost
       /\ rest.gas = pos.gas - carried
  <2>1. CASE part = pos.size
    BY <1>3, <1>7, <1>9, <2>1 DEF Remainder, NoPosition
  <2>2. CASE part # pos.size
    BY <1>9, <2>2 DEF Remainder
  <2> QED
    BY <2>1, <2>2
<1>11. /\ new.size = size - part
       /\ new.cost = price * size - price * part
       /\ new.gas = charged - gas
  <2>1. CASE size > part
    <3>1. new = [size |-> size - part, cost |-> price * (size - part), gas |-> gas]
      BY <1>9, <2>1 DEF Leftover
    <3>2. price * (size - part) = price * size - price * part
      BY <1>2, <1>5
    <3> QED
      BY <1>2, <2>1, <3>1, <3>2
  <2>2. CASE ~(size > part)
    <3>1. size = part
      BY <1>2, <1>5, <2>2
    <3>2. price * size - price * part = 0
      BY <1>2, <1>5, <3>1
    <3> QED
      BY <1>2, <1>4, <1>9, <2>2, <3>1, <3>2
  <2> QED
    BY <2>1, <2>2
<1>12. /\ booked' = [booked EXCEPT ![s][a] = @ + ClosePnl(Opposite(side), pos, part, price, gas)]
       /\ winnerOf' = winnerOf
  BY DEF CloseAgainst
<1>13. /\ booked'[s][a] = booked[s][a] + Gain(Opposite(side), cost, price * part) - (carried + gas)
       /\ booked[s][a] \in Int
       /\ \A t \in Sleeves, b \in Assets : ~(t = s /\ b = a) => booked'[t][b] = booked[t][b]
  <2> DEFINE p == ClosePnl(Opposite(side), pos, part, price, gas)
  <2>1. p = Gain(Opposite(side), cost, price * part) - (carried + gas)
    BY DEF ClosePnl
  <2>2. booked[s][a] \in Int
    BY LedgerTypes
  <2>3. price * part \in Int
    BY <1>2, <1>5
  <2>4. Gain(Opposite(side), cost, price * part) \in Int
    BY <1>1, <1>6, <2>3, GainIsInt
  <2> HIDE DEF p
  <2>5. /\ booked'[s][a] = booked[s][a] + p
        /\ \A t \in Sleeves, b \in Assets : ~(t = s /\ b = a) => booked'[t][b] = booked[t][b]
    BY <1>12, <2>2 DEF IInv, TypeOK, p
  <2> HIDE DEF cost, carried, part
  <2> QED
    BY <1>2, <1>6, <2>1, <2>2, <2>4, <2>5
<1>14. \A t \in Sleeves, b \in Assets : ~(t = s /\ b = a) =>
          NetOf(t, b)' = NetOf(t, b) /\ CashOf(t, b)' = CashOf(t, b)
  <2>1. \A j \in Keys : ~(j[1] = s /\ j[2] = a) => positions'[j] = positions[j]
    BY <1>9
  <2> QED
    BY <1>13, <2>1, OtherAccounts
<1> DEFINE ps == price * size
           pp == price * part
<1>15. /\ ps \in Int /\ pp \in Int
       /\ delta * price = IF side = "buy" THEN ps ELSE -ps
  BY <1>2, <1>5
<1>16. /\ NetOf(s, a)' = NetOf(s, a) + delta
       /\ CashOf(s, a)' = CashOf(s, a) - delta * price - charged
  <2> HIDE DEF part, cost, carried, ps, pp
  <2>1. CASE side = "buy"
    <3>1. own = <<s, a, "buy">> /\ key = <<s, a, "sell">> /\ Opposite(side) = "sell"
      BY <2>1 DEF Opposite
    <3>2. Gain(Opposite(side), cost, pp) = cost - pp
      BY <3>1 DEF Gain
    <3>3. /\ NetOf(s, a) = 0 - pos.size
          /\ NetOf(s, a)' = (size - part) - (pos.size - part)
      BY <1>3, <1>4, <1>10, <1>11, <3>1 DEF NetOf
    <3>4. CashOf(s, a) = booked[s][a] - 0 + pos.cost - 0 - pos.gas
      BY <1>4, <3>1 DEF CashOf
    <3>5. CashOf(s, a)' = (booked[s][a] + (cost - pp) - (carried + gas))
                             - (ps - pp) + (pos.cost - cost) - (charged - gas) - (pos.gas - carried)
      BY <1>10, <1>11, <1>13, <3>1, <3>2 DEF CashOf, ps, pp
    <3> QED
      BY <1>2, <1>3, <1>5, <1>6, <1>13, <1>15, <2>1, <3>3, <3>4, <3>5
  <2>2. CASE side = "sell"
    <3>1. own = <<s, a, "sell">> /\ key = <<s, a, "buy">> /\ Opposite(side) = "buy"
      BY <2>2 DEF Opposite
    <3>2. Gain(Opposite(side), cost, pp) = pp - cost
      BY <3>1 DEF Gain
    <3>3. /\ NetOf(s, a) = pos.size - 0
          /\ NetOf(s, a)' = (pos.size - part) - (size - part)
      BY <1>3, <1>4, <1>10, <1>11, <3>1 DEF NetOf
    <3>4. CashOf(s, a) = booked[s][a] - pos.cost + 0 - pos.gas - 0
      BY <1>4, <3>1 DEF CashOf
    <3>5. CashOf(s, a)' = (booked[s][a] + (pp - cost) - (carried + gas))
                             - (pos.cost - cost) + (ps - pp) - (pos.gas - carried) - (charged - gas)
      BY <1>10, <1>11, <1>13, <3>1, <3>2 DEF CashOf, ps, pp
    <3> QED
      BY <1>2, <1>3, <1>5, <1>6, <1>13, <1>15, <2>2, <3>3, <3>4, <3>5
  <2> QED
    BY <2>1, <2>2 DEF Sides
<1>17. size > part /\ gas > 0 => ReversalWithGas(s, a)
  <2> SUFFICES ASSUME size > part, gas > 0 PROVE ReversalWithGas(s, a)
    OBVIOUS
  <2>1. gasPaid'[s] > gasPaid[s]
    BY <1>2 DEF CloseAgainst, IInv, TypeOK
  <2>2. part = pos.size
    BY <1>2, <1>3
  <2>3. NetOf(s, a)' = NetOf(s, a) + delta
    BY <1>16
  <2>4. CASE side = "buy"
    <3>1. own = <<s, a, "buy">> /\ key = <<s, a, "sell">>
      BY <2>4 DEF Opposite
    <3>2. NetOf(s, a) = 0 - pos.size /\ delta = size
      BY <1>4, <2>4, <3>1 DEF NetOf
    <3> QED
      BY <1>2, <1>3, <2>1, <2>2, <2>3, <3>2 DEF ReversalWithGas
  <2>5. CASE side = "sell"
    <3>1. own = <<s, a, "sell">> /\ key = <<s, a, "buy">>
      BY <2>5 DEF Opposite
    <3>2. NetOf(s, a) = pos.size - 0 /\ delta = -size
      BY <1>4, <2>5, <3>1 DEF NetOf
    <3> QED
      BY <1>2, <1>3, <2>1, <2>2, <2>3, <3>2 DEF ReversalWithGas
  <2> QED
    BY <2>4, <2>5 DEF Sides
<1>18. ~(size > part /\ gas > 0) => charged = gas
  BY <1>2
<1>19. delta \in Int /\ price \in Int /\ gas \in Int
  BY <1>2
<1> HIDE DEF delta, charged, part
<1>20. L!Trade(s, a, delta)
  BY <1>12, <1>14, <1>16, <1>19, AccountMoves
<1>21. charged = gas => L!Fill(s, a, delta, price, gas)
  BY <1>12, <1>14, <1>16, <1>19, AccountMoves
<1> QED
  BY <1>17, <1>18, <1>20, <1>21 DEF delta, Signed

\* The effect of a redemption on one account of the market it settles.
LEMMA RedemptionOfAccount ==
    ASSUME IInv, NEW m \in Markets, NEW winner \in Winners(m), RedeemMarket(m, winner),
           NEW s \in Sleeves, NEW a \in Assets, MarketOf[a] = m
    PROVE  /\ NetOf(s, a)' = 0
           /\ NetOf(s, a) >= 0 =>
                 CashOf(s, a)' = CashOf(s, a) + ExitValue(<<s, a, "buy">>, winner)
           /\ NetOf(s, a) <= 0 =>
                 CashOf(s, a)' = CashOf(s, a) - ExitValue(<<s, a, "sell">>, winner)
<1> DEFINE b == <<s, a, "buy">>
           h == <<s, a, "sell">>
           eb == ExitValue(b, winner)
           eh == ExitValue(h, winner)
<1>1. b \in Keys /\ h \in Keys /\ b[2] = a /\ h[2] = a /\ b[3] = "buy" /\ h[3] = "sell"
  BY DEF Keys, Sides
<1>2. /\ positions[b].size \in Nat /\ positions[b].cost \in Nat /\ positions[b].gas \in Nat
      /\ positions[h].size \in Nat /\ positions[h].cost \in Nat /\ positions[h].gas \in Nat
      /\ positions[b].size = 0 => positions[b].cost = 0 /\ positions[b].gas = 0
      /\ positions[h].size = 0 => positions[h].cost = 0 /\ positions[h].gas = 0
  BY PositionFacts DEF Sides
<1>3. positions[b].size = 0 \/ positions[h].size = 0
  BY <1>2 DEF IInv, OneSided, Open
<1>4. positions'[b] = NoPosition /\ positions'[h] = NoPosition
  BY <1>1 DEF RedeemMarket
<1>5. booked'[s][a] = booked[s][a] + RedemptionPnl(b, winner) + RedemptionPnl(h, winner)
  BY DEF RedeemMarket
<1>6. ExitPrice("buy", a = winner) \in Nat /\ ExitPrice("sell", a = winner) \in Nat
  BY TrackerAssumption DEF ExitPrice
<1>7. /\ eb \in Nat /\ (positions[b].size = 0 => eb = 0)
      /\ eh \in Nat /\ (positions[h].size = 0 => eh = 0)
  <2>1. /\ positions[b].size * ExitPrice("buy", a = winner) \in Nat
        /\ positions[h].size * ExitPrice("sell", a = winner) \in Nat
    BY <1>2, <1>6, ProductIsNat
  <2>2. /\ positions[b].size = 0 => positions[b].size * ExitPrice("buy", a = winner) = 0
        /\ positions[h].size = 0 => positions[h].size * ExitPrice("sell", a = winner) = 0
    BY <1>2, <1>6
  <2>3. /\ eb = IF winner = Unknown THEN positions[b].cost
                ELSE positions[b].size * ExitPrice("buy", a = winner)
        /\ eh = IF winner = Unknown THEN positions[h].cost
                ELSE positions[h].size * ExitPrice("sell", a = winner)
    BY <1>1 DEF ExitValue
  <2> QED
    BY <1>2, <2>1, <2>2, <2>3
<1>8. /\ RedemptionPnl(b, winner) = eb - positions[b].cost - positions[b].gas
      /\ RedemptionPnl(h, winner) = positions[h].cost - eh - positions[h].gas
  BY <1>1 DEF RedemptionPnl, Gain
<1>9. booked[s][a] \in Int
  BY LedgerTypes
<1>10. NetOf(s, a) = positions[b].size - positions[h].size
  BY DEF NetOf
<1>11. CashOf(s, a) = booked[s][a] - positions[b].cost + positions[h].cost
                        - positions[b].gas - positions[h].gas
  BY DEF CashOf
<1>12. NetOf(s, a)' = 0 /\ CashOf(s, a)' = booked'[s][a] - 0 + 0 - 0 - 0
  BY <1>4 DEF NetOf, CashOf, NoPosition
<1> HIDE DEF eb, eh
<1>13. CashOf(s, a)' = CashOf(s, a) + eb - eh
  BY <1>2, <1>5, <1>7, <1>8, <1>9, <1>11, <1>12
<1>14. CashOf(s, a) \in Int
  BY LedgerTypes
<1>15. NetOf(s, a) >= 0 => eh = 0
  BY <1>2, <1>3, <1>7, <1>10
<1>16. NetOf(s, a) <= 0 => eb = 0
  BY <1>2, <1>3, <1>7, <1>10
<1> QED
  BY <1>7, <1>12, <1>13, <1>14, <1>15, <1>16 DEF eb, eh

\* An account of another market is not touched.
LEMMA RedemptionElsewhere ==
    ASSUME NEW m \in Markets, NEW winner \in Winners(m), RedeemMarket(m, winner),
           NEW s \in Sleeves, NEW a \in Assets, MarketOf[a] # m
    PROVE  NetOf(s, a)' = NetOf(s, a) /\ CashOf(s, a)' = CashOf(s, a)
<1>1. /\ <<s, a, "buy">> \in Keys /\ <<s, a, "sell">> \in Keys
      /\ <<s, a, "buy">>[2] = a /\ <<s, a, "sell">>[2] = a
  BY DEF Keys, Sides
<1>2. /\ positions'[<<s, a, "buy">>] = positions[<<s, a, "buy">>]
      /\ positions'[<<s, a, "sell">>] = positions[<<s, a, "sell">>]
      /\ booked'[s][a] = booked[s][a]
  BY <1>1 DEF RedeemMarket
<1> QED
  BY <1>2 DEF NetOf, CashOf

\* A redemption empties the market's accounts and pays out the longs.
LEMMA SettleRefines ==
    ASSUME IInv, NEW m \in Markets, NEW winner \in Winners(m), winner # Unknown,
           RedeemMarket(m, winner)
    PROVE  /\ L!SettleLongs(m, winner)
           /\ ~Shorted(m) => L!Settle(m, winner)
<1>1. ASSUME NEW s \in Sleeves, NEW a \in Assets, MarketOf[a] = m, NetOf(s, a) >= 0
      PROVE  CashOf(s, a)' = CashOf(s, a) + L!Payout(NetOf(s, a), a = winner)
  <2> DEFINE b == <<s, a, "buy">>
             h == <<s, a, "sell">>
             won == a = winner
  <2>1. /\ positions[b].size \in Nat /\ positions[h].size \in Nat
        /\ positions[b].size = 0 \/ positions[h].size = 0
    BY PositionFacts DEF Sides, IInv, OneSided, Open
  <2>2. NetOf(s, a) = positions[b].size - positions[h].size
    BY DEF NetOf
  <2>3. positions[b].size = NetOf(s, a)
    <3>1. positions[h].size = 0
      BY <1>1, <2>1, <2>2
    <3> QED
      BY <2>1, <2>2, <3>1
  <2>4. ExitValue(b, winner) = NetOf(s, a) * (IF won THEN One ELSE 0)
    <3>1. b[3] = "buy" /\ (b[2] = winner <=> won)
      OBVIOUS
    <3> QED
      BY <2>3, <3>1 DEF ExitValue, ExitPrice
  <2>5. CashOf(s, a)' = CashOf(s, a) + ExitValue(b, winner)
    BY <1>1, RedemptionOfAccount
  <2> QED
    BY <2>4, <2>5 DEF L!Payout
<1>2. \A s \in Sleeves, a \in Assets :
         /\ NetOf(s, a)' = IF MarketOf[a] = m THEN 0 ELSE NetOf(s, a)
         /\ MarketOf[a] # m => CashOf(s, a)' = CashOf(s, a)
         /\ MarketOf[a] = m /\ ~(NetOf(s, a) < 0) =>
               CashOf(s, a)' = CashOf(s, a) + L!Payout(NetOf(s, a), a = winner)
  <2> SUFFICES ASSUME NEW s \in Sleeves, NEW a \in Assets
               PROVE  /\ NetOf(s, a)' = IF MarketOf[a] = m THEN 0 ELSE NetOf(s, a)
                      /\ MarketOf[a] # m => CashOf(s, a)' = CashOf(s, a)
                      /\ MarketOf[a] = m /\ ~(NetOf(s, a) < 0) =>
                            CashOf(s, a)' = CashOf(s, a) + L!Payout(NetOf(s, a), a = winner)
    OBVIOUS
  <2>1. NetOf(s, a)' = IF MarketOf[a] = m THEN 0 ELSE NetOf(s, a)
    BY RedemptionOfAccount, RedemptionElsewhere
  <2>2. MarketOf[a] # m => CashOf(s, a)' = CashOf(s, a)
    BY RedemptionElsewhere
  <2>3. ~(NetOf(s, a) < 0) => NetOf(s, a) >= 0
    BY LedgerTypes
  <2> QED
    BY <1>1, <2>1, <2>2, <2>3
<1>3. winnerOf' = [winnerOf EXCEPT ![m] = winner]
  BY DEF RedeemMarket
<1>4. L!Empties(m, winner)
  BY <1>2, <1>3 DEF L!Empties
<1>5. L!SettleLongs(m, winner)
  BY <1>2, <1>4 DEF L!SettleLongs
<1>6. ASSUME ~Shorted(m) PROVE L!Settle(m, winner)
  <2>1. \A s \in Sleeves, a \in Assets : MarketOf[a] = m => ~(NetOf(s, a) < 0)
    BY <1>6 DEF Shorted
  <2>2. \A s \in Sleeves, a \in Assets :
           CashOf(s, a)' = IF MarketOf[a] = m
                           THEN CashOf(s, a) + L!Payout(NetOf(s, a), a = winner)
                           ELSE CashOf(s, a)
    BY <1>2, <2>1
  <2> QED
    BY <1>4, <2>2 DEF L!Settle
<1> QED
  BY <1>5, <1>6

LEMMA VoidRefines ==
    ASSUME IInv, NEW m \in Markets, RedeemMarket(m, Unknown)
    PROVE  L!Void(m)
<1>0. Unknown \in Winners(m)
  BY DEF Winners
<1>1. ASSUME NEW s \in Sleeves, NEW a \in Assets
      PROVE  LET refund == CashOf(s, a)' - CashOf(s, a) IN
             /\ CashOf(s, a)' \in Int
             /\ MarketOf[a] # m => refund = 0
             /\ NetOf(s, a) >= 0 => 0 <= refund /\ refund <= One * NetOf(s, a)
             /\ NetOf(s, a) <= 0 => One * NetOf(s, a) <= refund /\ refund <= 0
  <2> DEFINE b == <<s, a, "buy">>
             h == <<s, a, "sell">>
  <2>1. /\ positions[b].size \in Nat /\ positions[b].cost \in Nat
        /\ positions[h].size \in Nat /\ positions[h].cost \in Nat
        /\ positions[b].cost <= One * positions[b].size
        /\ positions[h].cost <= One * positions[h].size
        /\ positions[b].size = 0 \/ positions[h].size = 0
    BY PositionFacts DEF Sides, IInv, OneSided, Open
  <2>2. NetOf(s, a) = positions[b].size - positions[h].size
    BY DEF NetOf
  <2>3. ExitValue(b, Unknown) = positions[b].cost /\ ExitValue(h, Unknown) = positions[h].cost
    BY DEF ExitValue
  <2>4. One \in Nat /\ CashOf(s, a) \in Int
    BY TrackerAssumption, LedgerTypes
  <2>5. CASE MarketOf[a] # m
    <3>1. CashOf(s, a)' = CashOf(s, a)
      BY <1>0, <2>5, RedemptionElsewhere
    <3>2. NetOf(s, a) \in Int
      BY <2>1, <2>2
    <3>3. /\ NetOf(s, a) >= 0 => 0 <= One * NetOf(s, a)
          /\ NetOf(s, a) <= 0 => One * NetOf(s, a) <= 0
      BY <3>2, <2>4, SignOfProduct
    <3> QED
      BY <2>4, <2>5, <3>1, <3>2, <3>3
  <2>6. CASE MarketOf[a] = m /\ NetOf(s, a) > 0
    <3>1. NetOf(s, a) = positions[b].size
      BY <2>1, <2>2, <2>6
    <3>2. CashOf(s, a)' = CashOf(s, a) + positions[b].cost
      BY <1>0, <2>1, <2>3, <2>6, <3>1, RedemptionOfAccount
    <3> QED
      BY <2>1, <2>4, <2>6, <3>1, <3>2
  <2>7. CASE MarketOf[a] = m /\ NetOf(s, a) < 0
    <3>1. NetOf(s, a) = -positions[h].size
      BY <2>1, <2>2, <2>7
    <3>2. CashOf(s, a)' = CashOf(s, a) - positions[h].cost
      BY <1>0, <2>1, <2>3, <2>7, <3>1, RedemptionOfAccount
    <3>3. One * (-positions[h].size) = -(One * positions[h].size)
      BY <2>1, <2>4
    <3>4. One * positions[h].size \in Int
      BY <2>1, <2>4
    <3> QED
      BY <2>1, <2>4, <2>7, <3>1, <3>2, <3>3, <3>4
  <2>8. CASE MarketOf[a] = m /\ NetOf(s, a) = 0
    <3>1. positions[b].size = 0 /\ positions[h].size = 0
      BY <2>1, <2>2, <2>8
    <3>2. positions[b].cost = 0
      BY PositionFacts, <3>1 DEF Sides
    <3>3. CashOf(s, a)' = CashOf(s, a) + 0
      BY <1>0, <2>3, <2>8, <3>2, RedemptionOfAccount
    <3> QED
      BY <2>4, <2>8, <3>3
  <2> QED
    BY <2>1, <2>2, <2>5, <2>6, <2>7, <2>8
<1>2. \A s \in Sleeves, a \in Assets :
         NetOf(s, a)' = IF MarketOf[a] = m THEN 0 ELSE NetOf(s, a)
  BY <1>0, RedemptionOfAccount, RedemptionElsewhere
<1>3. winnerOf' = [winnerOf EXCEPT ![m] = Unknown]
  BY DEF RedeemMarket
<1>4. [s \in Sleeves |-> [a \in Assets |-> CashOf(s, a)]]' \in [Sleeves -> [Assets -> Int]]
  BY <1>1
<1> QED
  BY <1>1, <1>2, <1>3, <1>4 DEF L!Void, L!Empties

LEMMA InitRefines == Init => L!Init
<1> SUFFICES ASSUME Init PROVE L!Init
  OBVIOUS
<1>1. \A s \in Sleeves, a \in Assets : NetOf(s, a) = 0 /\ CashOf(s, a) = 0
  <2> SUFFICES ASSUME NEW s \in Sleeves, NEW a \in Assets
               PROVE  NetOf(s, a) = 0 /\ CashOf(s, a) = 0
    OBVIOUS
  <2>1. <<s, a, "buy">> \in Keys /\ <<s, a, "sell">> \in Keys
    BY DEF Keys, Sides
  <2>2. positions[<<s, a, "buy">>] = NoPosition /\ positions[<<s, a, "sell">>] = NoPosition
    BY <2>1 DEF Init
  <2>3. booked[s][a] = 0
    BY DEF Init
  <2> QED
    BY <2>2, <2>3 DEF NetOf, CashOf, NoPosition
<1> QED
  BY <1>1 DEF Init, L!Init

\* What KeepsTheLedger says of a step.
LedgerStep ==
    \/ L!Next
    \/ \E s \in Sleeves, a \in Assets, size \in Sizes, side \in Sides :
          ReversalWithGas(s, a) /\ L!Trade(s, a, Signed(side, size))
    \/ \E m \in Markets : \E winner \in Winners(m) \ {Unknown} :
          Shorted(m) /\ L!SettleLongs(m, winner)

LEMMA StepRefines == IInv /\ [Next]_vars => [LedgerStep]_vars
<1> SUFFICES ASSUME IInv, Next PROVE LedgerStep
  OBVIOUS
<1>1. ASSUME NEW s \in Sleeves, NEW a \in Assets, NEW side \in Sides,
             NEW size \in Sizes, NEW price \in Prices, NEW gas \in Gases,
             OnFill(s, a, side, size, price, gas)
      PROVE  LedgerStep
  <2>1. /\ L!Trade(s, a, Signed(side, size))
        /\ L!Fill(s, a, Signed(side, size), price, gas) \/ ReversalWithGas(s, a)
    BY <1>1, OpenOrAddRefines, CloseAgainstRefines, TrackerAssumption DEF OnFill
  <2>2. CASE L!Fill(s, a, Signed(side, size), price, gas)
    <3>1. L!Fill(s, a, size, price, gas) \/ L!Fill(s, a, -size, price, gas)
      BY <2>2 DEF Sides, Signed
    <3> QED
      BY <3>1 DEF LedgerStep, L!Next
  <2>3. CASE ReversalWithGas(s, a)
    BY <2>1, <2>3 DEF LedgerStep
  <2> QED
    BY <2>1, <2>2, <2>3
<1>2. ASSUME NEW m \in Markets, NEW winner \in Winners(m), RedeemMarket(m, winner)
      PROVE  LedgerStep
  <2>1. CASE winner = Unknown
    BY <1>2, <2>1, VoidRefines DEF L!Next, LedgerStep
  <2>2. CASE winner # Unknown /\ Shorted(m)
    BY <1>2, <2>2, SettleRefines DEF LedgerStep
  <2>3. CASE winner # Unknown /\ ~Shorted(m)
    <3>1. L!Settle(m, winner)
      BY <1>2, <2>3, SettleRefines
    <3> QED
      BY <2>3, <3>1 DEF L!Next, Winners, LedgerStep
  <2> QED
    BY <2>1, <2>2, <2>3
<1> QED
  BY <1>1, <1>2 DEF Next

\* Whatever the fills, their order and their sizes, and whatever resolves,
\* inventory and cash move as in the plain ledger, but for the gas of a fill
\* that reverses a position and for what redemption takes from a short.
THEOREM TrackerKeepsTheLedger == Spec => KeepsTheLedger
<1>1. Spec => L!Init /\ [][LedgerStep]_vars
  BY InitRefines, StepRefines, SpecInvariant, PTL DEF Spec
<1> QED
  BY <1>1, PTL DEF KeepsTheLedger, LedgerStep
=============================================================================
