------------------------ MODULE PoolLiquidity_proofs ------------------------
(***************************************************************************)
(* What a pool owes to those who put liquidity into it, for every fee,     *)
(* lock, multiplier and order of calls.  Fees and claims are rounded       *)
(* shares; the invariants speak of what they are rounded from.             *)
(***************************************************************************)
EXTENDS PoolLiquidityProperties, Totals_proofs, SequenceTheorems, WellFoundedInduction

\* What a position has earned and put aside, before rounding, times Unit.
Weight(pos, s) ==
  pos.liquidity * (growth[s] - pos.last[s]) + Unit * pos.unclaimed[s]

Liquidities == [p \in DOMAIN positions |-> positions[p].liquidity]
Weights(s)  == [p \in DOMAIN positions |-> Weight(positions[p], s)]

-----------------------------------------------------------------------------
(* The inductive invariant. *)

\* No position has collected fees yet to be earned, nor sold what is locked.
PositionsSane ==
  \A p \in DOMAIN positions :
    /\ \A s \in Sides : positions[p].last[s] <= growth[s]
    /\ ~drained => positions[p].locked <= positions[p].liquidity

\* Positions own the liquidity but for what a crossing seeded or a first
\* deposit locked, and liquidity has reserves behind it.
LiquidityOwned ==
  ~drained =>
    /\ SumOver(Liquidities) <= total
    /\ applyDust => SumOver(Liquidities) < total
    /\ ~applyDust => IF positions = <<>> THEN total = 0 ELSE positions[1].locked > 0
    /\ total = 0 => reserve = Zero /\ positions = <<>>
    /\ total > 0 => \A s \in Sides : reserve[s] > 0

\* The fee reserve covers what was earned before any of it is rounded.
FeesWeighed ==
  ~drained =>
    \A s \in Sides : SumOver(Weights(s)) <= Unit * feeReserve[s]

\* A drained pool has nothing but its escrow.
DrainedIsEmpty ==
  drained => /\ reserve = Zero /\ total = 0 /\ feeReserve = Zero /\ pot = Zero
             /\ positions # <<>> => snapshot.total > 0

\* Only an open pool pauses by itself.
AutoPauses == (closed => paused) /\ (auto => paused /\ ~closed)

IInv == /\ TypeOK /\ PositionsSane /\ LiquidityOwned /\ FeesWeighed
        /\ DrainedIsEmpty /\ AutoPauses /\ Backed /\ EscrowCovers

-----------------------------------------------------------------------------
(* Arithmetic. *)

\* A quotient, multiplied back.
LEMMA Quotients ==
  ASSUME NEW n \in Nat, NEW d \in Nat \ {0}
  PROVE  /\ n \div d \in Nat /\ d * (n \div d) <= n
         /\ n < d * ((n \div d) + 1)
<1>1. n \div d \in Nat /\ n = d * (n \div d) + (n % d) /\ n % d \in 0 .. d - 1
  BY Digits
<1> DEFINE q == n \div d
           r == n % d
<1>2. q \in Nat /\ r \in Nat /\ r < d /\ n = d * q + r
  BY <1>1
<1> HIDE DEF q, r
<1>3. d * (q + 1) = d * q + d /\ d * q \in Nat
  BY <1>2
<1> QED
  BY <1>2, <1>3 DEF q, r

\* A quotient is at most what its multiples stay below.
LEMMA QuotientBelow ==
  ASSUME NEW n \in Nat, NEW d \in Nat \ {0}, NEW m \in Nat, n <= m * d
  PROVE  n \div d <= m
<1>1. n < (m + 1) * d
  <2>1. (m + 1) * d = m * d + d /\ m * d \in Nat
    OBVIOUS
  <2> QED
    BY <2>1
<1>2. m + 1 \in Nat
  OBVIOUS
<1>3. n \div d < m + 1 /\ n \div d \in Nat
  BY <1>1, <1>2, Digits
<1> QED
  BY <1>3

\* The root that IntegerSqrt chooses exists.
LEMMA RootExists ==
  ASSUME NEW n \in Nat
  PROVE  \E r \in 0 .. n : r * r <= n /\ (r + 1) * (r + 1) > n
<1> DEFINE T == {r \in Nat : (r + 1) * (r + 1) > n}
<1>1. T \subseteq Nat /\ T # {}
  <2>1. (n + 1) * (n + 1) > n
    OBVIOUS
  <2> QED
    BY <2>1
<1>2. PICK m \in T : \A y \in T : ~ (<<y, m>> \in OpToRel(<, Nat))
  <2> HIDE DEF T
  <2> QED
    BY <1>1, WFMin, NatLessThanWellFounded, Zenon
<1>3. m \in Nat /\ (m + 1) * (m + 1) > n
  OBVIOUS
<1>4. \A y \in T : ~(y < m)
  <2>1. \A y \in T : y \in Nat
    OBVIOUS
  <2> HIDE DEF T
  <2> QED
    BY <1>2, <1>3, <2>1, Zenon DEF OpToRel
<1>5. m * m <= n
  <2>1. CASE m = 0
    BY <2>1
  <2>2. CASE m # 0
    <3>1. m - 1 \in Nat /\ m - 1 < m /\ ((m - 1) + 1) * ((m - 1) + 1) = m * m
      BY <1>3, <2>2
    <3>2. m - 1 \notin T
      BY <1>4, <3>1
    <3>3. m * m \in Nat
      BY <1>3
    <3> QED
      BY <3>1, <3>2, <3>3
  <2> QED
    BY <2>1, <2>2
<1>6. m <= n
  <2>1. m = 0 \/ m <= m * m
    BY <1>3
  <2> QED
    BY <1>3, <1>5, <2>1
<1> QED
  BY <1>3, <1>5, <1>6

LEMMA RootType ==
  ASSUME NEW n \in Nat
  PROVE  /\ IntegerSqrt(n) \in Nat
         /\ n > 0 => IntegerSqrt(n) > 0
<1>1. /\ IntegerSqrt(n) \in 0 .. n
      /\ (IntegerSqrt(n) + 1) * (IntegerSqrt(n) + 1) > n
  BY RootExists DEF IntegerSqrt
<1> DEFINE r == IntegerSqrt(n)
<1> HIDE DEF r
<1>2. r \in Nat /\ (r + 1) * (r + 1) > n
  BY <1>1 DEF r
<1>3. r = 0 => n < 1
  BY <1>2
<1> QED
  BY <1>2, <1>3 DEF r

\* Decimals: a product by a Decimal is no more than by what it is a part of.
LEMMA MulFloorType ==
  ASSUME NEW n \in Nat, NEW d \in Nat
  PROVE  /\ MulFloor(n, d) \in Nat /\ Unit * MulFloor(n, d) <= n * d
         /\ d <= Unit => MulFloor(n, d) <= n
<1>1. n * d \in Nat /\ Unit \in Nat \ {0}
  BY LiquidityAssumption
<1>2. d <= Unit => n * d <= n * Unit
  BY <1>1
<1> QED
  BY <1>1, <1>2, Quotients, QuotientBelow DEF MulFloor

LEMMA FromRatioType ==
  ASSUME NEW a \in Nat, NEW b \in Nat \ {0}
  PROVE  /\ FromRatio(a, b) \in Nat /\ b * FromRatio(a, b) <= a * Unit
         /\ a <= b => FromRatio(a, b) <= Unit
<1>1. a * Unit \in Nat /\ Unit \in Nat \ {0}
  BY LiquidityAssumption
<1>2. a <= b => a * Unit <= Unit * b
  BY <1>1
<1> QED
  BY <1>1, <1>2, Quotients, QuotientBelow DEF FromRatio

LEMMA MultiplierType ==
  ASSUME NEW liquidity \in Nat
  PROVE  FeeSizeMultiplier(liquidity) \in 0 .. Unit
<1> DEFINE ratio == FromRatio(liquidity, OptimalLiquidity)
           rest == Unit - MinMultiplier
<1>1. rest \in Nat /\ Unit \in Nat /\ MinMultiplier \in Nat /\ OptimalLiquidity \in Nat \ {0}
  BY LiquidityAssumption
<1>2. CASE liquidity >= OptimalLiquidity
  BY <1>1, <1>2 DEF FeeSizeMultiplier
<1>3. CASE ~(liquidity >= OptimalLiquidity)
  <2>1. ratio \in Nat /\ ratio <= Unit
    BY <1>1, <1>3, FromRatioType
  <2> HIDE DEF ratio
  <2>2. MulFloor(rest, ratio) \in Nat /\ MulFloor(rest, ratio) <= rest
    <3> HIDE DEF rest
    <3> QED
      BY <1>1, <2>1, MulFloorType
  <2>3. FeeSizeMultiplier(liquidity) = MinMultiplier + MulFloor(rest, ratio)
    BY <1>3 DEF FeeSizeMultiplier, ratio
  <2> QED
    BY <1>1, <2>2, <2>3
<1> QED
  BY <1>2, <1>3

\* A share of a reserve is at most that reserve, and what it leaves is worth
\* as much per unit of liquidity.
LEMMA ShareBounds ==
  ASSUME NEW r \in Nat, NEW l \in Nat, NEW t \in Nat \ {0}, l <= t
  PROVE  /\ (r * l) \div t \in Nat /\ (r * l) \div t <= r
         /\ (r - (r * l) \div t) * t >= r * (t - l)
         /\ r > 0 /\ l < t => (r * l) \div t < r
<1> DEFINE q == (r * l) \div t
<1>1. r * l \in Nat /\ r * l <= r * t /\ r * (t - l) = r * t - r * l /\ r * t \in Nat
  OBVIOUS
<1>2. q \in Nat /\ t * q <= r * l /\ q <= r
  BY <1>1, Quotients, QuotientBelow
<1> HIDE DEF q
<1>3. (r - q) * t = r * t - t * q /\ t * q \in Nat
  BY <1>2
<1>4. ASSUME r > 0, l < t PROVE q < r
  <2>1. r * l < r * t
    BY <1>4
  <2>2. q = r => t * q = r * t
    OBVIOUS
  <2> QED
    BY <1>1, <1>2, <2>1, <2>2
<1> QED
  BY <1>1, <1>2, <1>3, <1>4 DEF q
-----------------------------------------------------------------------------
(* Totals over the positions. *)

\* What changes in one place changes the total.
LEMMA TotalChange ==
  ASSUME NEW S, IsFiniteSet(S), NEW a \in S, NEW f, NEW g,
         \A p \in S : f[p] \in Nat, g[a] \in Nat,
         \A p \in S : p # a => g[p] = f[p]
  PROVE  /\ Total(g, S) + f[a] = Total(f, S) + g[a]
         /\ Total(f, S) \in Nat /\ Total(g, S) \in Nat /\ f[a] <= Total(f, S)
<1> DEFINE h == [p \in S |-> IF p = a THEN 0 ELSE f[p]]
<1>1. /\ \A p \in S : h[p] \in Nat
      /\ \A p \in S : f[p] = IF p = a THEN h[p] + f[a] ELSE h[p]
      /\ \A p \in S : g[p] = IF p = a THEN h[p] + g[a] ELSE h[p]
      /\ \A p \in S : g[p] \in Nat
  OBVIOUS
<1> HIDE DEF h
<1>2. Total(f, S) = Total(h, S) + f[a] /\ Total(g, S) = Total(h, S) + g[a]
  BY <1>1, TotalAdd
<1>3. Total(h, S) \in Nat /\ Total(f, S) \in Nat /\ Total(g, S) \in Nat
  BY <1>1, TotalType
<1> QED
  BY <1>2, <1>3

\* A new last place adds to the total.
LEMMA TotalAppend ==
  ASSUME NEW n \in Nat, NEW f, NEW g,
         \A p \in 1 .. n : f[p] \in Nat, g[n + 1] \in Nat,
         \A p \in 1 .. n : g[p] = f[p]
  PROVE  /\ Total(g, 1 .. n + 1) = Total(f, 1 .. n) + g[n + 1]
         /\ Total(f, 1 .. n) \in Nat
<1> DEFINE S == 1 .. n + 1
           h == [p \in S |-> IF p = n + 1 THEN 0 ELSE g[p]]
<1>1. IsFiniteSet(S) /\ IsFiniteSet(1 .. n) /\ n + 1 \in S /\ 1 .. n \in SUBSET S
  <2>1. 1 \in Int /\ n \in Int /\ n + 1 \in Int /\ n + 1 \in S /\ 1 .. n \in SUBSET S
    OBVIOUS
  <2> QED
    BY <2>1, FS_Interval
<1>2. /\ \A p \in S : h[p] \in Nat /\ g[p] \in Nat
      /\ \A p \in S : p # n + 1 => g[p] = h[p]
      /\ \A p \in S \ (1 .. n) : h[p] = 0
      /\ \A p \in 1 .. n : f[p] = h[p]
      /\ h[n + 1] = 0
  OBVIOUS
<1> HIDE DEF h, S
<1>3. /\ Total(g, S) + 0 = Total(h, S) + g[n + 1]
      /\ Total(g, S) \in Nat /\ Total(h, S) \in Nat
  BY <1>1, <1>2, TotalChange
<1>4. Total(h, S) = Total(h, 1 .. n)
  BY <1>1, <1>2, TotalOutside
<1>5. Total(f, 1 .. n) = Total(h, 1 .. n)
  BY <1>2, TotalEqual
<1>6. Total(f, 1 .. n) \in Nat
  BY <1>3, <1>4, <1>5
<1> QED
  BY <1>3, <1>4, <1>5, <1>6 DEF S

\* A total of multiples.
LEMMA TotalTimes ==
  ASSUME NEW S, IsFiniteSet(S), NEW f, NEW g, NEW k \in Nat,
         \A p \in S : f[p] \in Nat, \A p \in S : g[p] = f[p] * k
  PROVE  Total(g, S) <= Total(f, S) * k
<1>1. Total(f, S) \in Nat
  BY TotalType
<1>2. CASE k = 0
  <2>1. \A p \in S : g[p] = 0
    BY <1>2
  <2> QED
    BY <1>1, <1>2, <2>1, TotalZero
<1>3. CASE k # 0
  <2>1. k \in Nat \ {0} /\ 1 \in Nat \ {0}
    BY <1>3
  <2>2. \A p \in S : f[p] \in Nat /\ g[p] \in Nat /\ g[p] * 1 <= f[p] * k
    OBVIOUS
  <2>3. Total(g, S) * 1 <= Total(f, S) * k
    BY <2>1, <2>2, TotalShares
  <2>4. Total(g, S) \in Nat
    BY <2>2, TotalType
  <2> QED
    BY <2>3, <2>4
<1> QED
  BY <1>2, <1>3

LEMMA SidesAre ==
  /\ 0 \in Sides /\ 1 \in Sides
  /\ \A s \in Sides : s \in Int /\ Other(s) \in Sides /\ Other(s) # s
  /\ \A f \in PerSide : \A s \in Sides : f[s] \in Nat
  /\ Zero \in PerSide /\ \A s \in Sides : Zero[s] = 0
BY DEF Sides, PerSide, Other, Zero

LEMMA PlusLess ==
  ASSUME NEW f \in PerSide, NEW g \in PerSide
  PROVE  /\ Plus(f, g) \in PerSide /\ \A s \in Sides : Plus(f, g)[s] = f[s] + g[s]
         /\ (\A s \in Sides : g[s] <= f[s]) => Less(f, g) \in PerSide
         /\ \A s \in Sides : Less(f, g)[s] = f[s] - g[s]
BY DEF Plus, Less, PerSide

LEMMA DomainFinite ==
  ASSUME TypeOK
  PROVE  /\ Len(positions) \in Nat /\ DOMAIN positions = 1 .. Len(positions)
         /\ IsFiniteSet(DOMAIN positions)
         /\ \A p \in DOMAIN positions : positions[p] \in Position
<1>1. positions \in Seq(Position)
  BY DEF TypeOK
<1>2. Len(positions) \in Nat /\ DOMAIN positions = 1 .. Len(positions)
  BY <1>1, LenProperties
<1>3. IsFiniteSet(1 .. Len(positions))
  BY <1>2, FS_Interval
<1> QED
  BY <1>1, <1>2, <1>3, ElementOfSeq

\* The liquidities and the weights of the positions are natural numbers.
LEMMA WeightTypes ==
  ASSUME TypeOK, PositionsSane
  PROVE  \A p \in DOMAIN positions :
           /\ Liquidities[p] = positions[p].liquidity /\ Liquidities[p] \in Nat
           /\ \A s \in Sides : /\ Weights(s)[p] = Weight(positions[p], s)
                               /\ Weights(s)[p] \in Nat
                               /\ growth[s] - positions[p].last[s] \in Nat
<1> SUFFICES ASSUME NEW p \in DOMAIN positions, NEW s \in Sides
             PROVE  /\ Liquidities[p] = positions[p].liquidity /\ Liquidities[p] \in Nat
                    /\ Weights(s)[p] = Weight(positions[p], s)
                    /\ Weights(s)[p] \in Nat
                    /\ growth[s] - positions[p].last[s] \in Nat
  BY SidesAre
<1>1. /\ positions[p] \in Position /\ growth \in PerSide
  BY DomainFinite DEF TypeOK
<1>2. /\ positions[p].liquidity \in Nat /\ positions[p].last[s] \in Nat
      /\ positions[p].unclaimed[s] \in Nat /\ growth[s] \in Nat
      /\ positions[p].last[s] <= growth[s]
  BY <1>1, SidesAre DEF Position, PositionsSane
<1>3. Unit * positions[p].unclaimed[s] \in Nat
  BY <1>2, LiquidityAssumption
<1>4. growth[s] - positions[p].last[s] \in Nat
  BY <1>2
<1>5. positions[p].liquidity * (growth[s] - positions[p].last[s]) \in Nat
  BY <1>2, <1>4
<1>6. Weight(positions[p], s) \in Nat
  BY <1>3, <1>5 DEF Weight
<1> QED
  BY <1>2, <1>4, <1>6 DEF Liquidities, Weights

LEMMA SumTypes ==
  ASSUME TypeOK, PositionsSane
  PROVE  /\ SumOver(Liquidities) \in Nat
         /\ \A s \in Sides : SumOver(Weights(s)) \in Nat
         /\ SumOver(Liquidities) = Total(Liquidities, DOMAIN positions)
         /\ \A s \in Sides : SumOver(Weights(s)) = Total(Weights(s), DOMAIN positions)
         /\ \A p \in DOMAIN positions : positions[p].liquidity <= SumOver(Liquidities)
<1>1. /\ DOMAIN Liquidities = DOMAIN positions
      /\ \A s \in Sides : DOMAIN Weights(s) = DOMAIN positions
  BY DEF Liquidities, Weights
<1>2. /\ SumOver(Liquidities) = Total(Liquidities, DOMAIN positions)
      /\ \A s \in Sides : SumOver(Weights(s)) = Total(Weights(s), DOMAIN positions)
  BY <1>1 DEF SumOver
<1>3. Total(Liquidities, DOMAIN positions) \in Nat
  BY DomainFinite, WeightTypes, TotalType
<1>4. ASSUME NEW s \in Sides PROVE Total(Weights(s), DOMAIN positions) \in Nat
  <2> DEFINE w == Weights(s)
  <2>1. \A p \in DOMAIN positions : w[p] \in Nat
    BY WeightTypes
  <2> HIDE DEF w
  <2>2. Total(w, DOMAIN positions) \in Nat
    BY <2>1, DomainFinite, TotalType
  <2> QED
    BY <2>2 DEF w
<1>5. ASSUME NEW p \in DOMAIN positions
      PROVE  positions[p].liquidity <= Total(Liquidities, DOMAIN positions)
  <2>1. Liquidities[p] <= Total(Liquidities, DOMAIN positions)
    BY DomainFinite, WeightTypes, TotalChange
  <2> QED
    BY <2>1, WeightTypes
<1> QED
  BY <1>2, <1>3, <1>4, <1>5
-----------------------------------------------------------------------------
(* A step of one position. *)

\* What a liquidity l of a position has earned, and its part.
LEMMA FeeFacts ==
  ASSUME NEW pos \in Position, NEW l \in Nat, NEW s \in Sides, growth \in PerSide,
         pos.last[s] <= growth[s]
  PROVE  /\ Earned(l, pos, s) \in Nat /\ Adjusted(l, pos, s) \in Nat
         /\ Adjusted(l, pos, s) <= Earned(l, pos, s)
         /\ Unit * Earned(l, pos, s) <= l * (growth[s] - pos.last[s])
<1> DEFINE d == growth[s] - pos.last[s]
           e == Earned(l, pos, s)
<1>1. pos.last \in PerSide /\ pos.multiplier \in Nat /\ pos.multiplier <= Unit
  BY LiquidityAssumption DEF Position
<1>2. d \in Nat
  BY <1>1, SidesAre
<1> HIDE DEF d
<1>3. e \in Nat /\ Unit * e <= l * d
  <2>1. MulFloor(l, d) \in Nat /\ Unit * MulFloor(l, d) <= l * d
    BY <1>2, MulFloorType
  <2> QED
    BY <2>1 DEF Earned, d
<1> HIDE DEF e
<1>4. MulFloor(e, pos.multiplier) \in Nat /\ MulFloor(e, pos.multiplier) <= e
  BY <1>1, <1>3, MulFloorType
<1>5. Adjusted(l, pos, s) = MulFloor(e, pos.multiplier)
  BY DEF Adjusted, e
<1> QED
  BY <1>3, <1>4, <1>5 DEF d, e

\* A full collection takes no more than the reserve has and the position
\* weighs.
LEMMA CollectFacts ==
  ASSUME TypeOK, PositionsSane, NEW p \in DOMAIN positions
  PROVE  /\ FeesOwed(positions[p]) \in PerSide /\ Clipped(positions[p]) \in PerSide
         /\ \A s \in Sides :
              /\ FeesOwed(positions[p])[s] + Clipped(positions[p])[s] <= feeReserve[s]
              /\ Unit * (FeesOwed(positions[p])[s] + Clipped(positions[p])[s])
                   <= Weight(positions[p], s)
<1> DEFINE pos == positions[p]
<1>1. pos \in Position /\ growth \in PerSide /\ feeReserve \in PerSide
  BY DomainFinite DEF TypeOK
<1>2. pos.liquidity \in Nat /\ pos.unclaimed \in PerSide
  BY <1>1 DEF Position
<1>3. \A s \in Sides : pos.last[s] <= growth[s]
  BY DEF PositionsSane
<1> HIDE DEF pos
<1>4. ASSUME NEW s \in Sides
      PROVE  /\ FeesOwed(pos)[s] \in Nat /\ Clipped(pos)[s] \in Nat
             /\ FeesOwed(pos)[s] + Clipped(pos)[s] <= feeReserve[s]
             /\ Unit * (FeesOwed(pos)[s] + Clipped(pos)[s]) <= Weight(pos, s)
  <2> DEFINE e == Earned(pos.liquidity, pos, s)
             a == Adjusted(pos.liquidity, pos, s)
             w == pos.liquidity * (growth[s] - pos.last[s])
             u == pos.unclaimed[s]
             o == FeesOwed(pos)[s]
             c == Clipped(pos)[s]
  <2>1. e \in Nat /\ a \in Nat /\ a <= e /\ Unit * e <= w
    BY <1>1, <1>2, <1>3, FeeFacts
  <2>2. feeReserve[s] \in Nat /\ u \in Nat
    BY <1>1, <1>2, SidesAre
  <2>3. /\ o = Least(a + u, feeReserve[s])
        /\ c = Least(e - a, feeReserve[s] - o)
    BY DEF FeesOwed, Clipped
  <2>4. Weight(pos, s) = w + Unit * u
    BY DEF Weight
  <2>5. w \in Int
    <3>1. growth[s] \in Nat /\ pos.last[s] \in Nat
      BY <1>1, SidesAre DEF Position
    <3> QED
      BY <1>2, <3>1
  <2> HIDE DEF e, a, w, u, o, c
  <2>6. o \in Nat /\ c \in Nat /\ o + c <= feeReserve[s] /\ o + c <= e + u
    BY <2>1, <2>2, <2>3 DEF Least
  <2>7. Unit * (o + c) <= Unit * (e + u) /\ Unit * (e + u) = Unit * e + Unit * u
    BY <2>1, <2>2, <2>6, LiquidityAssumption
  <2>8. Unit * (o + c) \in Int /\ Unit * e \in Int /\ Unit * u \in Int
    BY <2>1, <2>2, <2>6, LiquidityAssumption
  <2>9. Unit * (o + c) <= Weight(pos, s)
    BY <2>1, <2>4, <2>5, <2>7, <2>8
  <2> QED
    BY <2>6, <2>9 DEF o, c
<1>5. FeesOwed(pos) \in PerSide /\ Clipped(pos) \in PerSide
  <2>1. /\ FeesOwed(pos) = [s \in Sides |-> FeesOwed(pos)[s]]
        /\ Clipped(pos) = [s \in Sides |-> Clipped(pos)[s]]
    BY DEF FeesOwed, Clipped
  <2> QED
    BY <1>4, <2>1 DEF PerSide
<1> QED
  BY <1>4, <1>5 DEF pos

\* One position becomes q: the sums follow.
LEMMA PositionBecomes ==
  ASSUME TypeOK, PositionsSane, NEW p \in DOMAIN positions, NEW q \in Position,
         positions' = [positions EXCEPT ![p] = q], growth' = growth,
         \A s \in Sides : q.last[s] <= growth[s]
  PROVE  /\ positions' \in Seq(Position) /\ DOMAIN positions' = DOMAIN positions
         /\ Len(positions') = Len(positions)
         /\ positions'[p] = q
         /\ \A r \in DOMAIN positions : r # p => positions'[r] = positions[r]
         /\ SumOver(Liquidities)' + positions[p].liquidity
              = SumOver(Liquidities) + q.liquidity
         /\ \A s \in Sides : SumOver(Weights(s))' + Weight(positions[p], s)
                               = SumOver(Weights(s)) + Weight(q, s)
         /\ SumOver(Liquidities)' \in Nat
         /\ \A s \in Sides : SumOver(Weights(s))' \in Nat
<1> DEFINE D == DOMAIN positions
<1>1. /\ positions \in Seq(Position) /\ p \in 1 .. Len(positions)
      /\ D = 1 .. Len(positions) /\ IsFiniteSet(D) /\ p \in D
  BY DomainFinite DEF TypeOK
<1>2. positions' \in Seq(Position) /\ Len(positions') = Len(positions)
  BY <1>1, ExceptSeq
<1>3. DOMAIN positions' = D /\ positions'[p] = q /\ \A r \in D : r # p => positions'[r] = positions[r]
  OBVIOUS
<1>4. q.liquidity \in Nat /\ q.unclaimed \in PerSide /\ q.last \in PerSide /\ growth \in PerSide
  BY DEF Position, TypeOK
<1>5. /\ SumOver(Liquidities)' + positions[p].liquidity = SumOver(Liquidities) + q.liquidity
      /\ SumOver(Liquidities)' \in Nat
  <2> DEFINE f == Liquidities
             g == Liquidities'
  <2>1. \A r \in D : f[r] = positions[r].liquidity /\ f[r] \in Nat
    BY WeightTypes
  <2>2. g = [r \in D |-> positions'[r].liquidity]
    BY <1>3 DEF Liquidities
  <2>3. g[p] = q.liquidity /\ \A r \in D : r # p => g[r] = f[r]
    BY <1>3, <2>1, <2>2
  <2>4. SumOver(Liquidities)' = Total(g, D)
    BY <2>2 DEF SumOver
  <2>5. SumOver(Liquidities) = Total(f, D)
    BY SumTypes
  <2> HIDE DEF f, g, D
  <2>6. Total(g, D) + f[p] = Total(f, D) + g[p] /\ Total(g, D) \in Nat
    <3>1. g[p] \in Nat
      BY <1>4, <2>3
    <3>2. IsFiniteSet(D) /\ p \in D /\ \A r \in D : f[r] \in Nat
      BY <1>1, <2>1
    <3>3. \A r \in D : r # p => g[r] = f[r]
      BY <2>3
    <3> QED
      BY <3>1, <3>2, <3>3, TotalChange
  <2> QED
    BY <1>1, <2>1, <2>3, <2>4, <2>5, <2>6
<1>6. ASSUME NEW s \in Sides
      PROVE  /\ SumOver(Weights(s))' + Weight(positions[p], s)
                  = SumOver(Weights(s)) + Weight(q, s)
             /\ SumOver(Weights(s))' \in Nat
  <2> DEFINE f == Weights(s)
             g == Weights(s)'
  <2>1. \A r \in D : f[r] = Weight(positions[r], s) /\ f[r] \in Nat
    BY WeightTypes
  <2>2. g = [r \in D |-> positions'[r].liquidity * (growth[s] - positions'[r].last[s])
                           + Unit * positions'[r].unclaimed[s]]
    BY <1>3 DEF Weights, Weight
  <2>3. g[p] = Weight(q, s) /\ \A r \in D : r # p => g[r] = f[r]
    BY <1>3, <2>1, <2>2 DEF Weight
  <2>4. SumOver(Weights(s))' = Total(g, D)
    BY <2>2 DEF SumOver
  <2>5. SumOver(Weights(s)) = Total(f, D)
    BY SumTypes
  <2>6. Weight(q, s) \in Nat
    <3>1. growth[s] - q.last[s] \in Nat /\ q.unclaimed[s] \in Nat
      BY <1>4, SidesAre
    <3>2. q.liquidity * (growth[s] - q.last[s]) \in Nat
      BY <1>4, <3>1
    <3>3. Unit * q.unclaimed[s] \in Nat
      BY <3>1, LiquidityAssumption
    <3> QED
      BY <3>2, <3>3 DEF Weight
  <2> HIDE DEF f, g, D
  <2>7. Total(g, D) + f[p] = Total(f, D) + g[p] /\ Total(g, D) \in Nat
    <3>1. g[p] \in Nat
      BY <2>3, <2>6
    <3>2. IsFiniteSet(D) /\ p \in D /\ \A r \in D : f[r] \in Nat
      BY <1>1, <2>1
    <3>3. \A r \in D : r # p => g[r] = f[r]
      BY <2>3
    <3> QED
      BY <3>1, <3>2, <3>3, TotalChange
  <2> QED
    BY <1>1, <2>1, <2>3, <2>4, <2>5, <2>7
<1> QED
  BY <1>2, <1>3, <1>5, <1>6
\* A position is added: it weighs nothing yet.
LEMMA PositionAdded ==
  ASSUME TypeOK, PositionsSane, NEW q \in Position,
         positions' = Append(positions, q), growth' = growth,
         q.last = growth, q.unclaimed = Zero
  PROVE  /\ positions' \in Seq(Position)
         /\ Len(positions') = Len(positions) + 1
         /\ DOMAIN positions' = 1 .. Len(positions) + 1
         /\ positions'[Len(positions) + 1] = q
         /\ \A r \in DOMAIN positions : positions'[r] = positions[r]
         /\ SumOver(Liquidities)' = SumOver(Liquidities) + q.liquidity
         /\ \A s \in Sides : SumOver(Weights(s))' = SumOver(Weights(s))
<1> DEFINE n == Len(positions)
<1>1. /\ positions \in Seq(Position) /\ n \in Nat /\ DOMAIN positions = 1 .. n
  BY DomainFinite DEF TypeOK
<1>2. /\ positions' \in Seq(Position) /\ Len(positions') = n + 1
      /\ positions'[n + 1] = q
      /\ \A r \in 1 .. n : positions'[r] = positions[r]
      /\ DOMAIN positions' = 1 .. n + 1
  BY <1>1, AppendProperties, LenProperties
<1>3. q.liquidity \in Nat /\ growth \in PerSide
  BY DEF Position, TypeOK
<1> HIDE DEF n
<1>4. SumOver(Liquidities)' = SumOver(Liquidities) + q.liquidity
  <2> DEFINE f == Liquidities
             g == Liquidities'
  <2>1. \A r \in 1 .. n : f[r] = positions[r].liquidity /\ f[r] \in Nat
    BY <1>1, WeightTypes
  <2>2. g = [r \in 1 .. n + 1 |-> positions'[r].liquidity]
    BY <1>2 DEF Liquidities
  <2>3. SumOver(Liquidities)' = Total(g, 1 .. n + 1)
    BY <2>2 DEF SumOver
  <2>4. SumOver(Liquidities) = Total(f, 1 .. n)
    BY <1>1, SumTypes
  <2> HIDE DEF f, g
  <2>5. \A r \in 1 .. n : g[r] = f[r]
    BY <1>1, <1>2, <2>1, <2>2
  <2>6. n + 1 \in 1 .. n + 1
    BY <1>1
  <2>7. g[n + 1] = q.liquidity
    BY <1>2, <2>2, <2>6
  <2>8. \A r \in 1 .. n : f[r] \in Nat
    BY <2>1
  <2>9. Total(g, 1 .. n + 1) = Total(f, 1 .. n) + g[n + 1]
    BY <1>1, <1>3, <2>5, <2>7, <2>8, TotalAppend
  <2> QED
    BY <2>3, <2>4, <2>7, <2>9
<1>5. ASSUME NEW s \in Sides
      PROVE  SumOver(Weights(s))' = SumOver(Weights(s))
  <2> DEFINE f == Weights(s)
             g == Weights(s)'
  <2>1. \A r \in 1 .. n : f[r] = Weight(positions[r], s) /\ f[r] \in Nat
    BY <1>1, WeightTypes
  <2>2. g = [r \in 1 .. n + 1 |->
               positions'[r].liquidity * (growth[s] - positions'[r].last[s])
                 + Unit * positions'[r].unclaimed[s]]
    BY <1>2 DEF Weights, Weight
  <2>3. SumOver(Weights(s))' = Total(g, 1 .. n + 1)
    BY <2>2 DEF SumOver
  <2>4. SumOver(Weights(s)) = Total(f, 1 .. n)
    BY <1>1, SumTypes
  <2> HIDE DEF f, g
  <2>5. \A r \in 1 .. n : g[r] = f[r]
    BY <1>1, <1>2, <2>1, <2>2 DEF Weight
  <2>6. n + 1 \in 1 .. n + 1
    BY <1>1
  <2>7. g[n + 1] = q.liquidity * (growth[s] - growth[s]) + Unit * 0
    BY <1>2, <2>2, <2>6, SidesAre
  <2>8. g[n + 1] = 0
    <3>1. growth[s] \in Nat /\ growth[s] - growth[s] = 0
      BY <1>3, SidesAre
    <3>2. q.liquidity * 0 = 0 /\ Unit * 0 = 0
      BY <1>3, LiquidityAssumption
    <3> QED
      BY <2>7, <3>1, <3>2
  <2>9. \A r \in 1 .. n : f[r] \in Nat
    BY <2>1
  <2>10. /\ Total(g, 1 .. n + 1) = Total(f, 1 .. n) + g[n + 1]
         /\ Total(f, 1 .. n) \in Nat
    BY <1>1, <2>5, <2>8, <2>9, TotalAppend
  <2> QED
    BY <2>3, <2>4, <2>8, <2>10
<1> QED
  BY <1>1, <1>2, <1>4, <1>5 DEF n

\* The fees of a swap are spread over the liquidity: what they add to the
\* weights is at most the commission.
LEMMA GrowthSpreads ==
  ASSUME TypeOK, PositionsSane, NEW s \in Sides, NEW d \in Nat,
         positions' = positions, growth' \in PerSide, growth'[s] = growth[s] + d
  PROVE  SumOver(Weights(s))' <= SumOver(Weights(s)) + SumOver(Liquidities) * d
<1> DEFINE D == DOMAIN positions
           f == Weights(s)
           g == Weights(s)'
           l == Liquidities
           k == [p \in D |-> l[p] * d]
<1>1. IsFiniteSet(D) /\ \A p \in D : positions[p] \in Position
  BY DomainFinite
<1>2. \A p \in D : /\ f[p] = Weight(positions[p], s) /\ f[p] \in Nat
                   /\ l[p] = positions[p].liquidity /\ l[p] \in Nat
                   /\ growth[s] - positions[p].last[s] \in Nat
  BY WeightTypes
<1>3. g = [p \in D |-> positions[p].liquidity * (growth'[s] - positions[p].last[s])
                         + Unit * positions[p].unclaimed[s]]
  BY DEF Weights, Weight
<1>4. /\ SumOver(Weights(s))' = Total(g, D)
      /\ SumOver(Weights(s)) = Total(f, D)
      /\ SumOver(Liquidities) = Total(l, D)
  BY <1>3, SumTypes DEF SumOver
<1>5. \A p \in D : k[p] \in Nat /\ k[p] = l[p] * d
  BY <1>2
<1>6. \A p \in D : g[p] = f[p] + k[p]
  <2> SUFFICES ASSUME NEW p \in D PROVE g[p] = f[p] + k[p]
    OBVIOUS
  <2> DEFINE e == growth[s] - positions[p].last[s]
             m == positions[p].liquidity
             u == Unit * positions[p].unclaimed[s]
  <2>1. e \in Nat /\ m \in Nat
    BY <1>2
  <2>2. u \in Nat
    <3>1. positions[p].unclaimed[s] \in Nat
      BY <1>1, SidesAre DEF Position
    <3> QED
      BY <3>1, LiquidityAssumption
  <2>3. growth'[s] - positions[p].last[s] = e + d
    <3>1. growth[s] \in Nat /\ positions[p].last[s] \in Nat
      BY <1>1, SidesAre DEF Position, TypeOK
    <3> QED
      BY <3>1
  <2>4. g[p] = m * (e + d) + u /\ f[p] = m * e + u /\ k[p] = m * d
    BY <1>2, <1>3, <1>5, <2>3 DEF Weight
  <2> HIDE DEF e, m, u, f, g, k
  <2>5. m * (e + d) = m * e + m * d /\ m * e \in Nat /\ m * d \in Nat
    BY <2>1
  <2> QED
    BY <2>2, <2>4, <2>5
<1> HIDE DEF f, g, l, k
<1>7. \A p \in D : f[p] \in Nat /\ l[p] \in Nat
  BY <1>2
<1>8. \A p \in D : k[p] = l[p] * d
  BY <1>5
<1>9. Total(g, D) = Total(f, D) + Total(k, D)
  <2>1. \A p \in D : f[p] \in Nat /\ k[p] \in Nat /\ g[p] = f[p] + k[p]
    BY <1>5, <1>6, <1>7
  <2> QED
    BY <1>1, <2>1, TotalPlus
<1>10. Total(k, D) <= Total(l, D) * d
  BY <1>1, <1>7, <1>8, TotalTimes
<1>11. Total(f, D) \in Nat /\ Total(k, D) \in Nat /\ Total(l, D) \in Nat
  BY <1>1, <1>5, <1>7, TotalType
<1>12. Total(l, D) * d \in Nat
  BY <1>11
<1> QED
  BY <1>4, <1>9, <1>10, <1>11, <1>12
-----------------------------------------------------------------------------
(* The invariant over steps of one kind. *)

\* The flags keep their meaning in every step.
PausesTyped == {paused, auto, closed} \subseteq BOOLEAN /\ AutoPauses

LEMMA PausesStep ==
  ASSUME TypeOK, AutoPauses, [Next]_vars
  PROVE  PausesTyped'
<1>1. /\ paused \in BOOLEAN /\ auto \in BOOLEAN /\ closed \in BOOLEAN
      /\ closed => paused
      /\ auto => paused /\ ~closed
  BY DEF TypeOK, AutoPauses
<1>2. ASSUME UNCHANGED pauseVars PROVE PausesTyped'
  BY <1>1, <1>2 DEF pauseVars, PausesTyped, AutoPauses
<1>3. ASSUME MaybeAutoPause PROVE PausesTyped'
  <2>1. CASE UNCHANGED pauseVars
    BY <1>2, <2>1
  <2>2. CASE ~paused /\ paused' = TRUE /\ auto' = TRUE /\ UNCHANGED closed
    BY <1>1, <2>2 DEF PausesTyped, AutoPauses
  <2> QED
    BY <1>3, <2>1, <2>2 DEF MaybeAutoPause
<1>4. ASSUME MaybeReopen PROVE PausesTyped'
  <2>1. CASE UNCHANGED pauseVars
    BY <1>2, <2>1
  <2>2. CASE auto /\ paused' = FALSE /\ auto' = FALSE /\ UNCHANGED closed
    BY <1>1, <2>2 DEF PausesTyped, AutoPauses
  <2> QED
    BY <1>4, <2>1, <2>2 DEF MaybeReopen
<1>5. ASSUME NEW b \in BOOLEAN, paused' = b, auto' = FALSE, closed' = b
      PROVE  PausesTyped'
  BY <1>5 DEF PausesTyped, AutoPauses
<1>6. CASE UNCHANGED vars
  BY <1>2, <1>6 DEF vars
<1>7. CASE Provide
  <2>1. CASE MaybeReopen
    BY <1>4, <2>1
  <2>2. CASE UNCHANGED pauseVars
    BY <1>2, <2>2
  <2> QED
    BY <1>7, <2>1, <2>2 DEF Provide, Deposit, AddToPosition
<1>8. CASE Withdraw
  <2>1. CASE MaybeAutoPause
    BY <1>3, <2>1
  <2>2. CASE UNCHANGED pauseVars
    BY <1>2, <2>2
  <2> QED
    BY <1>8, <2>1, <2>2 DEF Withdraw, CollectFees, RemoveAllLiquidity, Removes,
         RemovePartialLiquidity, ClaimEmergencyShare
<1>9. CASE TradeOrGive
  BY <1>2, <1>9 DEF TradeOrGive, Gift, Swap
<1>10. CASE Administer
  BY <1>2, <1>5, <1>10 DEF Administer, Pause, Unpause, EmergencyInitiate,
       CancelEmergencyWithdraw, EmergencyDrain, SweepUnclaimedEmergencyShares,
       FlagCleared
<1>11. CASE ClaimCreatorFees \/ Tick
  BY <1>2, <1>11 DEF ClaimCreatorFees, Tick
<1> QED
  BY <1>6, <1>7, <1>8, <1>9, <1>10, <1>11 DEF Next

\* What can be removed of a position never is all the liquidity there is.
LEMMA LeavesSome ==
  ASSUME IInv, ~drained, NEW p \in DOMAIN positions, NEW a \in Nat,
         a <= Removable(positions[p])
  PROVE  a < total
<1> DEFINE D == DOMAIN positions
           f == Liquidities
<1>1. /\ IsFiniteSet(D) /\ \A r \in D : positions[r] \in Position
      /\ D = 1 .. Len(positions) /\ Len(positions) \in Nat
  BY DomainFinite DEF IInv
<1>2. \A r \in D : /\ f[r] = positions[r].liquidity /\ f[r] \in Nat
                   /\ positions[r].locked \in Nat /\ positions[r].locked <= f[r]
  BY <1>1, WeightTypes DEF IInv, PositionsSane, Position
<1>3. /\ Total(f, D) <= total /\ total \in Nat /\ Total(f, D) \in Nat
      /\ applyDust => Total(f, D) < total
      /\ ~applyDust /\ positions # <<>> => positions[1].locked > 0
  BY SumTypes DEF IInv, LiquidityOwned, TypeOK
<1>4. a <= f[p] - positions[p].locked /\ a <= f[p]
  BY <1>2 DEF Removable
<1> HIDE DEF f
<1>5. f[p] <= Total(f, D)
  <2>1. \A r \in D : f[r] \in Nat
    BY <1>2
  <2> HIDE DEF D
  <2> QED
    BY <1>1, <2>1, TotalChange DEF D
<1>6. CASE applyDust
  BY <1>2, <1>3, <1>4, <1>5, <1>6
<1>7. CASE ~applyDust
  <2>1. 1 \in D /\ positions[1].locked > 0
    <3>1. positions # <<>> /\ 1 \in D
      BY <1>1
    <3> QED
      BY <1>3, <1>7, <3>1
  <2>2. CASE p = 1
    BY <1>2, <1>3, <1>4, <1>5, <2>1, <2>2
  <2>3. CASE p # 1
    <3> DEFINE g == [r \in D |-> IF r = p THEN 0 ELSE f[r]]
    <3>1. /\ \A r \in D : f[r] \in Nat /\ g[r] \in Nat
          /\ \A r \in D : r # p => g[r] = f[r]
          /\ g[p] = 0 /\ g[1] = f[1]
      BY <1>2, <2>1, <2>3
    <3>2. IsFiniteSet(D) /\ 1 \in D /\ p \in D
      BY <1>1, <2>1
    <3>3. f[1] \in Nat /\ f[1] > 0 /\ f[p] \in Nat
      BY <1>2, <2>1, <3>2
    <3> HIDE DEF g, D
    <3>4. Total(g, D) + f[p] = Total(f, D) + g[p] /\ Total(g, D) \in Nat
      BY <3>1, <3>2, TotalChange
    <3>5. g[1] <= Total(g, D)
      BY <3>1, <3>2, TotalChange
    <3>6. f[p] < Total(f, D)
      BY <1>3, <3>1, <3>3, <3>4, <3>5
    <3> QED
      BY <1>3, <1>4, <3>3, <3>6
  <2> QED
    BY <2>2, <2>3
<1> QED
  BY <1>6, <1>7

\* One position becomes q in an open pool, by a deposit into it, a removal or a
\* collection: in comes in, out goes out, owed is paid to it in fees and clip
\* goes to the creator.
PositionMoves(p, q, owed, clip, in, out) ==
  /\ positions' = [positions EXCEPT ![p] = q]
  /\ UNCHANGED <<applyDust, growth, pending, snapshot>>
  /\ q.last = growth /\ q.locked = positions[p].locked /\ q.locked <= q.liquidity
  /\ \A s \in Sides : /\ owed[s] + clip[s] <= feeReserve[s]
                      /\ Weight(q, s) + Unit * (owed[s] + clip[s])
                           <= Weight(positions[p], s)
  /\ feeReserve' = Less(Less(feeReserve, owed), clip) /\ pot' = Plus(pot, clip)
  /\ reserve' \in [Sides -> Int] /\ bank' \in [Sides -> Int]
  /\ \A s \in Sides : /\ out[s] <= reserve[s]
                      /\ reserve'[s] = reserve[s] + in[s] - out[s]
                      /\ reserve'[s] > 0
                      /\ bank'[s] = bank[s] + in[s] - out[s] - owed[s]
  /\ total' = total + q.liquidity - positions[p].liquidity /\ total' > 0

LEMMA MoveKeeps ==
  ASSUME IInv, ~drained, PausesTyped',
         NEW p \in DOMAIN positions, NEW q \in Position,
         NEW owed \in PerSide, NEW clip \in PerSide,
         NEW in \in PerSide, NEW out \in PerSide,
         PositionMoves(p, q, owed, clip, in, out)
  PROVE  IInv'
<1> USE DEF PositionMoves
<1>1. TypeOK /\ PositionsSane /\ LiquidityOwned /\ FeesWeighed /\ Backed
  BY DEF IInv
<1>2. \A s \in Sides : q.last[s] <= growth[s]
  BY <1>1, SidesAre DEF TypeOK
<1>3. /\ positions' \in Seq(Position) /\ DOMAIN positions' = DOMAIN positions
      /\ Len(positions') = Len(positions)
      /\ positions'[p] = q
      /\ \A r \in DOMAIN positions : r # p => positions'[r] = positions[r]
      /\ SumOver(Liquidities)' + positions[p].liquidity
           = SumOver(Liquidities) + q.liquidity
      /\ \A s \in Sides : SumOver(Weights(s))' + Weight(positions[p], s)
                            = SumOver(Weights(s)) + Weight(q, s)
      /\ SumOver(Liquidities)' \in Nat
      /\ \A s \in Sides : SumOver(Weights(s))' \in Nat
  BY <1>1, <1>2, PositionBecomes
<1>4. ~drained' /\ applyDust' = applyDust
  BY DEF drained
<1>5. /\ reserve \in PerSide /\ feeReserve \in PerSide /\ pot \in PerSide
      /\ bank \in PerSide /\ total \in Nat
      /\ positions[p] \in Position /\ Unit \in Nat
  BY <1>1, DomainFinite, LiquidityAssumption DEF TypeOK
<1>6. /\ pot' \in PerSide /\ feeReserve' \in PerSide
      /\ \A s \in Sides : /\ feeReserve'[s] = feeReserve[s] - owed[s] - clip[s]
                          /\ pot'[s] = pot[s] + clip[s]
  <2>1. Less(feeReserve, owed) \in PerSide
    BY <1>5, PlusLess, SidesAre
  <2> QED
    BY <1>5, <2>1, PlusLess, SidesAre
<1>7. /\ \A s \in Sides : bank[s] >= reserve[s] + feeReserve[s] + pot[s]
      /\ \A s \in Sides : /\ bank'[s] \in Nat /\ reserve'[s] \in Nat
                          /\ bank'[s] >= reserve'[s] + feeReserve'[s] + pot'[s]
  <2>1. \A s \in Sides : bank[s] >= reserve[s] + feeReserve[s] + pot[s]
    BY <1>1, <1>5, PlusLess, SidesAre DEF Backed, Booked
  <2> QED
    BY <1>5, <1>6, <2>1, SidesAre
<1>8. reserve' \in PerSide /\ bank' \in PerSide
  BY <1>7 DEF PerSide
<1>9. total' \in Nat
  <2>1. q.liquidity \in Nat /\ positions[p].liquidity \in Nat
    BY <1>5 DEF Position
  <2> QED
    BY <1>5, <2>1
<1>10. TypeOK'
  BY <1>1, <1>3, <1>6, <1>8, <1>9 DEF TypeOK, PausesTyped
<1>11. PositionsSane'
  <2>1. \A r \in DOMAIN positions :
          /\ \A s \in Sides : positions'[r].last[s] <= growth[s]
          /\ positions'[r].locked <= positions'[r].liquidity
    BY <1>1, <1>2, <1>3 DEF PositionsSane
  <2> QED
    BY <1>3, <2>1 DEF PositionsSane
<1>12. LiquidityOwned'
  <2>1. q.liquidity \in Nat /\ positions[p].liquidity \in Nat
    BY <1>5 DEF Position
  <2>2. SumOver(Liquidities) \in Nat
    BY <1>1, SumTypes
  <2>3. /\ SumOver(Liquidities)' <= total'
        /\ applyDust' => SumOver(Liquidities)' < total'
    <3>1. /\ SumOver(Liquidities) <= total
          /\ applyDust => SumOver(Liquidities) < total
      BY <1>1 DEF LiquidityOwned
    <3> QED
      BY <1>3, <1>4, <1>5, <2>1, <2>2, <3>1
  <2>4. ~applyDust' => positions' # <<>> /\ positions'[1].locked > 0
    <3> SUFFICES ASSUME ~applyDust PROVE positions' # <<>> /\ positions'[1].locked > 0
      BY <1>4
    <3>1. positions[1].locked > 0 /\ 1 \in DOMAIN positions
      <4>1. Len(positions) \in Nat /\ DOMAIN positions = 1 .. Len(positions)
        BY <1>1, DomainFinite
      <4>2. 1 \in DOMAIN positions /\ positions # <<>>
        BY <4>1
      <4> QED
        BY <1>1, <4>2 DEF LiquidityOwned
    <3> QED
      BY <1>3, <3>1
  <2> QED
    BY <1>4, <2>3, <2>4 DEF LiquidityOwned
<1>13. FeesWeighed'
  <2> SUFFICES ASSUME NEW s \in Sides
               PROVE  SumOver(Weights(s))' <= Unit * feeReserve'[s]
    BY DEF FeesWeighed
  <2> DEFINE o == owed[s] + clip[s]
             r == feeReserve[s]
             w == SumOver(Weights(s))
             x == SumOver(Weights(s))'
             y == Weight(positions[p], s)
             z == Weight(q, s)
  <2>1. o \in Nat /\ r \in Nat /\ o <= r /\ feeReserve'[s] = r - o
    BY <1>5, <1>6, SidesAre
  <2>2. w \in Nat /\ x \in Nat /\ w <= Unit * r /\ x + y = w + z /\ z + Unit * o <= y
    BY <1>1, <1>3, SumTypes DEF FeesWeighed
  <2>3. y \in Int /\ z \in Int
    <3>1. Weights(s)[p] = Weight(positions[p], s) /\ Weights(s)[p] \in Nat
      BY <1>1, WeightTypes
    <3>2. growth[s] \in Nat /\ q.liquidity \in Nat /\ q.unclaimed[s] \in Nat
      BY <1>1, SidesAre DEF TypeOK, Position
    <3>3. Weight(q, s) = q.liquidity * (growth[s] - growth[s]) + Unit * q.unclaimed[s]
      BY DEF Weight
    <3>4. q.liquidity * (growth[s] - growth[s]) \in Int /\ Unit * q.unclaimed[s] \in Int
      BY <1>5, <3>2
    <3> QED
      BY <3>1, <3>3, <3>4
  <2> HIDE DEF o, r, w, x, y, z
  <2>4. Unit * (r - o) = Unit * r - Unit * o /\ Unit * r \in Int /\ Unit * o \in Int
    BY <1>5, <2>1
  <2>5. x <= Unit * (r - o)
    BY <2>2, <2>3, <2>4
  <2> QED
    BY <2>1, <2>5 DEF x, r, o
<1>14. DrainedIsEmpty' /\ EscrowCovers'
  BY <1>4 DEF DrainedIsEmpty, EscrowCovers
<1>15. Backed'
  <2>1. \A s \in Sides : Booked'[s] = reserve'[s] + feeReserve'[s] + pot'[s]
    BY DEF Booked, Plus
  <2> QED
    BY <1>4, <1>6, <1>7, <1>8, <2>1, SidesAre DEF Backed
<1> QED
  BY <1>10, <1>11, <1>12, <1>13, <1>14, <1>15 DEF IInv, PausesTyped
-----------------------------------------------------------------------------
(* Deposits. *)

LEMMA TakenType ==
  ASSUME TypeOK, NEW offer \in PerSide
  PROVE  TakenOf(offer) \in PerSide
<1>1. reserve \in PerSide
  BY DEF TypeOK
<1>2. CASE \E s \in Sides : reserve[s] = 0
  BY <1>2 DEF TakenOf
<1>3. CASE ~\E s \in Sides : reserve[s] = 0
  <2> DEFINE m0 == (reserve[1] * offer[0]) \div reserve[0]
             m1 == (reserve[0] * offer[1]) \div reserve[1]
  <2>1. /\ reserve[0] \in Nat \ {0} /\ reserve[1] \in Nat \ {0}
        /\ offer[0] \in Nat /\ offer[1] \in Nat
    BY <1>1, <1>3, SidesAre
  <2>2. reserve[1] * offer[0] \in Nat /\ reserve[0] * offer[1] \in Nat
    BY <2>1
  <2>3. m0 \in Nat /\ m1 \in Nat
    BY <2>1, <2>2, Quotients
  <2>4. TakenOf(offer) = IF m0 <= offer[1] THEN [offer EXCEPT ![1] = m0]
                         ELSE [offer EXCEPT ![0] = m1]
    BY <1>3 DEF TakenOf, Other
  <2> HIDE DEF m0, m1
  <2> QED
    BY <2>3, <2>4 DEF PerSide
<1> QED
  BY <1>2, <1>3

\* The liquidity of a deposit is worth at most what was taken for it.
LEMMA LiquidityFacts ==
  ASSUME TypeOK, LiquidityOwned, ~drained, NEW taken \in PerSide
  PROVE  /\ LiquidityFor(taken) \in Nat
         /\ total > 0 => \A s \in Sides :
                           reserve[s] * LiquidityFor(taken) <= total * taken[s]
<1> DEFINE root == IntegerSqrt(taken[0] * taken[1])
           liquidity == LiquidityFor(taken)
<1>1. /\ reserve \in PerSide /\ total \in Nat
      /\ taken[0] \in Nat /\ taken[1] \in Nat
      /\ reserve[0] \in Nat /\ reserve[1] \in Nat
  BY SidesAre DEF TypeOK
<1>2. taken[0] * taken[1] \in Nat
  BY <1>1
<1>3. root \in Nat
  BY <1>2, RootType
<1>4. CASE total = 0
  BY <1>3, <1>4 DEF LiquidityFor
<1>5. CASE total # 0
  <2> DEFINE s0 == (total * taken[0]) \div reserve[0]
             s1 == (total * taken[1]) \div reserve[1]
  <2>1. reserve[0] > 0 /\ reserve[1] > 0
    BY <1>1, <1>5, SidesAre DEF LiquidityOwned
  <2>2. /\ total * taken[0] \in Nat /\ total * taken[1] \in Nat
        /\ reserve[0] \in Nat \ {0} /\ reserve[1] \in Nat \ {0}
    BY <1>1, <2>1
  <2>3. /\ s0 \in Nat /\ reserve[0] * s0 <= total * taken[0]
        /\ s1 \in Nat /\ reserve[1] * s1 <= total * taken[1]
    BY <2>2, Quotients
  <2>4. \A s \in Sides : reserve[s] # 0
    BY <2>1 DEF Sides
  <2>5. liquidity = Least(s0, s1)
    BY <1>5, <2>4 DEF LiquidityFor
  <2> HIDE DEF s0, s1, liquidity
  <2>6. liquidity \in Nat /\ liquidity <= s0 /\ liquidity <= s1
    BY <2>3, <2>5 DEF Least
  <2>7. /\ reserve[0] * liquidity <= reserve[0] * s0
        /\ reserve[1] * liquidity <= reserve[1] * s1
    BY <1>1, <2>3, <2>6
  <2>8. /\ reserve[0] * liquidity \in Nat /\ reserve[0] * s0 \in Nat
        /\ reserve[1] * liquidity \in Nat /\ reserve[1] * s1 \in Nat
    BY <1>1, <2>3, <2>6
  <2>9. /\ reserve[0] * liquidity <= total * taken[0]
        /\ reserve[1] * liquidity <= total * taken[1]
    BY <2>2, <2>3, <2>7, <2>8
  <2> QED
    BY <2>6, <2>9 DEF liquidity, Sides
<1> QED
  BY <1>4, <1>5

\* What the balance check lets pass is exactly what was taken.
LEMMA DeliveredExactly ==
  ASSUME TypeOK, NEW taken \in PerSide, NEW paid \in PerSide, NEW got,
         got \in Deliveries(taken), NetBalanceHolds(taken, paid),
         \A s \in Sides : bank'[s] = bank[s] + got[s] - paid[s]
  PROVE  \A s \in Sides : got[s] = taken[s]
<1> SUFFICES ASSUME NEW s \in Sides PROVE got[s] = taken[s]
  OBVIOUS
<1>1. taken[s] \in Nat /\ paid[s] \in Nat /\ bank[s] \in Nat
  BY SidesAre DEF TypeOK
<1>2. PICK skew \in [Sides -> Skews] :
        got = [r \in Sides |-> IF r \in Cw20Sides THEN taken[r] + skew[r] ELSE taken[r]]
  BY DEF Deliveries
<1>3. CASE s \notin Cw20Sides
  BY <1>2, <1>3
<1>4. CASE s \in Cw20Sides
  <2>1. skew[s] \in Int /\ got[s] = taken[s] + skew[s]
    BY <1>2, <1>4, LiquidityAssumption
  <2>2. bank'[s] + paid[s] = bank[s] + taken[s]
    BY <1>4 DEF NetBalanceHolds
  <2> QED
    BY <1>1, <2>1, <2>2
<1> QED
  BY <1>3, <1>4

LEMMA MultiplierInRange ==
  ASSUME NEW liquidity \in Nat
  PROVE  EffectiveMultiplier(liquidity) \in 0 .. Unit
<1>1. FeeSizeMultiplier(liquidity) \in 0 .. Unit
  BY MultiplierType
<1>2. Unit \in 0 .. Unit
  BY LiquidityAssumption
<1> QED
  BY <1>1, <1>2 DEF EffectiveMultiplier

LEMMA DepositStep ==
  ASSUME IInv, PausesTyped', NEW offer \in Offers,
         NEW got \in Deliveries(TakenOf(offer)), Deposit(offer, got)
  PROVE  IInv'
<1>1. TypeOK /\ PositionsSane /\ LiquidityOwned /\ FeesWeighed /\ Backed /\ ~drained
  BY DEF IInv, Deposit, WritableForDeposit
<1> DEFINE t == TakenOf(offer)
           l == LiquidityFor(t)
           q == [liquidity |-> l, last |-> growth, multiplier |-> EffectiveMultiplier(l),
                 unclaimed |-> Zero, locked |-> IF EmptyPool THEN MinLiquidity ELSE 0]
           n == Len(positions)
<1>2. t \in PerSide
  <2>1. offer \in PerSide
    BY LiquidityAssumption
  <2> QED
    BY <1>1, <2>1, TakenType
<1>3. /\ Acceptable(t, l)
      /\ reserve' = Plus(reserve, t) /\ total' = total + l
      /\ positions' = Append(positions, q)
      /\ bank' = Plus(bank, got) /\ NetBalanceHolds(t, Zero)
      /\ UNCHANGED <<applyDust, feeReserve, growth, pot, pending, snapshot>>
  BY DEF Deposit
<1>4. l \in Nat
  BY <1>1, <1>2, LiquidityFacts
<1>5. /\ l > 0 /\ (\A s \in Sides : t[s] > 0)
      /\ reserve = Zero => l > MinLiquidity
  BY <1>3 DEF Acceptable
<1> HIDE DEF l, t
<1>6. q \in Position /\ q.last = growth /\ q.unclaimed = Zero /\ q.locked <= q.liquidity
      /\ q.liquidity = l /\ (EmptyPool => q.locked > 0)
  <2>1. EffectiveMultiplier(l) \in 0 .. Unit
    BY <1>4, MultiplierInRange
  <2>2. growth \in PerSide /\ Zero \in PerSide /\ MinLiquidity \in Nat \ {0}
    BY <1>1, SidesAre, LiquidityAssumption DEF TypeOK
  <2>3. EmptyPool => MinLiquidity <= l
    BY <1>4, <1>5, <2>2 DEF EmptyPool
  <2> QED
    BY <1>4, <2>1, <2>2, <2>3 DEF Position
<1> HIDE DEF q
<1>7. /\ positions' \in Seq(Position) /\ n \in Nat
      /\ DOMAIN positions' = 1 .. n + 1 /\ DOMAIN positions = 1 .. n
      /\ positions'[n + 1] = q
      /\ \A r \in 1 .. n : positions'[r] = positions[r]
      /\ SumOver(Liquidities)' = SumOver(Liquidities) + l
      /\ \A s \in Sides : SumOver(Weights(s))' = SumOver(Weights(s))
  BY <1>1, <1>3, <1>6, PositionAdded, DomainFinite
<1>8. ~drained' /\ applyDust' = applyDust
  BY <1>1, <1>3 DEF drained
<1>9. /\ reserve \in PerSide /\ feeReserve \in PerSide /\ pot \in PerSide
      /\ bank \in PerSide /\ total \in Nat /\ growth \in PerSide
  BY <1>1 DEF TypeOK
<1>10. \A s \in Sides : got[s] = t[s]
  <2>1. \A s \in Sides : bank'[s] = bank[s] + got[s] - Zero[s]
    <3> SUFFICES ASSUME NEW s \in Sides PROVE bank'[s] = bank[s] + got[s] - Zero[s]
      OBVIOUS
    <3>1. PICK skew \in [Sides -> Skews] :
            got = [r \in Sides |-> IF r \in Cw20Sides THEN t[r] + skew[r] ELSE t[r]]
      BY DEF Deliveries, t
    <3>2. got[s] \in Int /\ bank[s] \in Int
      <4>1. t[s] \in Int /\ skew[s] \in Int /\ bank[s] \in Int
        <5>1. skew[s] \in Skews /\ Skews \subseteq Int
          BY LiquidityAssumption
        <5>2. t[s] \in Nat /\ bank[s] \in Nat
          BY <1>2, <1>9, SidesAre
        <5>3. skew[s] \in Int
          BY <5>1
        <5>4. \A x \in Nat : x \in Int
          OBVIOUS
        <5> QED
          BY <5>2, <5>3, <5>4
      <4>2. got[s] = IF s \in Cw20Sides THEN t[s] + skew[s] ELSE t[s]
        BY <3>1
      <4> QED
        BY <4>1, <4>2
    <3> QED
      BY <1>3, <3>2, SidesAre DEF Plus
  <2>2. got \in Deliveries(t)
    BY DEF t
  <2> QED
    BY <1>1, <1>2, <1>3, <2>1, <2>2, SidesAre, DeliveredExactly
<1>11. \A s \in Sides : /\ reserve'[s] = reserve[s] + t[s]
                        /\ bank'[s] = bank[s] + t[s]
                        /\ reserve'[s] \in Nat /\ bank'[s] \in Nat /\ reserve'[s] > 0
  BY <1>2, <1>3, <1>5, <1>9, <1>10, SidesAre DEF Plus
<1>12. reserve' \in PerSide /\ bank' \in PerSide /\ total' \in Nat /\ total' > 0
  BY <1>3, <1>4, <1>5, <1>9, <1>11 DEF Plus, PerSide
<1>13. TypeOK'
  BY <1>1, <1>3, <1>7, <1>12 DEF TypeOK, PausesTyped
<1>14. PositionsSane'
  <2>1. \A r \in 1 .. n :
          /\ \A s \in Sides : positions'[r].last[s] <= growth[s]
          /\ positions'[r].locked <= positions'[r].liquidity
    BY <1>1, <1>7 DEF PositionsSane
  <2>2. \A s \in Sides : q.last[s] <= growth[s]
    BY <1>6, <1>9, SidesAre
  <2>3. \A r \in 1 .. n + 1 : r \in 1 .. n \/ r = n + 1
    BY <1>7
  <2> QED
    BY <1>3, <1>6, <1>7, <2>1, <2>2, <2>3 DEF PositionsSane
<1>15. LiquidityOwned'
  <2>1. SumOver(Liquidities) \in Nat
    BY <1>1, SumTypes
  <2>2. /\ SumOver(Liquidities)' <= total'
        /\ applyDust' => SumOver(Liquidities)' < total'
    <3>1. /\ SumOver(Liquidities) <= total
          /\ applyDust => SumOver(Liquidities) < total
      BY <1>1 DEF LiquidityOwned
    <3> QED
      BY <1>3, <1>4, <1>7, <1>8, <1>9, <2>1, <3>1
  <2>3. ~applyDust' => positions' # <<>> /\ positions'[1].locked > 0
    <3>1. 1 \in DOMAIN positions'
      BY <1>7
    <3>2. CASE positions = <<>>
      <4>1. n = 0
        BY <1>1, <1>7, <3>2, EmptySeq DEF TypeOK
      <4>2. ~applyDust => EmptyPool
        BY <1>1, <3>2 DEF LiquidityOwned, EmptyPool
      <4>3. n + 1 = 1 /\ positions' # <<>>
        BY <3>1, <4>1
      <4>4. positions'[1] = q
        BY <1>7, <4>3
      <4> QED
        BY <1>6, <1>8, <4>2, <4>3, <4>4
    <3>3. CASE positions # <<>>
      <4>1. n # 0
        BY <1>1, <1>7, <3>3, EmptySeq DEF TypeOK
      <4>2. 1 \in 1 .. n
        BY <1>7, <4>1
      <4> QED
        BY <1>1, <1>7, <1>8, <3>1, <3>3, <4>2 DEF LiquidityOwned
    <3> QED
      BY <3>2, <3>3
  <2> QED
    BY <1>11, <1>12, <2>2, <2>3 DEF LiquidityOwned
<1>16. FeesWeighed'
  BY <1>1, <1>3, <1>7 DEF FeesWeighed
<1>17. DrainedIsEmpty' /\ EscrowCovers'
  BY <1>8 DEF DrainedIsEmpty, EscrowCovers
<1>18. Backed'
  <2>1. \A s \in Sides : /\ Booked'[s] = reserve'[s] + feeReserve'[s] + pot'[s]
                         /\ bank[s] >= reserve[s] + feeReserve[s] + pot[s]
    BY <1>1, <1>9, SidesAre DEF Backed, Booked, Plus
  <2>2. ASSUME NEW s \in Sides PROVE Booked'[s] \in Int /\ bank'[s] >= Booked'[s]
    <3>1. /\ bank[s] \in Nat /\ reserve[s] \in Nat /\ feeReserve[s] \in Nat
          /\ pot[s] \in Nat /\ t[s] \in Nat
      BY <1>2, <1>9, SidesAre
    <3> QED
      BY <1>3, <1>11, <2>1, <3>1
  <2> QED
    BY <1>8, <2>2 DEF Backed
<1> QED
  BY <1>13, <1>14, <1>15, <1>16, <1>17, <1>18 DEF IInv, PausesTyped
\* A position that was settled weighs nothing.
LEMMA SettledFacts ==
  ASSUME TypeOK, NEW p \in DOMAIN positions, NEW l \in Nat
  PROVE  /\ Settled(positions[p], l) \in Position
         /\ Settled(positions[p], l).last = growth
         /\ Settled(positions[p], l).locked = positions[p].locked
         /\ Settled(positions[p], l).liquidity = l
         /\ \A s \in Sides : Weight(Settled(positions[p], l), s) = 0
<1> DEFINE q == Settled(positions[p], l)
<1>1. positions[p] \in Position /\ growth \in PerSide
  BY DomainFinite DEF TypeOK
<1>2. EffectiveMultiplier(l) \in 0 .. Unit
  BY MultiplierInRange
<1>3. /\ q \in Position /\ q.last = growth /\ q.locked = positions[p].locked
      /\ q.liquidity = l /\ q.unclaimed = Zero
  BY <1>1, <1>2, SidesAre DEF Settled, Position
<1> HIDE DEF q
<1>4. ASSUME NEW s \in Sides PROVE Weight(q, s) = 0
  <2>1. growth[s] - growth[s] = 0
    BY <1>1, SidesAre
  <2>2. l * 0 = 0 /\ Unit * 0 = 0
    BY LiquidityAssumption
  <2>3. Weight(q, s) = l * (growth[s] - growth[s]) + Unit * 0
    BY <1>3, SidesAre DEF Weight
  <2> QED
    BY <2>1, <2>2, <2>3
<1> QED
  BY <1>3, <1>4 DEF q

LEMMA AddStep ==
  ASSUME IInv, PausesTyped', NEW p \in DOMAIN positions, NEW offer \in Offers,
         NEW got \in Deliveries(TakenOf(offer)), AddToPosition(p, offer, got)
  PROVE  IInv'
<1>1. TypeOK /\ PositionsSane /\ LiquidityOwned /\ ~drained
  BY DEF IInv, AddToPosition, WritableForDeposit
<1> DEFINE t == TakenOf(offer)
           l == LiquidityFor(t)
           pos == positions[p]
           q == Settled(pos, pos.liquidity + l)
           owed == FeesOwed(pos)
           clip == Clipped(pos)
<1>2. t \in PerSide
  <2>1. offer \in PerSide
    BY LiquidityAssumption
  <2> QED
    BY <1>1, <2>1, TakenType
<1>3. /\ Acceptable(t, l)
      /\ feeReserve' = Less(Less(feeReserve, owed), clip) /\ pot' = Plus(pot, clip)
      /\ reserve' = Plus(reserve, t) /\ total' = total + l
      /\ positions' = [positions EXCEPT ![p] = q]
      /\ bank' = Less(Plus(bank, got), owed) /\ NetBalanceHolds(t, owed)
      /\ UNCHANGED <<applyDust, growth, pending, snapshot>>
  BY DEF AddToPosition, Settles
<1>4. l \in Nat
  BY <1>1, <1>2, LiquidityFacts
<1>5. l > 0 /\ \A s \in Sides : t[s] > 0
  BY <1>3 DEF Acceptable
<1>6. got \in Deliveries(t)
  OBVIOUS
<1>7. /\ owed \in PerSide /\ clip \in PerSide
      /\ \A s \in Sides : /\ owed[s] + clip[s] <= feeReserve[s]
                          /\ Unit * (owed[s] + clip[s]) <= Weight(pos, s)
  BY <1>1, CollectFacts
<1>8. /\ pos \in Position /\ pos.liquidity \in Nat /\ pos.locked \in Nat
      /\ pos.locked <= pos.liquidity
  BY <1>1, DomainFinite DEF Position, PositionsSane
<1> HIDE DEF l, t
<1>9. /\ q \in Position /\ q.last = growth /\ q.locked = pos.locked
      /\ q.liquidity = pos.liquidity + l
      /\ \A s \in Sides : Weight(q, s) = 0
  <2>1. pos.liquidity + l \in Nat
    BY <1>4, <1>8
  <2> QED
    BY <1>1, <2>1, SettledFacts
<1>10. /\ reserve \in PerSide /\ bank \in PerSide /\ total \in Nat
  BY <1>1 DEF TypeOK
<1> HIDE DEF q, owed, clip
<1>11. \A s \in Sides : got[s] \in Int
  <2> SUFFICES ASSUME NEW s \in Sides PROVE got[s] \in Int
    OBVIOUS
  <2>1. PICK skew \in [Sides -> Skews] :
          got = [r \in Sides |-> IF r \in Cw20Sides THEN t[r] + skew[r] ELSE t[r]]
    BY <1>6 DEF Deliveries
  <2>2. skew[s] \in Int
    BY LiquidityAssumption
  <2>3. t[s] \in Int
    BY <1>2, SidesAre
  <2>4. got[s] = IF s \in Cw20Sides THEN t[s] + skew[s] ELSE t[s]
    BY <2>1
  <2> QED
    BY <2>2, <2>3, <2>4
<1>12. \A s \in Sides : got[s] = t[s]
  <2>1. \A s \in Sides : bank'[s] = bank[s] + got[s] - owed[s]
    <3>1. bank' = [s \in Sides |-> (bank[s] + got[s]) - owed[s]]
      BY <1>3 DEF Plus, Less
    <3>2. ASSUME NEW s \in Sides PROVE bank'[s] = bank[s] + got[s] - owed[s]
      BY <1>7, <1>10, <1>11, <3>1, SidesAre
    <3> QED
      BY <3>2
  <2> QED
    BY <1>1, <1>2, <1>3, <1>6, <1>7, <2>1, DeliveredExactly
<1>13. /\ reserve' \in [Sides -> Int] /\ bank' \in [Sides -> Int]
       /\ \A s \in Sides : /\ Zero[s] <= reserve[s]
                           /\ reserve'[s] = reserve[s] + t[s] - Zero[s]
                           /\ reserve'[s] > 0
                           /\ bank'[s] = bank[s] + t[s] - Zero[s] - owed[s]
  <2>1. ASSUME NEW s \in Sides
        PROVE  /\ reserve[s] \in Nat /\ bank[s] \in Nat /\ t[s] \in Nat /\ owed[s] \in Nat
               /\ t[s] > 0 /\ Zero[s] = 0 /\ got[s] = t[s]
    BY <1>2, <1>5, <1>7, <1>10, <1>12, SidesAre
  <2>2. /\ reserve' = [s \in Sides |-> reserve[s] + t[s]]
        /\ bank' = [s \in Sides |-> (bank[s] + got[s]) - owed[s]]
    BY <1>3 DEF Plus, Less
  <2>3. reserve' \in [Sides -> Int] /\ bank' \in [Sides -> Int]
    BY <2>1, <2>2
  <2> QED
    BY <2>1, <2>2, <2>3
<1>14. total' = total + q.liquidity - pos.liquidity /\ total' > 0
  BY <1>3, <1>4, <1>5, <1>8, <1>9, <1>10
<1>15. q.locked <= q.liquidity
  BY <1>4, <1>8, <1>9
<1>16. \A s \in Sides : Weight(q, s) + Unit * (owed[s] + clip[s]) <= Weight(pos, s)
  <2> SUFFICES ASSUME NEW s \in Sides
               PROVE  Weight(q, s) + Unit * (owed[s] + clip[s]) <= Weight(pos, s)
    OBVIOUS
  <2>1. Unit * (owed[s] + clip[s]) \in Int
    BY <1>7, SidesAre, LiquidityAssumption
  <2> QED
    BY <1>7, <1>9, <2>1
<1>17. PICK u \in Position, o \in PerSide, c \in PerSide, i \in PerSide :
         u = q /\ o = owed /\ c = clip /\ i = t
  BY <1>2, <1>7, <1>9
<1>18. PositionMoves(p, u, o, c, i, Zero)
  BY <1>3, <1>7, <1>9, <1>13, <1>14, <1>15, <1>16, <1>17 DEF PositionMoves
<1> QED
  BY <1>1, <1>18, SidesAre, MoveKeeps

-----------------------------------------------------------------------------
(* Collections and removals. *)

\* The share that leaves with a removal.
LEMMA RemovedShare ==
  ASSUME IInv, ~drained, NEW p \in DOMAIN positions, NEW a \in Nat,
         a <= Removable(positions[p])
  PROVE  /\ ShareOf(reserve, a, total) \in PerSide
         /\ \A s \in Sides : /\ ShareOf(reserve, a, total)[s] < reserve[s]
                             /\ (reserve[s] - ShareOf(reserve, a, total)[s]) * total
                                  >= reserve[s] * (total - a)
         /\ total - a > 0 /\ total > 0
<1>1. a < total /\ total \in Nat
  BY LeavesSome DEF IInv, TypeOK
<1>2. ASSUME NEW s \in Sides
      PROVE  /\ (reserve[s] * a) \div total \in Nat
             /\ (reserve[s] * a) \div total < reserve[s]
             /\ (reserve[s] - (reserve[s] * a) \div total) * total >= reserve[s] * (total - a)
  <2>1. reserve[s] \in Nat /\ reserve[s] > 0 /\ total \in Nat \ {0} /\ a <= total
    BY <1>1, SidesAre DEF IInv, TypeOK, LiquidityOwned
  <2> QED
    BY <1>1, <2>1, ShareBounds
<1> QED
  BY <1>1, <1>2 DEF ShareOf, PerSide

\* What can be removed of a position.
LEMMA RemovableType ==
  ASSUME IInv, ~drained, NEW p \in DOMAIN positions
  PROVE  /\ Removable(positions[p]) \in Nat
         /\ positions[p].liquidity \in Nat /\ positions[p].locked \in Nat
         /\ Removable(positions[p]) = positions[p].liquidity - positions[p].locked
<1>1. positions[p] \in Position /\ positions[p].locked <= positions[p].liquidity
  BY DomainFinite DEF IInv, PositionsSane
<1> QED
  BY <1>1 DEF Removable, Position

LEMMA CollectStep ==
  ASSUME IInv, PausesTyped', NEW p \in DOMAIN positions, CollectFees(p)
  PROVE  IInv'
<1>1. TypeOK /\ PositionsSane /\ LiquidityOwned /\ ~drained
  BY DEF IInv, CollectFees, WritableForRemove
<1> DEFINE pos == positions[p]
           q == [pos EXCEPT !.last = growth, !.unclaimed = Zero]
           owed == FeesOwed(pos)
           clip == Clipped(pos)
<1>2. /\ feeReserve' = Less(Less(feeReserve, owed), clip) /\ pot' = Plus(pot, clip)
      /\ positions' = [positions EXCEPT ![p] = q]
      /\ bank' = Less(bank, owed)
      /\ UNCHANGED <<applyDust, reserve, total, growth, pending, snapshot>>
  BY DEF CollectFees, Settles
<1>3. /\ owed \in PerSide /\ clip \in PerSide
      /\ \A s \in Sides : /\ owed[s] + clip[s] <= feeReserve[s]
                          /\ Unit * (owed[s] + clip[s]) <= Weight(pos, s)
  BY <1>1, CollectFacts
<1>4. /\ pos \in Position /\ pos.liquidity \in Nat /\ pos.locked \in Nat
      /\ pos.locked <= pos.liquidity /\ growth \in PerSide
  BY <1>1, DomainFinite DEF Position, PositionsSane, TypeOK
<1>5. /\ q \in Position /\ q.last = growth /\ q.locked = pos.locked
      /\ q.liquidity = pos.liquidity /\ q.unclaimed = Zero
  BY <1>4, SidesAre DEF Position
<1> HIDE DEF q, owed, clip
<1>6. ASSUME NEW s \in Sides PROVE Weight(q, s) = 0
  <2>1. growth[s] - growth[s] = 0
    BY <1>4, SidesAre
  <2>2. pos.liquidity * 0 = 0 /\ Unit * 0 = 0
    BY <1>4, LiquidityAssumption
  <2>3. Weight(q, s) = pos.liquidity * (growth[s] - growth[s]) + Unit * 0
    BY <1>5, SidesAre DEF Weight
  <2> QED
    BY <2>1, <2>2, <2>3
<1>7. total > 0 /\ total \in Nat
  <2>1. Removable(pos) \in Nat
    BY <1>1, RemovableType
  <2>2. 0 < total
    BY <1>1, <2>1, LeavesSome
  <2> QED
    BY <1>1, <2>2 DEF TypeOK
<1>8. /\ reserve' \in [Sides -> Int] /\ bank' \in [Sides -> Int]
      /\ \A s \in Sides : /\ Zero[s] <= reserve[s]
                          /\ reserve'[s] = reserve[s] + Zero[s] - Zero[s]
                          /\ reserve'[s] > 0
                          /\ bank'[s] = bank[s] + Zero[s] - Zero[s] - owed[s]
  <2>1. ASSUME NEW s \in Sides
        PROVE  /\ reserve[s] \in Nat /\ bank[s] \in Nat /\ owed[s] \in Nat
               /\ Zero[s] = 0 /\ reserve[s] > 0
    BY <1>1, <1>3, <1>7, SidesAre DEF TypeOK, LiquidityOwned
  <2>2. bank' = [s \in Sides |-> bank[s] - owed[s]]
    BY <1>2 DEF Less
  <2>3. reserve' \in [Sides -> Int] /\ bank' \in [Sides -> Int]
    BY <1>1, <1>2, <2>1, <2>2 DEF TypeOK, PerSide
  <2> QED
    BY <1>2, <2>1, <2>2, <2>3
<1>9. total' = total + q.liquidity - pos.liquidity /\ total' > 0
  BY <1>2, <1>4, <1>5, <1>7
<1>10. \A s \in Sides : Weight(q, s) + Unit * (owed[s] + clip[s]) <= Weight(pos, s)
  <2> SUFFICES ASSUME NEW s \in Sides
               PROVE  Weight(q, s) + Unit * (owed[s] + clip[s]) <= Weight(pos, s)
    OBVIOUS
  <2>1. Unit * (owed[s] + clip[s]) \in Int
    BY <1>3, SidesAre, LiquidityAssumption
  <2> QED
    BY <1>3, <1>6, <2>1
<1>11. PICK u \in Position, o \in PerSide, c \in PerSide :
         u = q /\ o = owed /\ c = clip
  BY <1>3, <1>5
<1>12. PositionMoves(p, u, o, c, Zero, Zero)
  BY <1>2, <1>3, <1>4, <1>5, <1>8, <1>9, <1>10, <1>11 DEF PositionMoves
<1> QED
  BY <1>1, <1>12, SidesAre, MoveKeeps
LEMMA RemoveAllStep ==
  ASSUME IInv, PausesTyped', NEW p \in DOMAIN positions, RemoveAllLiquidity(p)
  PROVE  IInv'
<1>1. TypeOK /\ PositionsSane /\ ~drained
  BY DEF IInv, RemoveAllLiquidity, Removes, WritableForRemove
<1> DEFINE pos == positions[p]
           a == Removable(pos)
           q == Settled(pos, pos.locked)
           owed == FeesOwed(pos)
           clip == Clipped(pos)
           out == ShareOf(reserve, a, total)
<1>2. /\ feeReserve' = Less(Less(feeReserve, owed), clip) /\ pot' = Plus(pot, clip)
      /\ reserve' = Less(reserve, out) /\ total' = total - a
      /\ positions' = [positions EXCEPT ![p] = q]
      /\ bank' = Less(Less(bank, out), owed)
      /\ UNCHANGED <<applyDust, growth, pending, snapshot>>
  BY DEF RemoveAllLiquidity, Removes, Settles
<1>3. /\ owed \in PerSide /\ clip \in PerSide
      /\ \A s \in Sides : /\ owed[s] + clip[s] <= feeReserve[s]
                          /\ Unit * (owed[s] + clip[s]) <= Weight(pos, s)
  BY <1>1, CollectFacts
<1>4. a \in Nat /\ pos.liquidity \in Nat /\ pos.locked \in Nat /\ a = pos.liquidity - pos.locked
  BY <1>1, RemovableType
<1>5. /\ q \in Position /\ q.last = growth /\ q.locked = pos.locked
      /\ q.liquidity = pos.locked
      /\ \A s \in Sides : Weight(q, s) = 0
  BY <1>1, <1>4, SettledFacts
<1>6. /\ out \in PerSide /\ total - a > 0
      /\ \A s \in Sides : out[s] < reserve[s]
  BY <1>1, <1>4, RemovedShare
<1> HIDE DEF q, owed, clip, out, a
<1>7. PICK u \in Position, o \in PerSide, c \in PerSide, x \in PerSide :
        u = q /\ o = owed /\ c = clip /\ x = out
  BY <1>3, <1>5, <1>6
<1>8. /\ reserve' \in [Sides -> Int] /\ bank' \in [Sides -> Int]
      /\ \A s \in Sides : /\ x[s] <= reserve[s]
                          /\ reserve'[s] = reserve[s] + Zero[s] - x[s]
                          /\ reserve'[s] > 0
                          /\ bank'[s] = bank[s] + Zero[s] - x[s] - o[s]
  <2>1. ASSUME NEW s \in Sides
        PROVE  /\ reserve[s] \in Nat /\ bank[s] \in Nat /\ o[s] \in Nat
               /\ Zero[s] = 0 /\ x[s] \in Nat /\ x[s] < reserve[s]
    BY <1>1, <1>6, <1>7, SidesAre DEF TypeOK
  <2>2. /\ bank' = [s \in Sides |-> (bank[s] - x[s]) - o[s]]
        /\ reserve' = [s \in Sides |-> reserve[s] - x[s]]
    BY <1>2, <1>7 DEF Less
  <2>3. reserve' \in [Sides -> Int] /\ bank' \in [Sides -> Int]
    BY <2>1, <2>2
  <2> QED
    BY <2>1, <2>2, <2>3
<1>9. total' = total + u.liquidity - pos.liquidity /\ total' > 0
  BY <1>1, <1>2, <1>4, <1>5, <1>6, <1>7 DEF TypeOK
<1>10. \A s \in Sides : Weight(u, s) + Unit * (o[s] + c[s]) <= Weight(pos, s)
  <2> SUFFICES ASSUME NEW s \in Sides
               PROVE  Weight(u, s) + Unit * (o[s] + c[s]) <= Weight(pos, s)
    OBVIOUS
  <2>1. Unit * (o[s] + c[s]) \in Int
    BY SidesAre, LiquidityAssumption
  <2> QED
    BY <1>3, <1>5, <1>7, <2>1
<1>11. u.locked <= u.liquidity
  BY <1>4, <1>5, <1>7
<1>12. PositionMoves(p, u, o, c, Zero, x)
  BY <1>2, <1>3, <1>5, <1>7, <1>8, <1>9, <1>10, <1>11 DEF PositionMoves
<1> QED
  BY <1>1, <1>12, SidesAre, MoveKeeps

\* The fees of what stays are put aside whole, after the multiplier; those of
\* what leaves are paid and clipped.
LEMMA RemovePartialStep ==
  ASSUME IInv, PausesTyped', NEW p \in DOMAIN positions, NEW a \in Removals,
         RemovePartialLiquidity(p, a)
  PROVE  IInv'
<1>1. TypeOK /\ PositionsSane /\ ~drained
  BY DEF IInv, RemovePartialLiquidity, Removes, WritableForRemove
<1> DEFINE pos == positions[p]
           kept == Plus(pos.unclaimed, Preserved(pos, a))
           q == [Settled(pos, pos.liquidity - a) EXCEPT !.unclaimed = kept]
           owed == [s \in Sides |-> Least(Adjusted(a, pos, s), feeReserve[s])]
           clip == [s \in Sides |-> Least(Earned(a, pos, s) - Adjusted(a, pos, s),
                                          feeReserve[s] - owed[s])]
           out == ShareOf(reserve, a, total)
<1>2. /\ a < Removable(pos)
      /\ feeReserve' = Less(Less(feeReserve, owed), clip) /\ pot' = Plus(pot, clip)
      /\ reserve' = Less(reserve, out) /\ total' = total - a
      /\ positions' = [positions EXCEPT ![p] = q]
      /\ bank' = Less(Less(bank, out), owed)
      /\ UNCHANGED <<applyDust, growth, pending, snapshot>>
  BY DEF RemovePartialLiquidity, Removes
<1>3. /\ Removable(pos) \in Nat /\ pos.liquidity \in Nat /\ pos.locked \in Nat
      /\ Removable(pos) = pos.liquidity - pos.locked
  BY <1>1, RemovableType
<1>4. a \in Nat /\ a <= Removable(pos) /\ pos.liquidity - a \in Nat
      /\ pos.locked <= pos.liquidity - a
  <2>1. a \in Nat
    BY LiquidityAssumption
  <2> QED
    BY <1>2, <1>3, <2>1
<1>5. /\ pos \in Position /\ growth \in PerSide /\ feeReserve \in PerSide
      /\ pos.unclaimed \in PerSide /\ pos.last \in PerSide
      /\ \A s \in Sides : pos.last[s] <= growth[s]
  BY <1>1, DomainFinite DEF Position, PositionsSane, TypeOK
<1>6. \A s \in Sides :
        /\ Earned(a, pos, s) \in Nat /\ Adjusted(a, pos, s) \in Nat
        /\ Adjusted(a, pos, s) <= Earned(a, pos, s)
        /\ Unit * Earned(a, pos, s) <= a * (growth[s] - pos.last[s])
        /\ Adjusted(pos.liquidity - a, pos, s) \in Nat
        /\ Unit * Adjusted(pos.liquidity - a, pos, s)
             <= (pos.liquidity - a) * (growth[s] - pos.last[s])
  <2> SUFFICES ASSUME NEW s \in Sides
               PROVE  /\ Earned(a, pos, s) \in Nat /\ Adjusted(a, pos, s) \in Nat
                      /\ Adjusted(a, pos, s) <= Earned(a, pos, s)
                      /\ Unit * Earned(a, pos, s) <= a * (growth[s] - pos.last[s])
                      /\ Adjusted(pos.liquidity - a, pos, s) \in Nat
                      /\ Unit * Adjusted(pos.liquidity - a, pos, s)
                           <= (pos.liquidity - a) * (growth[s] - pos.last[s])
    OBVIOUS
  <2>1. PICK b \in Nat, w \in Position : b = pos.liquidity - a /\ w = pos
    BY <1>4, <1>5
  <2>2. /\ Earned(a, w, s) \in Nat /\ Adjusted(a, w, s) \in Nat
        /\ Adjusted(a, w, s) <= Earned(a, w, s)
        /\ Unit * Earned(a, w, s) <= a * (growth[s] - w.last[s])
    BY <1>4, <1>5, <2>1, FeeFacts
  <2>3. /\ Earned(b, w, s) \in Nat /\ Adjusted(b, w, s) \in Nat
        /\ Adjusted(b, w, s) <= Earned(b, w, s)
        /\ Unit * Earned(b, w, s) <= b * (growth[s] - w.last[s])
    BY <1>5, <2>1, FeeFacts
  <2>4. Unit * Adjusted(b, w, s) <= b * (growth[s] - w.last[s])
    <3>1. growth[s] - w.last[s] \in Int
      BY <1>5, <2>1, SidesAre
    <3>2. b * (growth[s] - w.last[s]) \in Int
      BY <3>1
    <3>3. Unit * Adjusted(b, w, s) <= Unit * Earned(b, w, s)
      BY <2>3, LiquidityAssumption
    <3>4. Unit * Adjusted(b, w, s) \in Int /\ Unit * Earned(b, w, s) \in Int
      BY <2>3, LiquidityAssumption
    <3> QED
      BY <2>3, <3>2, <3>3, <3>4
  <2> QED
    BY <2>1, <2>2, <2>3, <2>4
<1>7. \A s \in Sides : /\ owed[s] \in Nat /\ clip[s] \in Nat
                       /\ owed[s] + clip[s] <= feeReserve[s]
                       /\ owed[s] + clip[s] <= Earned(a, pos, s)
  <2> SUFFICES ASSUME NEW s \in Sides
               PROVE  /\ owed[s] \in Nat /\ clip[s] \in Nat
                      /\ owed[s] + clip[s] <= feeReserve[s]
                      /\ owed[s] + clip[s] <= Earned(a, pos, s)
    OBVIOUS
  <2>1. /\ owed[s] = Least(Adjusted(a, pos, s), feeReserve[s])
        /\ clip[s] = Least(Earned(a, pos, s) - Adjusted(a, pos, s),
                           feeReserve[s] - owed[s])
        /\ feeReserve[s] \in Nat
    BY <1>5, SidesAre
  <2> QED
    BY <1>6, <2>1 DEF Least
<1>8. owed \in PerSide /\ clip \in PerSide
  <2>1. owed = [s \in Sides |-> owed[s]] /\ clip = [s \in Sides |-> clip[s]]
    OBVIOUS
  <2> QED
    BY <1>7, <2>1 DEF PerSide
<1>9. /\ kept \in PerSide
      /\ \A s \in Sides : kept[s] = pos.unclaimed[s] + Adjusted(pos.liquidity - a, pos, s)
  <2>1. kept = [s \in Sides |-> pos.unclaimed[s] + Adjusted(pos.liquidity - a, pos, s)]
    BY DEF Plus, Preserved
  <2>2. \A s \in Sides : pos.unclaimed[s] + Adjusted(pos.liquidity - a, pos, s) \in Nat
    BY <1>5, <1>6, SidesAre
  <2> QED
    BY <2>1, <2>2 DEF PerSide
<1>10. /\ q \in Position /\ q.last = growth /\ q.locked = pos.locked
       /\ q.liquidity = pos.liquidity - a /\ q.unclaimed = kept
  <2> DEFINE v == Settled(pos, pos.liquidity - a)
  <2>1. PICK b \in Nat : b = pos.liquidity - a
    BY <1>4
  <2>2. /\ Settled(pos, b) \in Position /\ Settled(pos, b).last = growth
        /\ Settled(pos, b).locked = pos.locked /\ Settled(pos, b).liquidity = b
    BY <1>1, SettledFacts
  <2>3. /\ v \in Position /\ v.last = growth /\ v.locked = pos.locked
        /\ v.liquidity = pos.liquidity - a
    BY <2>1, <2>2
  <2>4. q = [v EXCEPT !.unclaimed = kept]
    OBVIOUS
  <2> HIDE DEF v, q, kept
  <2> QED
    BY <1>9, <2>3, <2>4 DEF Position
<1>11. /\ out \in PerSide /\ total - a > 0
       /\ \A s \in Sides : out[s] < reserve[s]
  BY <1>1, <1>4, RemovedShare
<1> HIDE DEF q, owed, clip, out, kept
<1>12. PICK u \in Position, o \in PerSide, c \in PerSide, x \in PerSide :
         u = q /\ o = owed /\ c = clip /\ x = out
  BY <1>8, <1>10, <1>11
<1>13. /\ reserve' \in [Sides -> Int] /\ bank' \in [Sides -> Int]
       /\ \A s \in Sides : /\ x[s] <= reserve[s]
                           /\ reserve'[s] = reserve[s] + Zero[s] - x[s]
                           /\ reserve'[s] > 0
                           /\ bank'[s] = bank[s] + Zero[s] - x[s] - o[s]
  <2>1. ASSUME NEW s \in Sides
        PROVE  /\ reserve[s] \in Nat /\ bank[s] \in Nat /\ o[s] \in Nat
               /\ Zero[s] = 0 /\ x[s] \in Nat /\ x[s] < reserve[s]
    BY <1>1, <1>11, <1>12, SidesAre DEF TypeOK
  <2>2. /\ bank' = [s \in Sides |-> (bank[s] - x[s]) - o[s]]
        /\ reserve' = [s \in Sides |-> reserve[s] - x[s]]
    BY <1>2, <1>12 DEF Less
  <2>3. reserve' \in [Sides -> Int] /\ bank' \in [Sides -> Int]
    BY <2>1, <2>2
  <2> QED
    BY <2>1, <2>2, <2>3
<1>14. total' = total + u.liquidity - pos.liquidity /\ total' > 0
  BY <1>1, <1>2, <1>3, <1>4, <1>10, <1>11, <1>12 DEF TypeOK
<1>15. \A s \in Sides : Weight(u, s) + Unit * (o[s] + c[s]) <= Weight(pos, s)
  <2> SUFFICES ASSUME NEW s \in Sides
               PROVE  Weight(u, s) + Unit * (o[s] + c[s]) <= Weight(pos, s)
    OBVIOUS
  <2> DEFINE d == growth[s] - pos.last[s]
             b == pos.liquidity - a
             e == Earned(a, pos, s)
             j == Adjusted(b, pos, s)
             y == pos.unclaimed[s]
             n == o[s] + c[s]
  <2>1. /\ d \in Nat /\ b \in Nat /\ y \in Nat /\ n \in Nat /\ Unit \in Nat
        /\ a \in Nat /\ pos.liquidity = b + a
    BY <1>3, <1>4, <1>5, SidesAre, LiquidityAssumption
  <2>2. /\ e \in Nat /\ j \in Nat /\ Unit * e <= a * d /\ Unit * j <= b * d
    BY <1>6
  <2>3. n <= e
    BY <1>7, <1>12
  <2>4. Weight(pos, s) = (b + a) * d + Unit * y
    BY <2>1 DEF Weight
  <2>5. Weight(u, s) = b * (growth[s] - growth[s]) + Unit * (y + j)
    BY <1>9, <1>10, <1>12 DEF Weight
  <2>6. growth[s] - growth[s] = 0
    BY <1>5, SidesAre
  <2> HIDE DEF d, b, e, j, y, n
  <2>7. Weight(u, s) = Unit * (y + j)
    <3>1. b * 0 = 0 /\ Unit * (y + j) \in Nat
      BY <2>1, <2>2
    <3> QED
      BY <2>5, <2>6, <3>1
  <2>8. /\ Unit * n <= Unit * e /\ Unit * (y + j) = Unit * y + Unit * j
        /\ (b + a) * d = b * d + a * d
    BY <2>1, <2>2, <2>3
  <2>9. /\ Unit * n \in Int /\ Unit * e \in Int /\ Unit * y \in Int /\ Unit * j \in Int
        /\ b * d \in Int /\ a * d \in Int
    BY <2>1, <2>2
  <2>10. Weight(u, s) + Unit * n <= Weight(pos, s)
    BY <2>2, <2>4, <2>7, <2>8, <2>9
  <2> QED
    BY <2>10 DEF n
<1>16. u.locked <= u.liquidity
  BY <1>4, <1>10, <1>12
<1>17. \A s \in Sides : o[s] + c[s] <= feeReserve[s]
  BY <1>7, <1>12
<1>18. PositionMoves(p, u, o, c, Zero, x)
  BY <1>2, <1>10, <1>12, <1>13, <1>14, <1>15, <1>16, <1>17 DEF PositionMoves
<1> QED
  BY <1>1, <1>18, SidesAre, MoveKeeps
-----------------------------------------------------------------------------
(* Swaps. *)

\* What a swap leaves of the product, with the commission still inside.
LEMMA SwapMath ==
  ASSUME NEW r \in Nat \ {0}, NEW x \in Nat, NEW a \in Nat
  PROVE  /\ (x * a) \div (r + a) \in Nat /\ (x * a) \div (r + a) <= x
         /\ r * x <= (r + a) * (x - (x * a) \div (r + a))
<1> DEFINE g == (x * a) \div (r + a)
           m == r + a
<1>1. x * a \in Nat /\ m \in Nat \ {0} /\ x * m = x * r + x * a
      /\ x * m \in Nat /\ x * r \in Nat /\ x * r = r * x
  OBVIOUS
<1>2. g \in Nat /\ m * g <= x * a
  BY <1>1, Quotients
<1>3. g <= x
  BY <1>1, QuotientBelow
<1> HIDE DEF g, m
<1>4. m * (x - g) = x * m - m * g /\ m * g \in Nat
  BY <1>1, <1>2
<1>5. r * x <= m * (x - g)
  BY <1>1, <1>2, <1>4
<1> QED
  BY <1>2, <1>3, <1>5 DEF g, m

LEMMA SwapFacts ==
  ASSUME IInv, NEW s \in Sides, NEW amount \in Amounts, NEW skew \in Skews,
         Swap(s, amount, skew)
  PROVE  LET ask        == Other(s)
             gross      == (reserve[ask] * amount) \div (reserve[s] + amount)
             commission == MulFloor(gross, LpFee)
         IN  /\ ~drained /\ total > 0 /\ total \in Nat
             /\ amount \in Nat \ {0} /\ skew \in Int
             /\ gross \in Nat /\ commission \in Nat /\ commission <= gross
             /\ reserve[s] * reserve[ask]
                  <= (reserve[s] + amount) * (reserve[ask] - gross)
             /\ reserve[ask] - gross > 0
             /\ \A r \in Sides : reserve[r] \in Nat
<1> DEFINE ask == Other(s)
           gross == (reserve[ask] * amount) \div (reserve[s] + amount)
<1>1. /\ ask \in Sides /\ reserve \in PerSide /\ total \in Nat
      /\ \A r \in Sides : reserve[r] \in Nat
  BY SidesAre DEF IInv, TypeOK
<1>2. amount \in Nat \ {0}
  BY LiquidityAssumption
<1>3. skew \in Int
  BY LiquidityAssumption
<1>4. MinLiquidity \in Nat \ {0} /\ LpFee \in Nat /\ LpFee <= Unit
  BY LiquidityAssumption
<1>5. \A r \in Sides : reserve[r] > 0
  BY <1>1, <1>4 DEF Swap, Healthy
<1>6. ~drained /\ total > 0
  <2>1. reserve # Zero
    BY <1>1, <1>5, SidesAre
  <2>2. ~drained
    BY <2>1 DEF IInv, DrainedIsEmpty
  <2> QED
    BY <1>1, <2>1, <2>2 DEF IInv, LiquidityOwned
<1>7. /\ gross \in Nat
      /\ reserve[s] * reserve[ask] <= (reserve[s] + amount) * (reserve[ask] - gross)
  <2>1. PICK x \in Nat \ {0}, y \in Nat : x = reserve[s] /\ y = reserve[ask]
    BY <1>1, <1>5
  <2>2. /\ (y * amount) \div (x + amount) \in Nat
        /\ x * y <= (x + amount) * (y - (y * amount) \div (x + amount))
    BY <1>2, SwapMath
  <2> QED
    BY <2>1, <2>2
<1>8. reserve[ask] - gross > 0
  <2>1. reserve[ask] - gross >= MinLiquidity
    BY DEF Swap
  <2> HIDE DEF gross
  <2> QED
    BY <1>1, <1>4, <1>7, <2>1
<1> HIDE DEF gross
<1>9. MulFloor(gross, LpFee) \in Nat /\ MulFloor(gross, LpFee) <= gross
  BY <1>4, <1>7, MulFloorType
<1> QED
  BY <1>1, <1>2, <1>3, <1>6, <1>7, <1>8, <1>9 DEF gross, ask

LEMMA SwapStep ==
  ASSUME IInv, PausesTyped', NEW s \in Sides, NEW amount \in Amounts,
         NEW skew \in Skews, Swap(s, amount, skew)
  PROVE  IInv'
<1>1. TypeOK /\ PositionsSane /\ LiquidityOwned /\ FeesWeighed /\ Backed
  BY DEF IInv
<1> DEFINE ask == Other(s)
           gross == (reserve[ask] * amount) \div (reserve[s] + amount)
           com == MulFloor(gross, LpFee)
<1>2. /\ ~drained /\ total > 0 /\ total \in Nat
      /\ amount \in Nat \ {0} /\ skew \in Int
      /\ gross \in Nat /\ com \in Nat /\ com <= gross
      /\ reserve[ask] - gross > 0
  BY SwapFacts
<1>3. /\ reserve' = [reserve EXCEPT ![s] = @ + amount, ![ask] = @ - gross]
      /\ bank' = [bank EXCEPT ![s] = @ + amount + skew, ![ask] = @ - (gross - com)]
      /\ s \in Cw20Sides => bank[s] + amount + skew >= Booked[s] + amount
      /\ s \notin Cw20Sides => skew = 0
      /\ com = 0 => UNCHANGED <<growth, feeReserve>>
      /\ com # 0 => /\ growth' = [growth EXCEPT ![ask] = FeeGrowth(com, ask)]
                    /\ feeReserve' = [feeReserve EXCEPT ![ask] = @ + com]
      /\ UNCHANGED <<applyDust, total, pot, positions, pending, snapshot>>
  BY <1>2 DEF Swap
<1>4. PICK g \in Nat, c \in Nat : g = gross /\ c = com
  BY <1>2
<1> HIDE DEF gross, com
<1>5. /\ ask \in Sides /\ ask # s /\ \A r \in Sides : r = s \/ r = ask
      /\ \A r \in Sides : /\ reserve[r] \in Nat /\ feeReserve[r] \in Nat
                          /\ pot[r] \in Nat /\ bank[r] \in Nat /\ growth[r] \in Nat
  <2>1. \A r \in Sides : r = s \/ r = Other(s)
    BY DEF Sides, Other
  <2> QED
    BY <1>1, <2>1, SidesAre DEF TypeOK
<1>6. \A r \in Sides : bank[r] >= reserve[r] + feeReserve[r] + pot[r]
  BY <1>1, <1>2, <1>5 DEF Backed, Booked, Plus
<1> HIDE DEF ask
<1>7. ~drained' /\ applyDust' = applyDust
  BY <1>2, <1>3 DEF drained
<1>8. PICK d \in Nat : /\ total * d <= c * Unit
                       /\ growth' = [growth EXCEPT ![ask] = @ + d]
                       /\ feeReserve' = [feeReserve EXCEPT ![ask] = @ + c]
  <2>1. CASE com = 0
    <3>1. total * 0 <= c * Unit
      BY <1>2, <1>4, <2>1, LiquidityAssumption
    <3>2. /\ growth' = [growth EXCEPT ![ask] = @ + 0]
          /\ feeReserve' = [feeReserve EXCEPT ![ask] = @ + c]
      BY <1>1, <1>3, <1>4, <1>5, <2>1 DEF TypeOK, PerSide
    <3> QED
      BY <3>1, <3>2
  <2>2. CASE com # 0
    <3>1. FromRatio(c, total) \in Nat /\ total * FromRatio(c, total) <= c * Unit
      BY <1>2, FromRatioType
    <3>2. growth' = [growth EXCEPT ![ask] = @ + FromRatio(c, total)]
      BY <1>1, <1>3, <1>4, <1>5, <2>2 DEF FeeGrowth, TypeOK, PerSide
    <3>3. feeReserve' = [feeReserve EXCEPT ![ask] = @ + c]
      BY <1>3, <1>4, <2>2
    <3> QED
      BY <3>1, <3>2, <3>3
  <2> QED
    BY <2>1, <2>2
<1>9. /\ growth' \in PerSide /\ feeReserve' \in PerSide
      /\ growth'[ask] = growth[ask] + d /\ growth'[s] = growth[s] + 0
      /\ feeReserve'[ask] = feeReserve[ask] + c /\ feeReserve'[s] = feeReserve[s]
  <2>1. growth \in [Sides -> Nat] /\ feeReserve \in [Sides -> Nat]
    BY <1>1 DEF TypeOK, PerSide
  <2>2. growth[ask] + d \in Nat /\ feeReserve[ask] + c \in Nat /\ growth[s] + 0 = growth[s]
    BY <1>5
  <2>3. growth' \in [Sides -> Nat] /\ feeReserve' \in [Sides -> Nat]
    BY <1>8, <2>1, <2>2
  <2>4. growth'[ask] = growth[ask] + d /\ feeReserve'[ask] = feeReserve[ask] + c
    BY <1>5, <1>8, <2>1
  <2>5. growth'[s] = growth[s] /\ feeReserve'[s] = feeReserve[s]
    BY <1>5, <1>8, <2>1
  <2> QED
    BY <2>2, <2>3, <2>4, <2>5 DEF PerSide
<1>10. /\ reserve'[s] = reserve[s] + amount /\ reserve'[ask] = reserve[ask] - g
       /\ reserve'[s] \in Nat /\ reserve'[s] > 0
       /\ reserve'[ask] \in Nat /\ reserve'[ask] > 0
       /\ bank'[s] = (bank[s] + amount) + skew
       /\ bank'[ask] = bank[ask] - (g - c)
  <2>1. reserve \in [Sides -> Nat] /\ bank \in [Sides -> Nat]
    BY <1>1 DEF TypeOK, PerSide
  <2>2. reserve'[s] = reserve[s] + amount /\ reserve'[ask] = reserve[ask] - gross
    BY <1>3, <1>5, <2>1
  <2>3. bank'[s] = (bank[s] + amount) + skew /\ bank'[ask] = bank[ask] - (gross - com)
    BY <1>3, <1>5, <2>1
  <2>4. reserve[s] \in Nat /\ reserve[ask] \in Nat
    BY <1>5
  <2> QED
    BY <1>2, <1>4, <2>2, <2>3, <2>4
<1>11. /\ bank'[s] \in Nat /\ bank'[s] >= reserve'[s] + feeReserve'[s] + pot'[s]
  <2>1. Booked[s] = reserve[s] + feeReserve[s] + pot[s]
    BY DEF Booked, Plus
  <2>2. CASE s \in Cw20Sides
    BY <1>2, <1>3, <1>5, <1>9, <1>10, <2>1, <2>2
  <2>3. CASE s \notin Cw20Sides
    BY <1>2, <1>3, <1>5, <1>6, <1>9, <1>10, <2>3
  <2> QED
    BY <2>2, <2>3
<1>12. bank'[ask] \in Nat /\ bank'[ask] >= reserve'[ask] + feeReserve'[ask] + pot'[ask]
  <2>1. g \in Nat /\ c \in Nat /\ c <= g /\ reserve[ask] - g > 0
    BY <1>2, <1>4
  <2> QED
    BY <1>3, <1>5, <1>6, <1>9, <1>10, <2>1
<1>13. reserve' \in PerSide /\ bank' \in PerSide
  <2>1. \A r \in Sides : reserve'[r] \in Nat /\ bank'[r] \in Nat
    BY <1>5, <1>10, <1>11, <1>12
  <2>2. reserve' = [r \in Sides |-> reserve'[r]] /\ bank' = [r \in Sides |-> bank'[r]]
    BY <1>1, <1>3 DEF TypeOK, PerSide
  <2> QED
    BY <2>1, <2>2 DEF PerSide
<1>14. TypeOK'
  BY <1>1, <1>3, <1>9, <1>13 DEF TypeOK, PausesTyped
<1>15. PositionsSane'
  <2>1. \A r \in Sides : growth[r] <= growth'[r]
    BY <1>5, <1>9
  <2>2. ASSUME NEW p \in DOMAIN positions, NEW r \in Sides
        PROVE  positions[p].last[r] <= growth'[r]
    <3>1. positions[p].last[r] \in Nat /\ growth'[r] \in Nat
      BY <1>1, <1>9, DomainFinite, SidesAre DEF Position
    <3>2. positions[p].last[r] <= growth[r]
      BY <1>1 DEF PositionsSane
    <3> QED
      BY <1>5, <2>1, <3>1, <3>2
  <2> QED
    BY <1>1, <1>2, <1>3, <1>7, <2>2 DEF PositionsSane
<1>16. LiquidityOwned'
  <2>1. SumOver(Liquidities)' = SumOver(Liquidities)
    BY <1>3 DEF SumOver, Liquidities
  <2>2. \A r \in Sides : reserve'[r] > 0
    BY <1>5, <1>10
  <2>3. /\ SumOver(Liquidities) <= total
        /\ applyDust => SumOver(Liquidities) < total
        /\ ~applyDust => positions # <<>> /\ positions[1].locked > 0
    BY <1>1, <1>2 DEF LiquidityOwned
  <2>4. UNCHANGED <<applyDust, total, positions>>
    BY <1>3
  <2> QED
    BY <1>2, <2>1, <2>2, <2>3, <2>4 DEF LiquidityOwned
<1>17. FeesWeighed'
  <2>1. ASSUME NEW r \in Sides, NEW e \in Nat, NEW k \in Nat, total * e <= k * Unit,
               growth'[r] = growth[r] + e, feeReserve'[r] = feeReserve[r] + k
        PROVE  SumOver(Weights(r))' <= Unit * feeReserve'[r]
    <3> DEFINE w == SumOver(Weights(r))
               x == SumOver(Weights(r))'
               l == SumOver(Liquidities)
               f == feeReserve[r]
    <3>1. x <= w + l * e
      BY <1>1, <1>3, <1>9, <2>1, GrowthSpreads
    <3>2. w \in Nat /\ l \in Nat /\ l <= total /\ w <= Unit * f /\ f \in Nat /\ Unit \in Nat
      BY <1>1, <1>2, <1>5, SumTypes, LiquidityAssumption DEF LiquidityOwned, FeesWeighed
    <3>3. x \in Int
      <4>1. x = Total(Weights(r)', DOMAIN positions)
        <5>1. DOMAIN (Weights(r)') = DOMAIN positions
          BY <1>3 DEF Weights
        <5> QED
          BY <5>1 DEF SumOver
      <4>2. \A p \in DOMAIN positions : Weights(r)'[p] \in Nat
        <5> SUFFICES ASSUME NEW p \in DOMAIN positions PROVE Weights(r)'[p] \in Nat
          OBVIOUS
        <5>1. Weights(r)'[p] = positions[p].liquidity * (growth'[r] - positions[p].last[r])
                                 + Unit * positions[p].unclaimed[r]
          BY <1>3 DEF Weights, Weight
        <5>2. /\ positions[p].liquidity \in Nat /\ positions[p].last[r] \in Nat
              /\ positions[p].unclaimed[r] \in Nat /\ positions[p].last[r] <= growth[r]
          BY <1>1, DomainFinite, SidesAre DEF Position, PositionsSane
        <5>3. growth'[r] - positions[p].last[r] \in Nat
          BY <1>5, <2>1, <5>2
        <5>4. /\ positions[p].liquidity * (growth'[r] - positions[p].last[r]) \in Nat
              /\ Unit * positions[p].unclaimed[r] \in Nat
          BY <5>2, <5>3, LiquidityAssumption
        <5> QED
          BY <5>1, <5>4
      <4>3. PICK v : v = Weights(r)'
        OBVIOUS
      <4>4. Total(v, DOMAIN positions) \in Nat
        BY <1>1, <4>2, <4>3, DomainFinite, TotalType
      <4> QED
        BY <4>1, <4>3, <4>4
    <3> HIDE DEF w, x, l, f
    <3>4. l * e <= total * e /\ l * e \in Nat /\ total * e \in Nat
      BY <1>2, <3>2
    <3>5. Unit * (f + k) = Unit * f + k * Unit /\ Unit * f \in Nat /\ k * Unit \in Nat
      BY <3>2
    <3>6. x <= Unit * (f + k)
      BY <2>1, <3>1, <3>2, <3>3, <3>4, <3>5
    <3> QED
      BY <2>1, <3>6 DEF x, f
  <2>2. SumOver(Weights(ask))' <= Unit * feeReserve'[ask]
    BY <1>5, <1>8, <1>9, <2>1
  <2>3. SumOver(Weights(s))' <= Unit * feeReserve'[s]
    <3>1. total * 0 <= 0 * Unit /\ feeReserve'[s] = feeReserve[s] + 0
      BY <1>2, <1>5, <1>9, LiquidityAssumption
    <3> QED
      BY <1>9, <2>1, <3>1
  <2>4. ask = Other(s)
    BY DEF ask
  <2> QED
    BY <1>5, <2>2, <2>3, <2>4 DEF FeesWeighed
<1>18. DrainedIsEmpty' /\ EscrowCovers'
  BY <1>7 DEF DrainedIsEmpty, EscrowCovers
<1>19. Backed'
  <2>1. \A r \in Sides : Booked'[r] = reserve'[r] + feeReserve'[r] + pot'[r]
    BY DEF Booked, Plus
  <2>2. \A r \in Sides : Booked'[r] \in Int /\ bank'[r] >= Booked'[r]
    <3>1. pot'[s] \in Int /\ pot'[ask] \in Int
      BY <1>3, <1>5
    <3>2. /\ feeReserve'[s] \in Int /\ feeReserve'[ask] \in Int
          /\ reserve'[s] \in Int /\ reserve'[ask] \in Int
      BY <1>5, <1>9, <1>10
    <3>3. Booked'[s] \in Int /\ bank'[s] >= Booked'[s]
      BY <1>5, <1>11, <2>1, <3>1, <3>2
    <3>4. Booked'[ask] \in Int /\ bank'[ask] >= Booked'[ask]
      BY <1>5, <1>12, <2>1, <3>1, <3>2
    <3> QED
      BY <1>5, <3>3, <3>4
  <2> QED
    BY <1>7, <2>2 DEF Backed
<1> QED
  BY <1>14, <1>15, <1>16, <1>17, <1>18, <1>19 DEF IInv, PausesTyped
-----------------------------------------------------------------------------
(* The factory, the escrow, and what leaves the positions alone. *)

\* A step that leaves the positions and what the escrow was filled with alone.
LEMMA BooksKept ==
  ASSUME IInv, PausesTyped',
         UNCHANGED <<applyDust, reserve, total, feeReserve, growth, positions>>,
         pot' \in PerSide, bank' \in PerSide, pending' \in Nat \cup {None},
         snapshot' \in Snapshot \cup {None},
         drained' <=> drained,
         drained => /\ pot' = Zero
                    /\ snapshot'.reserve = snapshot.reserve
                    /\ snapshot'.fees = snapshot.fees
                    /\ snapshot'.total = snapshot.total
                    /\ snapshot'.claimed = snapshot.claimed,
         Backed'
  PROVE  IInv'
<1>1. TypeOK'
  BY DEF IInv, TypeOK, PausesTyped
<1>2. PositionsSane'
  BY DEF IInv, PositionsSane
<1>3. SumOver(Liquidities)' = SumOver(Liquidities)
  BY DEF SumOver, Liquidities
<1>4. LiquidityOwned'
  BY <1>3 DEF IInv, LiquidityOwned
<1>5. \A s \in Sides : SumOver(Weights(s))' = SumOver(Weights(s))
  BY DEF SumOver, Weights, Weight
<1>6. FeesWeighed'
  BY <1>5 DEF IInv, FeesWeighed
<1>7. DrainedIsEmpty'
  BY DEF IInv, DrainedIsEmpty
<1>8. EscrowCovers'
  <2> SUFFICES ASSUME drained PROVE EscrowCovers'
    BY DEF EscrowCovers
  <2> DEFINE claims(s) == [p \in DOMAIN positions |-> ClaimOf(positions[p])[s]]
  <2>1. ASSUME NEW s \in Sides
        PROVE  SumOver(claims(s))' = SumOver(claims(s))
    <3>1. claims(s)' = claims(s)
      BY DEF ClaimOf, ShareOf, Plus
    <3> QED
      BY <3>1 DEF SumOver
  <2>2. Escrowed' = Escrowed
    BY DEF Escrowed, Plus
  <2>3. \A s \in Sides : snapshot.claimed[s] + SumOver(claims(s)) <= Escrowed[s]
    BY DEF IInv, EscrowCovers
  <2> QED
    BY <2>1, <2>2, <2>3 DEF EscrowCovers
<1> QED
  BY <1>1, <1>2, <1>4, <1>6, <1>7, <1>8 DEF IInv, PausesTyped

\* Claims are shares of the escrow.
LEMMA ClaimTypes ==
  ASSUME TypeOK, DrainedIsEmpty, drained, NEW p \in DOMAIN positions
  PROVE  /\ ClaimOf(positions[p]) \in PerSide
         /\ \A s \in Sides :
              ClaimOf(positions[p])[s]
                = (snapshot.reserve[s] * positions[p].liquidity) \div snapshot.total
                  + (snapshot.fees[s] * positions[p].liquidity) \div snapshot.total
         /\ snapshot.total \in Nat \ {0}
         /\ positions[p].liquidity \in Nat
<1>1. snapshot \in Snapshot
  BY DEF TypeOK, drained
<1>2. /\ positions[p].liquidity \in Nat
      /\ snapshot.reserve \in PerSide /\ snapshot.fees \in PerSide
      /\ snapshot.total \in Nat
  BY <1>1, DomainFinite DEF Position, Snapshot
<1>3. snapshot.total # 0
  <2>1. positions # <<>>
    OBVIOUS
  <2> QED
    BY <1>2, <2>1 DEF DrainedIsEmpty
<1>4. ClaimOf(positions[p])
        = [s \in Sides |->
             (snapshot.reserve[s] * positions[p].liquidity) \div snapshot.total
              + (snapshot.fees[s] * positions[p].liquidity) \div snapshot.total]
  BY DEF ClaimOf, ShareOf, Plus
<1>5. ASSUME NEW s \in Sides
      PROVE  /\ (snapshot.reserve[s] * positions[p].liquidity) \div snapshot.total \in Nat
             /\ (snapshot.fees[s] * positions[p].liquidity) \div snapshot.total \in Nat
  <2>1. /\ snapshot.reserve[s] * positions[p].liquidity \in Nat
        /\ snapshot.fees[s] * positions[p].liquidity \in Nat
        /\ snapshot.total \in Nat \ {0}
    <3>1. snapshot.reserve[s] \in Nat /\ snapshot.fees[s] \in Nat
      BY <1>2, SidesAre
    <3> QED
      BY <1>2, <1>3, <3>1
  <2> QED
    BY <2>1, Quotients
<1> QED
  BY <1>2, <1>3, <1>4, <1>5 DEF PerSide

\* Shares rounded down add up to no more than what is shared.
LEMMA SharesFit ==
  ASSUME NEW S, IsFiniteSet(S), NEW f, NEW g, NEW r \in Nat, NEW e \in Nat,
         NEW t \in Nat \ {0}, \A p \in S : f[p] \in Nat, Total(f, S) <= t,
         \A p \in S : g[p] = (r * f[p]) \div t + (e * f[p]) \div t
  PROVE  Total(g, S) <= r + e
<1>1. ASSUME NEW p \in S
      PROVE  g[p] \in Nat /\ g[p] * t <= f[p] * (r + e)
  <2>1. f[p] \in Nat /\ r * f[p] \in Nat /\ e * f[p] \in Nat
    OBVIOUS
  <2> DEFINE x == (r * f[p]) \div t
             y == (e * f[p]) \div t
  <2>2. x \in Nat /\ t * x <= r * f[p] /\ y \in Nat /\ t * y <= e * f[p]
    BY <2>1, Quotients
  <2>3. g[p] = x + y
    OBVIOUS
  <2> HIDE DEF x, y
  <2>4. /\ (x + y) * t = t * x + t * y
        /\ f[p] * (r + e) = r * f[p] + e * f[p]
        /\ t * x \in Nat /\ t * y \in Nat
    BY <2>1, <2>2
  <2> QED
    BY <2>1, <2>2, <2>3, <2>4
<1>2. \A p \in S : g[p] \in Nat
  BY <1>1
<1>3. Total(g, S) \in Nat /\ Total(f, S) \in Nat
  BY <1>2, TotalType
<1>4. CASE r + e = 0
  <2>1. \A p \in S : g[p] = 0
    <3> SUFFICES ASSUME NEW p \in S PROVE g[p] = 0
      OBVIOUS
    <3>1. g[p] \in Nat /\ f[p] * 0 = 0 /\ g[p] * t <= f[p] * 0
      BY <1>1, <1>4
    <3>2. g[p] * t <= 0
      BY <3>1
    <3>3. g[p] >= 1 => g[p] * t >= t
      BY <3>1
    <3> QED
      BY <3>1, <3>2, <3>3
  <2> QED
    BY <1>4, <2>1, TotalZero
<1>5. CASE r + e # 0
  <2>1. r + e \in Nat \ {0}
    BY <1>5
  <2>2. \A p \in S : f[p] \in Nat /\ g[p] \in Nat /\ g[p] * t <= f[p] * (r + e)
    BY <1>1
  <2>3. Total(g, S) * t <= Total(f, S) * (r + e)
    BY <2>1, <2>2, TotalShares
  <2>4. \A k \in Nat : k = r + e => Total(g, S) <= k
    <3> SUFFICES ASSUME NEW k \in Nat, k = r + e PROVE Total(g, S) <= k
      OBVIOUS
    <3>1. PICK a \in Nat, b \in Nat : a = Total(g, S) /\ b = Total(f, S)
      BY <1>3
    <3>2. a * t <= b * k /\ b <= t
      BY <2>3, <3>1
    <3>3. b * k <= t * k /\ b * k \in Nat /\ t * k \in Nat /\ a * t \in Nat
      BY <3>2
    <3>4. a * t <= t * k
      BY <3>2, <3>3
    <3>5. a > k => a * t > t * k
      <4>1. a >= k + 1 => a * t >= (k + 1) * t
        OBVIOUS
      <4>2. (k + 1) * t = t * k + t
        OBVIOUS
      <4> QED
        BY <3>3, <4>1, <4>2
    <3> QED
      BY <3>1, <3>3, <3>4, <3>5
  <2> QED
    BY <2>1, <2>4
<1> QED
  BY <1>4, <1>5
\* The drain fills the escrow, and no position's claim can miss it.
LEMMA DrainStep ==
  ASSUME IInv, PausesTyped', EmergencyDrain
  PROVE  IInv'
<1>1. TypeOK /\ PositionsSane /\ LiquidityOwned /\ Backed /\ ~drained
  BY DEF IInv, EmergencyDrain
<1>2. /\ reserve \in PerSide /\ feeReserve \in PerSide /\ pot \in PerSide
      /\ bank \in PerSide /\ total \in Nat
  BY <1>1 DEF TypeOK
<1>3. /\ snapshot' = [reserve |-> reserve, fees |-> feeReserve, total |-> total,
                      claimed |-> Zero, wait |-> Dormancy, swept |-> FALSE]
      /\ pending' = None
      /\ reserve' = Zero /\ total' = 0 /\ feeReserve' = Zero /\ pot' = Zero
      /\ bank' = Less(bank, pot)
      /\ UNCHANGED <<applyDust, growth, positions>>
  BY DEF EmergencyDrain
<1>4. snapshot' \in Snapshot /\ drained'
  <2>1. snapshot' \in Snapshot
    BY <1>2, <1>3, SidesAre, LiquidityAssumption DEF Snapshot
  <2> QED
    BY <2>1, NoneAssumption DEF drained
<1>5. \A s \in Sides : bank[s] >= reserve[s] + feeReserve[s] + pot[s]
  BY <1>1, <1>2, SidesAre DEF Backed, Booked, Plus
<1>6. /\ bank' \in PerSide
      /\ \A s \in Sides : bank'[s] = bank[s] - pot[s] /\ bank'[s] >= reserve[s] + feeReserve[s]
  <2>1. \A s \in Sides : /\ bank[s] \in Nat /\ reserve[s] \in Nat /\ feeReserve[s] \in Nat
                         /\ pot[s] \in Nat
    BY <1>2, SidesAre
  <2>2. \A s \in Sides : pot[s] <= bank[s]
    BY <1>5, <2>1
  <2>3. bank' \in PerSide /\ \A s \in Sides : bank'[s] = bank[s] - pot[s]
    BY <1>2, <1>3, <2>2, PlusLess
  <2> QED
    BY <1>5, <2>1, <2>3
<1>7. TypeOK'
  BY <1>1, <1>3, <1>4, <1>6, SidesAre DEF TypeOK, PausesTyped
<1>8. PositionsSane'
  BY <1>1, <1>3, <1>4 DEF PositionsSane
<1>9. LiquidityOwned' /\ FeesWeighed'
  BY <1>4 DEF LiquidityOwned, FeesWeighed
<1>10. positions # <<>> => total > 0
  BY <1>1, <1>2 DEF LiquidityOwned
<1>11. DrainedIsEmpty'
  BY <1>3, <1>10 DEF DrainedIsEmpty
<1>12. EscrowCovers'
  <2> DEFINE claims(s) == [p \in DOMAIN positions |-> ClaimOf(positions[p])[s]]
  <2> SUFFICES ASSUME NEW s \in Sides
               PROVE  snapshot'.claimed[s] + SumOver(claims(s))' <= Escrowed'[s]
    BY DEF EscrowCovers
  <2>1. snapshot'.claimed[s] = 0 /\ Escrowed'[s] = reserve[s] + feeReserve[s]
    BY <1>3, SidesAre DEF Escrowed, Plus
  <2>2. claims(s)' = [p \in DOMAIN positions |->
                        (reserve[s] * positions[p].liquidity) \div total
                          + (feeReserve[s] * positions[p].liquidity) \div total]
    BY <1>3 DEF ClaimOf, ShareOf, Plus
  <2>3. SumOver(claims(s))' = Total(claims(s)', DOMAIN positions)
    BY <2>2 DEF SumOver
  <2>4. PICK g : g = claims(s)'
    OBVIOUS
  <2>5. PICK r \in Nat, e \in Nat, t \in Nat : r = reserve[s] /\ e = feeReserve[s] /\ t = total
    BY <1>2, SidesAre
  <2> HIDE DEF claims
  <2>6. Total(g, DOMAIN positions) <= r + e /\ Total(g, DOMAIN positions) \in Nat
    <3>1. CASE positions = <<>>
      <4>1. \A p \in DOMAIN positions : g[p] = 0
        BY <3>1
      <4> QED
        BY <4>1, TotalZero
    <3>2. CASE positions # <<>>
      <4>1. t \in Nat \ {0}
        BY <1>10, <2>5, <3>2
      <4>2. PICK f : f = Liquidities
        OBVIOUS
      <4>3. \A p \in DOMAIN positions : f[p] \in Nat /\ f[p] = positions[p].liquidity
        BY <1>1, <4>2, WeightTypes
      <4>4. Total(f, DOMAIN positions) <= t
        BY <1>1, <2>5, <4>2, SumTypes DEF LiquidityOwned
      <4>5. \A p \in DOMAIN positions : g[p] = (r * f[p]) \div t + (e * f[p]) \div t
        BY <2>2, <2>4, <2>5, <4>3
      <4>6. IsFiniteSet(DOMAIN positions) /\ \A p \in DOMAIN positions : f[p] \in Nat
        BY <1>1, <4>3, DomainFinite
      <4>7. Total(g, DOMAIN positions) <= r + e
        BY <4>1, <4>4, <4>5, <4>6, SharesFit
      <4>8. \A p \in DOMAIN positions : g[p] \in Nat
        <5> SUFFICES ASSUME NEW p \in DOMAIN positions PROVE g[p] \in Nat
          OBVIOUS
        <5>1. r * f[p] \in Nat /\ e * f[p] \in Nat
          BY <4>3
        <5>2. (r * f[p]) \div t \in Nat /\ (e * f[p]) \div t \in Nat
          BY <4>1, <5>1, Quotients
        <5> QED
          BY <4>5, <5>2
      <4> QED
        BY <4>6, <4>7, <4>8, TotalType
    <3> QED
      BY <3>1, <3>2
  <2> QED
    BY <2>1, <2>3, <2>4, <2>5, <2>6
<1>13. Backed'
  <2> SUFFICES ASSUME NEW s \in Sides
               PROVE  bank'[s] >= Booked'[s] + (Escrowed'[s] - snapshot'.claimed[s])
    BY <1>3, <1>4 DEF Backed
  <2>1. /\ Booked'[s] = 0 + 0 + 0
        /\ Escrowed'[s] = reserve[s] + feeReserve[s] /\ snapshot'.claimed[s] = 0
    BY <1>3, SidesAre DEF Escrowed, Plus, Booked
  <2>2. reserve[s] \in Nat /\ feeReserve[s] \in Nat
    BY <1>2, SidesAre
  <2> QED
    BY <1>6, <2>1, <2>2
<1> QED
  BY <1>7, <1>8, <1>9, <1>11, <1>12, <1>13 DEF IInv, PausesTyped

\* What the positions may still claim.
Claims(s) == SumOver([p \in DOMAIN positions |-> ClaimOf(positions[p])[s]])

LEMMA ClaimStep ==
  ASSUME IInv, PausesTyped', NEW p \in DOMAIN positions, ClaimEmergencyShare(p)
  PROVE  IInv'
<1>1. TypeOK /\ PositionsSane /\ DrainedIsEmpty /\ EscrowCovers /\ Backed /\ drained
  BY DEF IInv, ClaimEmergencyShare
<1> DEFINE pos == positions[p]
           claim == ClaimOf(pos)
           q == Spent(pos)
           D == DOMAIN positions
<1>2. /\ positions' = [positions EXCEPT ![p] = q]
      /\ snapshot' = [snapshot EXCEPT !.claimed = Plus(@, claim)]
      /\ bank' = Less(bank, claim) /\ ~snapshot.swept
      /\ UNCHANGED <<applyDust, reserve, total, feeReserve, growth, pot, pending>>
  BY DEF ClaimEmergencyShare
<1>3. /\ snapshot \in Snapshot /\ bank \in PerSide /\ growth \in PerSide
      /\ IsFiniteSet(D) /\ pos \in Position
  BY <1>1, DomainFinite DEF TypeOK, drained
<1>4. /\ snapshot.claimed \in PerSide /\ snapshot.reserve \in PerSide
      /\ snapshot.fees \in PerSide /\ snapshot.total \in Nat
  BY <1>3 DEF Snapshot
<1>5. /\ \A r \in D : ClaimOf(positions[r]) \in PerSide
      /\ claim \in PerSide /\ snapshot.total \in Nat \ {0}
  BY <1>1, ClaimTypes
<1>6. /\ q \in Position /\ q.liquidity = 0 /\ q.last = pos.last
  BY <1>3, SidesAre DEF Spent, Position
<1>7. /\ positions' \in Seq(Position) /\ DOMAIN positions' = D
      /\ positions'[p] = q /\ \A r \in D : r # p => positions'[r] = positions[r]
  <2>1. positions \in Seq(Position)
    BY <1>1 DEF TypeOK
  <2>2. positions' \in Seq(Position)
    BY <1>2, <1>6, <2>1, <1>1, DomainFinite, ExceptSeq
  <2> QED
    BY <1>2, <2>2
<1>8. /\ snapshot' \in Snapshot
      /\ snapshot'.reserve = snapshot.reserve /\ snapshot'.fees = snapshot.fees
      /\ snapshot'.total = snapshot.total /\ snapshot'.swept = FALSE
      /\ snapshot'.claimed = Plus(snapshot.claimed, claim)
  <2>1. PICK z \in PerSide : z = Plus(snapshot.claimed, claim)
    BY <1>4, <1>5, PlusLess
  <2>2. snapshot' = [snapshot EXCEPT !.claimed = z]
    BY <1>2, <2>1
  <2> QED
    BY <1>2, <1>3, <2>1, <2>2 DEF Snapshot
<1>9. drained'
  BY <1>8, NoneAssumption DEF drained
<1>10. ASSUME NEW s \in Sides
       PROVE  /\ Claims(s)' + claim[s] = Claims(s)
              /\ Claims(s)' \in Nat /\ Claims(s) \in Nat
  <2> DEFINE claims == [r \in DOMAIN positions |-> ClaimOf(positions[r])[s]]
  <2>1. PICK f, g : f = claims /\ g = claims'
    OBVIOUS
  <2>2. \A r \in D : f[r] = ClaimOf(positions[r])[s] /\ f[r] \in Nat
    BY <1>5, <2>1, SidesAre
  <2>3. \A r \in D : ClaimOf(positions[r])'[s]
          = (snapshot.reserve[s] * positions'[r].liquidity) \div snapshot.total
             + (snapshot.fees[s] * positions'[r].liquidity) \div snapshot.total
    BY <1>8 DEF ClaimOf, ShareOf, Plus
  <2>4. \A r \in D : ClaimOf(positions[r])[s]
          = (snapshot.reserve[s] * positions[r].liquidity) \div snapshot.total
             + (snapshot.fees[s] * positions[r].liquidity) \div snapshot.total
    BY DEF ClaimOf, ShareOf, Plus
  <2>5. \A r \in D : g[r] = ClaimOf(positions[r])'[s]
    BY <1>7, <2>1
  <2>6. \A r \in D : r # p => g[r] = f[r]
    BY <1>7, <2>2, <2>3, <2>4, <2>5
  <2>7. g[p] = 0
    <3>1. /\ snapshot.reserve[s] * 0 = 0 /\ snapshot.fees[s] * 0 = 0
      BY <1>4, SidesAre
    <3>2. 0 \div snapshot.total = 0
      <4>1. \A t \in Nat \ {0} : 0 \div t = 0
        OBVIOUS
      <4> QED
        BY <1>5, <4>1
    <3> QED
      BY <1>6, <1>7, <2>3, <2>5, <3>1, <3>2
  <2>8. Claims(s) = Total(f, D) /\ Claims(s)' = Total(g, D)
    BY <1>7, <2>1 DEF SumOver, Claims
  <2>9. \A r \in D : f[r] \in Nat
    BY <2>2
  <2>10. Total(g, D) + f[p] = Total(f, D) + g[p] /\ Total(g, D) \in Nat /\ Total(f, D) \in Nat
    <3>1. g[p] \in Nat
      BY <2>7
    <3> HIDE DEF D
    <3>2. p \in D
      BY DEF D
    <3> QED
      BY <1>3, <2>6, <2>9, <3>1, <3>2, TotalChange
  <2> QED
    BY <2>2, <2>7, <2>8, <2>10
<1>11. ASSUME NEW s \in Sides
       PROVE  \E x \in Nat, c \in Nat, d \in Nat, e \in Nat :
                /\ x = Claims(s)'
                /\ c = claim[s] /\ d = snapshot.claimed[s] /\ e = Escrowed[s]
                /\ d + (x + c) <= e
                /\ snapshot'.claimed[s] = d + c /\ Escrowed'[s] = e
                /\ bank[s] \in Nat /\ Booked[s] = 0 /\ bank[s] >= e - d
  <2>1. /\ snapshot.claimed[s] + Claims(s) <= Escrowed[s]
        /\ bank[s] >= Booked[s] + (Escrowed[s] - snapshot.claimed[s])
    BY <1>1, <1>2 DEF EscrowCovers, Backed, Claims
  <2>2. Escrowed'[s] = Escrowed[s] /\ Escrowed[s] = snapshot.reserve[s] + snapshot.fees[s]
    BY <1>8 DEF Escrowed, Plus
  <2>3. snapshot'.claimed[s] = snapshot.claimed[s] + claim[s]
    BY <1>8 DEF Plus
  <2>4. /\ snapshot.claimed[s] \in Nat /\ claim[s] \in Nat /\ bank[s] \in Nat
        /\ snapshot.reserve[s] \in Nat /\ snapshot.fees[s] \in Nat
    BY <1>3, <1>4, <1>5, SidesAre
  <2>5. Booked[s] = 0 + 0 + 0
    BY <1>1, SidesAre DEF Booked, Plus, DrainedIsEmpty
  <2>6. PICK x \in Nat, y \in Nat :
          /\ x = Claims(s)'
          /\ y = Claims(s)
          /\ x + claim[s] = y
    BY <1>10
  <2>7. PICK c \in Nat, d \in Nat, e \in Nat :
          c = claim[s] /\ d = snapshot.claimed[s] /\ e = Escrowed[s]
    BY <2>2, <2>4
  <2>8. d + (x + c) <= e
    BY <2>1, <2>6, <2>7
  <2>9. bank[s] >= e - d
    BY <2>1, <2>4, <2>5, <2>7
  <2> QED
    BY <2>2, <2>3, <2>4, <2>5, <2>6, <2>7, <2>8, <2>9
<1>12. \A s \in Sides : claim[s] <= bank[s]
  <2> SUFFICES ASSUME NEW s \in Sides PROVE claim[s] <= bank[s]
    OBVIOUS
  <2>1. PICK x \in Nat, c \in Nat, d \in Nat, e \in Nat :
          /\ c = claim[s] /\ d + (x + c) <= e
          /\ bank[s] \in Nat /\ bank[s] >= e - d
    BY <1>11
  <2> QED
    BY <2>1
<1>13. bank' \in PerSide /\ \A s \in Sides : bank'[s] = bank[s] - claim[s]
  BY <1>2, <1>3, <1>5, <1>12, PlusLess
<1>14. TypeOK'
  BY <1>1, <1>2, <1>7, <1>8, <1>13 DEF TypeOK, PausesTyped
<1>15. PositionsSane'
  <2>1. \A r \in D : \A s \in Sides : positions'[r].last[s] <= growth[s]
    BY <1>1, <1>6, <1>7 DEF PositionsSane
  <2> QED
    BY <1>2, <1>7, <1>9, <2>1 DEF PositionsSane
<1>16. LiquidityOwned' /\ FeesWeighed'
  BY <1>9 DEF LiquidityOwned, FeesWeighed
<1>17. DrainedIsEmpty'
  BY <1>1, <1>2, <1>5, <1>8 DEF DrainedIsEmpty
<1>18. EscrowCovers'
  <2> SUFFICES ASSUME NEW s \in Sides
               PROVE  snapshot'.claimed[s] + Claims(s)' <= Escrowed'[s]
    BY DEF EscrowCovers, Claims
  <2>1. PICK x \in Nat, c \in Nat, d \in Nat, e \in Nat :
          /\ x = Claims(s)'
          /\ d + (x + c) <= e
          /\ snapshot'.claimed[s] = d + c /\ Escrowed'[s] = e
    BY <1>11
  <2>2. (d + c) + x <= e
    BY <2>1
  <2> QED
    BY <2>1, <2>2
<1>19. Backed'
  <2> SUFFICES ASSUME NEW s \in Sides
               PROVE  bank'[s] >= Booked'[s] + (Escrowed'[s] - snapshot'.claimed[s])
    BY <1>8, <1>9 DEF Backed
  <2>1. Booked'[s] = Booked[s]
    BY <1>2 DEF Booked, Plus
  <2>2. PICK x \in Nat, c \in Nat, d \in Nat, e \in Nat :
          /\ c = claim[s] /\ d + (x + c) <= e
          /\ snapshot'.claimed[s] = d + c /\ Escrowed'[s] = e
          /\ bank[s] \in Nat /\ Booked[s] = 0 /\ bank[s] >= e - d
    BY <1>11
  <2>3. bank'[s] = bank[s] - c
    BY <1>13, <2>2
  <2>4. bank[s] - c >= 0 + (e - (d + c))
    BY <2>2
  <2> QED
    BY <2>1, <2>2, <2>3, <2>4
<1> QED
  BY <1>14, <1>15, <1>16, <1>17, <1>18, <1>19 DEF IInv, PausesTyped
\* Sends the creator's part away.
LEMMA ClaimFeesStep ==
  ASSUME IInv, PausesTyped', ClaimCreatorFees
  PROVE  IInv'
<1>1. ~drained /\ TypeOK /\ Backed
  BY DEF IInv, ClaimCreatorFees, Writable
<1>2. /\ bank' = Less(bank, pot) /\ pot' = Zero
      /\ UNCHANGED <<applyDust, reserve, total, feeReserve, growth, positions,
                     pending, snapshot>>
  BY DEF ClaimCreatorFees
<1>3. /\ reserve \in PerSide /\ feeReserve \in PerSide /\ pot \in PerSide
      /\ bank \in PerSide
      /\ pending \in Nat \cup {None} /\ snapshot \in Snapshot \cup {None}
  BY <1>1 DEF TypeOK
<1>4. \A s \in Sides : /\ bank[s] >= reserve[s] + feeReserve[s] + pot[s]
                       /\ bank[s] \in Nat /\ reserve[s] \in Nat /\ feeReserve[s] \in Nat
                       /\ pot[s] \in Nat
  BY <1>1, <1>3, SidesAre DEF Backed, Booked, Plus
<1>5. \A s \in Sides : pot[s] <= bank[s]
  BY <1>4
<1>6. bank' \in PerSide /\ \A s \in Sides : bank'[s] = bank[s] - pot[s]
  BY <1>2, <1>3, <1>5, PlusLess
<1>7. (drained' <=> drained) /\ ~drained'
  BY <1>1, <1>2 DEF drained
<1>8. Backed'
  <2>1. ASSUME NEW s \in Sides PROVE Booked'[s] \in Int /\ bank'[s] >= Booked'[s]
    <3>1. Booked'[s] = reserve[s] + feeReserve[s] + 0
      BY <1>2, SidesAre DEF Booked, Plus
    <3> QED
      BY <1>4, <1>6, <3>1
  <2> QED
    BY <1>7, <2>1 DEF Backed
<1> QED
  BY <1>1, <1>2, <1>3, <1>6, <1>7, <1>8, SidesAre, BooksKept

\* Sends what is left of the escrow away.
LEMMA SweepStep ==
  ASSUME IInv, PausesTyped', SweepUnclaimedEmergencyShares
  PROVE  IInv'
<1>1. drained /\ TypeOK /\ Backed /\ DrainedIsEmpty /\ EscrowCovers
  BY DEF IInv, SweepUnclaimedEmergencyShares
<1>2. /\ snapshot' = [snapshot EXCEPT !.swept = TRUE] /\ ~snapshot.swept
      /\ bank' = Less(bank, Less(Escrowed, snapshot.claimed))
      /\ UNCHANGED <<applyDust, reserve, total, feeReserve, growth, positions,
                     pot, pending>>
  BY DEF SweepUnclaimedEmergencyShares, bookVars
<1>3. /\ snapshot \in Snapshot /\ bank \in PerSide /\ pot \in PerSide
      /\ pending \in Nat \cup {None}
  BY <1>1 DEF TypeOK, drained
<1>4. /\ snapshot' \in Snapshot /\ snapshot'.swept
      /\ snapshot'.reserve = snapshot.reserve /\ snapshot'.fees = snapshot.fees
      /\ snapshot'.total = snapshot.total /\ snapshot'.claimed = snapshot.claimed
  BY <1>2, <1>3 DEF Snapshot
<1>5. drained'
  BY <1>4, NoneAssumption DEF drained
<1>6. ASSUME NEW s \in Sides
      PROVE  bank'[s] \in Nat /\ Booked'[s] = 0
  <2>1. Booked[s] = 0 + 0 + 0 /\ Booked'[s] = 0 + 0 + 0
    BY <1>1, <1>2, SidesAre DEF Booked, Plus, DrainedIsEmpty
  <2>2. bank[s] >= Booked[s] + (Escrowed[s] - snapshot.claimed[s])
    BY <1>1, <1>2 DEF Backed
  <2>3. /\ snapshot.claimed[s] \in Nat /\ bank[s] \in Nat
        /\ snapshot.reserve[s] \in Nat /\ snapshot.fees[s] \in Nat
    BY <1>3, SidesAre DEF Snapshot
  <2>4. Escrowed[s] = snapshot.reserve[s] + snapshot.fees[s]
    BY DEF Escrowed, Plus
  <2>5. bank'[s] = bank[s] - (Escrowed[s] - snapshot.claimed[s])
    BY <1>2 DEF Less
  <2> QED
    BY <2>1, <2>2, <2>3, <2>4, <2>5
<1>7. bank' \in PerSide
  <2>1. bank' = [s \in Sides |-> bank'[s]]
    BY <1>2 DEF Less
  <2> QED
    BY <1>6, <2>1 DEF PerSide
<1>8. Backed'
  BY <1>4, <1>6, SidesAre DEF Backed
<1>9. pot = Zero
  BY <1>1 DEF DrainedIsEmpty
<1> QED
  BY <1>1, <1>2, <1>3, <1>4, <1>5, <1>7, <1>8, <1>9, BooksKept

\* Nothing of the books moves: pauses, waits and gifts.
LEMMA QuietStep ==
  ASSUME IInv, PausesTyped', UNCHANGED <<applyDust, bookVars>>,
         pending' \in Nat \cup {None},
         \/ UNCHANGED snapshot
         \/ /\ drained /\ snapshot.wait > 0
            /\ snapshot' = [snapshot EXCEPT !.wait = @ - 1],
         bank' \in PerSide, \A s \in Sides : bank'[s] >= bank[s]
  PROVE  IInv'
<1>1. TypeOK /\ Backed /\ DrainedIsEmpty
  BY DEF IInv
<1>2. /\ UNCHANGED <<applyDust, reserve, total, feeReserve, growth, positions, pot>>
      /\ pot' \in PerSide /\ bank \in PerSide
  BY <1>1 DEF TypeOK, bookVars
<1>3. /\ snapshot' \in Snapshot \cup {None} /\ (drained' <=> drained)
      /\ drained => /\ snapshot'.reserve = snapshot.reserve
                    /\ snapshot'.fees = snapshot.fees
                    /\ snapshot'.total = snapshot.total
                    /\ snapshot'.claimed = snapshot.claimed
                    /\ snapshot'.swept = snapshot.swept
  <2>1. CASE UNCHANGED snapshot
    BY <1>1, <2>1 DEF TypeOK, drained
  <2>2. CASE /\ drained /\ snapshot.wait > 0
             /\ snapshot' = [snapshot EXCEPT !.wait = @ - 1]
    <3>1. snapshot \in Snapshot
      BY <1>1, <2>2 DEF TypeOK, drained
    <3>2. snapshot.wait - 1 \in Nat
      BY <2>2, <3>1 DEF Snapshot
    <3>3. /\ snapshot' \in Snapshot
          /\ snapshot'.reserve = snapshot.reserve /\ snapshot'.fees = snapshot.fees
          /\ snapshot'.total = snapshot.total /\ snapshot'.claimed = snapshot.claimed
          /\ snapshot'.swept = snapshot.swept
      BY <2>2, <3>1, <3>2 DEF Snapshot
    <3> QED
      BY <2>2, <3>3, NoneAssumption DEF drained
  <2> QED
    BY <2>1, <2>2
<1>4. Backed'
  <2> SUFFICES ASSUME NEW s \in Sides
               PROVE  bank'[s] >= Booked'[s]
                        + (IF drained' /\ ~snapshot'.swept
                           THEN Escrowed'[s] - snapshot'.claimed[s] ELSE 0)
    BY DEF Backed
  <2>1. Booked' = Booked
    BY <1>2 DEF Booked, Plus
  <2>2. drained => Escrowed' = Escrowed
    BY <1>3 DEF Escrowed, Plus
  <2>3. /\ bank[s] \in Nat /\ bank'[s] \in Nat /\ bank'[s] >= bank[s]
        /\ Booked[s] \in Int
    <3>1. /\ reserve[s] \in Nat /\ feeReserve[s] \in Nat /\ pot[s] \in Nat
      BY <1>1, SidesAre DEF TypeOK
    <3> QED
      BY <1>2, <3>1, SidesAre DEF Booked, Plus
  <2>4. CASE drained /\ ~snapshot.swept
    <3>1. bank[s] >= Booked[s] + (Escrowed[s] - snapshot.claimed[s])
      BY <1>1, <2>4 DEF Backed
    <3>2. Escrowed[s] - snapshot.claimed[s] \in Int
      <4>1. snapshot \in Snapshot
        BY <1>1, <2>4 DEF TypeOK, drained
      <4>2. /\ snapshot.claimed[s] \in Nat /\ snapshot.reserve[s] \in Nat
            /\ snapshot.fees[s] \in Nat
        BY <4>1, SidesAre DEF Snapshot
      <4>3. Escrowed[s] = snapshot.reserve[s] + snapshot.fees[s]
        BY DEF Escrowed, Plus
      <4> QED
        BY <4>2, <4>3
    <3> QED
      BY <1>3, <2>1, <2>2, <2>3, <2>4, <3>1, <3>2
  <2>5. CASE ~(drained /\ ~snapshot.swept)
    <3>1. bank[s] >= Booked[s] + 0
      BY <1>1, <2>5 DEF Backed
    <3> QED
      BY <1>3, <2>1, <2>3, <2>5, <3>1
  <2> QED
    BY <2>4, <2>5
<1>5. drained => pot' = Zero
  BY <1>1, <1>2 DEF DrainedIsEmpty
<1> QED
  BY <1>2, <1>3, <1>4, <1>5, BooksKept
-----------------------------------------------------------------------------
(* The theorems. *)

LEMMA ActionsKeep ==
  ASSUME IInv, PausesTyped', Next
  PROVE  IInv'
<1>1. TypeOK /\ bank \in PerSide /\ pending \in Nat \cup {None}
  BY DEF IInv, TypeOK
<1>2. \A s \in Sides : bank[s] \in Nat
  BY <1>1, SidesAre
<1>3. \A s \in Sides : bank[s] >= bank[s]
  BY <1>2
<1>4. CASE Provide
  BY <1>4, DepositStep, AddStep DEF Provide
<1>5. CASE Withdraw
  BY <1>5, CollectStep, RemoveAllStep, RemovePartialStep, ClaimStep DEF Withdraw
<1>6. CASE TradeOrGive
  <2>1. ASSUME NEW s \in Sides, Gift(s) PROVE IInv'
    <3>1. /\ bank' = [bank EXCEPT ![s] = @ + 1]
          /\ UNCHANGED <<applyDust, bookVars, pending, snapshot>>
      BY <2>1 DEF Gift
    <3>2. bank' \in PerSide /\ \A r \in Sides : bank'[r] >= bank[r]
      BY <1>1, <1>2, <3>1 DEF PerSide
    <3> QED
      BY <1>1, <3>1, <3>2, QuietStep
  <2> QED
    BY <1>6, <2>1, SwapStep DEF TradeOrGive
<1>7. CASE Administer
  <2>1. CASE Pause \/ Unpause
    <3>1. UNCHANGED <<applyDust, bookVars, pending, snapshot, bank>>
      BY <2>1 DEF Pause, Unpause
    <3> QED
      BY <1>1, <1>3, <3>1, QuietStep
  <2>2. CASE EmergencyInitiate \/ CancelEmergencyWithdraw
    <3>1. UNCHANGED <<applyDust, bookVars, snapshot, bank>> /\ pending' \in Nat \cup {None}
      BY <2>2, LiquidityAssumption DEF EmergencyInitiate, CancelEmergencyWithdraw
    <3> QED
      BY <1>1, <1>3, <3>1, QuietStep
  <2> QED
    BY <1>7, <2>1, <2>2, DrainStep, SweepStep DEF Administer
<1>8. CASE ClaimCreatorFees
  BY <1>8, ClaimFeesStep
<1>9. CASE Tick
  <2>1. /\ UNCHANGED <<applyDust, bookVars, bank>>
        /\ pending' \in Nat \cup {None}
        /\ \/ UNCHANGED snapshot
           \/ /\ drained /\ snapshot.wait > 0
              /\ snapshot' = [snapshot EXCEPT !.wait = @ - 1]
    BY <1>1, <1>9 DEF Tick
  <2> QED
    BY <1>1, <1>3, <2>1, QuietStep
<1> QED
  BY <1>4, <1>5, <1>6, <1>7, <1>8, <1>9 DEF Next

LEMMA StartsSound ==
  ASSUME Init
  PROVE  IInv
<1>1. /\ reserve \in PerSide /\ total \in Nat /\ applyDust \in BOOLEAN
      /\ applyDust => total > 0 /\ \A s \in Sides : reserve[s] > 0
      /\ ~applyDust => reserve = Zero /\ total = 0
  <2>1. CASE applyDust = TRUE /\ reserve \in Seeds
             /\ total = IntegerSqrt(reserve[0] * reserve[1])
    <3>1. reserve \in [Sides -> Nat \ {0}]
      BY <2>1, LiquidityAssumption
    <3>2. /\ reserve \in PerSide /\ \A s \in Sides : reserve[s] \in Nat \ {0}
      BY <3>1 DEF PerSide
    <3>3. reserve[0] \in Nat \ {0} /\ reserve[1] \in Nat \ {0}
      BY <3>2, SidesAre
    <3>4. reserve[0] * reserve[1] \in Nat /\ reserve[0] * reserve[1] > 0
      BY <3>3
    <3>5. PICK n \in Nat : n = reserve[0] * reserve[1]
      BY <3>4
    <3>6. IntegerSqrt(n) \in Nat /\ (n > 0 => IntegerSqrt(n) > 0)
      BY RootType
    <3> QED
      BY <2>1, <3>2, <3>4, <3>5, <3>6
  <2>2. CASE applyDust = FALSE /\ reserve = Zero /\ total = 0
    BY <2>2, SidesAre
  <2> QED
    BY <2>1, <2>2 DEF Init
<1>2. /\ bank = reserve /\ feeReserve = Zero /\ growth = Zero /\ pot = Zero
      /\ positions = <<>> /\ paused = FALSE /\ auto = FALSE /\ closed = FALSE
      /\ pending = None /\ snapshot = None
  BY DEF Init
<1>3. TypeOK
  <2>1. positions \in Seq(Position)
    BY <1>2
  <2> QED
    BY <1>1, <1>2, <2>1, SidesAre DEF TypeOK
<1>4. ~drained
  BY <1>2 DEF drained
<1>5. PositionsSane
  BY <1>2 DEF PositionsSane
<1>6. DOMAIN positions = {}
  BY <1>2
<1>7. SumOver(Liquidities) = 0 /\ \A s \in Sides : SumOver(Weights(s)) = 0
  <2>1. \A f : Total(f, {}) = 0
    BY TotalZero
  <2>2. DOMAIN Liquidities = {} /\ \A s \in Sides : DOMAIN Weights(s) = {}
    BY <1>6 DEF Liquidities, Weights
  <2> QED
    BY <2>1, <2>2 DEF SumOver
<1>8. LiquidityOwned
  BY <1>1, <1>2, <1>7 DEF LiquidityOwned
<1>9. FeesWeighed
  <2>1. \A s \in Sides : Unit * feeReserve[s] = 0
    BY <1>2, SidesAre, LiquidityAssumption
  <2> QED
    BY <1>7, <2>1 DEF FeesWeighed
<1>10. DrainedIsEmpty /\ EscrowCovers /\ AutoPauses
  BY <1>2, <1>4 DEF DrainedIsEmpty, EscrowCovers, AutoPauses
<1>11. Backed
  <2>1. \A s \in Sides : Booked[s] = reserve[s] + 0 + 0 /\ reserve[s] \in Nat
    BY <1>1, <1>2, SidesAre DEF Booked, Plus
  <2> QED
    BY <1>2, <1>4, <2>1 DEF Backed
<1> QED
  BY <1>3, <1>5, <1>8, <1>9, <1>10, <1>11 DEF IInv

\* Every step of a pool keeps types, ownership of the liquidity, the fees
\* before rounding, the escrow, the pauses and the backing together.
THEOREM LiquidityInductive == Spec => []IInv
<1>1. Init => IInv
  BY StartsSound
<1>2. IInv /\ [Next]_vars => IInv'
  <2> SUFFICES ASSUME IInv, [Next]_vars PROVE IInv'
    OBVIOUS
  <2>1. PausesTyped'
    BY PausesStep DEF IInv
  <2>2. CASE Next
    BY <2>1, <2>2, ActionsKeep
  <2>3. CASE UNCHANGED vars
    <3>1. /\ UNCHANGED <<applyDust, bookVars>> /\ UNCHANGED snapshot
          /\ pending' = pending /\ bank' = bank
      BY <2>3 DEF vars
    <3>2. /\ bank' \in PerSide /\ pending' \in Nat \cup {None}
          /\ \A s \in Sides : bank[s] \in Nat
      BY <3>1, SidesAre DEF IInv, TypeOK
    <3>3. \A s \in Sides : bank'[s] >= bank[s]
      BY <3>1, <3>2
    <3> QED
      BY <2>1, <3>1, <3>2, <3>3, QuietStep
  <2> QED
    BY <2>2, <2>3
<1> QED
  BY <1>1, <1>2, PTL DEF Spec

\* TypeOK: every checked subtraction of the handlers succeeds.
THEOREM LiquidityTypes == Spec => []TypeOK
<1>1. IInv => TypeOK
  BY DEF IInv
<1> QED
  BY <1>1, LiquidityInductive, PTL

\* Backed: the pool holds what its books and its escrow owe.
THEOREM PoolIsBacked == Spec => []Backed
<1>1. IInv => Backed
  BY DEF IInv
<1> QED
  BY <1>1, LiquidityInductive, PTL

\* PausesHold: no deposit reopens a pool the factory closed.
THEOREM PausesAreHeld == Spec => []PausesHold
<1>1. IInv => PausesHold
  BY DEF IInv, AutoPauses, PausesHold
<1> QED
  BY <1>1, LiquidityInductive, PTL

\* EscrowCovers: nobody comes last in the escrow.
THEOREM EscrowIsEnough == Spec => []EscrowCovers
<1>1. IInv => EscrowCovers
  BY DEF IInv
<1> QED
  BY <1>1, LiquidityInductive, PTL
-----------------------------------------------------------------------------
(* Fees and the worth of a share. *)

\* FeesCovered: what is rounded adds up to no more than what it is rounded
\* from, and that is weighed.
LEMMA FeesFit ==
  ASSUME IInv, ~drained, NEW s \in Sides
  PROVE  SumOver([p \in DOMAIN positions |-> Accrued(positions[p], s)]) <= feeReserve[s]
<1> DEFINE D == DOMAIN positions
           g == [p \in D |-> Accrued(positions[p], s)]
           f == Weights(s)
<1>1. TypeOK /\ PositionsSane /\ FeesWeighed
  BY DEF IInv
<1>2. IsFiniteSet(D) /\ DOMAIN g = D /\ growth \in PerSide
  BY <1>1, DomainFinite DEF TypeOK
<1>3. /\ Total(f, D) \in Nat /\ Total(f, D) <= Unit * feeReserve[s]
      /\ feeReserve[s] \in Nat /\ Unit \in Nat \ {0}
  <2>1. SumOver(Weights(s)) \in Nat /\ SumOver(Weights(s)) = Total(Weights(s), D)
    BY <1>1, SumTypes
  <2>2. SumOver(Weights(s)) <= Unit * feeReserve[s]
    BY <1>1 DEF FeesWeighed
  <2> QED
    BY <1>1, <2>1, <2>2, SidesAre, LiquidityAssumption DEF TypeOK
<1>4. ASSUME NEW p \in D
      PROVE  f[p] \in Nat /\ g[p] \in Nat /\ g[p] * Unit <= f[p] * 1
  <2> DEFINE pos == positions[p]
             e == Earned(pos.liquidity, pos, s)
             u == pos.unclaimed[s]
             w == pos.liquidity * (growth[s] - pos.last[s])
  <2>1. pos \in Position /\ pos.last[s] <= growth[s]
    BY <1>1, DomainFinite DEF PositionsSane
  <2>2. pos.liquidity \in Nat /\ u \in Nat
    BY <2>1, SidesAre DEF Position
  <2>3. e \in Nat /\ Unit * e <= w
    BY <1>2, <2>1, <2>2, FeeFacts
  <2>4. f[p] \in Nat /\ f[p] = w + Unit * u /\ growth[s] - pos.last[s] \in Nat
    BY <1>1, WeightTypes DEF Weight
  <2>5. g[p] = e + u
    BY DEF Accrued
  <2>6. w \in Nat
    BY <2>2, <2>4
  <2> HIDE DEF e, u, w, pos, f, g
  <2>7. (e + u) * Unit = Unit * e + Unit * u /\ Unit * e \in Nat /\ Unit * u \in Nat
    BY <1>3, <2>2, <2>3
  <2> QED
    BY <2>2, <2>3, <2>4, <2>5, <2>6, <2>7
<1> HIDE DEF f, g
<1>5. PICK h, k : h = f /\ k = g
  OBVIOUS
<1>6. \A p \in D : h[p] \in Nat /\ k[p] \in Nat /\ k[p] * Unit <= h[p] * 1
  BY <1>4, <1>5
<1>7. Total(k, D) * Unit <= Total(h, D) * 1
  <2>1. 1 \in Nat \ {0}
    OBVIOUS
  <2> HIDE DEF D
  <2> QED
    BY <1>2, <1>3, <1>6, <2>1, TotalShares
<1>8. Total(k, D) \in Nat
  BY <1>2, <1>6, TotalType
<1>9. Total(k, D) <= feeReserve[s]
  <2>1. PICK x \in Nat, y \in Nat, z \in Nat :
          x = Total(k, D) /\ y = feeReserve[s] /\ z = Total(h, D)
    BY <1>3, <1>5, <1>8
  <2>2. x * Unit <= z /\ z <= Unit * y
    BY <1>3, <1>5, <1>7, <2>1
  <2>3. x * Unit \in Nat /\ Unit * y \in Nat
    BY <1>3
  <2>4. x > y => x * Unit > Unit * y
    <3>1. x >= y + 1 => x * Unit >= (y + 1) * Unit
      BY <1>3
    <3>2. (y + 1) * Unit = Unit * y + Unit
      BY <1>3
    <3> QED
      BY <1>3, <2>3, <3>1, <3>2
  <2> QED
    BY <2>1, <2>2, <2>3, <2>4
<1>10. SumOver(k) = Total(k, D)
  BY <1>2, <1>5 DEF SumOver
<1> QED
  BY <1>5, <1>9, <1>10 DEF g

\* Where each side's reserve keeps up with the liquidity, so does the product.
LEMMA ProductKept ==
  ASSUME NEW a \in Nat, NEW b \in Nat, NEW c \in Nat, NEW d \in Nat,
         NEW t \in Nat, NEW u \in Nat, a * u <= c * t, b * u <= d * t
  PROVE  a * b * u * u <= c * d * t * t
<1>1. PICK x \in Nat, y \in Nat, z \in Nat, w \in Nat :
        x = a * u /\ y = c * t /\ z = b * u /\ w = d * t
  OBVIOUS
<1>2. x * z <= y * w
  <2>1. x * z <= y * z /\ y * z <= y * w
    BY <1>1
  <2>2. x * z \in Nat /\ y * z \in Nat /\ y * w \in Nat
    OBVIOUS
  <2> QED
    BY <2>1, <2>2
<1>3. a * b * u * u = (a * u) * (b * u) /\ c * d * t * t = (c * t) * (d * t)
  OBVIOUS
<1> QED
  BY <1>1, <1>2, <1>3

\* What ShareValueNeverFalls says of a step.
ValueHolds ==
  reserve[0] * reserve[1] * total' * total'
    <= reserve'[0] * reserve'[1] * total * total

\* A step that keeps both sides up with the liquidity.
LEMMA SidesKeepUp ==
  ASSUME TypeOK, reserve' \in PerSide, total' \in Nat,
         \A s \in Sides : reserve[s] * total' <= reserve'[s] * total
  PROVE  ValueHolds
<1>1. PICK a \in Nat, b \in Nat, c \in Nat, d \in Nat, t \in Nat, u \in Nat :
        /\ a = reserve[0] /\ b = reserve[1] /\ c = reserve'[0] /\ d = reserve'[1]
        /\ t = total /\ u = total'
  BY SidesAre DEF TypeOK
<1>2. a * u <= c * t /\ b * u <= d * t
  BY <1>1, SidesAre
<1>3. a * b * u * u <= c * d * t * t
  BY <1>2, ProductKept
<1> QED
  BY <1>1, <1>3 DEF ValueHolds

\* A provider pays at least what the liquidity is worth.
LEMMA ProvideKeepsUp ==
  ASSUME IInv, IInv', ~drained, total > 0, NEW offer \in Offers,
         reserve' = Plus(reserve, TakenOf(offer)),
         total' = total + LiquidityFor(TakenOf(offer))
  PROVE  ValueHolds
<1>1. TypeOK /\ LiquidityOwned /\ reserve' \in PerSide /\ total' \in Nat
  BY DEF IInv, TypeOK
<1>2. PICK t \in PerSide : t = TakenOf(offer)
  <2>1. offer \in PerSide
    BY LiquidityAssumption
  <2> QED
    BY <1>1, <2>1, TakenType
<1>3. PICK l \in Nat : l = LiquidityFor(t)
  BY <1>1, LiquidityFacts
<1>4. \A s \in Sides : reserve[s] * l <= total * t[s]
  BY <1>1, <1>3, LiquidityFacts
<1>5. ASSUME NEW s \in Sides PROVE reserve[s] * total' <= reserve'[s] * total
  <2>1. reserve[s] \in Nat /\ t[s] \in Nat /\ total \in Nat
    BY <1>1, SidesAre DEF TypeOK
  <2>2. PICK r \in Nat, x \in Nat, k \in Nat : r = reserve[s] /\ x = t[s] /\ k = total
    BY <2>1
  <2>3. reserve'[s] = r + x /\ total' = k + l
    BY <1>2, <1>3, <2>2 DEF Plus
  <2>4. r * l <= k * x
    BY <1>4, <2>2
  <2>5. r * (k + l) = r * k + r * l /\ (r + x) * k = r * k + k * x
        /\ r * k \in Nat /\ r * l \in Nat /\ k * x \in Nat
    OBVIOUS
  <2>6. r * (k + l) <= (r + x) * k
    BY <2>4, <2>5
  <2> QED
    BY <2>2, <2>3, <2>6
<1> QED
  BY <1>1, <1>5, SidesKeepUp

\* Who leaves takes at most what the liquidity is worth.
LEMMA RemovalKeepsUp ==
  ASSUME IInv, IInv', ~drained, NEW p \in DOMAIN positions, NEW a \in Nat,
         a <= Removable(positions[p]), Removes(a)
  PROVE  ValueHolds
<1>1. TypeOK /\ reserve' \in PerSide /\ total' \in Nat
  BY DEF IInv, TypeOK
<1>2. \A s \in Sides :
        (reserve[s] - ShareOf(reserve, a, total)[s]) * total >= reserve[s] * (total - a)
  BY RemovedShare
<1>3. /\ \A s \in Sides : reserve'[s] = reserve[s] - ShareOf(reserve, a, total)[s]
      /\ total' = total - a
  BY DEF Removes, Less
<1>4. ASSUME NEW s \in Sides PROVE reserve[s] * total' <= reserve'[s] * total
  <2>1. /\ reserve[s] \in Nat /\ reserve'[s] \in Nat /\ total \in Nat /\ total' \in Nat
        /\ reserve'[s] * total >= reserve[s] * total'
    BY <1>1, <1>2, <1>3, SidesAre DEF TypeOK
  <2>2. reserve'[s] * total \in Nat /\ reserve[s] * total' \in Nat
    BY <2>1
  <2> QED
    BY <2>1, <2>2
<1> QED
  BY <1>1, <1>4, SidesKeepUp

\* A trader leaves the product at least what it was.
LEMMA SwapKeepsUp ==
  ASSUME IInv, IInv', NEW s \in Sides, NEW amount \in Amounts, NEW skew \in Skews,
         Swap(s, amount, skew)
  PROVE  ValueHolds
<1> DEFINE gross == (reserve[Other(s)] * amount) \div (reserve[s] + amount)
<1>1. TypeOK /\ reserve \in PerSide /\ reserve' \in PerSide /\ total' = total /\ total \in Nat
  BY DEF IInv, TypeOK, Swap
<1>2. /\ reserve[s] * reserve[Other(s)]
           <= (reserve[s] + amount) * (reserve[Other(s)] - gross)
  BY SwapFacts
<1>3. reserve' = [reserve EXCEPT ![s] = @ + amount, ![Other(s)] = @ - gross]
  BY DEF Swap
<1> HIDE DEF gross
<1>4. /\ reserve'[s] = reserve[s] + amount /\ reserve'[Other(s)] = reserve[Other(s)] - gross
  BY <1>1, <1>3, SidesAre DEF PerSide
<1>5. PICK a \in Nat, b \in Nat, c \in Nat, d \in Nat, t \in Nat :
        /\ a = reserve[0] /\ b = reserve[1] /\ c = reserve'[0] /\ d = reserve'[1]
        /\ t = total
  BY <1>1, SidesAre
<1>6. a * b <= c * d
  <2>1. CASE s = 0
    BY <1>2, <1>4, <1>5, <2>1 DEF Other
  <2>2. CASE s = 1
    <3>1. b * a <= d * c
      BY <1>2, <1>4, <1>5, <2>2 DEF Other
    <3> QED
      BY <3>1
  <2> QED
    BY <2>1, <2>2 DEF Sides
<1>7. a * b * t * t <= c * d * t * t
  <2>1. PICK x \in Nat, y \in Nat : x = a * b /\ y = c * d
    OBVIOUS
  <2>2. x * t <= y * t /\ x * t \in Nat /\ y * t \in Nat
    BY <1>6, <2>1
  <2>3. x * t * t <= y * t * t
    BY <2>2
  <2> QED
    BY <2>1, <2>3
<1> QED
  BY <1>1, <1>5, <1>7 DEF ValueHolds

\* Nothing else moves the reserves of a pool that is not drained by it.
LEMMA StillKeepsUp ==
  ASSUME TypeOK, UNCHANGED <<reserve, total>>
  PROVE  ValueHolds
<1>1. \A s \in Sides : reserve[s] * total \in Nat
  BY SidesAre DEF TypeOK
<1> QED
  BY <1>1, SidesKeepUp DEF TypeOK

LEMMA ValueStep ==
  ASSUME IInv, IInv', Next, ~drained', total > 0, total' > 0
  PROVE  ValueHolds
<1>1. TypeOK
  BY DEF IInv
<1>2. CASE Provide
  BY <1>2, ProvideKeepsUp DEF Provide, Deposit, AddToPosition, WritableForDeposit
<1>3. CASE Withdraw
  <2>1. PICK p \in DOMAIN positions :
          \/ CollectFees(p) \/ RemoveAllLiquidity(p)
          \/ \E amount \in Removals : RemovePartialLiquidity(p, amount)
          \/ ClaimEmergencyShare(p)
    BY <1>3 DEF Withdraw
  <2>2. CASE CollectFees(p)
    BY <1>1, <2>2, StillKeepsUp DEF CollectFees
  <2>3. CASE RemoveAllLiquidity(p)
    <3>1. ~drained /\ Removes(Removable(positions[p]))
      BY <2>3 DEF RemoveAllLiquidity, Removes, WritableForRemove
    <3>2. PICK a \in Nat : a = Removable(positions[p])
      BY <3>1, RemovableType
    <3> QED
      BY <3>1, <3>2, RemovalKeepsUp
  <2>4. ASSUME NEW a \in Removals, RemovePartialLiquidity(p, a)
        PROVE  ValueHolds
    <3>1. ~drained /\ Removes(a) /\ a < Removable(positions[p])
      BY <2>4 DEF RemovePartialLiquidity, Removes, WritableForRemove
    <3>2. a \in Nat /\ Removable(positions[p]) \in Nat
      BY <3>1, LiquidityAssumption, RemovableType
    <3>3. a <= Removable(positions[p])
      BY <3>1, <3>2
    <3> QED
      BY <3>1, <3>2, <3>3, RemovalKeepsUp
  <2>5. CASE ClaimEmergencyShare(p)
    BY <1>1, <2>5, StillKeepsUp DEF ClaimEmergencyShare
  <2> QED
    BY <2>1, <2>2, <2>3, <2>4, <2>5
<1>4. CASE TradeOrGive
  <2>1. ASSUME NEW s \in Sides, Gift(s) PROVE ValueHolds
    BY <1>1, <2>1, StillKeepsUp DEF Gift, bookVars
  <2> QED
    BY <1>4, <2>1, SwapKeepsUp DEF TradeOrGive
<1>5. CASE Administer
  <2>1. CASE EmergencyDrain
    <3>1. total' = 0
      BY <2>1 DEF EmergencyDrain
    <3> QED
      BY <3>1
  <2>2. CASE SweepUnclaimedEmergencyShares
    BY <1>1, <2>2, StillKeepsUp DEF SweepUnclaimedEmergencyShares, bookVars
  <2>3. CASE \/ Pause \/ Unpause \/ EmergencyInitiate \/ CancelEmergencyWithdraw
    BY <1>1, <2>3, StillKeepsUp
       DEF Pause, Unpause, EmergencyInitiate, CancelEmergencyWithdraw, bookVars
  <2> QED
    BY <1>5, <2>1, <2>2, <2>3 DEF Administer
<1>6. CASE ClaimCreatorFees
  BY <1>1, <1>6, StillKeepsUp DEF ClaimCreatorFees
<1>7. CASE Tick
  BY <1>1, <1>7, StillKeepsUp DEF Tick, bookVars
<1> QED
  BY <1>2, <1>3, <1>4, <1>5, <1>6, <1>7 DEF Next

\* FeesCovered: the cap of a collection never cuts a provider short.
THEOREM FeesAreCovered == Spec => []FeesCovered
<1>1. IInv => FeesCovered
  BY FeesFit DEF FeesCovered
<1> QED
  BY <1>1, LiquidityInductive, PTL

\* ShareValueNeverFalls: every rounding favours those who stay.
THEOREM ShareIsKept == Spec => ShareValueNeverFalls
<1>1. IInv /\ IInv' /\ [Next]_vars
        => [~drained' /\ total > 0 /\ total' > 0 => ValueHolds]_vars
  <2> SUFFICES ASSUME IInv, IInv', Next, ~drained', total > 0, total' > 0 PROVE ValueHolds
    OBVIOUS
  <2> QED
    BY ValueStep
<1>2. [~drained' /\ total > 0 /\ total' > 0 => ValueHolds]_vars
        <=> [~drained' /\ total > 0 /\ total' > 0 =>
               reserve[0] * reserve[1] * total' * total'
                 <= reserve'[0] * reserve'[1] * total * total]_vars
  BY DEF ValueHolds
<1> QED
  BY <1>1, <1>2, LiquidityInductive, PTL DEF Spec, ShareValueNeverFalls
=============================================================================
