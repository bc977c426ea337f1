---------------------------- MODULE Totals_proofs ----------------------------
(***************************************************************************)
(* How a total moves: with the amounts it is the total of, by what is      *)
(* added to one party, and when the amounts move on by one place.          *)
(***************************************************************************)
EXTENDS Totals, Integers, FiniteSetTheorems, TLAPS

\* A unit is a pair of a party and a number.
LEMMA UnitsAre ==
  ASSUME NEW S, NEW f
  PROVE  /\ \A p \in S : \A i \in 1 .. f[p] : <<p, i>> \in Units(f, S)
         /\ \A u \in Units(f, S) : /\ u = <<u[1], u[2]>>
                                   /\ u[1] \in S /\ u[2] \in 1 .. f[u[1]]
  BY DEF Units

\* There are finitely many units.
LEMMA UnitsFinite ==
  ASSUME NEW S, IsFiniteSet(S), NEW f, \A p \in S : f[p] \in Nat
  PROVE  IsFiniteSet(Units(f, S))
<1> DEFINE Of(p) == {p} \X (1 .. f[p])
           family == {Of(p) : p \in S}
           of == [p \in S |-> Of(p)]
<1>1. ASSUME NEW p \in S PROVE IsFiniteSet(Of(p))
  <2>1. f[p] \in Int
    OBVIOUS
  <2>2. IsFiniteSet(1 .. f[p])
    BY <2>1, FS_Interval
  <2>3. IsFiniteSet({p})
    BY FS_Singleton
  <2> QED
    BY <2>2, <2>3, FS_Product
<1>2. of \in Surjection(S, family)
  BY DEF Surjection
<1>3. IsFiniteSet(family)
  BY <1>2, FS_Surjection
<1> QED
  BY <1>1, <1>3, FS_UNION DEF Units

LEMMA TotalType ==
  ASSUME NEW S, IsFiniteSet(S), NEW f, \A p \in S : f[p] \in Nat
  PROVE  Total(f, S) \in Nat
  BY UnitsFinite, FS_CardinalityType DEF Total

\* Equal amounts have equal totals.
LEMMA TotalEqual ==
  ASSUME NEW S, NEW f, NEW g, \A p \in S : f[p] = g[p]
  PROVE  Total(f, S) = Total(g, S)
<1>1. Units(f, S) = Units(g, S)
  BY DEF Units
<1> QED
  BY <1>1 DEF Total

\* Nothing adds up to nothing.
LEMMA TotalZero ==
  ASSUME NEW S, NEW f, \A p \in S : f[p] = 0
  PROVE  Total(f, S) = 0
<1>1. Units(f, S) = {}
  BY DEF Units
<1> QED
  BY <1>1, FS_EmptySet DEF Total

\* What one party gains, the total gains.
LEMMA TotalAdd ==
  ASSUME NEW S, IsFiniteSet(S), NEW f, NEW g, NEW a \in S, NEW n \in Nat,
         \A p \in S : f[p] \in Nat,
         \A p \in S : g[p] = IF p = a THEN f[p] + n ELSE f[p]
  PROVE  Total(g, S) = Total(f, S) + n
<1> DEFINE new == {a} \X (f[a] + 1 .. f[a] + n)
<1>1. IsFiniteSet(new) /\ Cardinality(new) = n
  <2> DEFINE numbers == f[a] + 1 .. f[a] + n
  <2>1. IsFiniteSet(numbers) /\ Cardinality(numbers) = n
    BY FS_Interval
  <2>2. IsFiniteSet({a}) /\ Cardinality({a}) = 1
    BY FS_Singleton
  <2> HIDE DEF numbers
  <2>3. /\ IsFiniteSet({a} \X numbers)
        /\ Cardinality({a} \X numbers) = Cardinality({a}) * Cardinality(numbers)
    BY <2>1, <2>2, FS_Product
  <2>4. Cardinality({a} \X numbers) = n
    BY <2>1, <2>2, <2>3
  <2> QED
    BY <2>3, <2>4 DEF numbers
<1>2. Units(g, S) = Units(f, S) \cup new
  <2>1. ASSUME NEW u \in Units(g, S) PROVE u \in Units(f, S) \cup new
    <3>1. u = <<u[1], u[2]>> /\ u[1] \in S /\ u[2] \in 1 .. g[u[1]]
      BY UnitsAre
    <3>2. CASE u[2] \in 1 .. f[u[1]]
      BY <3>1, <3>2, UnitsAre
    <3>3. CASE u[2] \notin 1 .. f[u[1]]
      <4>1. u[1] = a /\ u[2] \in f[a] + 1 .. f[a] + n
        BY <3>1, <3>3
      <4> QED
        BY <3>1, <4>1
    <3> QED
      BY <3>2, <3>3
  <2>2. ASSUME NEW u \in Units(f, S) PROVE u \in Units(g, S)
    <3>1. u = <<u[1], u[2]>> /\ u[1] \in S /\ u[2] \in 1 .. f[u[1]]
      BY UnitsAre
    <3>2. u[2] \in 1 .. g[u[1]]
      BY <3>1
    <3> QED
      BY <3>1, <3>2, UnitsAre
  <2>3. ASSUME NEW u \in new PROVE u \in Units(g, S)
    <3>1. u = <<u[1], u[2]>> /\ u[1] = a /\ u[2] \in 1 .. g[a]
      BY <2>3
    <3> QED
      BY <3>1, UnitsAre
  <2> QED
    BY <2>1, <2>2, <2>3
<1>3. Units(f, S) \cap new = {}
  <2> SUFFICES ASSUME NEW u \in Units(f, S), u \in new PROVE FALSE
    OBVIOUS
  <2>1. u[1] \in S /\ u[2] \in 1 .. f[u[1]]
    BY UnitsAre
  <2>2. u[1] = a /\ u[2] \in f[a] + 1 .. f[a] + n
    OBVIOUS
  <2> QED
    BY <2>1, <2>2
<1> HIDE DEF new
<1>4. IsFiniteSet(Units(f, S))
  BY UnitsFinite
<1>5. Cardinality(Units(f, S)) \in Nat
  BY <1>4, FS_CardinalityType
<1>6. Cardinality(Units(f, S) \cap new) = 0
  BY <1>3, FS_EmptySet
<1>7. Cardinality(Units(f, S) \cup new)
        = Cardinality(Units(f, S)) + Cardinality(new) - Cardinality(Units(f, S) \cap new)
  BY <1>1, <1>4, FS_Union
<1> QED
  BY <1>1, <1>2, <1>5, <1>6, <1>7 DEF Total

\* The same for the function with one value changed.
LEMMA TotalExcept ==
  ASSUME NEW S, IsFiniteSet(S), NEW f \in [S -> Nat], NEW a \in S, NEW n \in Nat
  PROVE  Total([f EXCEPT ![a] = @ + n], S) = Total(f, S) + n
<1> DEFINE g == [f EXCEPT ![a] = @ + n]
<1>1. /\ \A p \in S : f[p] \in Nat
      /\ \A p \in S : g[p] = IF p = a THEN f[p] + n ELSE f[p]
  OBVIOUS
<1> HIDE DEF g
<1>2. Total(g, S) = Total(f, S) + n
  BY <1>1, TotalAdd
<1> QED
  BY <1>2 DEF g

\* Amounts that all move on by one place, with nothing new in the first, do not
\* total more: what was in the last place is gone.
LEMMA TotalShift ==
  ASSUME NEW last \in Nat, NEW f, NEW g,
         \A i \in 0 .. last : f[i] \in Nat,
         \A i \in 0 .. last : g[i] = IF i = 0 THEN 0 ELSE f[i - 1]
  PROVE  Total(g, 0 .. last) <= Total(f, 0 .. last)
<1> DEFINE S == 0 .. last
           back == [u \in Units(g, S) |-> <<u[1] - 1, u[2]>>]
<1>1. ASSUME NEW u \in Units(g, S)
      PROVE  /\ u = <<u[1], u[2]>> /\ u[1] \in 1 .. last /\ u[2] \in Int
             /\ back[u] = <<u[1] - 1, u[2]>> /\ back[u] \in Units(f, S)
  <2>1. u = <<u[1], u[2]>> /\ u[1] \in S /\ u[2] \in 1 .. g[u[1]]
    BY UnitsAre
  <2>2. u[1] # 0
    BY <2>1
  <2>3. u[1] - 1 \in S /\ u[2] \in 1 .. f[u[1] - 1]
    BY <2>1, <2>2
  <2>4. <<u[1] - 1, u[2]>> \in Units(f, S)
    BY <2>3, UnitsAre
  <2> QED
    BY <2>1, <2>2, <2>4
<1>2. back \in Injection(Units(g, S), Units(f, S))
  <2>1. back \in [Units(g, S) -> Units(f, S)]
    BY <1>1
  <2> HIDE DEF back, S
  <2>2. ASSUME NEW u \in Units(g, S), NEW v \in Units(g, S), back[u] = back[v]
        PROVE  u = v
    <3>1. <<u[1] - 1, u[2]>> = <<v[1] - 1, v[2]>>
      BY <2>2, <1>1
    <3>2. u[1] - 1 = v[1] - 1 /\ u[2] = v[2]
      BY <3>1
    <3>3. u[1] = v[1]
      <4>1. u[1] \in 1 .. last
        BY <1>1
      <4>2. v[1] \in 1 .. last
        BY <1>1
      <4> QED
        BY <3>2, <4>1, <4>2
    <3>4. u = <<u[1], u[2]>> /\ v = <<v[1], v[2]>>
      BY <1>1
    <3> QED
      BY <3>2, <3>3, <3>4
  <2> QED
    BY <2>1, <2>2 DEF Injection, IsInjective
<1>3. IsFiniteSet(Units(f, S))
  <2>1. IsFiniteSet(S)
    BY FS_Interval
  <2>2. \A i \in S : f[i] \in Nat
    OBVIOUS
  <2> HIDE DEF S
  <2> QED
    BY <2>1, <2>2, UnitsFinite
<1> QED
  BY <1>2, <1>3, FS_Injection DEF Total

\* Smaller amounts have a smaller total.
LEMMA TotalAtMost ==
  ASSUME NEW S, IsFiniteSet(S), NEW f, NEW g,
         \A p \in S : f[p] \in Nat /\ g[p] \in Nat /\ f[p] <= g[p]
  PROVE  Total(f, S) <= Total(g, S)
<1>1. ASSUME NEW u \in Units(f, S) PROVE u \in Units(g, S)
  <2>1. u = <<u[1], u[2]>> /\ u[1] \in S /\ u[2] \in 1 .. f[u[1]]
    BY UnitsAre
  <2>2. u[2] \in 1 .. g[u[1]]
    BY <2>1
  <2> QED
    BY <2>1, <2>2, UnitsAre
<1>2. IsFiniteSet(Units(g, S))
  BY UnitsFinite
<1> QED
  BY <1>1, <1>2, FS_Subset DEF Total

\* Parties that hold nothing do not count.
LEMMA TotalOutside ==
  ASSUME NEW S, NEW A \in SUBSET S, NEW f, \A p \in S \ A : f[p] = 0
  PROVE  Total(f, S) = Total(f, A)
<1>1. ASSUME NEW u \in Units(f, S) PROVE u \in Units(f, A)
  <2>1. u = <<u[1], u[2]>> /\ u[1] \in S /\ u[2] \in 1 .. f[u[1]]
    BY UnitsAre
  <2>2. u[1] \in A
    BY <2>1
  <2> QED
    BY <2>1, <2>2, UnitsAre
<1>2. ASSUME NEW u \in Units(f, A) PROVE u \in Units(f, S)
  <2>1. u = <<u[1], u[2]>> /\ u[1] \in A /\ u[2] \in 1 .. f[u[1]]
    BY UnitsAre
  <2> QED
    BY <2>1, UnitsAre
<1>3. Units(f, S) = Units(f, A)
  BY <1>1, <1>2
<1> QED
  BY <1>3 DEF Total

\* A total of sums is the sum of the totals: the units of the second amounts
\* come after those of the first.
LEMMA TotalPlus ==
  ASSUME NEW S, IsFiniteSet(S), NEW f, NEW g, NEW h,
         \A p \in S : f[p] \in Nat /\ g[p] \in Nat /\ h[p] = f[p] + g[p]
  PROVE  Total(h, S) = Total(f, S) + Total(g, S)
<1> DEFINE after == Units(h, S) \ Units(f, S)
           moved == [u \in Units(g, S) |-> <<u[1], f[u[1]] + u[2]>>]
<1>1. ASSUME NEW u \in Units(g, S)
      PROVE  /\ u = <<u[1], u[2]>> /\ u[1] \in S /\ u[2] \in 1 .. g[u[1]]
             /\ moved[u] = <<u[1], f[u[1]] + u[2]>> /\ moved[u] \in after
  <2>1. u = <<u[1], u[2]>> /\ u[1] \in S /\ u[2] \in 1 .. g[u[1]]
    BY UnitsAre
  <2>2. f[u[1]] + u[2] \in 1 .. h[u[1]] /\ f[u[1]] + u[2] \notin 1 .. f[u[1]]
    BY <2>1
  <2>3. <<u[1], f[u[1]] + u[2]>> \in Units(h, S)
    BY <2>1, <2>2, UnitsAre
  <2>4. <<u[1], f[u[1]] + u[2]>> \notin Units(f, S)
    <3> DEFINE w == <<u[1], f[u[1]] + u[2]>>
    <3>1. w[1] = u[1] /\ w[2] = f[u[1]] + u[2]
      OBVIOUS
    <3> HIDE DEF w
    <3>2. w \notin Units(f, S)
      BY <2>2, <3>1, UnitsAre
    <3> QED
      BY <3>2 DEF w
  <2> QED
    BY <2>1, <2>3, <2>4
<1>2. moved \in [Units(g, S) -> after]
  BY <1>1
<1>3. ASSUME NEW u \in Units(g, S), NEW v \in Units(g, S), moved[u] = moved[v]
      PROVE  u = v
  <2> HIDE DEF moved, after
  <2>1. u = <<u[1], u[2]>> /\ v = <<v[1], v[2]>>
    BY <1>1
  <2>2. u[1] = v[1] /\ f[u[1]] + u[2] = f[v[1]] + v[2]
    BY <1>1, <1>3
  <2>3. u[1] \in S /\ u[2] \in 1 .. g[u[1]] /\ v[2] \in 1 .. g[v[1]]
    BY <1>1
  <2>4. u[2] = v[2]
    BY <2>2, <2>3
  <2> QED
    BY <2>1, <2>2, <2>4
<1>4. ASSUME NEW w \in after PROVE \E u \in Units(g, S) : moved[u] = w
  <2>1. w = <<w[1], w[2]>> /\ w[1] \in S /\ w[2] \in 1 .. h[w[1]]
    BY UnitsAre
  <2>2. w[2] \notin 1 .. f[w[1]]
    BY <2>1, UnitsAre
  <2>3. w[2] - f[w[1]] \in 1 .. g[w[1]]
    BY <2>1, <2>2
  <2> DEFINE u == <<w[1], w[2] - f[w[1]]>>
  <2>4. u \in Units(g, S)
    BY <2>1, <2>3, UnitsAre
  <2>5. moved[u] = <<w[1], f[w[1]] + (w[2] - f[w[1]])>>
    BY <2>4
  <2>6. f[w[1]] + (w[2] - f[w[1]]) = w[2]
    BY <2>1
  <2> QED
    BY <2>1, <2>4, <2>5, <2>6
<1> HIDE DEF after, moved
<1>5. moved \in Bijection(Units(g, S), after)
  BY <1>2, <1>3, <1>4 DEF Bijection, Injection, Surjection, IsInjective
<1>6. IsFiniteSet(Units(f, S)) /\ IsFiniteSet(Units(g, S)) /\ IsFiniteSet(Units(h, S))
  <2>1. \A p \in S : f[p] \in Nat /\ g[p] \in Nat /\ h[p] \in Nat
    OBVIOUS
  <2> QED
    BY <2>1, UnitsFinite
<1>7. Cardinality(after) = Cardinality(Units(g, S))
  BY <1>5, <1>6, FS_Bijection DEF ExistsBijection
<1>8. Units(f, S) \subseteq Units(h, S)
  <2> SUFFICES ASSUME NEW u \in Units(f, S) PROVE u \in Units(h, S)
    OBVIOUS
  <2>1. u = <<u[1], u[2]>> /\ u[1] \in S /\ u[2] \in 1 .. f[u[1]]
    BY UnitsAre
  <2>2. u[2] \in 1 .. h[u[1]]
    BY <2>1
  <2> QED
    BY <2>1, <2>2, UnitsAre
<1>9. Units(h, S) \cap Units(f, S) = Units(f, S)
  BY <1>8
<1>10. Cardinality(after) = Cardinality(Units(h, S)) - Cardinality(Units(f, S))
  <2>1. Cardinality(Units(h, S) \ Units(f, S))
          = Cardinality(Units(h, S)) - Cardinality(Units(h, S) \cap Units(f, S))
    BY <1>6, FS_Difference, Zenon
  <2> QED
    BY <1>9, <2>1, Zenon DEF after
<1>11. /\ Cardinality(Units(f, S)) \in Nat /\ Cardinality(Units(g, S)) \in Nat
       /\ Cardinality(Units(h, S)) \in Nat
  BY <1>6, FS_CardinalityType
<1> QED
  BY <1>7, <1>10, <1>11 DEF Total

\* A number below t * k has one quotient and one remainder by t, and is made of them.
LEMMA Digits ==
  ASSUME NEW n \in Nat, NEW t \in Nat \ {0}
  PROVE  /\ n \div t \in Nat /\ n % t \in 0 .. t - 1
         /\ n = t * (n \div t) + (n % t)
         /\ \A k \in Nat : n < k * t => n \div t < k
  OBVIOUS

\* Two numbers written with the same unit and a remainder below it are equal
\* only if both parts are.
LEMMA DigitsUnique ==
  ASSUME NEW t \in Nat \ {0}, NEW a \in Nat, NEW c \in Nat,
         NEW b \in 0 .. t - 1, NEW d \in 0 .. t - 1,
         a * t + b = c * t + d
  PROVE  a = c /\ b = d
<1>1. ASSUME NEW x \in Nat, NEW y \in Nat, NEW v \in 0 .. t - 1, NEW w \in 0 .. t - 1,
             x < y
      PROVE  x * t + v < y * t + w
  <2>1. x + 1 <= y /\ (x + 1) * t <= y * t
    BY <1>1
  <2>2. (x + 1) * t = x * t + t
    OBVIOUS
  <2>3. x * t \in Nat /\ y * t \in Nat
    OBVIOUS
  <2> QED
    BY <2>1, <2>2, <2>3
<1>2. a * t + b \in Nat /\ c * t + d \in Nat
  OBVIOUS
<1>3. ~(a < c) /\ ~(c < a)
  BY <1>1, <1>2
<1>4. a = c
  BY <1>3
<1> QED
  BY <1>4

\* Amounts each at most r / t of others total at most r / t of the others'
\* total: the t-th parts of the units of the first fit, in order, into the
\* r-th parts of the units of the second.
LEMMA TotalShares ==
  ASSUME NEW S, IsFiniteSet(S), NEW f, NEW g, NEW r \in Nat \ {0}, NEW t \in Nat \ {0},
         \A p \in S : f[p] \in Nat /\ g[p] \in Nat /\ g[p] * t <= f[p] * r
  PROVE  Total(g, S) * t <= Total(f, S) * r
<1> DEFINE parts == Units(g, S) \X (1 .. t)
           slots == Units(f, S) \X (1 .. r)
           at(u, j) == (u[2] - 1) * t + (j - 1)
           put(u, j) == <<<<u[1], at(u, j) \div r + 1>>, (at(u, j) % r) + 1>>
           fit == [x \in parts |-> put(x[1], x[2])]
<1>1. ASSUME NEW u \in Units(g, S), NEW j \in 1 .. t
      PROVE  /\ u[1] \in S /\ u[2] \in 1 .. g[u[1]]
             /\ at(u, j) \in Nat
             /\ at(u, j) < f[u[1]] * r
  <2>1. u[1] \in S /\ u[2] \in 1 .. g[u[1]]
    BY UnitsAre
  <2>2. /\ g[u[1]] \in Nat /\ f[u[1]] \in Nat /\ u[2] \in Nat /\ u[2] <= g[u[1]]
        /\ u[2] - 1 \in Nat
    BY <2>1
  <2>3. u[2] * t <= g[u[1]] * t /\ u[2] * t \in Nat /\ g[u[1]] * t \in Nat
        /\ (u[2] - 1) * t = u[2] * t - t /\ (u[2] - 1) * t \in Nat
    <3>1. ASSUME NEW a \in Nat, NEW b \in Nat, a <= b PROVE a * t <= b * t
      BY <3>1
    <3>2. ASSUME NEW a \in Nat PROVE a * t \in Nat /\ (a - 1) * t = a * t - t
      OBVIOUS
    <3> QED
      BY <2>2, <3>1, <3>2
  <2>4. at(u, j) \in Nat /\ at(u, j) < u[2] * t
    BY <2>2, <2>3
  <2>5. g[u[1]] * t <= f[u[1]] * r /\ f[u[1]] * r \in Nat
    BY <2>1, <2>2
  <2> HIDE DEF at
  <2> QED
    BY <2>1, <2>3, <2>4, <2>5
<1>2. ASSUME NEW u \in Units(g, S), NEW j \in 1 .. t
      PROVE  put(u, j) \in slots
  <2>1. at(u, j) \div r \in Nat /\ at(u, j) % r \in 0 .. r - 1 /\ at(u, j) \div r < f[u[1]]
    <3> HIDE DEF at
    <3>1. f[u[1]] \in Nat
      BY <1>1
    <3> QED
      BY <1>1, <3>1, Digits
  <2> HIDE DEF at
  <2>2. f[u[1]] \in Nat /\ u[1] \in S
    BY <1>1
  <2>3. at(u, j) \div r + 1 \in 1 .. f[u[1]] /\ (at(u, j) % r) + 1 \in 1 .. r
    BY <2>1, <2>2
  <2>4. <<u[1], at(u, j) \div r + 1>> \in Units(f, S)
    BY <2>2, <2>3, UnitsAre
  <2> QED
    BY <2>3, <2>4
<1>3. ASSUME NEW u \in Units(g, S), NEW v \in Units(g, S),
             NEW i \in 1 .. t, NEW j \in 1 .. t, put(u, i) = put(v, j)
      PROVE  u = v /\ i = j
  <2>1. u[1] = v[1] /\ at(u, i) \div r + 1 = at(v, j) \div r + 1
        /\ (at(u, i) % r) + 1 = (at(v, j) % r) + 1
    <3> HIDE DEF at
    <3> QED
      BY <1>3
  <2>2. at(u, i) = at(v, j)
    <3> HIDE DEF at, put
    <3>0. at(u, i) \in Nat /\ at(v, j) \in Nat
      BY <1>1
    <3>3. ASSUME NEW n \in Nat
          PROVE  n \div r \in Nat /\ n % r \in Nat /\ n = r * (n \div r) + (n % r)
      BY Digits
    <3>1. /\ at(u, i) \div r \in Nat /\ at(v, j) \div r \in Nat
          /\ at(u, i) % r \in Nat /\ at(v, j) % r \in Nat
      BY <3>0, <3>3
    <3>2. at(u, i) \div r = at(v, j) \div r /\ at(u, i) % r = at(v, j) % r
      BY <2>1, <3>1
    <3> QED
      BY <3>0, <3>2, <3>3
  <2>3. u[2] - 1 \in Nat /\ v[2] - 1 \in Nat /\ u[2] \in Nat /\ v[2] \in Nat
    <3>1. u[2] \in 1 .. g[u[1]] /\ v[2] \in 1 .. g[v[1]] /\ g[u[1]] \in Nat /\ g[v[1]] \in Nat
      BY <1>1
    <3> QED
      BY <3>1
  <2>4. u[2] - 1 = v[2] - 1 /\ i - 1 = j - 1
    <3>1. i - 1 \in 0 .. t - 1 /\ j - 1 \in 0 .. t - 1
      OBVIOUS
    <3>2. (u[2] - 1) * t + (i - 1) = (v[2] - 1) * t + (j - 1)
      BY <2>2
    <3> HIDE DEF at
    <3> DEFINE a == u[2] - 1
               c == v[2] - 1
               b == i - 1
               d == j - 1
    <3>3. a \in Nat /\ c \in Nat /\ b \in 0 .. t - 1 /\ d \in 0 .. t - 1
          /\ a * t + b = c * t + d
      BY <2>3, <3>1, <3>2
    <3> HIDE DEF a, b, c, d
    <3>4. a = c /\ b = d
      BY <3>3, DigitsUnique
    <3> QED
      BY <3>4 DEF a, b, c, d
  <2>5. u[2] = v[2] /\ i = j
    BY <2>3, <2>4
  <2>6. u = <<u[1], u[2]>> /\ v = <<v[1], v[2]>>
    BY UnitsAre
  <2> QED
    BY <2>1, <2>5, <2>6
<1> HIDE DEF put
<1>4. fit \in Injection(parts, slots)
  <2>1. \A x \in parts : x = <<x[1], x[2]>> /\ x[1] \in Units(g, S) /\ x[2] \in 1 .. t
    OBVIOUS
  <2>2. fit \in [parts -> slots]
    BY <1>2, <2>1
  <2>3. ASSUME NEW x \in parts, NEW y \in parts, fit[x] = fit[y] PROVE x = y
    <3>1. put(x[1], x[2]) = put(y[1], y[2])
      BY <2>3
    <3>2. x[1] = y[1] /\ x[2] = y[2]
      BY <1>3, <2>1, <3>1
    <3> QED
      BY <2>1, <3>2
  <2> QED
    BY <2>2, <2>3 DEF Injection, IsInjective
<1>5. IsFiniteSet(Units(f, S)) /\ IsFiniteSet(Units(g, S))
  BY UnitsFinite
<1>6. /\ IsFiniteSet(1 .. t) /\ Cardinality(1 .. t) = t
      /\ IsFiniteSet(1 .. r) /\ Cardinality(1 .. r) = r
  BY FS_Interval
<1>7. /\ IsFiniteSet(slots) /\ Cardinality(slots) = Cardinality(Units(f, S)) * r
      /\ Cardinality(parts) = Cardinality(Units(g, S)) * t
  BY <1>5, <1>6, FS_Product
<1> HIDE DEF parts, slots, fit
<1>8. Cardinality(parts) <= Cardinality(slots)
  BY <1>4, <1>7, FS_Injection
<1> QED
  BY <1>7, <1>8 DEF Total
=============================================================================
