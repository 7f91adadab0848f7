--------------------------- MODULE CapDrawsProofs ---------------------------
(***************************************************************************)
(* The quantiles that the policy reads off a group's draws exist for any   *)
(* number of draws, grow with the draws and scale with them.  From this:   *)
(* a higher price or a larger reserve only makes CAP refuse more, and with *)
(* the price 0 the balance does not matter.                                *)
(***************************************************************************)
EXTENDS CapDraws, FiniteSetTheorems, WellFoundedInduction, TLAPS

Index == 1..Draws
Below(x, v) == {i \in Index : x[i] < v}
UpTo(x, v) == {i \in Index : x[i] <= v}

(* The positive part of an integer is a natural number not below it.       *)
LEMMA PosType == \A x \in Int : Pos(x) \in Nat /\ Pos(x) >= x /\ (x >= 0 => Pos(x) = x)
BY DEF Pos

(* Sets of indices are finite, and ordered by inclusion as by size.        *)
LEMMA IndexSets ==
    ASSUME NEW S \in SUBSET Index, NEW T \in SUBSET S
    PROVE  /\ Cardinality(S) \in Nat /\ Cardinality(T) \in Nat
           /\ Cardinality(T) <= Cardinality(S)
           /\ Cardinality(T) = Cardinality(S) => T = S
<1>1. IsFiniteSet(Index) /\ Cardinality(Index) = Draws
  BY FS_Interval, DrawsAssumption DEF Index
<1>2. IsFiniteSet(S)
  BY <1>1, FS_Subset
<1>3. IsFiniteSet(T) /\ Cardinality(T) <= Cardinality(S)
          /\ (Cardinality(S) = Cardinality(T) => S = T)
  BY <1>2, FS_Subset
<1> QED
  BY <1>2, <1>3, FS_CardinalityType

(* A set of naturals that is not empty has a least member.                 *)
LEMMA LeastNatural ==
    ASSUME NEW N \in SUBSET Nat, N # {}
    PROVE  \E m \in N : \A n \in N : m <= n
<1>1. IsWellFoundedOn(OpToRel(<, Nat), Nat)
  BY NatLessThanWellFounded
<1>2. \E x \in N : \A y \in N : ~(<<y, x>> \in OpToRel(<, Nat))
  BY <1>1, WFMin
<1>3. PICK m \in N : \A n \in N : ~(<<n, m>> \in OpToRel(<, Nat))
  BY <1>2
<1>4. \A n \in N : ~(n < m)
  BY <1>3 DEF OpToRel
<1> QED
  BY <1>4

(* Among some of the values there is a greatest.                           *)
LEMMA GreatestValue ==
    ASSUME NEW x \in Sample, NEW J \in SUBSET Index, J # {}
    PROVE  \E j \in J : \A i \in J : x[i] <= x[j]
<1> DEFINE Above(j) == {i \in J : x[i] > x[j]}
           Sizes == {Cardinality(Above(j)) : j \in J}
<1>1. \A j \in J : Cardinality(Above(j)) \in Nat
  BY IndexSets
<1>2. PICK m \in Sizes : \A n \in Sizes : m <= n
  <2>1. Sizes \in SUBSET Nat /\ Sizes # {}
    BY <1>1
  <2> QED
    BY <2>1, LeastNatural
<1>3. PICK j \in J : m = Cardinality(Above(j))
  BY <1>2
<1>0. \A i \in J : x[i] \in Int
  BY DEF Sample, Index
<1>4. SUFFICES ASSUME NEW i \in J, x[i] > x[j] PROVE FALSE
  BY <1>0
<1>5. /\ Above(i) \subseteq Above(j)
      /\ i \in Above(j) /\ i \notin Above(i)
  <2>1. \A h \in J : x[h] > x[i] => x[h] > x[j]
    BY <1>0, <1>4
  <2>2. ~(x[i] > x[i])
    BY <1>0
  <2> QED
    BY <1>4, <2>1, <2>2
<1>6. Cardinality(Above(i)) < Cardinality(Above(j))
  <2>1. Above(j) \in SUBSET Index /\ Above(i) \in SUBSET Above(j) /\ Above(i) # Above(j)
    BY <1>5
  <2> HIDE DEF Above
  <2> QED
    BY <2>1, IndexSets
<1>7. m <= Cardinality(Above(i))
  BY <1>2
<1> QED
  BY <1>1, <1>3, <1>6, <1>7

-----------------------------------------------------------------------------
(* The k-th smallest value exists, whatever the draws.                     *)
LEMMA OrderExists ==
    ASSUME NEW x \in Sample, NEW k \in Index
    PROVE  \E i \in Index : IsOrder(x, k, x[i])
<1> DEFINE High == {i \in Index : k <= Cardinality(UpTo(x, x[i]))}
           Sizes == {Cardinality(Below(x, x[i])) : i \in High}
<1>1. \A v : Below(x, v) \in SUBSET Index /\ UpTo(x, v) \in SUBSET Index
  BY DEF Below, UpTo
<1>2. \A v : Cardinality(Below(x, v)) \in Nat /\ Cardinality(UpTo(x, v)) \in Nat
  BY <1>1, IndexSets
<1>3. High # {}
  <2>1. 1 \in Index
    BY DrawsAssumption DEF Index
  <2>2. PICK j \in Index : \A i \in Index : x[i] <= x[j]
    BY <2>1, GreatestValue
  <2>3. UpTo(x, x[j]) = Index
    BY <2>2 DEF UpTo
  <2>4. Cardinality(Index) = Draws
    BY FS_Interval, DrawsAssumption DEF Index
  <2> QED
    BY <2>3, <2>4, DrawsAssumption DEF Index
<1>4. PICK i \in High : \A h \in High :
          Cardinality(Below(x, x[i])) <= Cardinality(Below(x, x[h]))
  <2>1. Sizes \in SUBSET Nat /\ Sizes # {}
    BY <1>2, <1>3
  <2>2. PICK m \in Sizes : \A n \in Sizes : m <= n
    BY <2>1, LeastNatural
  <2>3. PICK i \in High : m = Cardinality(Below(x, x[i]))
    BY <2>2
  <2>4. \A h \in High : Cardinality(Below(x, x[h])) \in Sizes
    OBVIOUS
  <2> QED
    BY <2>2, <2>3, <2>4
<1>5. Cardinality(Below(x, x[i])) < k
  <2> SUFFICES ASSUME Cardinality(Below(x, x[i])) >= k PROVE FALSE
    BY <1>2 DEF Index
  <2>1. Below(x, x[i]) # {}
    BY FS_EmptySet DEF Index
  <2>2. PICK h \in Below(x, x[i]) : \A g \in Below(x, x[i]) : x[g] <= x[h]
    BY <1>1, <2>1, GreatestValue
  <2>3. h \in Index /\ x[h] < x[i]
    BY <2>2 DEF Below
  <2>4. UpTo(x, x[h]) = Below(x, x[i])
    BY <2>2, <2>3 DEF UpTo, Below, Sample, Index
  <2>5. h \in High
    BY <2>3, <2>4
  <2>6. Below(x, x[h]) \in SUBSET Below(x, x[i]) /\ h \notin Below(x, x[h])
    BY <2>3 DEF Below, Sample, Index
  <2>7. Cardinality(Below(x, x[h])) < Cardinality(Below(x, x[i]))
    BY <1>1, <2>2, <2>6, IndexSets
  <2> QED
    BY <1>2, <1>4, <2>5, <2>7
<1> QED
  BY <1>4, <1>5 DEF IsOrder, Below, UpTo, Index

(* Smaller draws have smaller order statistics, so there is only one.      *)
LEMMA OrdersCompare ==
    ASSUME NEW x \in Sample, NEW y \in Sample, NEW k \in Index,
           \A i \in Index : x[i] <= y[i],
           NEW v \in Int, NEW w \in Int, IsOrder(x, k, v), IsOrder(y, k, w)
    PROVE  v <= w
<1> SUFFICES ASSUME v > w PROVE FALSE
  OBVIOUS
<1>1. UpTo(y, w) \in SUBSET Below(x, v)
  BY DEF UpTo, Below, Sample, Index
<1>2. Below(x, v) \in SUBSET Index
  BY DEF Below
<1>3. Cardinality(UpTo(y, w)) <= Cardinality(Below(x, v))
  BY <1>1, <1>2, IndexSets
<1>4. Cardinality(Below(x, v)) < k /\ k <= Cardinality(UpTo(y, w))
  BY DEF IsOrder, Below, UpTo, Index
<1>5. Cardinality(Below(x, v)) \in Nat /\ Cardinality(UpTo(y, w)) \in Nat
  BY <1>1, <1>2, IndexSets
<1> QED
  BY <1>3, <1>4, <1>5 DEF Index

(* The order statistics exist: CHOOSE finds one.                           *)
LEMMA OrderIs ==
    ASSUME NEW x \in Sample, NEW k \in Index
    PROVE  Order(x, k) \in Int /\ IsOrder(x, k, Order(x, k))
<1>1. \E v \in {x[i] : i \in 1..Draws} : IsOrder(x, k, v)
  BY OrderExists DEF Index
<1> QED
  BY <1>1 DEF Order, Sample

(* ... and there is only one of each rank.                                 *)
LEMMA OrderUnique ==
    ASSUME NEW x \in Sample, NEW k \in Index, NEW v \in Int, IsOrder(x, k, v)
    PROVE  Order(x, k) = v
<1>1. \A i \in Index : x[i] <= x[i]
  BY DEF Sample, Index
<1>2. Order(x, k) \in Int /\ IsOrder(x, k, Order(x, k))
  BY OrderIs
<1>3. Order(x, k) <= v /\ v <= Order(x, k)
  BY <1>1, <1>2, OrdersCompare
<1> QED
  BY <1>2, <1>3

(* They do not fall when no value of the sample does.                      *)
LEMMA OrderMonotone ==
    ASSUME NEW x \in Sample, NEW y \in Sample, NEW k \in Index,
           \A i \in Index : x[i] <= y[i]
    PROVE  Order(x, k) <= Order(y, k)
BY OrderIs, OrdersCompare

(* Products with a positive factor compare as the numbers do.              *)
LEMMA FactorKeepsOrder ==
    ASSUME NEW c \in Nat \ {0}, NEW v \in Int, NEW w \in Int
    PROVE  /\ c * v \in Int /\ c * w \in Int
           /\ v < w <=> c * v < c * w
           /\ v <= w <=> c * v <= c * w
<1>1. c * v \in Int /\ c * w \in Int
  OBVIOUS
<1>2. \A d \in Int : d > 0 => c * d > 0
  OBVIOUS
<1>3. c * (w - v) = c * w - c * v /\ c * (v - w) = c * v - c * w
  OBVIOUS
<1>4. v < w => c * v < c * w
  <2>1. v < w => c * (w - v) > 0
    BY <1>2
  <2> QED
    BY <1>1, <1>3, <2>1
<1>5. w < v => c * w < c * v
  <2>1. w < v => c * (v - w) > 0
    BY <1>2
  <2> QED
    BY <1>1, <1>3, <2>1
<1>6. v = w => c * v = c * w
  OBVIOUS
<1> QED
  BY <1>1, <1>4, <1>5, <1>6

Scaled(c, x) == [i \in Index |-> c * x[i]]

(* A sample of integers scales to a sample of integers.                    *)
LEMMA ScaledType ==
    ASSUME NEW c \in Nat \ {0}, NEW x \in Sample
    PROVE  Scaled(c, x) \in Sample
BY DEF Scaled, Sample, Index

(* They scale with the sample.                                             *)
LEMMA OrderScales ==
    ASSUME NEW c \in Nat \ {0}, NEW x \in Sample, NEW k \in Index
    PROVE  Order(Scaled(c, x), k) = c * Order(x, k)
<1> DEFINE v == Order(x, k)
<1>1. v \in Int /\ IsOrder(x, k, v)
  BY OrderIs
<1> HIDE DEF v
<1>2. \A i \in Index : x[i] \in Int /\ Scaled(c, x)[i] = c * x[i]
  BY DEF Scaled, Sample, Index
<1>3. \A i \in Index : /\ x[i] < v <=> c * x[i] < c * v
                       /\ x[i] <= v <=> c * x[i] <= c * v
  BY <1>1, <1>2, FactorKeepsOrder
<1>4. /\ {i \in 1..Draws : Scaled(c, x)[i] < c * v} = {i \in 1..Draws : x[i] < v}
      /\ {i \in 1..Draws : Scaled(c, x)[i] <= c * v} = {i \in 1..Draws : x[i] <= v}
  BY <1>2, <1>3 DEF Index
<1>5. \E i \in 1..Draws : c * v = Scaled(c, x)[i]
  BY <1>1, <1>2 DEF IsOrder, Index
<1>6. IsOrder(Scaled(c, x), k, c * v)
  BY <1>1, <1>4, <1>5 DEF IsOrder
<1>7. c * v \in Int
  BY <1>1
<1> QED
  BY <1>6, <1>7, ScaledType, OrderUnique DEF v

-----------------------------------------------------------------------------
(* Where a quantile is read: place k, and k + 1 unless the rest is 0.      *)
Place(num) == ((Draws - 1) * num) \div AlphaDen + 1
Rest(num) == ((Draws - 1) * num) % AlphaDen

(* Both places a quantile interpolates between are ranks of the sample.    *)
LEMMA PlaceInIndex ==
    ASSUME NEW num \in 0..AlphaDen
    PROVE  /\ Place(num) \in Index /\ Rest(num) \in Nat /\ Rest(num) < AlphaDen
           /\ Rest(num) # 0 => Place(num) + 1 \in Index
<1> DEFINE a == Draws - 1
           p == a * num
           q == p \div AlphaDen
           r == p % AlphaDen
<1>1. a \in Nat /\ AlphaDen \in Nat \ {0} /\ num \in Nat /\ num <= AlphaDen
  BY DrawsAssumption
<1>2. p \in Nat /\ a * AlphaDen \in Nat
  BY <1>1
<1>3. p <= a * AlphaDen
  BY <1>1
<1>4. q \in Nat /\ r \in Nat /\ r < AlphaDen /\ p = AlphaDen * q + r
  <2> HIDE DEF p
  <2> QED
    BY <1>1, <1>2
<1> HIDE DEF p, q, r
<1>5. q <= a
  <2> SUFFICES ASSUME q >= a + 1 PROVE FALSE
    BY <1>1, <1>4
  <2>1. AlphaDen * q >= AlphaDen * (a + 1)
    BY <1>1, <1>4
  <2>2. AlphaDen * (a + 1) = a * AlphaDen + AlphaDen
    BY <1>1
  <2>3. AlphaDen * q \in Nat
    BY <1>1, <1>4
  <2> QED
    BY <1>1, <1>2, <1>3, <1>4, <2>1, <2>2, <2>3
<1>6. r # 0 => q < a
  <2> SUFFICES ASSUME r # 0, q = a PROVE FALSE
    BY <1>1, <1>4, <1>5
  <2>1. AlphaDen * q = a * AlphaDen
    BY <1>1
  <2> QED
    BY <1>2, <1>3, <1>4, <2>1
<1>7. Place(num) = q + 1 /\ Rest(num) = r
  BY DEF Place, Rest, p, q, r
<1> QED
  BY <1>1, <1>4, <1>5, <1>6, <1>7, DrawsAssumption DEF Index

(* A quantile by its place and rest.                                       *)
LEMMA QuantileIs ==
    ASSUME NEW x \in Sample, NEW num \in 0..AlphaDen
    PROVE  Quantile(x, num) =
             (AlphaDen - Rest(num)) * Order(x, Place(num))
                + (IF Rest(num) = 0 THEN 0 ELSE Rest(num) * Order(x, Place(num) + 1))
BY DEF Quantile, Place, Rest

(* A quantile is an integer.                                                *)
LEMMA QuantileType ==
    ASSUME NEW x \in Sample, NEW num \in 0..AlphaDen
    PROVE  Quantile(x, num) \in Int
<1> DEFINE r == Rest(num)
<1>1. /\ r \in Nat /\ r < AlphaDen /\ AlphaDen \in Nat
      /\ Order(x, Place(num)) \in Int
      /\ r # 0 => Order(x, Place(num) + 1) \in Int
  BY PlaceInIndex, OrderIs, DrawsAssumption
<1> QED
  BY <1>1, QuantileIs

(* A quantile does not fall when no draw of the sample does: a group whose *)
(* draws are all at least as good is not judged worse (np.quantile).       *)
THEOREM QuantileMonotone ==
    ASSUME NEW x \in Sample, NEW y \in Sample, NEW num \in 0..AlphaDen,
           \A i \in Index : x[i] <= y[i]
    PROVE  Quantile(x, num) <= Quantile(y, num)
<1> DEFINE r == Rest(num)
           s == AlphaDen - r
<1>1. r \in Nat /\ s \in Nat \ {0}
  BY PlaceInIndex, DrawsAssumption
<1>2. /\ Order(x, Place(num)) \in Int /\ Order(y, Place(num)) \in Int
      /\ Order(x, Place(num)) <= Order(y, Place(num))
  BY PlaceInIndex, OrderIs, OrderMonotone
<1>3. r # 0 => /\ Order(x, Place(num) + 1) \in Int /\ Order(y, Place(num) + 1) \in Int
               /\ Order(x, Place(num) + 1) <= Order(y, Place(num) + 1)
  BY PlaceInIndex, OrderIs, OrderMonotone
<1> HIDE DEF r, s
<1>4. s * Order(x, Place(num)) <= s * Order(y, Place(num))
  BY <1>1, <1>2, FactorKeepsOrder
<1>5. r # 0 => r * Order(x, Place(num) + 1) <= r * Order(y, Place(num) + 1)
  BY <1>1, <1>3, FactorKeepsOrder
<1>6. /\ Quantile(x, num) = s * Order(x, Place(num))
                              + (IF r = 0 THEN 0 ELSE r * Order(x, Place(num) + 1))
      /\ Quantile(y, num) = s * Order(y, Place(num))
                              + (IF r = 0 THEN 0 ELSE r * Order(y, Place(num) + 1))
  BY QuantileIs DEF r, s
<1>7. /\ s * Order(x, Place(num)) \in Int /\ s * Order(y, Place(num)) \in Int
      /\ r # 0 => /\ r * Order(x, Place(num) + 1) \in Int
                  /\ r * Order(y, Place(num) + 1) \in Int
  BY <1>1, <1>2, <1>3
<1> QED
  BY <1>4, <1>5, <1>6, <1>7

(* A quantile scales with the sample: denominators that are positive may   *)
(* be multiplied out before it is compared with zero.                      *)
THEOREM QuantileScales ==
    ASSUME NEW c \in Nat \ {0}, NEW x \in Sample, NEW num \in 0..AlphaDen
    PROVE  Quantile(Scaled(c, x), num) = c * Quantile(x, num)
<1> DEFINE r == Rest(num)
           s == AlphaDen - r
           u == Order(x, Place(num))
           v == Order(x, Place(num) + 1)
<1>1. r \in Nat /\ s \in Nat \ {0}
  BY PlaceInIndex, DrawsAssumption
<1>2. u \in Int /\ Order(Scaled(c, x), Place(num)) = c * u
  BY PlaceInIndex, OrderIs, OrderScales
<1>3. r # 0 => v \in Int /\ Order(Scaled(c, x), Place(num) + 1) = c * v
  BY PlaceInIndex, OrderIs, OrderScales
<1>4. /\ Quantile(x, num) = s * u + (IF r = 0 THEN 0 ELSE r * v)
      /\ Quantile(Scaled(c, x), num) = s * (c * u) + (IF r = 0 THEN 0 ELSE r * (c * v))
  BY <1>2, <1>3, ScaledType, QuantileIs
<1> HIDE DEF r, s, u, v
<1>5. s * (c * u) = c * (s * u) /\ (r # 0 => r * (c * v) = c * (r * v))
  BY <1>1, <1>2, <1>3
<1>6. r # 0 => c * (s * u + r * v) = c * (s * u) + c * (r * v)
  <2>1. s * u \in Int
    BY <1>1, <1>2
  <2>2. r # 0 => r * v \in Int
    BY <1>1, <1>3
  <2> HIDE DEF s
  <2> QED
    BY <2>1, <2>2
<1>7. c * (s * u + 0) = c * (s * u) + 0
  BY <1>1, <1>2
<1> QED
  BY <1>4, <1>5, <1>6, <1>7

-----------------------------------------------------------------------------
Cap(draws, lambda, b, n) == [i \in Index |-> CapDraw(draws[i], lambda, b, n)]

(* What CAP multiplies the benefit with is positive.                       *)
Weight(b, n) == b + CapEpsilon * (1 + n)

(* That factor is a positive number, which is what cap_epsilon is for.     *)
LEMMA WeightType ==
    ASSUME NEW b \in Nat, NEW n \in Nat
    PROVE  Weight(b, n) \in Nat \ {0}
<1>1. CapEpsilon \in Nat \ {0} /\ 1 + n \in Nat \ {0}
  BY DrawsAssumption
<1>2. CapEpsilon * (1 + n) \in Nat \ {0}
  BY <1>1
<1> QED
  BY <1>2 DEF Weight

(* The CAPs of the draws are a sample, each an integer combination.        *)
LEMMA CapType ==
    ASSUME NEW draws \in JointDraws, NEW lambda \in Nat, NEW b \in Nat, NEW n \in Nat
    PROVE  /\ Cap(draws, lambda, b, n) \in Sample
           /\ \A i \in Index :
                  /\ draws[i].y \in Int /\ lambda * Delta0 * Pos(draws[i].inc) \in Nat
                  /\ Cap(draws, lambda, b, n)[i]
                        = draws[i].y * Weight(b, n) - (lambda * Delta0 * Pos(draws[i].inc)) * (1 + n)
           /\ CapPositive(draws, lambda, b, n) <=> Quantile(Cap(draws, lambda, b, n), AlphaNum) > 0
<1>1. \A i \in Index : draws[i].y \in Int /\ draws[i].inc \in Int
  BY DEF JointDraws, Index
<1>2. Weight(b, n) \in Int /\ Delta0 \in Nat
  BY WeightType, DrawsAssumption
<1>3. \A i \in Index : lambda * Delta0 * Pos(draws[i].inc) \in Nat
  BY <1>1, <1>2, PosType
<1>4. \A i \in Index : Cap(draws, lambda, b, n)[i]
          = draws[i].y * Weight(b, n) - (lambda * Delta0 * Pos(draws[i].inc)) * (1 + n)
  BY DEF Cap, CapDraw, Weight
<1>5. \A i \in Index :
          draws[i].y * Weight(b, n) - (lambda * Delta0 * Pos(draws[i].inc)) * (1 + n) \in Int
  BY <1>1, <1>2, <1>3
<1>6. Cap(draws, lambda, b, n) \in [Index -> Int]
  BY <1>4, <1>5 DEF Cap
<1>7. CapPositive(draws, lambda, b, n) <=> Quantile(Cap(draws, lambda, b, n), AlphaNum) > 0
  BY DEF CapPositive, Cap, Index
<1> QED
  BY <1>1, <1>3, <1>4, <1>6, <1>7 DEF Sample, Index

(* Draw i's CAP, with the types of its parts.                              *)
DrawCap(draws, lambda, b, n, i) ==
    /\ draws[i].y \in Int
    /\ lambda * Delta0 * Pos(draws[i].inc) \in Nat
    /\ Cap(draws, lambda, b, n)[i]
          = draws[i].y * Weight(b, n) - (lambda * Delta0 * Pos(draws[i].inc)) * (1 + n)

(* ... stated draw by draw.                                                *)
LEMMA CapAt ==
    ASSUME NEW draws \in JointDraws, NEW lambda \in Nat, NEW b \in Nat, NEW n \in Nat
    PROVE  \A i \in Index : DrawCap(draws, lambda, b, n, i)
<1>1. \A j \in Index :
          /\ draws[j].y \in Int /\ lambda * Delta0 * Pos(draws[j].inc) \in Nat
          /\ Cap(draws, lambda, b, n)[j]
                = draws[j].y * Weight(b, n) - (lambda * Delta0 * Pos(draws[j].inc)) * (1 + n)
  BY CapType
<1> QED
  BY <1>1, Zenon DEF DrawCap

(* CAP that is positive stays so when each draw of it, both multiplied by  *)
(* something positive, is not less.                                        *)
LEMMA ScaledCompare ==
    ASSUME NEW x \in Sample, NEW y \in Sample, NEW c \in Nat \ {0}, NEW d \in Nat \ {0},
           \A i \in Index : c * x[i] <= d * y[i], Quantile(x, AlphaNum) > 0
    PROVE  Quantile(y, AlphaNum) > 0
<1>1. AlphaNum \in 0..AlphaDen
  BY DrawsAssumption
<1>2. Quantile(x, AlphaNum) \in Int /\ Quantile(y, AlphaNum) \in Int
  BY <1>1, QuantileType
<1>3. \A i \in Index : Scaled(c, x)[i] <= Scaled(d, y)[i]
  BY DEF Scaled
<1>4. Quantile(Scaled(c, x), AlphaNum) <= Quantile(Scaled(d, y), AlphaNum)
  BY <1>1, <1>3, ScaledType, QuantileMonotone
<1>5. c * Quantile(x, AlphaNum) <= d * Quantile(y, AlphaNum)
  BY <1>1, <1>4, QuantileScales
<1>6. c * 0 < c * Quantile(x, AlphaNum)
  BY <1>2, FactorKeepsOrder
<1>7. d * 0 < d * Quantile(y, AlphaNum)
  <2>1. c * 0 = 0 /\ d * 0 = 0
    OBVIOUS
  <2>2. c * Quantile(x, AlphaNum) \in Int /\ d * Quantile(y, AlphaNum) \in Int
    BY <1>2
  <2> QED
    BY <1>5, <1>6, <2>1, <2>2
<1> QED
  BY <1>2, <1>7, FactorKeepsOrder

(* A group that is worth a price is worth any lower one, whatever balance  *)
(* and reserve it is judged with (_cap_draws, as select compares prices).  *)
THEOREM PriceOnlyRestricts ==
    ASSUME NEW draws \in JointDraws, NEW l \in Nat, NEW m \in Nat, l <= m,
           NEW b \in Nat, NEW n \in Nat, CapPositive(draws, m, b, n)
    PROVE  CapPositive(draws, l, b, n)
<1>0. \A i \in Index : DrawCap(draws, m, b, n, i) /\ DrawCap(draws, l, b, n, i)
  BY CapAt
<1> DEFINE x == Cap(draws, m, b, n)
           y == Cap(draws, l, b, n)
<1>1. x \in Sample /\ y \in Sample
  BY CapType
<1>2. ASSUME NEW i \in Index PROVE 1 * x[i] <= 1 * y[i]
  <2> DEFINE h == Pos(draws[i].inc)
  <2>1. h \in Nat /\ Delta0 \in Nat
    BY PosType, DrawsAssumption DEF JointDraws, Index
  <2>2. m * Delta0 * h = l * Delta0 * h + (m - l) * Delta0 * h
    <3> HIDE DEF h
    <3> QED
      BY <2>1
  <2>3. (m - l) * Delta0 * h \in Nat
    <3> HIDE DEF h
    <3>1. m - l \in Nat
      OBVIOUS
    <3> QED
      BY <2>1, <3>1
  <2>4. /\ x[i] = draws[i].y * Weight(b, n) - (m * Delta0 * h) * (1 + n)
        /\ y[i] = draws[i].y * Weight(b, n) - (l * Delta0 * h) * (1 + n)
        /\ draws[i].y * Weight(b, n) \in Int
        /\ m * Delta0 * h \in Nat /\ l * Delta0 * h \in Nat
    <3>1. /\ draws[i].y \in Int
          /\ m * Delta0 * h \in Nat /\ l * Delta0 * h \in Nat
          /\ x[i] = draws[i].y * Weight(b, n) - (m * Delta0 * h) * (1 + n)
          /\ y[i] = draws[i].y * Weight(b, n) - (l * Delta0 * h) * (1 + n)
      BY <1>0 DEF DrawCap
    <3>3. draws[i].y * Weight(b, n) \in Int
      <4> DEFINE w == Weight(b, n)
      <4>1. w \in Nat
        BY WeightType
      <4> HIDE DEF w
      <4>2. draws[i].y * w \in Int
        BY <3>1, <4>1
      <4> QED
        BY <4>2 DEF w
    <3> QED
      BY <3>1, <3>3
  <2> HIDE DEF h, x, y
  <2>5. (l * Delta0 * h) * (1 + n) <= (m * Delta0 * h) * (1 + n)
    <3>1. l * Delta0 * h <= m * Delta0 * h
      BY <2>2, <2>3, <2>4
    <3>2. \A u, v \in Nat : u <= v => u * (1 + n) <= v * (1 + n)
      OBVIOUS
    <3> QED
      BY <2>4, <3>1, <3>2
  <2>6. (l * Delta0 * h) * (1 + n) \in Nat /\ (m * Delta0 * h) * (1 + n) \in Nat
    BY <2>4
  <2> QED
    BY <2>4, <2>5, <2>6
<1>3. Quantile(x, AlphaNum) > 0
  BY CapType
<1>4. Quantile(y, AlphaNum) > 0
  <2> HIDE DEF x, y
  <2> QED
    BY <1>1, <1>2, <1>3, ScaledCompare
<1> QED
  BY <1>4, CapType

(* Sharing a balance with later opportunities only restricts: each draw's  *)
(* CAP is less, up to the factor its denominators have been moved by.      *)
THEOREM ReserveRestrictsCap ==
    ASSUME NEW draws \in JointDraws, NEW lambda \in Nat,
           NEW b \in Nat, NEW n \in Nat, CapPositive(draws, lambda, b, n)
    PROVE  CapPositive(draws, lambda, b, 0)
<1>0. \A i \in Index : DrawCap(draws, lambda, b, n, i) /\ DrawCap(draws, lambda, b, 0, i)
  <2>1. 0 \in Nat
    OBVIOUS
  <2> QED
    BY <2>1, CapAt
<1> DEFINE x == Cap(draws, lambda, b, n)
           y == Cap(draws, lambda, b, 0)
           c == Weight(b, 0)
           d == Weight(b, n)
<1>1. x \in Sample /\ y \in Sample /\ c \in Nat \ {0} /\ d \in Nat \ {0}
  BY CapType, WeightType
<1>2. d <= c * (1 + n)
  <2>1. c = b + CapEpsilon /\ d = b + CapEpsilon * (1 + n)
    BY DrawsAssumption DEF Weight
  <2>2. (b + CapEpsilon) * (1 + n) = b + b * n + CapEpsilon * (1 + n)
    BY DrawsAssumption
  <2>3. b * n \in Nat /\ CapEpsilon * (1 + n) \in Nat
    BY DrawsAssumption
  <2> HIDE DEF c, d
  <2> QED
    BY <2>1, <2>2, <2>3
<1>3. ASSUME NEW i \in Index PROVE c * x[i] <= d * y[i]
  <2> DEFINE g == draws[i].y
             r == lambda * Delta0 * Pos(draws[i].inc)
  <2>1. /\ g \in Int /\ r \in Nat
        /\ x[i] = g * d - r * (1 + n) /\ y[i] = g * c - r * (1 + 0)
    BY <1>0 DEF DrawCap
  <2> HIDE DEF g, r, x, y, c, d
  <2>2. c * x[i] = c * (g * d) - c * (r * (1 + n))
    <3>1. g * d \in Int /\ r * (1 + n) \in Int
      BY <1>1, <2>1
    <3> QED
      BY <1>1, <2>1, <3>1
  <2>3. d * y[i] = d * (g * c) - d * r
    <3>1. g * c \in Int /\ r * (1 + 0) = r
      BY <1>1, <2>1
    <3> QED
      BY <1>1, <2>1, <3>1
  <2>4. c * (g * d) = d * (g * c) /\ d * (g * c) \in Int
    BY <1>1, <2>1
  <2>5. d * r <= c * (r * (1 + n))
    <3>1. \A u, v \in Nat : u <= v => u * r <= v * r
      BY <2>1
    <3>2. c * (1 + n) \in Nat
      BY <1>1
    <3>3. d * r <= (c * (1 + n)) * r
      BY <1>1, <1>2, <3>1, <3>2
    <3>4. (c * (1 + n)) * r = c * (r * (1 + n))
      BY <1>1, <2>1
    <3> QED
      BY <3>3, <3>4
  <2>6. d * r \in Int /\ c * (r * (1 + n)) \in Int
    BY <1>1, <2>1
  <2> QED
    BY <2>2, <2>3, <2>4, <2>5, <2>6
<1>4. Quantile(x, AlphaNum) > 0
  BY CapType
<1>5. Quantile(y, AlphaNum) > 0
  <2> HIDE DEF x, y, c, d
  <2> QED
    BY <1>1, <1>3, <1>4, ScaledCompare
<1> QED
  BY <1>5, CapType

(* With the price 0 neither the balance nor the reserve matters.           *)
THEOREM FreeCapIgnoresBalance ==
    ASSUME NEW draws \in JointDraws, NEW b \in Nat, NEW n \in Nat,
           NEW e \in Nat, NEW m \in Nat, CapPositive(draws, 0, b, n)
    PROVE  CapPositive(draws, 0, e, m)
<1>0. \A i \in Index : DrawCap(draws, 0, b, n, i) /\ DrawCap(draws, 0, e, m, i)
  <2>1. 0 \in Nat
    OBVIOUS
  <2> QED
    BY <2>1, CapAt
<1> DEFINE x == Cap(draws, 0, b, n)
           y == Cap(draws, 0, e, m)
           c == Weight(e, m)
           d == Weight(b, n)
<1>1. x \in Sample /\ y \in Sample /\ c \in Nat \ {0} /\ d \in Nat \ {0}
  BY CapType, WeightType
<1>2. ASSUME NEW i \in Index PROVE c * x[i] <= d * y[i]
  <2> DEFINE g == draws[i].y
             r == 0 * Delta0 * Pos(draws[i].inc)
  <2>1. /\ g \in Int
        /\ x[i] = g * d - r * (1 + n) /\ y[i] = g * c - r * (1 + m)
    BY <1>0 DEF DrawCap
  <2>2. r = 0
    <3>1. Delta0 \in Nat /\ Pos(draws[i].inc) \in Nat
      BY PosType, DrawsAssumption DEF JointDraws, Index
    <3> QED
      BY <3>1
  <2> HIDE DEF g, r, x, y, c, d
  <2>3. x[i] = g * d /\ y[i] = g * c
    <3>1. g * d \in Int /\ g * c \in Int /\ 0 * (1 + n) = 0 /\ 0 * (1 + m) = 0
      BY <1>1, <2>1
    <3> QED
      BY <2>1, <2>2, <3>1
  <2>4. c * (g * d) = d * (g * c) /\ d * (g * c) \in Int
    BY <1>1, <2>1
  <2> QED
    BY <2>3, <2>4
<1>3. Quantile(x, AlphaNum) > 0
  BY CapType
<1>4. Quantile(y, AlphaNum) > 0
  <2> HIDE DEF x, y, c, d
  <2> QED
    BY <1>1, <1>2, <1>3, ScaledCompare
<1> QED
  BY <1>4, CapType
=============================================================================
