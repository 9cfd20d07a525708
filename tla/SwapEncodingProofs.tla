------------------------- MODULE SwapEncodingProofs -------------------------
(***************************************************************************)
(* What the decoders of the contract and of the client make of a word, for *)
(* every precision, word size and unit.                                    *)
(*                                                                         *)
(* Whatever a word holds, the contract decodes a swap whose extra amounts  *)
(* exclude each other.  This discharges the part of SwapsAssumption that   *)
(* the proofs about the contract rest on.  A number that is encoded with a *)
(* fixed precision is decoded as the number, rounded down; the client and  *)
(* the contract decode the same.                                           *)
(*                                                                         *)
(* The lemmas about powers of ten are proved by induction.  The library's  *)
(* principles take a predicate as a parameter; InductiveSet takes a set.   *)
(***************************************************************************)
EXTENDS SwapEncoding, WellFoundedInduction, TLAPS

\* A swap that is released to a contract has neither a core token part nor a
\* share: the masks of all three look at the first bit of the salt header.
LEMMA PlainAddressOnly ==
  ASSUME NEW w, WillTransferToContract(w)
  PROVE  ~SwapForCoreToken(w) /\ ~ShareWithPartner(w)
BY DEF WillTransferToContract, SwapForCoreToken, ShareWithPartner

\* No header selects both a core token part and a share.
LEMMA OneMeaning ==
  ASSUME NEW w, ShareWithPartner(w)
  PROVE  ~SwapForCoreToken(w)
<1>1. "0400" \notin w.header
  <2>1. w.header \intersect {"0400", "0200"} = {"0200"}
    BY DEF ShareWithPartner
  <2>2. "0400" # "0200"
    OBVIOUS
  <2>. QED  BY <2>1, <2>2
<1>. QED  BY <1>1 DEF SwapForCoreToken

\* The contract decodes any word, encoded by a client or made up, to a swap of
\* exclusive extras.
LEMMA DecodesExclusively ==
  ASSUME NEW w
  PROVE  ExclusiveExtras(Decoded(w))
<1>1. /\ Decoded(w).toContract = WillTransferToContract(w)
      /\ Decoded(w).forCore = AmountForCoreToken(w)
      /\ Decoded(w).coreAmount = CoreTokenAmount(w)
      /\ Decoded(w).share = AmountToShare(w)
  BY DEF Decoded
<1>2. ~SwapForCoreToken(w) => AmountForCoreToken(w) = 0
  BY DEF AmountForCoreToken
<1>3. ~ShareWithPartner(w) => AmountToShare(w) = 0
  BY DEF AmountToShare
<1>4. WillTransferToContract(w)
        => AmountForCoreToken(w) = 0 /\ AmountToShare(w) = 0
  BY <1>2, <1>3, PlainAddressOnly
<1>5. AmountToShare(w) > 0 => AmountForCoreToken(w) = 0
  <2>. SUFFICES ASSUME AmountToShare(w) > 0
                PROVE  AmountForCoreToken(w) = 0
    OBVIOUS
  <2>1. AmountToShare(w) # 0
    OBVIOUS
  <2>. QED  BY <2>1, <1>2, <1>3, OneMeaning
<1>6. CoreTokenAmount(w) > 0 => AmountForCoreToken(w) > 0
  BY DEF CoreTokenAmount
<1>. QED  BY <1>1, <1>4, <1>5, <1>6 DEF ExclusiveExtras

\* What the run `encoding` checks for its words holds for all of them.
THEOREM ExtrasAreExclusive == Spec => []DecodedIsExclusive
<1>1. DecodedIsExclusive
  BY DecodesExclusively DEF DecodedIsExclusive
<1>. QED  BY <1>1, PTL

-----------------------------------------------------------------------------
\* Powers of ten

\* Every set of natural numbers has a least one.
LEMMA LeastNumber ==
  ASSUME NEW T, T \subseteq Nat, T # {}
  PROVE  \E x \in T : \A y \in T : x <= y
<1>1. PICK x \in T : \A y \in T : <<y, x>> \notin OpToRel(<, Nat)
  BY NatLessThanWellFounded, WFMin
<1>2. ASSUME NEW y \in T
      PROVE  x <= y
  <2>1. <<y, x>> \in Nat \X Nat /\ <<y, x>>[1] = y /\ <<y, x>>[2] = x
    OBVIOUS
  <2>2. ~(y < x)
    BY <1>1, <2>1 DEF OpToRel
  <2>. QED  BY <2>2
<1>. QED  BY <1>2

\* Induction, for a set in place of a predicate.
LEMMA InductiveSet ==
  ASSUME NEW T, 0 \in T, \A n \in Nat : n \in T => n + 1 \in T
  PROVE  \A n \in Nat : n \in T
<1>. DEFINE F == Nat \ T
<1>1. SUFFICES ASSUME F # {} PROVE FALSE
  OBVIOUS
<1>2. PICK x \in F : \A y \in F : x <= y
  BY <1>1, LeastNumber
<1>3. x \in Nat /\ x # 0 /\ x - 1 \in Nat
  OBVIOUS
<1>4. x - 1 \in T
  BY <1>2, <1>3
<1>. QED  BY <1>3, <1>4

\* The first n powers of ten.
PowersUpTo(g, n) == g[0] = 1 /\ \A i \in 1..n : g[i] = 10 * g[i - 1]

\* They are determined by their equation.
LEMMA PowersAreUnique ==
  ASSUME NEW m \in Nat, NEW g, NEW h, PowersUpTo(g, m), PowersUpTo(h, m)
  PROVE  \A n \in 0..m : g[n] = h[n]
<1>. DEFINE T == {n \in Nat : n <= m => g[n] = h[n]}
<1>1. 0 \in T
  BY DEF PowersUpTo
<1>2. ASSUME NEW n \in Nat, n \in T
      PROVE  n + 1 \in T
  BY <1>2 DEF PowersUpTo
<1>3. \A n \in Nat : n \in T
  <2>. HIDE DEF T
  <2>. QED  BY <1>1, <1>2, InductiveSet
<1>. QED  BY <1>3

\* And the equation has a solution.
LEMMA PowersExist ==
  ASSUME NEW m \in Nat
  PROVE  \E g : PowersUpTo(g, m)
<1>. DEFINE T == {n \in Nat : \E g : PowersUpTo(g, n)}
<1>1. 0 \in T
  <2>1. PowersUpTo([i \in {0} |-> 1], 0)
    BY DEF PowersUpTo
  <2>. QED  BY <2>1
<1>2. ASSUME NEW n \in Nat, n \in T
      PROVE  n + 1 \in T
  <2>1. PICK g : PowersUpTo(g, n)
    BY <1>2
  <2>. DEFINE h == [i \in 0..(n + 1) |-> IF i = n + 1 THEN 10 * g[n] ELSE g[i]]
  <2>2. /\ h[0] = 1 /\ h[n + 1] = 10 * h[n]
        /\ \A i \in 1..n : h[i] = g[i] /\ h[i - 1] = g[i - 1]
    BY <2>1 DEF PowersUpTo
  <2>. HIDE DEF h
  <2>3. PowersUpTo(h, n + 1)
    BY <2>1, <2>2 DEF PowersUpTo
  <2>. QED  BY <2>3
<1>3. \A n \in Nat : n \in T
  <2>. HIDE DEF T
  <2>. QED  BY <1>1, <1>2, InductiveSet
<1>. QED  BY <1>3

\* The recursive definition is one: it has a solution.
LEMMA TenToDef ==
  TenTo[0] = 1 /\ \A n \in Nat : TenTo[n + 1] = 10 * TenTo[n]
<1>. DEFINE P(n) == CHOOSE g : PowersUpTo(g, n)
            f == [n \in Nat |-> P(n)[n]]
            Eqn(g) == [n \in Nat |-> IF n = 0 THEN 1 ELSE 10 * g[n - 1]]
<1>1. \A n \in Nat : PowersUpTo(P(n), n)
  BY PowersExist
<1>. HIDE DEF P
<1>2. f[0] = 1
  BY <1>1 DEF PowersUpTo
<1>3. ASSUME NEW n \in Nat \ {0}
      PROVE  f[n] = 10 * f[n - 1]
  <2>1. PowersUpTo(P(n), n) /\ PowersUpTo(P(n - 1), n - 1)
    BY <1>1
  <2>2. PowersUpTo(P(n), n - 1)
    BY <2>1 DEF PowersUpTo
  <2>3. P(n)[n - 1] = P(n - 1)[n - 1]
    BY <2>1, <2>2, PowersAreUnique
  <2>4. P(n)[n] = 10 * P(n)[n - 1]
    BY <2>1 DEF PowersUpTo
  <2>. QED  BY <2>3, <2>4
<1>4. f = Eqn(f)
  <2>. HIDE DEF f
  <2>1. f = [n \in Nat |-> f[n]]
    BY DEF f
  <2>2. \A n \in Nat : f[n] = IF n = 0 THEN 1 ELSE 10 * f[n - 1]
    BY <1>2, <1>3
  <2>. QED  BY <2>1, <2>2
<1>5. TenTo = CHOOSE g : g = Eqn(g)
  BY DEF TenTo
<1>6. TenTo = Eqn(TenTo)
  <2>. HIDE DEF Eqn, f
  <2>. QED  BY <1>4, <1>5
<1>7. TenTo[0] = 1
  BY <1>6
<1>8. ASSUME NEW n \in Nat
      PROVE  TenTo[n + 1] = 10 * TenTo[n]
  BY <1>6
<1>. QED  BY <1>7, <1>8
\* Powers of ten are positive numbers.
LEMMA TenToPositive == \A n \in Nat : TenTo[n] \in Nat \ {0}
<1>. DEFINE T == {n \in Nat : TenTo[n] \in Nat \ {0}}
<1>1. 0 \in T
  BY TenToDef
<1>2. ASSUME NEW n \in Nat, n \in T
      PROVE  n + 1 \in T
  BY <1>2, TenToDef
<1>3. \A n \in Nat : n \in T
  <2>. HIDE DEF T
  <2>. QED  BY <1>1, <1>2, InductiveSet
<1>. QED  BY <1>3

\* They grow faster than the numbers.
LEMMA TenToGrows == \A n \in Nat : n <= TenTo[n]
<1>. DEFINE T == {n \in Nat : n <= TenTo[n]}
<1>1. 0 \in T
  BY TenToDef
<1>2. ASSUME NEW n \in Nat, n \in T
      PROVE  n + 1 \in T
  <2>1. TenTo[n + 1] = 10 * TenTo[n] /\ n <= TenTo[n] /\ TenTo[n] \in Nat \ {0}
    BY <1>2, TenToDef, TenToPositive
  <2>. QED  BY <2>1
<1>3. \A n \in Nat : n \in T
  <2>. HIDE DEF T
  <2>. QED  BY <1>1, <1>2, InductiveSet
<1>. QED  BY <1>3

\* Exponents add up.
LEMMA TenToSum ==
  ASSUME NEW m \in Nat, NEW n \in Nat
  PROVE  TenTo[m + n] = TenTo[m] * TenTo[n]
<1>. DEFINE T == {k \in Nat : TenTo[m + k] = TenTo[m] * TenTo[k]}
<1>1. 0 \in T
  <2>1. TenTo[m] \in Nat /\ TenTo[0] = 1 /\ m + 0 = m
    BY TenToDef, TenToPositive
  <2>. QED  BY <2>1
<1>2. ASSUME NEW k \in Nat, k \in T
      PROVE  k + 1 \in T
  <2>1. TenTo[m + k] = TenTo[m] * TenTo[k] /\ TenTo[k + 1] = 10 * TenTo[k]
    BY <1>2, TenToDef
  <2>2. m + (k + 1) = (m + k) + 1 /\ m + k \in Nat
    OBVIOUS
  <2>3. TenTo[m + (k + 1)] = 10 * TenTo[m + k]
    BY <2>2, TenToDef
  <2>4. TenTo[m] \in Nat /\ TenTo[k] \in Nat
    BY TenToPositive
  <2>5. 10 * (TenTo[m] * TenTo[k]) = TenTo[m] * (10 * TenTo[k])
    BY <2>4
  <2>. QED  BY <2>1, <2>3, <2>5
<1>3. \A k \in Nat : k \in T
  <2>. HIDE DEF T
  <2>. QED  BY <1>1, <1>2, InductiveSet
<1>. QED  BY <1>3

\* A larger exponent gives no smaller power.
LEMMA TenToMonotone ==
  ASSUME NEW m \in Nat, NEW n \in Nat, m <= n
  PROVE  TenTo[m] <= TenTo[n]
<1>1. n - m \in Nat /\ m + (n - m) = n
  OBVIOUS
<1>2. TenTo[n] = TenTo[m] * TenTo[n - m]
  BY <1>1, TenToSum
<1>3. TenTo[m] \in Nat \ {0} /\ TenTo[n - m] \in Nat \ {0}
  BY <1>1, TenToPositive
<1>4. ASSUME NEW a \in Nat, NEW b \in Nat \ {0}
      PROVE  a <= a * b
  OBVIOUS
<1>. QED  BY <1>2, <1>3, <1>4

\* The logarithm rounded up is between two powers of ten.
LEMMA CeilLogBounds ==
  ASSUME NEW v \in Nat \ {0}
  PROVE  /\ CeilLog10(v) \in 0..v
         /\ v <= TenTo[CeilLog10(v)]
         /\ CeilLog10(v) > 0 => v > TenTo[CeilLog10(v) - 1]
<1>. DEFINE T == {k \in Nat : v <= TenTo[k]}
<1>1. v \in T
  BY TenToGrows
<1>2. PICK k \in T : \A y \in T : k <= y
  <2>. HIDE DEF T
  <2>1. T \subseteq Nat
    BY DEF T
  <2>. QED  BY <1>1, <2>1, LeastNumber
<1>3. k \in 0..v /\ v <= TenTo[k]
  BY <1>1, <1>2
<1>4. ASSUME k > 0
      PROVE  v > TenTo[k - 1]
  <2>1. k - 1 \in Nat /\ k - 1 \notin T
    BY <1>2, <1>4
  <2>2. TenTo[k - 1] \in Nat
    BY <2>1, TenToPositive
  <2>. QED  BY <2>1, <2>2
<1>5. \E j \in 0..v : v <= TenTo[j] /\ (j > 0 => v > TenTo[j - 1])
  BY <1>3, <1>4
<1>. QED  BY <1>5 DEF CeilLog10

\* A quotient times the divisor is within the divisor of the dividend.
LEMMA DivBounds ==
  ASSUME NEW v \in Nat, NEW t \in Nat \ {0}
  PROVE  /\ v \div t \in Nat
         /\ (v \div t) * t <= v /\ v < (v \div t) * t + t
OBVIOUS

\* Division undoes the combination of a quotient and a remainder.
LEMMA DivMod ==
  ASSUME NEW l \in Nat, NEW m \in Nat \ {0}, NEW r \in 0..(m - 1)
  PROVE  (l * m + r) \div m = l /\ (l * m + r) % m = r
OBVIOUS

-----------------------------------------------------------------------------
\* Numbers of fixed precision

\* Factor is the least number of full precision.
LEMMA FactorPositive ==
  Factor \in Nat \ {0} /\ TenTo[PRECISION + 1] = 10 * Factor
BY EncodingAssumption, TenToPositive, TenToDef DEF Factor

\* What is above Factor is split into the power and the leading digits.
LEMMA DecompressScaled ==
  ASSUME NEW l \in Nat, NEW r \in 0..(9 * Factor - 1),
         l * (9 * Factor) + r > 0
  PROVE  Decompress(Factor + l * (9 * Factor) + r) = (Factor + r) * TenTo[l]
<1>. DEFINE d == Factor + l * (9 * Factor) + r
            above == d - Factor
<1>1. Factor \in Nat \ {0} /\ 9 * Factor \in Nat \ {0}
  BY FactorPositive
<1>2. l * (9 * Factor) \in Nat
  BY <1>1
<1>3. above = l * (9 * Factor) + r /\ d > Factor /\ ~(d <= Factor)
  BY <1>1, <1>2
<1>4. above \div (9 * Factor) = l /\ above % (9 * Factor) = r
  <2>1. (l * (9 * Factor) + r) \div (9 * Factor) = l
        /\ (l * (9 * Factor) + r) % (9 * Factor) = r
    BY <1>1, DivMod
  <2>. QED  BY <2>1, <1>3
<1>5. Decompress(d)
        = (Factor + (above % (9 * Factor))) * TenTo[above \div (9 * Factor)]
  <2>. HIDE DEF d
  <2>. QED  BY <1>3 DEF Decompress
<1>. QED  BY <1>4, <1>5

\* A number of few digits is encoded as it is.
LEMMA FewDigits ==
  ASSUME NEW v \in Nat \ {0}, CeilLog10(v) <= PRECISION
  PROVE  Compressed(v) = v /\ Decompress(v) = v
<1>1. CeilLog10(v) \in Nat /\ v <= TenTo[CeilLog10(v)]
  BY CeilLogBounds
<1>2. TenTo[CeilLog10(v)] <= Factor
  BY <1>1, TenToMonotone, EncodingAssumption DEF Factor
<1>3. v <= Factor
  BY <1>1, <1>2, TenToPositive, FactorPositive
<1>4. CeilLog10(v) - PRECISION - 1 < 0
  BY <1>1, EncodingAssumption
<1>. QED  BY <1>3, <1>4 DEF Compressed, Decompress

\* The others: level is the number of digits that are dropped, and digits has
\* the ones that are kept.
LEMMA ManyDigits ==
  ASSUME NEW v \in Nat \ {0}, CeilLog10(v) > PRECISION
  PROVE  \E level \in Nat, digits \in Nat :
           /\ Compressed(v) = level * (9 * Factor) + digits
           /\ digits \in Factor..(10 * Factor)
           /\ digits * TenTo[level] <= v
           /\ v < digits * TenTo[level] + TenTo[level]
           /\ TenTo[level] * Factor < v
           /\ v <= TenTo[level] * (10 * Factor)
<1>. DEFINE log == CeilLog10(v)
            level == log - PRECISION - 1
            digits == v \div TenTo[level]
<1>1. /\ log \in Nat /\ log > 0 /\ v <= TenTo[log] /\ v > TenTo[log - 1]
      /\ PRECISION \in Nat
  BY CeilLogBounds, EncodingAssumption
<1>2. /\ level \in Nat /\ ~(level < 0)
      /\ log = level + (PRECISION + 1) /\ log - 1 = level + PRECISION
  BY <1>1
<1>. HIDE DEF log
<1>3. TenTo[level] \in Nat \ {0} /\ Factor \in Nat \ {0}
  BY <1>2, TenToPositive, FactorPositive
<1>4. TenTo[log] = TenTo[level] * (10 * Factor)
  BY <1>1, <1>2, TenToSum, FactorPositive
<1>5. TenTo[log - 1] = TenTo[level] * Factor
  BY <1>1, <1>2, TenToSum DEF Factor
<1>6. Compressed(v) = level * 9 * Factor + digits
  BY <1>2 DEF Compressed, log
<1>. HIDE DEF level
<1>7. /\ digits \in Nat /\ digits * TenTo[level] <= v
      /\ v < digits * TenTo[level] + TenTo[level]
  BY <1>3, DivBounds
<1>. HIDE DEF digits
<1>8. ASSUME NEW t \in Nat \ {0}, NEW f \in Nat, NEW q \in Nat,
             q * t <= v, v < q * t + t, t * f < v, v <= t * (10 * f)
      PROVE  f <= q /\ q <= 10 * f
  <2>1. t * f < t * (q + 1) /\ t * q <= t * (10 * f)
    BY <1>8
  <2>. QED  BY <2>1
<1>9. TenTo[level] * Factor < v /\ v <= TenTo[level] * (10 * Factor)
  BY <1>1, <1>4, <1>5
<1>10. Factor <= digits /\ digits <= 10 * Factor
  BY <1>3, <1>7, <1>8, <1>9
<1>11. level * 9 * Factor = level * (9 * Factor)
  BY <1>2, <1>3
<1>. QED  BY <1>2, <1>3, <1>6, <1>7, <1>9, <1>10, <1>11

\* What the contract decodes of an encoded number is the number, rounded down
\* to the leading digits.
LEMMA CompressedIsRounded ==
  ASSUME NEW v \in Nat \ {0}
  PROVE  /\ Compressed(v) \in Nat /\ Decompress(Compressed(v)) \in Nat
         /\ Rounded(Decompress(Compressed(v)), v, 0)
<1>1. Factor \in Nat \ {0} /\ PRECISION \in Nat /\ CeilLog10(v) \in Nat
  BY FactorPositive, EncodingAssumption, CeilLogBounds
<1>2. CASE CeilLog10(v) <= PRECISION
  <2>1. Compressed(v) = v /\ Decompress(v) = v
    BY <1>2, FewDigits
  <2>2. (v - v - 0) * Factor = 0
    BY <1>1
  <2>. QED  BY <2>1, <2>2 DEF Rounded
<1>3. CASE CeilLog10(v) > PRECISION
  <2>1. PICK level \in Nat, digits \in Nat :
           /\ Compressed(v) = level * (9 * Factor) + digits
           /\ digits \in Factor..(10 * Factor)
           /\ digits * TenTo[level] <= v
           /\ v < digits * TenTo[level] + TenTo[level]
           /\ TenTo[level] * Factor < v
           /\ v <= TenTo[level] * (10 * Factor)
    BY <1>3, ManyDigits
  <2>2. /\ TenTo[level] \in Nat \ {0} /\ TenTo[level + 1] = 10 * TenTo[level]
        /\ TenTo[0] = 1
    BY TenToPositive, TenToDef
  <2>3. level * (9 * Factor) \in Nat
    BY <1>1
  <2>4. CASE digits = 10 * Factor
    <3>1. v = digits * TenTo[level]
      BY <1>1, <2>1, <2>2, <2>4
    <3>2. Compressed(v) = Factor + (level + 1) * (9 * Factor) + 0
      BY <1>1, <2>1, <2>3, <2>4
    <3>3. (level + 1) * (9 * Factor) + 0 > 0
      BY <1>1, <2>3
    <3>4. Decompress(Compressed(v)) = (Factor + 0) * TenTo[level + 1]
      BY <1>1, <3>2, <3>3, DecompressScaled
    <3>5. Decompress(Compressed(v)) = v
      BY <1>1, <2>2, <2>4, <3>1, <3>4
    <3>6. Compressed(v) \in Nat
      BY <2>1, <2>3
    <3>. QED  BY <1>1, <3>5, <3>6 DEF Rounded
  <2>5. CASE digits # 10 * Factor
    <3>. DEFINE r == digits - Factor
    <3>1. r \in 0..(9 * Factor - 1)
      BY <1>1, <2>1, <2>5
    <3>2. Compressed(v) = Factor + level * (9 * Factor) + r
      BY <1>1, <2>1, <2>3
    <3>3. level * (9 * Factor) + r > 0
      <4>1. CASE level = 0
        <5>1. v = digits /\ Factor < v
          BY <1>1, <2>1, <2>2, <4>1
        <5>. QED  BY <1>1, <2>3, <5>1
      <4>2. CASE level # 0
        <5>1. level * (9 * Factor) > 0
          BY <1>1, <4>2
        <5>. QED  BY <5>1, <2>3, <3>1, <1>1
      <4>. QED  BY <4>1, <4>2
    <3>4. Decompress(Compressed(v)) = (Factor + r) * TenTo[level]
      BY <3>1, <3>2, <3>3, DecompressScaled
    <3>5. Decompress(Compressed(v)) = digits * TenTo[level]
      BY <1>1, <3>4
    <3>6. digits * TenTo[level] \in Nat
      BY <2>2
    <3>7. ASSUME NEW d \in Nat, NEW t \in Nat, NEW f \in Nat \ {0},
                 d <= v, v < d + t, t * f < v
          PROVE  (v - d - 0) * f < v
      <4>1. v - d - 0 \in Nat /\ v - d - 0 <= t
        BY <3>7
      <4>2. ASSUME NEW a \in Nat, NEW b \in Nat, a <= b
            PROVE  a * f <= b * f
        BY <4>2
      <4>3. (v - d - 0) * f <= t * f
        BY <4>1, <4>2
      <4>4. (v - d - 0) * f \in Nat /\ t * f \in Nat
        BY <4>1
      <4>. QED  BY <3>7, <4>3, <4>4
    <3>8. (v - digits * TenTo[level] - 0) * Factor < v
      BY <1>1, <2>1, <2>2, <3>6, <3>7
    <3>9. Compressed(v) \in Nat
      BY <2>1, <2>3
    <3>. QED  BY <2>1, <3>5, <3>6, <3>8, <3>9 DEF Rounded
  <2>. QED  BY <2>4, <2>5
<1>. QED  BY <1>1, <1>2, <1>3

\* An amount that is encoded in larger units.
LEMMA RoundedInUnits ==
  ASSUME NEW a \in Nat, NEW u \in Nat \ {0}, NEW d \in Nat,
         Rounded(d, a \div u, 0)
  PROVE  Rounded(d * u, a, u)
<1>. DEFINE v == a \div u
<1>1. v \in Nat /\ v * u <= a /\ a < v * u + u
  BY DivBounds
<1>2. d <= v /\ (v - d - 0) * Factor < v
  BY DEF Rounded
<1>. HIDE DEF v
<1>3. Factor \in Nat \ {0}
  BY FactorPositive
<1>4. d * u <= v * u /\ d * u \in Nat /\ v * u \in Nat
  BY <1>1, <1>2
<1>5. (v - d) * u = v * u - d * u
  BY <1>1
<1>6. a - d * u - u < (v - d) * u
  BY <1>1, <1>4, <1>5
<1>7. (a - d * u - u) * Factor < ((v - d) * u) * Factor
  <2>1. ASSUME NEW x \in Int, NEW y \in Int, x < y, NEW f \in Nat \ {0}
        PROVE  x * f < y * f
    BY <2>1
  <2>2. a - d * u - u \in Int /\ (v - d) * u \in Int
    BY <1>1, <1>4, <1>5
  <2>. QED  BY <1>3, <1>6, <2>1, <2>2
<1>8. ((v - d) * u) * Factor <= v * u
  <2>1. ((v - d) * u) * Factor = ((v - d) * Factor) * u
    BY <1>1, <1>3
  <2>2. (v - d) * Factor < v /\ (v - d) * Factor \in Int
    BY <1>1, <1>2, <1>3
  <2>3. ASSUME NEW x \in Int, NEW y \in Int, x < y
        PROVE  x * u <= y * u
    BY <2>3
  <2>4. ((v - d) * Factor) * u <= v * u
    BY <1>1, <2>2, <2>3
  <2>. QED  BY <2>1, <2>4
<1>9. d * u <= a
  BY <1>1, <1>4
<1>10. (a - d * u - u) * Factor < a
  <2>1. /\ (a - d * u - u) * Factor \in Int /\ ((v - d) * u) * Factor \in Int
        /\ v * u \in Int
    BY <1>1, <1>3, <1>4
  <2>. QED  BY <1>1, <1>7, <1>8, <2>1
<1>. QED  BY <1>9, <1>10 DEF Rounded

\* RequestsAssumption holds for the numbers of the code and amounts of 40 bits.
LEMMA NoAmountIsTheMark ==
  ASSUME PRECISION = 3, WORD = 65536, NEW v \in Nat \ {0}, v <= 1099511627
  PROVE  Compressed(v) # AllOfIt
<1>1. TenTo[1] = 10 /\ TenTo[2] = 100 /\ TenTo[3] = 1000
  <2>1. TenTo[0 + 1] = 10 * TenTo[0] /\ TenTo[1 + 1] = 10 * TenTo[1]
        /\ TenTo[2 + 1] = 10 * TenTo[2] /\ TenTo[0] = 1
    BY TenToDef
  <2>. QED  BY <2>1
<1>2. TenTo[10] = 10000000000
  <2>1. /\ TenTo[3 + 3] = TenTo[3] * TenTo[3]
        /\ TenTo[6 + 3] = TenTo[6] * TenTo[3]
        /\ TenTo[9 + 1] = TenTo[9] * TenTo[1]
    BY TenToSum
  <2>. QED  BY <1>1, <2>1
<1>3. CASE CeilLog10(v) <= PRECISION
  <2>1. CeilLog10(v) \in Nat /\ v <= TenTo[CeilLog10(v)]
    BY CeilLogBounds
  <2>2. TenTo[CeilLog10(v)] <= TenTo[3]
    BY <1>3, <2>1, TenToMonotone
  <2>3. v <= 1000
    BY <1>1, <2>1, <2>2, TenToPositive
  <2>. QED  BY <1>3, <2>3, FewDigits DEF AllOfIt
<1>4. CASE CeilLog10(v) > PRECISION
  <2>1. PICK level \in Nat, digits \in Nat :
           /\ Compressed(v) = level * (9 * Factor) + digits
           /\ digits \in Factor..(10 * Factor)
           /\ digits * TenTo[level] <= v
           /\ v < digits * TenTo[level] + TenTo[level]
           /\ TenTo[level] * Factor < v
           /\ v <= TenTo[level] * (10 * Factor)
    BY <1>4, ManyDigits
  <2>2. Factor = 1000
    BY <1>1 DEF Factor
  <2>3. level < 7
    <3>1. SUFFICES ASSUME 7 <= level
                   PROVE  FALSE
      OBVIOUS
    <3>2. TenTo[7] <= TenTo[level] /\ TenTo[7 + 3] = TenTo[7] * TenTo[3]
      BY <3>1, TenToMonotone, TenToSum
    <3>3. TenTo[level] \in Nat /\ TenTo[7] \in Nat
      BY TenToPositive
    <3>. QED  BY <1>1, <1>2, <2>1, <2>2, <3>2, <3>3
  <2>. QED  BY <2>1, <2>2, <2>3 DEF AllOfIt
<1>. QED  BY <1>3, <1>4, CeilLogBounds

-----------------------------------------------------------------------------
\* What is encoded

EncodedAs(r, w) == Valid(r) /\ \E data \in SaltData(r) : w = Word(r, data)

\* A word is one that anybody sends, or the encoding of what was asked for.
EncodingInv ==
  \/ request = None /\ word \in EveryWord
  \/ request \in Requests /\ word \in {None, Invalid}
  \/ request \in Requests /\ EncodedAs(request, word)

\* What a client encodes fits the fields of a word.
LEMMA SaltDataFits ==
  ASSUME NEW r \in Requests, Valid(r), NEW data \in SaltData(r)
  PROVE  Word(r, data) \in EveryWord
<1>1. AllOfIt \in Nat /\ WORD \in Nat \ {0} /\ AllOfIt = WORD - 1
  BY EncodingAssumption, FactorPositive DEF AllOfIt
<1>2. \A v \in Nat : Compressible(v) => Compressed(v) \in 0..AllOfIt
  BY <1>1, CompressedIsRounded DEF Compressible
<1>3. /\ r.price \in Nat /\ r.share \in Nat /\ r.poolToShare \in Nat
      /\ r.forCore \in Nat \union {All}
  BY RequestsAssumption
<1>4. data[1] \in 0..AllOfIt /\ data[2] \in 0..AllOfIt
  <2>1. CASE ClientSwapForCoreToken(r)
    <3>1. ValidCoreToken(r)
      BY <2>1 DEF Valid
    <3>2. data[1] = Compressed(r.price)
          /\ data[2] = IF r.forCore = All THEN AllOfIt
                       ELSE Compressed(r.forCore \div AMOUNT_UNIT)
      BY <2>1 DEF SaltData
    <3>3. r.forCore # All => r.forCore \div AMOUNT_UNIT \in Nat
      BY <1>3, EncodingAssumption
    <3>. QED  BY <1>1, <1>2, <1>3, <3>1, <3>2, <3>3 DEF ValidCoreToken
  <2>2. CASE ~ClientSwapForCoreToken(r) /\ ClientShareWithPartner(r)
    <3>1. ValidShare(r)
      BY <2>2 DEF Valid
    <3>2. data[1] = r.poolToShare - WORD /\ data[2] = Compressed(r.share)
      BY <2>2 DEF SaltData
    <3>. QED  BY <1>1, <1>2, <1>3, <3>1, <3>2 DEF ValidShare
  <2>3. CASE ~ClientSwapForCoreToken(r) /\ ~ClientShareWithPartner(r)
    <3>1. data \in {0, AllOfIt} \X {0, AllOfIt}
      BY <2>3 DEF SaltData
    <3>. QED  BY <1>1, <3>1
  <2>. QED  BY <2>1, <2>2, <2>3
<1>5. /\ r.amount \in Nat /\ r.fee \in Nat /\ r.header \in SUBSET HeaderBits
      /\ r.inChain \in Chains /\ r.outChain \in Chains
      /\ r.inToken \in TokenIndex /\ r.outToken \in TokenIndex
  BY RequestsAssumption
<1>. QED  BY <1>4, <1>5 DEF Word, EveryWord

\* A request or a word is never the mark for none.
LEMMA RequestsAreRequests == None \notin Requests /\ None \notin EveryWord
<1>1. "none" \in DOMAIN None
  BY DEF None
<1>2. \A r \in Requests : DOMAIN r = {"amount", "fee", "header", "inChain",
        "inToken", "outChain", "outToken", "forCore", "price", "poolToShare",
        "share"}
  BY RequestsAssumption
<1>3. \A w \in EveryWord : DOMAIN w = {"amount", "fee", "header", "inChain",
        "inToken", "outChain", "outToken", "data1", "data2"}
  BY DEF EveryWord
<1>. QED  BY <1>1, <1>2, <1>3

\* The invariant holds in every state.
LEMMA EncodingInvHolds == Spec => []EncodingInv
<1>1. Init => EncodingInv
  BY WordsAssumption DEF Init, EncodingInv
<1>2. EncodingInv /\ [Next]_vars => EncodingInv'
  <2>. SUFFICES ASSUME EncodingInv, [Next]_vars
                PROVE  EncodingInv'
    OBVIOUS
  <2>1. CASE UNCHANGED vars
    BY <2>1 DEF vars, EncodingInv, EncodedAs
  <2>2. CASE Encode
    <3>1. request \in Requests /\ request' = request
      BY <2>2 DEF Encode, EncodingInv
    <3>2. CASE word' = Invalid
      BY <3>1, <3>2 DEF EncodingInv
    <3>3. CASE EncodedAs(request, word')
      BY <3>1, <3>3 DEF EncodingInv, EncodedAs
    <3>. QED  BY <2>2, <3>2, <3>3 DEF Encode, EncodedAs
  <2>. QED  BY <2>1, <2>2 DEF Next
<1>. QED  BY <1>1, <1>2, PTL DEF Spec

\* Every word of the program fits its fields.
LEMMA WordsFit ==
  ASSUME EncodingInv, IsWord
  PROVE  word \in EveryWord
BY SaltDataFits DEF EncodingInv, IsWord, EncodedAs

-----------------------------------------------------------------------------
\* What the contract decodes of what was asked for

\* A value that the contract decodes from an encoded number.
LEMMA DecodedAsAsked ==
  ASSUME NEW v \in Nat, Compressible(v)
  PROVE  Rounded(Decompress(Compressed(v)), v, 0)
BY CompressedIsRounded DEF Compressible

\* The price and the part for core tokens, in a word that a client encodes.
LEMMA CoreTokenPartAsAsked ==
  ASSUME NEW r \in Requests, NEW w, EncodedAs(r, w),
         NewFormat(w), w.outToken < 191, ClientSwapForCoreToken(w)
  PROVE  /\ Rounded(Decompress(w.data1), r.price, 0)
         /\ IF r.forCore = All
            THEN AmountForCoreToken(w)
                   = w.amount - w.fee - ServiceFeeCharged(Decoded(w))
            ELSE Rounded(AmountForCoreToken(w), r.forCore, AMOUNT_UNIT)
<1>1. PICK data \in SaltData(r) : Valid(r) /\ w = Word(r, data)
  BY DEF EncodedAs
<1>2. w.header = r.header /\ w.data1 = data[1] /\ w.data2 = data[2]
  BY <1>1 DEF Word
<1>3. ClientSwapForCoreToken(r)
  BY <1>2 DEF ClientSwapForCoreToken
<1>4. ValidCoreToken(r)
  BY <1>1, <1>3 DEF Valid
<1>5. /\ data[1] = Compressed(r.price)
      /\ data[2] = IF r.forCore = All THEN AllOfIt
                   ELSE Compressed(r.forCore \div AMOUNT_UNIT)
  BY <1>3 DEF SaltData
<1>6. SwapForCoreToken(w)
  BY DEF SwapForCoreToken, ClientSwapForCoreToken, NewFormat
<1>7. r.price \in Nat /\ r.forCore \in Nat \union {All}
  BY RequestsAssumption
<1>8. Rounded(Decompress(w.data1), r.price, 0)
  BY <1>2, <1>4, <1>5, <1>7, DecodedAsAsked DEF ValidCoreToken
<1>9. ASSUME r.forCore = All
      PROVE  AmountForCoreToken(w)
               = w.amount - w.fee - ServiceFeeCharged(Decoded(w))
  <2>1. w.data2 = AllOfIt
    BY <1>2, <1>5, <1>9
  <2>2. AmountForCoreToken(w)
          = w.amount - w.fee - (IF FeeWaived(w) THEN 0 ELSE ServiceFee(w))
    BY <1>6, <2>1 DEF AmountForCoreToken
  <2>. QED  BY <2>2 DEF ServiceFeeCharged, Decoded, ServiceFee
<1>10. ASSUME r.forCore # All
       PROVE  Rounded(AmountForCoreToken(w), r.forCore, AMOUNT_UNIT)
  <2>. DEFINE v == r.forCore \div AMOUNT_UNIT
  <2>1. Compressible(v) /\ r.forCore \in Nat
    BY <1>4, <1>7, <1>10 DEF ValidCoreToken
  <2>2. v \in Nat \ {0}
    BY <2>1, EncodingAssumption DEF Compressible
  <2>3. w.data2 = Compressed(v) /\ w.data2 # AllOfIt
    BY <1>2, <1>5, <1>10, <2>2, RequestsAssumption
  <2>. HIDE DEF v
  <2>4. AmountForCoreToken(w) = Decompress(Compressed(v)) * AMOUNT_UNIT
    BY <1>6, <2>3 DEF AmountForCoreToken
  <2>5. /\ Decompress(Compressed(v)) \in Nat
        /\ Rounded(Decompress(Compressed(v)), v, 0)
    BY <2>2, CompressedIsRounded
  <2>. QED  BY <2>1, <2>4, <2>5, RoundedInUnits, EncodingAssumption DEF v
<1>. QED  BY <1>8, <1>9, <1>10

\* The partner's pool and share, in a word that a client encodes.
LEMMA ShareAsAsked ==
  ASSUME NEW r \in Requests, NEW w, EncodedAs(r, w), ClientShareWithPartner(w)
  PROVE  /\ PoolIndexToShare(w) = r.poolToShare
         /\ Rounded(AmountToShare(w), r.share, 0)
<1>1. PICK data \in SaltData(r) : Valid(r) /\ w = Word(r, data)
  BY DEF EncodedAs
<1>2. w.header = r.header /\ w.data1 = data[1] /\ w.data2 = data[2]
  BY <1>1 DEF Word
<1>3. ClientShareWithPartner(r)
  BY <1>2 DEF ClientShareWithPartner
<1>4. "0400" \notin r.header
  <2>1. r.header \intersect {"0400", "0200"} = {"0200"} /\ "0400" # "0200"
    BY <1>3 DEF ClientShareWithPartner
  <2>. QED  BY <2>1
<1>5. ~ClientSwapForCoreToken(r) /\ ValidShare(r)
  BY <1>1, <1>3, <1>4 DEF Valid, ClientSwapForCoreToken
<1>6. data[1] = r.poolToShare - WORD /\ data[2] = Compressed(r.share)
  BY <1>3, <1>5 DEF SaltData
<1>7. ShareWithPartner(w)
  BY DEF ShareWithPartner, ClientShareWithPartner, WillTransferToContract
<1>8. r.poolToShare \in Nat /\ r.share \in Nat /\ WORD \in Nat
  BY RequestsAssumption, EncodingAssumption
<1>9. PoolIndexToShare(w) = r.poolToShare
  BY <1>2, <1>6, <1>7, <1>8 DEF PoolIndexToShare
<1>10. Rounded(AmountToShare(w), r.share, 0)
  BY <1>2, <1>5, <1>6, <1>7, <1>8, DecodedAsAsked DEF AmountToShare, ValidShare
<1>. QED  BY <1>9, <1>10

\* Whatever a client is asked to encode, the contract decodes it again, rounded
\* down to the leading digits; none of it is lost at a power of ten.
THEOREM EncodedIsAsAsked == Spec => []EncodedAsAsked
<1>1. EncodingInv => EncodedAsAsked
  <2>. SUFFICES ASSUME EncodingInv, request # None, IsWord, NewFormat(word),
                       word.outToken < 191
                PROVE  /\ ClientSwapForCoreToken(word) =>
                            /\ Rounded(Decompress(word.data1), request.price, 0)
                            /\ IF request.forCore = All
                               THEN AmountForCoreToken(word)
                                      = word.amount - word.fee
                                          - ServiceFeeCharged(Decoded(word))
                               ELSE Rounded(AmountForCoreToken(word),
                                            request.forCore, AMOUNT_UNIT)
                       /\ ClientShareWithPartner(word) =>
                            /\ PoolIndexToShare(word) = request.poolToShare
                            /\ Rounded(AmountToShare(word), request.share, 0)
    BY DEF EncodedAsAsked
  <2>1. request \in Requests /\ EncodedAs(request, word)
    BY DEF EncodingInv, IsWord
  <2>. QED  BY <2>1, CoreTokenPartAsAsked, ShareAsAsked
<1>. QED  BY <1>1, EncodingInvHolds, PTL

-----------------------------------------------------------------------------
\* What the client decodes

\* The two decoders treat the least number of full precision differently, and
\* come to the same.
LEMMA SameDecompress ==
  ASSUME NEW d \in Nat
  PROVE  ClientDecompress(d) = Decompress(d)
<1>1. Factor \in Nat \ {0} /\ 9 * Factor \in Nat \ {0}
  BY FactorPositive
<1>2. CASE d = Factor
  <2>1. d - Factor = 0 /\ 0 % (9 * Factor) = 0 /\ 0 \div (9 * Factor) = 0
    BY <1>1, <1>2
  <2>2. ClientDecompress(d) = (Factor + 0) * TenTo[0]
    BY <1>1, <1>2, <2>1 DEF ClientDecompress
  <2>3. Decompress(d) = d
    BY <1>1, <1>2 DEF Decompress
  <2>. QED  BY <1>1, <1>2, <2>2, <2>3, TenToDef
<1>3. CASE d # Factor
  BY <1>1, <1>3 DEF ClientDecompress, Decompress
<1>. QED  BY <1>2, <1>3

\* The fee that the client divides out is the one that the contract does.
LEMMA SameServiceFee ==
  ASSUME NEW w \in EveryWord,
         ClientFeeMinimum(w.inToken) = ServiceFeeMinimum(w.inToken)
  PROVE  /\ ClientServiceFee(w) = (IF FeeWaived(w) THEN 0 ELSE ServiceFee(w))
         /\ ClientServiceFee(w) \in Int
         /\ ServiceFeeCharged(Decoded(w)) = ClientServiceFee(w)
<1>1. w.amount \in Nat
  BY DEF EveryWord
<1>2. w.amount \div 2000 = (w.amount * 5) \div 10000
  BY <1>1
<1>3. ClientFullFee(w) = ServiceFee(w)
  BY <1>2 DEF ClientFullFee, ServiceFee
<1>4. ServiceFee(w) \in Int
  BY <1>1, FeeAssumption DEF ServiceFee, ServiceFeeMinimum
<1>5. ServiceFeeCharged(Decoded(w)) = IF FeeWaived(w) THEN 0 ELSE ServiceFee(w)
  BY DEF ServiceFeeCharged, Decoded, ServiceFee
<1>. QED  BY <1>3, <1>4, <1>5 DEF ClientServiceFee

\* The client decodes the same extra amounts as the contract.
LEMMA SameExtras ==
  ASSUME NEW w \in EveryWord, NewFormat(w), w.outToken < 191,
         ClientFeeMinimum(w.inToken) = ServiceFeeMinimum(w.inToken)
  PROVE  /\ ClientAmountForCoreToken(w) = AmountForCoreToken(w)
         /\ ClientPoolIndexToShare(w) = PoolIndexToShare(w)
         /\ ClientAmountToShare(w) = AmountToShare(w)
<1>1. /\ w.amount \in Nat /\ w.fee \in Nat
      /\ w.data1 \in Nat /\ w.data2 \in Nat
      /\ WORD \in Nat \ {0}
  BY EncodingAssumption, FactorPositive DEF EveryWord
<1>2. ClientSwapForCoreToken(w) <=> SwapForCoreToken(w)
  BY DEF ClientSwapForCoreToken, SwapForCoreToken, NewFormat
<1>3. ClientShareWithPartner(w) <=> ShareWithPartner(w)
  BY DEF ClientShareWithPartner, ShareWithPartner, WillTransferToContract
<1>4. ClientDecompress(w.data2) = Decompress(w.data2)
  BY <1>1, SameDecompress
<1>5. ClientAmountForCoreToken(w) = AmountForCoreToken(w)
  <2>1. CASE ~SwapForCoreToken(w)
    BY <1>2, <2>1 DEF ClientAmountForCoreToken, AmountForCoreToken
  <2>2. CASE SwapForCoreToken(w) /\ w.data2 = AllOfIt
    <3>1. ClientAmountForCoreToken(w) = w.amount - (ClientServiceFee(w) + w.fee)
      BY <1>2, <2>2 DEF ClientAmountForCoreToken
    <3>2. AmountForCoreToken(w)
            = w.amount - w.fee - (IF FeeWaived(w) THEN 0 ELSE ServiceFee(w))
      BY <2>2 DEF AmountForCoreToken
    <3>3. AmountForCoreToken(w) = w.amount - w.fee - ClientServiceFee(w)
      BY <3>2, SameServiceFee
    <3>. QED  BY <1>1, <3>1, <3>3, SameServiceFee
  <2>3. CASE SwapForCoreToken(w) /\ w.data2 # AllOfIt
    BY <1>2, <1>4, <2>3 DEF ClientAmountForCoreToken, AmountForCoreToken
  <2>. QED  BY <2>1, <2>2, <2>3
<1>6. ClientPoolIndexToShare(w) = PoolIndexToShare(w)
  BY <1>3 DEF ClientPoolIndexToShare, PoolIndexToShare
<1>7. ClientPoolIndexToShare(w) = 0 <=> ~ShareWithPartner(w)
  BY <1>1, <1>3 DEF ClientPoolIndexToShare
<1>8. ClientAmountToShare(w) = AmountToShare(w)
  BY <1>4, <1>7 DEF ClientAmountToShare, AmountToShare
<1>. QED  BY <1>5, <1>6, <1>8

\* The contract decodes numbers, and whole amounts from them.
LEMMA DecompressNumber ==
  ASSUME NEW d \in Nat
  PROVE  Decompress(d) \in Nat
<1>1. Factor \in Nat \ {0} /\ 9 * Factor \in Nat \ {0}
  BY FactorPositive
<1>2. CASE d <= Factor
  BY <1>2 DEF Decompress
<1>3. CASE ~(d <= Factor)
  <2>. DEFINE above == d - Factor
  <2>1. above \in Nat
    BY <1>1, <1>3
  <2>2. above % (9 * Factor) \in Nat /\ above \div (9 * Factor) \in Nat
    <3>. HIDE DEF above
    <3>. QED  BY <1>1, <2>1
  <2>3. TenTo[above \div (9 * Factor)] \in Nat
    BY <2>2, TenToPositive
  <2>4. Decompress(d)
          = (Factor + (above % (9 * Factor))) * TenTo[above \div (9 * Factor)]
    BY <1>3 DEF Decompress
  <2>. HIDE DEF above
  <2>. QED  BY <1>1, <2>2, <2>3, <2>4
<1>. QED  BY <1>2, <1>3

LEMMA ExtrasAreNumbers ==
  ASSUME NEW w \in EveryWord
  PROVE  AmountForCoreToken(w) \in Int /\ AmountToShare(w) \in Int
<1>1. /\ w.amount \in Nat /\ w.fee \in Nat
      /\ w.data1 \in Nat /\ w.data2 \in Nat
      /\ AMOUNT_UNIT \in Nat
  BY EncodingAssumption DEF EveryWord
<1>2. Decompress(w.data2) \in Nat
  BY <1>1, DecompressNumber
<1>3. ServiceFee(w) \in Int
  BY <1>1, FeeAssumption DEF ServiceFee, ServiceFeeMinimum
<1>. QED  BY <1>1, <1>2, <1>3 DEF AmountForCoreToken, AmountToShare

\* What the client shows is what the contract will pay, for every word in the
\* new format, whoever made it.
THEOREM ClientAlwaysKnowsReceive == Spec => []ClientKnowsReceive
<1>1. ASSUME EncodingInv, IsWord, NewFormat(word), word.outToken < 191,
             ClientFeeMinimum(word.inToken) = ServiceFeeMinimum(word.inToken)
      PROVE  /\ ClientReceive(word) = ReleaseAmount(Decoded(word))
             /\ ClientAmountForCoreToken(word) = AmountForCoreToken(word)
             /\ ClientPoolIndexToShare(word) = PoolIndexToShare(word)
  <2>1. word \in EveryWord
    BY <1>1, WordsFit
  <2>2. /\ ClientAmountForCoreToken(word) = AmountForCoreToken(word)
        /\ ClientPoolIndexToShare(word) = PoolIndexToShare(word)
        /\ ClientAmountToShare(word) = AmountToShare(word)
    BY <1>1, <2>1, SameExtras
  <2>3. /\ ServiceFeeCharged(Decoded(word)) = ClientServiceFee(word)
        /\ ClientServiceFee(word) \in Int
    BY <1>1, <2>1, SameServiceFee
  <2>4. /\ Decoded(word).amount = word.amount /\ Decoded(word).fee = word.fee
        /\ Decoded(word).forCore = AmountForCoreToken(word)
        /\ Decoded(word).share = AmountToShare(word)
    BY DEF Decoded
  <2>5. ReleaseAmount(Decoded(word))
          = word.amount - word.fee - AmountForCoreToken(word)
              - ClientServiceFee(word) - AmountToShare(word)
    BY <2>3, <2>4 DEF ReleaseAmount, AmountToLock
  <2>6. ClientReceive(word)
          = word.amount - (ClientServiceFee(word) + word.fee)
              - AmountForCoreToken(word) - AmountToShare(word)
    BY <2>2 DEF ClientReceive
  <2>7. word.amount \in Nat /\ word.fee \in Nat
    BY <2>1 DEF EveryWord
  <2>. QED  BY <2>1, <2>2, <2>3, <2>5, <2>6, <2>7, ExtrasAreNumbers
<1>2. EncodingInv => ClientKnowsReceive
  BY <1>1 DEF ClientKnowsReceive
<1>. QED  BY <1>2, EncodingInvHolds, PTL

=============================================================================
