------------------------- MODULE MesonSolvencyProofs -------------------------
(***************************************************************************)
(* The contract always holds at least what it owes, for every set of       *)
(* swaps, addresses, tokens and pools and every sequence of calls.         *)
(***************************************************************************)
EXTENDS MesonSolvency, MesonProofs, SetFacts

-----------------------------------------------------------------------------
\* What is owed, as sums over fixed sets

\* Index 0 stands for the core token too: locks made while the core token had
\* an index are unlocked to index 0 when it no longer has one.
Stands(t, i) == Backs(t, i) \/ (i = 0 /\ t = CoreToken)

PoolsOwe(b, t) == [pti \in PoolTokenIndex |-> IF Stands(t, pti[1]) THEN b[pti] ELSE 0]

PostedOwes(posted, t) ==
  [s \in Swaps |-> IF Pending(posted[s]) /\ Stands(t, s.inToken) THEN s.amount ELSE 0]

DueFor(s, t) ==
  (IF Stands(t, s.outToken) THEN AmountToLock(s) ELSE 0)
  + (IF t = CoreToken THEN s.coreAmount ELSE 0)

LocksOwe(locked, t) ==
  [id \in SwapId |-> IF Locked(locked[id]) THEN DueFor(id[1], t) ELSE 0]

PoolOwed(b, t) == Sum(PoolsOwe(b, t), PoolTokenIndex)
PostedOwed(posted, t) == Sum(PostedOwes(posted, t), Swaps)
LockedOwed(locked, t) == Sum(LocksOwe(locked, t), SwapId)

\* No swap is locked whose fee is larger than its amount.
CoveredLocks(locked) == \A id \in SwapId : Locked(locked[id]) => AmountToLock(id[1]) >= 0

LEMMA FiniteSets == /\ IsFiniteSet(PoolTokenIndex) /\ IsFiniteSet(Swaps)
                    /\ IsFiniteSet(SwapId)
<1>1. IsFiniteSet(TokenIndices)
  <2>1. IsFiniteSet(1..255)
    <3>1. 1 \in Int /\ 255 \in Int
      OBVIOUS
    <3>2. QED
      BY ONLY <3>1, FS_Interval
  <2>2. QED
    BY ONLY <2>1, FS_Subset, IndexAssumption
<1>2. IsFiniteSet(TokenIndex)
  BY <1>1, FS_AddElement DEF TokenIndex
<1>3. IsFiniteSet(PoolTokenIndex)
  BY <1>2, FinitenessAssumption, FS_Product DEF PoolTokenIndex
<1>4. IsFiniteSet(SwapId)
  BY FinitenessAssumption, FS_Product DEF SwapId
<1>5. QED
  BY <1>3, <1>4, FinitenessAssumption

LEMMA DueIsNat ==
  ASSUME NEW s \in Swaps, NEW t, AmountToLock(s) >= 0
  PROVE  DueFor(s, t) \in Nat
BY SwapFields, FeesAreNat DEF DueFor

LEMMA LocksOweNat ==
  ASSUME NEW locked, CoveredLocks(locked), NEW t, NEW id \in SwapId
  PROVE  LocksOwe(locked, t)[id] \in Nat
<1>1. id[1] \in Swaps
  BY DEF SwapId
<1>2. Locked(locked[id]) => DueFor(id[1], t) \in Nat
  BY <1>1, DueIsNat DEF CoveredLocks
<1>3. QED
  BY <1>2 DEF LocksOwe

LEMMA OwedIsNat ==
  ASSUME NEW b \in [PoolTokenIndex -> Nat], NEW posted, NEW locked,
         CoveredLocks(locked), NEW t
  PROVE  /\ PoolOwed(b, t) \in Nat
         /\ PostedOwed(posted, t) \in Nat
         /\ LockedOwed(locked, t) \in Nat
<1>1. \A pti \in PoolTokenIndex : PoolsOwe(b, t)[pti] \in Nat
  BY DEF PoolsOwe
<1>2. \A s \in Swaps : PostedOwes(posted, t)[s] \in Nat
  BY SwapFields DEF PostedOwes
<1>3. \A id \in SwapId : LocksOwe(locked, t)[id] \in Nat
  BY LocksOweNat
<1>4. QED
  BY <1>1, <1>2, <1>3, FiniteSets, SumIsNat DEF PoolOwed, PostedOwed, LockedOwed

\* Nothing is owed where nothing is credited, posted or locked.
LEMMA SumOfZeros ==
  ASSUME NEW S, IsFiniteSet(S), NEW f, \A x \in S : f[x] = 0
  PROVE  Sum(f, S) = 0
<1>1. Sum(f, S) = Sum(f, {})
  BY SumWithoutZeros
<1>2. QED
  BY <1>1, SumOfNone

-----------------------------------------------------------------------------
\* How a change of one record changes what is owed

LEMMA PoolOwedChanged ==
  ASSUME NEW b \in [PoolTokenIndex -> Nat], NEW i \in TokenIndex, NEW p \in PoolIndices,
         NEW v \in Nat, NEW t
  PROVE  PoolOwed([b EXCEPT ![<<i, p>>] = v], t)
           = PoolOwed(b, t) + (IF Stands(t, i) THEN v - b[<<i, p>>] ELSE 0)
<1> DEFINE c == [b EXCEPT ![<<i, p>>] = v]
           f == PoolsOwe(b, t)
           g == PoolsOwe(c, t)
<1>1. <<i, p>> \in PoolTokenIndex /\ b[<<i, p>>] \in Nat
  BY DEF PoolTokenIndex
<1>2. c[<<i, p>>] = v /\ \A y \in PoolTokenIndex \ {<<i, p>>} : c[y] = b[y]
  BY <1>1
<1> HIDE DEF c
<1>3. \A y \in PoolTokenIndex \ {<<i, p>>} : g[y] = f[y]
  BY <1>2 DEF PoolsOwe
<1>4. /\ f[<<i, p>>] = IF Stands(t, i) THEN b[<<i, p>>] ELSE 0
      /\ g[<<i, p>>] = IF Stands(t, i) THEN v ELSE 0
  BY <1>1, <1>2 DEF PoolsOwe
<1>5. \A y \in PoolTokenIndex : f[y] \in Nat
  BY DEF PoolsOwe
<1>6. g[<<i, p>>] \in Nat
  BY <1>4
<1> HIDE DEF f, g
<1>7. Sum(g, PoolTokenIndex) + f[<<i, p>>] = Sum(f, PoolTokenIndex) + g[<<i, p>>]
  BY <1>1, <1>3, <1>5, <1>6, FiniteSets, SumOfChanged
<1>8. \A y \in PoolTokenIndex : g[y] \in Nat
  BY <1>3, <1>5, <1>6
<1>9. Sum(f, PoolTokenIndex) \in Nat /\ Sum(g, PoolTokenIndex) \in Nat
  BY <1>5, <1>8, FiniteSets, SumIsNat
<1>10. Sum(g, PoolTokenIndex)
         = Sum(f, PoolTokenIndex) + (IF Stands(t, i) THEN v - b[<<i, p>>] ELSE 0)
  BY <1>1, <1>4, <1>7, <1>9
<1>11. QED
  BY <1>10 DEF PoolOwed, f, g, c

LEMMA PoolOwedCredited ==
  ASSUME NEW b \in [PoolTokenIndex -> Nat], NEW i \in TokenIndex, NEW p \in PoolIndices,
         NEW n \in Nat, NEW t
  PROVE  PoolOwed(Credited(b, i, p, n), t)
           = PoolOwed(b, t) + (IF Stands(t, i) THEN n ELSE 0)
<1> DEFINE u == b[<<i, p>>]
           v == u + n
<1>1. u \in Nat
  BY DEF PoolTokenIndex
<1>2. Credited(b, i, p, n) = [b EXCEPT ![<<i, p>>] = v]
  BY DEF Credited
<1> HIDE DEF u
<1>3. v \in Nat /\ v - u = n
  BY ONLY <1>1, n \in Nat
<1> HIDE DEF v
<1>4. PoolOwed([b EXCEPT ![<<i, p>>] = v], t)
        = PoolOwed(b, t) + (IF Stands(t, i) THEN v - b[<<i, p>>] ELSE 0)
  <2>1. v \in Nat
    BY <1>3
  <2>2. QED
    BY <2>1, PoolOwedChanged, Zenon
<1>5. v - b[<<i, p>>] = n
  BY <1>3 DEF u
<1>6. QED
  BY <1>2, <1>4, <1>5

LEMMA PoolOwedDebited ==
  ASSUME NEW b \in [PoolTokenIndex -> Nat], NEW i \in TokenIndex, NEW p \in PoolIndices,
         NEW n \in Nat, Covers(b, i, p, n), NEW t
  PROVE  PoolOwed(Debited(b, i, p, n), t)
           = PoolOwed(b, t) - (IF Stands(t, i) THEN n ELSE 0)
<1>1. /\ <<i, p>> \in PoolTokenIndex /\ b[<<i, p>>] \in Nat /\ b[<<i, p>>] >= n
      /\ PoolOwed(b, t) \in Nat
  <2>1. \A pti \in PoolTokenIndex : PoolsOwe(b, t)[pti] \in Nat
    BY DEF PoolsOwe
  <2>2. PoolOwed(b, t) \in Nat
    BY <2>1, FiniteSets, SumIsNat DEF PoolOwed
  <2>3. QED
    BY <2>2 DEF PoolTokenIndex, Covers
<1>2. Debited(b, i, p, n) = [b EXCEPT ![<<i, p>>] = b[<<i, p>>] - n]
  BY DEF Debited
<1>3. b[<<i, p>>] - n \in Nat /\ (b[<<i, p>>] - n) - b[<<i, p>>] = -n
  BY <1>1
<1>4. PoolOwed([b EXCEPT ![<<i, p>>] = b[<<i, p>>] - n], t)
        = PoolOwed(b, t)
          + (IF Stands(t, i) THEN (b[<<i, p>>] - n) - b[<<i, p>>] ELSE 0)
  BY <1>3, PoolOwedChanged
<1>5. QED
  BY <1>1, <1>2, <1>3, <1>4

\* What is owed for the one swap s, or the one lock of s, with the value v.
PostedPart(v, s, t) == IF Stands(t, s.inToken) /\ Pending(v) THEN s.amount ELSE 0
LockedPart(v, s, t) == IF Locked(v) THEN DueFor(s, t) ELSE 0

LEMMA PostedOwedChanged ==
  ASSUME NEW posted, NEW changed, NEW s \in Swaps,
         \A y \in Swaps \ {s} : changed[y] = posted[y], NEW t
  PROVE  PostedOwed(changed, t)
           = (PostedOwed(posted, t) + PostedPart(changed[s], s, t))
             - PostedPart(posted[s], s, t)
<1> DEFINE f == PostedOwes(posted, t)
           g == PostedOwes(changed, t)
<1>1. \A y \in Swaps : f[y] \in Nat /\ g[y] \in Nat
  BY SwapFields DEF PostedOwes
<1>2. \A y \in Swaps \ {s} : g[y] = f[y]
  BY DEF PostedOwes
<1>3. f[s] = PostedPart(posted[s], s, t) /\ g[s] = PostedPart(changed[s], s, t)
  BY DEF PostedOwes, PostedPart
<1> HIDE DEF f, g
<1>4. Sum(g, Swaps) + f[s] = Sum(f, Swaps) + g[s]
  BY <1>1, <1>2, FiniteSets, SumOfChanged
<1>5. Sum(f, Swaps) \in Nat /\ Sum(g, Swaps) \in Nat /\ f[s] \in Nat /\ g[s] \in Nat
  BY <1>1, FiniteSets, SumIsNat
<1>6. Sum(g, Swaps) = (Sum(f, Swaps) + g[s]) - f[s]
  BY <1>4, <1>5
<1>7. QED
  BY <1>3, <1>6 DEF PostedOwed, f, g

LEMMA LockedOwedChanged ==
  ASSUME NEW locked, CoveredLocks(locked), NEW changed, NEW id \in SwapId,
         \A y \in SwapId \ {id} : changed[y] = locked[y],
         Locked(changed[id]) => AmountToLock(id[1]) >= 0, NEW t
  PROVE  /\ CoveredLocks(changed)
         /\ LockedOwed(changed, t)
              = (LockedOwed(locked, t) + LockedPart(changed[id], id[1], t))
                - LockedPart(locked[id], id[1], t)
<1> DEFINE f == LocksOwe(locked, t)
           g == LocksOwe(changed, t)
<1>1. CoveredLocks(changed)
  BY DEF CoveredLocks
<1>2. \A y \in SwapId : f[y] \in Nat /\ g[y] \in Nat
  BY <1>1, LocksOweNat
<1>3. \A y \in SwapId \ {id} : g[y] = f[y]
  BY DEF LocksOwe
<1>4. f[id] = LockedPart(locked[id], id[1], t) /\ g[id] = LockedPart(changed[id], id[1], t)
  BY DEF LocksOwe, LockedPart
<1> HIDE DEF f, g
<1>5. Sum(g, SwapId) + f[id] = Sum(f, SwapId) + g[id]
  BY <1>2, <1>3, FiniteSets, SumOfChanged
<1>6. Sum(f, SwapId) \in Nat /\ Sum(g, SwapId) \in Nat /\ f[id] \in Nat /\ g[id] \in Nat
  BY <1>2, FiniteSets, SumIsNat
<1>7. Sum(g, SwapId) = (Sum(f, SwapId) + g[id]) - f[id]
  BY <1>5, <1>6
<1>8. QED
  BY <1>1, <1>4, <1>7 DEF LockedOwed, f, g


-----------------------------------------------------------------------------
\* What is owed covers the liabilities that Solvent is about, and is no more
\* than these if nothing is booked under index 0, which has no token.

NothingAtZero(b) == \A p \in PoolIndices : b[<<0, p>>] = 0

PostedWithToken(posted) == \A s \in Swaps : Pending(posted[s]) => s.inToken # 0

LockedWithTokens(locked, core) ==
  \A id \in SwapId :
    Locked(locked[id]) => /\ id[1].outToken = 0 => AmountToLock(id[1]) = 0
                          /\ core = 0 => id[1].coreAmount = 0

LEMMA PoolLiabilityIsOwed ==
  ASSUME TypeOK, NEW t \in Tokens
  PROVE  /\ PoolLiability(t) \in Nat
         /\ PoolLiability(t) <= PoolOwed(balanceOfPoolToken, t)
         /\ NothingAtZero(balanceOfPoolToken)
              => PoolLiability(t) = PoolOwed(balanceOfPoolToken, t)
<1> DEFINE b == balanceOfPoolToken
           f == PoolsOwe(b, t)
           X == IndexesOf(t) \X PoolIndices
<1>1. b \in [PoolTokenIndex -> Nat]
  BY DEF TypeOK, StatesTypeOK
<1>2. X \subseteq PoolTokenIndex /\ IsFiniteSet(X)
  BY FiniteSets, FS_Subset DEF IndexesOf, PoolTokenIndex
<1>3. \A x \in PoolTokenIndex : f[x] \in Nat
  BY <1>1 DEF PoolsOwe
<1>4. \A x \in X : f[x] = b[x]
  <2>1. \A x \in X : x \in PoolTokenIndex /\ Backs(t, x[1])
    BY DEF IndexesOf, PoolTokenIndex
  <2>2. QED
    BY <2>1 DEF PoolsOwe, Stands
<1>5. PoolLiability(t) = Sum(b, X)
  BY DEF PoolLiability, Sum
<1>6. PoolOwed(b, t) = Sum(f, PoolTokenIndex)
  BY DEF PoolOwed
<1>7. NothingAtZero(b) => \A x \in PoolTokenIndex \ X : f[x] = 0
  <2> SUFFICES ASSUME NothingAtZero(b), NEW x \in PoolTokenIndex \ X, Stands(t, x[1])
               PROVE  b[x] = 0
    BY DEF PoolsOwe
  <2>1. PICK i \in TokenIndex, p \in PoolIndices : x = <<i, p>>
    BY DEF PoolTokenIndex
  <2>2. ~Backs(t, i)
    BY <2>1 DEF IndexesOf
  <2>3. i = 0
    BY <2>1, <2>2 DEF Stands
  <2> HIDE DEF b
  <2>4. QED
    BY <2>1, <2>3 DEF NothingAtZero
<1> HIDE DEF b, f, X
<1>8. Sum(f, X) = Sum(b, X)
  BY <1>2, <1>4, SumsAgree
<1>9. Sum(f, X) <= Sum(f, PoolTokenIndex)
  BY <1>2, <1>3, FiniteSets, SumOfFewer
<1>10. NothingAtZero(b) => Sum(f, PoolTokenIndex) = Sum(f, X)
  BY <1>2, <1>3, <1>7, FiniteSets, SumWithoutZeros
<1>11. Sum(f, X) \in Nat
  BY <1>2, <1>3, SumIsNat
<1>12. QED
  BY <1>5, <1>6, <1>8, <1>9, <1>10, <1>11 DEF b

AmountSums(g, X) ==
  g = [s \in SUBSET X |-> IF s = {} THEN 0
                          ELSE Pick(s).amount + g[s \ {Pick(s)}]]

LEMMA SumOfAmounts ==
  ASSUME NEW X
  PROVE  MapThenSumSet(LAMBDA s : s.amount, X) = Sum([s \in X |-> s.amount], X)
<1> DEFINE f == [s \in X |-> s.amount]
<1>1. MapThenSumSet(LAMBDA s : s.amount, X) = (CHOOSE g : AmountSums(g, X))[X]
  BY DEF AmountSums, Pick, MapThenSumSet, MapThenFoldSet
<1>2. ASSUME NEW g, NEW s \in SUBSET X, s # {}
      PROVE  Pick(s).amount + g[s \ {Pick(s)}] = f[Pick(s)] + g[s \ {Pick(s)}]
  BY <1>2, PickIsMember
<1>3. ASSUME NEW g
      PROVE  AmountSums(g, X) <=> Sums(g, f, X)
  BY <1>2 DEF AmountSums, Sums
<1> HIDE DEF f
<1>4. (CHOOSE g : AmountSums(g, X)) = (CHOOSE g : Sums(g, f, X))
  BY <1>3
<1>5. QED
  BY <1>1, <1>4, SumIsPartial DEF Partial, f

LEMMA PostedLiabilityIsOwed ==
  ASSUME NEW t \in Tokens
  PROVE  /\ PostedLiability(t) \in Nat
         /\ PostedLiability(t) <= PostedOwed(postedSwaps, t)
         /\ PostedWithToken(postedSwaps)
              => PostedLiability(t) = PostedOwed(postedSwaps, t)
<1> DEFINE X == {s \in Swaps : Pending(postedSwaps[s]) /\ s.inToken \in IndexesOf(t)}
           f == PostedOwes(postedSwaps, t)
           g == [s \in X |-> s.amount]
<1>1. X \subseteq Swaps /\ IsFiniteSet(X)
  BY FiniteSets, FS_Subset
<1>2. \A s \in Swaps : f[s] \in Nat
  BY SwapFields DEF PostedOwes
<1>3. \A s \in X : f[s] = g[s]
  BY DEF PostedOwes, IndexesOf, Stands
<1>4. PostedLiability(t) = Sum(g, X)
  BY SumOfAmounts DEF PostedLiability
<1>5. PostedOwed(postedSwaps, t) = Sum(f, Swaps)
  BY DEF PostedOwed
<1>6. PostedWithToken(postedSwaps) => \A s \in Swaps \ X : f[s] = 0
  <2>1. \A s \in Swaps : s.inToken \in TokenIndex
    BY SwapFields
  <2>2. QED
    BY <2>1 DEF PostedOwes, PostedWithToken, IndexesOf, Stands
<1> HIDE DEF X, f, g
<1>7. Sum(f, X) = Sum(g, X)
  BY <1>1, <1>3, SumsAgree
<1>8. Sum(f, X) <= Sum(f, Swaps)
  BY <1>1, <1>2, FiniteSets, SumOfFewer
<1>9. PostedWithToken(postedSwaps) => Sum(f, Swaps) = Sum(f, X)
  BY <1>1, <1>2, <1>6, FiniteSets, SumWithoutZeros
<1>10. Sum(f, X) \in Nat
  BY <1>1, <1>2, SumIsNat
<1>11. QED
  BY <1>4, <1>5, <1>7, <1>8, <1>9, <1>10

DueNow(id, t) ==
  (IF id[1].outToken \in IndexesOf(t) THEN AmountToLock(id[1]) ELSE 0)
  + (IF t = CoreToken THEN id[1].coreAmount ELSE 0)

DueSums(g, t, X) ==
  g = [s \in SUBSET X |-> IF s = {} THEN 0
                          ELSE DueNow(Pick(s), t) + g[s \ {Pick(s)}]]

LEMMA LockedLiabilityIsSum ==
  ASSUME NEW t, NEW X, X = {id \in SwapId : Locked(lockedSwaps[id])}
  PROVE  LockedLiability(t) = Sum([id \in X |-> DueNow(id, t)], X)
<1> DEFINE f == [id \in X |-> DueNow(id, t)]
<1>1. LockedLiability(t) = (CHOOSE g : DueSums(g, t, X))[X]
  BY DEF LockedLiability, DueSums, DueNow, Pick, MapThenSumSet, MapThenFoldSet
<1>2. ASSUME NEW g, NEW s \in SUBSET X, s # {}
      PROVE  DueNow(Pick(s), t) + g[s \ {Pick(s)}] = f[Pick(s)] + g[s \ {Pick(s)}]
  BY <1>2, PickIsMember
<1>3. ASSUME NEW g
      PROVE  DueSums(g, t, X) <=> Sums(g, f, X)
  <2> HIDE DEF f
  <2>1. \A s \in SUBSET X :
          (IF s = {} THEN 0 ELSE DueNow(Pick(s), t) + g[s \ {Pick(s)}])
            = (IF s = {} THEN 0 ELSE f[Pick(s)] + g[s \ {Pick(s)}])
    BY <1>2
  <2>2. QED
    BY ONLY <2>1 DEF DueSums, Sums
<1> HIDE DEF f
<1>4. (CHOOSE g : DueSums(g, t, X)) = (CHOOSE g : Sums(g, f, X))
  BY <1>3
<1>5. QED
  BY <1>1, <1>4, SumIsPartial DEF Partial, f

LEMMA LockedLiabilityIsOwed ==
  ASSUME CoveredLocks(lockedSwaps), NEW t \in Tokens
  PROVE  /\ LockedLiability(t) \in Nat
         /\ LockedLiability(t) <= LockedOwed(lockedSwaps, t)
         /\ \A core : LockedWithTokens(lockedSwaps, core)
              => LockedLiability(t) = LockedOwed(lockedSwaps, t)
<1> DEFINE X == {id \in SwapId : Locked(lockedSwaps[id])}
           f == LocksOwe(lockedSwaps, t)
           g == [id \in X |-> DueNow(id, t)]
<1>1. X \subseteq SwapId /\ IsFiniteSet(X)
  BY FiniteSets, FS_Subset
<1>2. \A id \in SwapId : f[id] \in Nat
  BY LocksOweNat
<1> DEFINE Tokened == \E core : LockedWithTokens(lockedSwaps, core)
<1>3. \A id \in X : g[id] \in Nat /\ g[id] <= f[id] /\ (Tokened => f[id] = g[id])
  <2> SUFFICES ASSUME NEW id \in X
               PROVE  g[id] \in Nat /\ g[id] <= f[id] /\ (Tokened => f[id] = g[id])
    OBVIOUS
  <2>1. id[1] \in Swaps /\ AmountToLock(id[1]) >= 0
    BY DEF SwapId, CoveredLocks
  <2>2. AmountToLock(id[1]) \in Nat /\ id[1].coreAmount \in Nat
    BY <2>1, FeesAreNat, SwapFields
  <2>3. id[1].outToken \in IndexesOf(t) => Stands(t, id[1].outToken)
    BY DEF IndexesOf, Stands
  <2>4. g[id] = DueNow(id, t) /\ f[id] = DueFor(id[1], t)
    BY DEF LocksOwe
  <2>5. Tokened /\ Stands(t, id[1].outToken) /\ id[1].outToken \notin IndexesOf(t)
          => AmountToLock(id[1]) = 0
    BY <2>1, SwapFields DEF LockedWithTokens, IndexesOf, Stands
  <2> HIDE DEF Tokened, f, g
  <2>6. QED
    BY <2>2, <2>3, <2>4, <2>5 DEF DueNow, DueFor
<1>4. LockedLiability(t) = Sum(g, X)
  BY LockedLiabilityIsSum
<1>5. LockedOwed(lockedSwaps, t) = Sum(f, SwapId)
  BY DEF LockedOwed
<1>6. \A id \in SwapId \ X : f[id] = 0
  BY DEF LocksOwe
<1> HIDE DEF X, f, g, Tokened
<1>7. Sum(g, X) <= Sum(f, X)
  BY <1>1, <1>2, <1>3, SumGrows
<1>8. Sum(f, SwapId) = Sum(f, X)
  BY <1>1, <1>2, <1>6, FiniteSets, SumWithoutZeros
<1>9. Tokened => Sum(f, X) = Sum(g, X)
  BY <1>1, <1>3, SumsAgree
<1>10. Sum(g, X) \in Nat /\ Sum(f, X) \in Nat
  BY <1>1, <1>2, <1>3, SumIsNat
<1>11. QED
  BY <1>4, <1>5, <1>7, <1>8, <1>9, <1>10 DEF Tokened

-----------------------------------------------------------------------------
\* The invariant

\* Every index that has a token was given it by the deployment or by a listing.
ListedTokens ==
  \A i \in TokenIndex :
    tokenForIndex[i] \in Tokens
      => tokenForIndex[i] = Deployment[i] \/ <<tokenForIndex[i], i>> \in Listings

Books == TypeOK /\ TokenMapsAreInverse /\ ListedTokens /\ CoveredLocks(lockedSwaps)

\* What is held of t covers what is owed of it, and is no more if nothing is
\* sent away.
Covering(l, b, posted, locked, t) ==
  LET owed == PoolOwed(b, t) + PostedOwed(posted, t) + LockedOwed(locked, t)
  IN  l[<<t, Meson>>] >= owed /\ (NothingIsSentAway => l[<<t, Meson>>] = owed)

\* The contract is neither an initiator nor the owner of a pool.
MesonIsNoParty ==
  NothingIsSentAway
    => /\ \A s \in Swaps : postedSwaps[s].initiator # Meson
       /\ \A p \in PoolIndices : ownerOfPool[p] # Meson

CoveredAll ==
  \A t \in Tokens : Covering(ledger, balanceOfPoolToken, postedSwaps, lockedSwaps, t)

SolvencyInv == Books /\ MesonIsNoParty /\ CoveredAll

LEMMA CoveredIsSolvent == SolvencyInv => Solvent
<1> SUFFICES ASSUME SolvencyInv, NEW t \in Tokens
             PROVE  ledger[<<t, Meson>>] >= Liability(t)
  BY DEF Solvent
<1>1. /\ PoolLiability(t) \in Nat
      /\ PoolLiability(t) <= PoolOwed(balanceOfPoolToken, t)
  BY PoolLiabilityIsOwed DEF SolvencyInv, Books
<1>2. /\ PostedLiability(t) \in Nat
      /\ PostedLiability(t) <= PostedOwed(postedSwaps, t)
  BY PostedLiabilityIsOwed
<1>3. /\ LockedLiability(t) \in Nat
      /\ LockedLiability(t) <= LockedOwed(lockedSwaps, t)
  BY LockedLiabilityIsOwed DEF SolvencyInv, Books
<1>4. /\ PoolOwed(balanceOfPoolToken, t) \in Nat
      /\ PostedOwed(postedSwaps, t) \in Nat
      /\ LockedOwed(lockedSwaps, t) \in Nat
  BY OwedIsNat DEF SolvencyInv, Books, TypeOK, StatesTypeOK
<1>5. ledger[<<t, Meson>>] \in Nat
  BY DEF SolvencyInv, Books, TypeOK, StatesTypeOK, Holding, Address
<1>6. ledger[<<t, Meson>>]
        >= PoolOwed(balanceOfPoolToken, t) + PostedOwed(postedSwaps, t)
           + LockedOwed(lockedSwaps, t)
  BY DEF SolvencyInv, CoveredAll, Covering
<1>7. QED
  BY <1>1, <1>2, <1>3, <1>4, <1>5, <1>6 DEF Liability

-----------------------------------------------------------------------------
\* The token that stands behind an index

LEMMA StandsOnce ==
  ASSUME NEW t \in Tokens, NEW u \in Tokens, NEW i \in TokenIndex,
         Stands(t, i), Stands(u, i)
  PROVE  t = u
<1>1. CASE i = 0
  <2>1. ~IsCoreToken(0)
    BY DEF IsCoreToken
  <2>2. Deployment[0] \notin Tokens /\ \A x : <<x, 0>> \notin Listings
    BY DeploymentAssumption, AddressAssumption, IndexAssumption
  <2>3. QED
    BY <1>1, <2>1, <2>2 DEF Stands, Backs
<1>2. CASE i # 0
  BY <1>2, ListingAssumption DEF Stands
<1>3. QED
  BY <1>1, <1>2

LEMMA StandsForTransferable ==
  ASSUME Books, NEW i \in TokenIndex, Transferable(i), NEW t \in Tokens
  PROVE  Stands(t, i) <=> t = TokenAt(i)
<1>1. TokenAt(i) \in Tokens
  BY TokenAtType
<1>2. Stands(TokenAt(i), i)
  <2>1. CASE IsCoreToken(i)
    BY <2>1 DEF TokenAt, Stands, Backs
  <2>2. CASE ~IsCoreToken(i)
    BY <1>1, <2>2 DEF TokenAt, Stands, Backs, Books, ListedTokens
  <2>3. QED
    BY <2>1, <2>2
<1>3. QED
  BY <1>1, <1>2, StandsOnce

LEMMA StandsForCore ==
  ASSUME Books, NEW t \in Tokens
  PROVE  /\ CoreIndex \in TokenIndex
         /\ Stands(t, CoreIndex) <=> t = CoreToken
<1>1. CoreIndex \in TokenIndex /\ CoreToken \in Tokens
  BY CoreIndexType, AddressAssumption DEF Books
<1>2. Stands(CoreToken, CoreIndex)
  <2>1. CASE CoreIndex = 0
    BY <2>1 DEF Stands
  <2>2. CASE CoreIndex # 0
    <3>1. tokenForIndex[CoreIndex] = CoreToken
      BY <1>1, <2>2 DEF Books, TokenMapsAreInverse, CoreIndex, TokenIndex
    <3>2. QED
      BY <1>1, <3>1 DEF Books, ListedTokens, Stands, Backs
  <2>3. QED
    BY <2>1, <2>2
<1>3. QED
  BY <1>1, <1>2, StandsOnce

-----------------------------------------------------------------------------
\* How a movement of tokens changes what the contract holds

LEMMA HeldAfterReceipt ==
  ASSUME NEW l \in [Holding -> Nat], NEW u \in Tokens, NEW from \in Accounts,
         NEW n \in Nat, NEW t \in Tokens
  PROVE  Moved(l, u, from, Meson, n)[<<t, Meson>>]
           = l[<<t, Meson>>] + (IF t = u THEN n ELSE 0)
<1> DEFINE m == [l EXCEPT ![<<u, from>>] = @ - n]
<1>1. /\ <<u, from>> \in Holding /\ <<u, Meson>> \in Holding
      /\ <<t, Meson>> \in Holding /\ from # Meson
  BY AddressAssumption DEF Holding, Address
<1>2. /\ m \in [Holding -> Int] /\ m[<<t, Meson>>] = l[<<t, Meson>>]
      /\ m[<<u, Meson>>] = l[<<u, Meson>>]
  BY <1>1
<1>3. Moved(l, u, from, Meson, n) = [m EXCEPT ![<<u, Meson>>] = @ + n]
  BY DEF Moved
<1> HIDE DEF m
<1>4. QED
  BY <1>1, <1>2, <1>3

LEMMA HeldAfterPayment ==
  ASSUME NEW l \in [Holding -> Nat], NEW u \in Tokens, NEW to \in Address,
         NEW n \in Nat, NEW t \in Tokens
  PROVE  /\ Moved(l, u, Meson, to, n)[<<t, Meson>>] \in Int
         /\ Moved(l, u, Meson, to, n)[<<t, Meson>>]
              >= l[<<t, Meson>>] - (IF t = u THEN n ELSE 0)
         /\ to # Meson
              => Moved(l, u, Meson, to, n)[<<t, Meson>>]
                   = l[<<t, Meson>>] - (IF t = u THEN n ELSE 0)
<1> DEFINE m == [l EXCEPT ![<<u, Meson>>] = @ - n]
<1>1. /\ <<u, to>> \in Holding /\ <<u, Meson>> \in Holding
      /\ <<t, Meson>> \in Holding
  BY DEF Holding, Address
<1>2. /\ m \in [Holding -> Int]
      /\ m[<<t, Meson>>] = l[<<t, Meson>>] - (IF t = u THEN n ELSE 0)
  BY <1>1
<1>3. Moved(l, u, Meson, to, n) = [m EXCEPT ![<<u, to>>] = @ + n]
  BY DEF Moved
<1> HIDE DEF m
<1>4. [m EXCEPT ![<<u, to>>] = @ + n][<<t, Meson>>]
        = IF t = u /\ to = Meson THEN m[<<t, Meson>>] + n ELSE m[<<t, Meson>>]
  BY <1>1, <1>2
<1>5. m[<<t, Meson>>] \in Int
  BY <1>1, <1>2
<1>6. [m EXCEPT ![<<u, to>>] = @ + n][<<t, Meson>>] >= m[<<t, Meson>>]
  BY <1>4, <1>5
<1>7. QED
  BY <1>2, <1>3, <1>4, <1>5, <1>6

LEMMA HeldAfterDeposit ==
  ASSUME Books, NEW caller, NEW sender, NEW i \in TokenIndex, NEW n \in Nat,
         DepositToken(caller, sender, i, n), NEW t \in Tokens
  PROVE  ledger'[<<t, Meson>>]
           = ledger[<<t, Meson>>] + (IF Stands(t, i) THEN n ELSE 0)
<1> DEFINE payer == IF IsCoreToken(i) THEN caller ELSE sender
<1>1. /\ payer \in Accounts /\ Transferable(i)
      /\ ledger' = Moved(ledger, TokenAt(i), payer, Meson, n)
  BY DEF DepositToken
<1> HIDE DEF payer
<1>2. TokenAt(i) \in Tokens /\ (Stands(t, i) <=> t = TokenAt(i))
  BY <1>1, TokenAtType, StandsForTransferable
<1>3. ledger \in [Holding -> Nat]
  BY DEF Books, TypeOK, StatesTypeOK
<1>4. ledger'[<<t, Meson>>]
        = ledger[<<t, Meson>>] + (IF t = TokenAt(i) THEN n ELSE 0)
  BY <1>1, <1>2, <1>3, HeldAfterReceipt
<1>5. QED
  BY <1>2, <1>4

LEMMA HeldAfterTransfer ==
  ASSUME Books, NEW l \in [Holding -> Nat], NEW i \in TokenIndex,
         NEW to \in Address, NEW n \in Nat, CanTransfer(l, i, to, n), NEW t \in Tokens
  PROVE  /\ Transferred(l, i, to, n)[<<t, Meson>>] \in Int
         /\ Transferred(l, i, to, n)[<<t, Meson>>]
              >= l[<<t, Meson>>] - (IF Stands(t, i) THEN n ELSE 0)
         /\ to # Meson
              => Transferred(l, i, to, n)[<<t, Meson>>]
                   = l[<<t, Meson>>] - (IF Stands(t, i) THEN n ELSE 0)
<1>1. /\ Transferable(i) /\ TokenAt(i) \in Tokens
      /\ Stands(t, i) <=> t = TokenAt(i)
  BY TokenAtType, StandsForTransferable DEF CanTransfer
<1>2. QED
  BY <1>1, HeldAfterPayment DEF Transferred

LEMMA HeldAfterRelease ==
  ASSUME Books, NEW l \in [Holding -> Nat], NEW s \in Swaps,
         NEW to \in Address, NEW n \in Nat, CanRelease(l, s, to, n), NEW t \in Tokens
  PROVE  /\ ReleasedTo(l, s, to, n)[<<t, Meson>>] \in Int
         /\ ReleasedTo(l, s, to, n)[<<t, Meson>>]
              >= l[<<t, Meson>>] - (IF Stands(t, s.outToken) THEN n ELSE 0)
         /\ to # Meson
              => ReleasedTo(l, s, to, n)[<<t, Meson>>]
                   = l[<<t, Meson>>] - (IF Stands(t, s.outToken) THEN n ELSE 0)
<1>1. CASE s.toContract \/ n > 0
  <2>1. s.outToken \in TokenIndex /\ CanTransfer(l, s.outToken, to, n)
    BY <1>1, SwapFields DEF CanRelease
  <2>2. ReleasedTo(l, s, to, n) = Transferred(l, s.outToken, to, n)
    BY <1>1 DEF ReleasedTo
  <2>3. QED
    BY <2>1, <2>2, HeldAfterTransfer
<1>2. CASE ~(s.toContract \/ n > 0)
  <2>1. ReleasedTo(l, s, to, n) = l /\ n = 0
    BY <1>2 DEF ReleasedTo
  <2>2. l[<<t, Meson>>] \in Nat
    BY DEF Holding, Address
  <2>3. QED
    BY <2>1, <2>2
<1>3. QED
  BY <1>1, <1>2

LEMMA HeldAfterPayout ==
  ASSUME Books, NEW s \in Swaps, NEW to \in Address, CanTakeFees(s),
         PayRecipient(s, to), NEW t \in Tokens
  PROVE  /\ ledger'[<<t, Meson>>]
              >= ledger[<<t, Meson>>] - (IF t = CoreToken THEN s.coreAmount ELSE 0)
                 - (IF Stands(t, s.outToken) THEN ReleaseAmount(s) ELSE 0)
         /\ to # Meson
              => ledger'[<<t, Meson>>]
                   = ledger[<<t, Meson>>]
                     - (IF t = CoreToken THEN s.coreAmount ELSE 0)
                     - (IF Stands(t, s.outToken) THEN ReleaseAmount(s) ELSE 0)
<1> DEFINE l == Moved(ledger, CoreToken, Meson, to, s.coreAmount)
           n == ReleaseAmount(s)
           x == IF t = CoreToken THEN s.coreAmount ELSE 0
           y == IF Stands(t, s.outToken) THEN n ELSE 0
<1>1. /\ ledger \in [Holding -> Nat] /\ CoreToken \in Tokens /\ Meson \in Address
      /\ s.coreAmount \in Nat /\ ledger[<<CoreToken, Meson>>] >= s.coreAmount
  BY SwapFields, AddressAssumption
  DEF Books, TypeOK, StatesTypeOK, PayRecipient, Address
<1>2. n \in Nat
  BY FeesAreNat DEF CanTakeFees
<1>3. l \in [Holding -> Nat]
  BY <1>1, MovedType
<1>4. /\ l[<<t, Meson>>] \in Int /\ l[<<t, Meson>>] >= ledger[<<t, Meson>>] - x
      /\ to # Meson => l[<<t, Meson>>] = ledger[<<t, Meson>>] - x
  BY <1>1, HeldAfterPayment
<1>5. CanRelease(l, s, to, n) /\ ledger' = ReleasedTo(l, s, to, n)
  BY DEF PayRecipient
<1> HIDE DEF l, n
<1>6. /\ ledger'[<<t, Meson>>] \in Int /\ ledger'[<<t, Meson>>] >= l[<<t, Meson>>] - y
      /\ to # Meson => ledger'[<<t, Meson>>] = l[<<t, Meson>>] - y
  BY <1>2, <1>3, <1>5, HeldAfterRelease
<1>7. ledger[<<t, Meson>>] \in Int /\ x \in Int /\ y \in Int
  BY <1>1, <1>2 DEF Holding, Address
<1> HIDE DEF x, y
<1>8. /\ ledger'[<<t, Meson>>] >= ledger[<<t, Meson>>] - x - y
      /\ to # Meson => ledger'[<<t, Meson>>] = ledger[<<t, Meson>>] - x - y
  BY ONLY <1>4, <1>6, <1>7
<1>9. QED
  BY <1>8 DEF x, y, n

LEMMA PoolOwedAfterFees ==
  ASSUME NEW b \in [PoolTokenIndex -> Nat], NEW s \in Swaps, NEW t
  PROVE  PoolOwed(FeesTaken(b, s), t)
           = PoolOwed(b, t)
             + (IF Stands(t, s.outToken) THEN ServiceFeeCharged(s) + s.share ELSE 0)
<1> DEFINE c == Credited(b, s.outToken, 0, ServiceFeeCharged(s))
<1>1. /\ s.outToken \in TokenIndex /\ s.poolToShare \in PoolIndices /\ s.share \in Nat
      /\ ServiceFeeCharged(s) \in Nat /\ 0 \in PoolIndices
  BY SwapFields, FeesAreNat, IndexAssumption
<1>2. c \in [PoolTokenIndex -> Nat]
  BY <1>1, CreditedType
<1>3. PoolOwed(c, t)
        = PoolOwed(b, t) + (IF Stands(t, s.outToken) THEN ServiceFeeCharged(s) ELSE 0)
  BY <1>1, PoolOwedCredited
<1>4. FeesTaken(b, s) = Credited(c, s.outToken, s.poolToShare, s.share)
  BY DEF FeesTaken
<1> HIDE DEF c
<1>5. PoolOwed(Credited(c, s.outToken, s.poolToShare, s.share), t)
        = PoolOwed(c, t) + (IF Stands(t, s.outToken) THEN s.share ELSE 0)
  BY <1>1, <1>2, PoolOwedCredited
<1>6. PoolOwed(b, t) \in Nat
  <2>1. \A pti \in PoolTokenIndex : PoolsOwe(b, t)[pti] \in Nat
    BY DEF PoolsOwe
  <2>2. QED
    BY <2>1, FiniteSets, SumIsNat DEF PoolOwed
<1>7. QED
  BY <1>1, <1>3, <1>4, <1>5, <1>6

-----------------------------------------------------------------------------
\* Every call takes at most as much from what the contract holds of a token as
\* it takes from what the contract owes of it.

StaysCovered ==
  \A t \in Tokens : Covering(ledger', balanceOfPoolToken', postedSwaps', lockedSwaps', t)

\* The parts of a balance sheet that a step starts from.
LEMMA SheetIs ==
  ASSUME SolvencyInv, NEW t \in Tokens
  PROVE  /\ ledger[<<t, Meson>>] \in Nat
         /\ PoolOwed(balanceOfPoolToken, t) \in Nat
         /\ PostedOwed(postedSwaps, t) \in Nat
         /\ LockedOwed(lockedSwaps, t) \in Nat
         /\ ledger[<<t, Meson>>]
              >= PoolOwed(balanceOfPoolToken, t) + PostedOwed(postedSwaps, t)
                 + LockedOwed(lockedSwaps, t)
         /\ NothingIsSentAway
              => ledger[<<t, Meson>>]
                   = PoolOwed(balanceOfPoolToken, t) + PostedOwed(postedSwaps, t)
                     + LockedOwed(lockedSwaps, t)
<1>1. /\ PoolOwed(balanceOfPoolToken, t) \in Nat
      /\ PostedOwed(postedSwaps, t) \in Nat
      /\ LockedOwed(lockedSwaps, t) \in Nat
  BY OwedIsNat DEF SolvencyInv, Books, TypeOK, StatesTypeOK
<1>2. ledger[<<t, Meson>>] \in Nat
  BY DEF SolvencyInv, Books, TypeOK, StatesTypeOK, Holding, Address
<1>3. QED
  BY <1>1, <1>2 DEF SolvencyInv, CoveredAll, Covering

LEMMA UnchangedCovers ==
  ASSUME SolvencyInv, UNCHANGED <<ledger, balanceOfPoolToken, postedSwaps, lockedSwaps>>
  PROVE  StaysCovered
BY DEF SolvencyInv, CoveredAll, StaysCovered

\* A word with an initiator is neither of the two that stand for settled swaps.
LEMMA WordsOfOthersPend ==
  ASSUME NothingIsSentAway, NEW v \in PostingValue
  PROVE  Pending(v)
BY DEF NothingIsSentAway, PostingValue, Pending, NotPosted, Executed

LEMMA NotPending == ~Pending(NotPosted) /\ ~Pending(Executed)
BY DEF Pending

\* What is owed for a posted swap grows at most by its amount, and not at all
\* if it was pending before or is not pending now.
LEMMA PostedOwedGrows ==
  ASSUME SolvencyInv, NEW s \in Swaps, NEW v,
         postedSwaps' = [postedSwaps EXCEPT ![s] = v], NEW t \in Tokens
  PROVE  /\ PostedOwed(postedSwaps', t) \in Int
         /\ PostedOwed(postedSwaps', t)
              <= PostedOwed(postedSwaps, t) + (IF Stands(t, s.inToken) THEN s.amount ELSE 0)
         /\ Pending(postedSwaps[s]) \/ ~Pending(v)
              => PostedOwed(postedSwaps', t) <= PostedOwed(postedSwaps, t)
         /\ (Pending(postedSwaps[s]) <=> Pending(v))
              => PostedOwed(postedSwaps', t) = PostedOwed(postedSwaps, t)
         /\ ~Pending(postedSwaps[s]) /\ Pending(v)
              => PostedOwed(postedSwaps', t)
                   = PostedOwed(postedSwaps, t)
                     + (IF Stands(t, s.inToken) THEN s.amount ELSE 0)
<1> DEFINE x == PostedPart(v, s, t)
           y == PostedPart(postedSwaps[s], s, t)
           n == IF Stands(t, s.inToken) THEN s.amount ELSE 0
<1>1. postedSwaps \in [Swaps -> PostedSwap]
  BY DEF SolvencyInv, Books, TypeOK, SwapTypeOK
<1>2. postedSwaps'[s] = v /\ \A q \in Swaps \ {s} : postedSwaps'[q] = postedSwaps[q]
  BY <1>1
<1>3. PostedOwed(postedSwaps', t) = (PostedOwed(postedSwaps, t) + x) - y
  <2>1. PostedOwed(postedSwaps', t)
          = (PostedOwed(postedSwaps, t) + PostedPart(postedSwaps'[s], s, t))
            - PostedPart(postedSwaps[s], s, t)
    BY ONLY <1>2, s \in Swaps, PostedOwedChanged, Zenon
  <2>2. QED
    BY <1>2, <2>1
<1>4. PostedOwed(postedSwaps, t) \in Nat
  BY SheetIs
<1>5. s.amount \in Nat
  BY SwapFields
<1>6. x \in Nat /\ y \in Nat /\ x <= n /\ n \in Nat
      /\ (Pending(postedSwaps[s]) \/ ~Pending(v) => x <= y)
      /\ ((Pending(postedSwaps[s]) <=> Pending(v)) => x = y)
      /\ (~Pending(postedSwaps[s]) /\ Pending(v) => y = 0 /\ x = n)
  BY <1>5 DEF PostedPart
<1> HIDE DEF x, y, n
<1>7. /\ PostedOwed(postedSwaps', t) \in Int
      /\ PostedOwed(postedSwaps', t) <= PostedOwed(postedSwaps, t) + n
      /\ Pending(postedSwaps[s]) \/ ~Pending(v)
           => PostedOwed(postedSwaps', t) <= PostedOwed(postedSwaps, t)
      /\ (Pending(postedSwaps[s]) <=> Pending(v))
           => PostedOwed(postedSwaps', t) = PostedOwed(postedSwaps, t)
      /\ ~Pending(postedSwaps[s]) /\ Pending(v)
           => PostedOwed(postedSwaps', t) = PostedOwed(postedSwaps, t) + n
  BY <1>3, <1>4, <1>6
<1>8. QED
  BY <1>7 DEF n

\* The value given to a posted swap may be that of a settled one.
LEMMA PostCovers ==
  ASSUME SolvencyInv, NEW s \in Swaps, NEW v \in PostingValue, NEW caller, NEW sender,
         postedSwaps[s] = NotPosted,
         postedSwaps' = [postedSwaps EXCEPT ![s] = v],
         DepositToken(caller, sender, s.inToken, s.amount),
         UNCHANGED <<balanceOfPoolToken, lockedSwaps>>
  PROVE  StaysCovered
<1> SUFFICES ASSUME NEW t \in Tokens
             PROVE  Covering(ledger', balanceOfPoolToken', postedSwaps', lockedSwaps', t)
  BY DEF StaysCovered
<1> DEFINE n == IF Stands(t, s.inToken) THEN s.amount ELSE 0
<1>1. s.amount \in Nat /\ s.inToken \in TokenIndex
  BY SwapFields
<1>2. ledger'[<<t, Meson>>] = ledger[<<t, Meson>>] + n
  BY <1>1, HeldAfterDeposit DEF SolvencyInv
<1>3. /\ PostedOwed(postedSwaps', t) \in Int
      /\ PostedOwed(postedSwaps', t) <= PostedOwed(postedSwaps, t) + n
      /\ Pending(v) => PostedOwed(postedSwaps', t) = PostedOwed(postedSwaps, t) + n
  BY PostedOwedGrows, NotPending
<1>4. n \in Nat /\ (NothingIsSentAway => Pending(v))
  BY <1>1, WordsOfOthersPend
<1> HIDE DEF n
<1>5. QED
  BY <1>2, <1>3, <1>4, SheetIs DEF Covering

LEMMA BondCovers ==
  ASSUME SolvencyInv, NEW s \in Swaps, NEW caller, NEW p, BondSwap(caller, s, p),
         UNCHANGED lockedSwaps
  PROVE  StaysCovered
<1> SUFFICES ASSUME NEW t \in Tokens
             PROVE  Covering(ledger', balanceOfPoolToken', postedSwaps', lockedSwaps', t)
  BY DEF StaysCovered
<1> DEFINE v == [postedSwaps[s] EXCEPT !.poolIndex = p]
<1>1. /\ Pending(postedSwaps[s]) /\ UNCHANGED <<ledger, balanceOfPoolToken>>
      /\ postedSwaps' = [postedSwaps EXCEPT ![s] = v]
  BY DEF BondSwap, statesVars
<1>2. Pending(v)
  <2>1. postedSwaps[s] \in PostedSwap /\ postedSwaps[s].poolIndex = 0
    BY DEF BondSwap, SolvencyInv, Books, TypeOK, SwapTypeOK
  <2>2. postedSwaps[s].initiator # ZeroAddress
    BY <1>1, <2>1 DEF Pending, NotPosted, PostedSwap
  <2>3. v.initiator = postedSwaps[s].initiator
    BY <2>1 DEF PostedSwap
  <2>4. QED
    BY <2>2, <2>3 DEF Pending, NotPosted, Executed
<1> HIDE DEF v
<1>3. PostedOwed(postedSwaps', t) = PostedOwed(postedSwaps, t)
  BY <1>1, <1>2, PostedOwedGrows
<1>4. QED
  BY <1>1, <1>3, SheetIs DEF Covering

\* What is owed for a pending swap that stops being pending.
LEMMA SettledOwed ==
  ASSUME SolvencyInv, NEW s \in Swaps, NEW v, ~Pending(v), Pending(postedSwaps[s]),
         postedSwaps' = [postedSwaps EXCEPT ![s] = v], NEW t \in Tokens
  PROVE  PostedOwed(postedSwaps', t)
           = PostedOwed(postedSwaps, t) - (IF Stands(t, s.inToken) THEN s.amount ELSE 0)
<1> DEFINE y == PostedPart(postedSwaps[s], s, t)
<1>1. postedSwaps \in [Swaps -> PostedSwap]
  BY DEF SolvencyInv, Books, TypeOK, SwapTypeOK
<1>2. postedSwaps'[s] = v /\ \A q \in Swaps \ {s} : postedSwaps'[q] = postedSwaps[q]
  BY <1>1
<1>3. PostedOwed(postedSwaps', t)
        = (PostedOwed(postedSwaps, t) + PostedPart(v, s, t)) - y
  <2>1. PostedOwed(postedSwaps', t)
          = (PostedOwed(postedSwaps, t) + PostedPart(postedSwaps'[s], s, t))
            - PostedPart(postedSwaps[s], s, t)
    BY ONLY <1>2, s \in Swaps, PostedOwedChanged, Zenon
  <2>2. QED
    BY <1>2, <2>1
<1>4. PostedOwed(postedSwaps, t) \in Nat
  BY SheetIs
<1>5. s.amount \in Nat
  BY SwapFields
<1>6. PostedPart(v, s, t) = 0 /\ y = IF Stands(t, s.inToken) THEN s.amount ELSE 0
  BY DEF PostedPart
<1> HIDE DEF y
<1>7. QED
  BY <1>3, <1>4, <1>5, <1>6

LEMMA SettleCovers ==
  ASSUME SolvencyInv, NEW s \in Swaps, NEW v, ~Pending(v), Pending(postedSwaps[s]),
         postedSwaps' = [postedSwaps EXCEPT ![s] = v],
         NEW to \in Address, NothingIsSentAway => to # Meson,
         CanTransfer(ledger, s.inToken, to, s.amount),
         ledger' = Transferred(ledger, s.inToken, to, s.amount),
         UNCHANGED <<balanceOfPoolToken, lockedSwaps>>
  PROVE  StaysCovered
<1> SUFFICES ASSUME NEW t \in Tokens
             PROVE  Covering(ledger', balanceOfPoolToken', postedSwaps', lockedSwaps', t)
  BY DEF StaysCovered
<1> DEFINE n == IF Stands(t, s.inToken) THEN s.amount ELSE 0
<1>1. s.amount \in Nat /\ s.inToken \in TokenIndex /\ n \in Nat
  BY SwapFields
<1>2. PostedOwed(postedSwaps', t) = PostedOwed(postedSwaps, t) - n
  BY SettledOwed
<1>3. /\ ledger'[<<t, Meson>>] \in Int /\ ledger'[<<t, Meson>>] >= ledger[<<t, Meson>>] - n
      /\ to # Meson => ledger'[<<t, Meson>>] = ledger[<<t, Meson>>] - n
  BY <1>1, HeldAfterTransfer DEF SolvencyInv, Books, TypeOK, StatesTypeOK
<1> HIDE DEF n
<1>4. QED
  BY <1>1, <1>2, <1>3, SheetIs DEF Covering

\* What is owed to pools after a credit.
LEMMA CreditedOwed ==
  ASSUME SolvencyInv, NEW i \in TokenIndex, NEW p \in PoolIndices, NEW n \in Nat, NEW t
  PROVE  PoolOwed(Credited(balanceOfPoolToken, i, p, n), t)
           = PoolOwed(balanceOfPoolToken, t) + (IF Stands(t, i) THEN n ELSE 0)
BY PoolOwedCredited DEF SolvencyInv, Books, TypeOK, StatesTypeOK

LEMMA ExecuteCovers ==
  ASSUME SolvencyInv, NEW s \in Swaps, NEW recipient, NEW depositToPool,
         ExecuteSwap(s, recipient, depositToPool), UNCHANGED lockedSwaps
  PROVE  StaysCovered
<1> DEFINE p == postedSwaps[s].poolIndex
           v == ValueAfterExecution(s)
<1>1. /\ Pending(postedSwaps[s]) /\ ~Pending(v) /\ p \in PoolIndices
      /\ ownerOfPool[p] \in Address /\ (NothingIsSentAway => ownerOfPool[p] # Meson)
      /\ postedSwaps' = [postedSwaps EXCEPT ![s] = v]
      /\ s.amount \in Nat /\ s.inToken \in TokenIndex
  BY NotPending, SwapFields, PostedFields
  DEF ExecuteSwap, ValueAfterExecution, SolvencyInv, Books, MesonIsNoParty
<1> HIDE DEF v
<1>2. CASE depositToPool
  <2> SUFFICES ASSUME NEW t \in Tokens
               PROVE  Covering(ledger', balanceOfPoolToken', postedSwaps', lockedSwaps', t)
    BY DEF StaysCovered
  <2> DEFINE n == IF Stands(t, s.inToken) THEN s.amount ELSE 0
  <2>1. /\ balanceOfPoolToken' = Credited(balanceOfPoolToken, s.inToken, p, s.amount)
        /\ UNCHANGED ledger
    BY <1>2 DEF ExecuteSwap
  <2>2. PoolOwed(balanceOfPoolToken', t) = PoolOwed(balanceOfPoolToken, t) + n
    BY <1>1, <2>1, CreditedOwed
  <2>3. PostedOwed(postedSwaps', t) = PostedOwed(postedSwaps, t) - n
    BY <1>1, SettledOwed
  <2>4. n \in Nat
    BY <1>1
  <2> HIDE DEF n
  <2>5. QED
    BY <2>1, <2>2, <2>3, <2>4, SheetIs DEF Covering
<1>3. CASE ~depositToPool
  <2>1. /\ CanTransfer(ledger, s.inToken, ownerOfPool[p], s.amount)
        /\ ledger' = Transferred(ledger, s.inToken, ownerOfPool[p], s.amount)
        /\ UNCHANGED balanceOfPoolToken
    BY <1>3 DEF ExecuteSwap
  <2> HIDE DEF p
  <2>2. QED
    BY <1>1, <2>1, SettleCovers
<1>4. QED
  BY <1>2, <1>3

\* The caller pays, a pool is credited, and no swap becomes pending.
LEMMA DepositCovers ==
  ASSUME SolvencyInv, NEW caller, NEW sender, NEW i \in TokenIndex, NEW p \in PoolIndices,
         NEW n \in Nat, DepositToken(caller, sender, i, n),
         balanceOfPoolToken' = Credited(balanceOfPoolToken, i, p, n),
         UNCHANGED lockedSwaps,
         \/ UNCHANGED postedSwaps
         \/ \E s \in Swaps : /\ postedSwaps[s] = NotPosted
                             /\ postedSwaps' = [postedSwaps EXCEPT ![s] = Executed]
  PROVE  StaysCovered
<1> SUFFICES ASSUME NEW t \in Tokens
             PROVE  Covering(ledger', balanceOfPoolToken', postedSwaps', lockedSwaps', t)
  BY DEF StaysCovered
<1> DEFINE m == IF Stands(t, i) THEN n ELSE 0
<1>1. ledger'[<<t, Meson>>] = ledger[<<t, Meson>>] + m
  BY HeldAfterDeposit DEF SolvencyInv
<1>2. PoolOwed(balanceOfPoolToken', t) = PoolOwed(balanceOfPoolToken, t) + m
  BY CreditedOwed
<1>3. PostedOwed(postedSwaps', t) = PostedOwed(postedSwaps, t)
  <2>1. CASE UNCHANGED postedSwaps
    <3>1. postedSwaps' = postedSwaps
      BY <2>1
    <3>2. QED
      BY <3>1
  <2>2. ASSUME NEW s \in Swaps, postedSwaps[s] = NotPosted,
               postedSwaps' = [postedSwaps EXCEPT ![s] = Executed]
        PROVE  PostedOwed(postedSwaps', t) = PostedOwed(postedSwaps, t)
    BY <2>2, PostedOwedGrows, NotPending
  <2>3. QED
    BY <2>1, <2>2
<1>4. m \in Nat
  OBVIOUS
<1> HIDE DEF m
<1>5. QED
  BY <1>1, <1>2, <1>3, <1>4, SheetIs DEF Covering

LEMMA SwapCovers ==
  ASSUME SolvencyInv, SwapNext, UNCHANGED lockedSwaps
  PROVE  StaysCovered
<1>1. PICK s \in Swaps, caller \in Accounts :
        \/ \E v \in PostingValue : \/ PostSwap(caller, s, v)
                                   \/ PostSwapFromInitiator(s, v)
                                   \/ PostSwapFromContract(caller, s, v)
        \/ \E p \in PoolIndices : BondSwap(caller, s, p)
        \/ CancelSwap(s)
        \/ \E recipient \in Recipients : CancelSwapTo(s, recipient)
        \/ \E recipient \in Recipients, depositToPool \in BOOLEAN :
             ExecuteSwap(s, recipient, depositToPool)
        \/ \E initiator \in Initiators, recipient \in Recipients :
             DirectExecuteSwap(caller, s, initiator, recipient)
        \/ SimpleExecuteSwap(caller, s)
  BY DEF SwapNext
<1>2. s.amount \in Nat /\ s.inToken \in TokenIndex /\ 1 \in PoolIndices
  BY SwapFields, IndexAssumption
<1>3. ASSUME NEW v \in PostingValue, \/ PostSwap(caller, s, v)
                                     \/ PostSwapFromInitiator(s, v)
                                     \/ PostSwapFromContract(caller, s, v)
      PROVE  StaysCovered
  BY <1>3, PostCovers
  DEF PostSwap, PostSwapFromInitiator, PostSwapFromContract, VerifyEncodedSwap
<1>4. ASSUME NEW a \in Address, NothingIsSentAway => a # Meson, CancelTo(s, a)
      PROVE  StaysCovered
  BY <1>4, SettleCovers, NotPending DEF CancelTo
<1>5. CASE CancelSwap(s)
  BY <1>4, <1>5, PostedFields DEF CancelSwap, SolvencyInv, Books, MesonIsNoParty
<1>6. CASE \E recipient \in Recipients : CancelSwapTo(s, recipient)
  BY <1>4, <1>6, AddressAssumption DEF CancelSwapTo, Address, NothingIsSentAway
<1>7. ASSUME NEW initiator, NEW recipient, DirectExecuteSwap(caller, s, initiator, recipient)
      PROVE  StaysCovered
  <2>1. /\ DepositToken(caller, initiator, s.inToken, s.amount)
        /\ balanceOfPoolToken' = Credited(balanceOfPoolToken, s.inToken, 1, s.amount)
        /\ postedSwaps[s] = NotPosted
        /\ postedSwaps' = [postedSwaps EXCEPT ![s] = Executed]
    BY <1>7 DEF DirectExecuteSwap, VerifyEncodedSwap
  <2>2. QED
    BY <1>2, <2>1, DepositCovers
<1>8. CASE SimpleExecuteSwap(caller, s)
  <2>1. /\ DepositToken(caller, caller, s.inToken, s.amount)
        /\ balanceOfPoolToken' = Credited(balanceOfPoolToken, s.inToken, 1, s.amount)
        /\ UNCHANGED postedSwaps
    BY <1>8 DEF SimpleExecuteSwap
  <2>2. QED
    BY <1>2, <2>1, DepositCovers
<1>9. QED
  BY <1>1, <1>3, <1>5, <1>6, <1>7, <1>8, BondCovers, ExecuteCovers

-----------------------------------------------------------------------------
\* Calls of the pools

LEMMA WithdrawCovers ==
  ASSUME SolvencyInv, NEW caller \in Accounts, NEW n \in Nat, NEW i \in TokenIndex,
         NEW p \in PoolIndices, Withdraw(caller, n, i, p), UNCHANGED postedSwaps
  PROVE  StaysCovered
<1> SUFFICES ASSUME NEW t \in Tokens
             PROVE  Covering(ledger', balanceOfPoolToken', postedSwaps', lockedSwaps', t)
  BY DEF StaysCovered
<1> DEFINE m == IF Stands(t, i) THEN n ELSE 0
<1>1. /\ ledger \in [Holding -> Nat] /\ balanceOfPoolToken \in [PoolTokenIndex -> Nat]
      /\ caller \in Address /\ Books
  BY DEF SolvencyInv, Books, TypeOK, StatesTypeOK, Address
<1>2. /\ Covers(balanceOfPoolToken, i, p, n)
      /\ balanceOfPoolToken' = Debited(balanceOfPoolToken, i, p, n)
      /\ CanTransfer(ledger, i, caller, n)
      /\ ledger' = Transferred(ledger, i, caller, n)
      /\ UNCHANGED lockedSwaps
  BY DEF Withdraw
<1>3. PoolOwed(balanceOfPoolToken', t) = PoolOwed(balanceOfPoolToken, t) - m
  BY <1>1, <1>2, PoolOwedDebited
<1>4. ledger'[<<t, Meson>>] = ledger[<<t, Meson>>] - m
  BY <1>1, <1>2, HeldAfterTransfer, AddressAssumption
<1>5. m \in Nat
  OBVIOUS
<1> HIDE DEF m
<1>6. QED
  BY <1>2, <1>3, <1>4, <1>5, SheetIs DEF Covering

\* What is owed for locked swaps when one lock is set to v.
LEMMA LocksChange ==
  ASSUME SolvencyInv, NEW s \in Swaps, NEW initiator \in Initiators, NEW v,
         AmountToLock(s) >= 0,
         lockedSwaps' = [lockedSwaps EXCEPT ![<<s, initiator>>] = v], NEW t
  PROVE  /\ CoveredLocks(lockedSwaps')
         /\ LockedOwed(lockedSwaps', t)
              = (LockedOwed(lockedSwaps, t) + LockedPart(v, s, t))
                - LockedPart(lockedSwaps[<<s, initiator>>], s, t)
<1> DEFINE id == <<s, initiator>>
<1>1. id \in SwapId /\ id[1] = s
  BY DEF SwapId
<1>2. lockedSwaps \in [SwapId -> LockedSwap] /\ CoveredLocks(lockedSwaps)
  BY DEF SolvencyInv, Books, TypeOK, PoolsTypeOK
<1> HIDE DEF id
<1>3. lockedSwaps'[id] = v /\ \A y \in SwapId \ {id} : lockedSwaps'[y] = lockedSwaps[y]
  BY <1>1, <1>2 DEF id
<1>4. AmountToLock(id[1]) >= 0
  BY <1>1
<1>5. /\ CoveredLocks(lockedSwaps')
      /\ LockedOwed(lockedSwaps', t)
           = (LockedOwed(lockedSwaps, t) + LockedPart(lockedSwaps'[id], id[1], t))
             - LockedPart(lockedSwaps[id], id[1], t)
  BY ONLY <1>1, <1>2, <1>3, <1>4, LockedOwedChanged, Zenon
<1>6. QED
  BY <1>1, <1>3, <1>5 DEF id

\* What is owed to pools when one of them pays for s.
LEMMA PoolOwedPaid ==
  ASSUME Books, NEW s \in Swaps, AmountToLock(s) >= 0, NEW p \in PoolIndices,
         NEW b \in [PoolTokenIndex -> Nat], Covers(b, s.outToken, p, AmountToLock(s)),
         NEW t \in Tokens
  PROVE  /\ Debited(b, s.outToken, p, AmountToLock(s)) \in [PoolTokenIndex -> Nat]
         /\ PoolOwed(Debited(b, s.outToken, p, AmountToLock(s)), t)
              = PoolOwed(b, t) - (IF Stands(t, s.outToken) THEN AmountToLock(s) ELSE 0)
<1>1. s.outToken \in TokenIndex /\ AmountToLock(s) \in Nat
  BY SwapFields, FeesAreNat
<1>2. QED
  BY <1>1, PoolOwedDebited, DebitedType

LEMMA CoreOwedPaid ==
  ASSUME Books, NEW s \in Swaps, NEW p \in PoolIndices,
         NEW b \in [PoolTokenIndex -> Nat], Covers(b, CoreIndex, p, s.coreAmount),
         NEW t \in Tokens
  PROVE  PoolOwed(Debited(b, CoreIndex, p, s.coreAmount), t)
           = PoolOwed(b, t) - (IF t = CoreToken THEN s.coreAmount ELSE 0)
<1>1. s.coreAmount \in Nat /\ CoreIndex \in TokenIndex
  BY SwapFields, StandsForCore
<1>2. Stands(t, CoreIndex) <=> t = CoreToken
  BY StandsForCore
<1> DEFINE i == CoreIndex
<1> HIDE DEF i
<1>3. PoolOwed(Debited(b, i, p, s.coreAmount), t)
        = PoolOwed(b, t) - (IF Stands(t, i) THEN s.coreAmount ELSE 0)
  BY <1>1, PoolOwedDebited DEF i
<1>4. QED
  BY <1>2, <1>3 DEF i

LEMMA LockCovers ==
  ASSUME SolvencyInv, NEW caller \in Accounts, NEW s \in Swaps,
         NEW initiator \in Initiators, LockSwap(caller, s, initiator),
         UNCHANGED postedSwaps
  PROVE  CoveredLocks(lockedSwaps') /\ StaysCovered
<1> DEFINE p == poolOfAuthorizedAddr[caller]
           b == Debited(balanceOfPoolToken, s.outToken, p, AmountToLock(s))
           v == [until |-> now + LOCK_TIME_PERIOD, poolIndex |-> p]
<1>1. /\ lockedSwaps[<<s, initiator>>] = NotLocked
      /\ lockedSwaps' = [lockedSwaps EXCEPT ![<<s, initiator>>] = v]
      /\ AmountToLock(s) >= 0
      /\ Covers(balanceOfPoolToken, s.outToken, p, AmountToLock(s))
      /\ Covers(b, CoreIndex, p, s.coreAmount)
      /\ balanceOfPoolToken' = Debited(b, CoreIndex, p, s.coreAmount)
      /\ UNCHANGED ledger
  BY DEF LockSwap, NeverReleased
<1>2. ~Locked(NotLocked) /\ Locked(v)
  BY LockTimeAssumption
  DEF Locked, NotLocked, Released, SolvencyInv, Books, TypeOK, StatesTypeOK
<1>3. /\ balanceOfPoolToken \in [PoolTokenIndex -> Nat] /\ p \in PoolIndices /\ Books
  BY PoolOfType DEF SolvencyInv, Books, TypeOK, StatesTypeOK
<1> HIDE DEF p, v
<1>4. ASSUME NEW t \in Tokens
      PROVE  Covering(ledger', balanceOfPoolToken', postedSwaps', lockedSwaps', t)
  <2> DEFINE x == IF Stands(t, s.outToken) THEN AmountToLock(s) ELSE 0
             y == IF t = CoreToken THEN s.coreAmount ELSE 0
  <2>1. /\ b \in [PoolTokenIndex -> Nat]
        /\ PoolOwed(b, t) = PoolOwed(balanceOfPoolToken, t) - x
    BY <1>1, <1>3, PoolOwedPaid
  <2> HIDE DEF b
  <2>2. PoolOwed(balanceOfPoolToken', t) = PoolOwed(b, t) - y
    BY <1>1, <1>3, <2>1, CoreOwedPaid
  <2>3. LockedOwed(lockedSwaps', t)
          = (LockedOwed(lockedSwaps, t) + LockedPart(v, s, t))
            - LockedPart(lockedSwaps[<<s, initiator>>], s, t)
    BY <1>1, LocksChange
  <2>4. LockedPart(v, s, t) = x + y /\ LockedPart(lockedSwaps[<<s, initiator>>], s, t) = 0
    BY <1>1, <1>2 DEF LockedPart, DueFor
  <2>5. x \in Nat /\ y \in Nat
    BY <1>1, SwapFields, FeesAreNat
  <2> HIDE DEF x, y
  <2>6. QED
    BY <1>1, <2>1, <2>2, <2>3, <2>4, <2>5, SheetIs DEF Covering
<1>5. CoveredLocks(lockedSwaps')
  BY <1>1, LocksChange
<1>6. QED
  BY <1>4, <1>5 DEF StaysCovered

LEMMA UnlockCovers ==
  ASSUME SolvencyInv, NEW s \in Swaps, NEW initiator \in Initiators,
         Unlock(s, initiator), UNCHANGED postedSwaps
  PROVE  CoveredLocks(lockedSwaps') /\ StaysCovered
<1> DEFINE p == lockedSwaps[<<s, initiator>>].poolIndex
           b == Credited(balanceOfPoolToken, s.outToken, p, AmountToLock(s))
<1>1. /\ Locked(lockedSwaps[<<s, initiator>>])
      /\ lockedSwaps' = [lockedSwaps EXCEPT ![<<s, initiator>>] = NotLocked]
      /\ AmountToLock(s) >= 0
      /\ balanceOfPoolToken' = Credited(b, CoreIndex, p, s.coreAmount)
      /\ UNCHANGED ledger
  BY DEF Unlock
<1>2. ~Locked(NotLocked)
  BY DEF Locked
<1>3. /\ balanceOfPoolToken \in [PoolTokenIndex -> Nat] /\ p \in PoolIndices /\ Books
  BY LockedFields DEF SolvencyInv, Books, TypeOK, StatesTypeOK, SwapId
<1>4. /\ AmountToLock(s) \in Nat /\ s.coreAmount \in Nat /\ s.outToken \in TokenIndex
      /\ CoreIndex \in TokenIndex
  BY <1>1, <1>3, SwapFields, FeesAreNat, CoreIndexType DEF Books
<1> HIDE DEF p
<1>5. ASSUME NEW t \in Tokens
      PROVE  Covering(ledger', balanceOfPoolToken', postedSwaps', lockedSwaps', t)
  <2> DEFINE x == IF Stands(t, s.outToken) THEN AmountToLock(s) ELSE 0
             y == IF t = CoreToken THEN s.coreAmount ELSE 0
  <2>1. PoolOwed(b, t) = PoolOwed(balanceOfPoolToken, t) + x
    BY <1>3, <1>4, PoolOwedCredited
  <2>2. b \in [PoolTokenIndex -> Nat]
    BY <1>3, <1>4, CreditedType
  <2> HIDE DEF b
  <2>3. PoolOwed(balanceOfPoolToken', t) = PoolOwed(b, t) + y
    <3>1. Stands(t, CoreIndex) <=> t = CoreToken
      BY <1>3, StandsForCore
    <3> DEFINE i == CoreIndex
    <3>2. i \in TokenIndex
      BY <1>4
    <3> HIDE DEF i
    <3>3. PoolOwed(Credited(b, i, p, s.coreAmount), t)
            = PoolOwed(b, t) + (IF Stands(t, i) THEN s.coreAmount ELSE 0)
      BY <1>3, <1>4, <2>2, <3>2, PoolOwedCredited
    <3>4. QED
      BY <1>1, <3>1, <3>3 DEF i
  <2>4. LockedOwed(lockedSwaps', t)
          = (LockedOwed(lockedSwaps, t) + LockedPart(NotLocked, s, t))
            - LockedPart(lockedSwaps[<<s, initiator>>], s, t)
    BY <1>1, LocksChange
  <2>5. LockedPart(NotLocked, s, t) = 0
        /\ LockedPart(lockedSwaps[<<s, initiator>>], s, t) = x + y
    BY <1>1, <1>2 DEF LockedPart, DueFor
  <2>6. x \in Nat /\ y \in Nat
    BY <1>4
  <2> HIDE DEF x, y
  <2>7. QED
    BY <1>1, <2>1, <2>3, <2>4, <2>5, <2>6, SheetIs DEF Covering
<1>6. CoveredLocks(lockedSwaps')
  BY <1>1, LocksChange
<1>7. QED
  BY <1>5, <1>6 DEF StaysCovered

\* Paying the recipient and taking the fees comes to what a pool pays for s.
LEMMA FeesAndPayout ==
  ASSUME NEW s \in Swaps, NEW t
  PROVE  (IF Stands(t, s.outToken) THEN ReleaseAmount(s) ELSE 0)
         + (IF Stands(t, s.outToken) THEN ServiceFeeCharged(s) + s.share ELSE 0)
           = (IF Stands(t, s.outToken) THEN AmountToLock(s) ELSE 0)
BY SwapFields, FeesAreNat DEF ReleaseAmount

LEMMA ReleaseCovers ==
  ASSUME SolvencyInv, NEW caller, NEW manager, NEW s \in Swaps,
         NEW initiator \in Initiators, NEW recipient \in Address,
         NothingIsSentAway => recipient # Meson,
         Release(caller, manager, s, initiator, recipient), UNCHANGED postedSwaps
  PROVE  CoveredLocks(lockedSwaps') /\ StaysCovered
<1>1. /\ Locked(lockedSwaps[<<s, initiator>>])
      /\ lockedSwaps' = [lockedSwaps EXCEPT ![<<s, initiator>>] = Released]
      /\ AmountToLock(s) >= 0
      /\ CanTakeFees(s)
      /\ balanceOfPoolToken' = FeesTaken(balanceOfPoolToken, s)
      /\ PayRecipient(s, recipient)
  BY DEF Release
<1>2. ~Locked(Released)
  BY DEF Locked
<1>3. balanceOfPoolToken \in [PoolTokenIndex -> Nat] /\ Books
  BY DEF SolvencyInv, Books, TypeOK, StatesTypeOK
<1>4. /\ AmountToLock(s) \in Nat /\ s.coreAmount \in Nat /\ ReleaseAmount(s) \in Nat
      /\ ServiceFeeCharged(s) + s.share \in Nat
  BY <1>1, SwapFields, FeesAreNat DEF CanTakeFees
<1>5. ledger' \in [Holding -> Nat]
  BY <1>1, <1>3, PayRecipientType DEF Books, TypeOK
<1>6. ASSUME NEW t \in Tokens
      PROVE  Covering(ledger', balanceOfPoolToken', postedSwaps', lockedSwaps', t)
  <2> DEFINE x == IF Stands(t, s.outToken) THEN AmountToLock(s) ELSE 0
             y == IF t = CoreToken THEN s.coreAmount ELSE 0
             f == IF Stands(t, s.outToken) THEN ServiceFeeCharged(s) + s.share ELSE 0
             n == IF Stands(t, s.outToken) THEN ReleaseAmount(s) ELSE 0
  <2>1. PoolOwed(balanceOfPoolToken', t) = PoolOwed(balanceOfPoolToken, t) + f
    BY <1>1, <1>3, PoolOwedAfterFees
  <2>2. /\ ledger'[<<t, Meson>>] >= ledger[<<t, Meson>>] - y - n
        /\ recipient # Meson => ledger'[<<t, Meson>>] = ledger[<<t, Meson>>] - y - n
    BY <1>1, <1>3, HeldAfterPayout
  <2>3. LockedOwed(lockedSwaps', t)
          = (LockedOwed(lockedSwaps, t) + LockedPart(Released, s, t))
            - LockedPart(lockedSwaps[<<s, initiator>>], s, t)
    BY <1>1, LocksChange
  <2>4. LockedPart(Released, s, t) = 0
        /\ LockedPart(lockedSwaps[<<s, initiator>>], s, t) = x + y
    BY <1>1, <1>2 DEF LockedPart, DueFor
  <2>5. n + f = x
    BY FeesAndPayout
  <2>6. x \in Nat /\ y \in Nat /\ f \in Nat /\ n \in Nat
    BY <1>4
  <2>7. ledger'[<<t, Meson>>] \in Nat
    BY <1>5 DEF Holding, Address
  <2> HIDE DEF x, y, f, n
  <2>8. QED
    BY <2>1, <2>2, <2>3, <2>4, <2>5, <2>6, <2>7, SheetIs DEF Covering
<1>7. CoveredLocks(lockedSwaps')
  BY <1>1, LocksChange
<1>8. QED
  BY <1>6, <1>7 DEF StaysCovered

LEMMA DirectReleaseCovers ==
  ASSUME SolvencyInv, NEW caller \in Accounts, NEW manager, NEW s \in Swaps,
         NEW initiator \in Initiators, NEW recipient \in Address,
         NothingIsSentAway => recipient # Meson, NEW withSig,
         DirectRelease(caller, manager, s, initiator, recipient, withSig),
         UNCHANGED postedSwaps
  PROVE  CoveredLocks(lockedSwaps') /\ StaysCovered
<1> DEFINE p == poolOfAuthorizedAddr[caller]
           b == Debited(balanceOfPoolToken, s.outToken, p, AmountToLock(s))
           c == FeesTaken(b, s)
<1>1. /\ lockedSwaps[<<s, initiator>>] = NotLocked
      /\ lockedSwaps' = [lockedSwaps EXCEPT ![<<s, initiator>>] = Released]
      /\ AmountToLock(s) >= 0
      /\ Covers(balanceOfPoolToken, s.outToken, p, AmountToLock(s))
      /\ CanTakeFees(s)
      /\ Covers(c, CoreIndex, p, s.coreAmount)
      /\ balanceOfPoolToken' = Debited(c, CoreIndex, p, s.coreAmount)
      /\ PayRecipient(s, recipient)
  BY DEF DirectRelease, NeverReleased
<1>2. ~Locked(Released) /\ ~Locked(NotLocked)
  BY DEF Locked
<1>3. balanceOfPoolToken \in [PoolTokenIndex -> Nat] /\ p \in PoolIndices /\ Books
  BY PoolOfType DEF SolvencyInv, Books, TypeOK, StatesTypeOK
<1>4. /\ AmountToLock(s) \in Nat /\ s.coreAmount \in Nat /\ ReleaseAmount(s) \in Nat
      /\ ServiceFeeCharged(s) + s.share \in Nat
  BY <1>1, SwapFields, FeesAreNat DEF CanTakeFees
<1>5. ledger' \in [Holding -> Nat]
  BY <1>1, <1>3, PayRecipientType DEF Books, TypeOK
<1> HIDE DEF p
<1>6. ASSUME NEW t \in Tokens
      PROVE  Covering(ledger', balanceOfPoolToken', postedSwaps', lockedSwaps', t)
  <2> DEFINE x == IF Stands(t, s.outToken) THEN AmountToLock(s) ELSE 0
             y == IF t = CoreToken THEN s.coreAmount ELSE 0
             f == IF Stands(t, s.outToken) THEN ServiceFeeCharged(s) + s.share ELSE 0
             n == IF Stands(t, s.outToken) THEN ReleaseAmount(s) ELSE 0
  <2>1. /\ b \in [PoolTokenIndex -> Nat]
        /\ PoolOwed(b, t) = PoolOwed(balanceOfPoolToken, t) - x
    BY <1>1, <1>3, PoolOwedPaid
  <2> HIDE DEF b
  <2>2. c \in [PoolTokenIndex -> Nat] /\ PoolOwed(c, t) = PoolOwed(b, t) + f
    BY <2>1, FeesTakenType, PoolOwedAfterFees
  <2> HIDE DEF c
  <2>3. PoolOwed(balanceOfPoolToken', t) = PoolOwed(c, t) - y
    BY <1>1, <1>3, <2>2, CoreOwedPaid
  <2>4. /\ ledger'[<<t, Meson>>] >= ledger[<<t, Meson>>] - y - n
        /\ recipient # Meson => ledger'[<<t, Meson>>] = ledger[<<t, Meson>>] - y - n
    BY <1>1, <1>3, HeldAfterPayout
  <2>5. LockedOwed(lockedSwaps', t)
          = (LockedOwed(lockedSwaps, t) + LockedPart(Released, s, t))
            - LockedPart(lockedSwaps[<<s, initiator>>], s, t)
    BY <1>1, LocksChange
  <2>6. LockedPart(Released, s, t) = 0
        /\ LockedPart(lockedSwaps[<<s, initiator>>], s, t) = 0
    BY <1>1, <1>2 DEF LockedPart
  <2>7. n + f = x
    BY FeesAndPayout
  <2>8. x \in Nat /\ y \in Nat /\ f \in Nat /\ n \in Nat
    BY <1>4
  <2>9. ledger'[<<t, Meson>>] \in Nat
    BY <1>5 DEF Holding, Address
  <2> HIDE DEF x, y, f, n
  <2>10. /\ PoolOwed(balanceOfPoolToken, t) \in Nat
         /\ LockedOwed(lockedSwaps, t) \in Nat
    BY SheetIs
  <2>11. PoolOwed(balanceOfPoolToken', t) = PoolOwed(balanceOfPoolToken, t) - n - y
    BY <2>1, <2>2, <2>3, <2>7, <2>8, <2>10
  <2>12. LockedOwed(lockedSwaps', t) = LockedOwed(lockedSwaps, t)
    BY <2>5, <2>6, <2>10
  <2>13. QED
    BY <2>4, <2>8, <2>9, <2>11, <2>12, SheetIs DEF Covering
<1>7. CoveredLocks(lockedSwaps')
  BY <1>1, LocksChange
<1>8. QED
  BY <1>6, <1>7 DEF StaysCovered

LEMMA PoolsCovers ==
  ASSUME SolvencyInv, PoolsNext(premiumManager), UNCHANGED postedSwaps
  PROVE  CoveredLocks(lockedSwaps') /\ StaysCovered
<1>1. CoveredLocks(lockedSwaps)
  BY DEF SolvencyInv, Books
<1>2. CASE FundsStep
  <2>1. PICK caller \in Accounts, n \in Amounts, i \in TokenIndex, p \in PoolIndices :
          \/ DepositAndRegister(caller, n, i, p)
          \/ Deposit(caller, n, i, p)
          \/ Withdraw(caller, n, i, p)
    BY <1>2 DEF FundsStep
  <2>2. n \in Nat
    BY LockTimeAssumption
  <2>3. UNCHANGED lockedSwaps
    BY <2>1 DEF DepositAndRegister, Deposit, Withdraw
  <2>4. CASE DepositAndRegister(caller, n, i, p) \/ Deposit(caller, n, i, p)
    <3>1. /\ DepositToken(caller, caller, i, n)
          /\ balanceOfPoolToken' = Credited(balanceOfPoolToken, i, p, n)
      BY <2>4 DEF DepositAndRegister, Deposit
    <3>2. StaysCovered
      BY <2>2, <2>3, <3>1, DepositCovers
    <3>3. QED
      BY <1>1, <2>3, <3>2
  <2>5. CASE Withdraw(caller, n, i, p)
    BY <1>1, <2>2, <2>3, <2>5, WithdrawCovers
  <2>6. QED
    BY <2>1, <2>4, <2>5
<1>3. CASE MembersStep
  <2>1. UNCHANGED <<ledger, balanceOfPoolToken, postedSwaps, lockedSwaps>>
    BY <1>3
    DEF MembersStep, AddAuthorizedAddr, RemoveAuthorizedAddr, TransferPoolOwner
  <2>2. QED
    BY <1>1, <2>1, UnchangedCovers
<1>4. CASE LockStep
  BY <1>4, LockCovers, UnlockCovers DEF LockStep
<1>5. CASE ReleaseStep
  BY <1>5, ReleaseCovers, DirectReleaseCovers, AddressAssumption
  DEF ReleaseStep, Address, NothingIsSentAway
<1>6. QED
  BY <1>2, <1>3, <1>4, <1>5, PoolsCases

-----------------------------------------------------------------------------
\* Calls of the owner and of the premium manager

LEMMA WithdrawServiceFeeCovers ==
  ASSUME SolvencyInv, NEW i \in TokenIndex, NEW n \in Nat, NEW p \in PoolIndices,
         WithdrawServiceFee(i, n, p)
  PROVE  StaysCovered
<1> SUFFICES ASSUME NEW t \in Tokens
             PROVE  Covering(ledger', balanceOfPoolToken', postedSwaps', lockedSwaps', t)
  BY DEF StaysCovered
<1> DEFINE m == IF Stands(t, i) THEN n ELSE 0
           b == Debited(balanceOfPoolToken, i, 0, n)
<1>1. balanceOfPoolToken \in [PoolTokenIndex -> Nat] /\ 0 \in PoolIndices
  BY IndexAssumption DEF SolvencyInv, Books, TypeOK, StatesTypeOK
<1>2. /\ Covers(balanceOfPoolToken, i, 0, n)
      /\ balanceOfPoolToken' = Credited(b, i, p, n)
      /\ UNCHANGED <<ledger, postedSwaps, lockedSwaps>>
  BY DEF WithdrawServiceFee
<1>3. /\ b \in [PoolTokenIndex -> Nat]
      /\ PoolOwed(b, t) = PoolOwed(balanceOfPoolToken, t) - m
  BY <1>1, <1>2, PoolOwedDebited, DebitedType
<1> HIDE DEF b
<1>4. PoolOwed(balanceOfPoolToken', t) = PoolOwed(b, t) + m
  BY <1>2, <1>3, PoolOwedCredited
<1>5. m \in Nat
  OBVIOUS
<1> HIDE DEF m
<1>6. QED
  BY <1>2, <1>3, <1>4, <1>5, SheetIs DEF Covering

LEMMA DirectSwapCovers ==
  ASSUME SolvencyInv, NEW caller \in Accounts, NEW s \in Swaps,
         NEW recipient \in Address, NothingIsSentAway => recipient # Meson,
         DirectSwap(caller, s, recipient)
  PROVE  StaysCovered
<1> SUFFICES ASSUME NEW t \in Tokens
             PROVE  Covering(ledger', balanceOfPoolToken', postedSwaps', lockedSwaps', t)
  BY DEF StaysCovered
<1> DEFINE n == s.amount - s.fee
           b == Credited(balanceOfPoolToken, s.inToken, 1, s.amount)
           l == Moved(ledger, TokenAt(s.inToken), caller, Meson, s.amount)
           x == IF Stands(t, s.inToken) THEN s.amount ELSE 0
           y == IF Stands(t, s.outToken) THEN n ELSE 0
<1>1. /\ n \in Nat /\ s.amount \in Nat /\ 1 \in PoolIndices
      /\ s.inToken \in TokenIndex /\ s.outToken \in TokenIndex
  BY SwapFields, IndexAssumption DEF DirectSwap
<1>2. /\ Covers(b, s.outToken, 1, n)
      /\ balanceOfPoolToken' = Debited(b, s.outToken, 1, n)
      /\ Transferable(s.inToken)
      /\ ledger[<<TokenAt(s.inToken), caller>>] >= s.amount
      /\ CanRelease(l, s, recipient, n)
      /\ ledger' = ReleasedTo(l, s, recipient, n)
      /\ UNCHANGED <<postedSwaps, lockedSwaps>>
  BY DEF DirectSwap
<1>3. /\ ledger \in [Holding -> Nat] /\ balanceOfPoolToken \in [PoolTokenIndex -> Nat]
      /\ caller \in Address /\ Meson \in Address /\ Books
  BY DEF SolvencyInv, Books, TypeOK, StatesTypeOK, Address
<1>4. b \in [PoolTokenIndex -> Nat] /\ PoolOwed(b, t) = PoolOwed(balanceOfPoolToken, t) + x
  BY <1>1, <1>3, CreditedType, PoolOwedCredited
<1>5. TokenAt(s.inToken) \in Tokens /\ (Stands(t, s.inToken) <=> t = TokenAt(s.inToken))
  BY <1>1, <1>2, <1>3, TokenAtType, StandsForTransferable
<1>6. l \in [Holding -> Nat]
  BY <1>1, <1>2, <1>3, <1>5, MovedType
<1>7. l[<<t, Meson>>] = ledger[<<t, Meson>>] + x
  <2>1. l[<<t, Meson>>]
          = ledger[<<t, Meson>>] + (IF t = TokenAt(s.inToken) THEN s.amount ELSE 0)
    BY <1>1, <1>3, <1>5, HeldAfterReceipt
  <2>2. QED
    BY <1>5, <2>1
<1>8. x \in Nat /\ y \in Nat
  BY <1>1
<1> HIDE DEF b, l, n
<1>9. PoolOwed(balanceOfPoolToken', t) = PoolOwed(b, t) - y
  BY <1>1, <1>2, <1>4, PoolOwedDebited
<1>10. /\ ledger'[<<t, Meson>>] \in Int /\ ledger'[<<t, Meson>>] >= l[<<t, Meson>>] - y
       /\ recipient # Meson => ledger'[<<t, Meson>>] = l[<<t, Meson>>] - y
  BY <1>1, <1>2, <1>3, <1>6, HeldAfterRelease
<1> HIDE DEF x, y
<1>11. QED
  BY <1>2, <1>4, <1>7, <1>8, <1>9, <1>10, SheetIs DEF Covering

LEMMA ManagerCovers ==
  ASSUME SolvencyInv, ManagerNext
  PROVE  lockedSwaps' = lockedSwaps /\ StaysCovered
<1>1. CASE \/ \E l \in Listings : ListToken(l[1], l[2])
           \/ \E i \in Delistings : DelistToken(i)
           \/ \E a \in Managers : TransferOwnership(a) \/ TransferPremiumManager(a)
  <2>1. UNCHANGED <<ledger, balanceOfPoolToken, postedSwaps, lockedSwaps>>
    BY <1>1
    DEF ListToken, DelistToken, TransferOwnership, TransferPremiumManager, statesVars
  <2>2. QED
    BY <2>1, UnchangedCovers
<1>2. ASSUME NEW i \in TokenIndex, NEW n \in Amounts, NEW p \in PoolIndices,
             WithdrawServiceFee(i, n, p)
      PROVE  lockedSwaps' = lockedSwaps /\ StaysCovered
  <2>1. n \in Nat
    BY LockTimeAssumption
  <2>2. lockedSwaps' = lockedSwaps
    BY <1>2 DEF WithdrawServiceFee
  <2>3. QED
    BY <1>2, <2>1, <2>2, WithdrawServiceFeeCovers
<1>3. ASSUME NEW caller \in Accounts, NEW s \in Swaps, NEW recipient \in Recipients,
             DirectSwap(caller, s, recipient)
      PROVE  lockedSwaps' = lockedSwaps /\ StaysCovered
  <2>1. recipient \in Address /\ (NothingIsSentAway => recipient # Meson)
    BY AddressAssumption DEF Address, NothingIsSentAway
  <2>2. lockedSwaps' = lockedSwaps
    BY <1>3 DEF DirectSwap
  <2>3. QED
    BY <1>3, <2>1, <2>2, DirectSwapCovers
<1>4. QED
  BY <1>1, <1>2, <1>3 DEF ManagerNext

-----------------------------------------------------------------------------
\* The contract

LEMMA ListedInit == Init => ListedTokens
BY DEF Init, ListedTokens

LEMMA ListedNext == TypeOK /\ ListedTokens /\ [Next]_vars => ListedTokens'
<1> SUFFICES ASSUME TypeOK, ListedTokens, [Next]_vars PROVE ListedTokens'
  OBVIOUS
<1>1. /\ tokenForIndex \in [TokenIndex -> Tokens \union {ZeroAddress}]
      /\ ZeroAddress \notin Tokens
  BY AddressAssumption DEF TypeOK, StatesTypeOK
<1>2. CASE UNCHANGED tokenVars
  BY <1>2 DEF tokenVars, ListedTokens
<1>3. CASE \E l \in Listings : ListToken(l[1], l[2])
  <2>1. PICK l \in Listings : ListToken(l[1], l[2])
    BY <1>3
  <2>2. PICK token \in Tokens, i \in TokenIndices :
          l = <<token, i>> /\ ListToken(token, i)
    BY <2>1, DeploymentAssumption
  <2>3. tokenForIndex' = [tokenForIndex EXCEPT ![i] = token] /\ <<token, i>> \in Listings
    BY <2>2 DEF ListToken, AddSupportToken
  <2>4. QED
    BY <1>1, <2>3 DEF ListedTokens
<1>4. CASE \E i \in Delistings : DelistToken(i)
  BY <1>1, <1>4 DEF DelistToken, RemoveSupportToken, ListedTokens
<1>5. QED
  BY <1>2, <1>3, <1>4, OnlyTokenSteps

LEMMA SolvencyInit == Init => SolvencyInv
<1> SUFFICES ASSUME Init PROVE SolvencyInv
  OBVIOUS
<1>1. /\ \A s \in Swaps : postedSwaps[s] = NotPosted
      /\ \A id \in SwapId : lockedSwaps[id] = NotLocked
      /\ \A pti \in PoolTokenIndex : balanceOfPoolToken[pti] = 0
  BY DEF Init, SwapInit, PoolsInit
<1>2. \A id \in SwapId : ~Locked(lockedSwaps[id])
  BY <1>1 DEF Locked
<1>3. Books
  BY <1>2, InitType, TokenMapsInit, ListedInit DEF Books, CoveredLocks
<1>4. ASSUME NEW t \in Tokens
      PROVE  Covering(ledger, balanceOfPoolToken, postedSwaps, lockedSwaps, t)
  <2>1. PoolOwed(balanceOfPoolToken, t) = 0
    <3>1. \A pti \in PoolTokenIndex : PoolsOwe(balanceOfPoolToken, t)[pti] = 0
      BY <1>1 DEF PoolsOwe
    <3>2. QED
      BY <3>1, FiniteSets, SumOfZeros DEF PoolOwed
  <2>2. PostedOwed(postedSwaps, t) = 0
    <3>1. \A s \in Swaps : PostedOwes(postedSwaps, t)[s] = 0
      BY <1>1, NotPending DEF PostedOwes
    <3>2. QED
      BY <3>1, FiniteSets, SumOfZeros DEF PostedOwed
  <2>3. LockedOwed(lockedSwaps, t) = 0
    <3>1. \A id \in SwapId : LocksOwe(lockedSwaps, t)[id] = 0
      BY <1>2 DEF LocksOwe
    <3>2. QED
      BY <3>1, FiniteSets, SumOfZeros DEF LockedOwed
  <2>4. /\ ledger[<<t, Meson>>] \in Nat
        /\ NothingIsSentAway => ledger[<<t, Meson>>] = 0
    BY <1>3
    DEF Books, TypeOK, StatesTypeOK, Holding, Address, Init, NothingIsSentAway
  <2>5. QED
    BY <2>1, <2>2, <2>3, <2>4 DEF Covering
<1>5. MesonIsNoParty
  BY <1>1, AddressAssumption DEF Init, MesonIsNoParty, NotPosted
<1>6. QED
  BY <1>3, <1>4, <1>5 DEF SolvencyInv, CoveredAll

LEMMA PostedByOthers ==
  ASSUME SolvencyInv, NothingIsSentAway, SwapNext, NEW q \in Swaps
  PROVE  postedSwaps'[q].initiator # Meson
<1>1. PICK s \in Swaps, caller \in Accounts :
        \/ \E v \in PostingValue : \/ PostSwap(caller, s, v)
                                   \/ PostSwapFromInitiator(s, v)
                                   \/ PostSwapFromContract(caller, s, v)
        \/ \E p \in PoolIndices : BondSwap(caller, s, p)
        \/ CancelSwap(s)
        \/ \E recipient \in Recipients : CancelSwapTo(s, recipient)
        \/ \E recipient \in Recipients, depositToPool \in BOOLEAN :
             ExecuteSwap(s, recipient, depositToPool)
        \/ \E initiator \in Initiators, recipient \in Recipients :
             DirectExecuteSwap(caller, s, initiator, recipient)
        \/ SimpleExecuteSwap(caller, s)
  BY DEF SwapNext
<1>2. /\ postedSwaps \in [Swaps -> PostedSwap]
      /\ \A x \in Swaps : postedSwaps[x].initiator # Meson
  BY DEF SolvencyInv, Books, TypeOK, SwapTypeOK, MesonIsNoParty
<1>3. ASSUME NEW v, v.initiator # Meson, postedSwaps' = [postedSwaps EXCEPT ![s] = v]
      PROVE  postedSwaps'[q].initiator # Meson
  BY <1>2, <1>3
<1>4. NotPosted.initiator # Meson /\ Executed.initiator # Meson
  BY AddressAssumption DEF NotPosted, Executed
<1>5. ASSUME NEW v \in PostingValue, \/ PostSwap(caller, s, v)
                                     \/ PostSwapFromInitiator(s, v)
                                     \/ PostSwapFromContract(caller, s, v)
      PROVE  postedSwaps'[q].initiator # Meson
  BY <1>3, <1>5
  DEF PostSwap, PostSwapFromInitiator, PostSwapFromContract, PostingValue,
      NothingIsSentAway
<1>6. ASSUME NEW p, BondSwap(caller, s, p)
      PROVE  postedSwaps'[q].initiator # Meson
  <2> DEFINE v == [postedSwaps[s] EXCEPT !.poolIndex = p]
  <2>1. v.initiator = postedSwaps[s].initiator
    BY <1>2 DEF PostedSwap
  <2>2. postedSwaps' = [postedSwaps EXCEPT ![s] = v]
    BY <1>6 DEF BondSwap
  <2> HIDE DEF v
  <2>3. QED
    BY <1>2, <1>3, <2>1, <2>2
<1>7. ASSUME NEW a, CancelTo(s, a)
      PROVE  postedSwaps'[q].initiator # Meson
  BY <1>3, <1>4, <1>7 DEF CancelTo
<1>8. ASSUME NEW recipient, NEW depositToPool, ExecuteSwap(s, recipient, depositToPool)
      PROVE  postedSwaps'[q].initiator # Meson
  BY <1>3, <1>4, <1>8 DEF ExecuteSwap, ValueAfterExecution
<1>9. CASE \/ \E initiator \in Initiators, recipient \in Recipients :
                DirectExecuteSwap(caller, s, initiator, recipient)
           \/ SimpleExecuteSwap(caller, s)
  BY <1>2, <1>3, <1>4, <1>9 DEF DirectExecuteSwap, SimpleExecuteSwap
<1>10. QED
  BY <1>1, <1>5, <1>6, <1>7, <1>8, <1>9 DEF CancelSwap, CancelSwapTo

LEMMA PoolsOfOthers ==
  ASSUME SolvencyInv, NothingIsSentAway, [Next]_vars, NEW p \in PoolIndices
  PROVE  ownerOfPool'[p] # Meson
<1>1. /\ ownerOfPool \in [PoolIndices -> Address] /\ ownerOfPool[p] # Meson
      /\ Meson \notin Accounts /\ Meson \notin Members
  BY AddressAssumption
  DEF SolvencyInv, Books, TypeOK, StatesTypeOK, MesonIsNoParty, NothingIsSentAway
<1>2. CASE UNCHANGED registryVars
  BY <1>1, <1>2 DEF registryVars
<1>3. ASSUME NEW caller \in Accounts, NEW amount, NEW i, NEW r \in PoolIndices,
             DepositAndRegister(caller, amount, i, r)
      PROVE  ownerOfPool'[p] # Meson
  BY <1>1, <1>3 DEF DepositAndRegister
<1>4. CASE MembersStep
  BY <1>1, <1>4
  DEF MembersStep, AddAuthorizedAddr, RemoveAuthorizedAddr, TransferPoolOwner
<1>5. QED
  BY <1>2, <1>3, <1>4, OnlyRegistrySteps DEF RegistryStep

LEMMA NoPartyNext == SolvencyInv /\ [Next]_vars => MesonIsNoParty'
<1> SUFFICES ASSUME SolvencyInv, [Next]_vars, NothingIsSentAway
             PROVE  /\ \A s \in Swaps : postedSwaps'[s].initiator # Meson
                    /\ \A p \in PoolIndices : ownerOfPool'[p] # Meson
  BY DEF MesonIsNoParty
<1>1. CASE SwapNext
  BY <1>1, PostedByOthers, PoolsOfOthers
<1>2. CASE UNCHANGED postedSwaps
  BY <1>2, PoolsOfOthers DEF SolvencyInv, MesonIsNoParty
<1>3. CASE ManagerNext
  BY <1>2, <1>3
  DEF ManagerNext, ListToken, DelistToken, TransferOwnership,
      TransferPremiumManager, WithdrawServiceFee, DirectSwap
<1>4. QED
  BY <1>1, <1>2, <1>3 DEF Next, Tick, Sign, vars

LEMMA SolvencyNext == SolvencyInv /\ [Next]_vars => SolvencyInv'
<1> SUFFICES ASSUME SolvencyInv, [Next]_vars PROVE SolvencyInv'
  OBVIOUS
<1>1. TypeOK' /\ TokenMapsAreInverse' /\ ListedTokens'
  BY NextType, TokenMapsNext, ListedNext DEF SolvencyInv, Books
<1>2. CoveredLocks(lockedSwaps)
  BY DEF SolvencyInv, Books
<1>3. CoveredLocks(lockedSwaps') /\ StaysCovered
  <2>1. CASE SwapNext /\ UNCHANGED <<lockedSwaps, managerVars>>
    BY <1>2, <2>1, SwapCovers
  <2>2. CASE PoolsNext(premiumManager) /\ UNCHANGED <<postedSwaps, managerVars>>
    BY <2>2, PoolsCovers
  <2>3. CASE ManagerNext
    BY <1>2, <2>3, ManagerCovers
  <2>4. CASE Tick \/ (\E g \in Signable : Sign(g)) \/ UNCHANGED vars
    <3>1. UNCHANGED <<ledger, balanceOfPoolToken, postedSwaps, lockedSwaps>>
      BY <2>4 DEF Tick, Sign, vars
    <3>2. QED
      BY <1>2, <3>1, UnchangedCovers
  <2>5. QED
    BY <2>1, <2>2, <2>3, <2>4 DEF Next
<1>4. MesonIsNoParty'
  BY NoPartyNext
<1>5. QED
  BY <1>1, <1>3, <1>4 DEF SolvencyInv, Books, CoveredAll, StaysCovered

\* Whatever calls are made in whatever order, the contract holds of every token
\* at least what it owes to pools, to the initiators of posted swaps and for
\* locked swaps: no call pays out of what another one has put in.
THEOREM AlwaysSolvent == Spec => []Solvent
<1>1. QED
  BY SolvencyInit, SolvencyNext, CoveredIsSolvent, PTL DEF Spec

-----------------------------------------------------------------------------
\* Nothing is booked under index 0 as long as the core token keeps its index.

IndexedInv ==
  /\ NothingAtZero(balanceOfPoolToken)
  /\ PostedWithToken(postedSwaps)
  /\ LockedWithTokens(lockedSwaps, CoreIndex)

LEMMA ZeroHasNoToken == Books => ~Transferable(0)
<1>1. ~IsCoreToken(0) /\ 0 \in TokenIndex
  BY IndexZero DEF IsCoreToken
<1>2. Deployment[0] \notin Tokens /\ \A x : <<x, 0>> \notin Listings
  BY DeploymentAssumption, AddressAssumption, IndexAssumption
<1>3. QED
  BY <1>1, <1>2 DEF Books, ListedTokens, Transferable

LEMMA CreditKeepsZero ==
  ASSUME NEW b \in [PoolTokenIndex -> Nat], NothingAtZero(b), NEW i \in TokenIndex,
         NEW p \in PoolIndices, NEW n \in Nat, i = 0 => n = 0
  PROVE  /\ Credited(b, i, p, n) \in [PoolTokenIndex -> Nat]
         /\ NothingAtZero(Credited(b, i, p, n))
<1>1. Credited(b, i, p, n) \in [PoolTokenIndex -> Nat]
  BY CreditedType
<1>2. ASSUME NEW q \in PoolIndices
      PROVE  Credited(b, i, p, n)[<<0, q>>] = 0
  <2>1. <<0, q>> \in PoolTokenIndex /\ b[<<0, q>>] = 0
    BY IndexZero DEF PoolTokenIndex, NothingAtZero
  <2>2. Credited(b, i, p, n)[<<0, q>>] = b[<<0, q>>] + (IF i = 0 /\ p = q THEN n ELSE 0)
    BY <2>1 DEF Credited
  <2>3. QED
    BY <2>1, <2>2
<1>3. QED
  BY <1>1, <1>2 DEF NothingAtZero

LEMMA DebitKeepsZero ==
  ASSUME NEW b \in [PoolTokenIndex -> Nat], NothingAtZero(b), NEW i \in TokenIndex,
         NEW p \in PoolIndices, NEW n \in Nat, Covers(b, i, p, n)
  PROVE  /\ Debited(b, i, p, n) \in [PoolTokenIndex -> Nat]
         /\ NothingAtZero(Debited(b, i, p, n))
         /\ i = 0 => n = 0
<1>1. Debited(b, i, p, n) \in [PoolTokenIndex -> Nat]
  BY DebitedType
<1>2. i = 0 => n = 0
  BY DEF NothingAtZero, Covers
<1>3. ASSUME NEW q \in PoolIndices
      PROVE  Debited(b, i, p, n)[<<0, q>>] = 0
  <2>1. <<0, q>> \in PoolTokenIndex /\ b[<<0, q>>] = 0
    BY IndexZero DEF PoolTokenIndex, NothingAtZero
  <2>2. Debited(b, i, p, n)[<<0, q>>] = b[<<0, q>>] - (IF i = 0 /\ p = q THEN n ELSE 0)
    BY <2>1 DEF Debited
  <2>3. QED
    BY <1>2, <2>1, <2>2
<1>4. QED
  BY <1>1, <1>2, <1>3 DEF NothingAtZero

LEMMA FeesKeepZero ==
  ASSUME NEW b \in [PoolTokenIndex -> Nat], NothingAtZero(b), NEW s \in Swaps,
         CanTakeFees(s), s.outToken = 0 => AmountToLock(s) = 0
  PROVE  /\ FeesTaken(b, s) \in [PoolTokenIndex -> Nat]
         /\ NothingAtZero(FeesTaken(b, s))
<1> DEFINE c == Credited(b, s.outToken, 0, ServiceFeeCharged(s))
<1>1. /\ s.outToken \in TokenIndex /\ s.poolToShare \in PoolIndices /\ s.share \in Nat
      /\ ServiceFeeCharged(s) \in Nat /\ 0 \in PoolIndices /\ AmountToLock(s) \in Int
  BY SwapFields, FeesAreNat, IndexAssumption
<1>2. s.outToken = 0 => ServiceFeeCharged(s) = 0 /\ s.share = 0
  BY <1>1 DEF CanTakeFees, ReleaseAmount
<1>3. c \in [PoolTokenIndex -> Nat] /\ NothingAtZero(c)
  BY <1>1, <1>2, CreditKeepsZero
<1>4. FeesTaken(b, s) = Credited(c, s.outToken, s.poolToShare, s.share)
  BY DEF FeesTaken
<1> HIDE DEF c
<1>5. QED
  BY <1>1, <1>2, <1>3, <1>4, CreditKeepsZero

LEMMA DepositKeepsZero ==
  ASSUME Books, NothingAtZero(balanceOfPoolToken), NEW caller, NEW sender,
         NEW i \in TokenIndex, NEW p \in PoolIndices, NEW n \in Nat,
         DepositToken(caller, sender, i, n),
         balanceOfPoolToken' = Credited(balanceOfPoolToken, i, p, n)
  PROVE  NothingAtZero(balanceOfPoolToken')
<1>1. i # 0
  BY ZeroHasNoToken DEF DepositToken
<1>2. balanceOfPoolToken \in [PoolTokenIndex -> Nat]
  BY DEF Books, TypeOK, StatesTypeOK
<1>3. QED
  BY <1>1, <1>2, CreditKeepsZero

LEMMA IndexedSwapStep ==
  ASSUME Books, IndexedInv, SwapNext
  PROVE  NothingAtZero(balanceOfPoolToken') /\ PostedWithToken(postedSwaps')
<1>1. PICK s \in Swaps, caller \in Accounts :
        \/ \E v \in PostingValue : \/ PostSwap(caller, s, v)
                                   \/ PostSwapFromInitiator(s, v)
                                   \/ PostSwapFromContract(caller, s, v)
        \/ \E p \in PoolIndices : BondSwap(caller, s, p)
        \/ CancelSwap(s)
        \/ \E recipient \in Recipients : CancelSwapTo(s, recipient)
        \/ \E recipient \in Recipients, depositToPool \in BOOLEAN :
             ExecuteSwap(s, recipient, depositToPool)
        \/ \E initiator \in Initiators, recipient \in Recipients :
             DirectExecuteSwap(caller, s, initiator, recipient)
        \/ SimpleExecuteSwap(caller, s)
  BY DEF SwapNext
<1>2. /\ postedSwaps \in [Swaps -> PostedSwap]
      /\ balanceOfPoolToken \in [PoolTokenIndex -> Nat]
      /\ NothingAtZero(balanceOfPoolToken) /\ PostedWithToken(postedSwaps)
      /\ s.amount \in Nat /\ s.inToken \in TokenIndex /\ 1 \in PoolIndices
  BY SwapFields, IndexAssumption
  DEF Books, TypeOK, StatesTypeOK, SwapTypeOK, IndexedInv
<1>3. ASSUME NEW v, Pending(v) => s.inToken # 0,
             postedSwaps' = [postedSwaps EXCEPT ![s] = v]
      PROVE  PostedWithToken(postedSwaps')
  BY <1>2, <1>3 DEF PostedWithToken
<1>4. ASSUME NEW v, \/ PostSwap(caller, s, v)
                    \/ PostSwapFromInitiator(s, v)
                    \/ PostSwapFromContract(caller, s, v)
      PROVE  NothingAtZero(balanceOfPoolToken') /\ PostedWithToken(postedSwaps')
  <2>1. /\ Transferable(s.inToken) /\ UNCHANGED balanceOfPoolToken
        /\ postedSwaps' = [postedSwaps EXCEPT ![s] = v]
    BY <1>4 DEF PostSwap, PostSwapFromInitiator, PostSwapFromContract, DepositToken
  <2>2. s.inToken # 0
    BY <2>1, ZeroHasNoToken
  <2>3. QED
    BY <1>2, <1>3, <2>1, <2>2
<1>5. ASSUME NEW p, BondSwap(caller, s, p)
      PROVE  NothingAtZero(balanceOfPoolToken') /\ PostedWithToken(postedSwaps')
  <2> DEFINE v == [postedSwaps[s] EXCEPT !.poolIndex = p]
  <2>1. /\ Pending(postedSwaps[s]) /\ UNCHANGED balanceOfPoolToken
        /\ postedSwaps' = [postedSwaps EXCEPT ![s] = v]
    BY <1>5 DEF BondSwap, statesVars
  <2> HIDE DEF v
  <2>2. s.inToken # 0
    BY <1>2, <2>1 DEF PostedWithToken
  <2>3. QED
    BY <1>2, <1>3, <2>1, <2>2
<1>6. ASSUME NEW a, CancelTo(s, a)
      PROVE  NothingAtZero(balanceOfPoolToken') /\ PostedWithToken(postedSwaps')
  BY <1>2, <1>3, <1>6, NotPending DEF CancelTo
<1>7. ASSUME NEW recipient, NEW depositToPool, ExecuteSwap(s, recipient, depositToPool)
      PROVE  NothingAtZero(balanceOfPoolToken') /\ PostedWithToken(postedSwaps')
  <2>1. /\ Pending(postedSwaps[s])
        /\ postedSwaps' = [postedSwaps EXCEPT ![s] = ValueAfterExecution(s)]
        /\ \/ UNCHANGED balanceOfPoolToken
           \/ balanceOfPoolToken'
                = Credited(balanceOfPoolToken, s.inToken, postedSwaps[s].poolIndex, s.amount)
    BY <1>7 DEF ExecuteSwap
  <2>2. s.inToken # 0 /\ postedSwaps[s].poolIndex \in PoolIndices
    BY <1>2, <2>1 DEF PostedWithToken, PostedSwap
  <2>3. NothingAtZero(balanceOfPoolToken')
    BY <1>2, <2>1, <2>2, CreditKeepsZero
  <2>4. QED
    BY <1>3, <2>1, <2>2, <2>3
<1>8. ASSUME NEW initiator, NEW recipient, DirectExecuteSwap(caller, s, initiator, recipient)
      PROVE  NothingAtZero(balanceOfPoolToken') /\ PostedWithToken(postedSwaps')
  <2>1. /\ DepositToken(caller, initiator, s.inToken, s.amount)
        /\ balanceOfPoolToken' = Credited(balanceOfPoolToken, s.inToken, 1, s.amount)
        /\ postedSwaps' = [postedSwaps EXCEPT ![s] = Executed]
    BY <1>8 DEF DirectExecuteSwap
  <2>2. QED
    BY <1>2, <1>3, <2>1, NotPending, DepositKeepsZero
<1>9. CASE SimpleExecuteSwap(caller, s)
  <2>1. /\ DepositToken(caller, caller, s.inToken, s.amount)
        /\ balanceOfPoolToken' = Credited(balanceOfPoolToken, s.inToken, 1, s.amount)
        /\ UNCHANGED postedSwaps
    BY <1>9 DEF SimpleExecuteSwap
  <2>2. QED
    BY <1>2, <2>1, DepositKeepsZero
<1>10. QED
  BY <1>1, <1>4, <1>5, <1>6, <1>7, <1>8, <1>9 DEF CancelSwap, CancelSwapTo

\* One lock is set to v.
LEMMA LockKeepsTokens ==
  ASSUME Books, IndexedInv, NEW s \in Swaps, NEW initiator \in Initiators, NEW v,
         Locked(v) => /\ s.outToken = 0 => AmountToLock(s) = 0
                      /\ CoreIndex = 0 => s.coreAmount = 0,
         lockedSwaps' = [lockedSwaps EXCEPT ![<<s, initiator>>] = v]
  PROVE  LockedWithTokens(lockedSwaps', CoreIndex)
<1> DEFINE id == <<s, initiator>>
<1>1. id \in SwapId /\ id[1] = s /\ lockedSwaps \in [SwapId -> LockedSwap]
  BY DEF SwapId, Books, TypeOK, PoolsTypeOK
<1> HIDE DEF id
<1>2. lockedSwaps'[id] = v /\ \A y \in SwapId \ {id} : lockedSwaps'[y] = lockedSwaps[y]
  BY <1>1 DEF id
<1>3. QED
  BY <1>1, <1>2 DEF IndexedInv, LockedWithTokens

LEMMA IndexedLockStep ==
  ASSUME Books, IndexedInv, NEW caller \in Accounts, NEW s \in Swaps,
         NEW initiator \in Initiators, LockSwap(caller, s, initiator)
  PROVE  /\ NothingAtZero(balanceOfPoolToken')
         /\ LockedWithTokens(lockedSwaps', CoreIndex)
<1> DEFINE p == poolOfAuthorizedAddr[caller]
           b == Debited(balanceOfPoolToken, s.outToken, p, AmountToLock(s))
           v == [until |-> now + LOCK_TIME_PERIOD, poolIndex |-> p]
<1>1. /\ lockedSwaps' = [lockedSwaps EXCEPT ![<<s, initiator>>] = v]
      /\ AmountToLock(s) >= 0
      /\ Covers(balanceOfPoolToken, s.outToken, p, AmountToLock(s))
      /\ Covers(b, CoreIndex, p, s.coreAmount)
      /\ balanceOfPoolToken' = Debited(b, CoreIndex, p, s.coreAmount)
  BY DEF LockSwap
<1>2. /\ balanceOfPoolToken \in [PoolTokenIndex -> Nat] /\ p \in PoolIndices
      /\ NothingAtZero(balanceOfPoolToken)
      /\ AmountToLock(s) \in Nat /\ s.coreAmount \in Nat
      /\ s.outToken \in TokenIndex /\ CoreIndex \in TokenIndex
  BY <1>1, PoolOfType, SwapFields, FeesAreNat, CoreIndexType
  DEF Books, TypeOK, StatesTypeOK, IndexedInv
<1> HIDE DEF p, v
<1>3. /\ b \in [PoolTokenIndex -> Nat] /\ NothingAtZero(b)
      /\ s.outToken = 0 => AmountToLock(s) = 0
  BY <1>1, <1>2, DebitKeepsZero
<1> HIDE DEF b
<1>4. /\ NothingAtZero(Debited(b, CoreIndex, p, s.coreAmount))
      /\ CoreIndex = 0 => s.coreAmount = 0
  BY <1>1, <1>2, <1>3, DebitKeepsZero
<1>5. QED
  BY <1>1, <1>3, <1>4, LockKeepsTokens

LEMMA IndexedUnlockStep ==
  ASSUME Books, IndexedInv, NEW s \in Swaps, NEW initiator \in Initiators,
         Unlock(s, initiator)
  PROVE  /\ NothingAtZero(balanceOfPoolToken')
         /\ LockedWithTokens(lockedSwaps', CoreIndex)
<1> DEFINE p == lockedSwaps[<<s, initiator>>].poolIndex
           b == Credited(balanceOfPoolToken, s.outToken, p, AmountToLock(s))
<1>1. /\ Locked(lockedSwaps[<<s, initiator>>])
      /\ lockedSwaps' = [lockedSwaps EXCEPT ![<<s, initiator>>] = NotLocked]
      /\ AmountToLock(s) >= 0
      /\ balanceOfPoolToken' = Credited(b, CoreIndex, p, s.coreAmount)
  BY DEF Unlock
<1>2. <<s, initiator>> \in SwapId /\ <<s, initiator>>[1] = s
  BY DEF SwapId
<1>3. /\ s.outToken = 0 => AmountToLock(s) = 0
      /\ CoreIndex = 0 => s.coreAmount = 0
  BY <1>1, <1>2 DEF IndexedInv, LockedWithTokens
<1>4. /\ balanceOfPoolToken \in [PoolTokenIndex -> Nat] /\ p \in PoolIndices
      /\ NothingAtZero(balanceOfPoolToken)
      /\ AmountToLock(s) \in Nat /\ s.coreAmount \in Nat
      /\ s.outToken \in TokenIndex /\ CoreIndex \in TokenIndex
  BY <1>1, <1>2, LockedFields, SwapFields, FeesAreNat, CoreIndexType
  DEF Books, TypeOK, StatesTypeOK, IndexedInv
<1> HIDE DEF p
<1>5. b \in [PoolTokenIndex -> Nat] /\ NothingAtZero(b)
  BY <1>3, <1>4, CreditKeepsZero
<1> HIDE DEF b
<1>6. NothingAtZero(Credited(b, CoreIndex, p, s.coreAmount))
  BY <1>3, <1>4, <1>5, CreditKeepsZero
<1>7. ~Locked(NotLocked)
  BY DEF Locked
<1>8. QED
  BY <1>1, <1>6, <1>7, LockKeepsTokens

LEMMA IndexedReleaseStep ==
  ASSUME Books, IndexedInv, NEW s \in Swaps, NEW initiator \in Initiators,
         NEW caller, NEW manager, NEW recipient,
         Release(caller, manager, s, initiator, recipient)
  PROVE  /\ NothingAtZero(balanceOfPoolToken')
         /\ LockedWithTokens(lockedSwaps', CoreIndex)
<1>1. /\ Locked(lockedSwaps[<<s, initiator>>])
      /\ lockedSwaps' = [lockedSwaps EXCEPT ![<<s, initiator>>] = Released]
      /\ CanTakeFees(s)
      /\ balanceOfPoolToken' = FeesTaken(balanceOfPoolToken, s)
  BY DEF Release
<1>2. <<s, initiator>> \in SwapId /\ <<s, initiator>>[1] = s
  BY DEF SwapId
<1>3. s.outToken = 0 => AmountToLock(s) = 0
  BY <1>1, <1>2 DEF IndexedInv, LockedWithTokens
<1>4. /\ balanceOfPoolToken \in [PoolTokenIndex -> Nat]
      /\ NothingAtZero(balanceOfPoolToken)
  BY DEF Books, TypeOK, StatesTypeOK, IndexedInv
<1>5. NothingAtZero(balanceOfPoolToken')
  BY <1>1, <1>3, <1>4, FeesKeepZero
<1>6. ~Locked(Released)
  BY DEF Locked
<1>7. QED
  BY <1>1, <1>5, <1>6, LockKeepsTokens

LEMMA IndexedDirectReleaseStep ==
  ASSUME Books, IndexedInv, NEW caller \in Accounts, NEW manager, NEW s \in Swaps,
         NEW initiator \in Initiators, NEW recipient, NEW withSig,
         DirectRelease(caller, manager, s, initiator, recipient, withSig)
  PROVE  /\ NothingAtZero(balanceOfPoolToken')
         /\ LockedWithTokens(lockedSwaps', CoreIndex)
<1> DEFINE p == poolOfAuthorizedAddr[caller]
           b == Debited(balanceOfPoolToken, s.outToken, p, AmountToLock(s))
           c == FeesTaken(b, s)
<1>1. /\ lockedSwaps' = [lockedSwaps EXCEPT ![<<s, initiator>>] = Released]
      /\ AmountToLock(s) >= 0 /\ CanTakeFees(s)
      /\ Covers(balanceOfPoolToken, s.outToken, p, AmountToLock(s))
      /\ Covers(c, CoreIndex, p, s.coreAmount)
      /\ balanceOfPoolToken' = Debited(c, CoreIndex, p, s.coreAmount)
  BY DEF DirectRelease
<1>2. /\ balanceOfPoolToken \in [PoolTokenIndex -> Nat] /\ p \in PoolIndices
      /\ NothingAtZero(balanceOfPoolToken)
      /\ AmountToLock(s) \in Nat /\ s.coreAmount \in Nat
      /\ s.outToken \in TokenIndex /\ CoreIndex \in TokenIndex
  BY <1>1, PoolOfType, SwapFields, FeesAreNat, CoreIndexType
  DEF Books, TypeOK, StatesTypeOK, IndexedInv
<1> HIDE DEF p
<1>3. /\ b \in [PoolTokenIndex -> Nat] /\ NothingAtZero(b)
      /\ s.outToken = 0 => AmountToLock(s) = 0
  BY <1>1, <1>2, DebitKeepsZero
<1> HIDE DEF b
<1>4. c \in [PoolTokenIndex -> Nat] /\ NothingAtZero(c)
  BY <1>1, <1>3, FeesKeepZero
<1> HIDE DEF c
<1>5. NothingAtZero(Debited(c, CoreIndex, p, s.coreAmount))
  BY <1>1, <1>2, <1>4, DebitKeepsZero
<1>6. ~Locked(Released)
  BY DEF Locked
<1>7. QED
  BY <1>1, <1>5, <1>6, LockKeepsTokens

LEMMA IndexedPoolsStep ==
  ASSUME Books, IndexedInv, PoolsNext(premiumManager)
  PROVE  /\ NothingAtZero(balanceOfPoolToken')
         /\ LockedWithTokens(lockedSwaps', CoreIndex)
<1>1. /\ balanceOfPoolToken \in [PoolTokenIndex -> Nat]
      /\ NothingAtZero(balanceOfPoolToken)
      /\ LockedWithTokens(lockedSwaps, CoreIndex)
  BY DEF Books, TypeOK, StatesTypeOK, IndexedInv
<1>2. CASE FundsStep
  <2>1. PICK caller \in Accounts, n \in Amounts, i \in TokenIndex, p \in PoolIndices :
          \/ DepositAndRegister(caller, n, i, p)
          \/ Deposit(caller, n, i, p)
          \/ Withdraw(caller, n, i, p)
    BY <1>2 DEF FundsStep
  <2>2. n \in Nat
    BY LockTimeAssumption
  <2>3. lockedSwaps' = lockedSwaps
    BY <2>1 DEF DepositAndRegister, Deposit, Withdraw
  <2>4. CASE DepositAndRegister(caller, n, i, p) \/ Deposit(caller, n, i, p)
    <3>1. /\ DepositToken(caller, caller, i, n)
          /\ balanceOfPoolToken' = Credited(balanceOfPoolToken, i, p, n)
      BY <2>4 DEF DepositAndRegister, Deposit
    <3>2. NothingAtZero(balanceOfPoolToken')
      BY <1>1, <2>2, <3>1, DepositKeepsZero
    <3>3. QED
      BY <1>1, <2>3, <3>2
  <2>5. CASE Withdraw(caller, n, i, p)
    <3>1. /\ Covers(balanceOfPoolToken, i, p, n)
          /\ balanceOfPoolToken' = Debited(balanceOfPoolToken, i, p, n)
      BY <2>5 DEF Withdraw
    <3>2. NothingAtZero(balanceOfPoolToken')
      BY <1>1, <2>2, <3>1, DebitKeepsZero
    <3>3. QED
      BY <1>1, <2>3, <3>2
  <2>6. QED
    BY <2>1, <2>4, <2>5
<1>3. CASE MembersStep
  <2>1. UNCHANGED <<balanceOfPoolToken, lockedSwaps>>
    BY <1>3
    DEF MembersStep, AddAuthorizedAddr, RemoveAuthorizedAddr, TransferPoolOwner
  <2>2. QED
    BY <1>1, <2>1
<1>4. CASE LockStep
  BY <1>4, IndexedLockStep, IndexedUnlockStep DEF LockStep
<1>5. CASE ReleaseStep
  BY <1>5, IndexedReleaseStep, IndexedDirectReleaseStep DEF ReleaseStep
<1>6. QED
  BY <1>2, <1>3, <1>4, <1>5, PoolsCases

LEMMA IndexedManagerStep ==
  ASSUME Books, IndexedInv, ManagerNext
  PROVE  /\ NothingAtZero(balanceOfPoolToken')
         /\ UNCHANGED <<postedSwaps, lockedSwaps>>
<1>1. /\ balanceOfPoolToken \in [PoolTokenIndex -> Nat]
      /\ NothingAtZero(balanceOfPoolToken) /\ 0 \in PoolIndices /\ 1 \in PoolIndices
  BY IndexAssumption DEF Books, TypeOK, StatesTypeOK, IndexedInv
<1>2. CASE \/ \E l \in Listings : ListToken(l[1], l[2])
           \/ \E i \in Delistings : DelistToken(i)
           \/ \E a \in Managers : TransferOwnership(a) \/ TransferPremiumManager(a)
  <2>1. UNCHANGED <<balanceOfPoolToken, postedSwaps, lockedSwaps>>
    BY <1>2
    DEF ListToken, DelistToken, TransferOwnership, TransferPremiumManager, statesVars
  <2>2. QED
    BY <1>1, <2>1
<1>3. ASSUME NEW i \in TokenIndex, NEW n \in Amounts, NEW p \in PoolIndices,
             WithdrawServiceFee(i, n, p)
      PROVE  /\ NothingAtZero(balanceOfPoolToken')
             /\ UNCHANGED <<postedSwaps, lockedSwaps>>
  <2> DEFINE b == Debited(balanceOfPoolToken, i, 0, n)
  <2>1. n \in Nat
    BY LockTimeAssumption
  <2>2. /\ Covers(balanceOfPoolToken, i, 0, n) /\ UNCHANGED <<postedSwaps, lockedSwaps>>
        /\ balanceOfPoolToken' = Credited(b, i, p, n)
    BY <1>3 DEF WithdrawServiceFee
  <2>3. b \in [PoolTokenIndex -> Nat] /\ NothingAtZero(b) /\ (i = 0 => n = 0)
    BY <1>1, <2>1, <2>2, DebitKeepsZero
  <2> HIDE DEF b
  <2>4. QED
    BY <2>1, <2>2, <2>3, CreditKeepsZero
<1>4. ASSUME NEW caller \in Accounts, NEW s \in Swaps, NEW recipient,
             DirectSwap(caller, s, recipient)
      PROVE  /\ NothingAtZero(balanceOfPoolToken')
             /\ UNCHANGED <<postedSwaps, lockedSwaps>>
  <2> DEFINE n == s.amount - s.fee
             b == Credited(balanceOfPoolToken, s.inToken, 1, s.amount)
  <2>1. /\ Covers(b, s.outToken, 1, n) /\ Transferable(s.inToken)
        /\ balanceOfPoolToken' = Debited(b, s.outToken, 1, n)
        /\ UNCHANGED <<postedSwaps, lockedSwaps>>
    BY <1>4 DEF DirectSwap
  <2>2. /\ n \in Nat /\ s.amount \in Nat
        /\ s.inToken \in TokenIndex /\ s.outToken \in TokenIndex
    BY <1>4, SwapFields DEF DirectSwap
  <2>3. s.inToken # 0
    BY <2>1, ZeroHasNoToken
  <2>4. b \in [PoolTokenIndex -> Nat] /\ NothingAtZero(b)
    BY <1>1, <2>2, <2>3, CreditKeepsZero
  <2> HIDE DEF b, n
  <2>5. QED
    BY <1>1, <2>1, <2>2, <2>4, DebitKeepsZero
<1>5. QED
  BY <1>2, <1>3, <1>4 DEF ManagerNext

LEMMA CoreIndexStays ==
  ASSUME Books, CoreTokenStays, [Next]_vars, CoreIndex' = 0
  PROVE  CoreIndex = 0
<1>1. indexOfToken \in [Tokens -> TokenIndex] /\ CoreToken \in Tokens
  BY AddressAssumption DEF Books, TypeOK, StatesTypeOK
<1>2. indexOfToken'[CoreToken] = 0
  BY DEF CoreIndex
<1>3. CASE UNCHANGED tokenVars
  BY <1>2, <1>3 DEF tokenVars, CoreIndex
<1>4. CASE \E l \in Listings : ListToken(l[1], l[2])
  BY <1>1, <1>2, <1>4 DEF ListToken, AddSupportToken, CoreIndex
<1>5. ASSUME NEW i \in Delistings, DelistToken(i)
      PROVE  CoreIndex = 0
  <2>1. i \in TokenIndex
    BY DeploymentAssumption DEF TokenIndex
  <2>2. tokenForIndex[i] # CoreToken
    BY <1>1, <2>1 DEF Books, ListedTokens, CoreTokenStays, Backs
  <2>3. indexOfToken' = [indexOfToken EXCEPT ![tokenForIndex[i]] = 0]
    BY <1>5 DEF DelistToken, RemoveSupportToken
  <2>4. QED
    BY <1>1, <1>2, <2>2, <2>3 DEF CoreIndex
<1>6. QED
  BY <1>3, <1>4, <1>5, OnlyTokenSteps

LEMMA IndexedInit == Init => IndexedInv
<1> SUFFICES ASSUME Init PROVE IndexedInv
  OBVIOUS
<1>1. /\ \A s \in Swaps : ~Pending(postedSwaps[s])
      /\ \A id \in SwapId : ~Locked(lockedSwaps[id])
  BY NotPending DEF Init, SwapInit, PoolsInit, Locked
<1>2. \A p \in PoolIndices : balanceOfPoolToken[<<0, p>>] = 0
  BY IndexZero DEF Init, PoolTokenIndex
<1>3. QED
  BY <1>1, <1>2
  DEF IndexedInv, NothingAtZero, PostedWithToken, LockedWithTokens

LEMMA IndexedNext ==
  CoreTokenStays => (Books /\ IndexedInv /\ [Next]_vars => IndexedInv')
<1> SUFFICES ASSUME CoreTokenStays, Books, IndexedInv, [Next]_vars PROVE IndexedInv'
  OBVIOUS
<1>1. /\ NothingAtZero(balanceOfPoolToken') /\ PostedWithToken(postedSwaps')
      /\ LockedWithTokens(lockedSwaps', CoreIndex)
  <2>1. CASE SwapNext /\ UNCHANGED <<lockedSwaps, managerVars>>
    BY <2>1, IndexedSwapStep DEF IndexedInv
  <2>2. CASE PoolsNext(premiumManager) /\ UNCHANGED <<postedSwaps, managerVars>>
    BY <2>2, IndexedPoolsStep DEF IndexedInv
  <2>3. CASE ManagerNext
    BY <2>3, IndexedManagerStep DEF IndexedInv
  <2>4. CASE Tick \/ (\E g \in Signable : Sign(g)) \/ UNCHANGED vars
    <3>1. UNCHANGED <<balanceOfPoolToken, postedSwaps, lockedSwaps>>
      BY <2>4 DEF Tick, Sign, vars
    <3>2. QED
      BY <3>1 DEF IndexedInv
  <2>5. QED
    BY <2>1, <2>2, <2>3, <2>4 DEF Next
<1>2. CoreIndex' = 0 => CoreIndex = 0
  BY CoreIndexStays
<1>3. LockedWithTokens(lockedSwaps', CoreIndex')
  BY <1>1, <1>2 DEF LockedWithTokens
<1>4. QED
  BY <1>1, <1>3 DEF IndexedInv

LEMMA CoveredIsNotStranded ==
  NothingIsSentAway => (SolvencyInv /\ IndexedInv => NothingStranded)
<1> SUFFICES ASSUME NothingIsSentAway, SolvencyInv, IndexedInv, NEW t \in Tokens
             PROVE  ledger[<<t, Meson>>] = Liability(t)
  BY DEF NothingStranded
<1>1. PoolLiability(t) = PoolOwed(balanceOfPoolToken, t)
  BY PoolLiabilityIsOwed DEF SolvencyInv, Books, IndexedInv
<1>2. PostedLiability(t) = PostedOwed(postedSwaps, t)
  BY PostedLiabilityIsOwed DEF IndexedInv
<1>3. LockedLiability(t) = LockedOwed(lockedSwaps, t)
  BY LockedLiabilityIsOwed DEF SolvencyInv, Books, IndexedInv
<1>4. QED
  BY <1>1, <1>2, <1>3, SheetIs DEF Liability

\* As long as the contract is sent tokens only by its own handlers and no party
\* names it as a payee, and the core token is never removed, every token it
\* holds is owed to a pool, to an initiator or for a locked swap: no sequence
\* of calls leaves anything behind that nobody can claim.
THEOREM NothingIsEverStranded ==
  ASSUME NothingIsSentAway, CoreTokenStays
  PROVE  Spec => []NothingStranded
<1>1. SolvencyInv /\ IndexedInv /\ [Next]_vars => IndexedInv'
  BY IndexedNext DEF SolvencyInv
<1>2. SolvencyInv /\ IndexedInv => NothingStranded
  BY CoveredIsNotStranded
<1>3. QED
  BY <1>1, <1>2, SolvencyInit, SolvencyNext, IndexedInit, PTL DEF Spec

=============================================================================
