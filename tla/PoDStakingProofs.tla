-------------------------- MODULE PoDStakingProofs --------------------------
(***************************************************************************)
(* Proofs about PoDStaking: what is locked is always backed, no time is    *)
(* rewarded twice, and claims stay.                                        *)
(***************************************************************************)
EXTENDS PoDStaking, SetFacts, TLAPS

TopRate == Max(Rates)

StakingTypeOK ==
  /\ now \in Nat \ {0}
  /\ balances \in [Accounts \union {PoD} -> Nat]
  /\ lockedBalances \in [Accounts -> Nat]
  /\ lockedSince \in [Accounts -> Nat]
  /\ rewardRate \in Nat
  /\ prevRewards \in [Accounts -> Nat]
  /\ withdrawn \in [Accounts -> Nat]
  /\ staked \in [Accounts -> Nat]

\* A lock has a start, which has passed.
StartInv ==
  \A a \in Accounts :
    /\ lockedSince[a] <= now
    /\ lockedBalances[a] > 0 => lockedSince[a] > 0

\* What is paid, what is saved and all that the time since the start of the
\* lock can be worth are earned.
EarnedInv ==
  /\ rewardRate <= TopRate
  /\ \A a \in Accounts :
       SCALE * (withdrawn[a] + prevRewards[a])
         + SinceLastLock(a) * lockedBalances[a] * TopRate
       <= TopRate * staked[a]

BackedInv == balances[PoD] >= Sum(lockedBalances, Accounts)

StakingInv == StakingTypeOK /\ StartInv /\ EarnedInv /\ BackedInv

-----------------------------------------------------------------------------
\* Arithmetic

LEMMA TopRateIsTop == TopRate \in Nat /\ \A r \in Rates : r \in Nat /\ r <= TopRate
  BY PoDAssumption, MaxIsLargest DEF TopRate

LEMMA Quotient ==
  ASSUME NEW a \in Nat, NEW b \in Nat \ {0}
  PROVE  a \div b \in Nat /\ b * (a \div b) <= a /\ a < b * (a \div b) + b
  OBVIOUS

LEMMA QuotientIsMonotone ==
  ASSUME NEW a \in Nat, NEW b \in Nat, NEW c \in Nat \ {0}, a <= b
  PROVE  a \div c <= b \div c
  OBVIOUS

LEMMA ProductIsMonotone ==
  ASSUME NEW a \in Nat, NEW b \in Nat, NEW c \in Nat, a <= b
  PROVE  a * c <= b * c /\ c * a <= c * b
  OBVIOUS

LEMMA ProductIsNat ==
  ASSUME NEW a \in Nat, NEW b \in Nat
  PROVE  a * b \in Nat
  OBVIOUS

LEMMA Cancelled ==
  ASSUME NEW a \in Nat, NEW b \in Nat, NEW c \in Nat \ {0}, c * a <= c * b
  PROVE  a <= b
  OBVIOUS

\* With s for the scale, r and top for the rates, y for the time that the old
\* lock has lasted and x for the part of it that is pending, each times what
\* is locked: the new lock starts q after x was pending, rounded down to z.
LEMMA NewStartIsEarned ==
  ASSUME NEW s \in Nat, NEW r \in Nat, NEW top \in Nat, NEW x \in Nat,
         NEW y \in Nat, NEW pending \in Nat, NEW total \in Nat, NEW q \in Nat,
         NEW z \in Nat,
         r <= top, x <= y, pending <= total,
         s * pending <= x * r, s * total <= y * r,
         r * q <= pending * s, z <= q, q <= x
  PROVE  s * (total - pending) + z * top <= y * top
<1>1. s * (total - pending) = s * total - s * pending
  OBVIOUS
<1>2. s * total - s * pending <= y * r - r * q
  OBVIOUS
<1>3. z * top <= q * top
  OBVIOUS
<1>4. q * (top - r) <= y * (top - r)
  OBVIOUS
<1>5. q * top - r * q <= y * top - y * r
  BY <1>4
<1> QED
  BY <1>1, <1>2, <1>3, <1>5

-----------------------------------------------------------------------------
\* What _getRewards returns

LEMMA RewardIsQuotient ==
  ASSUME StakingTypeOK, NEW time \in Nat, NEW amount \in Nat
  PROVE  /\ RewardFor(time, amount) \in Nat
         /\ SCALE * RewardFor(time, amount) <= time * amount * rewardRate
<1>1. time * amount * rewardRate \in Nat
  BY ProductIsNat DEF StakingTypeOK
<1>2. SCALE \in Nat \ {0}
  BY PoDAssumption
<1> QED
  BY <1>1, <1>2, Quotient DEF RewardFor

LEMMA RewardGrows ==
  ASSUME StakingTypeOK, NEW amount \in Nat,
         NEW s \in Nat, NEW t \in Nat, s <= t
  PROVE  RewardFor(s, amount) <= RewardFor(t, amount)
<1>1. rewardRate \in Nat /\ SCALE \in Nat \ {0}
  BY PoDAssumption DEF StakingTypeOK
<1>2. s * amount \in Nat /\ t * amount \in Nat /\ s * amount <= t * amount
  BY ProductIsMonotone, ProductIsNat
<1> HIDE <1>2
<1> DEFINE x == s * amount
           y == t * amount
<1>3. x \in Nat /\ y \in Nat /\ x <= y
  BY <1>2
<1> HIDE DEF x, y
<1>4. x * rewardRate \in Nat /\ y * rewardRate \in Nat
      /\ x * rewardRate <= y * rewardRate
  BY <1>1, <1>3, ProductIsMonotone, ProductIsNat
<1>5. (x * rewardRate) \div SCALE <= (y * rewardRate) \div SCALE
  BY <1>1, <1>4, QuotientIsMonotone
<1> QED
  BY <1>5 DEF x, y, RewardFor

\* The time for which the reward is pending.
PendingTime(a) ==
  IF SinceLastLock(a) > LESS_REWARD_LOCK_PERIOD THEN 0
  ELSE IF SinceLastLock(a) > NO_REWARD_LOCK_PERIOD THEN NO_REWARD_LOCK_PERIOD
  ELSE SinceLastLock(a)

LEMMA SinceIsNat ==
  ASSUME StakingTypeOK, StartInv, NEW a \in Accounts
  PROVE  SinceLastLock(a) \in Nat
  BY DEF StakingTypeOK, StartInv, SinceLastLock

LEMMA PendingTimeIsPart ==
  ASSUME StakingTypeOK, StartInv, NEW a \in Accounts
  PROVE  /\ PendingTime(a) \in Nat
         /\ PendingTime(a) <= SinceLastLock(a)
         /\ PendingTime(a) <= NO_REWARD_LOCK_PERIOD
  BY SinceIsNat, PoDAssumption DEF PendingTime

LEMMA NothingForNoTime ==
  ASSUME StakingTypeOK, NEW amount \in Nat
  PROVE  RewardFor(0, amount) = 0
<1>1. RewardFor(0, amount) \in Nat
      /\ SCALE * RewardFor(0, amount) <= 0 * amount * rewardRate
  BY RewardIsQuotient
<1>2. 0 * amount * rewardRate = 0
  BY DEF StakingTypeOK
<1>3. SCALE \in Nat \ {0}
  BY PoDAssumption
<1> QED
  BY <1>1, <1>2, <1>3

LEMMA NothingForNoLock ==
  ASSUME StakingTypeOK, NEW time \in Nat
  PROVE  RewardFor(time, 0) = 0
<1>1. RewardFor(time, 0) \in Nat
      /\ SCALE * RewardFor(time, 0) <= time * 0 * rewardRate
  BY RewardIsQuotient
<1>2. time * 0 * rewardRate = 0
  BY DEF StakingTypeOK
<1>3. SCALE \in Nat \ {0}
  BY PoDAssumption
<1> QED
  BY <1>1, <1>2, <1>3

LEMMA RewardsAreFor ==
  ASSUME StakingTypeOK, StartInv, NEW a \in Accounts
  PROVE  /\ PendingRewards(a) = RewardFor(PendingTime(a), lockedBalances[a])
         /\ TotalRewards(a)
            = prevRewards[a] + RewardFor(SinceLastLock(a), lockedBalances[a])
<1>1. lockedBalances[a] \in Nat /\ prevRewards[a] \in Nat
  BY DEF StakingTypeOK
<1>2. SinceLastLock(a) \in Nat /\ PendingTime(a) \in Nat
  BY SinceIsNat, PendingTimeIsPart
<1>3. RewardFor(0, lockedBalances[a]) = 0
  BY <1>1, NothingForNoTime
<1>4. lockedBalances[a] = 0 =>
        /\ RewardFor(PendingTime(a), lockedBalances[a]) = 0
        /\ RewardFor(SinceLastLock(a), lockedBalances[a]) = 0
  BY <1>2, NothingForNoLock
<1>5. PendingRewards(a) = RewardFor(PendingTime(a), lockedBalances[a])
  BY <1>3, <1>4 DEF PendingRewards, PendingTime, RewardsForCurrentLock
<1>6. TotalRewards(a)
      = prevRewards[a] + RewardFor(SinceLastLock(a), lockedBalances[a])
  BY <1>1, <1>4 DEF TotalRewards, RewardsForCurrentLock
<1> QED
  BY <1>5, <1>6

\* What is pending is part of the reward for the current lock.
LEMMA PendingIsPart ==
  ASSUME StakingTypeOK, StartInv, NEW a \in Accounts
  PROVE  /\ PendingRewards(a) \in Nat
         /\ RewardFor(SinceLastLock(a), lockedBalances[a]) \in Nat
         /\ PendingRewards(a)
            <= RewardFor(SinceLastLock(a), lockedBalances[a])
         /\ ClaimableRewards(a) \in Nat
         /\ ClaimableRewards(a)
            = prevRewards[a]
              + (RewardFor(SinceLastLock(a), lockedBalances[a])
                 - PendingRewards(a))
<1>1. lockedBalances[a] \in Nat /\ prevRewards[a] \in Nat
  BY DEF StakingTypeOK
<1>2. SinceLastLock(a) \in Nat /\ PendingTime(a) \in Nat
      /\ PendingTime(a) <= SinceLastLock(a)
  BY SinceIsNat, PendingTimeIsPart
<1>3. /\ RewardFor(PendingTime(a), lockedBalances[a]) \in Nat
      /\ RewardFor(SinceLastLock(a), lockedBalances[a]) \in Nat
      /\ RewardFor(PendingTime(a), lockedBalances[a])
         <= RewardFor(SinceLastLock(a), lockedBalances[a])
  BY <1>1, <1>2, RewardIsQuotient, RewardGrows
<1> QED
  BY <1>1, <1>3, RewardsAreFor DEF ClaimableRewards

LEMMA WhatIsEarned ==
  ASSUME StakingTypeOK, StartInv, EarnedInv, NEW a \in Accounts
  PROVE  SCALE * (withdrawn[a] + TotalRewards(a)) <= TopRate * staked[a]
<1> DEFINE t == SinceLastLock(a)
           l == lockedBalances[a]
           f == RewardFor(t, l)
           w == withdrawn[a]
           p == prevRewards[a]
<1>1. /\ t \in Nat /\ l \in Nat /\ w \in Nat /\ p \in Nat /\ staked[a] \in Nat
      /\ rewardRate \in Nat
  BY SinceIsNat DEF StakingTypeOK
<1>2. f \in Nat /\ SCALE * f <= t * l * rewardRate
  BY <1>1, RewardIsQuotient
<1>3. TotalRewards(a) = p + f
  BY RewardsAreFor
<1>4. SCALE * (w + p) + t * l * TopRate <= TopRate * staked[a]
  BY DEF EarnedInv
<1>5. rewardRate <= TopRate /\ TopRate \in Nat /\ SCALE \in Nat
  BY TopRateIsTop, PoDAssumption DEF EarnedInv
<1> HIDE DEF t, l, f, w, p
<1>6. t * l \in Nat
  BY <1>1, ProductIsNat
<1>7. t * l * rewardRate <= t * l * TopRate
  BY <1>1, <1>5, <1>6, ProductIsMonotone
<1>8. t * l * rewardRate \in Nat /\ t * l * TopRate \in Nat
      /\ SCALE * f \in Nat /\ SCALE * (w + p) \in Nat
      /\ TopRate * staked[a] \in Nat
  BY <1>1, <1>2, <1>5, <1>6, ProductIsNat
<1>9. SCALE * (w + (p + f)) = SCALE * (w + p) + SCALE * f
  BY <1>1, <1>2, <1>5
<1>10. SCALE * (w + (p + f)) <= TopRate * staked[a]
  BY <1>2, <1>4, <1>7, <1>8, <1>9
<1> QED
  BY <1>3, <1>10 DEF w

LEMMA ProductOfProducts ==
  ASSUME NEW a \in Nat, NEW b \in Nat, NEW c \in Nat
  PROVE  a * b * c = (a * b) * c /\ a * b \in Nat
  OBVIOUS

\* How far the new lock's start lies back: not before the old one's, within
\* the first period, and no further than what is saved and pending allows.
LEMMA NewStart ==
  ASSUME StakingInv, rewardRate # 0, NEW a \in Accounts, NEW amount \in Nat \ {0}
  PROVE  LET worth == TimeWorth(PendingRewards(a), lockedBalances[a] + amount)
         IN  /\ worth \in Nat
             /\ worth <= NO_REWARD_LOCK_PERIOD
             /\ lockedBalances[a] = 0 => worth = 0
             /\ worth <= SinceLastLock(a) \/ lockedBalances[a] = 0
             /\ SCALE * (ClaimableRewards(a) - prevRewards[a])
                  + worth * (lockedBalances[a] + amount) * TopRate
                <= SinceLastLock(a) * lockedBalances[a] * TopRate
<1> USE DEF StakingInv
<1> DEFINE t == SinceLastLock(a)
           d == PendingTime(a)
           l == lockedBalances[a]
           n == l + amount
           p == PendingRewards(a)
           f == RewardFor(t, l)
           q == (p * SCALE) \div rewardRate
           worth == q \div n
<1>1. /\ t \in Nat /\ d \in Nat /\ d <= t /\ d <= NO_REWARD_LOCK_PERIOD
      /\ l \in Nat /\ rewardRate \in Nat \ {0} /\ n \in Nat \ {0} /\ l <= n
  BY SinceIsNat, PendingTimeIsPart DEF StakingTypeOK
<1>2. p \in Nat /\ f \in Nat /\ p <= f
      /\ ClaimableRewards(a) - prevRewards[a] = f - p
  <2>1. prevRewards[a] \in Nat
    BY DEF StakingTypeOK
  <2> QED
    BY <2>1, PendingIsPart
<1>3. SCALE * p <= d * l * rewardRate /\ SCALE * f <= t * l * rewardRate
  BY <1>1, RewardIsQuotient, RewardsAreFor
<1>4. SCALE \in Nat \ {0} /\ TopRate \in Nat /\ rewardRate <= TopRate
      /\ NO_REWARD_LOCK_PERIOD \in Nat
  BY PoDAssumption, TopRateIsTop DEF EarnedInv
<1>5. worth = TimeWorth(PendingRewards(a), lockedBalances[a] + amount)
  BY DEF TimeWorth
<1> HIDE DEF t, d, l, n, p, f
<1>6. p * SCALE \in Nat /\ p * SCALE = SCALE * p
  BY <1>2, <1>4, ProductIsNat
<1>7. q \in Nat /\ rewardRate * q <= p * SCALE
  BY <1>1, <1>6, Quotient
<1> HIDE DEF q
<1>8. worth \in Nat /\ n * worth <= q
  BY <1>1, <1>7, Quotient
<1> HIDE DEF worth
<1> DEFINE x == d * l
           y == t * l
           z == worth * n
<1>9. x \in Nat /\ y \in Nat /\ z \in Nat /\ x <= y /\ z <= q
  BY <1>1, <1>8, ProductIsMonotone, ProductIsNat
<1>10. SCALE * p <= x * rewardRate /\ SCALE * f <= y * rewardRate
  BY <1>3
<1>11. x <= d * n
  BY <1>1, ProductIsMonotone
<1>12. l = 0 => x = 0
  BY <1>1
<1> HIDE DEF x, y
<1>13. x * rewardRate \in Nat /\ rewardRate * q <= rewardRate * x
  BY <1>1, <1>6, <1>7, <1>9, <1>10, ProductIsNat
<1>14. q <= x
  BY <1>1, <1>7, <1>9, <1>13, Cancelled
<1> HIDE DEF z
<1>15. SCALE * (f - p) + z * TopRate <= y * TopRate
  BY <1>1, <1>2, <1>4, <1>7, <1>9, <1>10, <1>14, NewStartIsEarned
<1>16. n * worth <= n * d
  <2>1. n * worth \in Nat /\ d * n \in Nat /\ d * n = n * d
    BY <1>1, <1>8, ProductIsNat
  <2> QED
    BY <1>7, <1>8, <1>9, <1>11, <1>14, <2>1
<1>17. worth <= d
  BY <1>1, <1>8, <1>16, Cancelled
<1>18. l = 0 => worth = 0
  <2>1. SUFFICES ASSUME l = 0 PROVE worth = 0
    OBVIOUS
  <2>2. n * worth <= n * 0
    BY <1>1, <1>7, <1>8, <1>9, <1>12, <1>14, <2>1
  <2>3. worth <= 0
    BY <1>1, <1>8, <2>2, Cancelled
  <2> QED
    BY <1>8, <2>3
<1>19. worth <= NO_REWARD_LOCK_PERIOD /\ worth <= t
  BY <1>1, <1>4, <1>8, <1>17
<1>20. SCALE * (ClaimableRewards(a) - prevRewards[a]) + worth * n * TopRate
       <= t * l * TopRate
  BY <1>2, <1>15 DEF z, y
<1> QED
  BY <1>5, <1>8, <1>18, <1>19, <1>20 DEF n, l, t
-----------------------------------------------------------------------------
\* The invariant holds in every state

LEMMA InitIsOK == Init => StakingInv
<1> SUFFICES ASSUME Init PROVE StakingInv
  OBVIOUS
<1> USE DEF Init
<1>1. TopRate \in Nat /\ SCALE \in Nat /\ IsFiniteSet(Accounts)
  BY TopRateIsTop, PoDAssumption
<1>2. StakingTypeOK
  BY DEF StakingTypeOK
<1>3. StartInv
  BY DEF StartInv
<1>4. EarnedInv
  <2>1. SUFFICES ASSUME NEW a \in Accounts
                 PROVE  SCALE * (withdrawn[a] + prevRewards[a])
                          + SinceLastLock(a) * lockedBalances[a] * TopRate
                        <= TopRate * staked[a]
    BY <1>1 DEF EarnedInv
  <2>2. SCALE * (0 + 0) + 1 * 0 * TopRate <= TopRate * 0
    BY <1>1
  <2>3. SinceLastLock(a) = 1 /\ lockedBalances[a] = 0 /\ withdrawn[a] = 0
        /\ prevRewards[a] = 0 /\ staked[a] = 0
    BY DEF SinceLastLock
  <2> QED
    BY <2>2, <2>3
<1>5. BackedInv
  <2>1. \A a \in Accounts : lockedBalances[a] = 0
    OBVIOUS
  <2>2. Sum(lockedBalances, Accounts) = Sum(lockedBalances, {})
    BY <1>1, <2>1, SumWithoutZeros
  <2>3. balances[PoD] = 0
    OBVIOUS
  <2> QED
    BY <2>2, <2>3, SumOfNone DEF BackedInv
<1> QED
  BY <1>2, <1>3, <1>4, <1>5 DEF StakingInv

\* Calls that only move tokens, and none of them out of the contract.
LEMMA TokensMove ==
  ASSUME StakingInv, balances' \in [Accounts \union {PoD} -> Nat],
         balances'[PoD] >= balances[PoD],
         UNCHANGED <<now, lockedBalances, lockedSince, rewardRate, prevRewards,
                     withdrawn, staked>>
  PROVE  StakingInv'
<1> USE DEF StakingInv
<1>1. StakingTypeOK'
  BY DEF StakingTypeOK
<1>2. StartInv'
  BY DEF StartInv
<1>3. EarnedInv'
  BY DEF EarnedInv, SinceLastLock
<1>4. BackedInv'
  <2>1. Sum(lockedBalances, Accounts) \in Nat
    BY PoDAssumption, SumIsNat DEF StakingTypeOK
  <2>2. balances'[PoD] \in Nat /\ balances[PoD] \in Nat
    BY DEF StakingTypeOK
  <2>3. balances'[PoD] >= Sum(lockedBalances, Accounts)
    BY <2>1, <2>2 DEF BackedInv
  <2> QED
    BY <2>3 DEF BackedInv
<1> QED
  BY <1>1, <1>2, <1>3, <1>4

LEMMA MintIsOK ==
  ASSUME StakingInv, NEW a \in Accounts, NEW amount \in Amounts,
         Mint(a, amount)
  PROVE  StakingInv'
<1>1. a # PoD /\ amount \in Nat
  BY PoDAssumption
<1>2. balances' = [balances EXCEPT ![a] = @ + amount]
  BY DEF Mint
<1>3. balances \in [Accounts \union {PoD} -> Nat]
  BY DEF StakingInv, StakingTypeOK
<1>4. balances' \in [Accounts \union {PoD} -> Nat]
      /\ balances'[PoD] >= balances[PoD]
  BY <1>1, <1>2, <1>3
<1> QED
  BY <1>4, TokensMove DEF Mint

LEMMA TransferIsOK ==
  ASSUME StakingInv, NEW a \in Accounts, NEW amount \in Amounts,
         NEW to \in (Accounts \union {PoD}) \ {a}, Transfer(a, to, amount)
  PROVE  StakingInv'
<1>1. a # PoD /\ amount \in Nat
  BY PoDAssumption
<1>2. balances' = [balances EXCEPT ![a] = @ - amount, ![to] = @ + amount]
      /\ balances[a] >= amount
  BY DEF Transfer, Moved
<1>3. balances \in [Accounts \union {PoD} -> Nat]
  BY DEF StakingInv, StakingTypeOK
<1>4. balances' \in [Accounts \union {PoD} -> Nat]
      /\ balances'[PoD] >= balances[PoD]
  BY <1>1, <1>2, <1>3
<1> QED
  BY <1>4, TokensMove DEF Transfer

LEMMA SetRewardFactorIsOK ==
  ASSUME StakingInv, NEW rate \in Rates, SetRewardFactor(rate)
  PROVE  StakingInv'
<1> USE DEF StakingInv, SetRewardFactor
<1>1. StakingTypeOK'
  BY PoDAssumption DEF StakingTypeOK
<1>2. StartInv'
  BY DEF StartInv
<1>3. EarnedInv'
  BY TopRateIsTop DEF EarnedInv, SinceLastLock
<1>4. BackedInv'
  BY DEF BackedInv
<1> QED
  BY <1>1, <1>2, <1>3, <1>4

LEMMA LockPoDIsOK ==
  ASSUME StakingInv, NEW a \in Accounts, NEW amount \in Amounts,
         LockPoD(a, amount)
  PROVE  StakingInv'
<1> USE DEF StakingInv
<1> DEFINE n == lockedBalances[a] + amount
           worth == TimeWorth(PendingRewards(a), n)
<1>1. a # PoD /\ amount \in Nat \ {0}
  BY PoDAssumption
<1>2. /\ rewardRate # 0
      /\ balances[a] >= amount
      /\ prevRewards' = [prevRewards EXCEPT ![a] = ClaimableRewards(a)]
      /\ lockedSince' = [lockedSince EXCEPT ![a] = now - worth]
      /\ lockedBalances' = [lockedBalances EXCEPT ![a] = n]
      /\ balances' = [balances EXCEPT ![a] = @ - amount, ![PoD] = @ + amount]
      /\ UNCHANGED <<now, rewardRate, withdrawn, staked>>
  BY DEF LockPoD, SavedRewards, Moved
<1>3. /\ worth \in Nat
      /\ lockedBalances[a] = 0 => worth = 0
      /\ worth <= SinceLastLock(a) \/ lockedBalances[a] = 0
      /\ SCALE * (ClaimableRewards(a) - prevRewards[a]) + worth * n * TopRate
         <= SinceLastLock(a) * lockedBalances[a] * TopRate
  BY <1>1, <1>2, NewStart
<1>4. ClaimableRewards(a) \in Nat /\ SinceLastLock(a) \in Nat
  BY PendingIsPart, SinceIsNat
<1>5. now \in Nat \ {0} /\ lockedBalances[a] \in Nat /\ lockedSince[a] \in Nat
      /\ n \in Nat /\ n > 0
  BY <1>1 DEF StakingTypeOK
<1> HIDE DEF worth, n
<1>6. now - worth \in Nat /\ now - worth <= now /\ now - worth > 0
  <2>1. /\ lockedSince[a] <= now /\ SinceLastLock(a) = now - lockedSince[a]
        /\ lockedBalances[a] > 0 => lockedSince[a] > 0
    BY DEF StartInv, SinceLastLock
  <2> QED
    BY <1>3, <1>4, <1>5, <2>1
<1>7. StakingTypeOK'
  <2>1. balances' \in [Accounts \union {PoD} -> Nat]
    BY <1>1, <1>2 DEF StakingTypeOK
  <2>2. prevRewards' \in [Accounts -> Nat]
    BY <1>2, <1>4 DEF StakingTypeOK
  <2>3. lockedSince' \in [Accounts -> Nat]
    BY <1>2, <1>6 DEF StakingTypeOK
  <2>4. lockedBalances' \in [Accounts -> Nat]
    BY <1>2, <1>5 DEF StakingTypeOK
  <2> QED
    BY <1>2, <2>1, <2>2, <2>3, <2>4 DEF StakingTypeOK
<1>8. ASSUME NEW b \in Accounts, b # a
      PROVE  /\ prevRewards'[b] = prevRewards[b]
             /\ lockedSince'[b] = lockedSince[b]
             /\ lockedBalances'[b] = lockedBalances[b]
  BY <1>2, <1>8 DEF StakingTypeOK
<1>9. /\ prevRewards'[a] = ClaimableRewards(a)
      /\ lockedSince'[a] = now - worth
      /\ lockedBalances'[a] = n
  BY <1>2 DEF StakingTypeOK
<1>10. StartInv'
  <2>1. SUFFICES ASSUME NEW b \in Accounts
                 PROVE  /\ lockedSince'[b] <= now'
                        /\ lockedBalances'[b] > 0 => lockedSince'[b] > 0
    BY DEF StartInv
  <2>2. CASE b = a
    BY <1>2, <1>6, <1>9, <2>2
  <2>3. CASE b # a
    BY <1>2, <1>8, <2>3 DEF StartInv
  <2> QED
    BY <2>2, <2>3
<1>11. EarnedInv'
  <2>1. SUFFICES ASSUME NEW b \in Accounts
                 PROVE  SCALE * (withdrawn'[b] + prevRewards'[b])
                          + (now' - lockedSince'[b]) * lockedBalances'[b]
                            * TopRate
                        <= TopRate * staked'[b]
    BY <1>2 DEF EarnedInv, SinceLastLock
  <2>2. SCALE * (withdrawn[b] + prevRewards[b])
          + (now - lockedSince[b]) * lockedBalances[b] * TopRate
        <= TopRate * staked[b]
    BY DEF EarnedInv, SinceLastLock
  <2>3. CASE b # a
    BY <1>2, <1>8, <2>2, <2>3
  <2>4. CASE b = a
    <3> DEFINE w == withdrawn[a]
               p == prevRewards[a]
               c == ClaimableRewards(a)
               old == SinceLastLock(a) * lockedBalances[a] * TopRate
               new == worth * n * TopRate
               most == TopRate * staked[a]
    <3>1. w \in Nat /\ p \in Nat /\ c \in Nat /\ SCALE \in Nat
      BY <1>4, PoDAssumption DEF StakingTypeOK
    <3>2. SCALE * (w + p) + old <= most /\ SCALE * (c - p) + new <= old
      BY <1>3, <2>2, <2>4 DEF SinceLastLock
    <3>3. staked[a] \in Nat /\ TopRate \in Nat
      BY TopRateIsTop DEF StakingTypeOK
    <3>4. old \in Nat /\ new \in Nat /\ most \in Nat
      BY <1>3, <1>4, <1>5, <3>3, ProductIsNat
    <3>5. now - (now - worth) = worth
      BY <1>3, <1>5
    <3> HIDE DEF w, p, c, old, new, most
    <3>6. SCALE * (w + c) = SCALE * (w + p) + SCALE * (c - p)
      BY <3>1
    <3>7. SCALE * (w + p) \in Int /\ SCALE * (c - p) \in Int
      BY <3>1
    <3>8. SCALE * (w + c) + new <= most
      BY <3>2, <3>4, <3>6, <3>7
    <3> QED
      BY <1>2, <1>9, <2>4, <3>5, <3>8 DEF w, p, c, old, new, most
  <2> QED
    BY <2>3, <2>4
<1>12. BackedInv'
  <2>1. Sum(lockedBalances', Accounts) + lockedBalances[a]
        = Sum(lockedBalances, Accounts) + lockedBalances'[a]
    <3>1. \A b \in Accounts : lockedBalances[b] \in Nat
      BY DEF StakingTypeOK
    <3>2. lockedBalances'[a] \in Nat
      BY <1>5, <1>9
    <3>3. \A b \in Accounts \ {a} : lockedBalances'[b] = lockedBalances[b]
      BY <1>8
    <3> QED
      BY <3>1, <3>2, <3>3, PoDAssumption, SumOfChanged
  <2>2. Sum(lockedBalances', Accounts) \in Nat
        /\ Sum(lockedBalances, Accounts) \in Nat
    BY <1>7, PoDAssumption, SumIsNat DEF StakingTypeOK
  <2>3. balances'[PoD] = balances[PoD] + amount /\ balances[PoD] \in Nat
    BY <1>1, <1>2 DEF StakingTypeOK
  <2>4. lockedBalances'[a] = lockedBalances[a] + amount
    BY <1>9 DEF n
  <2>5. balances'[PoD] >= Sum(lockedBalances', Accounts)
    BY <1>1, <1>5, <2>1, <2>2, <2>3, <2>4 DEF BackedInv
  <2> QED
    BY <2>5 DEF BackedInv
<1> QED
  BY <1>7, <1>10, <1>11, <1>12

\* After an unlock or a withdrawal the account's lock starts now, if there is
\* one; and no more is saved than was claimable.
LEMMA RestartIsOK ==
  ASSUME StakingInv, NEW a \in Accounts, NEW saved \in Nat, NEW paid \in Nat,
         NEW left \in Nat, NEW start \in {0, now},
         saved + paid <= ClaimableRewards(a),
         left > 0 => start = now,
         prevRewards' = [prevRewards EXCEPT ![a] = saved],
         withdrawn' = [withdrawn EXCEPT ![a] = @ + paid],
         lockedBalances' = [lockedBalances EXCEPT ![a] = left],
         lockedSince' = [lockedSince EXCEPT ![a] = start],
         balances' \in [Accounts \union {PoD} -> Nat],
         balances'[PoD] + lockedBalances[a] >= balances[PoD] + left,
         UNCHANGED <<now, rewardRate, staked>>
  PROVE  StakingInv'
<1> USE DEF StakingInv
<1>1. /\ now \in Nat \ {0} /\ start \in Nat /\ start <= now
      /\ lockedBalances[a] \in Nat /\ withdrawn[a] \in Nat
      /\ prevRewards[a] \in Nat /\ staked[a] \in Nat
  BY DEF StakingTypeOK
<1>2. StakingTypeOK'
  <2>1. prevRewards' \in [Accounts -> Nat]
    BY DEF StakingTypeOK
  <2>2. withdrawn' \in [Accounts -> Nat]
    BY DEF StakingTypeOK
  <2>3. lockedSince' \in [Accounts -> Nat]
    BY <1>1 DEF StakingTypeOK
  <2>4. lockedBalances' \in [Accounts -> Nat]
    BY DEF StakingTypeOK
  <2> QED
    BY <2>1, <2>2, <2>3, <2>4 DEF StakingTypeOK
<1>3. ASSUME NEW b \in Accounts, b # a
      PROVE  /\ prevRewards'[b] = prevRewards[b]
             /\ withdrawn'[b] = withdrawn[b]
             /\ lockedSince'[b] = lockedSince[b]
             /\ lockedBalances'[b] = lockedBalances[b]
  BY <1>3 DEF StakingTypeOK
<1>4. /\ prevRewards'[a] = saved
      /\ withdrawn'[a] = withdrawn[a] + paid
      /\ lockedSince'[a] = start
      /\ lockedBalances'[a] = left
  BY DEF StakingTypeOK
<1>5. StartInv'
  <2>1. SUFFICES ASSUME NEW b \in Accounts
                 PROVE  /\ lockedSince'[b] <= now'
                        /\ lockedBalances'[b] > 0 => lockedSince'[b] > 0
    BY DEF StartInv
  <2>2. CASE b = a
    BY <1>1, <1>4, <2>2
  <2>3. CASE b # a
    BY <1>3, <2>3 DEF StartInv
  <2> QED
    BY <2>2, <2>3
<1>6. EarnedInv'
  <2>1. SUFFICES ASSUME NEW b \in Accounts
                 PROVE  SCALE * (withdrawn'[b] + prevRewards'[b])
                          + (now' - lockedSince'[b]) * lockedBalances'[b]
                            * TopRate
                        <= TopRate * staked'[b]
    BY DEF EarnedInv, SinceLastLock
  <2>2. CASE b # a
    <3>1. SCALE * (withdrawn[b] + prevRewards[b])
            + (now - lockedSince[b]) * lockedBalances[b] * TopRate
          <= TopRate * staked[b]
      BY DEF EarnedInv, SinceLastLock
    <3> QED
      BY <1>3, <2>2, <3>1
  <2>3. CASE b = a
    <3>1. SCALE * (withdrawn[a] + TotalRewards(a)) <= TopRate * staked[a]
      BY WhatIsEarned
    <3>2. /\ ClaimableRewards(a) \in Nat /\ TotalRewards(a) \in Nat
          /\ ClaimableRewards(a) <= TotalRewards(a)
      BY <1>1, PendingIsPart, RewardsAreFor
    <3>3. SCALE \in Nat /\ TopRate \in Nat
      BY PoDAssumption, TopRateIsTop
    <3>4. SCALE * ((withdrawn[a] + paid) + saved)
          <= SCALE * (withdrawn[a] + TotalRewards(a))
      <4>1. (withdrawn[a] + paid) + saved <= withdrawn[a] + TotalRewards(a)
        BY <1>1, <3>2
      <4>2. (withdrawn[a] + paid) + saved \in Nat
            /\ withdrawn[a] + TotalRewards(a) \in Nat
        BY <1>1, <3>2
      <4> QED
        BY <3>3, <4>1, <4>2, ProductIsMonotone
    <3>5. (now - start) * left * TopRate = 0
      <4>1. CASE left = 0
        BY <1>1, <3>3, <4>1
      <4>2. CASE left # 0
        <5>1. now - start = 0
          BY <1>1, <4>2
        <5> QED
          BY <3>3, <5>1
      <4> QED
        BY <4>1, <4>2
    <3>6. /\ SCALE * ((withdrawn[a] + paid) + saved) \in Nat
          /\ SCALE * (withdrawn[a] + TotalRewards(a)) \in Nat
          /\ TopRate * staked[a] \in Nat
      BY <1>1, <3>2, <3>3, ProductIsNat
    <3>7. SCALE * ((withdrawn[a] + paid) + saved)
            + (now - start) * left * TopRate
          <= TopRate * staked[a]
      BY <3>1, <3>4, <3>5, <3>6
    <3> QED
      BY <1>4, <2>3, <3>7
  <2> QED
    BY <2>2, <2>3
<1>7. BackedInv'
  <2>1. Sum(lockedBalances', Accounts) + lockedBalances[a]
        = Sum(lockedBalances, Accounts) + lockedBalances'[a]
    <3>1. \A b \in Accounts : lockedBalances[b] \in Nat
      BY DEF StakingTypeOK
    <3>2. lockedBalances'[a] \in Nat
      BY <1>4
    <3>3. \A b \in Accounts \ {a} : lockedBalances'[b] = lockedBalances[b]
      BY <1>3
    <3>4. IsFiniteSet(Accounts)
      BY PoDAssumption
    <3> QED
      BY ONLY a \in Accounts, <3>1, <3>2, <3>3, <3>4, SumOfChanged
  <2>2. Sum(lockedBalances', Accounts) \in Nat
        /\ Sum(lockedBalances, Accounts) \in Nat
    BY <1>2, PoDAssumption, SumIsNat DEF StakingTypeOK
  <2>3. balances'[PoD] \in Nat /\ balances[PoD] \in Nat
    BY DEF StakingTypeOK
  <2>4. balances'[PoD] >= Sum(lockedBalances', Accounts)
    BY <1>1, <1>4, <2>1, <2>2, <2>3 DEF BackedInv
  <2> QED
    BY <2>4 DEF BackedInv
<1> QED
  BY <1>2, <1>5, <1>6, <1>7

LEMMA UnlockPoDIsOK ==
  ASSUME StakingInv, NEW a \in Accounts, NEW amount \in Amounts,
         UnlockPoD(a, amount)
  PROVE  StakingInv'
<1> DEFINE left == lockedBalances[a] - amount
           start == IF left > 0 THEN now ELSE 0
           saved == ClaimableRewards(a)
<1>1. a # PoD /\ amount \in Nat \ {0}
  BY PoDAssumption
<1>2. /\ left >= 0
      /\ balances[PoD] >= amount
      /\ prevRewards' = [prevRewards EXCEPT ![a] = saved]
      /\ lockedSince' = [lockedSince EXCEPT ![a] = start]
      /\ lockedBalances' = [lockedBalances EXCEPT ![a] = left]
      /\ balances' = [balances EXCEPT ![PoD] = @ - amount, ![a] = @ + amount]
      /\ UNCHANGED <<now, rewardRate, withdrawn, staked>>
  BY DEF UnlockPoD, LockedAfter, SavedRewards, Moved
<1>3. StakingTypeOK /\ StartInv
  BY DEF StakingInv
<1>4. saved \in Nat
  BY <1>3, PendingIsPart
<1>5. lockedBalances[a] \in Nat /\ left \in Nat /\ withdrawn[a] \in Nat
      /\ withdrawn \in [Accounts -> Nat]
  BY <1>1, <1>2, <1>3 DEF StakingTypeOK
<1>6. start \in {0, now} /\ (left > 0 => start = now)
  OBVIOUS
<1>7. balances \in [Accounts \union {PoD} -> Nat]
  BY <1>3 DEF StakingTypeOK
<1>8. balances' \in [Accounts \union {PoD} -> Nat]
      /\ balances'[PoD] = balances[PoD] - amount
  BY <1>1, <1>2, <1>7
<1>9. balances'[PoD] + lockedBalances[a] >= balances[PoD] + left
  BY <1>1, <1>5, <1>7, <1>8
<1> HIDE DEF start, left, saved
<1>10. withdrawn' = [withdrawn EXCEPT ![a] = @ + 0]
  BY <1>2, <1>5
<1>11. saved + 0 <= ClaimableRewards(a)
  BY <1>4 DEF saved
<1> QED
  BY <1>2, <1>4, <1>5, <1>6, <1>8, <1>9, <1>10, <1>11, RestartIsOK

LEMMA WithdrawRewardsIsOK ==
  ASSUME StakingInv, NEW a \in Accounts, NEW amount \in Amounts,
         WithdrawRewards(a, amount)
  PROVE  StakingInv'
<1> DEFINE left == lockedBalances[a]
           start == IF lockedSince[a] > 0 THEN now ELSE lockedSince[a]
           saved == ClaimableRewards(a) - amount
<1>1. a # PoD /\ amount \in Nat \ {0}
  BY PoDAssumption
<1>2. StakingTypeOK /\ StartInv
  BY DEF StakingInv
<1>3. /\ amount <= ClaimableRewards(a)
      /\ prevRewards' = [prevRewards EXCEPT ![a] = saved]
      /\ lockedSince' = [lockedSince EXCEPT ![a] = start]
      /\ balances' = [balances EXCEPT ![a] = @ + amount]
      /\ withdrawn' = [withdrawn EXCEPT ![a] = @ + amount]
      /\ UNCHANGED <<now, lockedBalances, rewardRate, staked>>
  BY DEF WithdrawRewards
<1>4. ClaimableRewards(a) \in Nat
  BY <1>2, PendingIsPart
<1>5. saved \in Nat /\ saved + amount <= ClaimableRewards(a)
  BY <1>1, <1>3, <1>4
<1>6. lockedBalances' = [lockedBalances EXCEPT ![a] = left] /\ left \in Nat
  BY <1>2, <1>3 DEF StakingTypeOK
<1>7. start \in {0, now} /\ (left > 0 => start = now)
  BY <1>2 DEF StakingTypeOK, StartInv
<1>8. balances \in [Accounts \union {PoD} -> Nat]
  BY <1>2 DEF StakingTypeOK
<1>9. balances' \in [Accounts \union {PoD} -> Nat]
      /\ balances'[PoD] = balances[PoD]
  BY <1>1, <1>3, <1>8
<1>10. balances'[PoD] + lockedBalances[a] >= balances[PoD] + left
  BY <1>6, <1>8, <1>9
<1> HIDE DEF start, left, saved
<1> QED
  BY <1>1, <1>3, <1>5, <1>6, <1>7, <1>9, <1>10, RestartIsOK

LEMMA TickIsOK ==
  ASSUME StakingInv, Tick
  PROVE  StakingInv'
<1> USE DEF StakingInv
<1>1. /\ now' = now + 1
      /\ staked' = [a \in Accounts |-> staked[a] + lockedBalances[a]]
      /\ UNCHANGED <<balances, lockedBalances, lockedSince, rewardRate,
                     prevRewards, withdrawn>>
  BY DEF Tick
<1>2. StakingTypeOK'
  BY <1>1 DEF StakingTypeOK
<1>3. StartInv'
  BY <1>1 DEF StartInv, StakingTypeOK
<1>4. EarnedInv'
  <2>1. SUFFICES ASSUME NEW a \in Accounts
                 PROVE  SCALE * (withdrawn[a] + prevRewards[a])
                          + ((now + 1) - lockedSince[a]) * lockedBalances[a]
                            * TopRate
                        <= TopRate * (staked[a] + lockedBalances[a])
    BY <1>1 DEF EarnedInv, SinceLastLock
  <2> DEFINE l == lockedBalances[a]
             t == SinceLastLock(a)
             g == SCALE * (withdrawn[a] + prevRewards[a])
  <2>2. l \in Nat /\ t \in Nat /\ staked[a] \in Nat /\ TopRate \in Nat
        /\ (now + 1) - lockedSince[a] = t + 1
    BY SinceIsNat, TopRateIsTop DEF StakingTypeOK, SinceLastLock
  <2>3. g \in Nat
    <3>1. withdrawn[a] + prevRewards[a] \in Nat /\ SCALE \in Nat
      BY PoDAssumption DEF StakingTypeOK
    <3> QED
      BY <3>1, ProductIsNat
  <2>4. g + t * l * TopRate <= TopRate * staked[a]
    BY DEF EarnedInv
  <2> HIDE DEF l, t, g
  <2>5. (t + 1) * l * TopRate = t * l * TopRate + TopRate * l
    BY <2>2
  <2>6. TopRate * (staked[a] + l) = TopRate * staked[a] + TopRate * l
    BY <2>2
  <2>7. /\ t * l * TopRate \in Nat /\ TopRate * l \in Nat
        /\ TopRate * staked[a] \in Nat
    BY <2>2, ProductIsNat
  <2>8. g + (t + 1) * l * TopRate <= TopRate * (staked[a] + l)
    BY <2>3, <2>4, <2>5, <2>6, <2>7
  <2> QED
    BY <2>2, <2>8 DEF g, l
<1>5. BackedInv'
  BY <1>1 DEF BackedInv
<1> QED
  BY <1>2, <1>3, <1>4, <1>5

LEMMA StepIsOK == StakingInv /\ [Next]_vars => StakingInv'
<1> SUFFICES ASSUME StakingInv, [Next]_vars PROVE StakingInv'
  OBVIOUS
<1>1. ASSUME NEW a \in Accounts, NEW amount \in Amounts,
             \/ Mint(a, amount)
             \/ \E to \in (Accounts \union {PoD}) \ {a} :
                  Transfer(a, to, amount)
             \/ LockPoD(a, amount)
             \/ UnlockPoD(a, amount)
             \/ WithdrawRewards(a, amount)
      PROVE  StakingInv'
  BY <1>1, MintIsOK, TransferIsOK, LockPoDIsOK, UnlockPoDIsOK,
     WithdrawRewardsIsOK
<1>2. ASSUME NEW rate \in Rates, SetRewardFactor(rate)
      PROVE  StakingInv'
  BY <1>2, SetRewardFactorIsOK
<1>3. CASE Tick
  BY <1>3, TickIsOK
<1>4. CASE UNCHANGED vars
  BY <1>4 DEF vars, StakingInv, StakingTypeOK, StartInv, EarnedInv, BackedInv,
              SinceLastLock
<1> QED
  BY <1>1, <1>2, <1>3, <1>4 DEF Next

\* What the handlers rely on and keep: a lock has a start that has passed, what
\* the time since then can be worth at the highest rate is earned, and the
\* contract holds all that is locked.
THEOREM StakingInvHolds == Spec => []StakingInv
<1>1. Init => StakingInv
  BY InitIsOK
<1>2. StakingInv /\ [Next]_vars => StakingInv'
  BY StepIsOK
<1> QED
  BY <1>1, <1>2, PTL DEF Spec

\* Everything that is locked can be unlocked (lockPoD, unlockPoD): the
\* contract always holds at least the sum of all locked balances.
THEOREM LockedIsAlwaysBacked == Spec => []LockedIsBacked
<1>1. StakingInv => LockedIsBacked
  BY DEF StakingInv, BackedInv, LockedIsBacked, Sum
<1> QED
  BY <1>1, StakingInvHolds, PTL

\* No time is rewarded twice (_getRewards, lockPoD, withdrawRewards): rewards
\* never exceed the highest rate on what was locked for as long as it was.
THEOREM RewardsAreAlwaysEarned == Spec => []RewardsAreEarned
<1>1. StakingInv => RewardsAreEarned
  BY WhatIsEarned DEF StakingInv, RewardsAreEarned, TopRate
<1> QED
  BY <1>1, StakingInvHolds, PTL

-----------------------------------------------------------------------------
\* Claims

\* What is claimable, as a function of what is saved, the time since the start
\* of the lock, what is locked and the rate.
Reward(t, m, r) == (t * m * r) \div SCALE

Waiting(t) == IF t > LESS_REWARD_LOCK_PERIOD THEN 0
              ELSE IF t > NO_REWARD_LOCK_PERIOD THEN NO_REWARD_LOCK_PERIOD
              ELSE t

Claim(p, t, m, r) == p + (Reward(t, m, r) - Reward(Waiting(t), m, r))

LEMMA RewardBounds ==
  ASSUME NEW t \in Nat, NEW m \in Nat, NEW r \in Nat
  PROVE  /\ Reward(t, m, r) \in Nat
         /\ SCALE * Reward(t, m, r) <= t * m * r
         /\ t * m * r < SCALE * Reward(t, m, r) + SCALE
         /\ m = 0 \/ t = 0 => Reward(t, m, r) = 0
<1>1. t * m * r \in Nat /\ (m = 0 \/ t = 0 => t * m * r = 0)
  BY ProductIsNat
<1>2. SCALE \in Nat \ {0}
  BY PoDAssumption
<1>3. /\ Reward(t, m, r) \in Nat
      /\ SCALE * Reward(t, m, r) <= t * m * r
      /\ t * m * r < SCALE * Reward(t, m, r) + SCALE
  BY <1>1, <1>2, Quotient DEF Reward
<1>4. t * m * r = 0 => Reward(t, m, r) = 0
  <2>1. SUFFICES ASSUME SCALE * Reward(t, m, r) <= 0
                 PROVE  Reward(t, m, r) = 0
    BY <1>3
  <2>2. SCALE * Reward(t, m, r) <= SCALE * 0
    BY <1>2, <2>1
  <2>3. Reward(t, m, r) <= 0
    BY <1>2, <1>3, <2>2, Cancelled
  <2> QED
    BY <1>3, <2>3
<1> QED
  BY <1>1, <1>3, <1>4

LEMMA RewardIsMonotone ==
  ASSUME NEW s \in Nat, NEW t \in Nat, NEW m \in Nat, NEW r \in Nat, s <= t
  PROVE  Reward(s, m, r) <= Reward(t, m, r)
<1> DEFINE x == s * m
           y == t * m
<1>1. x \in Nat /\ y \in Nat /\ x <= y
  BY ProductIsNat, ProductIsMonotone
<1> HIDE DEF x, y
<1>2. x * r \in Nat /\ y * r \in Nat /\ x * r <= y * r
  BY <1>1, ProductIsNat, ProductIsMonotone
<1>3. (x * r) \div SCALE <= (y * r) \div SCALE
  BY <1>2, PoDAssumption, QuotientIsMonotone
<1> QED
  BY <1>3 DEF x, y, Reward

LEMMA WaitingIsPart ==
  ASSUME NEW t \in Nat
  PROVE  Waiting(t) \in Nat /\ Waiting(t) <= t
  BY PoDAssumption DEF Waiting

LEMMA ClaimOfNew ==
  ASSUME NEW p \in Nat, NEW t \in Nat, NEW m \in Nat, NEW r \in Nat,
         t <= NO_REWARD_LOCK_PERIOD \/ m = 0
  PROVE  Claim(p, t, m, r) = p
<1>1. Waiting(t) \in Nat /\ Reward(t, m, r) \in Nat
  BY WaitingIsPart, RewardBounds
<1>2. CASE m = 0
  <2>1. Reward(t, m, r) = 0 /\ Reward(Waiting(t), m, r) = 0
    BY <1>1, <1>2, RewardBounds
  <2> QED
    BY <2>1 DEF Claim
<1>3. CASE t <= NO_REWARD_LOCK_PERIOD
  <2>1. Waiting(t) = t
    BY <1>3, PoDAssumption DEF Waiting
  <2> QED
    BY <1>1, <2>1 DEF Claim
<1> QED
  BY <1>2, <1>3

LEMMA TimeKeepsClaim ==
  ASSUME NEW p \in Nat, NEW t \in Nat, NEW m \in Nat, NEW r \in Nat
  PROVE  Claim(p, t + 1, m, r) >= Claim(p, t, m, r)
<1>1. /\ Waiting(t) \in Nat /\ Waiting(t) <= t
      /\ Waiting(t + 1) \in Nat /\ Waiting(t + 1) <= t + 1
  BY WaitingIsPart
<1>2. Waiting(t) = t \/ Waiting(t + 1) <= Waiting(t)
  BY PoDAssumption DEF Waiting
<1> DEFINE a == Reward(t, m, r)
           b == Reward(t + 1, m, r)
           c == Reward(Waiting(t), m, r)
           d == Reward(Waiting(t + 1), m, r)
<1>3. a \in Nat /\ b \in Nat /\ c \in Nat /\ d \in Nat
  <2>1. t + 1 \in Nat
    OBVIOUS
  <2> QED
    BY <1>1, <2>1, RewardBounds
<1>4. a <= b /\ d <= b
  BY <1>1, RewardIsMonotone
<1>5. c = a \/ d <= c
  BY <1>1, <1>2, RewardIsMonotone
<1> HIDE DEF a, b, c, d
<1>6. p + (b - d) >= p + (a - c)
  BY <1>3, <1>4, <1>5
<1> QED
  BY <1>6 DEF a, b, c, d, Claim

\* Both parts of the difference are rounded, each by less than one unit.
LEMMA RateCostsOne ==
  ASSUME NEW s \in Nat \ {0}, NEW x \in Nat, NEW y \in Nat, y <= x,
         NEW r \in Nat, NEW q \in Nat, r <= q,
         NEW a \in Nat, s * a <= x * r,
         NEW b \in Nat, y * r < s * b + s,
         NEW c \in Nat, x * q < s * c + s,
         NEW d \in Nat, s * d <= y * q
  PROVE  c - d >= (a - b) - 1
<1>1. (x - y) * (q - r) \in Nat
  BY ProductIsNat
<1>2. (x - y) * (q - r) = (x * q - y * q) - (x * r - y * r)
  OBVIOUS
<1>3. s * (((c - d) - (a - b)) + 2) = (((s * c - s * d) - s * a) + s * b) + 2 * s
  OBVIOUS
<1>4. /\ x * q \in Nat /\ y * q \in Nat /\ x * r \in Nat /\ y * r \in Nat
      /\ s * a \in Nat /\ s * b \in Nat /\ s * c \in Nat /\ s * d \in Nat
  BY ProductIsNat
<1>5. s * (((c - d) - (a - b)) + 2) > 0
  BY <1>1, <1>2, <1>3, <1>4
<1> DEFINE k == ((c - d) - (a - b)) + 2
<1>6. k \in Int /\ s * k > 0
  BY <1>5
<1> HIDE DEF k
<1>7. k > 0
  BY <1>6
<1> QED
  BY <1>7 DEF k

LEMMA RateKeepsClaim ==
  ASSUME NEW p \in Nat, NEW t \in Nat, NEW m \in Nat, NEW r \in Nat,
         NEW q \in Nat, r <= q
  PROVE  Claim(p, t, m, q) >= Claim(p, t, m, r) - 1
<1> DEFINE x == t * m
           y == Waiting(t) * m
           a == Reward(t, m, r)
           b == Reward(Waiting(t), m, r)
           c == Reward(t, m, q)
           d == Reward(Waiting(t), m, q)
<1>1. Waiting(t) \in Nat /\ Waiting(t) <= t
  BY WaitingIsPart
<1>2. x \in Nat /\ y \in Nat /\ y <= x
  BY <1>1, ProductIsNat, ProductIsMonotone
<1>3. /\ a \in Nat /\ b \in Nat /\ c \in Nat /\ d \in Nat
      /\ SCALE * a <= x * r /\ y * r < SCALE * b + SCALE
      /\ x * q < SCALE * c + SCALE /\ SCALE * d <= y * q
  BY <1>1, RewardBounds
<1> HIDE DEF x, y, a, b, c, d
<1>4. c - d >= (a - b) - 1
  BY <1>2, <1>3, PoDAssumption, RateCostsOne
<1>5. p + (c - d) >= (p + (a - b)) - 1
  BY <1>3, <1>4
<1> QED
  BY <1>5 DEF a, b, c, d, Claim

ClaimOf(a) ==
  Claim(prevRewards[a], SinceLastLock(a), lockedBalances[a], rewardRate)

LEMMA ClaimableIsClaim ==
  StakingInv =>
    \A a \in Accounts : ClaimableRewards(a) = ClaimOf(a)
<1> SUFFICES ASSUME StakingInv, NEW a \in Accounts
             PROVE  ClaimableRewards(a) = ClaimOf(a)
  OBVIOUS
<1>1. StakingTypeOK /\ StartInv
  BY DEF StakingInv
<1>2. ClaimableRewards(a)
      = prevRewards[a] + (RewardFor(SinceLastLock(a), lockedBalances[a])
                          - RewardFor(PendingTime(a), lockedBalances[a]))
  BY <1>1, PendingIsPart, RewardsAreFor
<1>3. PendingTime(a) = Waiting(SinceLastLock(a))
  BY DEF PendingTime, Waiting
<1>4. /\ RewardFor(SinceLastLock(a), lockedBalances[a])
         = Reward(SinceLastLock(a), lockedBalances[a], rewardRate)
      /\ RewardFor(PendingTime(a), lockedBalances[a])
         = Reward(PendingTime(a), lockedBalances[a], rewardRate)
  BY DEF RewardFor, Reward
<1> QED
  BY <1>2, <1>3, <1>4 DEF ClaimOf, Claim

\* What a step leaves of a claim.
Kept(a) ==
  ClaimOf(a)' + (withdrawn'[a] - withdrawn[a])

\* A step after which the lock has no time that counts keeps what it saves.
LEMMA SavedIsKept ==
  ASSUME StakingInv, StakingInv', NEW a \in Accounts,
         \/ now' - lockedSince'[a] <= NO_REWARD_LOCK_PERIOD
         \/ lockedBalances'[a] = 0
  PROVE  Kept(a) = prevRewards'[a] + (withdrawn'[a] - withdrawn[a])
<1>1. /\ prevRewards'[a] \in Nat /\ lockedBalances'[a] \in Nat
      /\ rewardRate' \in Nat /\ now' - lockedSince'[a] \in Nat
  BY DEF StakingInv, StakingTypeOK, StartInv
<1>2. Claim(prevRewards'[a], now' - lockedSince'[a], lockedBalances'[a],
            rewardRate') = prevRewards'[a]
  BY <1>1, ClaimOfNew
<1>3. ClaimOf(a)' = prevRewards'[a]
  BY <1>2 DEF ClaimOf, SinceLastLock
<1> QED
  BY <1>3 DEF Kept

\* A step that does not touch the account.
LEMMA UntouchedIsKept ==
  ASSUME StakingInv, NEW a \in Accounts,
         prevRewards'[a] = prevRewards[a], lockedSince'[a] = lockedSince[a],
         lockedBalances'[a] = lockedBalances[a],
         withdrawn'[a] = withdrawn[a],
         UNCHANGED <<now, rewardRate>>
  PROVE  Kept(a) = ClaimableRewards(a)
<1>1. ClaimOf(a)' = ClaimOf(a)
  BY DEF ClaimOf, SinceLastLock
<1>2. ClaimableRewards(a) = ClaimOf(a) /\ ClaimableRewards(a) \in Nat
  BY ClaimableIsClaim, PendingIsPart DEF StakingInv
<1>3. withdrawn[a] \in Nat
  BY DEF StakingInv, StakingTypeOK
<1> QED
  BY <1>1, <1>2, <1>3 DEF Kept

LEMMA LockPoDKeeps ==
  ASSUME StakingInv, StakingInv', NEW b \in Accounts, NEW amount \in Amounts,
         LockPoD(b, amount), NEW a \in Accounts
  PROVE  Kept(a) = ClaimableRewards(a)
<1>1. amount \in Nat \ {0} /\ NO_REWARD_LOCK_PERIOD \in Nat
  BY PoDAssumption
<1> DEFINE worth == TimeWorth(PendingRewards(b), lockedBalances[b] + amount)
<1>2. /\ rewardRate # 0
      /\ prevRewards' = [prevRewards EXCEPT ![b] = ClaimableRewards(b)]
      /\ lockedSince' = [lockedSince EXCEPT ![b] = now - worth]
      /\ lockedBalances' = [lockedBalances EXCEPT ![b] =
                              lockedBalances[b] + amount]
      /\ UNCHANGED <<now, rewardRate, withdrawn, staked>>
  BY DEF LockPoD, SavedRewards
<1>3. worth \in Nat /\ worth <= NO_REWARD_LOCK_PERIOD
  BY <1>1, <1>2, NewStart
<1> HIDE DEF worth
<1>4. CASE a = b
  <2>1. /\ prevRewards'[a] = ClaimableRewards(a)
        /\ lockedSince'[a] = now - worth
    BY <1>2, <1>4 DEF StakingInv, StakingTypeOK
  <2>2. now' - lockedSince'[a] <= NO_REWARD_LOCK_PERIOD
    BY <1>2, <1>3, <2>1 DEF StakingInv, StakingTypeOK
  <2>3. Kept(a) = prevRewards'[a] + (withdrawn'[a] - withdrawn[a])
    BY <2>2, SavedIsKept
  <2>4. withdrawn'[a] - withdrawn[a] = 0 /\ ClaimableRewards(a) \in Nat
    BY <1>2, PendingIsPart DEF StakingInv, StakingTypeOK
  <2> QED
    BY <2>1, <2>3, <2>4
<1>5. CASE a # b
  <2>1. /\ prevRewards'[a] = prevRewards[a]
        /\ lockedSince'[a] = lockedSince[a]
        /\ lockedBalances'[a] = lockedBalances[a]
        /\ withdrawn'[a] = withdrawn[a]
    BY <1>2, <1>5 DEF StakingInv, StakingTypeOK
  <2> QED
    BY <1>2, <2>1, UntouchedIsKept
<1> QED
  BY <1>4, <1>5

LEMMA UnlockPoDKeeps ==
  ASSUME StakingInv, StakingInv', NEW b \in Accounts, NEW amount \in Amounts,
         UnlockPoD(b, amount), NEW a \in Accounts
  PROVE  Kept(a) = ClaimableRewards(a)
<1>1. amount \in Nat \ {0} /\ NO_REWARD_LOCK_PERIOD \in Nat
  BY PoDAssumption
<1> DEFINE left == lockedBalances[b] - amount
           start == IF left > 0 THEN now ELSE 0
<1>2. /\ left >= 0
      /\ prevRewards' = [prevRewards EXCEPT ![b] = ClaimableRewards(b)]
      /\ lockedSince' = [lockedSince EXCEPT ![b] = start]
      /\ lockedBalances' = [lockedBalances EXCEPT ![b] = left]
      /\ UNCHANGED <<now, rewardRate, withdrawn, staked>>
  BY DEF UnlockPoD, LockedAfter, SavedRewards
<1>3. left \in Nat /\ (left = 0 \/ start = now)
  BY <1>1, <1>2 DEF StakingInv, StakingTypeOK
<1> HIDE DEF left, start
<1>4. CASE a = b
  <2>1. /\ prevRewards'[a] = ClaimableRewards(a)
        /\ lockedSince'[a] = start
        /\ lockedBalances'[a] = left
    BY <1>2, <1>4 DEF StakingInv, StakingTypeOK
  <2>2. \/ now' - lockedSince'[a] <= NO_REWARD_LOCK_PERIOD
        \/ lockedBalances'[a] = 0
    BY <1>1, <1>2, <1>3, <2>1 DEF StakingInv, StakingTypeOK
  <2>3. Kept(a) = prevRewards'[a] + (withdrawn'[a] - withdrawn[a])
    BY <2>2, SavedIsKept
  <2>4. withdrawn'[a] - withdrawn[a] = 0 /\ ClaimableRewards(a) \in Nat
    BY <1>2, PendingIsPart DEF StakingInv, StakingTypeOK
  <2> QED
    BY <2>1, <2>3, <2>4
<1>5. CASE a # b
  <2>1. /\ prevRewards'[a] = prevRewards[a]
        /\ lockedSince'[a] = lockedSince[a]
        /\ lockedBalances'[a] = lockedBalances[a]
        /\ withdrawn'[a] = withdrawn[a]
    BY <1>2, <1>5 DEF StakingInv, StakingTypeOK
  <2> QED
    BY <1>2, <2>1, UntouchedIsKept
<1> QED
  BY <1>4, <1>5

LEMMA WithdrawRewardsKeeps ==
  ASSUME StakingInv, StakingInv', NEW b \in Accounts, NEW amount \in Amounts,
         WithdrawRewards(b, amount), NEW a \in Accounts
  PROVE  Kept(a) = ClaimableRewards(a)
<1>1. amount \in Nat \ {0} /\ NO_REWARD_LOCK_PERIOD \in Nat
  BY PoDAssumption
<1> DEFINE start == IF lockedSince[b] > 0 THEN now ELSE lockedSince[b]
           saved == ClaimableRewards(b) - amount
<1>2. /\ amount <= ClaimableRewards(b)
      /\ prevRewards' = [prevRewards EXCEPT ![b] = saved]
      /\ lockedSince' = [lockedSince EXCEPT ![b] = start]
      /\ withdrawn' = [withdrawn EXCEPT ![b] = @ + amount]
      /\ UNCHANGED <<now, lockedBalances, rewardRate, staked>>
  BY DEF WithdrawRewards
<1>3. start = now \/ lockedBalances[b] = 0
  BY DEF StakingInv, StakingTypeOK, StartInv
<1> HIDE DEF start
<1>4. CASE a = b
  <2>1. /\ prevRewards'[a] = saved
        /\ lockedSince'[a] = start
        /\ withdrawn'[a] = withdrawn[a] + amount
    BY <1>2, <1>4 DEF StakingInv, StakingTypeOK
  <2>2. \/ now' - lockedSince'[a] <= NO_REWARD_LOCK_PERIOD
        \/ lockedBalances'[a] = 0
    BY <1>1, <1>2, <1>3, <1>4, <2>1 DEF StakingInv, StakingTypeOK
  <2>3. Kept(a) = prevRewards'[a] + (withdrawn'[a] - withdrawn[a])
    BY <2>2, SavedIsKept
  <2>4. withdrawn[a] \in Nat /\ ClaimableRewards(a) \in Nat
    BY PendingIsPart DEF StakingInv, StakingTypeOK
  <2> QED
    BY <1>1, <1>4, <2>1, <2>3, <2>4
<1>5. CASE a # b
  <2>1. /\ prevRewards'[a] = prevRewards[a]
        /\ lockedSince'[a] = lockedSince[a]
        /\ lockedBalances'[a] = lockedBalances[a]
        /\ withdrawn'[a] = withdrawn[a]
    BY <1>2, <1>5 DEF StakingInv, StakingTypeOK
  <2> QED
    BY <1>2, <2>1, UntouchedIsKept
<1> QED
  BY <1>4, <1>5

LEMMA TickKeeps ==
  ASSUME StakingInv, Tick, NEW a \in Accounts
  PROVE  Kept(a) >= ClaimableRewards(a)
<1>1. /\ now' = now + 1
      /\ UNCHANGED <<lockedBalances, lockedSince, rewardRate, prevRewards,
                     withdrawn>>
  BY DEF Tick
<1>2. /\ prevRewards[a] \in Nat /\ lockedBalances[a] \in Nat
      /\ rewardRate \in Nat /\ SinceLastLock(a) \in Nat
      /\ withdrawn[a] \in Nat
  BY SinceIsNat DEF StakingInv, StakingTypeOK
<1>3. SinceLastLock(a)' = SinceLastLock(a) + 1
  BY <1>1 DEF SinceLastLock, StakingInv, StakingTypeOK
<1>4. ClaimOf(a)' = Claim(prevRewards[a], SinceLastLock(a) + 1,
                          lockedBalances[a], rewardRate)
  BY <1>1, <1>3 DEF ClaimOf
<1>5. ClaimOf(a)' >= ClaimOf(a)
  BY <1>2, <1>4, TimeKeepsClaim DEF ClaimOf
<1>6. ClaimOf(a)' \in Int
  <2>1. SinceLastLock(a) + 1 \in Nat /\ Waiting(SinceLastLock(a) + 1) \in Nat
    BY <1>2, WaitingIsPart
  <2>2. /\ Reward(SinceLastLock(a) + 1, lockedBalances[a], rewardRate) \in Nat
        /\ Reward(Waiting(SinceLastLock(a) + 1), lockedBalances[a], rewardRate)
           \in Nat
    BY <1>2, <2>1, RewardBounds
  <2> QED
    BY <1>2, <1>4, <2>2 DEF Claim
<1>7. Kept(a) = ClaimOf(a)'
  BY <1>1, <1>2, <1>6 DEF Kept
<1> QED
  BY <1>5, <1>7, ClaimableIsClaim

LEMMA SetRewardFactorKeeps ==
  ASSUME StakingInv, StakingInv', NEW rate \in Rates, SetRewardFactor(rate),
         NEW a \in Accounts
  PROVE  \/ rewardRate' < rewardRate
         \/ Kept(a) >= ClaimableRewards(a)
         \/ rewardRate' > rewardRate /\ Kept(a) >= ClaimableRewards(a) - 1
<1>1. UNCHANGED <<now, lockedBalances, lockedSince, prevRewards, withdrawn>>
  BY DEF SetRewardFactor
<1>2. /\ prevRewards[a] \in Nat /\ lockedBalances[a] \in Nat
      /\ rewardRate \in Nat /\ rewardRate' \in Nat /\ SinceLastLock(a) \in Nat
      /\ withdrawn[a] \in Nat
  BY SinceIsNat DEF StakingInv, StakingTypeOK
<1>3. ClaimOf(a)' = Claim(prevRewards[a], SinceLastLock(a),
                          lockedBalances[a], rewardRate')
  BY <1>1 DEF ClaimOf, SinceLastLock
<1>4. ClaimableRewards(a) = ClaimOf(a) /\ ClaimableRewards(a) \in Nat
  BY ClaimableIsClaim, PendingIsPart DEF StakingInv
<1>5. CASE rewardRate' = rewardRate
  <2>1. ClaimOf(a)' = ClaimOf(a)
    BY <1>3, <1>5 DEF ClaimOf
  <2> QED
    BY <1>1, <1>2, <1>4, <2>1 DEF Kept
<1>6. CASE rewardRate' > rewardRate
  <2>1. ClaimOf(a)' >= ClaimOf(a) - 1
    BY <1>2, <1>3, <1>6, RateKeepsClaim DEF ClaimOf
  <2>2. ClaimOf(a)' \in Int
    <3>1. Waiting(SinceLastLock(a)) \in Nat
      BY <1>2, WaitingIsPart
    <3>2. /\ Reward(SinceLastLock(a), lockedBalances[a], rewardRate') \in Nat
          /\ Reward(Waiting(SinceLastLock(a)), lockedBalances[a], rewardRate')
             \in Nat
      BY <1>2, <3>1, RewardBounds
    <3> QED
      BY <1>2, <1>3, <3>2 DEF Claim
  <2>3. Kept(a) = ClaimOf(a)'
    BY <1>1, <1>2, <2>2 DEF Kept
  <2> QED
    BY <1>4, <1>6, <2>1, <2>3
<1> QED
  BY <1>2, <1>5, <1>6

\* A claim can only be lost to a change of the rate.
LEMMA StepKeeps ==
  ASSUME StakingInv, StakingInv', [Next]_vars, NEW a \in Accounts
  PROVE  \/ rewardRate' < rewardRate
         \/ Kept(a) >= ClaimableRewards(a)
         \/ rewardRate' > rewardRate /\ Kept(a) >= ClaimableRewards(a) - 1
<1>1. ClaimableRewards(a) \in Nat
  BY PendingIsPart DEF StakingInv
<1>2. ASSUME UNCHANGED <<now, lockedBalances, lockedSince, rewardRate,
                         prevRewards, withdrawn>>
      PROVE  Kept(a) >= ClaimableRewards(a)
  BY <1>1, <1>2, UntouchedIsKept
<1>3. ASSUME NEW b \in Accounts, NEW amount \in Amounts,
             \/ Mint(b, amount)
             \/ \E to \in (Accounts \union {PoD}) \ {b} :
                  Transfer(b, to, amount)
             \/ LockPoD(b, amount)
             \/ UnlockPoD(b, amount)
             \/ WithdrawRewards(b, amount)
      PROVE  Kept(a) >= ClaimableRewards(a)
  <2>1. CASE Mint(b, amount)
    BY <1>2, <2>1 DEF Mint
  <2>2. ASSUME NEW to \in (Accounts \union {PoD}) \ {b},
               Transfer(b, to, amount)
        PROVE  Kept(a) >= ClaimableRewards(a)
    BY <1>2, <2>2 DEF Transfer
  <2>3. CASE LockPoD(b, amount)
    BY <1>1, <2>3, LockPoDKeeps
  <2>4. CASE UnlockPoD(b, amount)
    BY <1>1, <2>4, UnlockPoDKeeps
  <2>5. CASE WithdrawRewards(b, amount)
    BY <1>1, <2>5, WithdrawRewardsKeeps
  <2> QED
    BY <1>3, <2>1, <2>2, <2>3, <2>4, <2>5
<1>4. CASE \E rate \in Rates : SetRewardFactor(rate)
  BY <1>4, SetRewardFactorKeeps
<1>5. CASE Tick
  BY <1>5, TickKeeps
<1>6. CASE UNCHANGED vars
  BY <1>2, <1>6 DEF vars
<1> QED
  BY <1>3, <1>4, <1>5, <1>6 DEF Next

\* A reward that is claimable stays claimable until it is withdrawn, whatever
\* is locked or unlocked (lockPoD, unlockPoD, withdrawRewards): only a lower
\* rate takes more than one unit of it away, and only a change of the rate
\* takes any.
THEOREM ClaimsAlwaysStay == Spec => ClaimsStay
<1> DEFINE Stays ==
      \A a \in Accounts :
       ClaimableRewards(a)' + (withdrawn'[a] - withdrawn[a])
           < ClaimableRewards(a)
         => \/ rewardRate' < rewardRate
            \/ /\ rewardRate' > rewardRate
               /\ ClaimableRewards(a)' = ClaimableRewards(a) - 1
<1>1. (StakingInv => \A a \in Accounts : ClaimableRewards(a) = ClaimOf(a))'
  BY ClaimableIsClaim, PTL
<1>2. StakingInv => \A a \in Accounts : ClaimableRewards(a) \in Nat
  BY PendingIsPart DEF StakingInv
<1>3. (StakingInv => \A a \in Accounts : ClaimableRewards(a) \in Nat)'
  BY <1>2, PTL
<1>4. StakingInv /\ StakingInv' /\ [Next]_vars => [Stays]_vars
  <2> SUFFICES ASSUME StakingInv, StakingInv', [Next]_vars, NEW a \in Accounts,
                      ClaimableRewards(a)' + (withdrawn'[a] - withdrawn[a])
                        < ClaimableRewards(a)
               PROVE  \/ rewardRate' < rewardRate
                      \/ /\ rewardRate' > rewardRate
                         /\ ClaimableRewards(a)' = ClaimableRewards(a) - 1
    OBVIOUS
  <2>1. ClaimableRewards(a)' = ClaimOf(a)'
    BY <1>1
  <2>2. ClaimableRewards(a)' \in Nat /\ ClaimableRewards(a) \in Nat
    BY <1>2, <1>3
  <2>3. Kept(a) = ClaimableRewards(a)' + (withdrawn'[a] - withdrawn[a])
    BY <2>1 DEF Kept
  <2>4. withdrawn[a] \in Nat /\ withdrawn'[a] \in Nat
    BY DEF StakingInv, StakingTypeOK
  <2>5. rewardRate' # rewardRate => withdrawn' = withdrawn
    BY DEF Next, Mint, Transfer, SetRewardFactor, LockPoD, UnlockPoD,
           WithdrawRewards, Tick, vars
  <2>6. rewardRate \in Nat /\ rewardRate' \in Nat
    BY DEF StakingInv, StakingTypeOK
  <2>7. \/ rewardRate' < rewardRate
        \/ Kept(a) >= ClaimableRewards(a)
        \/ rewardRate' > rewardRate /\ Kept(a) >= ClaimableRewards(a) - 1
    BY StepKeeps
  <2> QED
    BY <2>2, <2>3, <2>4, <2>5, <2>6, <2>7
<1>5. Spec => [][Stays]_vars
  BY <1>4, StakingInvHolds, PTL DEF Spec
<1> QED
  BY <1>5 DEF ClaimsStay

=============================================================================
