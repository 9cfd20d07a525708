----------------------------- MODULE PoDStaking -----------------------------
(***************************************************************************)
(* The PoD token (PoDUpgradeable.sol): an ERC20 token that the minter      *)
(* gives to depositors, that its holders can lock in the token contract,   *)
(* and that is minted again as the reward for what is locked.              *)
(*                                                                         *)
(* A reward grows with the time since the start of the lock.  Up to a      *)
(* first period all of it is pending, up to a second one the part for that *)
(* first period is, and what is pending is not claimable.  Locking more    *)
(* turns the pending part into an earlier start of the larger lock.  All   *)
(* of this is computed with the reward rate at the time of the call.       *)
(***************************************************************************)
EXTENDS Integers, FiniteSetsExt

CONSTANTS
  Accounts,
  PoD,                      \* the address of the token contract
  NO_REWARD_LOCK_PERIOD,
  LESS_REWARD_LOCK_PERIOD,
  SCALE,                    \* the 1e12 of the rate
  Rates,                    \* the rates that the owner sets
  Amounts,                  \* the amounts that calls name
  MaxSupply,                \* bound on what the minter mints
  MaxTime                   \* bound on block time

ASSUME PoDAssumption ==
  /\ PoD \notin Accounts
  /\ NO_REWARD_LOCK_PERIOD \in Nat /\ LESS_REWARD_LOCK_PERIOD \in Nat
  /\ NO_REWARD_LOCK_PERIOD < LESS_REWARD_LOCK_PERIOD
  /\ SCALE \in Nat \ {0}
  /\ IsFiniteSet(Accounts)
  /\ Rates \subseteq Nat /\ Rates # {} /\ IsFiniteSet(Rates)
  /\ Amounts \subseteq Nat \ {0}
  /\ MaxSupply \in Nat /\ MaxTime \in Nat

VARIABLES
  now,
  balances,             \* _balances of the ERC20 token
  lockedBalances,
  lockedSince,
  rewardRate,           \* _rewardRatePerSecTimes1e12
  prevRewards

\* History, of no use to the contract: the rewards paid to an account, the
\* sum over time of what it had locked, and what the minter has minted.
VARIABLES withdrawn, staked, minted

vars == <<now, balances, lockedBalances, lockedSince, rewardRate, prevRewards,
          withdrawn, staked, minted>>

Init ==
  /\ now = 1
  /\ balances = [a \in Accounts \union {PoD} |-> 0]
  /\ lockedBalances = [a \in Accounts |-> 0]
  /\ lockedSince = [a \in Accounts |-> 0]
  /\ rewardRate = 0
  /\ prevRewards = [a \in Accounts |-> 0]
  /\ withdrawn = [a \in Accounts |-> 0]
  /\ staked = [a \in Accounts |-> 0]
  /\ minted = 0

-----------------------------------------------------------------------------
\* Rewards

SinceLastLock(a) == now - lockedSince[a]

RewardFor(time, amount) == (time * amount * rewardRate) \div SCALE

RewardsForCurrentLock(a) == RewardFor(SinceLastLock(a), lockedBalances[a])

TotalRewards(a) ==
  IF lockedBalances[a] = 0 THEN prevRewards[a]
  ELSE prevRewards[a] + RewardsForCurrentLock(a)

PendingRewards(a) ==
  IF lockedBalances[a] = 0 \/ SinceLastLock(a) > LESS_REWARD_LOCK_PERIOD THEN 0
  ELSE IF SinceLastLock(a) > NO_REWARD_LOCK_PERIOD
  THEN RewardFor(NO_REWARD_LOCK_PERIOD, lockedBalances[a])
  ELSE RewardsForCurrentLock(a)

ClaimableRewards(a) == TotalRewards(a) - PendingRewards(a)

\* What lockPoD and unlockPoD write to _prevRewards; and variants that save
\* the pending part as well, or nothing.
TotalSaved(a) == TotalRewards(a)
NothingSaved(a) == prevRewards[a]
SavedRewards(a) == ClaimableRewards(a)

\* pending * 1e12 / rate / newLockedBalance: a division by zero reverts.
TimeWorth(pending, amount) == ((pending * SCALE) \div rewardRate) \div amount

-----------------------------------------------------------------------------
\* Calls

Moved(from, to, amount) ==
  [balances EXCEPT ![from] = @ - amount, ![to] = @ + amount]

Mint(a, amount) ==
  /\ minted + amount <= MaxSupply
  /\ minted' = minted + amount
  /\ balances' = [balances EXCEPT ![a] = @ + amount]
  /\ UNCHANGED <<now, lockedBalances, lockedSince, rewardRate, prevRewards,
                 withdrawn, staked>>

\* Also transferFrom, for which the Meson contract needs no approval.  The
\* contract PoD does not call itself, and nobody can sign a swap for it.
Transfer(from, to, amount) ==
  /\ balances[from] >= amount
  /\ balances' = Moved(from, to, amount)
  /\ UNCHANGED <<now, lockedBalances, lockedSince, rewardRate, prevRewards,
                 withdrawn, staked, minted>>

SetRewardFactor(rate) ==
  /\ rewardRate' = rate
  /\ UNCHANGED <<now, balances, lockedBalances, lockedSince, prevRewards,
                 withdrawn, staked, minted>>

LockPoD(a, amount) ==
  LET newLockedBalance == lockedBalances[a] + amount
  IN  /\ rewardRate # 0
      /\ balances[a] >= amount
      /\ prevRewards' = [prevRewards EXCEPT ![a] = SavedRewards(a)]
      /\ lockedSince' =
           [lockedSince EXCEPT ![a] =
              now - TimeWorth(PendingRewards(a), newLockedBalance)]
      /\ lockedBalances' = [lockedBalances EXCEPT ![a] = newLockedBalance]
      /\ balances' = Moved(a, PoD, amount)
      /\ UNCHANGED <<now, rewardRate, withdrawn, staked, minted>>

\* What stays locked; and a variant that does not reduce it.
LockedAsBefore(a, amount) == lockedBalances[a]
LockedAfter(a, amount) == lockedBalances[a] - amount

UnlockPoD(a, amount) ==
  LET newLockedBalance == LockedAfter(a, amount)
  IN  /\ newLockedBalance >= 0
      /\ balances[PoD] >= amount
      /\ prevRewards' = [prevRewards EXCEPT ![a] = SavedRewards(a)]
      /\ lockedSince' = [lockedSince EXCEPT ![a] =
                           IF newLockedBalance > 0 THEN now ELSE 0]
      /\ lockedBalances' = [lockedBalances EXCEPT ![a] = newLockedBalance]
      /\ balances' = Moved(PoD, a, amount)
      /\ UNCHANGED <<now, rewardRate, withdrawn, staked, minted>>

WithdrawRewards(a, amount) ==
  /\ amount <= ClaimableRewards(a)
  /\ prevRewards' = [prevRewards EXCEPT ![a] = ClaimableRewards(a) - amount]
  /\ lockedSince' = [lockedSince EXCEPT ![a] = IF @ > 0 THEN now ELSE @]
  /\ balances' = [balances EXCEPT ![a] = @ + amount]
  /\ withdrawn' = [withdrawn EXCEPT ![a] = @ + amount]
  /\ UNCHANGED <<now, lockedBalances, rewardRate, staked, minted>>

Tick ==
  /\ now < MaxTime
  /\ now' = now + 1
  /\ staked' = [a \in Accounts |-> staked[a] + lockedBalances[a]]
  /\ UNCHANGED <<balances, lockedBalances, lockedSince, rewardRate,
                 prevRewards, withdrawn, minted>>

Next ==
  \/ \E a \in Accounts, amount \in Amounts :
       \/ Mint(a, amount)
       \/ \E to \in (Accounts \union {PoD}) \ {a} : Transfer(a, to, amount)
       \/ LockPoD(a, amount)
       \/ UnlockPoD(a, amount)
       \/ WithdrawRewards(a, amount)
  \/ \E rate \in Rates : SetRewardFactor(rate)
  \/ Tick

Spec == Init /\ [][Next]_vars

-----------------------------------------------------------------------------
\* Properties

\* Everything that is locked can be unlocked: the contract holds the sum of
\* all locked balances, whatever rewards were minted in between.
LockedIsBacked ==
  balances[PoD] >= MapThenSumSet(LAMBDA a : lockedBalances[a], Accounts)

\* No time is rewarded twice: what an account was paid and what it has a claim
\* to is at most the highest rate on what it had locked for as long as it was,
\* although locking more moves the start of a lock back, and a change of the
\* rate also changes the reward for the time before it.
RewardsAreEarned ==
  \A a \in Accounts :
    SCALE * (withdrawn[a] + TotalRewards(a)) <= Max(Rates) * staked[a]

\* A reward that is claimable stays claimable until it is withdrawn: neither
\* time nor locking nor unlocking takes any of it away.  Only the owner can:
\* by lowering the rate; and by raising it, but then at most the one unit that
\* rounding costs, because past the first period what is claimable is the
\* difference of two rewards that are each rounded down.
ClaimsStay ==
  [][\A a \in Accounts :
       ClaimableRewards(a)' + (withdrawn'[a] - withdrawn[a])
           < ClaimableRewards(a)
         => \/ rewardRate' < rewardRate
            \/ /\ rewardRate' > rewardRate
               /\ ClaimableRewards(a)' = ClaimableRewards(a) - 1]_vars

=============================================================================
