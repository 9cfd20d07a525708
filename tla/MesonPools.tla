----------------------------- MODULE MesonPools -----------------------------
(***************************************************************************)
(* Liquidity pools and the target-chain side of a swap: a pool member      *)
(* locks the pool's tokens for a swap, which then are released to the      *)
(* recipient against the initiator's release signature, or unlocked and    *)
(* returned to the pool once the lock time is over.                        *)
(***************************************************************************)
EXTENDS MesonStates

CONSTANTS
  LOCK_TIME_PERIOD,
  LOCK_MARGIN,          \* the `5 minutes` of lockSwap
  Amounts,              \* the amounts that deposits and withdrawals name
  Members               \* the addresses that pool owners authorize

ASSUME LockTimeAssumption ==
  /\ LOCK_TIME_PERIOD \in Nat \ {0}
  /\ LOCK_MARGIN \in Nat
  /\ Amounts \subseteq Nat
  /\ Members \subseteq Address

VARIABLE lockedSwaps

poolsVars == lockedSwaps

\* The word until|poolIndex.  The word 0 means that there is no such lock, and
\* the word 1 is the permanent marker of a released swap.
LockedSwap == [until : Nat, poolIndex : PoolIndices]
NotLocked == [until |-> 0, poolIndex |-> 0]
Released == [until |-> 0, poolIndex |-> 1]

\* lockedSwap > 1
Locked(locked) == locked \notin {NotLocked, Released}

\* _getSwapId: the hash of the encoded swap with its initiator.
SwapId == Swaps \X Initiators

PoolsTypeOK == lockedSwaps \in [SwapId -> LockedSwap]

PoolsInit == lockedSwaps = [id \in SwapId |-> NotLocked]

-----------------------------------------------------------------------------
\* The pool registry

DepositAndRegister(caller, amount, i, p) ==
  /\ amount > 0
  /\ p # 0
  /\ ownerOfPool[p] = ZeroAddress
  /\ poolOfAuthorizedAddr[caller] = 0
  /\ ownerOfPool' = [ownerOfPool EXCEPT ![p] = caller]
  /\ poolOfAuthorizedAddr' = [poolOfAuthorizedAddr EXCEPT ![caller] = p]
  /\ balanceOfPoolToken' = Credited(balanceOfPoolToken, i, p, amount)
  /\ DepositToken(caller, caller, i, amount)
  /\ UNCHANGED <<envVars, tokenVars, lockedSwaps>>

Deposit(caller, amount, i, p) ==
  /\ amount > 0
  /\ p # 0
  /\ p = poolOfAuthorizedAddr[caller]
  /\ balanceOfPoolToken' = Credited(balanceOfPoolToken, i, p, amount)
  /\ DepositToken(caller, caller, i, amount)
  /\ UNCHANGED <<envVars, tokenVars, registryVars, lockedSwaps>>

Withdraw(caller, amount, i, p) ==
  /\ amount > 0
  /\ p # 0
  /\ ownerOfPool[p] = caller
  /\ Covers(balanceOfPoolToken, i, p, amount)
  /\ balanceOfPoolToken' = Debited(balanceOfPoolToken, i, p, amount)
  /\ CanTransfer(ledger, i, caller, amount)
  /\ ledger' = Transferred(ledger, i, caller, amount)
  /\ UNCHANGED <<envVars, tokenVars, registryVars, lockedSwaps>>

\* A variant lets every member manage the pool.
ServesAPool(caller) == poolOfAuthorizedAddr[caller] # 0

\* The caller manages the pool it is authorized for, as that pool's owner.
ManagesItsPool(caller) ==
  /\ poolOfAuthorizedAddr[caller] # 0
  /\ ownerOfPool[poolOfAuthorizedAddr[caller]] = caller

\* A variant does not ask for membership.
AnyAddr(caller, addr) == TRUE

SamePool(caller, addr) ==
  poolOfAuthorizedAddr[addr] = poolOfAuthorizedAddr[caller]

AddAuthorizedAddr(caller, addr) ==
  /\ poolOfAuthorizedAddr[addr] = 0
  /\ ManagesItsPool(caller)
  /\ poolOfAuthorizedAddr' =
       [poolOfAuthorizedAddr EXCEPT ![addr] = poolOfAuthorizedAddr[caller]]
  /\ UNCHANGED <<envVars, ledger, tokenVars, ownerOfPool, balanceOfPoolToken,
                 lockedSwaps>>

RemoveAuthorizedAddr(caller, addr) ==
  /\ ManagesItsPool(caller)
  /\ SamePool(caller, addr)
  /\ poolOfAuthorizedAddr' = [poolOfAuthorizedAddr EXCEPT ![addr] = 0]
  /\ UNCHANGED <<envVars, ledger, tokenVars, ownerOfPool, balanceOfPoolToken,
                 lockedSwaps>>

TransferPoolOwner(caller, addr) ==
  /\ ManagesItsPool(caller)
  /\ SamePool(caller, addr)
  /\ ownerOfPool' = [ownerOfPool EXCEPT ![poolOfAuthorizedAddr[caller]] = addr]
  /\ UNCHANGED <<envVars, ledger, tokenVars, poolOfAuthorizedAddr,
                 balanceOfPoolToken, lockedSwaps>>

-----------------------------------------------------------------------------
\* Locking.  The core tokens of a swap come from whatever index address(1) is
\* registered under when the handler runs.

CoreIndex == indexOfToken[CoreToken]

\* A variant forgets the marker of a released swap.
NotLockedNow(id) == ~Locked(lockedSwaps[id])
NeverReleased(id) == lockedSwaps[id] = NotLocked

\* A variant leaves no time between the end of the lock and expireTs.
LockDeadlineWithoutMargin(s) == now + LOCK_TIME_PERIOD < s.expireTs
LockDeadlineOK(s) == now + LOCK_TIME_PERIOD < s.expireTs - LOCK_MARGIN

LockSwap(caller, s, initiator) ==
  LET p == poolOfAuthorizedAddr[caller]
      b == Debited(balanceOfPoolToken, s.outToken, p, AmountToLock(s))
  IN  /\ s.outChain = SHORT_COIN_TYPE
      /\ NeverReleased(<<s, initiator>>)
      /\ p # 0
      /\ LockDeadlineOK(s)
      /\ AmountToLock(s) >= 0
      /\ Covers(balanceOfPoolToken, s.outToken, p, AmountToLock(s))
      /\ Covers(b, CoreIndex, p, s.coreAmount)
      /\ balanceOfPoolToken' = Debited(b, CoreIndex, p, s.coreAmount)
      /\ lockedSwaps' =
           [lockedSwaps EXCEPT ![<<s, initiator>>] =
              [until |-> now + LOCK_TIME_PERIOD, poolIndex |-> p]]
      /\ UNCHANGED <<envVars, ledger, tokenVars, registryVars>>

\* A variant unlocks at the last instant of the lock time already.
UnlockableAtUntil(locked, time) == locked.until <= time
UnlockableAt(locked, time) == locked.until < time

\* Anyone can call this once the lock time is over.
Unlock(s, initiator) ==
  LET locked == lockedSwaps[<<s, initiator>>]
      b == Credited(balanceOfPoolToken, s.outToken, locked.poolIndex,
                    AmountToLock(s))
  IN  /\ Locked(locked)
      /\ UnlockableAt(locked, now)
      /\ AmountToLock(s) >= 0
      /\ balanceOfPoolToken' =
           Credited(b, CoreIndex, locked.poolIndex, s.coreAmount)
      /\ lockedSwaps' = [lockedSwaps EXCEPT ![<<s, initiator>>] = NotLocked]
      /\ UNCHANGED <<envVars, ledger, tokenVars, registryVars>>

-----------------------------------------------------------------------------
\* Releasing

\* _release: a contract recipient is handed the tokens even when there are
\* none; a plain recipient is only paid a positive amount.
CanRelease(l, s, recipient, amount) ==
  /\ s.toContract => recipient \in Contracts
  /\ s.toContract \/ amount > 0 => CanTransfer(l, s.outToken, recipient, amount)

ReleasedTo(l, s, recipient, amount) ==
  IF s.toContract \/ amount > 0
  THEN Transferred(l, s.outToken, recipient, amount)
  ELSE l

\* Pays the core tokens, if any, and then the release amount.
PayRecipient(s, recipient) ==
  LET l == Moved(ledger, CoreToken, Meson, recipient, s.coreAmount)
  IN  /\ ledger[<<CoreToken, Meson>>] >= s.coreAmount
      /\ CanRelease(l, s, recipient, ReleaseAmount(s))
      /\ ledger' = ReleasedTo(l, s, recipient, ReleaseAmount(s))

\* The service fee goes to pool 0 and the share to the partner's pool.  The
\* subtractions are checked, so too small an amount makes the call revert.
CanTakeFees(s) == ReleaseAmount(s) >= 0

\* A variant credits the service fee of a fee-waived swap.
FeesAlwaysTaken(b, s) ==
  Credited(Credited(b, s.outToken, 0, ServiceFee(s)),
           s.outToken, s.poolToShare, s.share)

FeesTaken(b, s) ==
  Credited(Credited(b, s.outToken, 0, ServiceFeeCharged(s)),
           s.outToken, s.poolToShare, s.share)

\* A variant is off by one at the boundary.
ReleasableAtExpiry(s) == s.expireTs >= now
Releasable(s) == s.expireTs > now

\* Guarded by the expiry of the swap, and not by `until` of the lock.  The
\* manager is the premium manager, which MesonManager keeps.
Release(caller, manager, s, initiator, recipient) ==
  /\ caller \notin Contracts
  /\ Releasable(s)
  /\ recipient # ZeroAddress
  /\ s.feeWaived => caller = manager
  /\ Locked(lockedSwaps[<<s, initiator>>])
  /\ Signed("release", s, recipient, initiator)
  /\ lockedSwaps' = [lockedSwaps EXCEPT ![<<s, initiator>>] = Released]
  /\ AmountToLock(s) >= 0
  /\ CanTakeFees(s)
  /\ balanceOfPoolToken' = FeesTaken(balanceOfPoolToken, s)
  /\ PayRecipient(s, recipient)
  /\ UNCHANGED <<envVars, tokenVars, registryVars>>

\* With the release signature before the swap expires, or without it at any
\* time if the premium manager calls; and a variant that lets anyone call.
AnyoneMayReleaseDirectly(caller, manager, s, initiator, recipient, withSig) ==
  withSig => Releasable(s) /\ Signed("release", s, recipient, initiator)

MayReleaseDirectly(caller, manager, s, initiator, recipient, withSig) ==
  IF withSig
  THEN Releasable(s) /\ Signed("release", s, recipient, initiator)
  ELSE caller = manager

\* A pool pays without locking first.
DirectRelease(caller, manager, s, initiator, recipient, withSig) ==
  LET p == poolOfAuthorizedAddr[caller]
      b == Debited(balanceOfPoolToken, s.outToken, p, AmountToLock(s))
      c == FeesTaken(b, s)
  IN  /\ s.outChain = SHORT_COIN_TYPE
      /\ caller \notin Contracts
      /\ recipient # ZeroAddress
      /\ s.feeWaived => caller = manager
      /\ NeverReleased(<<s, initiator>>)
      /\ p # 0
      /\ MayReleaseDirectly(caller, manager, s, initiator, recipient, withSig)
      /\ lockedSwaps' = [lockedSwaps EXCEPT ![<<s, initiator>>] = Released]
      /\ AmountToLock(s) >= 0
      /\ Covers(balanceOfPoolToken, s.outToken, p, AmountToLock(s))
      /\ CanTakeFees(s)
      /\ Covers(c, CoreIndex, p, s.coreAmount)
      /\ balanceOfPoolToken' = Debited(c, CoreIndex, p, s.coreAmount)
      /\ PayRecipient(s, recipient)
      /\ UNCHANGED <<envVars, tokenVars, registryVars>>

PoolsNext(manager) ==
  \E caller \in Accounts :
    \/ \E amount \in Amounts, i \in TokenIndex, p \in PoolIndices :
         \/ DepositAndRegister(caller, amount, i, p)
         \/ Deposit(caller, amount, i, p)
         \/ Withdraw(caller, amount, i, p)
    \/ \E addr \in Members :
         \/ AddAuthorizedAddr(caller, addr)
         \/ RemoveAuthorizedAddr(caller, addr)
         \/ TransferPoolOwner(caller, addr)
    \/ \E s \in Swaps, initiator \in Initiators :
         \/ LockSwap(caller, s, initiator)
         \/ Unlock(s, initiator)
         \/ \E recipient \in Recipients :
              \/ Release(caller, manager, s, initiator, recipient)
              \/ \E withSig \in BOOLEAN :
                   DirectRelease(caller, manager, s, initiator, recipient,
                                 withSig)

=============================================================================
