--------------------------- MODULE MesonProperties ---------------------------
(***************************************************************************)
(* The safety properties of a deployed Meson contract.                     *)
(***************************************************************************)
EXTENDS MesonManager

-----------------------------------------------------------------------------
\* The two sides implement their abstract specifications.

\* A request that is not posted is closed once it is too late to post it.
RequestStage(s) ==
  IF Pending(postedSwaps[s]) THEN "held"
  ELSE IF postedSwaps[s] = Executed \/ s.expireTs - now <= MIN_BOND_TIME_PERIOD
  THEN "closed" ELSE "open"

RequestBond(s) ==
  IF Pending(postedSwaps[s]) THEN postedSwaps[s].poolIndex ELSE 0

Posted == INSTANCE PostedEscrow WITH
  Requests <- Swaps,
  Pools <- PoolIndices,
  NoPool <- 0,
  stage <- [s \in Swaps |-> RequestStage(s)],
  bond <- [s \in Swaps |-> RequestBond(s)]

LockStage(id) ==
  IF Locked(lockedSwaps[id]) THEN "locked"
  ELSE IF lockedSwaps[id] = Released THEN "released" ELSE "free"

LockEscrow == INSTANCE LockedEscrow WITH
  Locks <- SwapId,
  Pools <- PoolIndices,
  LockTime <- LOCK_TIME_PERIOD,
  Expiry <- [id \in SwapId |-> id[1].expireTs],
  time <- now,
  stage <- [id \in SwapId |-> LockStage(id)],
  until <- [id \in SwapId |->
              IF Locked(lockedSwaps[id]) THEN lockedSwaps[id].until ELSE 0],
  pool <- [id \in SwapId |->
             IF Locked(lockedSwaps[id]) THEN lockedSwaps[id].poolIndex ELSE 0]

\* An encoded swap takes a deposit of its initiator at most once: executeSwap
\* may drop its record instead of marking it, cancelSwap always drops it, and
\* neither lets the same signed request be posted again.  A bond never moves.
RequestsAreUsedOnce == Posted!Spec

\* A lock lasts for the lock time, is given back to the pool only after it,
\* is paid out only before the swap expires, and at most once for each swap
\* and initiator, however often it is unlocked and locked again.
LocksAreReleasedOnce == LockEscrow!Spec

-----------------------------------------------------------------------------
\* What happens to the money

\* Nobody gains of a token that is not listed.
Gain(token, a) ==
  IF token \in Tokens THEN ledger'[<<token, a>>] - ledger[<<token, a>>] ELSE 0

PoolGain(i, p) == balanceOfPoolToken'[<<i, p>>] - balanceOfPoolToken[<<i, p>>]

PaidToPool(s) ==
  LET p == postedSwaps[s].poolIndex
  IN  /\ \E r \in Address : Signed("release", s, r, postedSwaps[s].initiator)
      /\ \/ PoolGain(s.inToken, p) = s.amount /\ UNCHANGED ledger
         \/ ownerOfPool[p] = Meson
         \/ Gain(TokenAt(s.inToken), ownerOfPool[p]) = s.amount

PaidBack(s) ==
  /\ s.expireTs < now
  /\ \E a \in Address :
       /\ \/ a = postedSwaps[s].initiator
          \/ Signed("plain", s, a, postedSwaps[s].initiator)
       /\ a # Meson => Gain(TokenAt(s.inToken), a) = s.amount

\* A deposit only leaves its escrow in full and to one party: to the bonded
\* pool or that pool's owner, and then the initiator has signed the release;
\* or to the initiator or a recipient the initiator signed for, and then the
\* swap has expired.
DepositsAreSettled ==
  [][\A s \in Swaps :
       Pending(postedSwaps[s]) /\ ~Pending(postedSwaps'[s])
         => PaidToPool(s) \/ PaidBack(s)]_vars

\* The recipient r is sent the release amount and the core tokens of s.
Received(s, r) ==
  r # Meson =>
    \A t \in Tokens :
      Gain(t, r) = (IF t = TokenAt(s.outToken) THEN ReleaseAmount(s) ELSE 0)
                   + (IF t = CoreToken THEN s.coreAmount ELSE 0)

\* What a pool locks or pays for s in tokens of index i.
Covered(s, i) ==
  (IF i = s.outToken THEN AmountToLock(s) ELSE 0)
  + (IF i = CoreIndex THEN s.coreAmount ELSE 0)

PaidOut(s, initiator) ==
  /\ now < s.expireTs
  /\ lockedSwaps'[<<s, initiator>>] = Released
  /\ \E r \in Address :
       Signed("release", s, r, initiator) /\ Received(s, r)

GivenBack(s, initiator) ==
  LET locked == lockedSwaps[<<s, initiator>>]
  IN  /\ locked.until < now
      /\ \A i \in TokenIndex :
           PoolGain(i, locked.poolIndex) = Covered(s, i)
      /\ UNCHANGED ledger

\* Locked tokens go, in full, either to a recipient the initiator has signed
\* for before the swap expires, or back to the pool after the lock time.
LocksAreSettled ==
  [][\A s \in Swaps, initiator \in Initiators :
       Locked(lockedSwaps[<<s, initiator>>])
       /\ ~Locked(lockedSwaps'[<<s, initiator>>])
         => PaidOut(s, initiator) \/ GivenBack(s, initiator)]_vars

\* A swap that is released without a lock is paid by one pool, which bears the
\* whole amount and the core tokens: on the initiator's signature before the
\* swap expires, or else a pool that the premium manager is authorized for.
DirectReleasesAreCovered ==
  [][\A s \in Swaps, initiator \in Initiators :
       lockedSwaps[<<s, initiator>>] = NotLocked
       /\ lockedSwaps'[<<s, initiator>>] = Released
         => \E p \in PoolIndices \ {0}, r \in Address :
              /\ \A i \in TokenIndex :
                   PoolGain(i, p) = (IF i = s.outToken /\ p = s.poolToShare
                                     THEN s.share ELSE 0) - Covered(s, i)
              /\ Received(s, r)
              /\ \/ now < s.expireTs /\ Signed("release", s, r, initiator)
                 \/ poolOfAuthorizedAddr[premiumManager] = p]_vars

\* "Currently, no one is capable to withdraw fund from pool 0", says release of
\* MesonPools.sol; withdrawServiceFee is.  Of the comment this much is so: no call
\* about a swap, a deposit or a member of a pool takes service fees, and none pays
\* them out of the contract; they go to one pool that has an owner, in full.
FeesStayInPools ==
  [][\A i \in TokenIndex :
       PoolGain(i, 0) < 0
         => /\ UNCHANGED <<ledger, postedSwaps, lockedSwaps, registryVars>>
            /\ \E p \in PoolIndices \ {0} :
                 /\ ownerOfPool[p] # ZeroAddress /\ PoolGain(i, p) = -PoolGain(i, 0)
                 /\ \A q \in PoolIndices \ {0, p} : PoolGain(i, q) = 0
    ]_vars

-----------------------------------------------------------------------------
\* The registries

\* A pool with authorized addresses has an owner, unless its owner authorized
\* the zero address and gave the pool to it: authorization outlives neither
\* the transfer of the pool nor the owner removing its own authorization.
MembersHaveOwner ==
  \A a \in Address :
    LET p == poolOfAuthorizedAddr[a]
    IN  p # 0 /\ ownerOfPool[p] = ZeroAddress
          => poolOfAuthorizedAddr[ZeroAddress] = p

\* An owner that removed its own authorization has left the pool for good: it
\* stays the owner and can withdraw, but from then on neither the owner nor
\* the members of that pool ever change, and it can own a second pool.
LeftPoolIsFrozen ==
  [][\A p \in PoolIndices :
       ownerOfPool[p] # ZeroAddress /\ poolOfAuthorizedAddr[ownerOfPool[p]] # p
         => /\ ownerOfPool'[p] = ownerOfPool[p]
            /\ \A a \in Address : (poolOfAuthorizedAddr'[a] = p)
                                   <=> (poolOfAuthorizedAddr[a] = p)]_vars

\* The two token mappings are inverse to each other after every sequence of
\* listings and removals, and index 0 stays the mark of an unlisted token.
TokenMapsAreInverse ==
  /\ tokenForIndex[0] = ZeroAddress
  /\ \A i \in TokenIndices, t \in Tokens :
       tokenForIndex[i] = t <=> indexOfToken[t] = i

-----------------------------------------------------------------------------
\* What the comments of the code say and the code does not do

\* With the signature anyone can call release "to make sure the swapping fund
\* is guaranteed to be released" (MesonPools.sol:194-195): what is locked covers
\* the fees that release takes from it.
LockedFundsAreReleasable ==
  \A id \in SwapId : Locked(lockedSwaps[id]) => CanTakeFees(id[1])

=============================================================================
