------------------------------ MODULE MesonSwap ------------------------------
(***************************************************************************)
(* The initial-chain side of a swap: a request is posted with the          *)
(* initiator's deposit, bonded to a liquidity pool, and ends by execution  *)
(* (the pool is paid) or, after expireTs, by cancellation (the initiator   *)
(* is paid back).                                                          *)
(***************************************************************************)
EXTENDS MesonStates

CONSTANTS
  MAX_SWAP_AMOUNT,
  MIN_BOND_TIME_PERIOD,
  MAX_BOND_TIME_PERIOD

ASSUME BondTimeAssumption ==
  /\ MAX_SWAP_AMOUNT \in Nat
  /\ MIN_BOND_TIME_PERIOD \in Nat
  /\ MAX_BOND_TIME_PERIOD \in Nat

VARIABLE postedSwaps

swapVars == postedSwaps

\* The word initiator|poolIndex.  The word 0 means that there is no such swap,
\* and the word 1 is the marker that an executed swap leaves.
PostedSwap == [initiator : Address, poolIndex : PoolIndices]
NotPosted == [initiator |-> ZeroAddress, poolIndex |-> 0]
Executed == [initiator |-> ZeroAddress, poolIndex |-> 1]

\* postedSwap > 1
Pending(posted) == posted \notin {NotPosted, Executed}

SwapTypeOK == postedSwaps \in [Swaps -> PostedSwap]

SwapInit == postedSwaps = [s \in Swaps |-> NotPosted]

-----------------------------------------------------------------------------
\* Guards and values shared by several handlers

PostableAt(s, time) ==
  /\ s.expireTs - time > MIN_BOND_TIME_PERIOD
  /\ s.expireTs - time < MAX_BOND_TIME_PERIOD

\* A variant forgets that the swap may be posted already.
VerifyNewSwapOnly(s) ==
  /\ s.inChain = SHORT_COIN_TYPE
  /\ SameTokenType(s.inToken, s.outToken)
  /\ s.amount <= MAX_SWAP_AMOUNT
  /\ PostableAt(s, now)

VerifyEncodedSwap(s) ==
  /\ s.inChain = SHORT_COIN_TYPE
  /\ SameTokenType(s.inToken, s.outToken)
  /\ postedSwaps[s] = NotPosted
  /\ s.amount <= MAX_SWAP_AMOUNT
  /\ PostableAt(s, now)

\* Variants that always drop the record, and that leave it as it is.
DroppedAfterExecution(s) == NotPosted
KeptAfterExecution(s) == postedSwaps[s]

\* What executeSwap leaves: nothing when the swap is too close to its expiry
\* to be posted again, and otherwise the marker.
ValueAfterExecution(s) ==
  IF s.expireTs < now + MIN_BOND_TIME_PERIOD THEN NotPosted ELSE Executed

\* Variants are off by one at the boundary, and compare the wrong way round.
SwapNotExpired(s) == s.expireTs > now
SwapExpiring(s) == s.expireTs <= now
SwapExpired(s) == s.expireTs < now

-----------------------------------------------------------------------------
\* Posting

\* The handler is not payable, so a core in-token can not be collected here.
PostSwap(caller, s, postingValue) ==
  /\ VerifyEncodedSwap(s)
  /\ postingValue.poolIndex > 0 /\ caller # postingValue.initiator
       => poolOfAuthorizedAddr[caller] = postingValue.poolIndex
  /\ Signed("request", s, ZeroAddress, postingValue.initiator)
  /\ ~IsCoreToken(s.inToken)
  /\ postedSwaps' = [postedSwaps EXCEPT ![s] = postingValue]
  /\ DepositToken(caller, postingValue.initiator, s.inToken, s.amount)
  /\ UNCHANGED <<envVars, tokenVars, registryVars, balanceOfPoolToken>>

PostSwapFromInitiator(s, postingValue) ==
  /\ VerifyEncodedSwap(s)
  /\ postedSwaps' = [postedSwaps EXCEPT ![s] = postingValue]
  /\ DepositToken(postingValue.initiator, postingValue.initiator,
                  s.inToken, s.amount)
  /\ UNCHANGED <<envVars, tokenVars, registryVars, balanceOfPoolToken>>

\* The caller pays for an initiator and a pool of its choice.
PostSwapFromContract(caller, s, postingValue) ==
  /\ VerifyEncodedSwap(s)
  /\ postedSwaps' = [postedSwaps EXCEPT ![s] = postingValue]
  /\ DepositToken(caller, caller, s.inToken, s.amount)
  /\ UNCHANGED <<envVars, tokenVars, registryVars, balanceOfPoolToken>>

\* An address of no pool that gives 0 passes, and changes nothing.
BondSwap(caller, s, poolIndex) ==
  /\ Pending(postedSwaps[s])
  /\ postedSwaps[s].poolIndex = 0
  /\ poolOfAuthorizedAddr[caller] = poolIndex
  /\ postedSwaps' = [postedSwaps EXCEPT ![s].poolIndex = poolIndex]
  /\ UNCHANGED statesVars

-----------------------------------------------------------------------------
\* Cancelling

CancelTo(s, recipient) ==
  /\ Pending(postedSwaps[s])
  /\ SwapExpired(s)
  /\ postedSwaps' = [postedSwaps EXCEPT ![s] = NotPosted]
  /\ CanTransfer(ledger, s.inToken, recipient, s.amount)
  /\ ledger' = Transferred(ledger, s.inToken, recipient, s.amount)
  /\ UNCHANGED <<envVars, tokenVars, registryVars, balanceOfPoolToken>>

CancelSwap(s) == CancelTo(s, postedSwaps[s].initiator)

CancelSwapTo(s, recipient) ==
  /\ Signed("plain", s, recipient, postedSwaps[s].initiator)
  /\ CancelTo(s, recipient)

-----------------------------------------------------------------------------
\* Executing

\* Anyone with the release signature can call this, before or after expireTs.
ExecuteSwap(s, recipient, depositToPool) ==
  LET posted == postedSwaps[s]
      poolOwner == ownerOfPool[posted.poolIndex]
  IN  /\ Pending(posted)
      /\ postedSwaps' = [postedSwaps EXCEPT ![s] = ValueAfterExecution(s)]
      /\ Signed("release", s, recipient, posted.initiator)
      /\ \/ /\ depositToPool
            /\ balanceOfPoolToken' =
                 Credited(balanceOfPoolToken, s.inToken, posted.poolIndex,
                          s.amount)
            /\ UNCHANGED ledger
         \/ /\ ~depositToPool
            /\ CanTransfer(ledger, s.inToken, poolOwner, s.amount)
            /\ ledger' = Transferred(ledger, s.inToken, poolOwner, s.amount)
            /\ UNCHANGED balanceOfPoolToken
      /\ UNCHANGED <<envVars, tokenVars, registryVars>>

\* Posts and executes in one call; the deposit goes to pool 1.
DirectExecuteSwap(caller, s, initiator, recipient) ==
  /\ VerifyEncodedSwap(s)
  /\ Signed("release", s, recipient, initiator)
  /\ postedSwaps' = [postedSwaps EXCEPT ![s] = Executed]
  /\ balanceOfPoolToken' = Credited(balanceOfPoolToken, s.inToken, 1, s.amount)
  /\ DepositToken(caller, initiator, s.inToken, s.amount)
  /\ UNCHANGED <<envVars, tokenVars, registryVars>>

\* The caller pays pool 1; no signature is asked for and no marker is left.
SimpleExecuteSwap(caller, s) ==
  /\ VerifyEncodedSwap(s)
  /\ balanceOfPoolToken' = Credited(balanceOfPoolToken, s.inToken, 1, s.amount)
  /\ DepositToken(caller, caller, s.inToken, s.amount)
  /\ UNCHANGED <<envVars, tokenVars, registryVars, postedSwaps>>

PostingValue == [initiator : Initiators, poolIndex : PoolIndices]

SwapNext ==
  \E s \in Swaps, caller \in Accounts :
    \/ \E v \in PostingValue : PostSwap(caller, s, v)
    \/ \E v \in PostingValue : PostSwapFromInitiator(s, v)
    \/ \E v \in PostingValue : PostSwapFromContract(caller, s, v)
    \/ \E p \in PoolIndices : BondSwap(caller, s, p)
    \/ CancelSwap(s)
    \/ \E recipient \in Recipients : CancelSwapTo(s, recipient)
    \/ \E recipient \in Recipients, depositToPool \in BOOLEAN :
         ExecuteSwap(s, recipient, depositToPool)
    \/ \E initiator \in Initiators, recipient \in Recipients :
         DirectExecuteSwap(caller, s, initiator, recipient)
    \/ SimpleExecuteSwap(caller, s)

=============================================================================
