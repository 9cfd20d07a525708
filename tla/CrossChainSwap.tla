--------------------------- MODULE CrossChainSwap ---------------------------
(***************************************************************************)
(* One swap between two chains: the handlers of MesonSwap on the initial   *)
(* chain, those of MesonPools on the target chain, each with a clock and   *)
(* books of its own.  The only thing the chains share are the signatures   *)
(* of the initiator.                                                       *)
(*                                                                         *)
(* The parties are the initiator of the swap and one provider, who owns a  *)
(* pool on both chains.  Each is either careful, which is to follow the    *)
(* steps that the comments of the handlers number 1 to 4 and to act on     *)
(* what it sees within a unit of time, or does anything the handlers       *)
(* allow.  The token and pool registries do not change here: MesonManager  *)
(* is about those.                                                         *)
(***************************************************************************)
EXTENDS MesonHelpers

CONSTANTS
  Initiator, Provider, Recipient, ZeroAddress, Meson,
  ProviderPool,
  SourceChain, TargetChain,
  SourceToken, TargetToken, CoreToken,
  MAX_SWAP_AMOUNT, MIN_BOND_TIME_PERIOD, MAX_BOND_TIME_PERIOD,
  LOCK_TIME_PERIOD, LOCK_MARGIN,
  Liquidity,          \* what the provider's pool holds on the target chain
  MaxSkew,            \* how far the block times of the chains can be apart
  MaxTime             \* bound on block time

\* The parties and the contract are different addresses, although the recipient
\* may be one of the parties, and a token with code is listed on both chains.
ASSUME PartiesAssumption ==
  /\ Initiator # Provider
  /\ ZeroAddress \notin {Initiator, Provider, Recipient, Meson}
  /\ Meson \notin {Initiator, Provider, Recipient}
  /\ CoreToken \notin {SourceToken, TargetToken}
  /\ 1 \in TokenIndices
  /\ ProviderPool \in PoolIndices \ {0}
  /\ MaxTime \in Nat /\ Liquidity \in Nat

\* A lock ends early enough before the swap expires: the clocks of the chains
\* are not apart by more than that, or a provider who releases in time can find
\* the deposit cancelled.
ASSUME SkewAssumption ==
  /\ LOCK_TIME_PERIOD \in Nat \ {0} /\ LOCK_MARGIN \in Nat
  /\ MaxSkew \in 0 .. LOCK_MARGIN + 1

VARIABLES
  careful,            \* which of the two parties is careful, throughout
  signatures,
  sourceTime, sourceLedger, sourceBalance, postedSwaps,
  targetTime, targetLedger, targetBalance, lockedSwaps

sourceVars == <<sourceTime, sourceLedger, sourceBalance, postedSwaps>>
targetVars == <<targetTime, targetLedger, targetBalance, lockedSwaps>>
vars == <<careful, signatures, sourceVars, targetVars>>

Accounts == {Initiator, Provider, Recipient}
Tokens == {SourceToken, TargetToken, CoreToken}

\* The registries of both chains, as the provider's registration leaves them.
AuthorizedFor(pool) ==
  [a \in Accounts \union {ZeroAddress, Meson} |->
     IF a = Provider THEN pool ELSE 0]
OwnerOf(pool) ==
  [p \in PoolIndices |-> IF p = pool THEN Provider ELSE ZeroAddress]
IndexFor(token) == [t \in Tokens |-> IF t = token THEN 1 ELSE 0]
TokenFor(token) ==
  [i \in TokenIndex |-> IF i = 1 THEN token ELSE ZeroAddress]

Source == INSTANCE MesonSwap WITH
  SHORT_COIN_TYPE <- SourceChain,
  Contracts <- {}, Initiators <- {Initiator}, Recipients <- {Recipient},
  now <- sourceTime, ledger <- sourceLedger,
  balanceOfPoolToken <- sourceBalance,
  tokenForIndex <- TokenFor(SourceToken), indexOfToken <- IndexFor(SourceToken),
  poolOfAuthorizedAddr <- AuthorizedFor(ProviderPool),
  ownerOfPool <- OwnerOf(ProviderPool)

Target == INSTANCE MesonPools WITH
  SHORT_COIN_TYPE <- TargetChain, Amounts <- {}, Members <- {},
  Contracts <- {}, Initiators <- {Initiator}, Recipients <- {Recipient},
  now <- targetTime, ledger <- targetLedger,
  balanceOfPoolToken <- targetBalance,
  tokenForIndex <- TokenFor(TargetToken), indexOfToken <- IndexFor(TargetToken),
  poolOfAuthorizedAddr <- AuthorizedFor(ProviderPool),
  ownerOfPool <- OwnerOf(ProviderPool)

\* There is one swap, of the tokens listed under index 1 on both chains.
swap == CHOOSE s \in Swaps : TRUE
posted == postedSwaps[swap]
locked == lockedSwaps[<<swap, Initiator>>]

\* The swap can be released to a plain address, by whoever has the signature.
\* lockSwap does not look at the fees: a swap that does not cover them can be
\* locked, and its deposit taken, and never be released.
ASSUME SwapAssumption ==
  /\ Swaps # {}
  /\ swap.inToken = 1 /\ swap.outToken = 1
  /\ ~swap.feeWaived /\ ~swap.toContract
  /\ Target!CanTakeFees(swap)

Init ==
  /\ careful \in SUBSET {Initiator, Provider}
  /\ signatures = {}
  /\ sourceTime = 0 /\ targetTime = 0
  /\ sourceLedger = [h \in Source!Holding |->
                       IF h = <<SourceToken, Initiator>> THEN swap.amount ELSE 0]
  /\ sourceBalance = [pti \in Source!PoolTokenIndex |-> 0]
  /\ targetLedger = [h \in Target!Holding |->
                       IF h = <<TargetToken, Meson>> THEN Liquidity ELSE 0]
  /\ targetBalance = [pti \in Target!PoolTokenIndex |->
                        IF pti = <<1, ProviderPool>> THEN Liquidity ELSE 0]
  /\ Source!SwapInit
  /\ Target!PoolsInit

-----------------------------------------------------------------------------
\* The initiator

Signature(kind, recipient) ==
  [kind |-> kind, swap |-> swap, recipient |-> recipient, signer |-> Initiator]

RequestSigned == Signature("request", ZeroAddress) \in signatures
ReleaseSigned == Signature("release", Recipient) \in signatures

SignRequest ==
  /\ signatures' = signatures \union {Signature("request", ZeroAddress)}
  /\ UNCHANGED <<careful, sourceVars, targetVars>>

\* A careful initiator signs the release when she sees the swap locked on the
\* target chain, for long enough.
SignRelease ==
  /\ Initiator \in careful =>
       Target!Locked(locked) /\ targetTime <= locked.until
  /\ signatures' = signatures \union {Signature("release", Recipient)}
  /\ UNCHANGED <<careful, sourceVars, targetVars>>

PostByInitiator(p) ==
  /\ Source!PostSwapFromInitiator(swap, [initiator |-> Initiator, poolIndex |-> p])
  /\ UNCHANGED <<careful, targetVars>>

Cancel == Source!CancelSwap(swap) /\ UNCHANGED <<careful, targetVars>>

\* Whoever submits the signature: the caller does not matter.
Release ==
  /\ Target!Release(Recipient, ZeroAddress, swap, Initiator, Recipient)
  /\ UNCHANGED <<careful, sourceVars>>

-----------------------------------------------------------------------------
\* The provider

\* The deposit is there and bonded to the provider.
Bonded == Source!Pending(posted) /\ posted.poolIndex = ProviderPool

PostByProvider ==
  /\ Source!PostSwap(Provider, swap,
                     [initiator |-> Initiator, poolIndex |-> ProviderPool])
  /\ UNCHANGED <<careful, targetVars>>

Bond == Source!BondSwap(Provider, swap, ProviderPool) /\ UNCHANGED <<careful, targetVars>>

\* A careful provider only spends its funds on a swap bonded to it.
Lock ==
  /\ Provider \in careful => Bonded
  /\ Target!LockSwap(Provider, swap, Initiator)
  /\ UNCHANGED <<careful, sourceVars>>

ReleaseDirectly ==
  /\ Provider \in careful => Bonded /\ ~Source!SwapExpired(swap)
  /\ Target!DirectRelease(Provider, ZeroAddress, swap, Initiator, Recipient, TRUE)
  /\ UNCHANGED <<careful, sourceVars>>

Unlock == Target!Unlock(swap, Initiator) /\ UNCHANGED <<careful, sourceVars>>

Execute(depositToPool) ==
  /\ Source!ExecuteSwap(swap, Recipient, depositToPool)
  /\ UNCHANGED <<careful, targetVars>>

-----------------------------------------------------------------------------
\* Time.  It does not pass while a careful party still has to react.

InitiatorReacts ==
  /\ Initiator \in careful
  /\ ReleaseSigned /\ Target!Locked(locked)

\* A careful provider takes its lock back as soon as it can, and executes as
\* soon as the release shows on the target chain.
ProviderReacts ==
  /\ Provider \in careful
  /\ \/ Target!Locked(locked) /\ Target!UnlockableAt(locked, targetTime)
     \/ locked = Target!Released /\ Bonded

Quiet == ~InitiatorReacts /\ ~ProviderReacts

TickSource ==
  /\ Quiet
  /\ sourceTime < MaxTime /\ sourceTime < targetTime + MaxSkew
  /\ sourceTime' = sourceTime + 1
  /\ UNCHANGED <<careful, signatures, sourceLedger, sourceBalance, postedSwaps,
                 targetVars>>

TickTarget ==
  /\ Quiet
  /\ targetTime < MaxTime /\ targetTime < sourceTime + MaxSkew
  /\ targetTime' = targetTime + 1
  /\ UNCHANGED <<careful, signatures, targetLedger, targetBalance, lockedSwaps,
                 sourceVars>>

Next ==
  \/ SignRequest \/ SignRelease
  \/ \E p \in {0, ProviderPool} : PostByInitiator(p)
  \/ PostByProvider \/ Bond
  \/ Lock \/ Unlock \/ Release \/ ReleaseDirectly
  \/ \E depositToPool \in BOOLEAN : Execute(depositToPool)
  \/ Cancel
  \/ TickSource \/ TickTarget

Spec == Init /\ [][Next]_vars

\* Blocks are produced on both chains, and each party collects what is its
\* own: the initiator cancels, the provider unlocks and executes, and whoever
\* holds the release signature submits it.
Fairness ==
  /\ WF_vars(TickSource) /\ WF_vars(TickTarget)
  /\ WF_vars(Cancel) /\ WF_vars(Unlock) /\ WF_vars(Release)
  /\ WF_vars(\E depositToPool \in BOOLEAN : Execute(depositToPool))

FairSpec == Spec /\ Fairness

-----------------------------------------------------------------------------
\* Properties

RecipientPaid == targetLedger[<<TargetToken, Recipient>>] = ReleaseAmount(swap)

InitiatorPaidIn ==
  sourceLedger[<<SourceToken, Initiator>>] < swap.amount

ProviderPaid ==
  sourceLedger[<<SourceToken, Provider>>]
    + sourceBalance[<<1, ProviderPool>>] = swap.amount

ProviderSpent ==
  Target!Locked(locked) \/ targetBalance[<<1, ProviderPool>>] < Liquidity

\* Whoever submits the signature now, the release goes through.
ReleaseGoesThrough ==
  /\ ReleaseSigned /\ Target!Locked(locked) /\ Target!Releasable(swap)
  /\ ~swap.feeWaived
  /\ Target!AmountToLock(swap) >= 0 /\ Target!CanTakeFees(swap)
  /\ targetLedger[<<CoreToken, Meson>>] >= swap.coreAmount
  /\ Target!CanRelease(targetLedger, swap, Recipient, ReleaseAmount(swap))

\* A careful initiator does not lose her deposit: when it has gone to a pool,
\* the recipient has been paid, or still can be at once.  The provider may
\* lock, bond, execute and unlock whenever the handlers let it.
InitiatorIsWhole ==
  Initiator \in careful /\ InitiatorPaidIn /\ ~Source!Pending(posted)
    => RecipientPaid \/ ReleaseGoesThrough

\* A careful provider does not lose its funds: once the recipient has been
\* paid it holds the deposit, or can still take it, although the initiator
\* may sign, release and cancel at the last moment by whichever clock is
\* behind.
ProviderIsWhole ==
  Provider \in careful /\ ProviderSpent /\ ~Target!Locked(locked)
    => ProviderPaid \/ (Bonded /\ ~Source!SwapExpired(swap))

\* A paid recipient means a paid provider, in the end and not just for now.
ReleaseIsRewarded == Provider \in careful /\ RecipientPaid ~> ProviderPaid

\* Nothing stays in the escrow of either chain, whatever the parties do: the
\* deposit is executed or cancelled, and the lock released or taken back.
EscrowsEmpty == <>[](~Source!Pending(posted) /\ ~Target!Locked(locked))

=============================================================================
