-------------------------- MODULE CrossChainProofs --------------------------
(***************************************************************************)
(* What a careful party keeps, for any amount, any length of the time      *)
(* periods and any block times: clocks that are apart by no more than the  *)
(* margin of a lock are what the provider needs, and the initiator needs   *)
(* nothing of the kind.                                                    *)
(***************************************************************************)
EXTENDS SwapStatus, TLAPS

-----------------------------------------------------------------------------
\* The swap and its tokens

LEMMA TheSwapIs ==
  /\ swap \in Swaps
  /\ swap.amount \in Nat /\ swap.fee \in Nat /\ swap.expireTs \in Nat
  /\ swap.forCore \in Nat /\ swap.coreAmount \in Nat /\ swap.share \in Nat
  /\ swap.poolToShare \in PoolIndices
  /\ swap.inToken = 1 /\ swap.outToken = 1
  /\ ~swap.feeWaived /\ ~swap.toContract
<1>1. swap \in Swaps
  BY SwapAssumption DEF swap
<1>2. swap \in EncodedSwap
  BY <1>1, SwapsAssumption
<1>3. QED
  BY <1>1, <1>2, SwapAssumption DEF EncodedSwap

LEMMA AmountsAre ==
  /\ Target!AmountToLock(swap) \in Int
  /\ ReleaseAmount(swap) \in Nat
  /\ Target!ReleaseAmount(swap) = ReleaseAmount(swap)
  /\ ReleaseAmount(swap) <= Target!AmountToLock(swap)
<1>1. ServiceFeeMinimum(swap.inToken) \in Nat
  BY FeeAssumption DEF ServiceFeeMinimum
<1>2. (swap.amount * 5) \div 10000 \in Nat
  BY TheSwapIs
<1>3. ServiceFee(swap) \in Nat
  BY <1>1, <1>2 DEF ServiceFee
<1>4. ServiceFeeCharged(swap) \in Nat
  BY <1>3 DEF ServiceFeeCharged
<1>5. AmountToLock(swap) \in Int /\ Target!AmountToLock(swap) = AmountToLock(swap)
  BY TheSwapIs DEF AmountToLock, Target!AmountToLock
<1>6. Target!ServiceFeeCharged(swap) = ServiceFeeCharged(swap)
  BY DEF ServiceFeeCharged, Target!ServiceFeeCharged, ServiceFee, Target!ServiceFee,
     ServiceFeeMinimum, Target!ServiceFeeMinimum
<1>7. Target!ReleaseAmount(swap) = ReleaseAmount(swap)
  BY <1>5, <1>6 DEF ReleaseAmount, Target!ReleaseAmount
<1>8. ReleaseAmount(swap) \in Int /\ ReleaseAmount(swap) <= AmountToLock(swap)
  BY <1>4, <1>5, TheSwapIs DEF ReleaseAmount
<1>9. QED
  BY <1>5, <1>7, <1>8, SwapAssumption DEF Target!CanTakeFees

LEMMA ListedTokens ==
  /\ SourceToken \in Tokens /\ TargetToken \in Tokens /\ CoreToken \in Tokens
  /\ TargetToken # CoreToken
  /\ 0 \in TokenIndex /\ 1 \in TokenIndex
  /\ ~Source!IsCoreToken(1) /\ Source!TokenAt(1) = SourceToken
  /\ ~Target!IsCoreToken(1) /\ Target!TokenAt(1) = TargetToken
  /\ Target!Transferable(1) /\ Target!CoreIndex = 0
<1>1. ~Source!IsCoreToken(1) /\ ~Target!IsCoreToken(1)
  BY DEF Source!IsCoreToken, Target!IsCoreToken
<1>2. 0 \in TokenIndex /\ 1 \in TokenIndex
  BY PartiesAssumption DEF TokenIndex
<1>3. TokenFor(SourceToken)[1] = SourceToken /\ TokenFor(TargetToken)[1] = TargetToken
  BY <1>2 DEF TokenFor
<1>4. SourceToken \in Tokens /\ TargetToken \in Tokens /\ CoreToken \in Tokens
  BY DEF Tokens
<1>5. IndexFor(TargetToken)[CoreToken] = 0
  BY <1>4, PartiesAssumption DEF IndexFor
<1>6. QED
  BY <1>1, <1>2, <1>3, <1>4, <1>5, PartiesAssumption
  DEF Source!TokenAt, Target!TokenAt, Target!Transferable, Target!CoreIndex

LEMMA HoldingsAre ==
  ASSUME NEW t \in Tokens, NEW a \in Accounts \union {ZeroAddress, Meson}
  PROVE  <<t, a>> \in Source!Holding /\ <<t, a>> \in Target!Holding
BY DEF Source!Holding, Target!Holding, Source!Address, Target!Address

LEMMA PoolsAre ==
  ASSUME NEW i \in TokenIndex, NEW p \in PoolIndices
  PROVE  <<i, p>> \in Source!PoolTokenIndex /\ <<i, p>> \in Target!PoolTokenIndex
BY DEF Source!PoolTokenIndex, Target!PoolTokenIndex, TokenIndex, Source!TokenIndex,
   Target!TokenIndex

LEMMA PartiesAre ==
  /\ {Initiator, Provider, Recipient, Meson} \subseteq Accounts \union {ZeroAddress, Meson}
  /\ Initiator # Provider /\ Initiator # Meson /\ Provider # Meson /\ Recipient # Meson
  /\ {Initiator, Provider, Recipient} = Accounts
  /\ Initiator # ZeroAddress /\ Recipient # ZeroAddress
  /\ 0 \in PoolIndices /\ ProviderPool \in PoolIndices /\ ProviderPool # 0
  /\ AuthorizedFor(ProviderPool)[Provider] = ProviderPool
  /\ OwnerOf(ProviderPool)[ProviderPool] = Provider
BY PartiesAssumption, IndexAssumption DEF Accounts, AuthorizedFor, OwnerOf

LEMMA CreditIs ==
  ASSUME NEW H, NEW b \in [H -> Int], NEW a \in H, NEW n \in Int
  PROVE  /\ [b EXCEPT ![a] = @ + n] \in [H -> Int]
         /\ [b EXCEPT ![a] = @ + n][a] = b[a] + n
         /\ \A h \in H : h # a => [b EXCEPT ![a] = @ + n][h] = b[h]
OBVIOUS

LEMMA DebitIs ==
  ASSUME NEW H, NEW b \in [H -> Int], NEW a \in H, NEW n \in Int
  PROVE  /\ [b EXCEPT ![a] = @ - n] \in [H -> Int]
         /\ [b EXCEPT ![a] = @ - n][a] = b[a] - n
         /\ \A h \in H : h # a => [b EXCEPT ![a] = @ - n][h] = b[h]
OBVIOUS

-----------------------------------------------------------------------------
\* The initial chain, step by step

SourceTypeOK ==
  /\ sourceTime \in Nat
  /\ sourceLedger \in [Source!Holding -> Int]
  /\ sourceBalance \in [Source!PoolTokenIndex -> Int]
  /\ postedSwaps \in [Swaps -> Source!PostedSwap]

Deposit(a) == sourceLedger[<<SourceToken, a>>]
PoolDeposit == sourceBalance[<<1, ProviderPool>>]
Posting(p) == [initiator |-> Initiator, poolIndex |-> p]

LEMMA PostingIsPending ==
  ASSUME NEW p \in {0, ProviderPool}
  PROVE  Posting(p) \in Source!PostedSwap /\ Source!Pending(Posting(p))
BY PartiesAre DEF Posting, Source!PostedSwap, Source!Pending, Source!NotPosted, Source!Executed,
   Source!Address

LEMMA SourceMoves ==
  ASSUME SourceTypeOK, NEW n \in Int, NEW from \in Accounts \union {Meson},
         NEW to \in Accounts \union {Meson}, from # to,
         sourceLedger' = Source!Moved(sourceLedger, SourceToken, from, to, n)
  PROVE  /\ sourceLedger' \in [Source!Holding -> Int]
         /\ Deposit(from)' = Deposit(from) - n /\ Deposit(to)' = Deposit(to) + n
         /\ \A a \in Accounts : a # from /\ a # to => Deposit(a)' = Deposit(a)
<1>1. \A a \in Accounts \union {Meson} : <<SourceToken, a>> \in Source!Holding
  BY HoldingsAre, ListedTokens
<1> DEFINE taken == [sourceLedger EXCEPT ![<<SourceToken, from>>] = @ - n]
<1>2. sourceLedger' = [taken EXCEPT ![<<SourceToken, to>>] = @ + n]
  BY DEF Source!Moved
<1>3. sourceLedger \in [Source!Holding -> Int]
  BY DEF SourceTypeOK
<1>4. /\ sourceLedger' \in [Source!Holding -> Int]
      /\ sourceLedger'[<<SourceToken, from>>] = sourceLedger[<<SourceToken, from>>] - n
      /\ sourceLedger'[<<SourceToken, to>>] = sourceLedger[<<SourceToken, to>>] + n
      /\ \A h \in Source!Holding :
           h # <<SourceToken, from>> /\ h # <<SourceToken, to>> =>
             sourceLedger'[h] = sourceLedger[h]
  BY <1>1, <1>2, <1>3
<1>5. QED
  BY <1>1, <1>4 DEF Deposit

\* The deposit is taken from the initiator, who must have it.
LEMMA PostIs ==
  ASSUME SourceTypeOK, NEW p \in {0, ProviderPool},
         PostByInitiator(p) \/ (PostByProvider /\ p = ProviderPool)
  PROVE  /\ SourceTypeOK'
         /\ posted = Source!NotPosted /\ posted' = Posting(p)
         /\ swap.amount > 0 /\ Deposit(Initiator) >= swap.amount
         /\ Deposit(Initiator)' = Deposit(Initiator) - swap.amount
         /\ Deposit(Provider)' = Deposit(Provider) /\ PoolDeposit' = PoolDeposit
         /\ UNCHANGED <<careful, signatures, sourceTime, targetVars>>
<1>1. /\ posted = Source!NotPosted
      /\ postedSwaps' = [postedSwaps EXCEPT ![swap] = Posting(p)]
      /\ \E caller : Source!DepositToken(caller, Initiator, swap.inToken, swap.amount)
      /\ UNCHANGED <<careful, signatures, sourceTime, sourceBalance, targetVars>>
  BY DEF PostByInitiator, PostByProvider, Source!PostSwapFromInitiator, Source!PostSwap,
     Source!VerifyEncodedSwap, Source!envVars, posted, Posting
<1>2. /\ swap.amount > 0
      /\ sourceLedger[<<SourceToken, Initiator>>] >= swap.amount
      /\ sourceLedger' = Source!Moved(sourceLedger, SourceToken, Initiator, Meson, swap.amount)
  BY <1>1, TheSwapIs, ListedTokens DEF Source!DepositToken
<1>3. /\ Initiator \in Accounts /\ Provider \in Accounts
      /\ Initiator # Provider /\ Initiator # Meson /\ Provider # Meson
  BY PartiesAre
<1>4. /\ sourceLedger' \in [Source!Holding -> Int]
      /\ Deposit(Initiator)' = Deposit(Initiator) - swap.amount
      /\ Deposit(Provider)' = Deposit(Provider)
  BY <1>2, <1>3, TheSwapIs, SourceMoves
<1>5. /\ postedSwaps' \in [Swaps -> Source!PostedSwap]
      /\ posted' = Posting(p)
  BY <1>1, TheSwapIs, PostingIsPending DEF SourceTypeOK, posted
<1>6. QED
  BY <1>1, <1>2, <1>4, <1>5 DEF SourceTypeOK, Deposit, PoolDeposit

LEMMA BondIs ==
  ASSUME SourceTypeOK, Bond
  PROVE  /\ Source!Pending(posted) /\ posted.poolIndex = 0
         /\ posted' = [posted EXCEPT !.poolIndex = ProviderPool]
         /\ SourceTypeOK'
         /\ UNCHANGED <<careful, signatures, sourceTime, sourceLedger, sourceBalance, targetVars>>
<1>1. /\ Source!Pending(posted) /\ posted.poolIndex = 0
      /\ postedSwaps' = [postedSwaps EXCEPT ![swap].poolIndex = ProviderPool]
      /\ UNCHANGED <<careful, signatures, sourceTime, sourceLedger, sourceBalance, targetVars>>
  BY DEF Bond, Source!BondSwap, Source!statesVars, posted
<1>2. /\ postedSwaps' \in [Swaps -> Source!PostedSwap]
      /\ posted' = [posted EXCEPT !.poolIndex = ProviderPool]
  BY <1>1, TheSwapIs, PartiesAre DEF SourceTypeOK, posted, Source!PostedSwap
<1>3. QED
  BY <1>1, <1>2 DEF SourceTypeOK

\* The deposit goes back to the initiator who posted.
LEMMA CancelIs ==
  ASSUME SourceTypeOK, Cancel, posted.initiator = Initiator
  PROVE  /\ SourceTypeOK'
         /\ Source!Pending(posted) /\ posted' = Source!NotPosted
         /\ Source!SwapExpired(swap)
         /\ Deposit(Initiator)' = Deposit(Initiator) + swap.amount
         /\ Deposit(Provider)' = Deposit(Provider) /\ PoolDeposit' = PoolDeposit
         /\ UNCHANGED <<careful, signatures, sourceTime, targetVars>>
<1>1. /\ Source!Pending(posted) /\ Source!SwapExpired(swap)
      /\ postedSwaps' = [postedSwaps EXCEPT ![swap] = Source!NotPosted]
      /\ sourceLedger' = Source!Moved(sourceLedger, SourceToken, Meson, Initiator, swap.amount)
      /\ UNCHANGED <<careful, signatures, sourceTime, sourceBalance, targetVars>>
  BY TheSwapIs, ListedTokens DEF Cancel, Source!CancelSwap, Source!CancelTo, Source!Transferred,
     Source!envVars, posted
<1>2. /\ Initiator \in Accounts /\ Provider \in Accounts
      /\ Initiator # Provider /\ Initiator # Meson /\ Provider # Meson
  BY PartiesAre
<1>3. /\ sourceLedger' \in [Source!Holding -> Int]
      /\ Deposit(Initiator)' = Deposit(Initiator) + swap.amount
      /\ Deposit(Provider)' = Deposit(Provider)
  <2>1. /\ swap.amount \in Int
        /\ sourceLedger' = Source!Moved(sourceLedger, SourceToken, Meson, Initiator, swap.amount)
    BY <1>1, TheSwapIs
  <2>2. /\ Meson \in Accounts \union {Meson} /\ Initiator \in Accounts \union {Meson}
        /\ Meson # Initiator
    BY <1>2
  <2>3. /\ sourceLedger' \in [Source!Holding -> Int]
        /\ Deposit(Initiator)' = Deposit(Initiator) + swap.amount
        /\ \A a \in Accounts : a # Meson /\ a # Initiator => Deposit(a)' = Deposit(a)
    BY <2>1, <2>2, SourceMoves DEF Deposit
  <2>4. QED
    BY <1>2, <2>3
<1>4. Source!NotPosted \in Source!PostedSwap
  BY PartiesAre DEF Source!NotPosted, Source!PostedSwap, Source!Address
<1>5. postedSwaps' \in [Swaps -> Source!PostedSwap] /\ posted' = Source!NotPosted
  BY <1>1, <1>4, TheSwapIs DEF SourceTypeOK, posted
<1>6. QED
  BY <1>1, <1>3, <1>5 DEF SourceTypeOK, Deposit, PoolDeposit

\* The deposit goes to the pool of the posting or to its owner, with the release
\* signature of the initiator.
LEMMA ExecuteIs ==
  ASSUME SourceTypeOK, NEW depositToPool \in BOOLEAN, Execute(depositToPool),
         NEW p \in {0, ProviderPool}, posted = Posting(p)
  PROVE  /\ SourceTypeOK'
         /\ posted' \in {Source!NotPosted, Source!Executed}
         /\ ReleaseSigned
         /\ Deposit(Initiator)' = Deposit(Initiator)
         /\ p = ProviderPool =>
              Deposit(Provider)' + PoolDeposit' = Deposit(Provider) + PoolDeposit + swap.amount
         /\ UNCHANGED <<careful, signatures, sourceTime, targetVars>>
<1>1. posted.initiator = Initiator /\ posted.poolIndex = p /\ p \in PoolIndices
  BY PartiesAre DEF Posting
<1>2. /\ postedSwaps' = [postedSwaps EXCEPT ![swap] = Source!ValueAfterExecution(swap)]
      /\ ReleaseSigned
      /\ UNCHANGED <<careful, signatures, sourceTime, targetVars>>
      /\ \/ /\ sourceBalance' = [sourceBalance EXCEPT ![<<1, p>>] = @ + swap.amount]
            /\ UNCHANGED sourceLedger
         \/ /\ OwnerOf(ProviderPool)[p] # ZeroAddress
            /\ sourceLedger' = Source!Moved(sourceLedger, SourceToken, Meson,
                                            OwnerOf(ProviderPool)[p], swap.amount)
            /\ UNCHANGED sourceBalance
  BY <1>1, TheSwapIs, ListedTokens
  DEF Execute, Source!ExecuteSwap, Source!CanTransfer, Source!Transferred, Source!Credited,
      Source!Signed, Source!envVars, ReleaseSigned, Signature, posted
<1>3. Source!ValueAfterExecution(swap) \in {Source!NotPosted, Source!Executed}
  BY DEF Source!ValueAfterExecution
<1>4. {Source!NotPosted, Source!Executed} \subseteq Source!PostedSwap
  BY PartiesAre, IndexAssumption
  DEF Source!NotPosted, Source!Executed, Source!PostedSwap, Source!Address
<1>5. /\ postedSwaps' \in [Swaps -> Source!PostedSwap]
      /\ posted' \in {Source!NotPosted, Source!Executed}
  BY <1>2, <1>3, <1>4, TheSwapIs DEF SourceTypeOK, posted
<1>6. CASE /\ sourceBalance' = [sourceBalance EXCEPT ![<<1, p>>] = @ + swap.amount]
           /\ UNCHANGED sourceLedger
  <2>1. <<1, p>> \in Source!PoolTokenIndex /\ <<1, ProviderPool>> \in Source!PoolTokenIndex
    BY <1>1, PoolsAre, ListedTokens, PartiesAre
  <2>2. /\ sourceBalance' \in [Source!PoolTokenIndex -> Int]
        /\ p = ProviderPool => PoolDeposit' = PoolDeposit + swap.amount
    BY <1>6, <2>1, TheSwapIs DEF SourceTypeOK, PoolDeposit
  <2>3. PoolDeposit \in Int /\ Deposit(Provider) \in Int
    BY <2>1, HoldingsAre, ListedTokens, PartiesAre DEF SourceTypeOK, PoolDeposit, Deposit
  <2>4. QED
    BY <1>2, <1>5, <1>6, <2>2, <2>3, TheSwapIs DEF SourceTypeOK, Deposit
<1>7. CASE /\ OwnerOf(ProviderPool)[p] # ZeroAddress
           /\ sourceLedger' = Source!Moved(sourceLedger, SourceToken, Meson,
                                           OwnerOf(ProviderPool)[p], swap.amount)
           /\ UNCHANGED sourceBalance
  <2>1. p = ProviderPool /\ OwnerOf(ProviderPool)[p] = Provider
    BY <1>1, <1>7, PartiesAre DEF OwnerOf
  <2>2. /\ <<SourceToken, Provider>> \in Source!Holding
        /\ <<1, ProviderPool>> \in Source!PoolTokenIndex
        /\ Initiator \in Accounts /\ Provider \in Accounts
        /\ Initiator # Provider /\ Initiator # Meson /\ Provider # Meson
    BY HoldingsAre, ListedTokens, PartiesAre, PoolsAre
  <2>3. /\ sourceLedger' \in [Source!Holding -> Int]
        /\ Deposit(Provider)' = Deposit(Provider) + swap.amount
        /\ Deposit(Initiator)' = Deposit(Initiator)
    <3>1. /\ swap.amount \in Int
          /\ sourceLedger' = Source!Moved(sourceLedger, SourceToken, Meson, Provider, swap.amount)
      BY <1>7, <2>1, TheSwapIs
    <3>2. QED
      BY <2>2, <3>1, SourceMoves DEF Deposit
  <2>4. PoolDeposit \in Int /\ Deposit(Provider) \in Int /\ PoolDeposit' = PoolDeposit
    BY <1>7, <2>2 DEF SourceTypeOK, PoolDeposit, Deposit
  <2>5. QED
    BY <1>2, <1>5, <1>7, <2>3, <2>4, TheSwapIs DEF SourceTypeOK
<1>8. QED
  BY <1>2, <1>6, <1>7

-----------------------------------------------------------------------------
\* The target chain, step by step

TargetTypeOK ==
  /\ targetTime \in Nat
  /\ targetLedger \in [Target!Holding -> Int]
  /\ targetBalance \in [Target!PoolTokenIndex -> Int]
  /\ lockedSwaps \in [Target!SwapId -> Target!LockedSwap]

PoolFunds == targetBalance[<<1, ProviderPool>>]
PoolCore == targetBalance[<<0, ProviderPool>>]
RecipientHas == targetLedger[<<TargetToken, Recipient>>]
LockUntil(t) == [until |-> t, poolIndex |-> ProviderPool]

\* Only these change on the target chain but the time.
TargetStep ==
  /\ TargetTypeOK'
  /\ UNCHANGED <<careful, signatures, targetTime, sourceVars>>

LEMMA TheLockIs ==
  /\ <<swap, Initiator>> \in Target!SwapId
  /\ {Target!NotLocked, Target!Released} \subseteq Target!LockedSwap
  /\ Target!NotLocked # Target!Released
  /\ ~Target!Locked(Target!NotLocked) /\ ~Target!Locked(Target!Released)
  /\ \A t \in Nat : LockUntil(t + LOCK_TIME_PERIOD) \in Target!LockedSwap
                    /\ Target!Locked(LockUntil(t + LOCK_TIME_PERIOD))
<1>1. <<swap, Initiator>> \in Target!SwapId
  BY TheSwapIs DEF Target!SwapId
<1>2. ASSUME NEW t \in Nat
      PROVE  t + LOCK_TIME_PERIOD \in Nat \ {0}
  BY SkewAssumption
<1>3. QED
  BY <1>1, <1>2, PartiesAre, IndexAssumption
  DEF Target!NotLocked, Target!Released, Target!LockedSwap, Target!Locked, LockUntil

LEMMA LockIs ==
  ASSUME TargetTypeOK, Lock
  PROVE  /\ TargetStep /\ UNCHANGED targetLedger
         /\ Provider \in careful => Bonded
         /\ locked = Target!NotLocked
         /\ locked' = LockUntil(targetTime + LOCK_TIME_PERIOD)
         /\ targetTime + LOCK_TIME_PERIOD + LOCK_MARGIN < swap.expireTs
         /\ Target!AmountToLock(swap) >= 0 /\ PoolFunds >= Target!AmountToLock(swap)
         /\ PoolCore >= swap.coreAmount
         /\ PoolFunds' = PoolFunds - Target!AmountToLock(swap)
         /\ PoolCore' = PoolCore - swap.coreAmount
<1> DEFINE paid == [targetBalance EXCEPT ![<<1, ProviderPool>>] = @ - Target!AmountToLock(swap)]
<1>1. /\ <<1, ProviderPool>> \in Target!PoolTokenIndex
      /\ <<0, ProviderPool>> \in Target!PoolTokenIndex
  BY PoolsAre, ListedTokens, PartiesAre
<1>2. /\ paid \in [Target!PoolTokenIndex -> Int]
      /\ paid[<<1, ProviderPool>>] = PoolFunds - Target!AmountToLock(swap)
      /\ paid[<<0, ProviderPool>>] = PoolCore
  BY <1>1, AmountsAre DEF TargetTypeOK, PoolFunds, PoolCore
<1>3. /\ Provider \in careful => Bonded
      /\ locked = Target!NotLocked
      /\ Target!LockDeadlineOK(swap)
      /\ Target!AmountToLock(swap) >= 0
      /\ PoolFunds >= Target!AmountToLock(swap)
      /\ paid[<<0, ProviderPool>>] >= swap.coreAmount
      /\ targetBalance' = [paid EXCEPT ![<<0, ProviderPool>>] = @ - swap.coreAmount]
      /\ lockedSwaps' = [lockedSwaps EXCEPT ![<<swap, Initiator>>] =
                           LockUntil(targetTime + LOCK_TIME_PERIOD)]
      /\ UNCHANGED <<careful, signatures, targetTime, targetLedger, sourceVars>>
  BY TheSwapIs, ListedTokens, PartiesAre
  DEF Lock, Target!LockSwap, Target!NeverReleased, Target!Covers, Target!Debited,
      Target!envVars, LockUntil, locked, PoolFunds
<1> HIDE DEF paid
<1>4. /\ targetBalance' \in [Target!PoolTokenIndex -> Int]
      /\ PoolFunds' = PoolFunds - Target!AmountToLock(swap)
      /\ PoolCore' = PoolCore - swap.coreAmount
  BY <1>1, <1>2, <1>3, TheSwapIs DEF PoolFunds, PoolCore
<1>5. /\ lockedSwaps' \in [Target!SwapId -> Target!LockedSwap]
      /\ locked' = LockUntil(targetTime + LOCK_TIME_PERIOD)
  BY <1>3, TheLockIs DEF TargetTypeOK, locked
<1>6. targetTime + LOCK_TIME_PERIOD + LOCK_MARGIN < swap.expireTs
  BY <1>3, TheSwapIs, SkewAssumption DEF Target!LockDeadlineOK, TargetTypeOK
<1>7. QED
  BY <1>2, <1>3, <1>4, <1>5, <1>6 DEF TargetTypeOK, TargetStep

LEMMA UnlockIs ==
  ASSUME TargetTypeOK, Unlock, locked.poolIndex = ProviderPool
  PROVE  /\ TargetStep /\ UNCHANGED targetLedger
         /\ Target!Locked(locked) /\ locked.until < targetTime
         /\ locked' = Target!NotLocked
         /\ PoolFunds' = PoolFunds + Target!AmountToLock(swap)
         /\ PoolCore' = PoolCore + swap.coreAmount
<1> DEFINE repaid == [targetBalance EXCEPT ![<<1, ProviderPool>>] = @ + Target!AmountToLock(swap)]
<1>1. /\ <<1, ProviderPool>> \in Target!PoolTokenIndex
      /\ <<0, ProviderPool>> \in Target!PoolTokenIndex
  BY PoolsAre, ListedTokens, PartiesAre
<1>2. /\ repaid \in [Target!PoolTokenIndex -> Int]
      /\ repaid[<<1, ProviderPool>>] = PoolFunds + Target!AmountToLock(swap)
      /\ repaid[<<0, ProviderPool>>] = PoolCore
  BY <1>1, AmountsAre DEF TargetTypeOK, PoolFunds, PoolCore
<1>3. /\ Target!Locked(locked) /\ locked.until < targetTime
      /\ targetBalance' = [repaid EXCEPT ![<<0, ProviderPool>>] = @ + swap.coreAmount]
      /\ lockedSwaps' = [lockedSwaps EXCEPT ![<<swap, Initiator>>] = Target!NotLocked]
      /\ UNCHANGED <<careful, signatures, targetTime, targetLedger, sourceVars>>
  BY TheSwapIs, ListedTokens
  DEF Unlock, Target!Unlock, Target!UnlockableAt, Target!Credited, Target!envVars, locked
<1> HIDE DEF repaid
<1>4. /\ targetBalance' \in [Target!PoolTokenIndex -> Int]
      /\ PoolFunds' = PoolFunds + Target!AmountToLock(swap)
      /\ PoolCore' = PoolCore + swap.coreAmount
  BY <1>1, <1>2, <1>3, TheSwapIs DEF PoolFunds, PoolCore
<1>5. lockedSwaps' \in [Target!SwapId -> Target!LockedSwap] /\ locked' = Target!NotLocked
  BY <1>3, TheLockIs DEF TargetTypeOK, locked
<1>6. QED
  BY <1>3, <1>4, <1>5 DEF TargetTypeOK, TargetStep

\* The service fee and the share, and what is taken for core tokens.
LEMMA FeesTakenType ==
  ASSUME NEW b \in [Target!PoolTokenIndex -> Int]
  PROVE  Target!FeesTaken(b, swap) \in [Target!PoolTokenIndex -> Int]
<1>1. Target!ServiceFeeMinimum(swap.inToken) \in Int
  BY FeeAssumption DEF Target!ServiceFeeMinimum
<1>2. Target!ServiceFeeCharged(swap) \in Int
  BY <1>1, TheSwapIs DEF Target!ServiceFeeCharged, Target!ServiceFee
<1>3. /\ <<1, 0>> \in Target!PoolTokenIndex
      /\ <<1, swap.poolToShare>> \in Target!PoolTokenIndex
  BY PoolsAre, ListedTokens, PartiesAre, TheSwapIs
<1>4. [b EXCEPT ![<<1, 0>>] = @ + Target!ServiceFeeCharged(swap)]
        \in [Target!PoolTokenIndex -> Int]
  BY <1>2, <1>3
<1>5. QED
  BY <1>3, <1>4, TheSwapIs DEF Target!FeesTaken, Target!Credited

\* The recipient is paid the release amount in tokens, besides the core tokens.
LEMMA PaymentIs ==
  ASSUME TargetTypeOK, Target!PayRecipient(swap, Recipient)
  PROVE  /\ targetLedger' \in [Target!Holding -> Int]
         /\ RecipientHas' = RecipientHas + ReleaseAmount(swap)
<1> DEFINE l == Target!Moved(targetLedger, CoreToken, Meson, Recipient, swap.coreAmount)
<1>1. \A t \in Tokens, a \in {Meson, Recipient} : <<t, a>> \in Target!Holding
  BY HoldingsAre, PartiesAre
<1>2. l \in [Target!Holding -> Int]
  BY <1>1, ListedTokens, TheSwapIs DEF Target!Moved, TargetTypeOK
<1>3. l[<<TargetToken, Recipient>>] = RecipientHas
  BY <1>1, ListedTokens, TheSwapIs DEF Target!Moved, TargetTypeOK, RecipientHas
<1>4. targetLedger' = IF ReleaseAmount(swap) > 0
                      THEN Target!Moved(l, TargetToken, Meson, Recipient, ReleaseAmount(swap))
                      ELSE l
  BY TheSwapIs, AmountsAre, ListedTokens
  DEF Target!PayRecipient, Target!ReleasedTo, Target!Transferred
<1> HIDE DEF l
<1>5. RecipientHas \in Int
  BY <1>1, ListedTokens DEF RecipientHas, TargetTypeOK
<1>6. CASE ReleaseAmount(swap) > 0
  <2> DEFINE taken == [l EXCEPT ![<<TargetToken, Meson>>] = @ - ReleaseAmount(swap)]
  <2>1. targetLedger' = [taken EXCEPT ![<<TargetToken, Recipient>>] = @ + ReleaseAmount(swap)]
    BY <1>4, <1>6 DEF Target!Moved
  <2>2. <<TargetToken, Meson>> # <<TargetToken, Recipient>>
    BY PartiesAre
  <2>3. QED
    BY <1>1, <1>2, <1>3, <2>1, <2>2, ListedTokens, AmountsAre DEF RecipientHas
<1>7. CASE ~(ReleaseAmount(swap) > 0)
  BY <1>2, <1>3, <1>4, <1>5, <1>7, AmountsAre DEF RecipientHas
<1>8. QED
  BY <1>6, <1>7

LEMMA ReleaseIs ==
  ASSUME TargetTypeOK, Release
  PROVE  /\ TargetStep
         /\ Target!Locked(locked) /\ ReleaseSigned
         /\ locked' = Target!Released
         /\ RecipientHas' = RecipientHas + ReleaseAmount(swap)
<1>1. /\ Target!Locked(locked) /\ ReleaseSigned
      /\ lockedSwaps' = [lockedSwaps EXCEPT ![<<swap, Initiator>>] = Target!Released]
      /\ targetBalance' = Target!FeesTaken(targetBalance, swap)
      /\ Target!PayRecipient(swap, Recipient)
      /\ UNCHANGED <<careful, signatures, targetTime, sourceVars>>
  BY DEF Release, Target!Release, Target!Signed, Target!envVars, ReleaseSigned, Signature, locked
<1>2. targetBalance' \in [Target!PoolTokenIndex -> Int]
  BY <1>1, FeesTakenType DEF TargetTypeOK
<1>3. /\ lockedSwaps' \in [Target!SwapId -> Target!LockedSwap]
      /\ locked' = Target!Released
  BY <1>1, TheLockIs DEF TargetTypeOK, locked
<1>4. QED
  BY <1>1, <1>2, <1>3, PaymentIs DEF TargetTypeOK, TargetStep

LEMMA ReleaseDirectlyIs ==
  ASSUME TargetTypeOK, ReleaseDirectly
  PROVE  /\ TargetStep
         /\ Provider \in careful => Bonded /\ ~Source!SwapExpired(swap)
         /\ locked = Target!NotLocked /\ locked' = Target!Released
         /\ RecipientHas' = RecipientHas + ReleaseAmount(swap)
<1> DEFINE b == [targetBalance EXCEPT ![<<1, ProviderPool>>] = @ - Target!AmountToLock(swap)]
           c == Target!FeesTaken(b, swap)
<1>1. /\ Provider \in careful => Bonded /\ ~Source!SwapExpired(swap)
      /\ locked = Target!NotLocked
      /\ lockedSwaps' = [lockedSwaps EXCEPT ![<<swap, Initiator>>] = Target!Released]
      /\ targetBalance' = [c EXCEPT ![<<0, ProviderPool>>] = @ - swap.coreAmount]
      /\ Target!PayRecipient(swap, Recipient)
      /\ UNCHANGED <<careful, signatures, targetTime, sourceVars>>
  BY TheSwapIs, ListedTokens, PartiesAre
  DEF ReleaseDirectly, Target!DirectRelease, Target!NeverReleased, Target!Debited,
      Target!envVars, locked
<1>2. /\ <<1, ProviderPool>> \in Target!PoolTokenIndex
      /\ <<0, ProviderPool>> \in Target!PoolTokenIndex
  BY PoolsAre, ListedTokens, PartiesAre
<1>3. b \in [Target!PoolTokenIndex -> Int]
  BY <1>2, AmountsAre DEF TargetTypeOK
<1> HIDE DEF b
<1>4. c \in [Target!PoolTokenIndex -> Int]
  BY <1>3, FeesTakenType
<1> HIDE DEF c
<1>5. targetBalance' \in [Target!PoolTokenIndex -> Int]
  BY <1>1, <1>2, <1>4, TheSwapIs
<1>6. /\ lockedSwaps' \in [Target!SwapId -> Target!LockedSwap]
      /\ locked' = Target!Released
  BY <1>1, TheLockIs DEF TargetTypeOK, locked
<1>7. QED
  BY <1>1, <1>5, <1>6, PaymentIs DEF TargetTypeOK, TargetStep

-----------------------------------------------------------------------------
\* The invariant

\* Where the deposit is: with the initiator, in the contract, or gone to a pool.
NotDeposited ==
  /\ posted = Source!NotPosted
  /\ Deposit(Initiator) = swap.amount /\ Deposit(Provider) = 0 /\ PoolDeposit = 0

Deposited(p) ==
  /\ posted = Posting(p) /\ swap.amount > 0
  /\ Deposit(Initiator) = 0 /\ Deposit(Provider) = 0 /\ PoolDeposit = 0

Taken ==
  /\ posted \in {Source!NotPosted, Source!Executed} /\ swap.amount > 0
  /\ Deposit(Initiator) = 0 /\ ReleaseSigned

DepositInv == NotDeposited \/ (\E p \in {0, ProviderPool} : Deposited(p)) \/ Taken

\* Where the funds of the pool are: not locked, locked for the swap until the
\* margin before it expires, or released.
BooksUntouched == RecipientHas = 0 /\ PoolCore = 0

NotLockedYet == locked = Target!NotLocked /\ BooksUntouched /\ PoolFunds = Liquidity

Held ==
  /\ Target!Locked(locked) /\ locked.poolIndex = ProviderPool
  /\ locked.until + LOCK_MARGIN < swap.expireTs
  /\ BooksUntouched /\ swap.coreAmount = 0
  /\ Target!AmountToLock(swap) \in 0 .. Liquidity
  /\ PoolFunds = Liquidity - Target!AmountToLock(swap)

Given == locked = Target!Released /\ RecipientPaid

LockInv == NotLockedYet \/ Held \/ Given

\* Nothing has been paid out, so the contract covers what is locked.
LedgerInv ==
  locked # Target!Released =>
    /\ targetLedger[<<TargetToken, Meson>>] = Liquidity
    /\ targetLedger[<<CoreToken, Meson>>] = 0

SkewInv == sourceTime <= targetTime + MaxSkew

\* A careful initiator signs the release of a lock that then does not go away
\* but by the release.
InitiatorInv ==
  Initiator \in careful /\ ReleaseSigned =>
    (Target!Locked(locked) /\ targetTime <= locked.until) \/ locked = Target!Released

\* The deposit for what a careful provider has locked or released is bonded to
\* it, and the block time of the initial chain is not so far ahead that it
\* could be cancelled; or it has been executed.
ProviderInv ==
  Provider \in careful /\ locked # Target!NotLocked =>
    \/ /\ Deposited(ProviderPool)
       /\ IF Target!Locked(locked) THEN sourceTime <= locked.until + MaxSkew
          ELSE ~Source!SwapExpired(swap)
    \/ Taken /\ ProviderPaid

CrossInv ==
  /\ SourceTypeOK /\ TargetTypeOK
  /\ DepositInv /\ LockInv /\ LedgerInv /\ SkewInv
  /\ InitiatorInv /\ ProviderInv

LEMMA CrossInvInit == Init => CrossInv
<1> SUFFICES ASSUME Init PROVE CrossInv
  OBVIOUS
<1>1. /\ <<SourceToken, Initiator>> \in Source!Holding
      /\ <<SourceToken, Provider>> \in Source!Holding
      /\ <<TargetToken, Meson>> \in Target!Holding
      /\ <<TargetToken, Recipient>> \in Target!Holding
      /\ <<CoreToken, Meson>> \in Target!Holding
      /\ <<1, ProviderPool>> \in Source!PoolTokenIndex
      /\ <<1, ProviderPool>> \in Target!PoolTokenIndex
      /\ <<0, ProviderPool>> \in Target!PoolTokenIndex
  BY HoldingsAre, PoolsAre, ListedTokens, PartiesAre
<1>2. Source!NotPosted \in Source!PostedSwap
  BY PartiesAre DEF Source!NotPosted, Source!PostedSwap, Source!Address
<1>3. posted = Source!NotPosted /\ locked = Target!NotLocked
  BY TheSwapIs, TheLockIs DEF Init, Source!SwapInit, Target!PoolsInit, posted, locked
<1>4. SourceTypeOK
  BY <1>2, TheSwapIs DEF Init, Source!SwapInit, SourceTypeOK
<1>5. TargetTypeOK
  BY TheLockIs, PartiesAssumption DEF Init, Target!PoolsInit, TargetTypeOK
<1>6. NotDeposited
  BY <1>1, <1>3, PartiesAre DEF Init, NotDeposited, Deposit, PoolDeposit
<1>7. NotLockedYet
  BY <1>1, <1>3, PartiesAre DEF Init, NotLockedYet, BooksUntouched, RecipientHas, PoolCore, PoolFunds
<1>8. LedgerInv
  BY <1>1, <1>3, ListedTokens, PartiesAre DEF Init, LedgerInv
<1>9. SkewInv /\ InitiatorInv /\ ProviderInv
  BY <1>3, SkewAssumption DEF Init, SkewInv, InitiatorInv, ProviderInv, ReleaseSigned
<1>10. QED
  BY <1>4, <1>5, <1>6, <1>7, <1>8, <1>9 DEF CrossInv, DepositInv, LockInv

\* What does not look at a chain that stands still.
LEMMA TargetStays ==
  ASSUME CrossInv, UNCHANGED targetVars
  PROVE  TargetTypeOK' /\ LockInv' /\ LedgerInv' /\ locked' = locked
BY DEF CrossInv, targetVars, TargetTypeOK, LockInv, LedgerInv, NotLockedYet, Held, Given,
   BooksUntouched, RecipientHas, PoolCore, PoolFunds, RecipientPaid, locked

LEMMA DepositStays ==
  ASSUME CrossInv, UNCHANGED <<sourceLedger, sourceBalance, postedSwaps>>,
         ReleaseSigned => ReleaseSigned'
  PROVE  /\ DepositInv' /\ posted' = posted
         /\ Deposited(ProviderPool) => Deposited(ProviderPool)'
         /\ Taken /\ ProviderPaid => Taken' /\ ProviderPaid'
BY DEF CrossInv, DepositInv, NotDeposited, Deposited, Taken, Deposit, PoolDeposit, posted,
   ProviderPaid

LEMMA PostKeeps ==
  ASSUME CrossInv, NEW p \in {0, ProviderPool},
         PostByInitiator(p) \/ (PostByProvider /\ p = ProviderPool)
  PROVE  CrossInv'
<1>1. /\ SourceTypeOK'
      /\ posted = Source!NotPosted /\ posted' = Posting(p)
      /\ swap.amount > 0 /\ Deposit(Initiator) >= swap.amount
      /\ Deposit(Initiator)' = Deposit(Initiator) - swap.amount
      /\ Deposit(Provider)' = Deposit(Provider) /\ PoolDeposit' = PoolDeposit
      /\ UNCHANGED <<careful, signatures, sourceTime, targetVars>>
  BY PostIs DEF CrossInv
<1>2. \A q \in {0, ProviderPool} : posted # Posting(q)
  BY <1>1, PostingIsPending DEF Source!Pending
<1>3. NotDeposited /\ ~Taken
  BY <1>1, <1>2, TheSwapIs DEF CrossInv, DepositInv, Deposited, Taken, Deposit
<1>4. DepositInv'
  BY <1>1, <1>3, TheSwapIs DEF DepositInv, NotDeposited, Deposited, Deposit
<1>5. ProviderInv'
  <2>1. ~(Provider \in careful /\ locked # Target!NotLocked)
    BY <1>2, <1>3 DEF CrossInv, ProviderInv, Deposited
  <2>2. QED
    BY <1>1, <2>1, TargetStays DEF ProviderInv
<1>6. SkewInv' /\ InitiatorInv'
  BY <1>1 DEF CrossInv, SkewInv, InitiatorInv, ReleaseSigned, locked, targetVars
<1>7. QED
  BY <1>1, <1>4, <1>5, <1>6, TargetStays DEF CrossInv

LEMMA BondKeeps ==
  ASSUME CrossInv, Bond
  PROVE  CrossInv'
<1>1. /\ Source!Pending(posted) /\ posted.poolIndex = 0
      /\ posted' = [posted EXCEPT !.poolIndex = ProviderPool]
      /\ SourceTypeOK'
      /\ UNCHANGED <<careful, signatures, sourceTime, sourceLedger, sourceBalance, targetVars>>
  BY BondIs DEF CrossInv
<1>2. ~NotDeposited /\ ~Taken /\ posted # Posting(ProviderPool)
  BY <1>1, PartiesAre DEF NotDeposited, Taken, Source!Pending, Posting
<1>3. Deposited(0)
  BY <1>2 DEF CrossInv, DepositInv, Deposited
<1>4. DepositInv'
  BY <1>1, <1>3 DEF DepositInv, Deposited, Posting, Deposit, PoolDeposit
<1>5. ProviderInv'
  <2>1. ~(Provider \in careful /\ locked # Target!NotLocked)
    BY <1>2 DEF CrossInv, ProviderInv, Deposited
  <2>2. QED
    BY <1>1, <2>1, TargetStays DEF ProviderInv
<1>6. SkewInv' /\ InitiatorInv'
  BY <1>1 DEF CrossInv, SkewInv, InitiatorInv, ReleaseSigned, locked, targetVars
<1>7. QED
  BY <1>1, <1>4, <1>5, <1>6, TargetStays DEF CrossInv

\* The deposit of a careful provider can not be cancelled while it is needed:
\* by the block time of the initial chain the swap has not expired.
LEMMA NotExpiredYet ==
  ASSUME CrossInv, Provider \in careful, Deposited(ProviderPool), locked # Target!NotLocked
  PROVE  ~Source!SwapExpired(swap)
<1>1. CASE Target!Locked(locked)
  <2>1. Held
    BY <1>1, TheLockIs DEF CrossInv, LockInv, NotLockedYet, Given
  <2>2. locked.until \in Nat /\ sourceTime \in Nat
    BY TheLockIs DEF CrossInv, TargetTypeOK, SourceTypeOK, Target!LockedSwap, locked
  <2>3. sourceTime <= locked.until + MaxSkew
    <3>1. ~Taken
      BY PostingIsPending DEF Deposited, Taken, Source!Pending
    <3>2. QED
      BY <1>1, <3>1 DEF CrossInv, ProviderInv
  <2>4. QED
    BY <2>1, <2>2, <2>3, TheSwapIs, SkewAssumption DEF Held, Source!SwapExpired
<1>2. CASE ~Target!Locked(locked)
  <2>1. ~Taken
    BY PostingIsPending DEF Deposited, Taken, Source!Pending
  <2>2. QED
    BY <1>2, <2>1 DEF CrossInv, ProviderInv
<1>3. QED
  BY <1>1, <1>2

LEMMA PendingIsDeposited ==
  ASSUME CrossInv, Source!Pending(posted)
  PROVE  \E p \in {0, ProviderPool} : posted = Posting(p) /\ Deposited(p)
<1>1. ~NotDeposited /\ ~Taken
  BY DEF NotDeposited, Taken, Source!Pending
<1>2. QED
  BY <1>1 DEF CrossInv, DepositInv, Deposited

LEMMA CancelKeeps ==
  ASSUME CrossInv, Cancel
  PROVE  CrossInv'
<1>1. Source!Pending(posted)
  BY DEF Cancel, Source!CancelSwap, Source!CancelTo, posted
<1>2. PICK p \in {0, ProviderPool} : posted = Posting(p) /\ Deposited(p)
  BY <1>1, PendingIsDeposited
<1>3. /\ SourceTypeOK'
      /\ posted' = Source!NotPosted /\ Source!SwapExpired(swap)
      /\ Deposit(Initiator)' = Deposit(Initiator) + swap.amount
      /\ Deposit(Provider)' = Deposit(Provider) /\ PoolDeposit' = PoolDeposit
      /\ UNCHANGED <<careful, signatures, sourceTime, targetVars>>
  BY <1>2, CancelIs DEF CrossInv, Posting
<1>4. DepositInv'
  BY <1>2, <1>3, TheSwapIs DEF DepositInv, NotDeposited, Deposited, Deposit
<1>5. ProviderInv'
  <2>1. ~Taken
    BY <1>1 DEF Taken, Source!Pending
  <2>2. ~(Provider \in careful /\ locked # Target!NotLocked)
    BY <1>3, <2>1, NotExpiredYet DEF CrossInv, ProviderInv
  <2>3. QED
    BY <1>3, <2>2, TargetStays DEF ProviderInv
<1>6. SkewInv' /\ InitiatorInv'
  BY <1>3 DEF CrossInv, SkewInv, InitiatorInv, ReleaseSigned, locked, targetVars
<1>7. QED
  BY <1>3, <1>4, <1>5, <1>6, TargetStays DEF CrossInv

LEMMA ExecuteKeeps ==
  ASSUME CrossInv, NEW depositToPool \in BOOLEAN, Execute(depositToPool)
  PROVE  CrossInv'
<1>1. Source!Pending(posted)
  BY DEF Execute, Source!ExecuteSwap, posted
<1>2. PICK p \in {0, ProviderPool} : posted = Posting(p) /\ Deposited(p)
  BY <1>1, PendingIsDeposited
<1>3. /\ SourceTypeOK'
      /\ posted' \in {Source!NotPosted, Source!Executed}
      /\ ReleaseSigned
      /\ Deposit(Initiator)' = Deposit(Initiator)
      /\ p = ProviderPool =>
           Deposit(Provider)' + PoolDeposit' = Deposit(Provider) + PoolDeposit + swap.amount
      /\ UNCHANGED <<careful, signatures, sourceTime, targetVars>>
  BY <1>2, ExecuteIs DEF CrossInv
<1>4. Taken'
  BY <1>2, <1>3 DEF Deposited, Taken, Deposit, ReleaseSigned
<1>5. ProviderInv'
  <2> SUFFICES ASSUME Provider \in careful, locked # Target!NotLocked
               PROVE  ProviderPaid'
    BY <1>3, <1>4, TargetStays DEF ProviderInv
  <2>1. ~Taken
    BY <1>1 DEF Taken, Source!Pending
  <2>2. Deposited(ProviderPool)
    BY <2>1 DEF CrossInv, ProviderInv
  <2>3. p = ProviderPool
    BY <1>2, <2>2, PartiesAre DEF Deposited, Posting
  <2>4. Deposit(Provider)' + PoolDeposit' = swap.amount
    BY <1>3, <2>2, <2>3, TheSwapIs DEF Deposited, Deposit
  <2>5. QED
    BY <2>4 DEF ProviderPaid, Deposit, PoolDeposit
<1>6. SkewInv' /\ InitiatorInv'
  BY <1>3 DEF CrossInv, SkewInv, InitiatorInv, ReleaseSigned, locked, targetVars
<1>7. QED
  BY <1>3, <1>4, <1>5, <1>6, TargetStays DEF CrossInv, DepositInv

\* A step on the target chain leaves the initial chain alone.
LEMMA SourceStays ==
  ASSUME CrossInv, TargetStep
  PROVE  /\ SourceTypeOK' /\ TargetTypeOK' /\ DepositInv' /\ SkewInv'
         /\ Deposited(ProviderPool) => Deposited(ProviderPool)'
         /\ Taken /\ ProviderPaid => Taken' /\ ProviderPaid'
<1>1. /\ UNCHANGED <<signatures, sourceTime, targetTime, sourceLedger, sourceBalance, postedSwaps>>
      /\ TargetTypeOK'
  BY DEF TargetStep, sourceVars
<1>2. ReleaseSigned => ReleaseSigned'
  BY <1>1 DEF ReleaseSigned
<1>3. QED
  BY <1>1, <1>2, DepositStays DEF CrossInv, SourceTypeOK, SkewInv

LEMMA LockKeeps ==
  ASSUME CrossInv, Lock
  PROVE  CrossInv'
<1>1. /\ TargetStep /\ UNCHANGED targetLedger
      /\ Provider \in careful => Bonded
      /\ locked = Target!NotLocked
      /\ locked' = LockUntil(targetTime + LOCK_TIME_PERIOD)
      /\ targetTime + LOCK_TIME_PERIOD + LOCK_MARGIN < swap.expireTs
      /\ Target!AmountToLock(swap) >= 0 /\ PoolFunds >= Target!AmountToLock(swap)
      /\ PoolCore >= swap.coreAmount
      /\ PoolFunds' = PoolFunds - Target!AmountToLock(swap)
      /\ PoolCore' = PoolCore - swap.coreAmount
  BY LockIs DEF CrossInv
<1>2. targetTime \in Nat /\ sourceTime \in Nat /\ UNCHANGED <<careful, signatures, sourceTime>>
  BY <1>1 DEF CrossInv, TargetTypeOK, SourceTypeOK, TargetStep, sourceVars
<1>3. NotLockedYet
  BY <1>1, TheLockIs DEF CrossInv, LockInv, Held, Given
<1>4. Target!Locked(locked') /\ locked'.until = targetTime + LOCK_TIME_PERIOD
      /\ locked'.poolIndex = ProviderPool
  BY <1>1, <1>2, TheLockIs DEF LockUntil
<1>5. Held'
  <2>1. swap.coreAmount = 0
    BY <1>1, <1>3, TheSwapIs DEF NotLockedYet, BooksUntouched
  <2>2. BooksUntouched'
    BY <1>1, <1>3, <2>1 DEF NotLockedYet, BooksUntouched, RecipientHas
  <2>3. PoolFunds' = Liquidity - Target!AmountToLock(swap)
    BY <1>1, <1>3 DEF NotLockedYet
  <2>4. Target!AmountToLock(swap) \in 0 .. Liquidity
    BY <1>1, <1>3, AmountsAre, PartiesAssumption DEF NotLockedYet
  <2>5. QED
    BY <1>1, <1>4, <2>1, <2>2, <2>3, <2>4 DEF Held
<1>6. LedgerInv'
  BY <1>1, TheLockIs DEF CrossInv, LedgerInv
<1>7. InitiatorInv'
  BY <1>1, <1>2, TheLockIs DEF CrossInv, InitiatorInv, ReleaseSigned
<1>8. ProviderInv'
  <2> SUFFICES ASSUME Provider \in careful
               PROVE  Deposited(ProviderPool)' /\ sourceTime <= locked'.until + MaxSkew
    BY <1>2, <1>4 DEF ProviderInv
  <2>1. Deposited(ProviderPool)
    <3>1. PICK p \in {0, ProviderPool} : posted = Posting(p) /\ Deposited(p)
      BY <1>1, PendingIsDeposited DEF Bonded
    <3>2. p = ProviderPool
      BY <1>1, <3>1 DEF Bonded, Posting
    <3>3. QED
      BY <3>1, <3>2
  <2>2. sourceTime <= locked'.until + MaxSkew
    BY <1>2, <1>4, SkewAssumption DEF CrossInv, SkewInv
  <2>3. QED
    BY <1>1, <2>1, <2>2, SourceStays
<1>9. QED
  BY <1>1, <1>5, <1>6, <1>7, <1>8, SourceStays DEF CrossInv, LockInv

LEMMA UnlockKeeps ==
  ASSUME CrossInv, Unlock
  PROVE  CrossInv'
<1>1. Held
  BY TheLockIs DEF Unlock, Target!Unlock, CrossInv, LockInv, NotLockedYet, Given, locked
<1>2. /\ TargetStep /\ UNCHANGED targetLedger
      /\ locked.until < targetTime
      /\ locked' = Target!NotLocked
      /\ PoolFunds' = PoolFunds + Target!AmountToLock(swap)
      /\ PoolCore' = PoolCore + swap.coreAmount
  BY <1>1, UnlockIs DEF CrossInv, Held
<1>3. NotLockedYet'
  BY <1>1, <1>2, AmountsAre, PartiesAssumption
  DEF Held, NotLockedYet, BooksUntouched, RecipientHas
<1>4. LedgerInv'
  BY <1>1, <1>2, TheLockIs DEF CrossInv, LedgerInv, Held
<1>5. ~(Initiator \in careful /\ ReleaseSigned)
  <2>1. locked.until \in Nat /\ targetTime \in Nat
    BY TheLockIs DEF CrossInv, TargetTypeOK, Target!LockedSwap, locked
  <2>2. QED
    BY <1>1, <1>2, <2>1, TheLockIs DEF CrossInv, InitiatorInv, Held
<1>6. InitiatorInv'
  BY <1>2, <1>5 DEF TargetStep, InitiatorInv, ReleaseSigned
<1>7. ProviderInv'
  BY <1>2 DEF ProviderInv
<1>8. QED
  BY <1>2, <1>3, <1>4, <1>6, <1>7, SourceStays DEF CrossInv, LockInv

LEMMA ReleaseKeeps ==
  ASSUME CrossInv, Release
  PROVE  CrossInv'
<1>1. /\ TargetStep
      /\ Target!Locked(locked)
      /\ locked' = Target!Released
      /\ RecipientHas' = RecipientHas + ReleaseAmount(swap)
  BY ReleaseIs DEF CrossInv
<1>2. Held
  BY <1>1, TheLockIs DEF CrossInv, LockInv, NotLockedYet, Given
<1>3. Given'
  BY <1>1, <1>2, AmountsAre DEF Given, Held, BooksUntouched, RecipientPaid, RecipientHas
<1>4. ProviderInv'
  <2> SUFFICES ASSUME Provider \in careful
               PROVE  \/ Deposited(ProviderPool)' /\ ~Source!SwapExpired(swap)
                      \/ Taken' /\ ProviderPaid'
    BY <1>1, TheLockIs DEF ProviderInv, TargetStep, sourceVars, Source!SwapExpired
  <2>1. Deposited(ProviderPool) \/ (Taken /\ ProviderPaid)
    BY <1>1, TheLockIs DEF CrossInv, ProviderInv
  <2>2. Deposited(ProviderPool) => ~Source!SwapExpired(swap)
    BY <1>1, NotExpiredYet, TheLockIs
  <2>3. QED
    BY <1>1, <2>1, <2>2, SourceStays
<1>5. LedgerInv' /\ InitiatorInv'
  BY <1>1 DEF LedgerInv, InitiatorInv
<1>6. QED
  BY <1>1, <1>3, <1>4, <1>5, SourceStays DEF CrossInv, LockInv

LEMMA ReleaseDirectlyKeeps ==
  ASSUME CrossInv, ReleaseDirectly
  PROVE  CrossInv'
<1>1. /\ TargetStep
      /\ Provider \in careful => Bonded /\ ~Source!SwapExpired(swap)
      /\ locked = Target!NotLocked /\ locked' = Target!Released
      /\ RecipientHas' = RecipientHas + ReleaseAmount(swap)
  BY ReleaseDirectlyIs DEF CrossInv
<1>2. NotLockedYet
  BY <1>1, TheLockIs DEF CrossInv, LockInv, Held, Given
<1>3. Given'
  BY <1>1, <1>2, AmountsAre DEF Given, NotLockedYet, BooksUntouched, RecipientPaid, RecipientHas
<1>4. ProviderInv'
  <2> SUFFICES ASSUME Provider \in careful
               PROVE  Deposited(ProviderPool)' /\ ~Source!SwapExpired(swap)
    BY <1>1, TheLockIs DEF ProviderInv, TargetStep, sourceVars, Source!SwapExpired
  <2>1. PICK p \in {0, ProviderPool} : posted = Posting(p) /\ Deposited(p)
    BY <1>1, PendingIsDeposited DEF Bonded
  <2>2. p = ProviderPool
    BY <1>1, <2>1 DEF Bonded, Posting
  <2>3. QED
    BY <1>1, <2>1, <2>2, SourceStays
<1>5. LedgerInv' /\ InitiatorInv'
  BY <1>1 DEF LedgerInv, InitiatorInv
<1>6. QED
  BY <1>1, <1>3, <1>4, <1>5, SourceStays DEF CrossInv, LockInv

LEMMA SignKeeps ==
  ASSUME CrossInv, SignRequest \/ SignRelease
  PROVE  CrossInv'
<1>1. /\ UNCHANGED <<careful, sourceVars, targetVars>>
      /\ ReleaseSigned => ReleaseSigned'
  BY DEF SignRequest, SignRelease, ReleaseSigned
<1>2. UNCHANGED <<sourceTime, sourceLedger, sourceBalance, postedSwaps, targetTime>>
  BY <1>1 DEF sourceVars, targetVars
<1>3. TargetTypeOK' /\ LockInv' /\ LedgerInv' /\ locked' = locked
  BY <1>1, TargetStays
<1>4. /\ DepositInv' /\ posted' = posted
      /\ Deposited(ProviderPool) => Deposited(ProviderPool)'
      /\ Taken /\ ProviderPaid => Taken' /\ ProviderPaid'
  BY <1>1, <1>2, DepositStays
<1>5. SourceTypeOK' /\ SkewInv'
  BY <1>2 DEF CrossInv, SourceTypeOK, SkewInv
<1>6. InitiatorInv'
  <2>1. CASE SignRequest
    <3>1. ReleaseSigned' => ReleaseSigned
      BY <2>1 DEF SignRequest, ReleaseSigned, Signature
    <3>2. QED
      BY <1>1, <1>2, <1>3, <3>1 DEF CrossInv, InitiatorInv
  <2>2. CASE SignRelease
    BY <1>1, <1>2, <1>3, <2>2 DEF SignRelease, InitiatorInv
  <2>3. QED
    BY <2>1, <2>2
<1>7. ProviderInv'
  BY <1>1, <1>2, <1>3, <1>4 DEF CrossInv, ProviderInv, Source!SwapExpired
<1>8. QED
  BY <1>3, <1>4, <1>5, <1>6, <1>7 DEF CrossInv

\* Time stands still where a careful party has to react, so that neither clock
\* passes what the party relies on.
LEMMA TickKeeps ==
  ASSUME CrossInv, TickSource \/ TickTarget
  PROVE  CrossInv'
<1>1. /\ UNCHANGED <<careful, signatures, sourceLedger, sourceBalance, postedSwaps,
                     targetLedger, targetBalance, lockedSwaps>>
      /\ Quiet
      /\ \/ /\ sourceTime' = sourceTime + 1 /\ targetTime' = targetTime
            /\ sourceTime < targetTime + MaxSkew
         \/ /\ sourceTime' = sourceTime /\ targetTime' = targetTime + 1
  BY DEF TickSource, TickTarget, sourceVars, targetVars
<1>2. sourceTime \in Nat /\ targetTime \in Nat /\ MaxSkew \in Nat
  BY SkewAssumption DEF CrossInv, SourceTypeOK, TargetTypeOK
<1>3. ReleaseSigned' = ReleaseSigned /\ locked' = locked
  BY <1>1 DEF ReleaseSigned, locked
<1>4. SourceTypeOK' /\ TargetTypeOK' /\ SkewInv'
  BY <1>1, <1>2 DEF CrossInv, SourceTypeOK, TargetTypeOK, SkewInv
<1>5. LockInv' /\ LedgerInv'
  BY <1>1, <1>3
  DEF CrossInv, LockInv, LedgerInv, NotLockedYet, Held, Given, BooksUntouched, RecipientHas,
      PoolCore, PoolFunds, RecipientPaid
<1>6. /\ DepositInv'
      /\ Deposited(ProviderPool) => Deposited(ProviderPool)'
      /\ Taken /\ ProviderPaid => Taken' /\ ProviderPaid'
  BY <1>1, <1>3, DepositStays
<1>7. InitiatorInv'
  BY <1>1, <1>3, TheLockIs DEF CrossInv, InitiatorInv, Quiet, InitiatorReacts
<1>8. ProviderInv'
  <2> SUFFICES ASSUME Provider \in careful, locked # Target!NotLocked
               PROVE  \/ /\ Deposited(ProviderPool)
                         /\ Target!Locked(locked) /\ sourceTime' <= locked.until + MaxSkew
                      \/ Taken /\ ProviderPaid
    BY <1>1, <1>3, <1>6 DEF ProviderInv
  <2>1. \/ Deposited(ProviderPool) /\ Target!Locked(locked) /\ sourceTime <= locked.until + MaxSkew
        \/ Deposited(ProviderPool) /\ ~Target!Locked(locked)
        \/ Taken /\ ProviderPaid
    BY DEF CrossInv, ProviderInv
  <2>2. CASE Deposited(ProviderPool) /\ ~Target!Locked(locked)
    <3>1. locked = Target!Released
      BY <2>2 DEF Target!Locked
    <3>2. Bonded
      BY <2>2, PostingIsPending, PartiesAre DEF Deposited, Bonded, Posting
    <3>3. QED
      BY <1>1, <3>1, <3>2 DEF Quiet, ProviderReacts
  <2>3. CASE Target!Locked(locked) /\ sourceTime <= locked.until + MaxSkew
    <3>1. ~(locked.until < targetTime)
      BY <1>1, <2>3 DEF Quiet, ProviderReacts, Target!UnlockableAt
    <3>2. locked.until \in Nat
      BY TheLockIs DEF CrossInv, TargetTypeOK, Target!LockedSwap, locked
    <3>3. sourceTime' <= locked.until + MaxSkew
      BY <1>1, <1>2, <2>3, <3>1, <3>2
    <3>4. QED
      BY <2>1, <2>3, <3>3
  <2>4. QED
    BY <2>1, <2>2, <2>3
<1>9. QED
  BY <1>4, <1>5, <1>6, <1>7, <1>8 DEF CrossInv

LEMMA CrossInvNext == CrossInv /\ [Next]_vars => CrossInv'
<1> SUFFICES ASSUME CrossInv, [Next]_vars PROVE CrossInv'
  OBVIOUS
<1>1. CASE UNCHANGED vars
  <2>1. /\ UNCHANGED <<careful, signatures, sourceTime, targetTime, sourceLedger, sourceBalance,
                       postedSwaps, targetVars>>
    BY <1>1 DEF vars, sourceVars, targetVars
  <2>2. ReleaseSigned' = ReleaseSigned
    BY <2>1 DEF ReleaseSigned
  <2>3. QED
    BY <2>1, <2>2, TargetStays, DepositStays
    DEF CrossInv, SourceTypeOK, SkewInv, InitiatorInv, ProviderInv, Source!SwapExpired
<1>2. CASE Next
  <2>1. ASSUME NEW p \in {0, ProviderPool}, PostByInitiator(p)
        PROVE  CrossInv'
    BY <2>1, PostKeeps
  <2>2. CASE PostByProvider
    BY <2>2, PostKeeps
  <2>3. QED
    BY <1>2, <2>1, <2>2, SignKeeps, BondKeeps, LockKeeps, UnlockKeeps, ReleaseKeeps,
       ReleaseDirectlyKeeps, ExecuteKeeps, CancelKeeps, TickKeeps
    DEF Next
<1>3. QED
  BY <1>1, <1>2

LEMMA CrossInvAlways == Spec => []CrossInv
BY CrossInvInit, CrossInvNext, PTL DEF Spec

\* A reading client does nothing to the chains.
LEMMA ClientOnlyReads == StatusSpec => Spec
<1>1. StatusInit => Init
  BY DEF StatusInit
<1>2. [StatusNext]_statusVars => [Next]_vars
  BY DEF StatusNext, StartCheck, ReadPosted, ReadLocked, ReadFails, statusVars
<1>3. QED
  BY <1>1, <1>2, PTL DEF StatusSpec, Spec

-----------------------------------------------------------------------------
\* A careful initiator whose deposit has gone to a pool sees the recipient paid,
\* or still can have the release executed at once (executeSwap against lockSwap,
\* unlock and release).
THEOREM InitiatorStaysWhole == Spec => []InitiatorIsWhole
<1>1. CrossInv => InitiatorIsWhole
  <2> SUFFICES ASSUME CrossInv, Initiator \in careful, InitiatorPaidIn, ~Source!Pending(posted),
                      ~RecipientPaid
               PROVE  ReleaseGoesThrough
    BY DEF InitiatorIsWhole
  <2>1. Taken
    <3>1. ~NotDeposited
      BY TheSwapIs DEF NotDeposited, InitiatorPaidIn, Deposit
    <3>2. \A p \in {0, ProviderPool} : ~Deposited(p)
      BY PostingIsPending DEF Deposited
    <3>3. QED
      BY <3>1, <3>2 DEF CrossInv, DepositInv
  <2>2. Held /\ targetTime <= locked.until
    <3>1. (Target!Locked(locked) /\ targetTime <= locked.until) \/ locked = Target!Released
      BY <2>1 DEF Taken, CrossInv, InitiatorInv
    <3>2. ~Given /\ ~NotLockedYet
      BY <3>1, TheLockIs DEF Given, NotLockedYet
    <3>3. Held
      BY <3>2 DEF CrossInv, LockInv
    <3>4. QED
      BY <3>1, <3>3, TheLockIs DEF Held
  <2>3. Target!Releasable(swap)
    <3>1. locked.until \in Nat /\ targetTime \in Nat
      BY TheLockIs DEF CrossInv, TargetTypeOK, Target!LockedSwap, locked
    <3>2. QED
      BY <2>2, <3>1, TheSwapIs, SkewAssumption DEF Held, Target!Releasable
  <2>4. /\ targetLedger[<<TargetToken, Meson>>] = Liquidity
        /\ targetLedger[<<CoreToken, Meson>>] = 0
    BY <2>2, TheLockIs DEF CrossInv, LedgerInv, Held
  <2>5. Target!CanRelease(targetLedger, swap, Recipient, ReleaseAmount(swap))
    <3>1. Liquidity >= ReleaseAmount(swap)
      BY <2>2, AmountsAre, PartiesAssumption DEF Held
    <3>2. QED
      BY <2>4, <3>1, TheSwapIs, ListedTokens, PartiesAre DEF Target!CanRelease, Target!CanTransfer
  <2>6. QED
    BY <2>1, <2>2, <2>3, <2>4, <2>5, TheSwapIs, SwapAssumption DEF Taken, Held, ReleaseGoesThrough
<1>2. QED
  BY <1>1, CrossInvAlways, PTL

\* A careful provider that has spent funds on the swap has the deposit, or can
\* still take it (lockSwap, release and directRelease against cancelSwap): when
\* the clocks are not apart by more than the margin of a lock.
THEOREM ProviderStaysWhole == Spec => []ProviderIsWhole
<1>1. CrossInv => ProviderIsWhole
  <2> SUFFICES ASSUME CrossInv, Provider \in careful, ProviderSpent, ~Target!Locked(locked)
               PROVE  ProviderPaid \/ (Bonded /\ ~Source!SwapExpired(swap))
    BY DEF ProviderIsWhole
  <2>1. ~NotLockedYet
    BY PartiesAssumption DEF NotLockedYet, PoolFunds, ProviderSpent
  <2>2. locked # Target!NotLocked
    BY <2>1, TheLockIs DEF CrossInv, LockInv, Held, Given
  <2>3. CASE Taken /\ ProviderPaid
    BY <2>3
  <2>4. CASE Deposited(ProviderPool)
    <3>1. Bonded
      BY <2>4, PostingIsPending, PartiesAre DEF Deposited, Bonded, Posting
    <3>2. QED
      BY <2>2, <2>4, <3>1, NotExpiredYet
  <2>5. QED
    BY <2>2, <2>3, <2>4 DEF CrossInv, ProviderInv
<1>2. QED
  BY <1>1, CrossInvAlways, PTL

\* A release signature that was given stays given.
LEMMA SignaturesStay ==
  ASSUME CrossInv, [Next]_vars
  PROVE  careful' = careful /\ (ReleaseSigned => ReleaseSigned')
<1>1. CASE SignRequest \/ SignRelease \/ UNCHANGED vars
  BY <1>1 DEF SignRequest, SignRelease, vars, ReleaseSigned
<1>2. ASSUME NEW p, PostByInitiator(p)
      PROVE  UNCHANGED <<careful, signatures>>
  BY <1>2 DEF PostByInitiator, Source!PostSwapFromInitiator, Source!envVars
<1>3. CASE PostByProvider \/ Bond \/ Cancel \/ \E d \in BOOLEAN : Execute(d)
  BY <1>3
  DEF PostByProvider, Source!PostSwap, Bond, Source!BondSwap, Source!statesVars, Cancel,
      Source!CancelSwap, Source!CancelTo, Execute, Source!ExecuteSwap, Source!envVars,
      ReleaseSigned
<1>4. CASE Lock \/ Unlock \/ Release \/ ReleaseDirectly
  BY <1>4
  DEF Lock, Target!LockSwap, Unlock, Target!Unlock, Release, Target!Release, ReleaseDirectly,
      Target!DirectRelease, Target!envVars, ReleaseSigned
<1>5. CASE TickSource \/ TickTarget
  BY <1>5 DEF TickSource, TickTarget, ReleaseSigned
<1>6. QED
  BY <1>1, <1>2, <1>3, <1>4, <1>5 DEF Next, ReleaseSigned

\* What a client has read, and what it shows: a deposit that was executed, which
\* takes the release signature.
ReadInv ==
  /\ reading.waitsFor \in {"nothing", "posted", "locked"}
  /\ reading.waitsFor = "locked" /\ reading.posted = "Executed" => ReleaseSigned
  /\ ExecutedIsCovered

LEMMA ReadInvInit == StatusInit => ReadInv
BY DEF StatusInit, ReadInv, ExecutedIsCovered, Idle, NoReport, NotRead

LEMMA ReadInvNext == CrossInv /\ ReadInv /\ [StatusNext]_statusVars => ReadInv'
<1> SUFFICES ASSUME CrossInv, ReadInv, [StatusNext]_statusVars PROVE ReadInv'
  OBVIOUS
<1>1. CASE UNCHANGED statusVars \/ (Next /\ UNCHANGED <<reading, report>>)
  <2>1. careful' = careful /\ (ReleaseSigned => ReleaseSigned') /\ UNCHANGED <<reading, report>>
    BY <1>1, SignaturesStay DEF statusVars
  <2>2. QED
    BY <2>1 DEF ReadInv, ExecutedIsCovered
<1>2. CASE StartCheck
  <2>1. /\ reading'.waitsFor = "posted" /\ report' = <<NotRead, NotRead>>
    BY <1>2 DEF StartCheck, NoReport
  <2>2. QED
    BY <2>1 DEF ReadInv, ExecutedIsCovered, NotRead
<1>3. CASE ReadPosted
  <2>1. PICK status :
          /\ status = PostedStatus(reading.expired)
          /\ \/ reading' = [waitsFor |-> "locked", posted |-> status] /\ report' = report
             \/ reading' = Idle /\ report' = <<status, NotRead>>
          /\ UNCHANGED vars
    BY <1>3 DEF ReadPosted
  <2>2. status = "Executed" => posted = Source!Executed
    BY <2>1 DEF PostedStatus
  <2>3. status = "Executed" => ReleaseSigned
    <3>1. posted = Source!Executed => Taken
      BY PostingIsPending, PartiesAre
      DEF CrossInv, DepositInv, NotDeposited, Deposited, Source!Pending, Source!NotPosted,
          Source!Executed
    <3>2. QED
      BY <2>2, <3>1 DEF Taken
  <2>4. careful' = careful /\ ReleaseSigned' = ReleaseSigned
    BY <2>1 DEF vars, ReleaseSigned
  <2>5. QED
    BY <2>1, <2>3, <2>4 DEF ReadInv, ExecutedIsCovered, Idle, NotRead
<1>4. CASE ReadLocked
  <2>1. PICK t \in ClientTimes :
          /\ report' = <<reading.posted, LockedStatus(t)>>
          /\ reading.waitsFor = "locked" /\ reading' = Idle
          /\ careful' = careful
    BY <1>4 DEF ReadLocked, vars
  <2>2. Initiator \in careful /\ ReleaseSigned => LockedStatus(t) # "None"
    <3>1. Initiator \in careful /\ ReleaseSigned => locked # Target!NotLocked
      BY TheLockIs DEF CrossInv, InitiatorInv
    <3>2. locked # Target!NotLocked => LockedStatus(t) # "None"
      BY DEF LockedStatus
    <3>3. QED
      BY <3>1, <3>2
  <2>3. QED
    BY <2>1, <2>2 DEF ReadInv, ExecutedIsCovered, Idle
<1>5. CASE ReadFails
  <2>1. /\ reading' = Idle /\ report'[2] = NotRead
    BY <1>5 DEF ReadFails, NoReport
  <2>2. QED
    BY <2>1 DEF ReadInv, ExecutedIsCovered, Idle, NotRead
<1>6. QED
  BY <1>1, <1>2, <1>3, <1>4, <1>5 DEF StatusNext

\* The status of an executed deposit is never shown to a careful initiator next
\* to the one of a swap that nobody has locked (checkSwapStatus), although the
\* chains are read one after the other.
THEOREM ExecutedIsAlwaysCovered == StatusSpec => []ExecutedIsCovered
<1>1. StatusSpec => []CrossInv
  BY ClientOnlyReads, CrossInvAlways, PTL
<1>2. ReadInv => ExecutedIsCovered
  BY DEF ReadInv
<1>3. QED
  BY <1>1, <1>2, ReadInvInit, ReadInvNext, PTL DEF StatusSpec
=============================================================================
