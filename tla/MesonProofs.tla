----------------------------- MODULE MesonProofs -----------------------------
(***************************************************************************)
(* The deployed contract, for every choice of swaps, addresses, tokens,    *)
(* pools and time periods: type correctness, whose heart is that no pool   *)
(* balance and no holding ever becomes negative; the invariants of the     *)
(* registries; that the two sides of a swap implement their abstract       *)
(* specifications; and where the money of a swap goes when its record      *)
(* changes.                                                                *)
(***************************************************************************)
EXTENDS MesonProperties, TLAPS

-----------------------------------------------------------------------------
\* What the helpers return.

LEMMA SwapFields ==
  ASSUME NEW s \in Swaps
  PROVE  /\ s.amount \in Nat /\ s.fee \in Nat /\ s.expireTs \in Nat
         /\ s.inToken \in TokenIndex /\ s.outToken \in TokenIndex
         /\ s.forCore \in Nat /\ s.coreAmount \in Nat
         /\ s.share \in Nat /\ s.poolToShare \in PoolIndices
         /\ s.feeWaived \in BOOLEAN /\ s.toContract \in BOOLEAN
BY SwapsAssumption DEF EncodedSwap

LEMMA FeesAreNat ==
  ASSUME NEW s \in Swaps
  PROVE  /\ ServiceFee(s) \in Nat
         /\ ServiceFeeCharged(s) \in Nat
         /\ AmountToLock(s) \in Int
         /\ ReleaseAmount(s) \in Int
         /\ ReleaseAmount(s) <= AmountToLock(s)
<1>1. (s.amount * 5) \div 10000 \in Nat
  BY SwapFields
<1>2. ServiceFeeMinimum(s.inToken) \in Nat
  BY FeeAssumption DEF ServiceFeeMinimum
<1>3. ServiceFee(s) \in Nat
  BY <1>1, <1>2 DEF ServiceFee
<1>4. ServiceFeeCharged(s) \in Nat
  BY <1>3 DEF ServiceFeeCharged
<1>5. AmountToLock(s) \in Int
  BY SwapFields DEF AmountToLock
<1>6. ReleaseAmount(s) \in Int /\ ReleaseAmount(s) <= AmountToLock(s)
  BY <1>4, <1>5, SwapFields DEF ReleaseAmount
<1>7. QED
  BY <1>3, <1>4, <1>5, <1>6

LEMMA MovedType ==
  ASSUME NEW l \in [Holding -> Nat], NEW t \in Tokens,
         NEW from \in Address, NEW to \in Address, NEW n \in Nat,
         l[<<t, from>>] >= n
  PROVE  Moved(l, t, from, to, n) \in [Holding -> Nat]
<1> DEFINE m == [l EXCEPT ![<<t, from>>] = @ - n]
<1>1. <<t, from>> \in Holding /\ <<t, to>> \in Holding
  BY DEF Holding
<1>2. m \in [Holding -> Nat]
  BY <1>1
<1>3. [m EXCEPT ![<<t, to>>] = @ + n] \in [Holding -> Nat]
  BY <1>1, <1>2
<1>4. QED
  BY <1>3 DEF Moved

LEMMA CreditedType ==
  ASSUME NEW b \in [PoolTokenIndex -> Nat], NEW i \in TokenIndex,
         NEW p \in PoolIndices, NEW n \in Nat
  PROVE  Credited(b, i, p, n) \in [PoolTokenIndex -> Nat]
BY DEF Credited, PoolTokenIndex

LEMMA DebitedType ==
  ASSUME NEW b \in [PoolTokenIndex -> Nat], NEW i \in TokenIndex,
         NEW p \in PoolIndices, NEW n \in Nat, Covers(b, i, p, n)
  PROVE  Debited(b, i, p, n) \in [PoolTokenIndex -> Nat]
BY DEF Debited, Covers, PoolTokenIndex

LEMMA TokenAtType ==
  ASSUME NEW i \in TokenIndex, Transferable(i)
  PROVE  TokenAt(i) \in Tokens
BY AddressAssumption DEF Transferable, TokenAt

LEMMA DepositTokenType ==
  ASSUME StatesTypeOK, NEW caller, NEW sender, NEW i \in TokenIndex,
         NEW n \in Nat, DepositToken(caller, sender, i, n)
  PROVE  ledger' \in [Holding -> Nat]
<1> DEFINE payer == IF IsCoreToken(i) THEN caller ELSE sender
<1>1. payer \in Address /\ Meson \in Address
  BY DEF DepositToken, Address
<1>2. TokenAt(i) \in Tokens
  BY TokenAtType DEF DepositToken
<1>3. /\ ledger[<<TokenAt(i), payer>>] >= n
      /\ ledger' = Moved(ledger, TokenAt(i), payer, Meson, n)
  BY DEF DepositToken
<1> HIDE DEF payer
<1>4. QED
  BY <1>1, <1>2, <1>3, MovedType DEF StatesTypeOK

LEMMA TransferredType ==
  ASSUME NEW l \in [Holding -> Nat], NEW i \in TokenIndex,
         NEW recipient \in Address, NEW n \in Nat,
         CanTransfer(l, i, recipient, n)
  PROVE  Transferred(l, i, recipient, n) \in [Holding -> Nat]
<1>1. TokenAt(i) \in Tokens
  BY TokenAtType DEF CanTransfer
<1>2. l[<<TokenAt(i), Meson>>] >= n /\ Meson \in Address
  BY DEF CanTransfer, Address
<1>3. QED
  BY <1>1, <1>2, MovedType DEF Transferred

-----------------------------------------------------------------------------
\* Steps of the initial-chain side.

LEMMA PostStepType ==
  ASSUME TypeOK, NEW s \in Swaps, NEW caller \in Accounts, NEW sender,
         NEW v \in PostingValue, DepositToken(caller, sender, s.inToken, s.amount),
         postedSwaps' = [postedSwaps EXCEPT ![s] = v],
         UNCHANGED <<envVars, tokenVars, registryVars, balanceOfPoolToken>>
  PROVE  StatesTypeOK' /\ SwapTypeOK'
<1>1. ledger' \in [Holding -> Nat]
  BY DepositTokenType, SwapFields DEF TypeOK
<1>2. v \in PostedSwap
  BY AddressAssumption DEF PostingValue, PostedSwap, Address
<1>3. SwapTypeOK'
  BY <1>2 DEF TypeOK, SwapTypeOK
<1>4. StatesTypeOK'
  BY <1>1 DEF TypeOK, StatesTypeOK, envVars, tokenVars, registryVars
<1>5. QED
  BY <1>3, <1>4

LEMMA CancelStepType ==
  ASSUME TypeOK, NEW s \in Swaps, NEW recipient \in Address,
         CancelTo(s, recipient)
  PROVE  StatesTypeOK' /\ SwapTypeOK'
<1>1. ledger' \in [Holding -> Nat]
  BY TransferredType, SwapFields DEF TypeOK, StatesTypeOK, CancelTo
<1>2. NotPosted \in PostedSwap
  BY IndexAssumption DEF NotPosted, PostedSwap, Address
<1>3. SwapTypeOK'
  BY <1>2 DEF TypeOK, SwapTypeOK, CancelTo
<1>4. StatesTypeOK'
  BY <1>1 DEF TypeOK, StatesTypeOK, CancelTo, envVars, tokenVars, registryVars
<1>5. QED
  BY <1>3, <1>4

LEMMA PostedFields ==
  ASSUME TypeOK, NEW s \in Swaps
  PROVE  /\ postedSwaps[s].initiator \in Address
         /\ postedSwaps[s].poolIndex \in PoolIndices
         /\ ownerOfPool[postedSwaps[s].poolIndex] \in Address
BY DEF TypeOK, SwapTypeOK, PostedSwap, StatesTypeOK

LEMMA ExecuteStepType ==
  ASSUME TypeOK, NEW s \in Swaps, NEW recipient, NEW depositToPool,
         ExecuteSwap(s, recipient, depositToPool)
  PROVE  StatesTypeOK' /\ SwapTypeOK'
<1>1. ledger' \in [Holding -> Nat]
  BY TransferredType, SwapFields, PostedFields
  DEF TypeOK, StatesTypeOK, ExecuteSwap
<1>2. balanceOfPoolToken' \in [PoolTokenIndex -> Nat]
  <2>1. Credited(balanceOfPoolToken, s.inToken, postedSwaps[s].poolIndex,
                 s.amount) \in [PoolTokenIndex -> Nat]
    BY CreditedType, SwapFields, PostedFields DEF TypeOK, StatesTypeOK
  <2>2. QED
    BY <2>1 DEF TypeOK, StatesTypeOK, ExecuteSwap
<1>3. ValueAfterExecution(s) \in PostedSwap
  BY IndexAssumption
  DEF ValueAfterExecution, NotPosted, Executed, PostedSwap, Address
<1>4. SwapTypeOK'
  BY <1>3 DEF TypeOK, SwapTypeOK, ExecuteSwap
<1>5. StatesTypeOK'
  BY <1>1, <1>2
  DEF TypeOK, StatesTypeOK, ExecuteSwap, envVars, tokenVars, registryVars
<1>6. QED
  BY <1>4, <1>5

LEMMA SwapStepType ==
  ASSUME TypeOK, SwapNext
  PROVE  StatesTypeOK' /\ SwapTypeOK'
<1>1. PICK s \in Swaps, caller \in Accounts :
        \/ \E v \in PostingValue : \/ PostSwap(caller, s, v)
                                   \/ PostSwapFromInitiator(s, v)
                                   \/ PostSwapFromContract(caller, s, v)
        \/ \E p \in PoolIndices : BondSwap(caller, s, p)
        \/ CancelSwap(s)
        \/ \E recipient \in Recipients : CancelSwapTo(s, recipient)
        \/ \E recipient \in Recipients, depositToPool \in BOOLEAN :
             ExecuteSwap(s, recipient, depositToPool)
        \/ \E initiator \in Initiators, recipient \in Recipients :
             DirectExecuteSwap(caller, s, initiator, recipient)
        \/ SimpleExecuteSwap(caller, s)
  BY DEF SwapNext
<1>2. ASSUME NEW v \in PostingValue, PostSwap(caller, s, v)
      PROVE  StatesTypeOK' /\ SwapTypeOK'
  BY <1>2, PostStepType DEF PostSwap
<1>3. ASSUME NEW v \in PostingValue, PostSwapFromInitiator(s, v)
      PROVE  StatesTypeOK' /\ SwapTypeOK'
  <2>1. v.initiator \in Accounts
    BY <1>3 DEF PostSwapFromInitiator, DepositToken
  <2>2. QED
    BY <1>3, <2>1, PostStepType DEF PostSwapFromInitiator
<1>4. ASSUME NEW v \in PostingValue, PostSwapFromContract(caller, s, v)
      PROVE  StatesTypeOK' /\ SwapTypeOK'
  BY <1>4, PostStepType DEF PostSwapFromContract
<1>5. ASSUME NEW p \in PoolIndices, BondSwap(caller, s, p)
      PROVE  StatesTypeOK' /\ SwapTypeOK'
  BY <1>5 DEF BondSwap, TypeOK, StatesTypeOK, SwapTypeOK, PostedSwap, statesVars
<1>6. ASSUME CancelSwap(s)
      PROVE  StatesTypeOK' /\ SwapTypeOK'
  BY <1>6, PostedFields, CancelStepType DEF CancelSwap
<1>7. ASSUME NEW recipient \in Recipients, CancelSwapTo(s, recipient)
      PROVE  StatesTypeOK' /\ SwapTypeOK'
  BY <1>7, CancelStepType, AddressAssumption DEF CancelSwapTo, Address
<1>8. ASSUME NEW recipient \in Recipients, NEW depositToPool \in BOOLEAN,
             ExecuteSwap(s, recipient, depositToPool)
      PROVE  StatesTypeOK' /\ SwapTypeOK'
  BY <1>8, ExecuteStepType
<1>9. ASSUME NEW initiator \in Initiators, NEW recipient \in Recipients,
             DirectExecuteSwap(caller, s, initiator, recipient)
      PROVE  StatesTypeOK' /\ SwapTypeOK'
  <2>1. ledger' \in [Holding -> Nat]
    BY <1>9, DepositTokenType, SwapFields DEF TypeOK, DirectExecuteSwap
  <2>2. balanceOfPoolToken' \in [PoolTokenIndex -> Nat]
    BY <1>9, CreditedType, SwapFields, IndexAssumption
    DEF TypeOK, StatesTypeOK, DirectExecuteSwap
  <2>3. Executed \in PostedSwap
    BY IndexAssumption DEF Executed, PostedSwap, Address
  <2>4. QED
    BY <1>9, <2>1, <2>2, <2>3
    DEF DirectExecuteSwap, TypeOK, StatesTypeOK, SwapTypeOK, envVars,
        tokenVars, registryVars
<1>10. ASSUME SimpleExecuteSwap(caller, s)
       PROVE  StatesTypeOK' /\ SwapTypeOK'
  <2>1. ledger' \in [Holding -> Nat]
    BY <1>10, DepositTokenType, SwapFields DEF TypeOK, SimpleExecuteSwap
  <2>2. balanceOfPoolToken' \in [PoolTokenIndex -> Nat]
    BY <1>10, CreditedType, SwapFields, IndexAssumption
    DEF TypeOK, StatesTypeOK, SimpleExecuteSwap
  <2>3. QED
    BY <1>10, <2>1, <2>2
    DEF SimpleExecuteSwap, TypeOK, StatesTypeOK, SwapTypeOK, envVars,
        tokenVars, registryVars
<1>11. QED
  BY <1>1, <1>2, <1>3, <1>4, <1>5, <1>6, <1>7, <1>8, <1>9, <1>10

-----------------------------------------------------------------------------
\* Steps of the pools.

LEMMA PoolOfType ==
  ASSUME TypeOK, NEW caller \in Accounts
  PROVE  caller \in Address /\ poolOfAuthorizedAddr[caller] \in PoolIndices
BY DEF TypeOK, StatesTypeOK, Address

LEMMA CoreIndexType ==
  ASSUME TypeOK
  PROVE  CoreIndex \in TokenIndex
BY AddressAssumption DEF TypeOK, StatesTypeOK, CoreIndex

LEMMA LockedFields ==
  ASSUME TypeOK, NEW id \in SwapId
  PROVE  /\ lockedSwaps[id].until \in Nat
         /\ lockedSwaps[id].poolIndex \in PoolIndices
BY DEF TypeOK, PoolsTypeOK, LockedSwap

LEMMA RegistryStepType ==
  ASSUME TypeOK, NEW caller \in Accounts, NEW addr \in Members,
         \/ AddAuthorizedAddr(caller, addr)
         \/ RemoveAuthorizedAddr(caller, addr)
         \/ TransferPoolOwner(caller, addr)
  PROVE  StatesTypeOK' /\ PoolsTypeOK'
<1>1. addr \in Address
  BY LockTimeAssumption
<1>2. 0 \in PoolIndices
  BY IndexAssumption
<1>3. QED
  BY <1>1, <1>2, PoolOfType
  DEF AddAuthorizedAddr, RemoveAuthorizedAddr, TransferPoolOwner, TypeOK,
      StatesTypeOK, PoolsTypeOK, envVars, tokenVars

LEMMA FundsStepType ==
  ASSUME TypeOK, NEW caller \in Accounts, NEW amount \in Amounts,
         NEW i \in TokenIndex, NEW p \in PoolIndices,
         \/ DepositAndRegister(caller, amount, i, p)
         \/ Deposit(caller, amount, i, p)
         \/ Withdraw(caller, amount, i, p)
  PROVE  StatesTypeOK' /\ PoolsTypeOK'
<1>1. amount \in Nat
  BY LockTimeAssumption
<1>2. caller \in Address
  BY PoolOfType
<1>3. CASE DepositAndRegister(caller, amount, i, p)
  <2>1. ledger' \in [Holding -> Nat]
    BY <1>1, <1>3, DepositTokenType DEF TypeOK, DepositAndRegister
  <2>2. balanceOfPoolToken' \in [PoolTokenIndex -> Nat]
    BY <1>1, <1>3, CreditedType DEF TypeOK, StatesTypeOK, DepositAndRegister
  <2>3. QED
    BY <1>2, <1>3, <2>1, <2>2
    DEF DepositAndRegister, TypeOK, StatesTypeOK, PoolsTypeOK, envVars,
        tokenVars
<1>4. CASE Deposit(caller, amount, i, p)
  <2>1. ledger' \in [Holding -> Nat]
    BY <1>1, <1>4, DepositTokenType DEF TypeOK, Deposit
  <2>2. balanceOfPoolToken' \in [PoolTokenIndex -> Nat]
    BY <1>1, <1>4, CreditedType DEF TypeOK, StatesTypeOK, Deposit
  <2>3. QED
    BY <1>4, <2>1, <2>2
    DEF Deposit, TypeOK, StatesTypeOK, PoolsTypeOK, envVars, tokenVars,
        registryVars
<1>5. CASE Withdraw(caller, amount, i, p)
  <2>1. ledger' \in [Holding -> Nat]
    BY <1>1, <1>2, <1>5, TransferredType DEF TypeOK, StatesTypeOK, Withdraw
  <2>2. balanceOfPoolToken' \in [PoolTokenIndex -> Nat]
    BY <1>1, <1>5, DebitedType DEF TypeOK, StatesTypeOK, Withdraw
  <2>3. QED
    BY <1>5, <2>1, <2>2
    DEF Withdraw, TypeOK, StatesTypeOK, PoolsTypeOK, envVars, tokenVars,
        registryVars
<1>6. QED
  BY <1>3, <1>4, <1>5

LEMMA LockStepType ==
  ASSUME TypeOK, NEW caller \in Accounts, NEW s \in Swaps,
         NEW initiator \in Initiators, LockSwap(caller, s, initiator)
  PROVE  StatesTypeOK' /\ PoolsTypeOK'
<1> DEFINE p == poolOfAuthorizedAddr[caller]
           b == Debited(balanceOfPoolToken, s.outToken, p, AmountToLock(s))
           locked == [until |-> now + LOCK_TIME_PERIOD, poolIndex |-> p]
<1>1. p \in PoolIndices /\ CoreIndex \in TokenIndex
  BY PoolOfType, CoreIndexType
<1>2. AmountToLock(s) \in Nat /\ s.outToken \in TokenIndex /\ s.coreAmount \in Nat
  BY FeesAreNat, SwapFields DEF LockSwap
<1>3. b \in [PoolTokenIndex -> Nat]
  BY <1>1, <1>2, DebitedType DEF LockSwap, TypeOK, StatesTypeOK
<1>4. Covers(b, CoreIndex, p, s.coreAmount)
  BY DEF LockSwap
<1>5. balanceOfPoolToken' = Debited(b, CoreIndex, p, s.coreAmount)
  BY DEF LockSwap
<1>6. locked \in LockedSwap
  BY <1>1, LockTimeAssumption DEF TypeOK, StatesTypeOK, LockedSwap
<1>7. lockedSwaps' = [lockedSwaps EXCEPT ![<<s, initiator>>] = locked]
  BY DEF LockSwap
<1> HIDE DEF p, b, locked
<1>8. balanceOfPoolToken' \in [PoolTokenIndex -> Nat]
  BY <1>1, <1>2, <1>3, <1>4, <1>5, DebitedType
<1>9. PoolsTypeOK'
  BY <1>6, <1>7 DEF TypeOK, PoolsTypeOK
<1>10. StatesTypeOK'
  BY <1>8
  DEF LockSwap, TypeOK, StatesTypeOK, envVars, tokenVars, registryVars
<1>11. QED
  BY <1>9, <1>10

LEMMA UnlockStepType ==
  ASSUME TypeOK, NEW s \in Swaps, NEW initiator \in Initiators,
         Unlock(s, initiator)
  PROVE  StatesTypeOK' /\ PoolsTypeOK'
<1> DEFINE p == lockedSwaps[<<s, initiator>>].poolIndex
           b == Credited(balanceOfPoolToken, s.outToken, p, AmountToLock(s))
<1>1. p \in PoolIndices /\ CoreIndex \in TokenIndex
  BY LockedFields, CoreIndexType DEF SwapId
<1>2. AmountToLock(s) \in Nat /\ s.outToken \in TokenIndex /\ s.coreAmount \in Nat
  BY FeesAreNat, SwapFields DEF Unlock
<1>3. b \in [PoolTokenIndex -> Nat]
  BY <1>1, <1>2, CreditedType DEF TypeOK, StatesTypeOK
<1>4. balanceOfPoolToken' = Credited(b, CoreIndex, p, s.coreAmount)
  BY DEF Unlock
<1> HIDE DEF p, b
<1>5. balanceOfPoolToken' \in [PoolTokenIndex -> Nat]
  BY <1>1, <1>2, <1>3, <1>4, CreditedType
<1>6. PoolsTypeOK'
  BY IndexAssumption DEF Unlock, TypeOK, PoolsTypeOK, LockedSwap, NotLocked
<1>7. StatesTypeOK'
  BY <1>5 DEF Unlock, TypeOK, StatesTypeOK, envVars, tokenVars, registryVars
<1>8. QED
  BY <1>6, <1>7

\* What a release pays out and takes as fees.

LEMMA ReleasedToType ==
  ASSUME NEW l \in [Holding -> Nat], NEW s \in Swaps,
         NEW recipient \in Address, NEW n \in Nat,
         CanRelease(l, s, recipient, n)
  PROVE  ReleasedTo(l, s, recipient, n) \in [Holding -> Nat]
<1>1. CASE s.toContract \/ n > 0
  BY <1>1, SwapFields, TransferredType DEF CanRelease, ReleasedTo
<1>2. CASE ~(s.toContract \/ n > 0)
  BY <1>2 DEF ReleasedTo
<1>3. QED
  BY <1>1, <1>2

LEMMA PayRecipientType ==
  ASSUME StatesTypeOK, NEW s \in Swaps, NEW recipient \in Address,
         CanTakeFees(s), PayRecipient(s, recipient)
  PROVE  ledger' \in [Holding -> Nat]
<1> DEFINE l == Moved(ledger, CoreToken, Meson, recipient, s.coreAmount)
<1>1. l \in [Holding -> Nat]
  BY SwapFields, MovedType, AddressAssumption
  DEF PayRecipient, StatesTypeOK, Address
<1>2. CanRelease(l, s, recipient, ReleaseAmount(s))
  BY DEF PayRecipient
<1>3. ledger' = ReleasedTo(l, s, recipient, ReleaseAmount(s))
  BY DEF PayRecipient
<1>4. ReleaseAmount(s) \in Nat
  BY FeesAreNat DEF CanTakeFees
<1> HIDE DEF l
<1>5. QED
  BY <1>1, <1>2, <1>3, <1>4, ReleasedToType

LEMMA FeesTakenType ==
  ASSUME NEW b \in [PoolTokenIndex -> Nat], NEW s \in Swaps
  PROVE  FeesTaken(b, s) \in [PoolTokenIndex -> Nat]
<1> DEFINE c == Credited(b, s.outToken, 0, ServiceFeeCharged(s))
<1>1. c \in [PoolTokenIndex -> Nat]
  BY FeesAreNat, SwapFields, CreditedType, IndexAssumption
<1>2. FeesTaken(b, s) = Credited(c, s.outToken, s.poolToShare, s.share)
  BY DEF FeesTaken
<1> HIDE DEF c
<1>3. /\ s.outToken \in TokenIndex
      /\ s.poolToShare \in PoolIndices /\ s.share \in Nat
  BY SwapFields
<1>4. Credited(c, s.outToken, s.poolToShare, s.share)
        \in [PoolTokenIndex -> Nat]
  BY <1>1, <1>3, CreditedType
<1>5. QED
  BY <1>2, <1>4

LEMMA ReleasedType ==
  ASSUME TypeOK, NEW id \in SwapId,
         lockedSwaps' = [lockedSwaps EXCEPT ![id] = Released]
  PROVE  PoolsTypeOK'
<1>1. Released \in LockedSwap
  BY IndexAssumption DEF LockedSwap, Released
<1>2. QED
  BY <1>1 DEF TypeOK, PoolsTypeOK

LEMMA ReleaseStepType ==
  ASSUME TypeOK, NEW caller \in Accounts, NEW s \in Swaps,
         NEW initiator \in Initiators, NEW recipient \in Recipients,
         Release(caller, premiumManager, s, initiator, recipient)
  PROVE  StatesTypeOK' /\ PoolsTypeOK'
<1>1. recipient \in Address
  BY AddressAssumption DEF Address
<1>2. ledger' \in [Holding -> Nat]
  BY <1>1, PayRecipientType DEF Release, TypeOK
<1>3. balanceOfPoolToken' \in [PoolTokenIndex -> Nat]
  BY FeesTakenType DEF Release, TypeOK, StatesTypeOK
<1>4. PoolsTypeOK'
  BY ReleasedType DEF Release, SwapId
<1>5. StatesTypeOK'
  BY <1>2, <1>3
  DEF Release, TypeOK, StatesTypeOK, envVars, tokenVars, registryVars
<1>6. QED
  BY <1>4, <1>5

LEMMA DirectReleaseStepType ==
  ASSUME TypeOK, NEW caller \in Accounts, NEW s \in Swaps,
         NEW initiator \in Initiators, NEW recipient \in Recipients,
         NEW withSig \in BOOLEAN,
         DirectRelease(caller, premiumManager, s, initiator, recipient, withSig)
  PROVE  StatesTypeOK' /\ PoolsTypeOK'
<1> DEFINE p == poolOfAuthorizedAddr[caller]
           b == Debited(balanceOfPoolToken, s.outToken, p, AmountToLock(s))
           c == FeesTaken(b, s)
<1>1. recipient \in Address
  BY AddressAssumption DEF Address
<1>2. ledger' \in [Holding -> Nat]
  BY <1>1, PayRecipientType DEF DirectRelease, TypeOK
<1>3. p \in PoolIndices /\ CoreIndex \in TokenIndex
  BY PoolOfType, CoreIndexType
<1>4. AmountToLock(s) \in Nat /\ s.outToken \in TokenIndex /\ s.coreAmount \in Nat
  BY FeesAreNat, SwapFields DEF DirectRelease
<1>5. Covers(balanceOfPoolToken, s.outToken, p, AmountToLock(s))
  BY DEF DirectRelease
<1>6. b \in [PoolTokenIndex -> Nat]
  BY <1>3, <1>4, <1>5, DebitedType DEF TypeOK, StatesTypeOK
<1>7. c \in [PoolTokenIndex -> Nat]
  <2> HIDE DEF b
  <2>1. QED
    BY <1>6, FeesTakenType
<1>8. /\ Covers(c, CoreIndex, p, s.coreAmount)
      /\ balanceOfPoolToken' = Debited(c, CoreIndex, p, s.coreAmount)
  BY DEF DirectRelease
<1>9. balanceOfPoolToken' \in [PoolTokenIndex -> Nat]
  <2> HIDE DEF p, c
  <2>1. QED
    BY <1>3, <1>4, <1>7, <1>8, DebitedType
<1>10. PoolsTypeOK'
  BY ReleasedType DEF DirectRelease, SwapId
<1>11. StatesTypeOK'
  BY <1>2, <1>9
  DEF DirectRelease, TypeOK, StatesTypeOK, envVars, tokenVars, registryVars
<1>12. QED
  BY <1>10, <1>11

\* The steps of the pools, by what they are about.

FundsStep ==
  \E caller \in Accounts, amount \in Amounts, i \in TokenIndex, p \in PoolIndices :
    \/ DepositAndRegister(caller, amount, i, p)
    \/ Deposit(caller, amount, i, p)
    \/ Withdraw(caller, amount, i, p)

MembersStep ==
  \E caller \in Accounts, addr \in Members :
    \/ AddAuthorizedAddr(caller, addr)
    \/ RemoveAuthorizedAddr(caller, addr)
    \/ TransferPoolOwner(caller, addr)

LockStep ==
  \E caller \in Accounts, s \in Swaps, initiator \in Initiators :
    LockSwap(caller, s, initiator) \/ Unlock(s, initiator)

ReleaseStep ==
  \E caller \in Accounts, s \in Swaps, initiator \in Initiators,
     recipient \in Recipients :
    \/ Release(caller, premiumManager, s, initiator, recipient)
    \/ \E withSig \in BOOLEAN :
         DirectRelease(caller, premiumManager, s, initiator, recipient, withSig)

LEMMA PoolsCases ==
  PoolsNext(premiumManager)
    => FundsStep \/ MembersStep \/ LockStep \/ ReleaseStep
BY Zenon DEF PoolsNext, FundsStep, MembersStep, LockStep, ReleaseStep

LEMMA PoolsStepType ==
  ASSUME TypeOK, PoolsNext(premiumManager)
  PROVE  StatesTypeOK' /\ PoolsTypeOK'
<1>1. CASE FundsStep
  BY <1>1, FundsStepType DEF FundsStep
<1>2. CASE MembersStep
  BY <1>2, RegistryStepType DEF MembersStep
<1>3. CASE LockStep
  BY <1>3, LockStepType, UnlockStepType DEF LockStep
<1>4. CASE ReleaseStep
  BY <1>4, ReleaseStepType, DirectReleaseStepType DEF ReleaseStep
<1>5. QED
  BY <1>1, <1>2, <1>3, <1>4, PoolsCases

-----------------------------------------------------------------------------
\* Steps of the owner and of the premium manager.

LEMMA DirectSwapType ==
  ASSUME TypeOK, NEW caller \in Accounts, NEW s \in Swaps,
         NEW recipient \in Recipients, DirectSwap(caller, s, recipient)
  PROVE  TypeOK'
<1> DEFINE amountOut == s.amount - s.fee
           b == Credited(balanceOfPoolToken, s.inToken, 1, s.amount)
           l == Moved(ledger, TokenAt(s.inToken), caller, Meson, s.amount)
<1>1. /\ recipient \in Address /\ caller \in Address /\ Meson \in Address
      /\ 1 \in PoolIndices
  BY AddressAssumption, IndexAssumption DEF Address
<1>2. /\ amountOut \in Nat /\ s.amount \in Nat
      /\ s.inToken \in TokenIndex /\ s.outToken \in TokenIndex
  BY SwapFields DEF DirectSwap
<1>3. b \in [PoolTokenIndex -> Nat]
  BY <1>1, <1>2, CreditedType DEF TypeOK, StatesTypeOK
<1>4. /\ Covers(b, s.outToken, 1, amountOut)
      /\ balanceOfPoolToken' = Debited(b, s.outToken, 1, amountOut)
  BY DEF DirectSwap
<1>5. balanceOfPoolToken' \in [PoolTokenIndex -> Nat]
  <2> HIDE DEF b, amountOut
  <2>1. QED
    BY <1>1, <1>2, <1>3, <1>4, DebitedType
<1>6. TokenAt(s.inToken) \in Tokens
  BY <1>2, TokenAtType DEF DirectSwap
<1>7. l \in [Holding -> Nat]
  BY <1>1, <1>2, <1>6, MovedType DEF DirectSwap, TypeOK, StatesTypeOK
<1>8. /\ CanRelease(l, s, recipient, amountOut)
      /\ ledger' = ReleasedTo(l, s, recipient, amountOut)
  BY DEF DirectSwap
<1>9. ledger' \in [Holding -> Nat]
  <2> HIDE DEF l, amountOut
  <2>1. QED
    BY <1>1, <1>2, <1>7, <1>8, ReleasedToType
<1>10. QED
  BY <1>5, <1>9
  DEF DirectSwap, TypeOK, StatesTypeOK, SwapTypeOK, PoolsTypeOK,
      ManagerTypeOK, envVars, tokenVars, registryVars, managerVars

LEMMA ManagerStepType ==
  ASSUME TypeOK, ManagerNext
  PROVE  TypeOK'
<1>1. CASE \E l \in Listings : ListToken(l[1], l[2])
  <2>1. PICK l \in Listings : ListToken(l[1], l[2])
    BY <1>1
  <2>2. l[1] \in Tokens /\ l[2] \in TokenIndex
    BY DeploymentAssumption DEF TokenIndex
  <2>3. QED
    BY <2>1, <2>2
    DEF ListToken, AddSupportToken, TypeOK, StatesTypeOK, SwapTypeOK,
        PoolsTypeOK, ManagerTypeOK, envVars, registryVars, managerVars
<1>2. CASE \E i \in Delistings : DelistToken(i)
  <2>1. PICK i \in Delistings : DelistToken(i)
    BY <1>2
  <2>2. i \in TokenIndex /\ 0 \in TokenIndex
    BY DeploymentAssumption DEF TokenIndex
  <2>3. QED
    BY <2>1, <2>2
    DEF DelistToken, RemoveSupportToken, TypeOK, StatesTypeOK, SwapTypeOK,
        PoolsTypeOK, ManagerTypeOK, envVars, registryVars, managerVars
<1>3. CASE \E a \in Managers : TransferOwnership(a) \/ TransferPremiumManager(a)
  BY <1>3, DeploymentAssumption
  DEF TransferOwnership, TransferPremiumManager, TypeOK, StatesTypeOK,
      SwapTypeOK, PoolsTypeOK, ManagerTypeOK, statesVars
<1>4. CASE \E i \in TokenIndex, amount \in Amounts, p \in PoolIndices :
             WithdrawServiceFee(i, amount, p)
  <2>1. PICK i \in TokenIndex, amount \in Amounts, p \in PoolIndices :
          WithdrawServiceFee(i, amount, p)
    BY <1>4
  <2> DEFINE b == Debited(balanceOfPoolToken, i, 0, amount)
  <2>2. amount \in Nat /\ 0 \in PoolIndices
    BY LockTimeAssumption, IndexAssumption
  <2>3. b \in [PoolTokenIndex -> Nat]
    BY <2>1, <2>2, DebitedType DEF WithdrawServiceFee, TypeOK, StatesTypeOK
  <2>4. balanceOfPoolToken' = Credited(b, i, p, amount)
    BY <2>1 DEF WithdrawServiceFee
  <2>5. balanceOfPoolToken' \in [PoolTokenIndex -> Nat]
    <3> HIDE DEF b
    <3>1. QED
      BY <2>2, <2>3, <2>4, CreditedType
  <2>6. QED
    BY <2>1, <2>5
    DEF WithdrawServiceFee, TypeOK, StatesTypeOK, SwapTypeOK, PoolsTypeOK,
        ManagerTypeOK, envVars, tokenVars, registryVars, managerVars
<1>5. CASE \E caller \in Accounts, s \in Swaps, recipient \in Recipients :
             DirectSwap(caller, s, recipient)
  BY <1>5, DirectSwapType
<1>6. QED
  BY <1>1, <1>2, <1>3, <1>4, <1>5 DEF ManagerNext

-----------------------------------------------------------------------------
\* The contract.

LEMMA InitType == Init => TypeOK
<1> SUFFICES ASSUME Init PROVE TypeOK
  OBVIOUS
<1>1. indexOfToken \in [Tokens -> TokenIndex]
  <2>1. \A t \in Tokens : (\E i \in TokenIndices : Deployment[i] = t)
          => (CHOOSE i \in TokenIndices : Deployment[i] = t) \in TokenIndex
    BY DEF TokenIndex
  <2>2. 0 \in TokenIndex
    BY DEF TokenIndex
  <2>3. QED
    BY <2>1, <2>2 DEF Init
<1>2. StatesTypeOK
  BY <1>1, DeploymentAssumption, IndexAssumption
  DEF Init, StatesTypeOK, Address
<1>3. SwapTypeOK
  BY IndexAssumption
  DEF Init, SwapInit, SwapTypeOK, PostedSwap, NotPosted, Address
<1>4. PoolsTypeOK
  BY IndexAssumption DEF Init, PoolsInit, PoolsTypeOK, LockedSwap, NotLocked
<1>5. ManagerTypeOK
  BY DeploymentAssumption DEF Init, ManagerTypeOK
<1>6. QED
  BY <1>2, <1>3, <1>4, <1>5 DEF TypeOK

LEMMA NextType == TypeOK /\ [Next]_vars => TypeOK'
<1> SUFFICES ASSUME TypeOK, [Next]_vars PROVE TypeOK'
  OBVIOUS
<1>1. CASE SwapNext /\ UNCHANGED <<lockedSwaps, managerVars>>
  BY <1>1, SwapStepType DEF TypeOK, PoolsTypeOK, ManagerTypeOK, managerVars
<1>2. CASE PoolsNext(premiumManager) /\ UNCHANGED <<postedSwaps, managerVars>>
  BY <1>2, PoolsStepType DEF TypeOK, SwapTypeOK, ManagerTypeOK, managerVars
<1>3. CASE ManagerNext
  BY <1>3, ManagerStepType
<1>4. CASE Tick
  BY <1>4
  DEF Tick, TypeOK, StatesTypeOK, SwapTypeOK, PoolsTypeOK, ManagerTypeOK,
      tokenVars, registryVars, managerVars
<1>5. CASE \E g \in Signable : Sign(g)
  BY <1>5, DeploymentAssumption
  DEF Sign, TypeOK, StatesTypeOK, SwapTypeOK, PoolsTypeOK, ManagerTypeOK,
      tokenVars, registryVars, managerVars
<1>6. CASE UNCHANGED vars
  BY <1>6 DEF vars, TypeOK, StatesTypeOK, SwapTypeOK, PoolsTypeOK, ManagerTypeOK
<1>7. QED
  BY <1>1, <1>2, <1>3, <1>4, <1>5, <1>6 DEF Next

\* Every variable keeps its type: whatever calls are made in whatever order,
\* the checked subtractions keep each pool balance and each holding of a token
\* from becoming negative, and no lock or posted swap names an unknown pool.
THEOREM TypeCorrect == Spec => []TypeOK
<1>1. QED
  BY InitType, NextType, PTL DEF Spec

-----------------------------------------------------------------------------
\* The pool registry

\* Most steps leave the pool registry alone; these are the others.
RegistryStep ==
  \/ UNCHANGED registryVars
  \/ \E caller \in Accounts, amount \in Amounts, i \in TokenIndex,
        p \in PoolIndices : DepositAndRegister(caller, amount, i, p)
  \/ MembersStep

LEMMA OnlyRegistrySteps == [Next]_vars => RegistryStep
<1> SUFFICES ASSUME [Next]_vars PROVE RegistryStep
  OBVIOUS
<1>1. CASE SwapNext
  BY <1>1
  DEF SwapNext, PostSwap, PostSwapFromInitiator, PostSwapFromContract,
      BondSwap, CancelSwap, CancelSwapTo, CancelTo, ExecuteSwap,
      DirectExecuteSwap, SimpleExecuteSwap, statesVars, RegistryStep,
      registryVars
<1>2. CASE PoolsNext(premiumManager)
  <2>1. CASE FundsStep
    BY <2>1 DEF FundsStep, Deposit, Withdraw, RegistryStep
  <2>2. CASE MembersStep
    BY <2>2 DEF RegistryStep
  <2>3. CASE LockStep
    BY <2>3 DEF LockStep, LockSwap, Unlock, RegistryStep
  <2>4. CASE ReleaseStep
    BY <2>4 DEF ReleaseStep, Release, DirectRelease, RegistryStep
  <2>5. QED
    BY <1>2, <2>1, <2>2, <2>3, <2>4, PoolsCases
<1>3. CASE ManagerNext
  BY <1>3
  DEF ManagerNext, ListToken, DelistToken, TransferOwnership,
      TransferPremiumManager, WithdrawServiceFee, DirectSwap, statesVars,
      RegistryStep, registryVars
<1>4. CASE Tick \/ (\E g \in Signable : Sign(g)) \/ UNCHANGED vars
  BY <1>4 DEF Tick, Sign, vars, RegistryStep, registryVars
<1>5. QED
  BY <1>1, <1>2, <1>3, <1>4 DEF Next

\* Pool 0 holds the service fees and is never registered.
FeePoolIsUnowned == ownerOfPool[0] = ZeroAddress

RegistryInv == TypeOK /\ FeePoolIsUnowned /\ MembersHaveOwner

LEMMA RegistryInit == Init => RegistryInv
BY InitType, IndexAssumption
DEF Init, RegistryInv, FeePoolIsUnowned, MembersHaveOwner

LEMMA RegistryNext == RegistryInv /\ [Next]_vars => RegistryInv'
<1> SUFFICES ASSUME RegistryInv, [Next]_vars PROVE RegistryInv'
  OBVIOUS
<1> USE DEF RegistryInv
<1>1. TypeOK'
  BY NextType
<1>2. /\ poolOfAuthorizedAddr \in [Address -> PoolIndices]
      /\ ownerOfPool \in [PoolIndices -> Address]
      /\ ZeroAddress \in Address /\ ZeroAddress \notin Accounts
      /\ Accounts \subseteq Address /\ Members \subseteq Address
  BY AddressAssumption, LockTimeAssumption DEF TypeOK, StatesTypeOK, Address
<1>3. CASE UNCHANGED registryVars
  BY <1>1, <1>3 DEF registryVars, FeePoolIsUnowned, MembersHaveOwner
<1>4. ASSUME NEW caller \in Accounts, NEW amount, NEW i, NEW p \in PoolIndices,
             DepositAndRegister(caller, amount, i, p)
      PROVE  RegistryInv'
  BY <1>1, <1>2, <1>4 DEF DepositAndRegister, FeePoolIsUnowned, MembersHaveOwner
<1>5. ASSUME NEW caller \in Accounts, NEW addr \in Members,
             AddAuthorizedAddr(caller, addr)
      PROVE  RegistryInv'
  BY <1>1, <1>2, <1>5
  DEF AddAuthorizedAddr, ManagesItsPool, FeePoolIsUnowned, MembersHaveOwner
<1>6. ASSUME NEW caller \in Accounts, NEW addr \in Members,
             RemoveAuthorizedAddr(caller, addr)
      PROVE  RegistryInv'
  BY <1>1, <1>2, <1>6
  DEF RemoveAuthorizedAddr, ManagesItsPool, SamePool, FeePoolIsUnowned,
      MembersHaveOwner
<1>7. ASSUME NEW caller \in Accounts, NEW addr \in Members,
             TransferPoolOwner(caller, addr)
      PROVE  RegistryInv'
  BY <1>1, <1>2, <1>7
  DEF TransferPoolOwner, ManagesItsPool, SamePool, FeePoolIsUnowned,
      MembersHaveOwner
<1>8. QED
  BY <1>3, <1>4, <1>5, <1>6, <1>7, OnlyRegistrySteps
  DEF RegistryStep, MembersStep

\* Whatever pools are registered, handed over and left, a pool whose addresses
\* are authorized has an owner, or was given to the zero address on purpose.
THEOREM MembersAlwaysHaveOwner == Spec => []MembersHaveOwner
<1>1. RegistryInv => MembersHaveOwner
  BY DEF RegistryInv
<1>2. QED
  BY <1>1, RegistryInit, RegistryNext, PTL DEF Spec

\* A pool whose owner removed its own authorization keeps its owner and its
\* members for ever: the owner alone could change them, and no longer serves.
THEOREM LeftPoolsStayFrozen == Spec => LeftPoolIsFrozen
<1> DEFINE Frozen(p) ==
      ownerOfPool[p] # ZeroAddress /\ poolOfAuthorizedAddr[ownerOfPool[p]] # p
        => /\ ownerOfPool'[p] = ownerOfPool[p]
           /\ \A a \in Address : (poolOfAuthorizedAddr'[a] = p)
                                  <=> (poolOfAuthorizedAddr[a] = p)
<1>1. RegistryInv /\ [Next]_vars => \A p \in PoolIndices : Frozen(p)
  <2> SUFFICES ASSUME RegistryInv, [Next]_vars, NEW p \in PoolIndices
               PROVE  Frozen(p)
    OBVIOUS
  <2>1. /\ poolOfAuthorizedAddr \in [Address -> PoolIndices]
        /\ ownerOfPool \in [PoolIndices -> Address]
        /\ Accounts \subseteq Address /\ Members \subseteq Address
        /\ ownerOfPool[0] = ZeroAddress
    BY LockTimeAssumption
    DEF RegistryInv, FeePoolIsUnowned, TypeOK, StatesTypeOK, Address
  <2>2. CASE UNCHANGED registryVars
    BY <2>2 DEF registryVars
  <2>3. ASSUME NEW caller \in Accounts, NEW amount, NEW i, NEW q \in PoolIndices,
               DepositAndRegister(caller, amount, i, q)
        PROVE  Frozen(p)
    BY <2>1, <2>3 DEF DepositAndRegister
  <2>4. ASSUME NEW caller \in Accounts, NEW addr \in Members,
               AddAuthorizedAddr(caller, addr)
        PROVE  Frozen(p)
    BY <2>1, <2>4 DEF AddAuthorizedAddr, ManagesItsPool
  <2>5. ASSUME NEW caller \in Accounts, NEW addr \in Members,
               RemoveAuthorizedAddr(caller, addr)
        PROVE  Frozen(p)
    BY <2>1, <2>5 DEF RemoveAuthorizedAddr, ManagesItsPool, SamePool
  <2>6. ASSUME NEW caller \in Accounts, NEW addr \in Members,
               TransferPoolOwner(caller, addr)
        PROVE  Frozen(p)
    BY <2>1, <2>6 DEF TransferPoolOwner, ManagesItsPool
  <2>7. QED
    BY <2>2, <2>3, <2>4, <2>5, <2>6, OnlyRegistrySteps
  DEF RegistryStep, MembersStep
<1>2. RegistryInv /\ [Next]_vars =>
        [\A p \in PoolIndices : Frozen(p)]_vars
  BY <1>1
<1>3. Spec => [][\A p \in PoolIndices : Frozen(p)]_vars
  BY <1>2, RegistryInit, RegistryNext, PTL DEF Spec
<1>4. QED
  BY <1>3 DEF LeftPoolIsFrozen

-----------------------------------------------------------------------------
\* The token registry

LEMMA OnlyTokenSteps ==
  ASSUME [Next]_vars
  PROVE  \/ UNCHANGED tokenVars
         \/ \E l \in Listings : ListToken(l[1], l[2])
         \/ \E i \in Delistings : DelistToken(i)
<1>1. CASE SwapNext
  BY <1>1
  DEF SwapNext, PostSwap, PostSwapFromInitiator, PostSwapFromContract,
      BondSwap, CancelSwap, CancelSwapTo, CancelTo, ExecuteSwap,
      DirectExecuteSwap, SimpleExecuteSwap, statesVars, tokenVars
<1>2. CASE PoolsNext(premiumManager)
  <2>1. CASE FundsStep
    BY <2>1 DEF FundsStep, DepositAndRegister, Deposit, Withdraw
  <2>2. CASE MembersStep
    BY <2>2
    DEF MembersStep, AddAuthorizedAddr, RemoveAuthorizedAddr, TransferPoolOwner
  <2>3. CASE LockStep
    BY <2>3 DEF LockStep, LockSwap, Unlock
  <2>4. CASE ReleaseStep
    BY <2>4 DEF ReleaseStep, Release, DirectRelease
  <2>5. QED
    BY <1>2, <2>1, <2>2, <2>3, <2>4, PoolsCases
<1>3. CASE ManagerNext
  BY <1>3
  DEF ManagerNext, TransferOwnership, TransferPremiumManager,
      WithdrawServiceFee, DirectSwap, statesVars, tokenVars
<1>4. CASE Tick \/ (\E g \in Signable : Sign(g)) \/ UNCHANGED vars
  BY <1>4 DEF Tick, Sign, vars, tokenVars
<1>5. QED
  BY <1>1, <1>2, <1>3, <1>4 DEF Next

LEMMA IndexZero == 0 \in TokenIndex /\ 0 \notin TokenIndices
BY IndexAssumption DEF TokenIndex

LEMMA TokenMapsInit == Init => TokenMapsAreInverse
<1> SUFFICES ASSUME Init PROVE TokenMapsAreInverse
  OBVIOUS
<1>1. tokenForIndex[0] = ZeroAddress
  BY DeploymentAssumption DEF Init
<1>2. ASSUME NEW i \in TokenIndices, NEW t \in Tokens
      PROVE  tokenForIndex[i] = t <=> indexOfToken[t] = i
  <2> DEFINE Under(j) == Deployment[j] = t
  <2>1. tokenForIndex[i] = t <=> Under(i)
    BY DEF Init
  <2>2. indexOfToken[t] = IF \E j \in TokenIndices : Under(j)
                          THEN CHOOSE j \in TokenIndices : Under(j) ELSE 0
    BY DEF Init
  <2>3. \A j \in TokenIndices : Under(i) /\ Under(j) => i = j
    BY DeploymentAssumption, AddressAssumption DEF TokenIndex
  <2> HIDE DEF Under
  <2>4. CASE \E j \in TokenIndices : Under(j)
    <3> DEFINE k == CHOOSE j \in TokenIndices : Under(j)
    <3>1. k \in TokenIndices /\ Under(k)
      BY <2>4
    <3>2. indexOfToken[t] = k
      BY <2>2, <2>4
    <3> HIDE DEF k
    <3>3. QED
      BY <2>1, <2>3, <3>1, <3>2
  <2>5. CASE ~\E j \in TokenIndices : Under(j)
    BY <2>1, <2>2, <2>5, IndexZero
  <2>6. QED
    BY <2>4, <2>5
<1>3. QED
  BY <1>1, <1>2 DEF TokenMapsAreInverse

LEMMA TokenMapsNext ==
  TypeOK /\ TokenMapsAreInverse /\ [Next]_vars => TokenMapsAreInverse'
<1> SUFFICES ASSUME TypeOK, TokenMapsAreInverse, [Next]_vars
             PROVE  TokenMapsAreInverse'
  OBVIOUS
<1>1. /\ tokenForIndex \in [TokenIndex -> Tokens \union {ZeroAddress}]
      /\ indexOfToken \in [Tokens -> TokenIndex]
      /\ ZeroAddress \notin Tokens /\ TokenIndices \subseteq TokenIndex
  BY AddressAssumption DEF TypeOK, StatesTypeOK, TokenIndex
<1>2. CASE UNCHANGED tokenVars
  BY <1>2 DEF tokenVars, TokenMapsAreInverse
<1>3. CASE \E l \in Listings : ListToken(l[1], l[2])
  <2>1. PICK l \in Listings : ListToken(l[1], l[2])
    BY <1>3
  <2>2. PICK token \in Tokens, i \in TokenIndices : ListToken(token, i)
    BY <2>1, DeploymentAssumption
  <2>3. QED
    BY <1>1, <2>2, IndexZero
    DEF ListToken, AddSupportToken, Listable, TokenMapsAreInverse
<1>4. CASE \E i \in Delistings : DelistToken(i)
  <2>1. PICK i \in TokenIndices : DelistToken(i)
    BY <1>4, DeploymentAssumption
  <2>2. tokenForIndex[i] \in Tokens
    BY <1>1, <2>1 DEF DelistToken, RemoveSupportToken
  <2>3. QED
    BY <1>1, <2>1, <2>2, IndexZero
    DEF DelistToken, RemoveSupportToken, TokenMapsAreInverse
<1>5. QED
  BY <1>2, <1>3, <1>4, OnlyTokenSteps

\* No sequence of listings and removals leaves an index and a token that
\* disagree about each other, so that a lookup by token and a lookup by index
\* always speak of the same balance.
THEOREM TokenMapsStayInverse == Spec => []TokenMapsAreInverse
<1>1. QED
  BY InitType, NextType, TokenMapsInit, TokenMapsNext, PTL DEF Spec

-----------------------------------------------------------------------------
\* The initial-chain side: PostedEscrow.

\* One request moves from the word u to the word v, while time stands still.
PostedStep ==
  /\ now' = now
  /\ \E s \in Swaps, v \in PostedSwap :
       /\ postedSwaps' = [postedSwaps EXCEPT ![s] = v]
       /\ \/ postedSwaps[s] = NotPosted /\ PostableAt(s, now)
          \/ /\ Pending(postedSwaps[s]) /\ Pending(v)
             /\ postedSwaps[s].poolIndex = 0
          \/ Pending(postedSwaps[s]) /\ v = Executed
          \/ /\ Pending(postedSwaps[s]) /\ v = NotPosted
             /\ s.expireTs <= now + MIN_BOND_TIME_PERIOD

LEMMA OnlyPostedSteps ==
  ASSUME TypeOK, [Next]_vars
  PROVE  \/ now' = now /\ postedSwaps' = postedSwaps
         \/ PostedStep
         \/ now' = now + 1 /\ postedSwaps' = postedSwaps
<1>1. CASE SwapNext
  <2>1. /\ NotPosted \in PostedSwap /\ Executed \in PostedSwap
        /\ PostingValue \subseteq PostedSwap
    BY IndexAssumption, AddressAssumption
    DEF NotPosted, Executed, PostedSwap, PostingValue, Address
  <2>2. PICK s \in Swaps, caller \in Accounts :
          \/ \E v \in PostingValue : \/ PostSwap(caller, s, v)
                                     \/ PostSwapFromInitiator(s, v)
                                     \/ PostSwapFromContract(caller, s, v)
          \/ \E p \in PoolIndices : BondSwap(caller, s, p)
          \/ CancelSwap(s)
          \/ \E recipient \in Recipients : CancelSwapTo(s, recipient)
          \/ \E recipient \in Recipients, depositToPool \in BOOLEAN :
               ExecuteSwap(s, recipient, depositToPool)
          \/ \E initiator \in Initiators, recipient \in Recipients :
               DirectExecuteSwap(caller, s, initiator, recipient)
          \/ SimpleExecuteSwap(caller, s)
    BY <1>1 DEF SwapNext
  <2>3. CASE \E v \in PostingValue : \/ PostSwap(caller, s, v)
                                     \/ PostSwapFromInitiator(s, v)
                                     \/ PostSwapFromContract(caller, s, v)
    BY <2>1, <2>3
    DEF PostSwap, PostSwapFromInitiator, PostSwapFromContract,
        VerifyEncodedSwap, PostedStep, envVars
  <2>4. ASSUME NEW p \in PoolIndices, BondSwap(caller, s, p)
        PROVE  PostedStep
    <3> DEFINE v == [postedSwaps[s] EXCEPT !.poolIndex = p]
    <3>1. postedSwaps[s] \in PostedSwap
      BY DEF TypeOK, SwapTypeOK
    <3>2. v \in PostedSwap /\ v.initiator = postedSwaps[s].initiator
      BY <3>1 DEF PostedSwap
    <3>3. postedSwaps' = [postedSwaps EXCEPT ![s] = v]
      BY <2>4 DEF BondSwap
    <3>4. postedSwaps[s].initiator # ZeroAddress
      BY <2>4, <3>1 DEF BondSwap, Pending, NotPosted, PostedSwap
    <3>5. Pending(v)
      BY <3>2, <3>4 DEF Pending, NotPosted, Executed
    <3> HIDE DEF v
    <3>6. QED
      BY <2>4, <3>2, <3>3, <3>5 DEF BondSwap, PostedStep, statesVars
  <2>5. CASE CancelSwap(s) \/ \E recipient \in Recipients : CancelSwapTo(s, recipient)
    <3>1. PICK a : CancelTo(s, a)
      BY <2>5 DEF CancelSwap, CancelSwapTo
    <3>2. s.expireTs <= now + MIN_BOND_TIME_PERIOD
      BY <3>1, SwapFields, BondTimeAssumption
      DEF CancelTo, SwapExpired, TypeOK, StatesTypeOK
    <3>3. QED
      BY <2>1, <3>1, <3>2 DEF CancelTo, PostedStep, envVars
  <2>6. CASE \E recipient \in Recipients, depositToPool \in BOOLEAN :
               ExecuteSwap(s, recipient, depositToPool)
    <3>1. CASE s.expireTs < now + MIN_BOND_TIME_PERIOD
      <4>1. s.expireTs <= now + MIN_BOND_TIME_PERIOD
        BY <3>1, SwapFields, BondTimeAssumption DEF TypeOK, StatesTypeOK
      <4>2. QED
        BY <2>1, <2>6, <3>1, <4>1
        DEF ExecuteSwap, ValueAfterExecution, PostedStep, envVars
    <3>2. CASE ~(s.expireTs < now + MIN_BOND_TIME_PERIOD)
      BY <2>1, <2>6, <3>2
      DEF ExecuteSwap, ValueAfterExecution, PostedStep, envVars
    <3>3. QED
      BY <3>1, <3>2
  <2>7. CASE \E initiator \in Initiators, recipient \in Recipients :
               DirectExecuteSwap(caller, s, initiator, recipient)
    BY <2>1, <2>7
    DEF DirectExecuteSwap, VerifyEncodedSwap, PostedStep, envVars
  <2>8. CASE SimpleExecuteSwap(caller, s)
    BY <2>8 DEF SimpleExecuteSwap, envVars
  <2>9. QED
    BY <2>2, <2>3, <2>4, <2>5, <2>6, <2>7, <2>8
<1>2. CASE PoolsNext(premiumManager) /\ UNCHANGED <<postedSwaps, managerVars>>
  <2>1. now' = now
    <3>1. CASE FundsStep
      BY <3>1 DEF FundsStep, DepositAndRegister, Deposit, Withdraw, envVars
    <3>2. CASE MembersStep
      BY <3>2
      DEF MembersStep, AddAuthorizedAddr, RemoveAuthorizedAddr,
          TransferPoolOwner, envVars
    <3>3. CASE LockStep
      BY <3>3 DEF LockStep, LockSwap, Unlock, envVars
    <3>4. CASE ReleaseStep
      BY <3>4 DEF ReleaseStep, Release, DirectRelease, envVars
    <3>5. QED
      BY <1>2, <3>1, <3>2, <3>3, <3>4, PoolsCases
  <2>2. QED
    BY <1>2, <2>1
<1>3. CASE ManagerNext
  BY <1>3
  DEF ManagerNext, ListToken, DelistToken, TransferOwnership,
      TransferPremiumManager, WithdrawServiceFee, DirectSwap, statesVars,
      envVars
<1>4. CASE Tick \/ (\E g \in Signable : Sign(g)) \/ UNCHANGED vars
  BY <1>4 DEF Tick, Sign, vars
<1>5. QED
  BY <1>1, <1>2, <1>3, <1>4 DEF Next

LEMMA RequestTypes ==
  ASSUME TypeOK, NEW s \in Swaps
  PROVE  /\ RequestStage(s) \in {"open", "held", "closed"}
         /\ RequestBond(s) \in PoolIndices
         /\ RequestStage(s) = "held" <=> Pending(postedSwaps[s])
         /\ RequestStage(s) # "held" => RequestBond(s) = 0
BY IndexAssumption
DEF TypeOK, SwapTypeOK, PostedSwap, RequestStage, RequestBond

LEMMA PostedInit == Init => Posted!Init
<1> SUFFICES ASSUME Init PROVE Posted!Init
  OBVIOUS
<1>1. \A s \in Swaps : ~Pending(postedSwaps[s])
  BY DEF Init, SwapInit, Pending
<1>2. QED
  BY <1>1, InitType, RequestTypes DEF Posted!Init

LEMMA PostedNext ==
  TypeOK /\ [Next]_vars
    => [Posted!Next]_<<[s \in Swaps |-> RequestStage(s)],
                       [s \in Swaps |-> RequestBond(s)]>>
<1> SUFFICES ASSUME TypeOK, [Next]_vars
             PROVE  Posted!Next \/ UNCHANGED <<[s \in Swaps |-> RequestStage(s)],
                                               [s \in Swaps |-> RequestBond(s)]>>
  OBVIOUS
<1> DEFINE St == [s \in Swaps |-> RequestStage(s)]
           Bo == [s \in Swaps |-> RequestBond(s)]
<1>1. \A s \in Swaps :
        /\ RequestStage(s)' \in {"open", "held", "closed"}
        /\ RequestBond(s)' \in PoolIndices
  <2>1. TypeOK'
    BY NextType
  <2>2. QED
    BY <2>1, IndexAssumption
    DEF TypeOK, SwapTypeOK, PostedSwap, RequestStage, RequestBond
<1>2. ASSUME \A s \in Swaps :
               \/ Posted!Stay(s) \/ Posted!Hold(s)
               \/ Posted!Bond(s) \/ Posted!Close(s)
      PROVE  Posted!Next
  BY <1>1, <1>2 DEF Posted!Next
<1>3. CASE now' = now /\ postedSwaps' = postedSwaps
  BY <1>3 DEF RequestStage, RequestBond
<1>4. CASE PostedStep
  <2>1. PICK s \in Swaps, v \in PostedSwap :
          /\ postedSwaps' = [postedSwaps EXCEPT ![s] = v]
          /\ \/ postedSwaps[s] = NotPosted /\ PostableAt(s, now)
             \/ /\ Pending(postedSwaps[s]) /\ Pending(v)
                /\ postedSwaps[s].poolIndex = 0
             \/ Pending(postedSwaps[s]) /\ v = Executed
             \/ /\ Pending(postedSwaps[s]) /\ v = NotPosted
                /\ s.expireTs <= now + MIN_BOND_TIME_PERIOD
    BY <1>4 DEF PostedStep
  <2>2. postedSwaps'[s] = v /\ now' = now
    BY <1>4, <2>1 DEF TypeOK, SwapTypeOK, PostedStep
  <2>3. ASSUME NEW x \in Swaps, x # s
        PROVE  Posted!Stay(x)
    <3>1. postedSwaps'[x] = postedSwaps[x]
      BY <2>1, <2>3 DEF TypeOK, SwapTypeOK
    <3>2. QED
      BY <2>2, <2>3, <3>1 DEF Posted!Stay, RequestStage, RequestBond
  <2>4. Posted!Stay(s) \/ Posted!Hold(s) \/ Posted!Bond(s) \/ Posted!Close(s)
    <3>1. /\ St[s] = RequestStage(s) /\ Bo[s] = RequestBond(s)
          /\ St'[s] = RequestStage(s)' /\ Bo'[s] = RequestBond(s)'
      OBVIOUS
    <3>2. now \in Int /\ s.expireTs \in Int /\ MIN_BOND_TIME_PERIOD \in Int
      BY SwapFields, BondTimeAssumption DEF TypeOK, StatesTypeOK
    <3>3. /\ v.poolIndex \in PoolIndices
          /\ ~Pending(NotPosted) /\ ~Pending(Executed) /\ NotPosted # Executed
      BY DEF PostedSwap, Pending, NotPosted, Executed
    <3>4. CASE postedSwaps[s] = NotPosted /\ PostableAt(s, now)
      <4>1. RequestStage(s) = "open" /\ RequestBond(s) = 0
        BY <3>2, <3>3, <3>4 DEF RequestStage, RequestBond, PostableAt
      <4>2. CASE Pending(v)
        <5>1. RequestStage(s)' = "held" /\ RequestBond(s)' = v.poolIndex
          BY <2>2, <4>2 DEF RequestStage, RequestBond, Pending, NotPosted, Executed
        <5>2. QED
          BY <3>3, <4>1, <5>1 DEF Posted!Hold
      <4>3. CASE v = Executed
        <5>1. RequestStage(s)' = "closed" /\ RequestBond(s)' = 0
          BY <2>2, <4>3 DEF RequestStage, RequestBond, Pending, NotPosted, Executed
        <5>2. QED
          BY <4>1, <5>1 DEF Posted!Close
      <4>4. CASE v = NotPosted
        BY <2>2, <3>4, <4>4 DEF Posted!Stay, RequestStage, RequestBond
      <4>5. QED
        BY <4>2, <4>3, <4>4 DEF Pending
    <3>5. CASE /\ Pending(postedSwaps[s]) /\ Pending(v)
               /\ postedSwaps[s].poolIndex = 0
      <4>1. RequestStage(s) = "held" /\ RequestBond(s) = 0
        BY <3>5 DEF RequestStage, RequestBond
      <4>2. RequestStage(s)' = "held" /\ RequestBond(s)' = v.poolIndex
        BY <2>2, <3>5 DEF RequestStage, RequestBond, Pending, NotPosted, Executed
      <4>3. QED
        BY <3>3, <4>1, <4>2 DEF Posted!Bond
    <3>6. CASE /\ Pending(postedSwaps[s])
               /\ \/ v = Executed
                  \/ v = NotPosted /\ s.expireTs <= now + MIN_BOND_TIME_PERIOD
      <4>1. RequestStage(s) = "held"
        BY <3>6 DEF RequestStage
      <4>2. RequestStage(s)' = "closed" /\ RequestBond(s)' = 0
        BY <2>2, <3>2, <3>6
        DEF RequestStage, RequestBond, Pending, NotPosted, Executed
      <4>3. QED
        BY <4>1, <4>2 DEF Posted!Close
    <3>7. QED
      BY <2>1, <3>4, <3>5, <3>6
  <2>5. QED
    BY <1>2, <2>3, <2>4
<1>5. CASE now' = now + 1 /\ postedSwaps' = postedSwaps
  <2>1. ASSUME NEW s \in Swaps
        PROVE  Posted!Stay(s) \/ Posted!Close(s)
    <3>1. now \in Int /\ s.expireTs \in Int /\ MIN_BOND_TIME_PERIOD \in Int
      BY SwapFields, BondTimeAssumption DEF TypeOK, StatesTypeOK
    <3>2. RequestBond(s)' = RequestBond(s)
      BY <1>5 DEF RequestBond
    <3>3. \/ RequestStage(s)' = RequestStage(s)
          \/ /\ RequestStage(s) = "open" /\ RequestStage(s)' = "closed"
             /\ RequestBond(s) = 0
      BY <1>5, <3>1 DEF RequestStage, RequestBond
    <3>4. QED
      BY <3>2, <3>3 DEF Posted!Stay, Posted!Close
  <2>2. QED
    BY <1>2, <2>1
<1>6. QED
  BY <1>3, <1>4, <1>5, OnlyPostedSteps

\* Every encoded swap is used for at most one deposit, is bonded to at most
\* one pool, and once settled or out of time is never posted again: dropping
\* the record after cancelSwap, or after a late executeSwap, is harmless
\* because MIN_BOND_TIME_PERIOD already refuses the request by then.
THEOREM EveryRequestIsUsedOnce == Spec => RequestsAreUsedOnce
<1>1. Spec => []TypeOK /\ [][Next]_vars /\ Init
  BY TypeCorrect, PTL DEF Spec
<1>2. QED
  BY <1>1, PostedInit, PostedNext, PTL DEF RequestsAreUsedOnce, Posted!Spec

-----------------------------------------------------------------------------
\* The target-chain side: LockedEscrow.

\* One lock moves from the word u to the word w, while time stands still.
LockedStep ==
  /\ now' = now
  /\ \E id \in SwapId, w \in LockedSwap :
       /\ lockedSwaps' = [lockedSwaps EXCEPT ![id] = w]
       /\ \/ /\ lockedSwaps[id] = NotLocked
             /\ w.until = now + LOCK_TIME_PERIOD /\ w.poolIndex # 0
             /\ w.until < id[1].expireTs
          \/ lockedSwaps[id] = NotLocked /\ w = Released
          \/ /\ Locked(lockedSwaps[id]) /\ w = Released
             /\ now < id[1].expireTs
          \/ /\ Locked(lockedSwaps[id]) /\ w = NotLocked
             /\ lockedSwaps[id].until < now

LEMMA OnlyLockedSteps ==
  ASSUME TypeOK, [Next]_vars
  PROVE  \/ now' = now /\ lockedSwaps' = lockedSwaps
         \/ LockedStep
         \/ now' = now + 1 /\ lockedSwaps' = lockedSwaps
<1>1. CASE SwapNext /\ UNCHANGED <<lockedSwaps, managerVars>>
  <2>1. now' = now
    BY <1>1
    DEF SwapNext, PostSwap, PostSwapFromInitiator, PostSwapFromContract,
        BondSwap, CancelSwap, CancelSwapTo, CancelTo, ExecuteSwap,
        DirectExecuteSwap, SimpleExecuteSwap, statesVars, envVars
  <2>2. QED
    BY <1>1, <2>1
<1>2. CASE PoolsNext(premiumManager)
  <2>1. NotLocked \in LockedSwap /\ Released \in LockedSwap
    BY IndexAssumption DEF NotLocked, Released, LockedSwap
  <2>2. CASE FundsStep
    BY <2>2 DEF FundsStep, DepositAndRegister, Deposit, Withdraw, envVars
  <2>3. CASE MembersStep
    BY <2>3
    DEF MembersStep, AddAuthorizedAddr, RemoveAuthorizedAddr,
        TransferPoolOwner, envVars
  <2>4. ASSUME NEW caller \in Accounts, NEW s \in Swaps,
               NEW initiator \in Initiators, LockSwap(caller, s, initiator)
        PROVE  LockedStep
    <3> DEFINE w == [until |-> now + LOCK_TIME_PERIOD,
                     poolIndex |-> poolOfAuthorizedAddr[caller]]
    <3>1. w \in LockedSwap
      BY PoolOfType, LockTimeAssumption DEF TypeOK, StatesTypeOK, LockedSwap
    <3>2. /\ w.until = now + LOCK_TIME_PERIOD /\ w.poolIndex # 0
          /\ lockedSwaps' = [lockedSwaps EXCEPT ![<<s, initiator>>] = w]
          /\ lockedSwaps[<<s, initiator>>] = NotLocked
      BY <2>4 DEF LockSwap, NeverReleased
    <3>3. w.until < s.expireTs
      BY <2>4, <3>2, SwapFields, LockTimeAssumption
      DEF LockSwap, LockDeadlineOK, TypeOK, StatesTypeOK
    <3>4. <<s, initiator>> \in SwapId /\ <<s, initiator>>[1] = s
      BY DEF SwapId
    <3> HIDE DEF w
    <3>5. QED
      BY <2>4, <3>1, <3>2, <3>3, <3>4 DEF LockSwap, LockedStep, envVars
  <2>5. ASSUME NEW s \in Swaps, NEW initiator \in Initiators,
               Unlock(s, initiator)
        PROVE  LockedStep
    BY <2>1, <2>5 DEF Unlock, UnlockableAt, SwapId, LockedStep, envVars
  <2>6. ASSUME NEW caller, NEW s \in Swaps, NEW initiator \in Initiators,
               NEW recipient,
               Release(caller, premiumManager, s, initiator, recipient)
        PROVE  LockedStep
    <3>1. now < s.expireTs
      BY <2>6, SwapFields DEF Release, Releasable, TypeOK, StatesTypeOK
    <3>2. <<s, initiator>> \in SwapId /\ <<s, initiator>>[1] = s
      BY DEF SwapId
    <3>3. /\ lockedSwaps' = [lockedSwaps EXCEPT ![<<s, initiator>>] = Released]
          /\ Locked(lockedSwaps[<<s, initiator>>]) /\ now' = now
      BY <2>6 DEF Release, envVars
    <3>4. QED
      BY <2>1, <3>1, <3>2, <3>3 DEF LockedStep
  <2>7. ASSUME NEW caller, NEW s \in Swaps, NEW initiator \in Initiators,
               NEW recipient, NEW withSig,
               DirectRelease(caller, premiumManager, s, initiator, recipient,
                             withSig)
        PROVE  LockedStep
    BY <2>1, <2>7 DEF DirectRelease, NeverReleased, SwapId, LockedStep, envVars
  <2>8. QED
    BY <1>2, <2>2, <2>3, <2>4, <2>5, <2>6, <2>7, PoolsCases
    DEF LockStep, ReleaseStep
<1>3. CASE ManagerNext
  BY <1>3
  DEF ManagerNext, ListToken, DelistToken, TransferOwnership,
      TransferPremiumManager, WithdrawServiceFee, DirectSwap, statesVars,
      envVars
<1>4. CASE Tick \/ (\E g \in Signable : Sign(g)) \/ UNCHANGED vars
  BY <1>4 DEF Tick, Sign, vars
<1>5. QED
  BY <1>1, <1>2, <1>3, <1>4 DEF Next

LEMMA LockedInit == Init => LockEscrow!Init
<1> SUFFICES ASSUME Init PROVE LockEscrow!Init
  OBVIOUS
<1>1. \A id \in SwapId : ~Locked(lockedSwaps[id]) /\ LockStage(id) = "free"
  BY DEF Init, PoolsInit, Locked, LockStage, NotLocked, Released
<1>2. QED
  BY <1>1 DEF Init, LockEscrow!Init

\* The state of LockedEscrow that a state of the contract stands for.
StageNow == [id \in SwapId |-> LockStage(id)]
UntilNow == [id \in SwapId |->
               IF Locked(lockedSwaps[id]) THEN lockedSwaps[id].until ELSE 0]
PoolNow == [id \in SwapId |->
              IF Locked(lockedSwaps[id]) THEN lockedSwaps[id].poolIndex ELSE 0]

LEMMA LockedNext ==
  TypeOK /\ [Next]_vars
    => [LockEscrow!Next]_<<now, StageNow, UntilNow, PoolNow>>
<1> SUFFICES ASSUME TypeOK, [Next]_vars
             PROVE  \/ LockEscrow!Next
                    \/ UNCHANGED <<now, StageNow, UntilNow, PoolNow>>
  OBVIOUS
<1> USE DEF StageNow, UntilNow, PoolNow
<1>1. CASE now' = now /\ lockedSwaps' = lockedSwaps
  BY <1>1 DEF LockStage
<1>2. CASE LockedStep
  <2>1. PICK id \in SwapId, w \in LockedSwap :
          /\ lockedSwaps' = [lockedSwaps EXCEPT ![id] = w]
          /\ \/ /\ lockedSwaps[id] = NotLocked
                /\ w.until = now + LOCK_TIME_PERIOD /\ w.poolIndex # 0
                /\ w.until < id[1].expireTs
             \/ lockedSwaps[id] = NotLocked /\ w = Released
             \/ /\ Locked(lockedSwaps[id]) /\ w = Released
                /\ now < id[1].expireTs
             \/ /\ Locked(lockedSwaps[id]) /\ w = NotLocked
                /\ lockedSwaps[id].until < now
    BY <1>2 DEF LockedStep
  <2>2. lockedSwaps'[id] = w /\ now' = now /\ now \in Nat
    BY <1>2, <2>1 DEF TypeOK, PoolsTypeOK, StatesTypeOK, LockedStep
  <2>3. /\ ~Locked(NotLocked) /\ ~Locked(Released) /\ NotLocked # Released
        /\ w.poolIndex \in PoolIndices
    BY DEF Locked, NotLocked, Released, LockedSwap
  <2>4. ASSUME NEW x \in SwapId, x # id
        PROVE  LockEscrow!Stay(x) /\ ~LockEscrow!Move(x)
    <3>1. lockedSwaps'[x] = lockedSwaps[x]
      BY <2>1, <2>4 DEF TypeOK, PoolsTypeOK
    <3>2. StageNow'[x] = StageNow[x]
      BY <3>1 DEF LockStage
    <3>3. ~LockEscrow!Move(x)
      BY <3>2
      DEF LockEscrow!Move, LockEscrow!Take, LockEscrow!GiveBack,
          LockEscrow!Pay, LockEscrow!PayDirectly
    <3>4. QED
      BY <3>1, <3>2, <3>3 DEF LockEscrow!Stay
  <2>5. LockEscrow!Move(id)
    <3>1. CASE /\ lockedSwaps[id] = NotLocked
               /\ w.until = now + LOCK_TIME_PERIOD /\ w.poolIndex # 0
               /\ w.until < id[1].expireTs
      <4>1. Locked(w)
        BY <2>2, <3>1, LockTimeAssumption DEF Locked, NotLocked, Released
      <4>2. LockStage(id) = "free" /\ LockStage(id)' = "locked"
        BY <2>2, <2>3, <3>1, <4>1 DEF LockStage
      <4>3. UntilNow'[id] = w.until /\ PoolNow'[id] = w.poolIndex
        BY <2>2, <4>1
      <4>4. QED
        BY <2>3, <3>1, <4>2, <4>3 DEF LockEscrow!Move, LockEscrow!Take
    <3>2. CASE lockedSwaps[id] = NotLocked /\ w = Released
      <4>1. LockStage(id) = "free" /\ LockStage(id)' = "released"
        BY <2>2, <2>3, <3>2 DEF LockStage
      <4>2. QED
        BY <4>1 DEF LockEscrow!Move, LockEscrow!PayDirectly
    <3>3. CASE /\ Locked(lockedSwaps[id]) /\ w = Released
               /\ now < id[1].expireTs
      <4>1. LockStage(id) = "locked" /\ LockStage(id)' = "released"
        BY <2>2, <2>3, <3>3 DEF LockStage
      <4>2. QED
        BY <3>3, <4>1 DEF LockEscrow!Move, LockEscrow!Pay
    <3>4. CASE /\ Locked(lockedSwaps[id]) /\ w = NotLocked
               /\ lockedSwaps[id].until < now
      <4>1. LockStage(id) = "locked" /\ LockStage(id)' = "free"
        BY <2>2, <2>3, <3>4 DEF LockStage
      <4>2. QED
        BY <3>4, <4>1 DEF LockEscrow!Move, LockEscrow!GiveBack
    <3>5. QED
      BY <2>1, <3>1, <3>2, <3>3, <3>4
  <2>6. QED
    BY <2>2, <2>4, <2>5 DEF LockEscrow!Next
<1>3. CASE now' = now + 1 /\ lockedSwaps' = lockedSwaps
  <2>1. now' >= now
    BY <1>3 DEF TypeOK, StatesTypeOK
  <2>2. ASSUME NEW x \in SwapId
        PROVE  LockEscrow!Stay(x) /\ ~LockEscrow!Move(x)
    <3>1. /\ StageNow'[x] = StageNow[x] /\ UntilNow'[x] = UntilNow[x]
          /\ PoolNow'[x] = PoolNow[x]
      BY <1>3 DEF LockStage
    <3>2. QED
      BY <3>1
      DEF LockEscrow!Stay, LockEscrow!Move, LockEscrow!Take,
          LockEscrow!GiveBack, LockEscrow!Pay, LockEscrow!PayDirectly
  <2>3. QED
    BY <2>1, <2>2 DEF LockEscrow!Next
<1>4. QED
  BY <1>1, <1>2, <1>3, OnlyLockedSteps

\* Every lock ends at most once in a release, before the swap expires, or in
\* an unlock, after the lock time; and after a release, with or without a
\* lock before it, the same swap of the same initiator is never locked again.
THEOREM EveryLockIsReleasedOnce == Spec => LocksAreReleasedOnce
<1>1. Spec => []TypeOK /\ [][Next]_vars /\ Init
  BY TypeCorrect, PTL DEF Spec
<1>2. TypeOK /\ [Next]_vars
        => [LockEscrow!Next]_<<now, [id \in SwapId |-> LockStage(id)],
             [id \in SwapId |->
                IF Locked(lockedSwaps[id]) THEN lockedSwaps[id].until ELSE 0],
             [id \in SwapId |->
                IF Locked(lockedSwaps[id]) THEN lockedSwaps[id].poolIndex
                ELSE 0]>>
  BY LockedNext DEF StageNow, UntilNow, PoolNow
<1>3. QED
  BY <1>1, <1>2, LockedInit, PTL DEF LocksAreReleasedOnce, LockEscrow!Spec

-----------------------------------------------------------------------------
\* What the operators that move tokens add to each account.

Balances == [PoolTokenIndex -> Int]

LEMMA CreditedIs ==
  ASSUME NEW b \in Balances, NEW i \in TokenIndex, NEW p \in PoolIndices, NEW n \in Int
  PROVE  Credited(b, i, p, n) \in Balances
BY DEF Credited, Balances, PoolTokenIndex

LEMMA CreditedAt ==
  ASSUME NEW b \in Balances, NEW i \in TokenIndex, NEW p \in PoolIndices, NEW n \in Int,
         NEW j \in TokenIndex, NEW q \in PoolIndices
  PROVE  Credited(b, i, p, n)[<<j, q>>] = b[<<j, q>>] + (IF j = i /\ q = p THEN n ELSE 0)
<1>1. /\ <<i, p>> \in PoolTokenIndex /\ <<j, q>> \in PoolTokenIndex
      /\ b[<<j, q>>] \in Int
      /\ <<j, q>> = <<i, p>> <=> j = i /\ q = p
  BY DEF PoolTokenIndex, Balances
<1>2. QED
  BY <1>1 DEF Credited, Balances

LEMMA DebitedIs ==
  ASSUME NEW b \in Balances, NEW i \in TokenIndex, NEW p \in PoolIndices, NEW n \in Int
  PROVE  Debited(b, i, p, n) \in Balances
BY DEF Debited, Balances, PoolTokenIndex

LEMMA DebitedAt ==
  ASSUME NEW b \in Balances, NEW i \in TokenIndex, NEW p \in PoolIndices, NEW n \in Int,
         NEW j \in TokenIndex, NEW q \in PoolIndices
  PROVE  Debited(b, i, p, n)[<<j, q>>] = b[<<j, q>>] - (IF j = i /\ q = p THEN n ELSE 0)
<1>1. /\ <<i, p>> \in PoolTokenIndex /\ <<j, q>> \in PoolTokenIndex
      /\ b[<<j, q>>] \in Int
      /\ <<j, q>> = <<i, p>> <=> j = i /\ q = p
  BY DEF PoolTokenIndex, Balances
<1>2. QED
  BY <1>1 DEF Debited, Balances

LEMMA BalancesAre ==
  ASSUME TypeOK
  PROVE  /\ balanceOfPoolToken \in Balances
         /\ \A i \in TokenIndex, p \in PoolIndices : balanceOfPoolToken[<<i, p>>] \in Nat
         /\ 0 \in PoolIndices /\ 1 \in PoolIndices
BY IndexAssumption DEF TypeOK, StatesTypeOK, Balances, PoolTokenIndex

\* The service fee for pool 0 and the share for the partner's pool.
LEMMA FeesTakenIs ==
  ASSUME NEW b \in Balances, NEW s \in Swaps
  PROVE  FeesTaken(b, s) \in Balances
<1>1. /\ s.outToken \in TokenIndex /\ s.poolToShare \in PoolIndices /\ 0 \in PoolIndices
      /\ ServiceFeeCharged(s) \in Int /\ s.share \in Int
  BY SwapFields, FeesAreNat, IndexAssumption
<1>2. Credited(b, s.outToken, 0, ServiceFeeCharged(s)) \in Balances
  BY <1>1, CreditedIs
<1>3. QED
  BY <1>1, <1>2, CreditedIs DEF FeesTaken

LEMMA FeesTakenAt ==
  ASSUME NEW b \in Balances, NEW s \in Swaps, NEW j \in TokenIndex, NEW q \in PoolIndices
  PROVE  FeesTaken(b, s)[<<j, q>>]
           = b[<<j, q>>]
             + (IF j = s.outToken /\ q = 0 THEN ServiceFeeCharged(s) ELSE 0)
             + (IF j = s.outToken /\ q = s.poolToShare THEN s.share ELSE 0)
<1>1. /\ s.outToken \in TokenIndex /\ s.poolToShare \in PoolIndices /\ 0 \in PoolIndices
      /\ ServiceFeeCharged(s) \in Int /\ s.share \in Int
  BY SwapFields, FeesAreNat, IndexAssumption
<1> DEFINE c == Credited(b, s.outToken, 0, ServiceFeeCharged(s))
<1>2. c \in Balances
  BY <1>1, CreditedIs
<1>3. c[<<j, q>>]
        = b[<<j, q>>] + (IF j = s.outToken /\ q = 0 THEN ServiceFeeCharged(s) ELSE 0)
  BY <1>1, CreditedAt
<1>4. FeesTaken(b, s) = Credited(c, s.outToken, s.poolToShare, s.share)
  BY DEF FeesTaken
<1> HIDE DEF c
<1>5. Credited(c, s.outToken, s.poolToShare, s.share)[<<j, q>>]
        = c[<<j, q>>] + (IF j = s.outToken /\ q = s.poolToShare THEN s.share ELSE 0)
  BY <1>1, <1>2, CreditedAt
<1>6. QED
  BY <1>3, <1>4, <1>5

\* A recipient gains what is moved to it, and nothing of any other token.
LEMMA MovedGain ==
  ASSUME NEW l \in [Holding -> Nat], NEW t \in Tokens, NEW from \in Address,
         NEW to \in Address, NEW n \in Nat, from # to, l[<<t, from>>] >= n
  PROVE  \A u \in Tokens :
           Moved(l, t, from, to, n)[<<u, to>>]
             = l[<<u, to>>] + (IF u = t THEN n ELSE 0)
<1> SUFFICES ASSUME NEW u \in Tokens
             PROVE  Moved(l, t, from, to, n)[<<u, to>>]
                      = l[<<u, to>>] + (IF u = t THEN n ELSE 0)
  OBVIOUS
<1> DEFINE m == [l EXCEPT ![<<t, from>>] = @ - n]
<1>1. /\ <<t, from>> \in Holding /\ <<t, to>> \in Holding /\ <<u, to>> \in Holding
      /\ <<t, from>> # <<u, to>> /\ (<<t, to>> = <<u, to>> <=> u = t)
  BY DEF Holding
<1>2. m \in [Holding -> Int] /\ m[<<u, to>>] = l[<<u, to>>] /\ l[<<u, to>>] \in Int
  BY <1>1
<1>3. Moved(l, t, from, to, n) = [m EXCEPT ![<<t, to>>] = @ + n]
  BY DEF Moved
<1> HIDE DEF m
<1>4. QED
  BY <1>1, <1>2, <1>3

\* _release: the recipient gets the core tokens and the release amount.
LEMMA PaidIsReceived ==
  ASSUME TypeOK, NEW s \in Swaps, NEW r \in Address, CanTakeFees(s), PayRecipient(s, r)
  PROVE  Received(s, r)
<1> DEFINE l == Moved(ledger, CoreToken, Meson, r, s.coreAmount)
           n == ReleaseAmount(s)
<1> SUFFICES ASSUME r # Meson, NEW t \in Tokens
             PROVE  Gain(t, r) = (IF t = TokenAt(s.outToken) THEN n ELSE 0)
                                 + (IF t = CoreToken THEN s.coreAmount ELSE 0)
  BY DEF Received
<1>1. /\ ledger \in [Holding -> Nat] /\ Meson \in Address /\ CoreToken \in Tokens
      /\ s.coreAmount \in Nat /\ s.outToken \in TokenIndex
      /\ ledger[<<CoreToken, Meson>>] >= s.coreAmount
  BY AddressAssumption, SwapFields DEF TypeOK, StatesTypeOK, Address, PayRecipient
<1>2. n \in Nat
  BY FeesAreNat DEF CanTakeFees
<1>3. /\ l \in [Holding -> Nat]
      /\ l[<<t, r>>] = ledger[<<t, r>>] + (IF t = CoreToken THEN s.coreAmount ELSE 0)
  BY <1>1, MovedType, MovedGain
<1>4. CanRelease(l, s, r, n) /\ ledger' = ReleasedTo(l, s, r, n)
  BY DEF PayRecipient
<1>5. ledger[<<t, r>>] \in Int
  BY <1>1 DEF Holding
<1> HIDE DEF l
<1>6. CASE s.toContract \/ n > 0
  <2>1. /\ CanTransfer(l, s.outToken, r, n)
        /\ ledger' = Moved(l, TokenAt(s.outToken), Meson, r, n)
    BY <1>4, <1>6 DEF CanRelease, ReleasedTo, Transferred
  <2>2. TokenAt(s.outToken) \in Tokens /\ l[<<TokenAt(s.outToken), Meson>>] >= n
    BY <1>1, <2>1, TokenAtType DEF CanTransfer
  <2>3. ledger'[<<t, r>>] = l[<<t, r>>] + (IF t = TokenAt(s.outToken) THEN n ELSE 0)
    BY <1>1, <1>2, <1>3, <2>1, <2>2, MovedGain
  <2>4. QED
    BY <1>1, <1>2, <1>3, <1>5, <2>3 DEF Gain
<1>7. CASE ~(s.toContract \/ n > 0)
  <2>1. n = 0 /\ ledger' = l
    BY <1>2, <1>4, <1>7 DEF ReleasedTo
  <2>2. QED
    BY <1>1, <1>3, <1>5, <2>1 DEF Gain
<1>8. QED
  BY <1>6, <1>7

-----------------------------------------------------------------------------
\* The service fees

\* No call but withdrawServiceFee takes anything from pool 0: payouts and locks
\* are debited to the pool that the caller serves, which is another.
LEMMA FeePoolKeeps ==
  ASSUME TypeOK, [Next]_vars, NEW i \in TokenIndex
  PROVE  \/ PoolGain(i, 0) >= 0
         \/ \E j \in TokenIndex, amount \in Amounts, p \in PoolIndices :
              WithdrawServiceFee(j, amount, p)
<1> DEFINE b == balanceOfPoolToken
<1>1. /\ b \in Balances /\ b[<<i, 0>>] \in Nat
      /\ 0 \in PoolIndices /\ 1 \in PoolIndices
  BY BalancesAre
<1>2. CASE UNCHANGED balanceOfPoolToken
  BY <1>1, <1>2 DEF PoolGain
<1> HIDE DEF b
<1>3. ASSUME NEW j \in TokenIndex, NEW q \in PoolIndices, NEW n \in Nat,
             balanceOfPoolToken' = Credited(balanceOfPoolToken, j, q, n)
      PROVE  PoolGain(i, 0) >= 0
  BY <1>1, <1>3, CreditedAt DEF PoolGain, b
<1>4. CASE SwapNext
  <2>1. PICK s \in Swaps, caller \in Accounts :
          \/ UNCHANGED balanceOfPoolToken
          \/ \E recipient, depositToPool : ExecuteSwap(s, recipient, depositToPool)
          \/ balanceOfPoolToken' = Credited(balanceOfPoolToken, s.inToken, 1, s.amount)
    BY <1>4
    DEF SwapNext, PostSwap, PostSwapFromInitiator, PostSwapFromContract, BondSwap,
        CancelSwap, CancelSwapTo, CancelTo, DirectExecuteSwap, SimpleExecuteSwap, statesVars
  <2>2. s.inToken \in TokenIndex /\ s.amount \in Nat /\ postedSwaps[s].poolIndex \in PoolIndices
    BY SwapFields, PostedFields
  <2>3. CASE \E recipient, depositToPool : ExecuteSwap(s, recipient, depositToPool)
    BY <1>2, <1>3, <2>2, <2>3 DEF ExecuteSwap
  <2>4. QED
    BY <1>1, <1>2, <1>3, <2>1, <2>2, <2>3
<1>5. CASE PoolsNext(premiumManager)
  <2>1. CASE FundsStep
    <3>1. PICK amount \in Amounts, j \in TokenIndex, p \in PoolIndices :
            \/ balanceOfPoolToken' = Credited(balanceOfPoolToken, j, p, amount)
            \/ p # 0 /\ balanceOfPoolToken' = Debited(balanceOfPoolToken, j, p, amount)
      BY <2>1 DEF FundsStep, DepositAndRegister, Deposit, Withdraw
    <3>2. amount \in Nat
      BY LockTimeAssumption
    <3>3. QED
      BY <1>1, <1>3, <3>1, <3>2, DebitedAt DEF PoolGain, b
  <2>2. CASE MembersStep
    BY <1>2, <2>2
    DEF MembersStep, AddAuthorizedAddr, RemoveAuthorizedAddr, TransferPoolOwner
  <2>3. ASSUME NEW caller \in Accounts, NEW s \in Swaps, NEW initiator \in Initiators,
               LockSwap(caller, s, initiator)
        PROVE  PoolGain(i, 0) >= 0
    <3> DEFINE p == poolOfAuthorizedAddr[caller]
               c == Debited(b, s.outToken, p, AmountToLock(s))
    <3>1. /\ p \in PoolIndices /\ p # 0 /\ CoreIndex \in TokenIndex
          /\ s.outToken \in TokenIndex /\ s.coreAmount \in Int /\ AmountToLock(s) \in Int
          /\ balanceOfPoolToken' = Debited(c, CoreIndex, p, s.coreAmount)
      BY <2>3, PoolOfType, CoreIndexType, SwapFields, FeesAreNat DEF LockSwap, b
    <3>c. c \in Balances
      BY <1>1, <3>1, DebitedIs
    <3>2. c[<<i, 0>>] = b[<<i, 0>>]
      BY <1>1, <3>1, DebitedAt
    <3> HIDE DEF c, p
    <3>3. Debited(c, CoreIndex, p, s.coreAmount)[<<i, 0>>] = c[<<i, 0>>]
      BY <1>1, <3>1, <3>2, <3>c, DebitedAt
    <3>4. QED
      BY <1>1, <3>1, <3>2, <3>3 DEF PoolGain, b
  <2>4. ASSUME NEW s \in Swaps, NEW initiator \in Initiators, Unlock(s, initiator)
        PROVE  PoolGain(i, 0) >= 0
    <3> DEFINE p == lockedSwaps[<<s, initiator>>].poolIndex
               c == Credited(b, s.outToken, p, AmountToLock(s))
    <3>1. /\ p \in PoolIndices /\ CoreIndex \in TokenIndex
          /\ s.outToken \in TokenIndex /\ s.coreAmount \in Nat /\ AmountToLock(s) \in Nat
          /\ balanceOfPoolToken' = Credited(c, CoreIndex, p, s.coreAmount)
      BY <2>4, LockedFields, CoreIndexType, SwapFields, FeesAreNat DEF Unlock, SwapId, b
    <3>c. c \in Balances
      BY <1>1, <3>1, CreditedIs
    <3>2. c[<<i, 0>>] >= b[<<i, 0>>] /\ c[<<i, 0>>] \in Int
      BY <1>1, <3>1, CreditedAt
    <3> HIDE DEF c, p
    <3>3. Credited(c, CoreIndex, p, s.coreAmount)[<<i, 0>>]
            = c[<<i, 0>>] + (IF i = CoreIndex /\ 0 = p THEN s.coreAmount ELSE 0)
      BY <1>1, <3>1, <3>c, CreditedAt
    <3>4. QED
      BY <1>1, <3>1, <3>2, <3>3 DEF PoolGain, b
  <2>5. ASSUME NEW caller, NEW s \in Swaps, NEW initiator, NEW recipient,
               Release(caller, premiumManager, s, initiator, recipient)
        PROVE  PoolGain(i, 0) >= 0
    <3>1. ServiceFeeCharged(s) \in Nat /\ s.share \in Nat
      BY SwapFields, FeesAreNat
    <3>2. QED
      BY <1>1, <2>5, <3>1, FeesTakenAt DEF Release, PoolGain, b
  <2>6. ASSUME NEW caller \in Accounts, NEW s \in Swaps, NEW initiator, NEW recipient,
               NEW withSig, DirectRelease(caller, premiumManager, s, initiator, recipient, withSig)
        PROVE  PoolGain(i, 0) >= 0
    <3> DEFINE p == poolOfAuthorizedAddr[caller]
               c == Debited(b, s.outToken, p, AmountToLock(s))
               d == FeesTaken(c, s)
    <3>1. /\ p \in PoolIndices /\ p # 0 /\ CoreIndex \in TokenIndex
          /\ s.outToken \in TokenIndex /\ s.coreAmount \in Int /\ AmountToLock(s) \in Int
          /\ ServiceFeeCharged(s) \in Nat /\ s.share \in Nat
          /\ balanceOfPoolToken' = Debited(d, CoreIndex, p, s.coreAmount)
      BY <2>6, PoolOfType, CoreIndexType, SwapFields, FeesAreNat DEF DirectRelease, b
    <3>c. c \in Balances
      BY <1>1, <3>1, DebitedIs
    <3>2. c[<<i, 0>>] = b[<<i, 0>>]
      BY <1>1, <3>1, DebitedAt
    <3> HIDE DEF c, p
    <3>d. d \in Balances
      BY <3>c, FeesTakenIs
    <3>3. d[<<i, 0>>] >= c[<<i, 0>>] /\ d[<<i, 0>>] \in Int
      BY <1>1, <3>1, <3>2, <3>c, FeesTakenAt
    <3> HIDE DEF d
    <3>4. Debited(d, CoreIndex, p, s.coreAmount)[<<i, 0>>]
            = d[<<i, 0>>] - (IF i = CoreIndex /\ 0 = p THEN s.coreAmount ELSE 0)
      BY <1>1, <3>1, <3>d, DebitedAt
    <3>5. QED
      BY <1>1, <3>1, <3>2, <3>3, <3>4 DEF PoolGain, b
  <2>7. QED
    BY <1>5, <2>1, <2>2, <2>3, <2>4, <2>5, <2>6, PoolsCases DEF LockStep, ReleaseStep
<1>6. CASE ManagerNext
  <2>1. ASSUME NEW caller \in Accounts, NEW s \in Swaps, NEW recipient \in Recipients,
               DirectSwap(caller, s, recipient)
        PROVE  PoolGain(i, 0) >= 0
    <3> DEFINE c == Credited(b, s.inToken, 1, s.amount)
    <3>1. /\ s.inToken \in TokenIndex /\ s.outToken \in TokenIndex
          /\ s.amount \in Int /\ s.amount - s.fee \in Int
          /\ balanceOfPoolToken' = Debited(c, s.outToken, 1, s.amount - s.fee)
      BY <2>1, SwapFields DEF DirectSwap, b
    <3>c. c \in Balances
      BY <1>1, <3>1, CreditedIs
    <3>2. c[<<i, 0>>] = b[<<i, 0>>]
      BY <1>1, <3>1, CreditedAt
    <3> HIDE DEF c
    <3>3. Debited(c, s.outToken, 1, s.amount - s.fee)[<<i, 0>>] = c[<<i, 0>>]
      BY <1>1, <3>1, <3>2, <3>c, DebitedAt
    <3>4. QED
      BY <1>1, <3>1, <3>2, <3>3 DEF PoolGain, b
  <2>2. QED
    BY <1>2, <1>6, <2>1
    DEF ManagerNext, ListToken, DelistToken, TransferOwnership, TransferPremiumManager, statesVars
<1>7. CASE Tick \/ (\E g \in Signable : Sign(g)) \/ UNCHANGED vars
  BY <1>2, <1>7 DEF Tick, Sign, vars
<1>8. QED
  BY <1>4, <1>5, <1>6, <1>7 DEF Next

\* Service fees leave pool 0 only for one pool that has an owner, and stay in the
\* contract: withdrawServiceFee takes them, which the comment in release of
\* MesonPools.sol denies, and no other handler that debits a pool does.
THEOREM FeesAlwaysStayInPools == Spec => FeesStayInPools
<1> DEFINE Kept(i) ==
      PoolGain(i, 0) < 0
        => /\ UNCHANGED <<ledger, postedSwaps, lockedSwaps, registryVars>>
           /\ \E p \in PoolIndices \ {0} :
                /\ ownerOfPool[p] # ZeroAddress /\ PoolGain(i, p) = -PoolGain(i, 0)
                /\ \A q \in PoolIndices \ {0, p} : PoolGain(i, q) = 0
<1>1. TypeOK /\ [Next]_vars => \A i \in TokenIndex : Kept(i)
  <2> SUFFICES ASSUME TypeOK, [Next]_vars, NEW i \in TokenIndex, PoolGain(i, 0) < 0
               PROVE  /\ UNCHANGED <<ledger, postedSwaps, lockedSwaps, registryVars>>
                      /\ \E p \in PoolIndices \ {0} :
                           /\ ownerOfPool[p] # ZeroAddress /\ PoolGain(i, p) = -PoolGain(i, 0)
                           /\ \A q \in PoolIndices \ {0, p} : PoolGain(i, q) = 0
    OBVIOUS
  <2> DEFINE b == balanceOfPoolToken
  <2>1. /\ b \in Balances /\ 0 \in PoolIndices
        /\ \A p \in PoolIndices : b[<<i, p>>] \in Nat
    BY BalancesAre
  <2>2. \/ PoolGain(i, 0) >= 0
        \/ \E j \in TokenIndex, amount \in Amounts, p \in PoolIndices :
             WithdrawServiceFee(j, amount, p)
    BY FeePoolKeeps
  <2>3. PoolGain(i, 0) \in Int
    BY NextType, BalancesAre, <2>1 DEF PoolGain, TypeOK, StatesTypeOK, PoolTokenIndex
  <2>4. PICK j \in TokenIndex, amount \in Amounts, p \in PoolIndices :
          WithdrawServiceFee(j, amount, p)
    BY <2>2, <2>3
  <2> DEFINE c == Debited(b, j, 0, amount)
  <2>5. /\ amount \in Nat /\ ownerOfPool[p] # ZeroAddress
        /\ UNCHANGED <<ledger, postedSwaps, lockedSwaps, registryVars>>
        /\ balanceOfPoolToken' = Credited(c, j, p, amount)
    BY <2>4, LockTimeAssumption DEF WithdrawServiceFee, IsRegistered
  <2> HIDE DEF b
  <2>c. c \in Balances
    BY <2>1, <2>5, DebitedIs
  <2>6. /\ c[<<i, 0>>] = b[<<i, 0>>] - (IF i = j THEN amount ELSE 0)
        /\ \A q \in PoolIndices \ {0} : c[<<i, q>>] = b[<<i, q>>]
    BY <2>1, <2>5, DebitedAt
  <2> HIDE DEF c
  <2>7. /\ balanceOfPoolToken'[<<i, 0>>]
             = c[<<i, 0>>] + (IF i = j /\ p = 0 THEN amount ELSE 0)
        /\ balanceOfPoolToken'[<<i, p>>] = c[<<i, p>>] + (IF i = j THEN amount ELSE 0)
    BY <2>1, <2>5, <2>c, CreditedAt
  <2>8. p # 0 /\ i = j
    BY <2>1, <2>5, <2>6, <2>7 DEF PoolGain, b
  <2>9. PoolGain(i, p) = -PoolGain(i, 0)
    BY <2>1, <2>5, <2>6, <2>7, <2>8 DEF PoolGain, b
  <2>10. ASSUME NEW q \in PoolIndices \ {0, p}
         PROVE  PoolGain(i, q) = 0
    <3>1. balanceOfPoolToken'[<<i, q>>] = c[<<i, q>>] + 0 /\ c[<<i, q>>] = b[<<i, q>>]
      BY <2>1, <2>5, <2>6, <2>c, CreditedAt
    <3>2. QED
      BY <2>1, <3>1 DEF PoolGain, b
  <2>11. QED
    BY <2>5, <2>8, <2>9, <2>10
<1>2. TypeOK /\ [Next]_vars => [\A i \in TokenIndex : Kept(i)]_vars
  BY <1>1
<1>3. Spec => [][\A i \in TokenIndex : Kept(i)]_vars
  BY <1>2, TypeCorrect, PTL DEF Spec
<1>4. QED
  BY <1>3 DEF FeesStayInPools

-----------------------------------------------------------------------------
\* Deposits

\* A posted request is only taken off the books by these two.
LEMMA OnlySettlingSteps ==
  ASSUME TypeOK, [Next]_vars, NEW s \in Swaps,
         Pending(postedSwaps[s]), ~Pending(postedSwaps'[s])
  PROVE  \/ \E a \in Address :
              /\ CancelTo(s, a)
              /\ a = postedSwaps[s].initiator
                 \/ Signed("plain", s, a, postedSwaps[s].initiator)
         \/ \E recipient \in Recipients, depositToPool \in BOOLEAN :
              ExecuteSwap(s, recipient, depositToPool)
<1>1. postedSwaps' # postedSwaps
  OBVIOUS
<1>2. SwapNext
  <2>1. ManagerNext => UNCHANGED postedSwaps
    BY DEF ManagerNext, ListToken, DelistToken, TransferOwnership, TransferPremiumManager,
       WithdrawServiceFee, DirectSwap
  <2>2. QED
    BY <1>1, <2>1 DEF Next, Tick, Sign, vars
<1>3. PICK x \in Swaps, caller \in Accounts :
        \/ /\ postedSwaps[x] = NotPosted
           /\ \E v : postedSwaps' = [postedSwaps EXCEPT ![x] = v]
        \/ \E p \in PoolIndices : BondSwap(caller, x, p)
        \/ CancelSwap(x)
        \/ \E recipient \in Recipients : CancelSwapTo(x, recipient)
        \/ \E recipient \in Recipients, depositToPool \in BOOLEAN :
             ExecuteSwap(x, recipient, depositToPool)
  BY <1>1, <1>2
  DEF SwapNext, PostSwap, PostSwapFromInitiator, PostSwapFromContract, DirectExecuteSwap,
      SimpleExecuteSwap, VerifyEncodedSwap
<1>4. postedSwaps \in [Swaps -> PostedSwap]
  BY DEF TypeOK, SwapTypeOK
<1>5. ~Pending(NotPosted)
  BY DEF Pending
<1>6. CASE \E p \in PoolIndices : BondSwap(caller, x, p)
  <2>1. PICK p \in PoolIndices : BondSwap(caller, x, p)
    BY <1>6
  <2>2. postedSwaps' = [postedSwaps EXCEPT ![x].poolIndex = p]
    BY <2>1 DEF BondSwap
  <2>3. x = s
    BY <1>4, <2>2
  <2>4. postedSwaps[s].initiator # ZeroAddress
    BY <1>4, <2>1, <2>3 DEF BondSwap, Pending, NotPosted, PostedSwap
  <2>5. postedSwaps'[s].initiator = postedSwaps[s].initiator
    BY <1>4, <2>2, <2>3 DEF PostedSwap
  <2>6. QED
    BY <2>4, <2>5 DEF Pending, NotPosted, Executed
<1>7. CASE /\ postedSwaps[x] = NotPosted
           /\ \E v : postedSwaps' = [postedSwaps EXCEPT ![x] = v]
  BY <1>4, <1>5, <1>7
<1>8. CASE CancelSwap(x) \/ \E recipient \in Recipients : CancelSwapTo(x, recipient)
  <2>1. PICK a \in Address :
          /\ CancelTo(x, a)
          /\ a = postedSwaps[x].initiator
             \/ Signed("plain", x, a, postedSwaps[x].initiator)
    BY <1>8, PostedFields, AddressAssumption DEF CancelSwap, CancelSwapTo, Address
  <2>2. x = s
    BY <1>4, <2>1 DEF CancelTo
  <2>3. QED
    BY <2>1, <2>2
<1>9. CASE \E recipient \in Recipients, depositToPool \in BOOLEAN :
             ExecuteSwap(x, recipient, depositToPool)
  <2>1. x = s
    BY <1>4, <1>9 DEF ExecuteSwap
  <2>2. QED
    BY <1>9, <2>1
<1>10. QED
  BY <1>3, <1>6, <1>7, <1>8, <1>9

\* _safeTransfer of a deposit.
LEMMA TransferGain ==
  ASSUME TypeOK, NEW i \in TokenIndex, NEW a \in Address, NEW n \in Nat, a # Meson,
         CanTransfer(ledger, i, a, n), ledger' = Transferred(ledger, i, a, n)
  PROVE  Gain(TokenAt(i), a) = n
<1>1. /\ ledger \in [Holding -> Nat] /\ Meson \in Address /\ TokenAt(i) \in Tokens
      /\ ledger[<<TokenAt(i), Meson>>] >= n
  BY TokenAtType DEF TypeOK, StatesTypeOK, Address, CanTransfer
<1>2. ledger'[<<TokenAt(i), a>>] = ledger[<<TokenAt(i), a>>] + n
  BY <1>1, MovedGain DEF Transferred
<1>3. ledger[<<TokenAt(i), a>>] \in Int
  BY <1>1 DEF Holding
<1>4. QED
  BY <1>1, <1>2, <1>3 DEF Gain

\* A deposit leaves its escrow in full and to one party, which has the signature
\* for it (cancelSwap, cancelSwapTo, executeSwap).
THEOREM DepositsAreAlwaysSettled == Spec => DepositsAreSettled
<1> DEFINE Settled(s) ==
      Pending(postedSwaps[s]) /\ ~Pending(postedSwaps'[s]) => PaidToPool(s) \/ PaidBack(s)
<1>1. TypeOK /\ [Next]_vars => \A s \in Swaps : Settled(s)
  <2> SUFFICES ASSUME TypeOK, [Next]_vars, NEW s \in Swaps,
                      Pending(postedSwaps[s]), ~Pending(postedSwaps'[s])
               PROVE  PaidToPool(s) \/ PaidBack(s)
    OBVIOUS
  <2>1. /\ s.inToken \in TokenIndex /\ s.amount \in Nat
        /\ postedSwaps[s].poolIndex \in PoolIndices
        /\ ownerOfPool[postedSwaps[s].poolIndex] \in Address
    BY SwapFields, PostedFields DEF TypeOK, StatesTypeOK
  <2>2. ASSUME NEW a \in Address, CancelTo(s, a),
               a = postedSwaps[s].initiator \/ Signed("plain", s, a, postedSwaps[s].initiator)
        PROVE  PaidBack(s)
    <3>1. a # Meson => Gain(TokenAt(s.inToken), a) = s.amount
      BY <2>1, <2>2, TransferGain DEF CancelTo
    <3>2. s.expireTs < now
      BY <2>2 DEF CancelTo, SwapExpired
    <3>3. QED
      BY <2>2, <3>1, <3>2 DEF PaidBack
  <2>3. ASSUME NEW recipient \in Recipients, NEW depositToPool \in BOOLEAN,
               ExecuteSwap(s, recipient, depositToPool)
        PROVE  PaidToPool(s)
    <3> DEFINE p == postedSwaps[s].poolIndex
    <3>1. \E r \in Address : Signed("release", s, r, postedSwaps[s].initiator)
      BY <2>3, AddressAssumption DEF ExecuteSwap, Address
    <3>2. CASE depositToPool
      <4>1. /\ balanceOfPoolToken' = Credited(balanceOfPoolToken, s.inToken, p, s.amount)
            /\ UNCHANGED ledger
        BY <2>3, <3>2 DEF ExecuteSwap
      <4>2. balanceOfPoolToken \in Balances /\ balanceOfPoolToken[<<s.inToken, p>>] \in Int
        BY <2>1, BalancesAre
      <4>3. Credited(balanceOfPoolToken, s.inToken, p, s.amount)[<<s.inToken, p>>]
              = balanceOfPoolToken[<<s.inToken, p>>] + s.amount
        BY <2>1, <4>2, CreditedAt
      <4>4. PoolGain(s.inToken, p) = s.amount
        BY <2>1, <4>1, <4>2, <4>3 DEF PoolGain
      <4>5. QED
        BY <3>1, <4>1, <4>4 DEF PaidToPool
    <3>3. CASE ~depositToPool
      <4>1. /\ CanTransfer(ledger, s.inToken, ownerOfPool[p], s.amount)
            /\ ledger' = Transferred(ledger, s.inToken, ownerOfPool[p], s.amount)
        BY <2>3, <3>3 DEF ExecuteSwap
      <4>2. ownerOfPool[p] = Meson \/ Gain(TokenAt(s.inToken), ownerOfPool[p]) = s.amount
        BY <2>1, <4>1, TransferGain
      <4>3. QED
        BY <3>1, <4>2 DEF PaidToPool
    <3>4. QED
      BY <3>2, <3>3
  <2>4. QED
    BY <2>2, <2>3, OnlySettlingSteps
<1>2. TypeOK /\ [Next]_vars => [\A s \in Swaps : Settled(s)]_vars
  BY <1>1
<1>3. Spec => [][\A s \in Swaps : Settled(s)]_vars
  BY <1>2, TypeCorrect, PTL DEF Spec
<1>4. QED
  BY <1>3 DEF DepositsAreSettled

-----------------------------------------------------------------------------
\* Locks

\* Only these four change the word of a swap and its initiator.
LEMMA OnlyLockSteps ==
  ASSUME TypeOK, [Next]_vars, NEW s \in Swaps, NEW initiator \in Initiators,
         lockedSwaps'[<<s, initiator>>] # lockedSwaps[<<s, initiator>>]
  PROVE  \E caller \in Accounts :
           \/ LockSwap(caller, s, initiator)
           \/ Unlock(s, initiator)
           \/ \E recipient \in Recipients :
                \/ Release(caller, premiumManager, s, initiator, recipient)
                \/ \E withSig \in BOOLEAN :
                     DirectRelease(caller, premiumManager, s, initiator, recipient, withSig)
<1>1. lockedSwaps' # lockedSwaps
  OBVIOUS
<1>2. PoolsNext(premiumManager)
  <2>1. ManagerNext => UNCHANGED lockedSwaps
    BY DEF ManagerNext, ListToken, DelistToken, TransferOwnership, TransferPremiumManager,
       WithdrawServiceFee, DirectSwap
  <2>2. QED
    BY <1>1, <2>1 DEF Next, Tick, Sign, vars
<1>3. ~FundsStep /\ ~MembersStep
  BY <1>1
  DEF FundsStep, DepositAndRegister, Deposit, Withdraw, MembersStep, AddAuthorizedAddr,
      RemoveAuthorizedAddr, TransferPoolOwner
<1>4. PICK x \in Swaps, i \in Initiators, caller \in Accounts :
        /\ \E w : lockedSwaps' = [lockedSwaps EXCEPT ![<<x, i>>] = w]
        /\ \/ LockSwap(caller, x, i)
           \/ Unlock(x, i)
           \/ \E recipient \in Recipients :
                \/ Release(caller, premiumManager, x, i, recipient)
                \/ \E withSig \in BOOLEAN :
                     DirectRelease(caller, premiumManager, x, i, recipient, withSig)
  <2>1. ASSUME NEW x \in Swaps, NEW i \in Initiators, NEW caller,
               \/ LockSwap(caller, x, i)
               \/ Unlock(x, i)
               \/ \E recipient :
                    \/ Release(caller, premiumManager, x, i, recipient)
                    \/ \E withSig :
                         DirectRelease(caller, premiumManager, x, i, recipient, withSig)
        PROVE  \E w : lockedSwaps' = [lockedSwaps EXCEPT ![<<x, i>>] = w]
    BY <2>1 DEF LockSwap, Unlock, Release, DirectRelease
  <2>2. CASE LockStep
    BY <2>1, <2>2, Zenon DEF LockStep
  <2>3. CASE ReleaseStep
    BY <2>1, <2>3, Zenon DEF ReleaseStep
  <2>4. QED
    BY <1>2, <1>3, <2>2, <2>3, PoolsCases
<1>5. <<x, i>> = <<s, initiator>>
  BY <1>4 DEF TypeOK, PoolsTypeOK, SwapId
<1>6. QED
  BY <1>4, <1>5

\* Locked tokens are paid to a signed recipient in time, or return to the pool
\* after the lock time (release, unlock).
THEOREM LocksAreAlwaysSettled == Spec => LocksAreSettled
<1> DEFINE Settled(s, initiator) ==
      Locked(lockedSwaps[<<s, initiator>>]) /\ ~Locked(lockedSwaps'[<<s, initiator>>])
        => PaidOut(s, initiator) \/ GivenBack(s, initiator)
<1>1. TypeOK /\ [Next]_vars
        => \A s \in Swaps, initiator \in Initiators : Settled(s, initiator)
  <2> SUFFICES ASSUME TypeOK, [Next]_vars, NEW s \in Swaps, NEW initiator \in Initiators,
                      Locked(lockedSwaps[<<s, initiator>>]),
                      ~Locked(lockedSwaps'[<<s, initiator>>])
               PROVE  PaidOut(s, initiator) \/ GivenBack(s, initiator)
    OBVIOUS
  <2>1. lockedSwaps'[<<s, initiator>>] # lockedSwaps[<<s, initiator>>]
    OBVIOUS
  <2>2. lockedSwaps[<<s, initiator>>] # NotLocked
    BY DEF Locked
  <2>3. PICK caller \in Accounts :
          \/ LockSwap(caller, s, initiator)
          \/ Unlock(s, initiator)
          \/ \E recipient \in Recipients :
               \/ Release(caller, premiumManager, s, initiator, recipient)
               \/ \E withSig \in BOOLEAN :
                    DirectRelease(caller, premiumManager, s, initiator, recipient, withSig)
    BY <2>1, OnlyLockSteps
  <2>4. ~LockSwap(caller, s, initiator)
    BY <2>2 DEF LockSwap, NeverReleased
  <2>5. ASSUME NEW recipient \in Recipients, NEW withSig \in BOOLEAN
        PROVE  ~DirectRelease(caller, premiumManager, s, initiator, recipient, withSig)
    BY <2>2 DEF DirectRelease, NeverReleased
  <2>6. ASSUME NEW r \in Recipients,
               Release(caller, premiumManager, s, initiator, r)
        PROVE  PaidOut(s, initiator)
    <3>1. /\ CanTakeFees(s) /\ PayRecipient(s, r) /\ Signed("release", s, r, initiator)
          /\ now < s.expireTs
          /\ lockedSwaps' = [lockedSwaps EXCEPT ![<<s, initiator>>] = Released]
      BY <2>6 DEF Release, Releasable
    <3>2. r \in Address
      BY AddressAssumption DEF Address
    <3>3. lockedSwaps'[<<s, initiator>>] = Released
      BY <3>1 DEF TypeOK, PoolsTypeOK, SwapId
    <3>4. Received(s, r)
      BY <3>1, <3>2, PaidIsReceived
    <3>5. QED
      BY <3>1, <3>2, <3>3, <3>4 DEF PaidOut
  <2>7. CASE Unlock(s, initiator)
    <3> DEFINE p == lockedSwaps[<<s, initiator>>].poolIndex
               b == balanceOfPoolToken
               c == Credited(b, s.outToken, p, AmountToLock(s))
    <3>1. /\ p \in PoolIndices /\ CoreIndex \in TokenIndex
          /\ s.outToken \in TokenIndex /\ s.coreAmount \in Int /\ AmountToLock(s) \in Int
          /\ lockedSwaps[<<s, initiator>>].until < now /\ UNCHANGED ledger
          /\ balanceOfPoolToken' = Credited(c, CoreIndex, p, s.coreAmount)
      BY <2>7, LockedFields, CoreIndexType, SwapFields, FeesAreNat
      DEF Unlock, UnlockableAt, SwapId
    <3>2. b \in Balances /\ \A i \in TokenIndex : b[<<i, p>>] \in Int
      BY <3>1, BalancesAre
    <3>3. c \in Balances
      BY <3>1, <3>2, DebitedIs, CreditedIs
    <3> SUFFICES ASSUME NEW i \in TokenIndex
                 PROVE  PoolGain(i, p) = Covered(s, i)
      BY <3>1 DEF GivenBack
    <3> HIDE DEF p
    <3>4. c[<<i, p>>] = b[<<i, p>>] + (IF i = s.outToken THEN AmountToLock(s) ELSE 0)
      BY <3>1, <3>2, CreditedAt
    <3> HIDE DEF c
    <3>5. balanceOfPoolToken'[<<i, p>>]
            = c[<<i, p>>] + (IF i = CoreIndex THEN s.coreAmount ELSE 0)
      BY <3>1, <3>3, CreditedAt
    <3>6. QED
      BY <3>1, <3>2, <3>4, <3>5 DEF PoolGain, Covered
  <2>8. QED
    BY <2>3, <2>4, <2>5, <2>6, <2>7
<1>2. TypeOK /\ [Next]_vars
        => [\A s \in Swaps, initiator \in Initiators : Settled(s, initiator)]_vars
  BY <1>1
<1>3. Spec => [][\A s \in Swaps, initiator \in Initiators : Settled(s, initiator)]_vars
  BY <1>2, TypeCorrect, PTL DEF Spec
<1>4. QED
  BY <1>3 DEF LocksAreSettled

\* A pool that releases without a lock bears the whole amount itself
\* (directRelease, directReleaseWithSignature).
THEOREM DirectReleasesAreAlwaysCovered == Spec => DirectReleasesAreCovered
<1> DEFINE Paid(s, p) ==
      \A i \in TokenIndex :
        PoolGain(i, p) = (IF i = s.outToken /\ p = s.poolToShare
                          THEN s.share ELSE 0) - Covered(s, i)
           MayPay(s, initiator, p, r) ==
      \/ now < s.expireTs /\ Signed("release", s, r, initiator)
      \/ poolOfAuthorizedAddr[premiumManager] = p
           Fair(s, initiator) ==
      lockedSwaps[<<s, initiator>>] = NotLocked /\ lockedSwaps'[<<s, initiator>>] = Released
        => \E p \in PoolIndices \ {0}, r \in Address :
             /\ Paid(s, p)
             /\ Received(s, r)
             /\ MayPay(s, initiator, p, r)
<1>1. TypeOK /\ [Next]_vars
        => \A s \in Swaps, initiator \in Initiators : Fair(s, initiator)
  <2> SUFFICES ASSUME TypeOK, [Next]_vars, NEW s \in Swaps, NEW initiator \in Initiators,
                      lockedSwaps[<<s, initiator>>] = NotLocked,
                      lockedSwaps'[<<s, initiator>>] = Released
               PROVE  \E p \in PoolIndices \ {0}, r \in Address :
                        /\ Paid(s, p)
                        /\ Received(s, r)
                        /\ MayPay(s, initiator, p, r)
    OBVIOUS
  <2>1. NotLocked # Released /\ ~Locked(NotLocked)
    BY DEF NotLocked, Released, Locked
  <2>2. PICK caller \in Accounts :
          \/ LockSwap(caller, s, initiator)
          \/ Unlock(s, initiator)
          \/ \E recipient \in Recipients :
               \/ Release(caller, premiumManager, s, initiator, recipient)
               \/ \E withSig \in BOOLEAN :
                    DirectRelease(caller, premiumManager, s, initiator, recipient, withSig)
    BY <2>1, OnlyLockSteps
  <2>3. ~LockSwap(caller, s, initiator)
    <3>1. SUFFICES ASSUME LockSwap(caller, s, initiator) PROVE FALSE
      OBVIOUS
    <3>2. lockedSwaps'[<<s, initiator>>].until = now + LOCK_TIME_PERIOD
      BY <3>1 DEF LockSwap, TypeOK, PoolsTypeOK, SwapId
    <3>3. QED
      BY <3>2, LockTimeAssumption DEF Released, TypeOK, StatesTypeOK
  <2>4. ~Unlock(s, initiator)
    BY <2>1 DEF Unlock
  <2>5. ASSUME NEW recipient \in Recipients
        PROVE  ~Release(caller, premiumManager, s, initiator, recipient)
    BY <2>1 DEF Release
  <2>6. PICK r \in Recipients, withSig \in BOOLEAN :
          DirectRelease(caller, premiumManager, s, initiator, r, withSig)
    BY <2>2, <2>3, <2>4, <2>5
  <2> DEFINE p == poolOfAuthorizedAddr[caller]
             b == balanceOfPoolToken
             c == Debited(b, s.outToken, p, AmountToLock(s))
             d == FeesTaken(c, s)
  <2>7. /\ p \in PoolIndices /\ p # 0 /\ CoreIndex \in TokenIndex /\ r \in Address
        /\ s.outToken \in TokenIndex /\ s.coreAmount \in Int /\ AmountToLock(s) \in Int
        /\ ServiceFeeCharged(s) \in Int /\ s.share \in Int
        /\ CanTakeFees(s) /\ PayRecipient(s, r)
        /\ MayReleaseDirectly(caller, premiumManager, s, initiator, r, withSig)
        /\ balanceOfPoolToken' = Debited(d, CoreIndex, p, s.coreAmount)
    BY <2>6, PoolOfType, CoreIndexType, SwapFields, FeesAreNat, AddressAssumption
    DEF DirectRelease, Address
  <2>8. b \in Balances /\ \A i \in TokenIndex : b[<<i, p>>] \in Int
    BY <2>7, BalancesAre
  <2>9. MayPay(s, initiator, p, r)
    BY <2>7 DEF MayReleaseDirectly, Releasable
  <2>10. Received(s, r)
    BY <2>7, PaidIsReceived
  <2> HIDE DEF p, b
  <2>11. c \in Balances
    BY <2>7, <2>8, DebitedIs
  <2>12. \A i \in TokenIndex :
           c[<<i, p>>] = b[<<i, p>>] - (IF i = s.outToken THEN AmountToLock(s) ELSE 0)
    BY <2>7, <2>8, DebitedAt
  <2> HIDE DEF c
  <2>13. d \in Balances
    BY <2>11, FeesTakenIs
  <2>14. \A i \in TokenIndex :
           d[<<i, p>>] = c[<<i, p>>]
             + (IF i = s.outToken /\ p = 0 THEN ServiceFeeCharged(s) ELSE 0)
             + (IF i = s.outToken /\ p = s.poolToShare THEN s.share ELSE 0)
    BY <2>7, <2>11, FeesTakenAt
  <2> HIDE DEF d
  <2>15. \A i \in TokenIndex :
           balanceOfPoolToken'[<<i, p>>]
             = d[<<i, p>>] - (IF i = CoreIndex THEN s.coreAmount ELSE 0)
    BY <2>7, <2>13, DebitedAt
  <2>16. Paid(s, p)
    <3> SUFFICES ASSUME NEW i \in TokenIndex
                 PROVE  PoolGain(i, p) = (IF i = s.outToken /\ p = s.poolToShare
                                          THEN s.share ELSE 0) - Covered(s, i)
      OBVIOUS
    <3>1. /\ b[<<i, p>>] \in Int
          /\ c[<<i, p>>] = b[<<i, p>>] - (IF i = s.outToken THEN AmountToLock(s) ELSE 0)
          /\ d[<<i, p>>] = c[<<i, p>>]
               + (IF i = s.outToken /\ p = s.poolToShare THEN s.share ELSE 0)
          /\ balanceOfPoolToken'[<<i, p>>]
               = d[<<i, p>>] - (IF i = CoreIndex THEN s.coreAmount ELSE 0)
      BY <2>7, <2>8, <2>12, <2>14, <2>15
    <3>2. PoolGain(i, p) = balanceOfPoolToken'[<<i, p>>] - b[<<i, p>>]
      BY DEF PoolGain, b
    <3>3. QED
      BY <2>7, <3>1, <3>2 DEF Covered
  <2> HIDE DEF Paid, MayPay
  <2>17. QED
    BY <2>7, <2>9, <2>10, <2>16
<1>2. TypeOK /\ [Next]_vars
        => [\A s \in Swaps, initiator \in Initiators : Fair(s, initiator)]_vars
  BY <1>1
<1>3. Spec => [][\A s \in Swaps, initiator \in Initiators : Fair(s, initiator)]_vars
  BY <1>2, TypeCorrect, PTL DEF Spec
<1>4. QED
  BY <1>3 DEF DirectReleasesAreCovered

=============================================================================
