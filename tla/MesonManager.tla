---------------------------- MODULE MesonManager ----------------------------
(***************************************************************************)
(* A deployed Meson contract: MesonSwap and MesonPools over the same       *)
(* states, with the owner, who lists tokens and moves service fees, and    *)
(* the premium manager, who authorizes fee-waived releases and direct      *)
(* swaps.  The environment lets block time pass and gives out signatures.  *)
(***************************************************************************)
EXTENDS MesonSwap, MesonPools

CONSTANTS
  Deployer,         \* the first owner
  FirstManager,     \* the first premium manager
  Deployment,       \* tokenForIndex as the deployment script leaves it
  InitialLedger,    \* what every address holds before the first call
  Listings,         \* the pairs <<token, index>> that the owner may list
  Delistings,       \* the indexes that the owner may remove
  Managers,         \* the addresses that ownership may be transferred to
  Signable,         \* the signatures that users may give out
  MaxTime           \* bound on block time

ASSUME DeploymentAssumption ==
  /\ Deployer \in Accounts
  /\ FirstManager \in Accounts
  /\ Deployment \in [TokenIndex -> Tokens \union {ZeroAddress}]
  /\ Deployment[0] = ZeroAddress
  /\ \A i, j \in TokenIndex :
       Deployment[i] = Deployment[j] /\ Deployment[i] # ZeroAddress => i = j
  /\ InitialLedger \in [Holding -> Nat]
  /\ Listings \subseteq Tokens \X TokenIndices
  /\ Delistings \subseteq TokenIndices
  /\ Managers \subseteq Accounts
  /\ Signable \subseteq Signature
  /\ \A g \in Signable : g.signer \in Accounts
  /\ MaxTime \in Nat

VARIABLES owner, premiumManager

managerVars == <<owner, premiumManager>>
vars == <<now, signatures, ledger, tokenForIndex, indexOfToken,
          poolOfAuthorizedAddr, ownerOfPool, balanceOfPoolToken,
          postedSwaps, lockedSwaps, owner, premiumManager>>

ManagerTypeOK == owner \in Accounts /\ premiumManager \in Accounts

\* The types of all variables of the contract and of its environment.
TypeOK == StatesTypeOK /\ SwapTypeOK /\ PoolsTypeOK /\ ManagerTypeOK

\* The state after the constructor (or initialize) and the listing of the
\* first tokens by the deployment script.
Init ==
  /\ now = 0
  /\ signatures = {}
  /\ ledger = InitialLedger
  /\ tokenForIndex = Deployment
  /\ indexOfToken =
       [t \in Tokens |-> IF \E i \in TokenIndices : Deployment[i] = t
                         THEN CHOOSE i \in TokenIndices : Deployment[i] = t
                         ELSE 0]
  /\ poolOfAuthorizedAddr = [a \in Address |-> 0]
  /\ ownerOfPool = [p \in PoolIndices |-> ZeroAddress]
  /\ balanceOfPoolToken = [pti \in PoolTokenIndex |-> 0]
  /\ SwapInit
  /\ PoolsInit
  /\ owner = Deployer
  /\ premiumManager = FirstManager

-----------------------------------------------------------------------------
\* Calls of the owner and of the premium manager.  The caller of these is the
\* owner or the manager itself, which is always some account.

ListToken(token, i) ==
  /\ AddSupportToken(token, i)
  /\ UNCHANGED <<envVars, ledger, registryVars, balanceOfPoolToken,
                 postedSwaps, lockedSwaps, managerVars>>

DelistToken(i) ==
  /\ RemoveSupportToken(i)
  /\ UNCHANGED <<envVars, ledger, registryVars, balanceOfPoolToken,
                 postedSwaps, lockedSwaps, managerVars>>

TransferOwnership(newOwner) ==
  /\ newOwner # ZeroAddress
  /\ owner' = newOwner
  /\ UNCHANGED <<statesVars, postedSwaps, lockedSwaps, premiumManager>>

TransferPremiumManager(newManager) ==
  /\ newManager # ZeroAddress
  /\ premiumManager' = newManager
  /\ UNCHANGED <<statesVars, postedSwaps, lockedSwaps, owner>>

\* A variant takes every pool but the fee pool.
IsOtherPool(p) == p # 0
IsRegistered(p) == ownerOfPool[p] # ZeroAddress

WithdrawServiceFee(i, amount, toPool) ==
  /\ IsRegistered(toPool)
  /\ Covers(balanceOfPoolToken, i, 0, amount)
  /\ balanceOfPoolToken' =
       Credited(Debited(balanceOfPoolToken, i, 0, amount), i, toPool, amount)
  /\ UNCHANGED <<envVars, ledger, tokenVars, registryVars, postedSwaps,
                 lockedSwaps, managerVars>>

\* Both sides of a swap within this chain, paid from pool 1 on a signature of
\* the premium manager.  The handler is not payable, and it marks nothing.
DirectSwap(caller, s, recipient) ==
  LET amountOut == s.amount - s.fee
      b == Credited(balanceOfPoolToken, s.inToken, 1, s.amount)
      l == Moved(ledger, TokenAt(s.inToken), caller, Meson, s.amount)
  IN  /\ VerifyEncodedSwap(s)
      /\ s.outChain = SHORT_COIN_TYPE
      /\ recipient # ZeroAddress
      /\ Signed("plain", s, recipient, premiumManager)
      /\ amountOut >= 0
      /\ Covers(b, s.outToken, 1, amountOut)
      /\ balanceOfPoolToken' = Debited(b, s.outToken, 1, amountOut)
      /\ s.amount > 0
      /\ ~IsCoreToken(s.inToken) /\ Transferable(s.inToken)
      /\ ledger[<<TokenAt(s.inToken), caller>>] >= s.amount
      /\ CanRelease(l, s, recipient, amountOut)
      /\ ledger' = ReleasedTo(l, s, recipient, amountOut)
      /\ UNCHANGED <<envVars, tokenVars, registryVars, postedSwaps,
                     lockedSwaps, managerVars>>

ManagerNext ==
  \/ \E l \in Listings : ListToken(l[1], l[2])
  \/ \E i \in Delistings : DelistToken(i)
  \/ \E a \in Managers : TransferOwnership(a) \/ TransferPremiumManager(a)
  \/ \E i \in TokenIndex, amount \in Amounts, p \in PoolIndices :
       WithdrawServiceFee(i, amount, p)
  \/ \E caller \in Accounts, s \in Swaps, recipient \in Recipients :
       DirectSwap(caller, s, recipient)

-----------------------------------------------------------------------------
\* The environment

Tick ==
  /\ now < MaxTime
  /\ now' = now + 1
  /\ UNCHANGED <<signatures, ledger, tokenVars, registryVars,
                 balanceOfPoolToken, postedSwaps, lockedSwaps, managerVars>>

Sign(g) ==
  /\ g \notin signatures
  /\ signatures' = signatures \union {g}
  /\ UNCHANGED <<now, ledger, tokenVars, registryVars, balanceOfPoolToken,
                 postedSwaps, lockedSwaps, managerVars>>

Next ==
  \/ SwapNext /\ UNCHANGED <<lockedSwaps, managerVars>>
  \/ PoolsNext(premiumManager) /\ UNCHANGED <<postedSwaps, managerVars>>
  \/ ManagerNext
  \/ Tick
  \/ \E g \in Signable : Sign(g)

Spec == Init /\ [][Next]_vars

=============================================================================
