----------------------------- MODULE MesonStates -----------------------------
(***************************************************************************)
(* The state that all parts of a deployed Meson contract share: the token  *)
(* registry, the pool registry and the pool balances, with the operators   *)
(* that collect tokens from a caller and pay them out.                     *)
(*                                                                         *)
(* Around the contract are the token contracts (`ledger`: who holds how    *)
(* much of which token, the contract included), the block time (`now`) and *)
(* the signatures that users have given out.  Amounts are in the decimal 6 *)
(* unit of the contract; the factor between it and the unit of a token is  *)
(* left out.  A call that reverts changes nothing and is no step.          *)
(***************************************************************************)
EXTENDS MesonHelpers

CONSTANTS
  Accounts,         \* the addresses that call the contract
  Contracts,        \* those of them that are contracts
  ZeroAddress,      \* address(0)
  Meson,            \* the address of the contract itself
  Tokens,           \* the addresses of tokens
  CoreToken,        \* address(1), which stands for the native coin
  SHORT_COIN_TYPE,  \* the chain of this deployment
  Initiators,       \* the addresses that calls name as the initiator of a swap
  Recipients        \* the addresses that calls name as the recipient

Address == Accounts \union {ZeroAddress, Meson}

ASSUME AddressAssumption ==
  /\ Contracts \subseteq Accounts
  /\ Initiators \subseteq Accounts \union {ZeroAddress, Meson}
  /\ Recipients \subseteq Accounts \union {ZeroAddress, Meson}
  /\ ZeroAddress \notin Accounts \union {Meson}
  /\ Meson \notin Accounts
  /\ CoreToken \in Tokens
  /\ ZeroAddress \notin Tokens
  /\ SHORT_COIN_TYPE \in Chains

VARIABLES
  now,                    \* block.timestamp
  signatures,             \* signatures given out so far
  ledger,                 \* balances in the token contracts
  tokenForIndex,
  indexOfToken,
  poolOfAuthorizedAddr,
  ownerOfPool,
  balanceOfPoolToken

envVars == <<now, signatures>>
tokenVars == <<tokenForIndex, indexOfToken>>
registryVars == <<poolOfAuthorizedAddr, ownerOfPool>>
statesVars == <<now, signatures, ledger, tokenForIndex, indexOfToken,
                poolOfAuthorizedAddr, ownerOfPool, balanceOfPoolToken>>

PoolTokenIndex == TokenIndex \X PoolIndices
Holding == Tokens \X Address

\* A signature is for one of three digests: the request (encodedSwap), the
\* release (encodedSwap, recipient under a type hash), and the plain pair
\* (encodedSwap, recipient) that cancelSwapTo and directSwap both check.
Signature == [ kind : {"request", "release", "plain"}, swap : Swaps,
               recipient : Address, signer : Address ]

Signed(kind, s, recipient, signer) ==
  /\ signer # ZeroAddress
  /\ [kind |-> kind, swap |-> s, recipient |-> recipient, signer |-> signer]
       \in signatures

StatesTypeOK ==
  /\ now \in Nat
  /\ signatures \subseteq Signature
  /\ ledger \in [Holding -> Nat]
  /\ tokenForIndex \in [TokenIndex -> Tokens \union {ZeroAddress}]
  /\ indexOfToken \in [Tokens -> TokenIndex]
  /\ poolOfAuthorizedAddr \in [Address -> PoolIndices]
  /\ ownerOfPool \in [PoolIndices -> Address]
  /\ balanceOfPoolToken \in [PoolTokenIndex -> Nat]

-----------------------------------------------------------------------------
\* Moving tokens.  These operators return the new value of ledger or of
\* balanceOfPoolToken, so that a handler can chain several of them.

\* One after the other, since both may be the same address.
Moved(l, token, from, to, amount) ==
  LET taken == [l EXCEPT ![<<token, from>>] = @ - amount]
  IN  [taken EXCEPT ![<<token, to>>] = @ + amount]

Credited(b, i, p, amount) == [b EXCEPT ![<<i, p>>] = @ + amount]

Debited(b, i, p, amount) == [b EXCEPT ![<<i, p>>] = @ - amount]

\* The checked subtraction of a pool balance does not revert; and a variant
\* with unchecked arithmetic.
CoversUnchecked(b, i, p, amount) == TRUE
Covers(b, i, p, amount) == b[<<i, p>>] >= amount

\* The token that is moved for an index.  Core tokens are not looked up.
TokenAt(i) == IF IsCoreToken(i) THEN CoreToken ELSE tokenForIndex[i]

\* The token address of a stablecoin must have code, which address(1) has not.
Transferable(i) ==
  IsCoreToken(i) \/ tokenForIndex[i] \in Tokens \ {CoreToken}

\* _unsafeDepositToken.  Core tokens come as the value of the call and so from
\* the caller; other tokens are pulled from the given sender, who is taken to
\* have approved the contract.
DepositToken(caller, sender, i, amount) ==
  LET payer == IF IsCoreToken(i) THEN caller ELSE sender
  IN  /\ amount > 0
      /\ Transferable(i)
      /\ payer \in Accounts
      /\ ledger[<<TokenAt(i), payer>>] >= amount
      /\ ledger' = Moved(ledger, TokenAt(i), payer, Meson, amount)

\* _safeTransfer succeeds: token contracts refuse the zero address, a transfer
\* of core tokens does not.
CanTransfer(l, i, recipient, amount) ==
  /\ Transferable(i)
  /\ IsCoreToken(i) \/ recipient # ZeroAddress
  /\ l[<<TokenAt(i), Meson>>] >= amount

Transferred(l, i, recipient, amount) ==
  Moved(l, TokenAt(i), Meson, recipient, amount)

-----------------------------------------------------------------------------
\* _addSupportToken and _removeSupportToken

\* A variant looks at only one of the two mappings.
IndexIsFree(token, i) == tokenForIndex[i] = ZeroAddress
Listable(token, i) ==
  indexOfToken[token] = 0 /\ tokenForIndex[i] = ZeroAddress

AddSupportToken(token, i) ==
  /\ i # 0
  /\ token # ZeroAddress
  /\ Listable(token, i)
  /\ IsCoreToken(i) => token = CoreToken
  /\ indexOfToken' = [indexOfToken EXCEPT ![token] = i]
  /\ tokenForIndex' = [tokenForIndex EXCEPT ![i] = token]

RemoveSupportToken(i) ==
  /\ i # 0
  /\ tokenForIndex[i] # ZeroAddress
  /\ indexOfToken' = [indexOfToken EXCEPT ![tokenForIndex[i]] = 0]
  /\ tokenForIndex' = [tokenForIndex EXCEPT ![i] = ZeroAddress]

=============================================================================
