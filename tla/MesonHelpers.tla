---------------------------- MODULE MesonHelpers ----------------------------
(***************************************************************************)
(* The swap request as the contract decodes it, and the pure functions     *)
(* the handlers compute from it.                                           *)
(*                                                                         *)
(* An `encodedSwap` is one 256-bit word that packs the fields below and is *)
(* the key of every mapping about the swap.  Here it is the record of its  *)
(* decoded fields: two words are equal exactly when their records are.     *)
(* The bits of `salt` that select a partner share or a core-token part are *)
(* represented by what the contract decodes from them: the part of the     *)
(* amount that is swapped for core tokens (forCore), the core tokens given *)
(* for it (coreAmount), the partner's share and the partner's pool.  Every *)
(* swap carries the protocol version of the contract.                      *)
(***************************************************************************)
EXTENDS Integers

CONSTANTS
  Swaps,                    \* the encoded swaps that are ever submitted
  TokenIndices,             \* token indexes in use, 1..255
  PoolIndices,              \* pool indexes in use; 0 holds the service fees
  Chains,                   \* short coin types
  SERVICE_FEE_MINIMUM,      \* the parameters of MesonConfig.sol
  SERVICE_FEE_MINIMUM_ETH,
  SERVICE_FEE_MINIMUM_BNB,
  SERVICE_FEE_MINIMUM_BTC

TokenIndex == TokenIndices \union {0}

EncodedSwap ==
  [ salt : Nat, amount : Nat, fee : Nat, expireTs : Nat,
    inChain : Chains, inToken : TokenIndex,
    outChain : Chains, outToken : TokenIndex,
    feeWaived : BOOLEAN, toContract : BOOLEAN,
    forCore : Nat, coreAmount : Nat, share : Nat, poolToShare : PoolIndices ]

\* The salt bits exclude each other: a core part and a partner share are only
\* decoded from swaps released to a plain address, and never both.
ExclusiveExtras(s) ==
  /\ s.toContract => s.forCore = 0 /\ s.share = 0
  /\ s.share > 0 => s.forCore = 0
  /\ s.coreAmount > 0 => s.forCore > 0

ASSUME IndexAssumption ==
  /\ TokenIndices \subseteq 1..255
  /\ PoolIndices \subseteq Nat
  /\ {0, 1} \subseteq PoolIndices

ASSUME SwapsAssumption ==
  /\ Swaps \subseteq EncodedSwap
  /\ \A s \in Swaps : ExclusiveExtras(s)

ASSUME FeeAssumption ==
  /\ SERVICE_FEE_MINIMUM \in Nat
  /\ SERVICE_FEE_MINIMUM_ETH \in Nat
  /\ SERVICE_FEE_MINIMUM_BNB \in Nat
  /\ SERVICE_FEE_MINIMUM_BTC \in Nat

-----------------------------------------------------------------------------
\* Token indexes

\* The native coin of the chain, or a stablecoin that is the native coin.
IsCoreToken(i) == i \in 49..64 \/ (i > 190 /\ i % 4 = 3)

\* _tokenType reverts between 129 and 191.
HasTokenType(i) == i <= 128 \/ i >= 192

TokenType(i) ==
  IF i >= 192 THEN i \div 4 ELSE IF i <= 64 THEN 0 ELSE i \div 2 - 31

SameTokenType(i, j) ==
  HasTokenType(i) /\ HasTokenType(j) /\ TokenType(i) = TokenType(j)

-----------------------------------------------------------------------------
\* Amounts

ServiceFeeMinimum(i) ==
  IF i >= 252 THEN SERVICE_FEE_MINIMUM_ETH
  ELSE IF i >= 248 THEN SERVICE_FEE_MINIMUM_BNB
  ELSE IF i >= 244 THEN SERVICE_FEE_MINIMUM_ETH
  ELSE IF i >= 240 THEN SERVICE_FEE_MINIMUM_BTC
  ELSE SERVICE_FEE_MINIMUM

\* 0.05% of the amount, and never less than the minimum of the paid token.
ServiceFee(s) ==
  LET fee == (s.amount * 5) \div 10000
      minFee == ServiceFeeMinimum(s.inToken)
  IN  IF fee > minFee THEN fee ELSE minFee

\* Negative where the checked subtraction of the contract reverts.
AmountToLock(s) == s.amount - s.fee - s.forCore

ServiceFeeCharged(s) == IF s.feeWaived THEN 0 ELSE ServiceFee(s)

\* Variants with a fee forgotten.
ReleaseAmountWithoutShare(s) == AmountToLock(s) - ServiceFeeCharged(s)
ReleaseAmountWithoutFee(s) == AmountToLock(s) - s.share

\* What the recipient is sent in the out token when the swap is released.
ReleaseAmount(s) == AmountToLock(s) - ServiceFeeCharged(s) - s.share

=============================================================================
