----------------------------- MODULE ClientCalls -----------------------------
(***************************************************************************)
(* The calls that the write methods of MesonClient (MesonClient.ts) hand   *)
(* to the contract object of a chain: the name of the method and its       *)
(* arguments by name, as the interface of the contract lists them.         *)
(*                                                                         *)
(* A signature is split into r and yParityAndS; both are kept as parts of  *)
(* it, which only the two of one signature make up again.                  *)
(***************************************************************************)
EXTENDS SwapSigning

Call(name, args) == [name |-> name, args |-> args]

ZeroWord == <<"zero", "zero">>

SplitSignature(signature) ==
  [r |-> <<"r", signature>>, yParityAndS |-> <<"s", signature>>]
ZeroSignature == [r |-> ZeroWord, yParityAndS |-> ZeroWord]

\* Chains on which a lock names the recipient.
LocksForRecipient == {"aptos", "sui", "solana", "starknet", "ckb"}

PostSwap(request, poolIndex) ==
  LET sig == SplitSignature(request.signature)
  IN  Call("postSwap", [encodedSwap |-> request.swap, r |-> sig.r,
                        yParityAndS |-> sig.yParityAndS,
                        postingValue |-> <<request.initiator, poolIndex>>])

PostSwapFromInitiator(s, initiator, poolIndex) ==
  Call("postSwapFromInitiator",
       [encodedSwap |-> s, postingValue |-> <<initiator, poolIndex>>])

BondSwap(s, poolIndex) ==
  Call("bondSwap", [encodedSwap |-> s, poolIndex |-> poolIndex])

CancelSwap(s) == Call("cancelSwap", [encodedSwap |-> s])

LockSwap(s, initiator, recipient) ==
  Call("lockSwap", [encodedSwap |-> s, initiator |-> initiator,
                    recipient |-> IF s.outChain \in LocksForRecipient
                                  THEN recipient ELSE None])

Unlock(request) ==
  Call("unlock", [encodedSwap |-> request.swap, initiator |-> request.initiator])

\* What is passed on as the recipient of a release: an address of tron in hex.
ReleaseRecipient(release) ==
  IF ToTron(release.swap) THEN ClipRecipient(release.recipient, release.swap)
  ELSE release.recipient

Release(release) ==
  LET sig == SplitSignature(release.signature)
  IN  Call("release", [encodedSwap |-> release.swap, r |-> sig.r,
                       yParityAndS |-> sig.yParityAndS,
                       initiator |-> release.initiator,
                       recipient |-> ReleaseRecipient(release)])

\* Once the swap has expired, by the clock of the client, no signature is sent.
DirectRelease(release, expired) ==
  LET sig == IF expired THEN ZeroSignature ELSE SplitSignature(release.signature)
  IN  Call("directRelease", [encodedSwap |-> release.swap, r |-> sig.r,
                             yParityAndS |-> sig.yParityAndS,
                             initiator |-> release.initiator,
                             recipient |-> ReleaseRecipient(release)])

\* A mutant: the two words of the signature in the wrong order.
ExecuteSwapMixed(release, depositToPool) ==
  Call("executeSwap", [encodedSwap |-> release.swap, r |-> release.yParityAndS,
                       yParityAndS |-> release.r,
                       recipient |-> ClipRecipient(release.recipient, release.swap),
                       depositToPool |-> depositToPool])

\* The release that it takes may be one put together from what was observed.
ExecuteSwap(release, depositToPool) ==
  Call("executeSwap", [encodedSwap |-> release.swap, r |-> release.r,
                       yParityAndS |-> release.yParityAndS,
                       recipient |-> ClipRecipient(release.recipient, release.swap),
                       depositToPool |-> depositToPool])

\* deposit fails for a signer without a pool; depositAndRegister names the pool
\* to register, and both pack it with the token.
PoolDeposit(name, tokenIndex, amount, poolIndex) ==
  Call(name, [amount |-> amount, poolTokenIndex |-> <<tokenIndex, poolIndex>>])

=============================================================================
