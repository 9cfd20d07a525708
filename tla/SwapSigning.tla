----------------------------- MODULE SwapSigning -----------------------------
(***************************************************************************)
(* How the initiator of a swap signs it: the three swap signers of         *)
(* SwapSigner.ts behind a SwapWithSigner, and what the contracts           *)
(* (MesonHelpers.sol) and SignedSwap.ts take such a signature for.         *)
(*                                                                         *)
(* A signer with a key of its own answers at once.  The other two wait for *)
(* a wallet, in which the user may select another account meanwhile, and   *)
(* which the page that asked may not be there to hear.  The wallet of a    *)
(* chain without ECDSA keys signs a text, and its signature is the seed of *)
(* a key for that one swap, which is kept in memory only.                  *)
(*                                                                         *)
(* A digest is the tuple that is hashed; a signature is a record of the    *)
(* digest and of the account whose key signed it.                          *)
(***************************************************************************)
EXTENDS Naturals, FiniteSets, Sequences

CONSTANTS
  Swaps,          \* records: inChain, outChain, nonTyped, ...
  Accounts,       \* of the wallet of the user
  Recipients,     \* records: form, head (20 bytes), tail (what is clipped)
  MaxSigned,      \* bound on the calls of signForRequest and signForRelease
  None            \* undefined

ASSUME MaxSignedAssumption == MaxSigned \in Nat

VARIABLES
  signer,         \* which of the classes signs, throughout
  testnet,        \* whether the client is one of a testnet, throughout
  account,        \* the account selected in the wallet
  swapSigners,    \* #initiatorSwapSigners
  currentInitiator,
  signing,        \* calls of signForRequest and signForRelease under way
  signed          \* the data they have returned

signingVars ==
  <<signer, testnet, account, swapSigners, currentInitiator, signing, signed>>

Kinds == {"ethers", "remote", "nonEcdsa"}
Failure == "failure"
NoSigner == None

\* The prefix of the header or of the type of what is signed.
FromTron(s) == s.inChain = "tron"
ToTron(s) == s.outChain = "tron"

\* Wallets of Aptos, Sui and Starknet write an address the same way.
FormOn(chain) == IF chain \in {"aptos", "sui", "starknet"} THEN "move" ELSE chain
Clipped == {"bitcoin", "ton", "solana", "aptos", "sui", "starknet", "ckb"}

\* An address of 20 bytes stays, any other is cut down to its first 20.  The
\* form "ckb" is that of a JoyID address, the only one of CKB that is taken.
ClipRecipient(recipient, s) ==
  CASE s.outChain \in Clipped ->
         IF recipient.form \in {"ethers", FormOn(s.outChain)}
         THEN recipient.head ELSE Failure
    [] ToTron(s) ->
         IF recipient.form \in {"ethers", "tron"} THEN recipient.head ELSE Failure
    [] OTHER -> IF recipient.form = "ethers" THEN recipient.head ELSE Failure

NoRecipient == [form |-> "none", head |-> "none", tail |-> "none"]

-----------------------------------------------------------------------------
\* What is hashed: by the signers, by a wallet that shows it, by a contract

PrehashRequest(s, onTestnet) ==
  CASE FromTron(s) -> <<"TRON", IF s.nonTyped THEN 33 ELSE 32, s>>
    [] ~FromTron(s) /\ s.nonTyped -> <<"Ethereum", 32, s>>
    [] OTHER -> <<"request", onTestnet, s>>

\* A mutant: the length of a release is not counted.
PrehashReleaseOf32(s, clipped, onTestnet) ==
  CASE FromTron(s) -> <<"TRON", 32, s, clipped>>
    [] ~FromTron(s) /\ s.nonTyped -> <<"Ethereum", 52, s, clipped>>
    [] OTHER -> <<IF ToTron(s) THEN "release to tron" ELSE "release",
                  onTestnet, s, clipped>>

PrehashRelease(s, clipped, onTestnet) ==
  CASE FromTron(s) -> <<"TRON", IF s.nonTyped THEN 53 ELSE 32, s, clipped>>
    [] ~FromTron(s) /\ s.nonTyped -> <<"Ethereum", 52, s, clipped>>
    [] OTHER -> <<IF ToTron(s) THEN "release to tron" ELSE "release",
                  onTestnet, s, clipped>>

\* RemoteSwapSigner hands the wallet a message, with a line feed before it for
\* tron, or typed data.
RemoteMessage(s, content, type, onTestnet) ==
  IF FromTron(s) \/ s.nonTyped
  THEN [via |-> "message", content |-> content,
        bytes |-> (IF FromTron(s) THEN 1 ELSE 0) + (IF Len(content) = 1 THEN 32 ELSE 52)]
  ELSE [via |-> "typed", content |-> content, bytes |-> 0,
        type |-> <<type, onTestnet>>]

RemoteRequest(s, onTestnet) ==
  RemoteMessage(s, <<s>>, "request", onTestnet)

RemoteRelease(s, clipped, onTestnet) ==
  RemoteMessage(s, <<s, clipped>>,
                IF ToTron(s) THEN "release to tron" ELSE "release", onTestnet)

\* A wallet of tron that does not count the bytes heads every message with 32;
\* the bit nonTyped of the swap says which one the user has.
WalletDigest(s, message) ==
  CASE message.via = "typed" -> message.type \o message.content
    [] message.via # "typed" /\ FromTron(s) ->
         <<"TRON", IF s.nonTyped THEN message.bytes ELSE 32>> \o message.content
    [] OTHER -> <<"Ethereum", message.bytes>> \o message.content

\* The digests that _checkRequestSignature and _checkReleaseSignature recover
\* the signer from, on a chain that is configured for a testnet or not.
ContractRequestDigest(s, testnetMode) ==
  CASE s.inChain = "tron" -> <<"TRON", IF s.nonTyped THEN 33 ELSE 32, s>>
    [] s.inChain # "tron" /\ s.nonTyped -> <<"Ethereum", 32, s>>
    [] OTHER -> <<"request", testnetMode, s>>

ContractReleaseDigest(s, recipient, testnetMode) ==
  CASE s.inChain = "tron" -> <<"TRON", IF s.nonTyped THEN 53 ELSE 32, s, recipient>>
    [] s.inChain # "tron" /\ s.nonTyped -> <<"Ethereum", 52, s, recipient>>
    [] OTHER -> <<IF s.outChain = "tron" THEN "release to tron" ELSE "release",
                  testnetMode, s, recipient>>

Signature(by, digest) == [by |-> by, digest |-> digest]

\* ecrecover: another digest recovers some other address.
Recovered(signature, digest) ==
  IF signature.digest = digest THEN signature.by ELSE NoSigner

\* SignedSwapRequest.checkSignature, and that of SignedSwapRelease.
DigestOf(data) ==
  IF data.kind = "request" THEN PrehashRequest(data.swap, testnet)
  ELSE PrehashRelease(data.swap, ClipRecipient(data.recipient, data.swap), testnet)

CheckSignature(data) ==
  Recovered(data.signature, DigestOf(data)) = data.initiator

-----------------------------------------------------------------------------
\* The signers

\* The key that NonEcdsaRemoteSwapSigner derives from the signature of an
\* account over the text that names the swap.
SwapSignerFromSeed(a, s) == <<a, s>>

SignerAddresses == Accounts \union (Accounts \X Swaps) \union {NoSigner}

\* A mutant: the signer of the last request, whichever swap it was for.
GetCurrentAddress(s) == IF signer = "nonEcdsa" THEN currentInitiator ELSE account

\* getAddress of the signer in use.
GetAddress(s) ==
  CASE signer = "nonEcdsa" -> swapSigners[s]
    [] OTHER -> account

SigningInit ==
  /\ signer \in Kinds
  /\ testnet \in BOOLEAN
  /\ account \in Accounts
  /\ swapSigners = [s \in Swaps |-> NoSigner]
  /\ currentInitiator = NoSigner
  /\ signing = {}
  /\ signed = {}

\* The digest that a signer with a key of its own signs.
OwnDigest(call) ==
  IF call.kind = "request" THEN PrehashRequest(call.swap, testnet)
  ELSE PrehashRelease(call.swap, call.clipped, testnet)

\* The page calls signForRequest or signForRelease; nothing is signed for a
\* recipient that cannot be clipped.
StartSigning(s, kind, recipient) ==
  LET call == [swap |-> s, kind |-> kind, recipient |-> recipient,
               clipped |-> IF kind = "request" THEN "none"
                           ELSE ClipRecipient(recipient, s)]
      asks == \/ signer = "remote"
              \/ signer = "nonEcdsa" /\ (kind = "request" \/ swapSigners[s] = NoSigner)
      key == IF signer = "ethers" THEN account ELSE swapSigners[s]
  IN  /\ call.clipped # Failure
      /\ Cardinality(signing) + Cardinality(signed) < MaxSigned
      /\ ~\E c \in signing : c.call.swap = s /\ c.call.kind = kind
      /\ signing' = signing \union
           {IF asks THEN [call |-> call, at |-> "wallet"]
            ELSE [call |-> call, at |-> "answer",
                  signature |-> Signature(key, OwnDigest(call))]}
      /\ UNCHANGED <<signer, testnet, account, swapSigners, currentInitiator, signed>>

\* The user confirms in the wallet, with the account that is selected.
WalletSigns(c) ==
  LET s == c.call.swap
      message == IF c.call.kind = "request" THEN RemoteRequest(s, testnet)
                 ELSE RemoteRelease(s, c.call.clipped, testnet)
      derived == SwapSignerFromSeed(account, s)
      answer == IF signer = "remote" THEN Signature(account, WalletDigest(s, message))
                ELSE Signature(derived, OwnDigest(c.call))
  IN  /\ c.at = "wallet"
      /\ signing' = (signing \ {c}) \union
           {[call |-> c.call, at |-> "answer", signature |-> answer]}
      /\ IF signer = "remote" THEN UNCHANGED <<swapSigners, currentInitiator>>
         ELSE /\ swapSigners' = [swapSigners EXCEPT ![s] = derived]
              /\ currentInitiator' = derived
      /\ UNCHANGED <<signer, testnet, account, signed>>

\* The call goes on after its await, and asks the signer for its address.
ReturnSigned(c) ==
  /\ c.at = "answer"
  /\ signed' = signed \union
       {[kind |-> c.call.kind, swap |-> c.call.swap, recipient |-> c.call.recipient,
         initiator |-> GetAddress(c.call.swap), signature |-> c.signature]}
  /\ signing' = signing \ {c}
  /\ UNCHANGED <<signer, testnet, account, swapSigners, currentInitiator>>

WalletRefuses(c) ==
  /\ c.at = "wallet"
  /\ signing' = signing \ {c}
  /\ UNCHANGED <<signer, testnet, account, swapSigners, currentInitiator, signed>>

SelectAccount(a) ==
  /\ signer # "ethers" /\ a # account
  /\ account' = a
  /\ UNCHANGED <<signer, testnet, swapSigners, currentInitiator, signing, signed>>

\* What the page holds is gone; the data it has passed on is not.
ReloadPage ==
  /\ signing' = {}
  /\ swapSigners' = [s \in Swaps |-> NoSigner]
  /\ currentInitiator' = NoSigner
  /\ UNCHANGED <<signer, testnet, account, signed>>

SigningNext ==
  \/ \E s \in Swaps : StartSigning(s, "request", NoRecipient)
  \/ \E s \in Swaps, r \in Recipients : StartSigning(s, "release", r)
  \/ \E c \in signing : WalletSigns(c) \/ WalletRefuses(c) \/ ReturnSigned(c)
  \/ \E a \in Accounts : SelectAccount(a)
  \/ ReloadPage

-----------------------------------------------------------------------------
\* Properties

\* The data that a page passes on names a key that was made for that swap, and
\* it is the one that signed unless another account was selected meanwhile;
\* several swaps can be signed at the same time.
InitiatorHasSigned ==
  \A d \in signed : signer = "nonEcdsa" =>
    /\ d.initiator[2] = d.swap
    /\ d.initiator # d.signature.by => d.initiator[1] # d.signature.by[1]

\* What the named initiator has signed is accepted by the SDK and by the
\* contracts, whichever of the signers made it and however a wallet was asked.
SignedIsAccepted ==
  \A d \in signed :
    LET digest == IF d.kind = "request" THEN ContractRequestDigest(d.swap, testnet)
                  ELSE ContractReleaseDigest(d.swap,
                         ClipRecipient(d.recipient, d.swap), testnet)
    IN  d.initiator = d.signature.by =>
          CheckSignature(d) /\ Recovered(d.signature, digest) = d.initiator

=============================================================================
