------------------------- MODULE AdaptorCallsProofs --------------------------
(***************************************************************************)
(* What a user signs, for any number of swaps, accounts and signatures:    *)
(* that it is for the address she is told, that everybody who checks it    *)
(* takes it for hers, and that a request and its release go together.      *)
(*                                                                         *)
(* Then what becomes of it on the chains: that a call is read back from    *)
(* its transaction as it was sent, that a transaction names the stores of  *)
(* its swap, and that the execution built from a release is accepted.      *)
(***************************************************************************)
EXTENDS AdaptorCalls, SequenceTheorems, TLAPS

\* The text that a call is signed for, as the contracts hash it.
ContractDigest(kind, s, clipped) ==
  IF kind = "request" THEN ContractRequestDigest(s, testnet)
  ELSE ContractReleaseDigest(s, clipped, testnet)

ClippedFor(kind, s, recipient) ==
  IF kind = "request" THEN "none" ELSE ClipRecipient(recipient, s)

\* The addresses that a signer without ECDSA keys can have for a swap.
KeysOf(s) == {<<a, s>> : a \in Accounts}

CallOK(call) ==
  /\ call.swap \in Swaps
  /\ call.kind \in {"request", "release"}
  /\ call.clipped = ClippedFor(call.kind, call.swap, call.recipient)

\* An answer is a signature over the text of its call; and while the page
\* waits for it, the key that has made it is kept.
AnswerOK(c) ==
  /\ c.signature.digest = ContractDigest(c.call.kind, c.call.swap, c.call.clipped)
  /\ signer = "nonEcdsa" =>
       c.signature.by \in KeysOf(c.call.swap) /\ swapSigners[c.call.swap] \in KeysOf(c.call.swap)

SignedOK(d) ==
  /\ d.swap \in Swaps
  /\ d.kind \in {"request", "release"}
  /\ d.signature.digest = ContractDigest(d.kind, d.swap, ClippedFor(d.kind, d.swap, d.recipient))
  /\ signer = "nonEcdsa" => d.signature.by \in KeysOf(d.swap) /\ d.initiator \in KeysOf(d.swap)

KeysAreKept ==
  /\ account \in Accounts
  /\ DOMAIN swapSigners = Swaps
  /\ \A s \in Swaps : swapSigners[s] \in KeysOf(s) \union {NoSigner}

CallsAreOK ==
  \A c \in signing :
    /\ CallOK(c.call)
    /\ c.at \in {"wallet", "answer"}
    /\ c.at = "wallet" => signer # "ethers"
    /\ c.at = "answer" => AnswerOK(c)

DataAreOK == \A d \in signed : SignedOK(d)

SigningInv == signer \in Kinds /\ KeysAreKept /\ CallsAreOK /\ DataAreOK

-----------------------------------------------------------------------------
\* The digests

\* The signers that sign a digest themselves hash what the contracts hash.
LEMMA OwnDigestIsContracts ==
  ASSUME NEW call, CallOK(call)
  PROVE  OwnDigest(call) = ContractDigest(call.kind, call.swap, call.clipped)
BY DEF OwnDigest, ContractDigest, PrehashRequest, PrehashRelease, ContractRequestDigest,
       ContractReleaseDigest, FromTron, ToTron

LEMMA PrehashIsContracts ==
  ASSUME NEW s, NEW clipped
  PROVE  /\ PrehashRequest(s, testnet) = ContractRequestDigest(s, testnet)
         /\ PrehashRelease(s, clipped, testnet) = ContractReleaseDigest(s, clipped, testnet)
BY DEF PrehashRequest, PrehashRelease, ContractRequestDigest,
       ContractReleaseDigest, FromTron, ToTron

\* A wallet puts the head before the words that it is handed.
LEMMA HeadAndWords ==
  ASSUME NEW x, NEW y, NEW u, NEW v
  PROVE  <<x, y>> \o <<u>> = <<x, y, u>> /\ <<x, y>> \o <<u, v>> = <<x, y, u, v>>
<1> DEFINE S == {x, y, u, v}
<1>1. /\ <<x, y>> \in Seq(S) /\ <<u>> \in Seq(S) /\ <<u, v>> \in Seq(S)
      /\ <<x, y, u>> \in Seq(S) /\ <<x, y, u, v>> \in Seq(S)
  OBVIOUS
<1> HIDE DEF S
<1>2. <<x, y>> \o <<u>> = <<x, y, u>>
  <2>1. /\ <<x, y>> \o <<u>> \in Seq(S) /\ Len(<<x, y>> \o <<u>>) = 3
        /\ \A i \in 1 .. 3 : (<<x, y>> \o <<u>>)[i] = IF i <= 2 THEN <<x, y>>[i] ELSE <<u>>[i - 2]
    BY <1>1, ConcatProperties
  <2>2. \A i \in 1 .. 3 : (<<x, y>> \o <<u>>)[i] = <<x, y, u>>[i]
    BY <2>1
  <2>. QED  BY <1>1, <2>1, <2>2, SeqEqual
<1>3. <<x, y>> \o <<u, v>> = <<x, y, u, v>>
  <2>1. /\ <<x, y>> \o <<u, v>> \in Seq(S) /\ Len(<<x, y>> \o <<u, v>>) = 4
        /\ \A i \in 1 .. 4 :
             (<<x, y>> \o <<u, v>>)[i] = IF i <= 2 THEN <<x, y>>[i] ELSE <<u, v>>[i - 2]
    BY <1>1, ConcatProperties
  <2>2. \A i \in 1 .. 4 : (<<x, y>> \o <<u, v>>)[i] = <<x, y, u, v>>[i]
    BY <2>1
  <2>. QED  BY <1>1, <2>1, <2>2, SeqEqual
<1>. QED  BY <1>2, <1>3

\* The digests of the contracts, case by case.
LEMMA RequestDigests ==
  ASSUME NEW s
  PROVE  /\ FromTron(s) => ContractRequestDigest(s, testnet)
                             = <<"TRON", IF s.nonTyped THEN 33 ELSE 32, s>>
         /\ ~FromTron(s) /\ s.nonTyped
              => ContractRequestDigest(s, testnet) = <<"Ethereum", 32, s>>
         /\ ~(FromTron(s) \/ s.nonTyped)
              => ContractRequestDigest(s, testnet) = <<"request", testnet, s>>
BY DEF ContractRequestDigest, FromTron

LEMMA ReleaseDigests ==
  ASSUME NEW s, NEW clipped
  PROVE  /\ FromTron(s) => ContractReleaseDigest(s, clipped, testnet)
                             = <<"TRON", IF s.nonTyped THEN 53 ELSE 32, s, clipped>>
         /\ ~FromTron(s) /\ s.nonTyped
              => ContractReleaseDigest(s, clipped, testnet) = <<"Ethereum", 52, s, clipped>>
         /\ ~(FromTron(s) \/ s.nonTyped)
              => ContractReleaseDigest(s, clipped, testnet)
                   = <<IF ToTron(s) THEN "release to tron" ELSE "release", testnet, s, clipped>>
BY DEF ContractReleaseDigest, FromTron, ToTron

\* What a wallet hashes of a message or of typed data.
LEMMA WalletRequestIsContracts ==
  ASSUME NEW s
  PROVE  WalletDigest(s, RemoteRequest(s, testnet)) = ContractRequestDigest(s, testnet)
<1> DEFINE m == RemoteRequest(s, testnet)
<1> HIDE DEF m
<1>1. CASE FromTron(s) \/ s.nonTyped
  <2>1. m.via = "message" /\ m.content = <<s>> /\ m.bytes = (IF FromTron(s) THEN 1 ELSE 0) + 32
    BY <1>1 DEF m, RemoteRequest, RemoteMessage
  <2>2. WalletDigest(s, m) =
          IF FromTron(s) THEN <<"TRON", IF s.nonTyped THEN 33 ELSE 32>> \o <<s>>
          ELSE <<"Ethereum", 32>> \o <<s>>
    BY <2>1 DEF WalletDigest
  <2>3. CASE FromTron(s)
    BY <2>2, <2>3, RequestDigests, HeadAndWords DEF m
  <2>4. CASE ~FromTron(s)
    BY <1>1, <2>2, <2>4, RequestDigests, HeadAndWords DEF m
  <2>. QED  BY <2>3, <2>4
<1>2. CASE ~(FromTron(s) \/ s.nonTyped)
  <2>1. m.via = "typed" /\ m.content = <<s>> /\ m.type = <<"request", testnet>>
    BY <1>2 DEF m, RemoteRequest, RemoteMessage
  <2>2. WalletDigest(s, m) = <<"request", testnet>> \o <<s>>
    BY <2>1 DEF WalletDigest
  <2>. QED  BY <1>2, <2>2, RequestDigests, HeadAndWords DEF m
<1>. QED  BY <1>1, <1>2

LEMMA WalletReleaseIsContracts ==
  ASSUME NEW s, NEW clipped
  PROVE  WalletDigest(s, RemoteRelease(s, clipped, testnet))
           = ContractReleaseDigest(s, clipped, testnet)
<1> DEFINE m == RemoteRelease(s, clipped, testnet)
           type == IF ToTron(s) THEN "release to tron" ELSE "release"
<1> HIDE DEF m
<1>1. CASE FromTron(s) \/ s.nonTyped
  <2>1. /\ m.via = "message" /\ m.content = <<s, clipped>>
        /\ m.bytes = (IF FromTron(s) THEN 1 ELSE 0) + 52
    BY <1>1 DEF m, RemoteRelease, RemoteMessage
  <2>2. WalletDigest(s, m) =
          IF FromTron(s) THEN <<"TRON", IF s.nonTyped THEN 53 ELSE 32>> \o <<s, clipped>>
          ELSE <<"Ethereum", 52>> \o <<s, clipped>>
    BY <2>1 DEF WalletDigest
  <2>3. CASE FromTron(s)
    <3> DEFINE n == IF s.nonTyped THEN 53 ELSE 32
    <3>1. ContractReleaseDigest(s, clipped, testnet) = <<"TRON", n, s, clipped>>
      BY <2>3, ReleaseDigests
    <3>2. WalletDigest(s, m) = <<"TRON", n>> \o <<s, clipped>>
      BY <2>2, <2>3
    <3> HIDE DEF n
    <3>. QED  BY <3>1, <3>2, HeadAndWords DEF m
  <2>4. CASE ~FromTron(s)
    <3>1. ContractReleaseDigest(s, clipped, testnet) = <<"Ethereum", 52, s, clipped>>
      BY <1>1, <2>4, ReleaseDigests
    <3>2. WalletDigest(s, m) = <<"Ethereum", 52>> \o <<s, clipped>>
      BY <2>2, <2>4
    <3>. QED  BY <3>1, <3>2, HeadAndWords DEF m
  <2>. QED  BY <2>3, <2>4
<1>2. CASE ~(FromTron(s) \/ s.nonTyped)
  <2>1. m.via = "typed" /\ m.content = <<s, clipped>> /\ m.type = <<type, testnet>>
    BY <1>2 DEF m, RemoteRelease, RemoteMessage
  <2>2. WalletDigest(s, m) = <<type, testnet>> \o <<s, clipped>>
    BY <2>1 DEF WalletDigest
  <2>3. ContractReleaseDigest(s, clipped, testnet) = <<type, testnet, s, clipped>>
    BY <1>2, ReleaseDigests
  <2> HIDE DEF type
  <2>. QED  BY <2>2, <2>3, HeadAndWords DEF m
<1>. QED  BY <1>1, <1>2

-----------------------------------------------------------------------------
\* The steps

LEMMA SigningInvInit == Init => SigningInv
BY DEF Init, SigningInit, SigningInv, KeysAreKept, CallsAreOK, DataAreOK

\* What StartSigning adds.
LEMMA StartSigningKeeps ==
  ASSUME SigningInv, NEW s \in Swaps, NEW kind \in {"request", "release"}, NEW recipient,
         StartSigning(s, kind, recipient)
  PROVE  SigningInv'
<1> DEFINE call == [swap |-> s, kind |-> kind, recipient |-> recipient,
                    clipped |-> IF kind = "request" THEN "none" ELSE ClipRecipient(recipient, s)]
           key == IF signer = "ethers" THEN account ELSE swapSigners[s]
           asking == [call |-> call, at |-> "wallet"]
           answered == [call |-> call, at |-> "answer",
                        signature |-> Signature(key, OwnDigest(call))]
<1>1. UNCHANGED <<signer, testnet, account, swapSigners, currentInitiator, signed>>
  BY DEF StartSigning
<1>2. \/ signing' = signing \union {asking} /\ signer # "ethers"
      \/ /\ signing' = signing \union {answered}
         /\ signer = "nonEcdsa" => swapSigners[s] # NoSigner
  BY DEF StartSigning, SigningInv, Kinds
<1>3. CallOK(call)
  BY DEF CallOK, ClippedFor
<1>4. OwnDigest(call) = ContractDigest(call.kind, call.swap, call.clipped)
  BY <1>3, OwnDigestIsContracts
<1>5. call.swap = s
  OBVIOUS
<1> HIDE DEF call
<1>6. asking.call = call /\ asking.at = "wallet"
  OBVIOUS
<1>7. /\ answered.call = call /\ answered.at = "answer"
      /\ answered.signature.by = key
      /\ answered.signature.digest = ContractDigest(call.kind, call.swap, call.clipped)
  BY <1>4 DEF Signature
<1>8. (signer = "nonEcdsa" => swapSigners[s] # NoSigner) => AnswerOK(answered)
  <2>1. signer = "nonEcdsa" /\ swapSigners[s] # NoSigner
          => swapSigners[s] \in KeysOf(s) /\ key = swapSigners[s]
    BY DEF SigningInv, KeysAreKept
  <2> HIDE DEF key, answered
  <2>. QED  BY <1>5, <1>7, <2>1 DEF AnswerOK
<1> HIDE DEF asking, answered, key
<1>9. CallsAreOK'
  <2> SUFFICES ASSUME NEW c \in signing'
               PROVE  /\ CallOK(c.call)
                      /\ c.at \in {"wallet", "answer"}
                      /\ c.at = "wallet" => signer # "ethers"
                      /\ c.at = "answer" => AnswerOK(c)
    BY <1>1 DEF CallsAreOK, CallOK, AnswerOK, ContractDigest
  <2>1. CASE c \in signing
    BY <2>1 DEF SigningInv, CallsAreOK
  <2>2. CASE c = asking /\ signer # "ethers"
    BY <2>2, <1>3, <1>6
  <2>3. CASE c = answered /\ (signer = "nonEcdsa" => swapSigners[s] # NoSigner)
    BY <2>3, <1>3, <1>7, <1>8
  <2>. QED  BY <1>2, <2>1, <2>2, <2>3
<1>. QED  BY <1>1, <1>9 DEF SigningInv, KeysAreKept, DataAreOK, SignedOK, ContractDigest

LEMMA WalletSignsKeeps ==
  ASSUME SigningInv, NEW c \in signing, WalletSigns(c)
  PROVE  SigningInv'
<1> DEFINE s == c.call.swap
           derived == <<account, s>>
           message == IF c.call.kind = "request" THEN RemoteRequest(s, testnet)
                      ELSE RemoteRelease(s, c.call.clipped, testnet)
           answer == IF signer = "remote" THEN Signature(account, WalletDigest(s, message))
                     ELSE Signature(derived, OwnDigest(c.call))
           answered == [call |-> c.call, at |-> "answer", signature |-> answer]
<1>1. UNCHANGED <<signer, testnet, account, signed>>
  BY DEF WalletSigns
<1>2. signing' = (signing \ {c}) \union {answered}
  BY DEF WalletSigns, SwapSignerFromSeed
<1>3. /\ CallOK(c.call) /\ s \in Swaps /\ account \in Accounts
      /\ signer = "remote" \/ signer = "nonEcdsa"
  BY DEF WalletSigns, SigningInv, KeysAreKept, CallsAreOK, CallOK, Kinds
<1>4. IF signer = "remote" THEN UNCHANGED swapSigners
      ELSE swapSigners' = [swapSigners EXCEPT ![s] = derived]
  BY DEF WalletSigns, SwapSignerFromSeed
<1>5. answer.digest = ContractDigest(c.call.kind, s, c.call.clipped)
  <2>1. WalletDigest(s, message) = ContractDigest(c.call.kind, s, c.call.clipped)
    <3>1. CASE c.call.kind = "request"
      BY <3>1, WalletRequestIsContracts DEF ContractDigest
    <3>2. CASE c.call.kind # "request"
      BY <3>2, WalletReleaseIsContracts DEF ContractDigest
    <3>. QED  BY <3>1, <3>2
  <2>2. OwnDigest(c.call) = ContractDigest(c.call.kind, s, c.call.clipped)
    BY <1>3, OwnDigestIsContracts
  <2> HIDE DEF message, s
  <2>. QED  BY <2>1, <2>2 DEF Signature
<1>6. signer = "nonEcdsa" => answer.by = derived
  BY DEF Signature
<1> HIDE DEF answer
<1>7. answered.call = c.call /\ answered.at = "answer" /\ answered.signature = answer
  OBVIOUS
<1> HIDE DEF answered
<1>8. derived \in KeysOf(s)
  BY <1>3 DEF KeysOf
<1> HIDE DEF derived
<1>9. /\ DOMAIN swapSigners' = Swaps
      /\ signer # "nonEcdsa" => swapSigners' = swapSigners
      /\ signer = "nonEcdsa" => swapSigners'[s] = derived
      /\ \A x \in Swaps : x # s => swapSigners'[x] = swapSigners[x]
  BY <1>3, <1>4 DEF SigningInv, KeysAreKept
<1> HIDE DEF s
<1>10. KeysAreKept'
  <2>1. ASSUME NEW x \in Swaps
        PROVE  swapSigners'[x] \in KeysOf(x) \union {NoSigner}
    <3>1. CASE x = s /\ signer = "nonEcdsa"
      BY <3>1, <1>8, <1>9
    <3>2. CASE ~(x = s /\ signer = "nonEcdsa")
      BY <3>2, <1>9 DEF SigningInv, KeysAreKept
    <3>. QED  BY <3>1, <3>2
  <2>. QED  BY <1>1, <1>9, <2>1 DEF SigningInv, KeysAreKept
<1>11. CallsAreOK'
  <2> SUFFICES ASSUME NEW x \in signing'
               PROVE  /\ CallOK(x.call)
                      /\ x.at \in {"wallet", "answer"}
                      /\ x.at = "wallet" => signer # "ethers"
                      /\ x.at = "answer" => AnswerOK(x)'
    BY <1>1 DEF CallsAreOK, CallOK
  <2>1. CASE x \in signing
    <3>1. /\ CallOK(x.call) /\ x.at \in {"wallet", "answer"}
          /\ x.at = "wallet" => signer # "ethers"
          /\ x.at = "answer" => AnswerOK(x)
      BY <2>1 DEF SigningInv, CallsAreOK
    <3>2. ASSUME AnswerOK(x), signer = "nonEcdsa"
          PROVE  swapSigners'[x.call.swap] \in KeysOf(x.call.swap)
      BY <3>1, <3>2, <1>8, <1>9 DEF AnswerOK, CallOK
    <3>. QED  BY <1>1, <3>1, <3>2 DEF AnswerOK, ContractDigest
  <2>2. CASE x = answered
    <3>1. CallOK(x.call) /\ x.at = "answer"
      BY <2>2, <1>3, <1>7
    <3>2. x.signature.digest = ContractDigest(x.call.kind, x.call.swap, x.call.clipped)
      BY <2>2, <1>5, <1>7 DEF s
    <3>3. ASSUME signer = "nonEcdsa"
          PROVE  /\ x.signature.by \in KeysOf(x.call.swap)
                 /\ swapSigners'[x.call.swap] \in KeysOf(x.call.swap)
      <4>1. x.call.swap = s /\ x.signature = answer
        BY <2>2, <1>7 DEF s
      <4>. QED  BY <3>3, <4>1, <1>6, <1>8, <1>9
    <3>. QED  BY <1>1, <3>1, <3>2, <3>3 DEF AnswerOK, ContractDigest
  <2>. QED  BY <1>2, <2>1, <2>2
<1>. QED  BY <1>1, <1>10, <1>11 DEF SigningInv, DataAreOK, SignedOK, ContractDigest

LEMMA ReturnSignedKeeps ==
  ASSUME SigningInv, NEW c \in signing, ReturnSigned(c)
  PROVE  SigningInv'
<1> DEFINE data == [kind |-> c.call.kind, swap |-> c.call.swap, recipient |-> c.call.recipient,
                    initiator |-> GetAddress(c.call.swap), signature |-> c.signature]
<1>1. UNCHANGED <<signer, testnet, account, swapSigners, currentInitiator>>
  BY DEF ReturnSigned
<1>2. signed' = signed \union {data} /\ signing' = signing \ {c}
  BY DEF ReturnSigned
<1>3. CallOK(c.call) /\ AnswerOK(c)
  BY DEF ReturnSigned, SigningInv, CallsAreOK
<1>4. SignedOK(data)
  <2>1. /\ data.kind = c.call.kind /\ data.swap = c.call.swap
        /\ data.recipient = c.call.recipient /\ data.signature = c.signature
        /\ data.initiator = GetAddress(c.call.swap)
    OBVIOUS
  <2>2. signer = "nonEcdsa" => GetAddress(c.call.swap) \in KeysOf(c.call.swap)
    BY <1>3 DEF AnswerOK, GetAddress
  <2> HIDE DEF data
  <2>. QED  BY <1>3, <2>1, <2>2 DEF SignedOK, CallOK, AnswerOK
<1> HIDE DEF data
<1>5. DataAreOK'
  <2>1. \A d \in signed' : SignedOK(d)
    BY <1>2, <1>4 DEF SigningInv, DataAreOK
  <2>. QED  BY <1>1, <2>1 DEF DataAreOK, SignedOK, ContractDigest
<1>6. CallsAreOK'
  <2>1. \A x \in signing' : x \in signing
    BY <1>2
  <2>. QED  BY <1>1, <2>1 DEF SigningInv, CallsAreOK, AnswerOK, ContractDigest
<1>. QED  BY <1>1, <1>5, <1>6 DEF SigningInv, KeysAreKept

\* Steps that only forget: a call that the wallet refuses, what a page holds,
\* which account is selected.
LEMMA ForgettingKeeps ==
  ASSUME SigningInv, UNCHANGED <<signer, testnet, signed>>, signing' \subseteq signing,
         account' \in Accounts,
         \/ swapSigners' = swapSigners
         \/ swapSigners' = [s \in Swaps |-> NoSigner] /\ signing' = {}
  PROVE  SigningInv'
<1>1. KeysAreKept'
  BY DEF SigningInv, KeysAreKept
<1>2. CallsAreOK'
  BY DEF SigningInv, CallsAreOK, AnswerOK, ContractDigest
<1>3. DataAreOK'
  BY DEF SigningInv, DataAreOK, SignedOK, ContractDigest
<1>. QED  BY <1>1, <1>2, <1>3 DEF SigningInv

LEMMA SigningInvNext == SigningInv /\ [Next]_vars => SigningInv'
<1> SUFFICES ASSUME SigningInv, [Next]_vars PROVE SigningInv'
  OBVIOUS
<1>1. CASE UNCHANGED signingVars
  BY <1>1, ForgettingKeeps DEF signingVars, SigningInv, KeysAreKept
<1>2. CASE SigningNext
  <2>1. CASE \E s \in Swaps : StartSigning(s, "request", NoRecipient)
    BY <2>1, StartSigningKeeps
  <2>2. CASE \E s \in Swaps, r \in Recipients : StartSigning(s, "release", r)
    BY <2>2, StartSigningKeeps
  <2>3. ASSUME NEW c \in signing, WalletSigns(c) \/ WalletRefuses(c) \/ ReturnSigned(c)
        PROVE  SigningInv'
    <3>1. CASE WalletRefuses(c)
      BY <3>1, ForgettingKeeps DEF WalletRefuses, SigningInv, KeysAreKept
    <3>. QED  BY <2>3, <3>1, WalletSignsKeeps, ReturnSignedKeeps
  <2>4. CASE \E a \in Accounts : SelectAccount(a)
    BY <2>4, ForgettingKeeps DEF SelectAccount
  <2>5. CASE ReloadPage
    BY <2>5, ForgettingKeeps DEF ReloadPage, SigningInv, KeysAreKept
  <2>. QED  BY <1>2, <2>1, <2>2, <2>3, <2>4, <2>5 DEF SigningNext
<1>3. SigningNext \/ UNCHANGED signingVars
  <2>1. CASE Signing
    BY <2>1 DEF Signing
  <2>2. CASE Calling
    BY <2>2 DEF Calling, Post, UnlockSwap, ReleaseSwap, ReleaseDirectly, Bond, Lock,
                Execute, Cancel
  <2>3. CASE \E chain \in {"solana", "aptos", "sui"}, p \in Providers :
               \E call \in PoolCalls(p) : CallForPool(chain, call, p)
    BY <2>3 DEF CallForPool
  <2>. QED  BY <2>1, <2>2, <2>3 DEF Next, vars
<1>. QED  BY <1>1, <1>2, <1>3

LEMMA SigningInvHolds == Spec => []SigningInv
BY SigningInvInit, SigningInvNext, PTL DEF Spec

-----------------------------------------------------------------------------
\* The theorems

\* Two keys for one swap that differ are of two accounts.
LEMMA KeysDiffer ==
  ASSUME NEW s, NEW k \in KeysOf(s), NEW l \in KeysOf(s), k # l
  PROVE  k[2] = s /\ k[1] # l[1]
BY DEF KeysOf

\* The initiator that a page passes on is a key for that swap and, unless the
\* user has selected another account meanwhile, the one that has signed, however
\* many swaps are signed at the same time and whenever the page is reloaded
\* (SwapSigner.ts, NonEcdsaRemoteSwapSigner).
THEOREM InitiatorHasAlwaysSigned == Spec => []InitiatorHasSigned
<1>1. SigningInv => InitiatorHasSigned
  <2> SUFFICES ASSUME SigningInv, NEW d \in signed, signer = "nonEcdsa"
               PROVE  /\ d.initiator[2] = d.swap
                      /\ d.initiator # d.signature.by => d.initiator[1] # d.signature.by[1]
    BY DEF InitiatorHasSigned
  <2>1. d.signature.by \in KeysOf(d.swap) /\ d.initiator \in KeysOf(d.swap)
    BY DEF SigningInv, DataAreOK, SignedOK
  <2>2. d.initiator[2] = d.swap
    BY <2>1 DEF KeysOf
  <2>. QED  BY <2>1, <2>2, KeysDiffer
<1>. QED  BY <1>1, SigningInvHolds, PTL

\* Whatever the named initiator has signed, the contracts (MesonHelpers.sol,
\* _checkRequestSignature and _checkReleaseSignature) and SignedSwap.ts recover
\* that address from it: for every kind of signer, every pair of chains, typed
\* or not.
THEOREM SignedIsAlwaysAccepted == Spec => []SignedIsAccepted
<1>1. SigningInv => SignedIsAccepted
  <2> SUFFICES ASSUME SigningInv, NEW d \in signed, d.initiator = d.signature.by
               PROVE  /\ CheckSignature(d)
                      /\ Recovered(d.signature,
                           IF d.kind = "request" THEN ContractRequestDigest(d.swap, testnet)
                           ELSE ContractReleaseDigest(d.swap,
                                  ClipRecipient(d.recipient, d.swap), testnet)) = d.initiator
    BY DEF SignedIsAccepted
  <2> DEFINE clipped == ClipRecipient(d.recipient, d.swap)
             digest == IF d.kind = "request" THEN ContractRequestDigest(d.swap, testnet)
                       ELSE ContractReleaseDigest(d.swap, clipped, testnet)
  <2>1. d.signature.digest = digest
    BY DEF SigningInv, DataAreOK, SignedOK, ContractDigest, ClippedFor
  <2>2. DigestOf(d) = digest
    BY PrehashIsContracts DEF DigestOf
  <2> HIDE DEF digest
  <2>3. CheckSignature(d) /\ Recovered(d.signature, digest) = d.initiator
    BY <2>1, <2>2 DEF CheckSignature, Recovered
  <2>. QED  BY <2>3 DEF digest
<1>. QED  BY <1>1, SigningInvHolds, PTL

-----------------------------------------------------------------------------
\* The data of an instruction of Solana

\* The ends of the words in the data of an instruction are all different, so that
\* a word is read from its place and from no other.
LEMMA DigitsGrow ==
  ASSUME NEW words, NEW n \in 1..4, Len(words) \in n..n,
         \A i \in 1..n : words[i].bytes \in Nat \ {0},
         NEW i \in 0..n, NEW j \in 0..n, i < j
  PROVE  Sol!Digits(words, i) # Sol!Digits(words, j)
<1>. DEFINE Bytes(m, end) == IF m <= end /\ m <= Len(words) THEN words[m].bytes ELSE 0
<1>1. ASSUME NEW end
      PROVE  Sol!Digits(words, end)
               = 4 + 2 * (Bytes(1, end) + Bytes(2, end) + Bytes(3, end) + Bytes(4, end))
  BY DEF Sol!Digits
<1>2. ASSUME NEW m \in 1..4
      PROVE  Bytes(m, i) \in Nat /\ Bytes(m, j) \in Nat /\ Bytes(m, i) <= Bytes(m, j)
  OBVIOUS
<1>3. Bytes(j, i) < Bytes(j, j) /\ (j = 1 \/ j = 2 \/ j = 3 \/ j = 4)
  OBVIOUS
<1>. HIDE DEF Bytes
<1>4. \/ Bytes(1, i) < Bytes(1, j) \/ Bytes(2, i) < Bytes(2, j)
      \/ Bytes(3, i) < Bytes(3, j) \/ Bytes(4, i) < Bytes(4, j)
  BY <1>3
<1>5. 1 \in 1..4 /\ 2 \in 1..4 /\ 3 \in 1..4 /\ 4 \in 1..4
  OBVIOUS
<1>6. 4 + 2 * (Bytes(1, i) + Bytes(2, i) + Bytes(3, i) + Bytes(4, i))
        # 4 + 2 * (Bytes(1, j) + Bytes(2, j) + Bytes(3, j) + Bytes(4, j))
  <2>. DEFINE x(m) == Bytes(m, i)
              y(m) == Bytes(m, j)
  <2>1. /\ x(1) \in Nat /\ y(1) \in Nat /\ x(1) <= y(1)
        /\ x(2) \in Nat /\ y(2) \in Nat /\ x(2) <= y(2)
        /\ x(3) \in Nat /\ y(3) \in Nat /\ x(3) <= y(3)
        /\ x(4) \in Nat /\ y(4) \in Nat /\ x(4) <= y(4)
    BY <1>2, <1>5
  <2>2. x(1) < y(1) \/ x(2) < y(2) \/ x(3) < y(3) \/ x(4) < y(4)
    BY <1>4
  <2>3. 4 + 2 * (x(1) + x(2) + x(3) + x(4)) # 4 + 2 * (y(1) + y(2) + y(3) + y(4))
    <3>. HIDE DEF x, y
    <3>. QED  BY ONLY <2>1, <2>2, SMT
  <2>. QED  BY <2>3
<1>. QED  BY <1>1, <1>6

LEMMA WordIsRead ==
  ASSUME NEW ins, NEW n \in 1..4, Len(ins.data) \in n..n,
         \A i \in 1..n : ins.data[i].bytes \in Nat \ {0},
         NEW k \in 1..n, NEW from, NEW to,
         Sol!Digits(ins.data, k - 1) = from, Sol!Digits(ins.data, k) = to
  PROVE  Sol!Substring(ins, from, to) = ins.data[k].value
<1>. DEFINE At(i) == /\ Sol!Digits(ins.data, i - 1) = from
                     /\ Sol!Digits(ins.data, i) = to
<1>1. Len(ins.data) = n
  OBVIOUS
<1>2. ASSUME NEW i \in 1..n, At(i)
      PROVE  i = k
  <2>1. i - 1 \in 0..n /\ k - 1 \in 0..n
    OBVIOUS
  <2>2. ~(i - 1 < k - 1) /\ ~(k - 1 < i - 1)
    BY <1>2, <2>1, DigitsGrow
  <2>. QED  BY <2>2
<1>3. (CHOOSE i \in 1..n : At(i)) = k
  <2>. HIDE DEF At
  <2>1. At(k)
    BY DEF At
  <2>. QED  BY <1>2, <2>1
<1>4. \E i \in 1..Len(ins.data) : At(i)
  BY <1>1
<1>. QED  BY <1>1, <1>3, <1>4 DEF Sol!Substring

\* Data of four words: a signature with the address that it is for.
LEMMA FourWords ==
  ASSUME NEW ins, NEW a, NEW b, NEW c, NEW d,
         ins.data = <<Sol!Word(32, a), Sol!Word(32, b), Sol!Word(32, c), Sol!Word(20, d)>>
  PROVE  /\ Sol!Substring(ins, 4, 68) = a /\ Sol!Substring(ins, 68, 132) = b
         /\ Sol!Substring(ins, 132, 196) = c /\ Sol!Substring(ins, 196, 236) = d
<1>1. /\ Len(ins.data) \in 4..4
      /\ \A i \in 1..4 : ins.data[i].bytes \in Nat \ {0}
  BY DEF Sol!Word
<1>2. /\ Sol!Digits(ins.data, 0) = 4 /\ Sol!Digits(ins.data, 1) = 68
      /\ Sol!Digits(ins.data, 2) = 132 /\ Sol!Digits(ins.data, 3) = 196
      /\ Sol!Digits(ins.data, 4) = 236
  BY DEF Sol!Digits, Sol!Word
<1>3. /\ ins.data[1].value = a /\ ins.data[2].value = b
      /\ ins.data[3].value = c /\ ins.data[4].value = d
  BY DEF Sol!Word
<1>4. /\ 1 - 1 = 0 /\ 2 - 1 = 1 /\ 3 - 1 = 2 /\ 4 - 1 = 3
  OBVIOUS
<1>. QED  BY <1>1, <1>2, <1>3, <1>4, WordIsRead

\* What a contract of a chain may make of a call: all that the providers need,
\* each argument that the client has sent as it has sent it, or misread.
Reads(p, c, misread) ==
  /\ p.name = c.name
  /\ Needed(c.name) \subseteq DOMAIN p.args
  /\ \A k \in DOMAIN p.args \intersect DOMAIN c.args : p.args[k] = c.args[k] \/ k \in misread

\* What the providers need, call by call.
LEMMA NeededOf ==
  /\ Needed("postSwap") = {"encodedSwap", "postingValue"}
  /\ Needed("postSwapFromInitiator") = {"encodedSwap", "postingValue"}
  /\ Needed("bondSwap") = {"encodedSwap"} /\ Needed("cancelSwap") = {"encodedSwap"}
  /\ Needed("lockSwap") = {"encodedSwap", "initiator"}
  /\ Needed("unlock") = {"encodedSwap", "initiator"}
  /\ Needed("release") = {"encodedSwap", "r", "yParityAndS", "initiator"}
  /\ Needed("directRelease") = {"encodedSwap", "r", "yParityAndS", "initiator"}
  /\ Needed("executeSwap") = {"encodedSwap", "r", "yParityAndS", "recipient"}
BY Zenon DEF Needed

\* Data of a swap and an initiator, and of a lock with its recipient.
LEMMA TwoWords ==
  ASSUME NEW ins, NEW a, NEW b, NEW c,
         \/ ins.data = <<Sol!Word(32, a), Sol!Word(20, b)>>
         \/ ins.data = <<Sol!Word(32, a), Sol!Word(20, b), Sol!Word(32, c)>>
  PROVE  Sol!Substring(ins, 4, 68) = a /\ Sol!Substring(ins, 68, 108) = b
<1>1. /\ Sol!Digits(ins.data, 0) = 4 /\ Sol!Digits(ins.data, 1) = 68
      /\ Sol!Digits(ins.data, 2) = 108
  <2>1. CASE ins.data = <<Sol!Word(32, a), Sol!Word(20, b)>>
    BY <2>1 DEF Sol!Digits, Sol!Word
  <2>2. CASE ins.data = <<Sol!Word(32, a), Sol!Word(20, b), Sol!Word(32, c)>>
    BY <2>2 DEF Sol!Digits, Sol!Word
  <2>. QED  BY <2>1, <2>2
<1>2. 1 - 1 = 0 /\ 2 - 1 = 1
  OBVIOUS
<1>3. CASE ins.data = <<Sol!Word(32, a), Sol!Word(20, b)>>
  <2>1. Len(ins.data) \in 2..2 /\ \A i \in 1..2 : ins.data[i].bytes \in Nat \ {0}
    BY <1>3 DEF Sol!Word
  <2>2. ins.data[1].value = a /\ ins.data[2].value = b
    BY <1>3 DEF Sol!Word
  <2>. QED  BY <1>1, <1>2, <2>1, <2>2, WordIsRead
<1>4. CASE ins.data = <<Sol!Word(32, a), Sol!Word(20, b), Sol!Word(32, c)>>
  <2>1. Len(ins.data) \in 3..3 /\ \A i \in 1..3 : ins.data[i].bytes \in Nat \ {0}
    BY <1>4 DEF Sol!Word
  <2>2. ins.data[1].value = a /\ ins.data[2].value = b
    BY <1>4 DEF Sol!Word
  <2>. QED  BY <1>1, <1>2, <2>1, <2>2, WordIsRead
<1>. QED  BY <1>3, <1>4

LEMMA OneWord ==
  ASSUME NEW ins, NEW a, ins.data = <<Sol!Word(32, a)>>
  PROVE  Sol!Substring(ins, 4, 68) = a
<1>1. Len(ins.data) \in 1..1 /\ \A i \in 1..1 : ins.data[i].bytes \in Nat \ {0}
  BY DEF Sol!Word
<1>2. Sol!Digits(ins.data, 0) = 4 /\ Sol!Digits(ins.data, 1) = 68
  BY DEF Sol!Digits, Sol!Word
<1>3. ins.data[1].value = a
  BY DEF Sol!Word
<1>. QED  BY <1>1, <1>2, <1>3, WordIsRead

\* Data of a posting; the three bytes before the pool are not read.
LEMMA PostedWords ==
  ASSUME NEW ins, NEW a, NEW b, NEW c,
         ins.data = <<Sol!Word(32, a), Sol!Word(20, b), Sol!Word(3, 0), Sol!Word(5, c)>>
  PROVE  /\ Sol!Substring(ins, 4, 68) = a /\ Sol!Substring(ins, 68, 108) = b
         /\ Sol!Substring(ins, 114, 124) = c
<1>1. /\ Len(ins.data) \in 4..4
      /\ \A i \in 1..4 : ins.data[i].bytes \in Nat \ {0}
  BY DEF Sol!Word
<1>2. /\ Sol!Digits(ins.data, 0) = 4 /\ Sol!Digits(ins.data, 1) = 68
      /\ Sol!Digits(ins.data, 2) = 108 /\ Sol!Digits(ins.data, 3) = 114
      /\ Sol!Digits(ins.data, 4) = 124
  BY DEF Sol!Digits, Sol!Word
<1>3. /\ ins.data[1].value = a /\ ins.data[2].value = b /\ ins.data[4].value = c
  BY DEF Sol!Word
<1>4. /\ 1 - 1 = 0 /\ 2 - 1 = 1 /\ 3 - 1 = 2 /\ 4 - 1 = 3
  OBVIOUS
<1>. QED  BY <1>1, <1>2, <1>3, <1>4, WordIsRead

\* parseTransaction of Solana, method by method.
LEMMA SolanaArgumentsOf ==
  ASSUME NEW ins
  PROVE  /\ Sol!SolanaArguments("postSwapFromInitiator", ins) =
              [encodedSwap |-> Sol!Substring(ins, 4, 68),
               postingValue |-> <<Sol!Substring(ins, 68, 108), Sol!Substring(ins, 114, 124)>>]
         /\ \A name \in {"bondSwap", "cancelSwap"} :
              Sol!SolanaArguments(name, ins) = [encodedSwap |-> Sol!Substring(ins, 4, 68)]
         /\ \A name \in {"lockSwap", "unlock"} : Sol!SolanaArguments(name, ins) =
              [encodedSwap |-> Sol!Substring(ins, 4, 68),
               initiator |-> Sol!Substring(ins, 68, 108)]
         /\ Sol!SolanaArguments("executeSwap", ins) =
              [encodedSwap |-> Sol!Substring(ins, 4, 68), r |-> Sol!Substring(ins, 68, 132),
               yParityAndS |-> Sol!Substring(ins, 132, 196),
               recipient |-> Sol!Substring(ins, 196, 236)]
         /\ \A name \in {"release", "directRelease"} : Sol!SolanaArguments(name, ins) =
              [encodedSwap |-> Sol!Substring(ins, 4, 68), r |-> Sol!Substring(ins, 68, 132),
               yParityAndS |-> Sol!Substring(ins, 132, 196),
               initiator |-> Sol!Substring(ins, 196, 236)]
BY Zenon DEF Sol!SolanaArguments

\* The numbers of the methods are their places in the list.
LEMMA SolanaMethods ==
  /\ Sol!SOLANA_METHODS[11 + 1] = "postSwapFromInitiator"
  /\ Sol!SOLANA_METHODS[12 + 1] = "bondSwap"
  /\ Sol!SOLANA_METHODS[13 + 1] = "cancelSwap"
  /\ Sol!SOLANA_METHODS[14 + 1] = "executeSwap"
  /\ Sol!SOLANA_METHODS[15 + 1] = "lockSwap"
  /\ Sol!SOLANA_METHODS[16 + 1] = "unlock"
  /\ Sol!SOLANA_METHODS[17 + 1] = "release"
  /\ Sol!SOLANA_METHODS[18 + 1] = "directRelease"
BY DEF Sol!SOLANA_METHODS

\* The dispatch of the contract object.
LEMMA SolanaDispatch ==
  ASSUME NEW a, NEW sender
  PROVE  /\ \A name \in {"postSwapFromInitiator", "bondSwap", "cancelSwap"} :
              SolanaCall(Call(name, a), sender)
                = Sol!SolanaDepositCall(Call(name, a), sender, "depositor")
         /\ \A name \in {"executeSwap", "lockSwap", "unlock"} :
              SolanaCall(Call(name, a), sender)
                = Sol!SolanaPoolSwapCall(Call(name, a), sender, PoolOf)
         /\ \A name \in {"release", "directRelease"} :
              SolanaCall(Call(name, a), sender)
                = Sol!SolanaReleaseCall(Call(name, a), sender, PoolOf)
         /\ \A name \in {"depositAndRegister", "deposit", "withdraw", "withdrawServiceFee"} :
              SolanaCall(Call(name, a), sender)
                = Sol!SolanaPoolCall(Call(name, a), sender, PoolOf)
BY Zenon DEF SolanaCall, Call

\* The words that a call about a swap writes.

LEMMA SolanaData ==
  ASSUME NEW a, NEW sender
  PROVE  /\ LET i == Sol!SolanaDepositCall(Call("postSwapFromInitiator", a), sender, "depositor")
            IN  i.op = 11 /\ i.data =
                  <<Sol!Word(32, a.encodedSwap), Sol!Word(20, a.postingValue[1]),
                                  Sol!Word(3, 0), Sol!Word(5, a.postingValue[2])>>
         /\ LET i == Sol!SolanaDepositCall(Call("bondSwap", a), sender, "depositor")
            IN  i.op = 12 /\ i.data = <<Sol!Word(32, a.encodedSwap)>>
         /\ LET i == Sol!SolanaDepositCall(Call("cancelSwap", a), sender, "depositor")
            IN  i.op = 13 /\ i.data = <<Sol!Word(32, a.encodedSwap)>>
         /\ LET i == Sol!SolanaPoolSwapCall(Call("executeSwap", a), sender, PoolOf)
            IN  i.op = 14 /\ i.data = <<Sol!Word(32, a.encodedSwap), Sol!Word(32, a.r),
                                  Sol!Word(32, a.yParityAndS), Sol!Word(20, a.recipient)>>
         /\ LET i == Sol!SolanaPoolSwapCall(Call("lockSwap", a), sender, PoolOf)
            IN  i.op = 15 /\ i.data = <<Sol!Word(32, a.encodedSwap), Sol!Word(20, a.initiator),
                                  Sol!Word(32, a.recipient)>>
         /\ LET i == Sol!SolanaPoolSwapCall(Call("unlock", a), sender, PoolOf)
            IN  i.op = 16 /\ i.data = <<Sol!Word(32, a.encodedSwap), Sol!Word(20, a.initiator)>>
         /\ LET i == Sol!SolanaReleaseCall(Call("release", a), sender, PoolOf)
            IN  i.op = 17 /\ i.data = <<Sol!Word(32, a.encodedSwap), Sol!Word(32, a.r),
                                  Sol!Word(32, a.yParityAndS), Sol!Word(20, a.initiator)>>
         /\ LET i == Sol!SolanaReleaseCall(Call("directRelease", a), sender, PoolOf)
            IN  i.op = 18 /\ i.data = <<Sol!Word(32, a.encodedSwap), Sol!Word(32, a.r),
                                  Sol!Word(32, a.yParityAndS), Sol!Word(20, a.initiator)>>
BY DEF Sol!SolanaDepositCall, Sol!SolanaPoolSwapCall, Sol!SolanaReleaseCall, Call, Sol!Instruction

-----------------------------------------------------------------------------
\* What the contract object of each chain reads of a call

\* Arguments by name, all that the providers need and each as in the call.
Answers(name, args, a) ==
  Needed(name) \subseteq DOMAIN args /\ \A k \in DOMAIN args : args[k] = a[k]

LEMMA AnswersAreReads ==
  ASSUME NEW name, NEW a, NEW args, Answers(name, args, a)
  PROVE  Reads([name |-> name, args |-> args], Call(name, a), {})
BY DEF Reads, Answers, Call

\* The names of the calls about a swap but postSwap, which only EVM chains have.
SwapCalls == {"postSwapFromInitiator", "bondSwap", "cancelSwap", "executeSwap",
              "lockSwap", "unlock", "release", "directRelease"}

\* The records that the parsers make.
LEMMA RecordsAnswer ==
  ASSUME NEW a
  PROVE  /\ \A name \in {"bondSwap", "cancelSwap"} :
              Answers(name, [encodedSwap |-> a.encodedSwap], a)
         /\ \A name \in {"lockSwap", "unlock"} :
              Answers(name, [encodedSwap |-> a.encodedSwap, initiator |-> a.initiator], a)
         /\ Answers("lockSwap", [encodedSwap |-> a.encodedSwap, initiator |-> a.initiator,
                                 recipient |-> a.recipient], a)
         /\ Answers("executeSwap", [encodedSwap |-> a.encodedSwap, r |-> a.r,
                      yParityAndS |-> a.yParityAndS, recipient |-> a.recipient], a)
         /\ \A name \in {"release", "directRelease"} :
              Answers(name, [encodedSwap |-> a.encodedSwap, r |-> a.r,
                      yParityAndS |-> a.yParityAndS, initiator |-> a.initiator], a)
         /\ Answers("directRelease", [encodedSwap |-> a.encodedSwap, r |-> a.r,
                      yParityAndS |-> a.yParityAndS, initiator |-> a.initiator,
                      recipient |-> a.recipient], a)
         /\ Answers("postSwapFromInitiator", [encodedSwap |-> a.encodedSwap,
                      postingValue |-> a.postingValue], a)
BY NeededOf DEF Answers

\* Solana reads every argument that it keeps as it was sent.
LEMMA SolanaReads ==
  ASSUME NEW name \in SwapCalls, NEW a, NEW sender,
         name = "postSwapFromInitiator" =>
           a.postingValue = <<a.postingValue[1], a.postingValue[2]>>
  PROVE  Reads(Sol!SolanaParse(SolanaCall(Call(name, a), sender)), Call(name, a), {})
<1> DEFINE ins == SolanaCall(Call(name, a), sender)
           args == Sol!SolanaArguments(name, ins)
<1>1. Sol!SOLANA_METHODS[ins.op + 1] = name /\ Answers(name, args, a)
  <2>1. CASE name = "postSwapFromInitiator"
    <3>1. ins = Sol!SolanaDepositCall(Call(name, a), sender, "depositor")
      BY <2>1, SolanaDispatch
    <3>2. ins.op = 11 /\ ins.data = <<Sol!Word(32, a.encodedSwap), Sol!Word(20, a.postingValue[1]),
                                  Sol!Word(3, 0), Sol!Word(5, a.postingValue[2])>>
      BY <2>1, <3>1, SolanaData
    <3> HIDE DEF ins
    <3>3. args = [encodedSwap |-> a.encodedSwap,
                  postingValue |-> <<a.postingValue[1], a.postingValue[2]>>]
      BY <2>1, <3>2, PostedWords, SolanaArgumentsOf
    <3> HIDE DEF args
    <3>. QED  BY <2>1, <3>2, <3>3, SolanaMethods, RecordsAnswer
  <2>2. CASE name \in {"bondSwap", "cancelSwap"}
    <3>1. ins = Sol!SolanaDepositCall(Call(name, a), sender, "depositor")
      BY <2>2, SolanaDispatch
    <3>2. ins.op = (IF name = "bondSwap" THEN 12 ELSE 13)
          /\ ins.data = <<Sol!Word(32, a.encodedSwap)>>
      BY <2>2, <3>1, SolanaData
    <3> HIDE DEF ins
    <3>3. args = [encodedSwap |-> a.encodedSwap]
      BY <2>2, <3>2, OneWord, SolanaArgumentsOf
    <3> HIDE DEF args
    <3>. QED  BY <2>2, <3>2, <3>3, SolanaMethods, RecordsAnswer
  <2>3. CASE name = "executeSwap"
    <3>1. ins = Sol!SolanaPoolSwapCall(Call(name, a), sender, PoolOf)
      BY <2>3, SolanaDispatch
    <3>2. ins.op = 14 /\ ins.data = <<Sol!Word(32, a.encodedSwap), Sol!Word(32, a.r),
                                  Sol!Word(32, a.yParityAndS), Sol!Word(20, a.recipient)>>
      BY <2>3, <3>1, SolanaData
    <3> HIDE DEF ins
    <3>3. args = [encodedSwap |-> a.encodedSwap, r |-> a.r, yParityAndS |-> a.yParityAndS,
                  recipient |-> a.recipient]
      BY <2>3, <3>2, FourWords, SolanaArgumentsOf
    <3> HIDE DEF args
    <3>. QED  BY <2>3, <3>2, <3>3, SolanaMethods, RecordsAnswer
  <2>4. CASE name \in {"lockSwap", "unlock"}
    <3>1. ins = Sol!SolanaPoolSwapCall(Call(name, a), sender, PoolOf)
      BY <2>4, SolanaDispatch
    <3>2. /\ ins.op = (IF name = "lockSwap" THEN 15 ELSE 16)
          /\ \/ ins.data = <<Sol!Word(32, a.encodedSwap), Sol!Word(20, a.initiator)>>
             \/ ins.data = <<Sol!Word(32, a.encodedSwap), Sol!Word(20, a.initiator),
                             Sol!Word(32, a.recipient)>>
      BY <2>4, <3>1, SolanaData
    <3> HIDE DEF ins
    <3>3. args = [encodedSwap |-> a.encodedSwap, initiator |-> a.initiator]
      BY <2>4, <3>2, TwoWords, SolanaArgumentsOf
    <3> HIDE DEF args
    <3>. QED  BY <2>4, <3>2, <3>3, SolanaMethods, RecordsAnswer
  <2>5. CASE name \in {"release", "directRelease"}
    <3>1. ins = Sol!SolanaReleaseCall(Call(name, a), sender, PoolOf)
      BY <2>5, SolanaDispatch
    <3>2. /\ ins.op = (IF name = "release" THEN 17 ELSE 18)
          /\ ins.data = <<Sol!Word(32, a.encodedSwap), Sol!Word(32, a.r),
                          Sol!Word(32, a.yParityAndS), Sol!Word(20, a.initiator)>>
      BY <2>5, <3>1, SolanaData
    <3> HIDE DEF ins
    <3>3. args = [encodedSwap |-> a.encodedSwap, r |-> a.r, yParityAndS |-> a.yParityAndS,
                  initiator |-> a.initiator]
      BY <2>5, <3>2, FourWords, SolanaArgumentsOf
    <3> HIDE DEF args
    <3>. QED  BY <2>5, <3>2, <3>3, SolanaMethods, RecordsAnswer
  <2>. QED  BY <2>1, <2>2, <2>3, <2>4, <2>5 DEF SwapCalls
<1>2. Sol!SolanaParse(ins) = [name |-> name, args |-> args]
  BY <1>1 DEF Sol!SolanaParse
<1>3. Reads([name |-> name, args |-> args], Call(name, a), {})
  <2> HIDE DEF args
  <2>. QED  BY <1>1, AnswersAreReads
<1>. QED  BY <1>2, <1>3

\* A call about a swap goes to an entry function with its own arguments.
LEMMA AptosPayload ==
  ASSUME NEW name \in SwapCalls, NEW a
  PROVE  LET payload == Move!AptosCall(Call(name, a))
         IN  /\ payload.name = name
             /\ payload.args = Move!AptosSwapArguments(Call(name, a))
             /\ DOMAIN payload = {"module", "name", "types", "args"}
BY DEF Move!AptosCall, Move!IsForSwap, Move!SwapMethods, Move!Payload, Call, SwapCalls

LEMMA AptosSwapArgumentsOf ==
  ASSUME NEW a
  PROVE  /\ Move!AptosSwapArguments(Call("postSwapFromInitiator", a))
              = <<a.encodedSwap, a.postingValue[1], a.postingValue[2]>>
         /\ Move!AptosSwapArguments(Call("bondSwap", a)) = <<a.encodedSwap, a.poolIndex>>
         /\ Move!AptosSwapArguments(Call("cancelSwap", a)) = <<a.encodedSwap>>
         /\ Move!AptosSwapArguments(Call("executeSwap", a))
              = <<a.encodedSwap, <<a.r, a.yParityAndS>>, a.recipient, a.depositToPool>>
         /\ Move!AptosSwapArguments(Call("lockSwap", a))
              = <<a.encodedSwap, a.initiator, a.recipient>>
         /\ Move!AptosSwapArguments(Call("unlock", a)) = <<a.encodedSwap, a.initiator>>
         /\ Move!AptosSwapArguments(Call("release", a))
              = <<a.encodedSwap, <<a.r, a.yParityAndS>>, a.initiator>>
         /\ Move!AptosSwapArguments(Call("directRelease", a))
              = <<a.encodedSwap, <<a.r, a.yParityAndS>>, a.initiator, a.recipient>>
BY DEF Move!AptosSwapArguments, Call, Move!CompactSignature

\* parseTransaction of Aptos, method by method.
LEMMA AptosArgumentsOf ==
  ASSUME NEW args
  PROVE  /\ Move!AptosArguments("postSwapFromInitiator", args) =
              [encodedSwap |-> args[1].value,
               postingValue |-> <<args[2].value, args[3].value>>]
         /\ \A name \in {"bondSwap", "cancelSwap"} :
              Move!AptosArguments(name, args) = [encodedSwap |-> args[1].value]
         /\ \A name \in {"lockSwap", "unlock"} : Move!AptosArguments(name, args) =
              [encodedSwap |-> args[1].value, initiator |-> args[2].value]
         /\ Move!AptosArguments("executeSwap", args) =
              [encodedSwap |-> args[1].value, r |-> args[2].value[1],
               yParityAndS |-> args[2].value[2], recipient |-> args[3].value]
         /\ Move!AptosArguments("release", args) =
              [encodedSwap |-> args[1].value, r |-> args[2].value[1],
               yParityAndS |-> args[2].value[2], initiator |-> args[3].value]
         /\ Move!AptosArguments("directRelease", args) =
              [encodedSwap |-> args[1].value, r |-> args[2].value[1],
               yParityAndS |-> args[2].value[2], initiator |-> Move!Prefixed(args[3]),
               recipient |-> args[4].value]
BY Zenon DEF Move!AptosArguments, Move!Unprefixed

\* A node returns each argument at its position, in whatever form.
LEMMA ReturnedArguments ==
  ASSUME NEW payload, NEW serialised, DOMAIN payload = {"module", "name", "types", "args"}
  PROVE  LET back == Move!Returned(payload, serialised)
         IN  /\ back.name = payload.name
             /\ \A i \in DOMAIN payload.args : back.args[i].value = payload.args[i]
BY DEF Move!Returned

\* Aptos reads the arguments by their positions, serialised or not, but for the
\* initiator of a direct release.
LEMMA AptosReads ==
  ASSUME NEW name \in SwapCalls, NEW a, NEW serialised,
         name = "postSwapFromInitiator" =>
           a.postingValue = <<a.postingValue[1], a.postingValue[2]>>
  PROVE  Reads(Move!AptosParse(Move!Returned(Move!AptosCall(Call(name, a)), serialised)),
               Call(name, a), IF name = "directRelease" THEN {"initiator"} ELSE {})
<1> DEFINE payload == Move!AptosCall(Call(name, a))
           sent == Move!AptosSwapArguments(Call(name, a))
           back == Move!Returned(payload, serialised)
           args == Move!AptosArguments(name, back.args)
<1>1. payload.name = name /\ payload.args = sent
      /\ DOMAIN payload = {"module", "name", "types", "args"}
  BY AptosPayload
<1>2. back.name = name /\ \A i \in DOMAIN sent : back.args[i].value = sent[i]
  <2> HIDE DEF payload, sent
  <2>. QED  BY <1>1, ReturnedArguments
<1>3. Move!AptosParse(back) = [name |-> name, args |-> args]
  <2> HIDE DEF back
  <2>. QED  BY <1>2 DEF Move!AptosParse
<1>4. name # "directRelease" => Answers(name, args, a)
  <2>1. CASE name = "postSwapFromInitiator"
    <3>1. sent = <<a.encodedSwap, a.postingValue[1], a.postingValue[2]>>
      BY <2>1, AptosSwapArgumentsOf
    <3> HIDE DEF back, sent
    <3>2. args = [encodedSwap |-> a.encodedSwap,
                  postingValue |-> <<a.postingValue[1], a.postingValue[2]>>]
      <4>1. back.args[1].value = a.encodedSwap /\ back.args[2].value = a.postingValue[1]
            /\ back.args[3].value = a.postingValue[2]
        BY <1>2, <3>1
      <4>. QED  BY <2>1, <4>1, AptosArgumentsOf
    <3> HIDE DEF args
    <3>. QED  BY <2>1, <3>2, RecordsAnswer
  <2>2. CASE name \in {"bondSwap", "cancelSwap"}
    <3>1. sent = <<a.encodedSwap, a.poolIndex>> \/ sent = <<a.encodedSwap>>
      BY <2>2, AptosSwapArgumentsOf
    <3> HIDE DEF back, sent
    <3>2. back.args[1].value = a.encodedSwap
      BY <1>2, <3>1
    <3>3. args = [encodedSwap |-> a.encodedSwap]
      BY <2>2, <3>2, AptosArgumentsOf
    <3> HIDE DEF args
    <3>. QED  BY <2>2, <3>3, RecordsAnswer
  <2>3. CASE name = "executeSwap"
    <3>1. sent = <<a.encodedSwap, <<a.r, a.yParityAndS>>, a.recipient, a.depositToPool>>
      BY <2>3, AptosSwapArgumentsOf
    <3> HIDE DEF back, sent
    <3>2. /\ back.args[1].value = a.encodedSwap
          /\ back.args[2].value[1] = a.r /\ back.args[2].value[2] = a.yParityAndS
          /\ back.args[3].value = a.recipient
      BY <1>2, <3>1
    <3>3. args = [encodedSwap |-> a.encodedSwap, r |-> a.r, yParityAndS |-> a.yParityAndS,
                  recipient |-> a.recipient]
      BY <2>3, <3>2, AptosArgumentsOf
    <3> HIDE DEF args
    <3>. QED  BY <2>3, <3>3, RecordsAnswer
  <2>4. CASE name \in {"lockSwap", "unlock"}
    <3>1. \/ sent = <<a.encodedSwap, a.initiator, a.recipient>>
          \/ sent = <<a.encodedSwap, a.initiator>>
      BY <2>4, AptosSwapArgumentsOf
    <3> HIDE DEF back, sent
    <3>2. back.args[1].value = a.encodedSwap /\ back.args[2].value = a.initiator
      BY <1>2, <3>1
    <3>3. args = [encodedSwap |-> a.encodedSwap, initiator |-> a.initiator]
      BY <2>4, <3>2, AptosArgumentsOf
    <3> HIDE DEF args
    <3>. QED  BY <2>4, <3>3, RecordsAnswer
  <2>5. CASE name = "release"
    <3>1. sent = <<a.encodedSwap, <<a.r, a.yParityAndS>>, a.initiator>>
      BY <2>5, AptosSwapArgumentsOf
    <3> HIDE DEF back, sent
    <3>2. /\ back.args[1].value = a.encodedSwap
          /\ back.args[2].value[1] = a.r /\ back.args[2].value[2] = a.yParityAndS
          /\ back.args[3].value = a.initiator
      BY <1>2, <3>1
    <3>3. args = [encodedSwap |-> a.encodedSwap, r |-> a.r, yParityAndS |-> a.yParityAndS,
                  initiator |-> a.initiator]
      BY <2>5, <3>2, AptosArgumentsOf
    <3> HIDE DEF args
    <3>. QED  BY <2>5, <3>3, RecordsAnswer
  <2>. QED  BY <2>1, <2>2, <2>3, <2>4, <2>5 DEF SwapCalls
<1>5. ASSUME name = "directRelease"
      PROVE  Reads([name |-> name, args |-> args], Call(name, a), {"initiator"})
  <2>1. sent = <<a.encodedSwap, <<a.r, a.yParityAndS>>, a.initiator, a.recipient>>
    BY <1>5, AptosSwapArgumentsOf
  <2> HIDE DEF back, sent
  <2>2. /\ back.args[1].value = a.encodedSwap
        /\ back.args[2].value[1] = a.r /\ back.args[2].value[2] = a.yParityAndS
        /\ back.args[4].value = a.recipient
    BY <1>2, <2>1
  <2>3. args = [encodedSwap |-> a.encodedSwap, r |-> a.r, yParityAndS |-> a.yParityAndS,
                initiator |-> Move!Prefixed(back.args[3]), recipient |-> a.recipient]
    BY <1>5, <2>2, AptosArgumentsOf
  <2> DEFINE others == {"encodedSwap", "r", "yParityAndS", "recipient"}
  <2> HIDE DEF args
  <2>4. DOMAIN args = others \union {"initiator"} /\ \A k \in others : args[k] = a[k]
    BY <2>3
  <2>5. Needed(name) \subseteq DOMAIN args
    BY <1>5, <2>4, NeededOf
  <2> HIDE DEF others
  <2>. QED  BY <2>4, <2>5 DEF Reads, Call
<1>6. Reads([name |-> name, args |-> args], Call(name, a),
            IF name = "directRelease" THEN {"initiator"} ELSE {})
  <2> HIDE DEF args
  <2>. QED  BY <1>4, <1>5, AnswersAreReads
<1>. QED  BY <1>3, <1>6

\* The same for Sui.
LEMMA SuiPayload ==
  ASSUME NEW name \in SwapCalls, NEW a
  PROVE  LET payload == Move!SuiCall(Call(name, a))
         IN  /\ payload.name = name
             /\ payload.args = Move!SuiSwapArguments(Call(name, a))
             /\ DOMAIN payload = {"module", "name", "types", "args"}
BY DEF Move!SuiCall, Move!IsForSwap, Move!SwapMethods, Move!Payload, Call, SwapCalls

LEMMA SuiSwapArgumentsOf ==
  ASSUME NEW a
  PROVE  /\ \E x, y, z : Move!SuiSwapArguments(Call("postSwapFromInitiator", a))
              = <<a.encodedSwap, a.postingValue[1], a.postingValue[2], x, y, z>>
         /\ \E x, y : Move!SuiSwapArguments(Call("bondSwap", a)) = <<a.encodedSwap, x, y>>
         /\ \E x, y : Move!SuiSwapArguments(Call("cancelSwap", a)) = <<a.encodedSwap, x, y>>
         /\ \E x, y, z : Move!SuiSwapArguments(Call("executeSwap", a))
              = <<a.encodedSwap, <<a.r, a.yParityAndS>>, a.recipient, x, y, z>>
         /\ \E x, y, z : Move!SuiSwapArguments(Call("lockSwap", a))
              = <<a.encodedSwap, a.initiator, x, y, z>>
         /\ \E x, y : Move!SuiSwapArguments(Call("unlock", a))
              = <<a.encodedSwap, a.initiator, x, y>>
         /\ \E x, y : Move!SuiSwapArguments(Call("release", a))
              = <<a.encodedSwap, <<a.r, a.yParityAndS>>, a.initiator, x, y>>
         /\ \E x, y : Move!SuiSwapArguments(Call("directRelease", a))
              = <<a.encodedSwap, <<a.r, a.yParityAndS>>, a.initiator, a.recipient, x, y>>
BY DEF Move!SuiSwapArguments, Call, Move!CompactSignature

\* parseTransaction of Sui, method by method.
LEMMA SuiArgumentsOf ==
  ASSUME NEW args
  PROVE  /\ Move!SuiArguments("postSwapFromInitiator", args) =
              [encodedSwap |-> args[1], postingValue |-> <<args[2], args[3]>>]
         /\ \A name \in {"bondSwap", "cancelSwap"} :
              Move!SuiArguments(name, args) = [encodedSwap |-> args[1]]
         /\ \A name \in {"lockSwap", "unlock"} : Move!SuiArguments(name, args) =
              [encodedSwap |-> args[1], initiator |-> args[2]]
         /\ Move!SuiArguments("executeSwap", args) =
              [encodedSwap |-> args[1], r |-> args[2][1],
               yParityAndS |-> args[2][2], recipient |-> args[3]]
         /\ Move!SuiArguments("release", args) =
              [encodedSwap |-> args[1], r |-> args[2][1],
               yParityAndS |-> args[2][2], initiator |-> args[3]]
         /\ Move!SuiArguments("directRelease", args) =
              [encodedSwap |-> args[1], r |-> args[2][1], yParityAndS |-> args[2][2],
               initiator |-> args[3], recipient |-> args[4]]
BY Zenon DEF Move!SuiArguments

\* Only what another command has made is lost when a block is read back.
LEMMA ReadBackArguments ==
  ASSUME NEW payload, DOMAIN payload = {"module", "name", "types", "args"}
  PROVE  LET back == Move!MoveCallsFromTxResponse(payload)[1]
         IN  /\ back.name = payload.name
             /\ \A i \in DOMAIN payload.args :
                  payload.name \in SwapCalls
                  /\ ~(payload.name = "postSwapFromInitiator" /\ i = 4)
                    => back.args[i] = payload.args[i]
BY DEF Move!MoveCallsFromTxResponse, SwapCalls

\* Sui reads every argument that it keeps as it was sent.
LEMMA SuiReads ==
  ASSUME NEW name \in SwapCalls, NEW a,
         name = "postSwapFromInitiator" =>
           a.postingValue = <<a.postingValue[1], a.postingValue[2]>>
  PROVE  Reads(Move!SuiParse(Move!MoveCallsFromTxResponse(Move!SuiCall(Call(name, a)))),
               Call(name, a), {})
<1> DEFINE payload == Move!SuiCall(Call(name, a))
           sent == Move!SuiSwapArguments(Call(name, a))
           back == Move!MoveCallsFromTxResponse(payload)[1]
           args == Move!SuiArguments(name, back.args)
<1>1. payload.name = name /\ payload.args = sent
      /\ DOMAIN payload = {"module", "name", "types", "args"}
  BY SuiPayload
<1>2. /\ back.name = name
      /\ \A i \in DOMAIN sent :
           ~(name = "postSwapFromInitiator" /\ i = 4) => back.args[i] = sent[i]
  <2> HIDE DEF payload, sent
  <2>. QED  BY <1>1, ReadBackArguments
<1>3. Move!SuiParse(Move!MoveCallsFromTxResponse(payload)) = [name |-> name, args |-> args]
  <2> HIDE DEF payload
  <2>. QED  BY <1>2 DEF Move!SuiParse
<1>4. Answers(name, args, a)
  <2>1. CASE name = "postSwapFromInitiator"
    <3>1. PICK x, y, z : sent = <<a.encodedSwap, a.postingValue[1], a.postingValue[2], x, y, z>>
      BY <2>1, SuiSwapArgumentsOf
    <3> HIDE DEF back, sent
    <3>2. /\ back.args[1] = a.encodedSwap /\ back.args[2] = a.postingValue[1]
          /\ back.args[3] = a.postingValue[2]
      BY <1>2, <3>1
    <3>3. args = [encodedSwap |-> a.encodedSwap,
                  postingValue |-> <<a.postingValue[1], a.postingValue[2]>>]
      BY <2>1, <3>2, SuiArgumentsOf
    <3> HIDE DEF args
    <3>. QED  BY <2>1, <3>3, RecordsAnswer
  <2>2. CASE name \in {"bondSwap", "cancelSwap"}
    <3>1. \E x, y : sent = <<a.encodedSwap, x, y>>
      <4>1. CASE name = "bondSwap"
        BY <4>1, SuiSwapArgumentsOf
      <4>2. CASE name = "cancelSwap"
        BY <4>2, SuiSwapArgumentsOf
      <4>. QED  BY <2>2, <4>1, <4>2
    <3> HIDE DEF back, sent
    <3>2. back.args[1] = a.encodedSwap
      BY <1>2, <2>2, <3>1
    <3>3. args = [encodedSwap |-> a.encodedSwap]
      BY <2>2, <3>2, SuiArgumentsOf
    <3> HIDE DEF args
    <3>. QED  BY <2>2, <3>3, RecordsAnswer
  <2>3. CASE name = "executeSwap"
    <3>1. PICK x, y, z : sent = <<a.encodedSwap, <<a.r, a.yParityAndS>>, a.recipient, x, y, z>>
      BY <2>3, SuiSwapArgumentsOf
    <3> HIDE DEF back, sent
    <3>2. /\ back.args[1] = a.encodedSwap
          /\ back.args[2][1] = a.r /\ back.args[2][2] = a.yParityAndS
          /\ back.args[3] = a.recipient
      BY <1>2, <2>3, <3>1
    <3>3. args = [encodedSwap |-> a.encodedSwap, r |-> a.r, yParityAndS |-> a.yParityAndS,
                  recipient |-> a.recipient]
      BY <2>3, <3>2, SuiArgumentsOf
    <3> HIDE DEF args
    <3>. QED  BY <2>3, <3>3, RecordsAnswer
  <2>4. CASE name \in {"lockSwap", "unlock"}
    <3>1. \/ \E x, y, z : sent = <<a.encodedSwap, a.initiator, x, y, z>>
          \/ \E x, y : sent = <<a.encodedSwap, a.initiator, x, y>>
      <4>1. CASE name = "lockSwap"
        BY <4>1, SuiSwapArgumentsOf
      <4>2. CASE name = "unlock"
        BY <4>2, SuiSwapArgumentsOf
      <4>. QED  BY <2>4, <4>1, <4>2
    <3> HIDE DEF back, sent
    <3>2. back.args[1] = a.encodedSwap /\ back.args[2] = a.initiator
      BY <1>2, <2>4, <3>1
    <3>3. args = [encodedSwap |-> a.encodedSwap, initiator |-> a.initiator]
      BY <2>4, <3>2, SuiArgumentsOf
    <3> HIDE DEF args
    <3>. QED  BY <2>4, <3>3, RecordsAnswer
  <2>5. CASE name = "release"
    <3>1. PICK x, y : sent = <<a.encodedSwap, <<a.r, a.yParityAndS>>, a.initiator, x, y>>
      BY <2>5, SuiSwapArgumentsOf
    <3> HIDE DEF back, sent
    <3>2. /\ back.args[1] = a.encodedSwap
          /\ back.args[2][1] = a.r /\ back.args[2][2] = a.yParityAndS
          /\ back.args[3] = a.initiator
      BY <1>2, <2>5, <3>1
    <3>3. args = [encodedSwap |-> a.encodedSwap, r |-> a.r, yParityAndS |-> a.yParityAndS,
                  initiator |-> a.initiator]
      BY <2>5, <3>2, SuiArgumentsOf
    <3> HIDE DEF args
    <3>. QED  BY <2>5, <3>3, RecordsAnswer
  <2>6. CASE name = "directRelease"
    <3>1. PICK x, y : sent = <<a.encodedSwap, <<a.r, a.yParityAndS>>, a.initiator,
                              a.recipient, x, y>>
      BY <2>6, SuiSwapArgumentsOf
    <3> HIDE DEF back, sent
    <3>2. /\ back.args[1] = a.encodedSwap
          /\ back.args[2][1] = a.r /\ back.args[2][2] = a.yParityAndS
          /\ back.args[3] = a.initiator /\ back.args[4] = a.recipient
      BY <1>2, <2>6, <3>1
    <3>3. args = [encodedSwap |-> a.encodedSwap, r |-> a.r, yParityAndS |-> a.yParityAndS,
                  initiator |-> a.initiator, recipient |-> a.recipient]
      BY <2>6, <3>2, SuiArgumentsOf
    <3> HIDE DEF args
    <3>. QED  BY <2>6, <3>3, RecordsAnswer
  <2>. QED  BY <2>1, <2>2, <2>3, <2>4, <2>5, <2>6 DEF SwapCalls
<1>5. Reads([name |-> name, args |-> args], Call(name, a), {})
  <2> HIDE DEF args
  <2>. QED  BY <1>4, AnswersAreReads
<1>. QED  BY <1>3, <1>5

\* Starknet
LEMMA StarknetDataOf ==
  ASSUME NEW a
  PROVE  /\ LET d == Other!StarknetData(Call("postSwapFromInitiator", a))
            IN  d[1] = a.encodedSwap /\ d[2] = a.postingValue
         /\ LET d == Other!StarknetData(Call("executeSwap", a))
            IN  d[1] = a.encodedSwap /\ d[2] = a.r /\ d[3] = a.yParityAndS /\ d[4] = a.recipient
         /\ LET d == Other!StarknetData(Call("lockSwap", a))
            IN  d[1] = a.encodedSwap /\ d[2] = a.initiator /\ d[3] = a.recipient
         /\ LET d == Other!StarknetData(Call("release", a))
            IN  d[1] = a.encodedSwap /\ d[2] = a.r /\ d[3] = a.yParityAndS /\ d[4] = a.initiator
         /\ LET d == Other!StarknetData(Call("directRelease", a))
            IN  /\ d[1] = a.encodedSwap /\ d[2] = a.r /\ d[3] = a.yParityAndS
                /\ d[4] = a.initiator /\ d[5] = a.recipient
BY DEF Other!StarknetData, Call

LEMMA StarknetArgumentsOf ==
  ASSUME NEW d
  PROVE  /\ Other!StarknetArguments("postSwapFromInitiator", d)
              = [encodedSwap |-> d[1], postingValue |-> d[2]]
         /\ Other!StarknetArguments("lockSwap", d)
              = [encodedSwap |-> d[1], initiator |-> d[2], recipient |-> d[3]]
         /\ Other!StarknetArguments("executeSwap", d)
              = [encodedSwap |-> d[1], r |-> d[2], yParityAndS |-> d[3], recipient |-> d[4]]
         /\ Other!StarknetArguments("release", d)
              = [encodedSwap |-> d[1], r |-> d[2], yParityAndS |-> d[3], initiator |-> d[4]]
         /\ Other!StarknetArguments("directRelease", d)
              = [encodedSwap |-> d[1], r |-> d[2], yParityAndS |-> d[3], initiator |-> d[4],
                 recipient |-> d[5]]
BY Zenon DEF Other!StarknetArguments

\* Starknet reads what it has a selector for, and nothing of another call.
LEMMA StarknetReads ==
  ASSUME NEW name \in SwapCalls, NEW a
  PROVE  IF name \in Other!SELECTORS
         THEN Reads(Other!StarknetParse(Other!StarknetCall(Call(name, a))), Call(name, a), {})
         ELSE Other!StarknetParse(Other!StarknetCall(Call(name, a))) = Other!NoTransaction
<1> DEFINE d == Other!StarknetData(Call(name, a))
           args == Other!StarknetArguments(name, d)
<1>1. Other!StarknetCall(Call(name, a)) = [name |-> name, data |-> d]
  BY DEF Other!StarknetCall, Call
<1>2. CASE name \notin Other!SELECTORS
  <2> HIDE DEF d
  <2>. QED  BY <1>1, <1>2 DEF Other!StarknetParse
<1>3. ASSUME name \in Other!SELECTORS
      PROVE  Answers(name, args, a)
  <2>1. CASE name = "postSwapFromInitiator"
    <3>1. d[1] = a.encodedSwap /\ d[2] = a.postingValue
      BY <2>1, StarknetDataOf
    <3> HIDE DEF d
    <3>2. args = [encodedSwap |-> a.encodedSwap, postingValue |-> a.postingValue]
      BY <2>1, <3>1, StarknetArgumentsOf
    <3> HIDE DEF args
    <3>. QED  BY <2>1, <3>2, RecordsAnswer
  <2>2. CASE name = "lockSwap"
    <3>1. d[1] = a.encodedSwap /\ d[2] = a.initiator /\ d[3] = a.recipient
      BY <2>2, StarknetDataOf
    <3> HIDE DEF d
    <3>2. args = [encodedSwap |-> a.encodedSwap, initiator |-> a.initiator,
                  recipient |-> a.recipient]
      BY <2>2, <3>1, StarknetArgumentsOf
    <3> HIDE DEF args
    <3>. QED  BY <2>2, <3>2, RecordsAnswer
  <2>3. CASE name = "executeSwap"
    <3>1. d[1] = a.encodedSwap /\ d[2] = a.r /\ d[3] = a.yParityAndS /\ d[4] = a.recipient
      BY <2>3, StarknetDataOf
    <3> HIDE DEF d
    <3>2. args = [encodedSwap |-> a.encodedSwap, r |-> a.r, yParityAndS |-> a.yParityAndS,
                  recipient |-> a.recipient]
      BY <2>3, <3>1, StarknetArgumentsOf
    <3> HIDE DEF args
    <3>. QED  BY <2>3, <3>2, RecordsAnswer
  <2>4. CASE name = "release"
    <3>1. d[1] = a.encodedSwap /\ d[2] = a.r /\ d[3] = a.yParityAndS /\ d[4] = a.initiator
      BY <2>4, StarknetDataOf
    <3> HIDE DEF d
    <3>2. args = [encodedSwap |-> a.encodedSwap, r |-> a.r, yParityAndS |-> a.yParityAndS,
                  initiator |-> a.initiator]
      BY <2>4, <3>1, StarknetArgumentsOf
    <3> HIDE DEF args
    <3>. QED  BY <2>4, <3>2, RecordsAnswer
  <2>5. CASE name = "directRelease"
    <3>1. /\ d[1] = a.encodedSwap /\ d[2] = a.r /\ d[3] = a.yParityAndS
          /\ d[4] = a.initiator /\ d[5] = a.recipient
      BY <2>5, StarknetDataOf
    <3> HIDE DEF d
    <3>2. args = [encodedSwap |-> a.encodedSwap, r |-> a.r, yParityAndS |-> a.yParityAndS,
                  initiator |-> a.initiator, recipient |-> a.recipient]
      BY <2>5, <3>1, StarknetArgumentsOf
    <3> HIDE DEF args
    <3>. QED  BY <2>5, <3>2, RecordsAnswer
  <2>. QED  BY <1>3, <2>1, <2>2, <2>3, <2>4, <2>5 DEF Other!SELECTORS
<1>4. CASE name \in Other!SELECTORS
  <2>1. Other!StarknetParse(Other!StarknetCall(Call(name, a))) = [name |-> name, args |-> args]
    <3> HIDE DEF d
    <3>. QED  BY <1>1, <1>4 DEF Other!StarknetParse
  <2> HIDE DEF args
  <2>. QED  BY <1>3, <1>4, <2>1, AnswersAreReads
<1>. QED  BY <1>2, <1>4

\* Escrow cells of CKB that a call makes, and what is read of them.
\* CKB reads a posting and a lock from the cell that is made; the pool of a
\* posting is not in it.
LEMMA CkbReadsMade ==
  ASSUME NEW name \in {"postSwapFromInitiator", "lockSwap"}, NEW a, NEW sender,
         name = "postSwapFromInitiator" =>
           a.encodedSwap.inChain = "ckb" /\ DOMAIN a = {"encodedSwap", "postingValue"},
         name = "lockSwap" => a.encodedSwap.inChain # "ckb"
  PROVE  Reads(Other!CkbParse(CkbTransactionOf(Call(name, a), sender)), Call(name, a),
               IF name = "lockSwap" THEN {} ELSE {"postingValue"})
<1> DEFINE c == Call(name, a)
           script == Other!CkbEscrow(c, sender, LpWallet)
           tx == Other!CkbTransaction(script, Other!NoWitness)
           p == Other!CkbParse(tx)
<1>1. c.name = name /\ c.args = a
  BY DEF Call
<1>2. CkbTransactionOf(c, sender) = tx
  <2> HIDE DEF c
  <2>. QED  BY <1>1 DEF CkbTransactionOf
<1>3. /\ script.swap = a.encodedSwap
      /\ name = "lockSwap" => script.initiator = a.initiator
  <2> HIDE DEF c
  <2>. QED  BY <1>1 DEF Other!CkbEscrow, Other!SigTimeLock
<1>4. tx.script = script /\ tx.witness = Other!NoWitness
  BY DEF Other!CkbTransaction
<1> HIDE DEF tx, script
<1>5. ~(tx.witness # Other!NoWitness)
  BY <1>4
<1>6. CASE name = "postSwapFromInitiator"
  <2>1. tx.script.swap.inChain = Other!CkbChain
    BY <1>3, <1>4, <1>6 DEF Other!CkbChain
  <2>2. p = [name |-> "postSwapFromInitiator", args |->
              [encodedSwap |-> tx.script.swap, initiator |-> tx.script.initiator,
               postingValue |-> <<tx.script.initiator, Other!PoolOfLpWallet>>]]
    BY <1>5, <2>1, Zenon DEF Other!CkbParse
  <2>. QED  BY <1>1, <1>2, <1>3, <1>4, <1>6, <2>2, NeededOf DEF Reads, c
<1>7. CASE name = "lockSwap"
  <2>1. tx.script.swap.inChain # Other!CkbChain
    BY <1>3, <1>4, <1>7 DEF Other!CkbChain
  <2>2. p = [name |-> "lockSwap", args |->
              [encodedSwap |-> tx.script.swap, initiator |-> tx.script.initiator]]
    BY <1>5, <2>1, Zenon DEF Other!CkbParse
  <2>. QED  BY <1>1, <1>2, <1>3, <1>4, <1>7, <2>2, NeededOf DEF Reads, c
<1>. QED  BY <1>6, <1>7

\* CKB reads an execution and a release from the cell that is spent, with the
\* words of the witness.
LEMMA CkbReadsSpent ==
  ASSUME NEW name \in {"executeSwap", "release"}, NEW a, NEW sender, NEW script,
         script = IF a.encodedSwap.inChain = "ckb" THEN posted[a.encodedSwap].script
                  ELSE locked[a.encodedSwap].script,
         script.swap = a.encodedSwap,
         name = "executeSwap" => a.encodedSwap.inChain = "ckb" /\ "initiator" \notin DOMAIN a,
         name = "release" => a.encodedSwap.inChain # "ckb" /\ script.initiator = a.initiator
  PROVE  Reads(Other!CkbParse(CkbTransactionOf(Call(name, a), sender)), Call(name, a), {})
<1> DEFINE c == Call(name, a)
           witness == Other!CkbWitness(c)
           tx == Other!CkbTransaction(script, witness)
           p == Other!CkbParse(tx)
<1>1. c.name = name /\ c.args = a
  BY DEF Call
<1>2. CkbTransactionOf(c, sender) = tx
  <2> HIDE DEF c
  <2>. QED  BY <1>1 DEF CkbTransactionOf
<1>3. /\ witness.head = "0x00" /\ witness.signature = <<a.r, a.yParityAndS>>
      /\ name = "executeSwap" => witness.tail = a.recipient
  <2> HIDE DEF c
  <2>. QED  BY <1>1 DEF Other!CkbWitness
<1>4. tx.script = script /\ tx.witness = witness
  BY DEF Other!CkbTransaction
<1> HIDE DEF witness
<1> HIDE DEF tx
<1>5. tx.witness # Other!NoWitness /\ tx.witness.head = "0x00"
  BY <1>3, <1>4 DEF Other!NoWitness
<1>6. tx.witness.signature[1] = a.r /\ tx.witness.signature[2] = a.yParityAndS
  BY <1>3, <1>4
<1>7. CASE name = "executeSwap"
  <2>1. tx.script.swap.inChain = Other!CkbChain
    BY <1>4, <1>7 DEF Other!CkbChain
  <2>2. p = [name |-> "executeSwap", args |->
              [encodedSwap |-> tx.script.swap, initiator |-> tx.script.initiator,
               r |-> tx.witness.signature[1], yParityAndS |-> tx.witness.signature[2],
               recipient |-> tx.witness.tail]]
    BY <1>5, <2>1, Zenon DEF Other!CkbParse
  <2>. QED  BY <1>1, <1>2, <1>3, <1>4, <1>6, <1>7, <2>2, NeededOf DEF Reads, c
<1>8. CASE name = "release"
  <2>1. tx.script.swap.inChain # Other!CkbChain
    BY <1>4, <1>8 DEF Other!CkbChain
  <2>2. p = [name |-> "release", args |->
              [encodedSwap |-> tx.script.swap, initiator |-> tx.script.initiator,
               r |-> tx.witness.signature[1], yParityAndS |-> tx.witness.signature[2]]]
    BY <1>5, <2>1, Zenon DEF Other!CkbParse
  <2>. QED  BY <1>1, <1>2, <1>3, <1>4, <1>6, <1>8, <2>2, NeededOf DEF Reads, c
<1>. QED  BY <1>7, <1>8

-----------------------------------------------------------------------------
\* The state of the chains, and the calls as the actions make them

\* Who may have posted a swap: the initiator that the initial chain keeps, or
\* anyone once the swap is over there and can be posted no more.
PostedBy(s, initiator) ==
  IF posted[s] # None THEN posted[s].initiator = initiator ELSE executed[s] # None

\* The cell of a swap on CKB is of that swap; a lock is for the initiator, and
\* names a recipient of its chain where it names one.
PostOK(s) == posted[s].script.swap = s

LockOK(s) ==
  /\ locked[s].script.swap = s /\ locked[s].script.initiator = locked[s].initiator
  /\ s.outChain \in LocksForRecipient => locked[s].recipient.form = FormOn(s.outChain)
  /\ PostedBy(s, locked[s].initiator)

\* The signature of a release that is known is the initiator's, over the
\* recipient that an execution will name.
Releaser(s) ==
  Recovered(Rejoined(released[s]),
            ContractReleaseDigest(s, ClipRecipient(released[s].recipient, s), testnet))

SwapOK(s) ==
  /\ posted[s] # None => PostOK(s)
  /\ locked[s] # None => LockOK(s)
  /\ released[s] # None /\ released[s].r # ZeroWord => PostedBy(s, Releaser(s))
  /\ executed[s] # "refused"

ChainInv ==
  /\ DOMAIN posted = Swaps /\ DOMAIN locked = Swaps
  /\ DOMAIN released = Swaps /\ DOMAIN executed = Swaps
  /\ \A s \in Swaps : SwapOK(s)

\* The parser of each chain.
LEMMA ParsesOn ==
  ASSUME NEW c, NEW sender
  PROVE  /\ Parses("solana", c, sender) = {Sol!SolanaParse(SolanaCall(c, sender))}
         /\ Parses("aptos", c, sender) =
              {Move!AptosParse(Move!Returned(Move!AptosCall(c), serialised)) :
                 serialised \in BOOLEAN}
         /\ Parses("sui", c, sender) =
              {Move!SuiParse(Move!MoveCallsFromTxResponse(Move!SuiCall(c)))}
         /\ Parses("starknet", c, sender) = {Other!StarknetParse(Other!StarknetCall(c))}
         /\ Parses("ckb", c, sender) = {Other!CkbParse(CkbTransactionOf(c, sender))}
         /\ \A chain : chain \notin NonEvm => Parses(chain, c, sender) = {c}
<1>1. /\ Parses("solana", c, sender) = {Sol!SolanaParse(SolanaCall(c, sender))}
      /\ Parses("sui", c, sender) =
              {Move!SuiParse(Move!MoveCallsFromTxResponse(Move!SuiCall(c)))}
      /\ Parses("starknet", c, sender) = {Other!StarknetParse(Other!StarknetCall(c))}
      /\ Parses("ckb", c, sender) = {Other!CkbParse(CkbTransactionOf(c, sender))}
  BY Zenon DEF Parses
<1>2. Parses("aptos", c, sender) =
              {Move!AptosParse(Move!Returned(Move!AptosCall(c), serialised)) :
                 serialised \in BOOLEAN}
  BY Zenon DEF Parses
<1>3. ASSUME NEW chain, chain \notin NonEvm
      PROVE  Parses(chain, c, sender) = {c}
  <2>1. /\ chain # "solana" /\ chain # "aptos" /\ chain # "sui" /\ chain # "starknet"
        /\ chain # "ckb"
    BY <1>3 DEF NonEvm
  <2>. QED  BY <2>1, Zenon DEF Parses
<1>. QED  BY <1>1, <1>2, <1>3

\* The arguments that a chain may misread.
MisreadOn(chain, name) ==
  IF \/ chain = "ckb" /\ name = "postSwapFromInitiator"
     \/ chain = "aptos" /\ name = "directRelease"
  THEN {"postingValue", "initiator"} ELSE {}

\* A call about a swap that a chain has, with all that the providers need.
WellMade(chain, c) ==
  /\ c = Call(c.name, c.args) /\ c.name \in SwapCalls \union {"postSwap"}
  /\ Needed(c.name) \subseteq DOMAIN c.args
  /\ c.name = "postSwap" => chain \notin NonEvm

ReadWell(chain, c, p) ==
  /\ WellMade(chain, c)
  /\ IF p = Other!NoTransaction THEN chain = "starknet" /\ c.name \notin Other!SELECTORS
     ELSE Reads(p, c, MisreadOn(chain, c.name))

LEMMA SwapCallsAreWellMade ==
  ASSUME NEW chain, NEW name \in SwapCalls, NEW a, Needed(name) \subseteq DOMAIN a
  PROVE  WellMade(chain, Call(name, a))
BY DEF WellMade, Call, SwapCalls

LEMMA ReadsAreReadWell ==
  ASSUME NEW chain, NEW name \in SwapCalls \union {"postSwap"}, NEW a, NEW p, NEW misread,
         Reads(p, Call(name, a), misread), misread \subseteq MisreadOn(chain, name),
         WellMade(chain, Call(name, a))
  PROVE  ReadWell(chain, Call(name, a), p)
<1>1. p.name = name /\ name # "none"
  BY DEF Reads, Call, SwapCalls
<1>2. p # Other!NoTransaction
  BY <1>1 DEF Other!NoTransaction
<1>3. Reads(p, Call(name, a), MisreadOn(chain, name))
  BY DEF Reads
<1>. QED  BY <1>2, <1>3 DEF ReadWell, Call

LEMMA AllReadIsReadWell ==
  ASSUME NEW chain, NEW name \in SwapCalls \union {"postSwap"}, NEW a, NEW p,
         Reads(p, Call(name, a), {}), WellMade(chain, Call(name, a))
  PROVE  ReadWell(chain, Call(name, a), p)
<1>1. PICK none : none = {}
  OBVIOUS
<1>2. Reads(p, Call(name, a), none) /\ none \subseteq MisreadOn(chain, name)
  BY <1>1
<1>. QED  BY <1>2, ReadsAreReadWell

\* A call on a chain other than CKB, whose transactions need no state to be read.
LEMMA PassedOn ==
  ASSUME NEW chain, chain # "ckb", NEW name \in SwapCalls \union {"postSwap"}, NEW a,
         NEW sender, NEW p \in Parses(chain, Call(name, a), sender),
         Needed(name) \subseteq DOMAIN a,
         name = "postSwap" => chain \notin NonEvm,
         name = "postSwapFromInitiator" =>
           a.postingValue = <<a.postingValue[1], a.postingValue[2]>>
  PROVE  ReadWell(chain, Call(name, a), p) /\ (chain \notin NonEvm => p = Call(name, a))
<1> DEFINE c == Call(name, a)
<1>1. WellMade(chain, c)
  BY DEF WellMade, Call
<1>2. CASE chain = "solana"
  <2>1. p = Sol!SolanaParse(SolanaCall(c, sender)) /\ name \in SwapCalls
    BY <1>2, ParsesOn DEF NonEvm
  <2>2. Reads(p, c, {})
    BY <2>1, SolanaReads
  <2>3. ReadWell(chain, c, p)
    BY <1>1, <2>2, AllReadIsReadWell
  <2>. QED  BY <1>2, <2>3 DEF NonEvm
<1>3. CASE chain = "aptos"
  <2>1. PICK serialised \in BOOLEAN :
          p = Move!AptosParse(Move!Returned(Move!AptosCall(c), serialised))
    BY <1>3, ParsesOn
  <2>2. name \in SwapCalls
    BY <1>3 DEF NonEvm
  <2> DEFINE misread == IF name = "directRelease" THEN {"initiator"} ELSE {}
  <2>3. Reads(p, c, misread)
    BY <2>1, <2>2, AptosReads
  <2>4. misread \subseteq MisreadOn(chain, name)
    BY <1>3 DEF MisreadOn
  <2> HIDE DEF misread
  <2>. QED  BY <1>3, <1>1, <2>3, <2>4, ReadsAreReadWell DEF NonEvm
<1>4. CASE chain = "sui"
  <2>1. p = Move!SuiParse(Move!MoveCallsFromTxResponse(Move!SuiCall(c))) /\ name \in SwapCalls
    BY <1>4, ParsesOn DEF NonEvm
  <2>2. Reads(p, c, {})
    BY <2>1, SuiReads
  <2>3. ReadWell(chain, c, p)
    BY <1>1, <2>2, AllReadIsReadWell
  <2>. QED  BY <1>4, <2>3 DEF NonEvm
<1>5. CASE chain = "starknet"
  <2>1. p = Other!StarknetParse(Other!StarknetCall(c)) /\ name \in SwapCalls
    BY <1>5, ParsesOn DEF NonEvm
  <2>2. IF name \in Other!SELECTORS THEN Reads(p, c, {}) ELSE p = Other!NoTransaction
    BY <2>1, StarknetReads
  <2>3. CASE name \in Other!SELECTORS
    BY <1>5, <1>1, <2>2, <2>3, AllReadIsReadWell DEF NonEvm
  <2>4. CASE name \notin Other!SELECTORS
    BY <1>5, <1>1, <2>2, <2>4 DEF NonEvm, ReadWell, Call
  <2>. QED  BY <2>3, <2>4
<1>6. CASE chain \notin NonEvm
  <2>1. Parses(chain, c, sender) = {c} /\ p \in Parses(chain, c, sender)
    BY <1>6, ParsesOn
  <2>2. p = c
    <3> HIDE DEF c
    <3>. QED  BY <2>1
  <2>3. Reads(p, c, {})
    BY <2>2 DEF Reads, Call
  <2>. QED  BY <1>1, <2>2, <2>3, AllReadIsReadWell
<1>. QED  BY <1>2, <1>3, <1>4, <1>5, <1>6 DEF NonEvm

\* The accounts of a transaction about a swap: no store of a swap but the one,
\* token accounts and balances of its token, balances of one pool or of fees.
Fits(x, store, token, pool) ==
  /\ x[1] \in {"posted_swap", "locked_swap"} => x = store
  /\ x[1] = "token account" => x[2][1] = token
  /\ x[1] = "balance_of_pool" =>
       x[2][1] \in {0, pool} /\ x[2][2] \in {token, Sol!HighValueToken}

\* The accounts that the instructions about a swap are made of.
LEMMA AccountsFit ==
  ASSUME NEW s, NEW token, NEW pool, NEW initiator
  PROVE  /\ Fits(Sol!PostedStore(s), Sol!PostedStore(s), token, pool)
         /\ Fits(Sol!LockedStore(s, initiator), Sol!LockedStore(s, initiator), token, pool)
         /\ Sol!PostedStore(s)[1] \in {"posted_swap", "locked_swap"}
         /\ Sol!LockedStore(s, initiator)[1] \in {"posted_swap", "locked_swap"}
         /\ \A store :
              /\ \A addr : /\ Fits(Sol!Account(addr), store, token, pool)
                           /\ Fits(Sol!Recipient(addr), store, token, pool)
                           /\ Fits(Sol!PoolOfAuthorized(addr), store, token, pool)
                           /\ Fits(Sol!TokenAccount(token, addr), store, token, pool)
              /\ Fits(Sol!Admin, store, token, pool)
              /\ Fits(Sol!SupportedTokens, store, token, pool)
              /\ Fits(Sol!ContractSigner, store, token, pool)
              /\ Fits(Sol!BalanceOfPool(0, token), store, token, pool)
              /\ Fits(Sol!BalanceOfPool(pool, token), store, token, pool)
              /\ Fits(Sol!BalanceOfPool(pool, Sol!HighValueToken), store, token, pool)
BY DEF Fits, Sol!PostedStore, Sol!LockedStore, Sol!Store, Sol!Account, Sol!Recipient,
       Sol!PoolOfAuthorized, Sol!TokenAccount, Sol!Admin, Sol!SupportedTokens,
       Sol!ContractSigner, Sol!BalanceOfPool

\* The calls of the actions, each read well on its chain.
LEMMA PostIsRead ==
  ASSUME NEW request, NEW pool, NEW chain, chain \notin NonEvm, NEW sender,
         NEW p \in Parses(chain, PostSwap(request, pool), sender)
  PROVE  ReadWell(chain, PostSwap(request, pool), p) /\ p = PostSwap(request, pool)
<1>1. PICK a : PostSwap(request, pool) = Call("postSwap", a)
               /\ {"encodedSwap", "postingValue"} \subseteq DOMAIN a
  BY DEF PostSwap, Call
<1>. QED  BY <1>1, PassedOn, NeededOf DEF NonEvm

LEMMA InitiatorsPostIsRead ==
  ASSUME NEW s, NEW initiator, NEW pool, NEW sender,
         NEW p \in Parses(s.inChain, PostSwapFromInitiator(s, initiator, pool), sender)
  PROVE  ReadWell(s.inChain, PostSwapFromInitiator(s, initiator, pool), p)
<1> DEFINE c == PostSwapFromInitiator(s, initiator, pool)
<1>1. PICK a : /\ c = Call("postSwapFromInitiator", a)
               /\ DOMAIN a = {"encodedSwap", "postingValue"}
               /\ a.encodedSwap = s /\ a.postingValue = <<a.postingValue[1], a.postingValue[2]>>
  BY DEF PostSwapFromInitiator, Call
<1> HIDE DEF c
<1>2. /\ Needed("postSwapFromInitiator") \subseteq DOMAIN a
      /\ WellMade(s.inChain, Call("postSwapFromInitiator", a))
  <2>1. Needed("postSwapFromInitiator") \subseteq DOMAIN a
    BY <1>1, NeededOf
  <2>. QED  BY <2>1, SwapCallsAreWellMade DEF SwapCalls
<1>3. CASE s.inChain = "ckb"
  <2>1. p = Other!CkbParse(CkbTransactionOf(c, sender))
    BY <1>3, ParsesOn DEF c
  <2>2. Reads(p, Call("postSwapFromInitiator", a), {"postingValue"})
    BY <1>1, <1>3, <2>1, CkbReadsMade
  <2>3. {"postingValue"} \subseteq MisreadOn(s.inChain, "postSwapFromInitiator")
    BY <1>3 DEF MisreadOn
  <2>. QED  BY <1>1, <1>3, <1>2, <2>2, <2>3, ReadsAreReadWell DEF c, SwapCalls, NonEvm
<1>4. CASE s.inChain # "ckb"
  <2>1. p \in Parses(s.inChain, Call("postSwapFromInitiator", a), sender)
    BY <1>1 DEF c
  <2>2. "postSwapFromInitiator" \in SwapCalls \union {"postSwap"}
    BY DEF SwapCalls
  <2>. QED  BY <1>1, <1>4, <1>2, <2>1, <2>2, PassedOn DEF c
<1>. QED  BY <1>3, <1>4

LEMMA BondAndCancelAreRead ==
  ASSUME NEW chain, chain # "ckb", NEW s, NEW pool, NEW sender,
         NEW c \in {BondSwap(s, pool), CancelSwap(s)},
         NEW p \in Parses(chain, c, sender)
  PROVE  ReadWell(chain, c, p)
<1>1. CASE c = BondSwap(s, pool)
  <2>1. PICK a : c = Call("bondSwap", a) /\ "encodedSwap" \in DOMAIN a
    BY <1>1 DEF BondSwap, Call
  <2>. QED  BY <2>1, PassedOn, NeededOf DEF SwapCalls
<1>2. CASE c = CancelSwap(s)
  <2>1. PICK a : c = Call("cancelSwap", a) /\ "encodedSwap" \in DOMAIN a
    BY <1>2 DEF CancelSwap, Call
  <2>. QED  BY <2>1, PassedOn, NeededOf DEF SwapCalls
<1>. QED  BY <1>1, <1>2

LEMMA UnlockIsRead ==
  ASSUME NEW chain, chain # "ckb", NEW request, NEW sender,
         NEW p \in Parses(chain, Unlock(request), sender)
  PROVE  ReadWell(chain, Unlock(request), p)
<1>1. PICK a : Unlock(request) = Call("unlock", a)
              /\ {"encodedSwap", "initiator"} \subseteq DOMAIN a
  BY DEF Unlock, Call
<1>. QED  BY <1>1, PassedOn, NeededOf DEF SwapCalls

LEMMA ExecutionIsRead ==
  ASSUME NEW release, NEW depositToPool, NEW sender, NEW s, release.swap = s,
         s.inChain = "ckb" => posted[s].script.swap = s,
         NEW p \in Parses(s.inChain, ExecuteSwap(release, depositToPool), sender)
  PROVE  ReadWell(s.inChain, ExecuteSwap(release, depositToPool), p)
<1> DEFINE c == ExecuteSwap(release, depositToPool)
<1>1. PICK a : /\ c = Call("executeSwap", a) /\ a.encodedSwap = s
               /\ DOMAIN a = {"encodedSwap", "r", "yParityAndS", "recipient", "depositToPool"}
  BY DEF ExecuteSwap, Call
<1> HIDE DEF c
<1>2. /\ Needed("executeSwap") \subseteq DOMAIN a
      /\ WellMade(s.inChain, Call("executeSwap", a))
  <2>1. Needed("executeSwap") \subseteq DOMAIN a
    BY <1>1, NeededOf
  <2>. QED  BY <2>1, SwapCallsAreWellMade DEF SwapCalls
<1>3. CASE s.inChain = "ckb"
  <2>1. p = Other!CkbParse(CkbTransactionOf(c, sender))
    BY <1>3, ParsesOn DEF c
  <2>2. Reads(p, Call("executeSwap", a), {})
    BY <1>1, <1>3, <2>1, CkbReadsSpent
  <2>. QED  BY <1>1, <1>3, <1>2, <2>2, AllReadIsReadWell DEF c, SwapCalls, NonEvm
<1>4. CASE s.inChain # "ckb"
  <2>1. p \in Parses(s.inChain, Call("executeSwap", a), sender)
    BY <1>1 DEF c
  <2>2. "executeSwap" \in SwapCalls \union {"postSwap"}
    BY DEF SwapCalls
  <2>. QED  BY <1>1, <1>4, <1>2, <2>1, <2>2, PassedOn DEF c
<1>. QED  BY <1>3, <1>4

LEMMA LockIsRead ==
  ASSUME NEW s, ~(s.inChain = "ckb" /\ s.outChain = "ckb"), NEW initiator, NEW recipient,
         NEW sender, NEW p \in Parses(s.outChain, LockSwap(s, initiator, recipient), sender)
  PROVE  ReadWell(s.outChain, LockSwap(s, initiator, recipient), p)
<1> DEFINE c == LockSwap(s, initiator, recipient)
<1>1. PICK a : /\ c = Call("lockSwap", a) /\ a.encodedSwap = s
               /\ DOMAIN a = {"encodedSwap", "initiator", "recipient"}
  BY DEF LockSwap, Call
<1> HIDE DEF c
<1>2. /\ Needed("lockSwap") \subseteq DOMAIN a
      /\ WellMade(s.outChain, Call("lockSwap", a))
  <2>1. Needed("lockSwap") \subseteq DOMAIN a
    BY <1>1, NeededOf
  <2>. QED  BY <2>1, SwapCallsAreWellMade DEF SwapCalls
<1>3. CASE s.outChain = "ckb"
  <2>1. p = Other!CkbParse(CkbTransactionOf(c, sender))
    BY <1>3, ParsesOn DEF c
  <2>2. Reads(p, Call("lockSwap", a), {})
    BY <1>1, <1>3, <2>1, CkbReadsMade
  <2>. QED  BY <1>1, <1>3, <1>2, <2>2, AllReadIsReadWell DEF c, SwapCalls, NonEvm
<1>4. CASE s.outChain # "ckb"
  <2>1. p \in Parses(s.outChain, Call("lockSwap", a), sender)
    BY <1>1 DEF c
  <2>2. "lockSwap" \in SwapCalls \union {"postSwap"}
    BY DEF SwapCalls
  <2>. QED  BY <1>1, <1>4, <1>2, <2>1, <2>2, PassedOn DEF c
<1>. QED  BY <1>3, <1>4

LEMMA ReleaseIsRead ==
  ASSUME NEW release, NEW s, release.swap = s, ~(s.inChain = "ckb" /\ s.outChain = "ckb"),
         locked[s].script.swap = s, locked[s].script.initiator = release.initiator,
         NEW sender, NEW p \in Parses(s.outChain, Release(release), sender)
  PROVE  /\ ReadWell(s.outChain, Release(release), p)
         /\ s.outChain \notin NonEvm => p = Release(release)
<1> DEFINE c == Release(release)
<1>1. PICK a : /\ c = Call("release", a) /\ a.encodedSwap = s /\ a.initiator = release.initiator
               /\ DOMAIN a = {"encodedSwap", "r", "yParityAndS", "initiator", "recipient"}
  BY DEF Release, Call
<1> HIDE DEF c
<1>2. /\ Needed("release") \subseteq DOMAIN a
      /\ WellMade(s.outChain, Call("release", a))
  <2>1. Needed("release") \subseteq DOMAIN a
    BY <1>1, NeededOf
  <2>. QED  BY <2>1, SwapCallsAreWellMade DEF SwapCalls
<1>3. CASE s.outChain = "ckb"
  <2>1. p = Other!CkbParse(CkbTransactionOf(c, sender))
    BY <1>3, ParsesOn DEF c
  <2>2. Reads(p, Call("release", a), {})
    BY <1>1, <1>3, <2>1, CkbReadsSpent
  <2>. QED  BY <1>1, <1>3, <1>2, <2>2, AllReadIsReadWell DEF c, SwapCalls, NonEvm
<1>4. CASE s.outChain # "ckb"
  <2>1. p \in Parses(s.outChain, Call("release", a), sender)
    BY <1>1 DEF c
  <2>2. "release" \in SwapCalls \union {"postSwap"}
    BY DEF SwapCalls
  <2>. QED  BY <1>1, <1>4, <1>2, <2>1, <2>2, PassedOn DEF c
<1>. QED  BY <1>3, <1>4

LEMMA DirectReleaseIsRead ==
  ASSUME NEW chain, chain # "ckb", NEW release, NEW expired, NEW sender,
         NEW p \in Parses(chain, DirectRelease(release, expired), sender)
  PROVE  ReadWell(chain, DirectRelease(release, expired), p)
<1>1. PICK a : /\ DirectRelease(release, expired) = Call("directRelease", a)
               /\ DOMAIN a = {"encodedSwap", "r", "yParityAndS", "initiator", "recipient"}
  BY DEF DirectRelease, Call
<1>. QED  BY <1>1, PassedOn, NeededOf DEF SwapCalls

-----------------------------------------------------------------------------
\* What a transaction of Solana names, and a call for a pool

\* The accounts of the instructions, method by method.
LEMMA DepositAccounts ==
  ASSUME NEW a, NEW sender
  PROVE  LET s == a.encodedSwap
             At(name) == Sol!SolanaDepositCall(Call(name, a), sender, "depositor").accounts
             escrow == {Sol!TokenAccount(s.inToken, Sol!ContractSigner), Sol!ContractSigner,
                        Sol!PostedStore(s)}
         IN  /\ At("postSwapFromInitiator") = escrow \union
                  {Sol!SupportedTokens, Sol!Account(sender),
                   Sol!TokenAccount(s.inToken, Sol!Account(sender))}
             /\ At("bondSwap") =
                  {Sol!PoolOfAuthorized(sender), Sol!PostedStore(s), Sol!Account(sender)}
             /\ At("cancelSwap") = escrow \union
                  {Sol!Account("depositor"),
                   Sol!TokenAccount(s.inToken, Sol!Account("depositor"))}
BY DEF Sol!SolanaDepositCall, Call, Sol!Instruction

LEMMA PoolSwapAccounts ==
  ASSUME NEW a, NEW sender
  PROVE  LET s == a.encodedSwap
             pool == PoolOf[sender]
             At(name) == Sol!SolanaPoolSwapCall(Call(name, a), sender, PoolOf).accounts
         IN  /\ At("executeSwap") = {Sol!BalanceOfPool(pool, s.inToken), Sol!PostedStore(s)}
             /\ At("lockSwap") =
                  {Sol!SupportedTokens, Sol!PoolOfAuthorized(sender),
                   Sol!BalanceOfPool(pool, s.outToken),
                   Sol!BalanceOfPool(pool, Sol!HighValueToken),
                   Sol!LockedStore(s, a.initiator), Sol!Account(sender)}
             /\ At("unlock") =
                  {Sol!BalanceOfPool(pool, s.outToken),
                   Sol!BalanceOfPool(pool, Sol!HighValueToken), Sol!LockedStore(s, a.initiator)}
BY DEF Sol!SolanaPoolSwapCall, Call, Sol!Instruction

LEMMA ReleaseAccounts ==
  ASSUME NEW a, NEW sender
  PROVE  LET s == a.encodedSwap
             pool == PoolOf[sender]
             At(name) == Sol!SolanaReleaseCall(Call(name, a), sender, PoolOf).accounts
             paid == {Sol!TokenAccount(s.outToken, Sol!ContractSigner), Sol!ContractSigner,
                      Sol!Admin, Sol!BalanceOfPool(0, s.outToken),
                      Sol!LockedStore(s, a.initiator), Sol!Account(sender),
                      Sol!Recipient(a.recipient),
                      Sol!TokenAccount(s.outToken, Sol!Recipient(a.recipient))}
         IN  /\ At("release") = paid
             /\ At("directRelease") = paid \union
                  {Sol!SupportedTokens, Sol!PoolOfAuthorized(sender),
                   Sol!BalanceOfPool(pool, s.outToken),
                   Sol!BalanceOfPool(pool, Sol!HighValueToken)}
BY DEF Sol!SolanaReleaseCall, Call, Sol!Instruction

\* The store and the token of the swap that a call is about.
StoreOf(name, a) ==
  IF name \in Move!SwapMethods THEN Sol!PostedStore(a.encodedSwap)
  ELSE Sol!LockedStore(a.encodedSwap, a.initiator)
TokenOf(name, a) ==
  IF name \in Move!SwapMethods THEN a.encodedSwap.inToken ELSE a.encodedSwap.outToken

\* The instruction of a call about a swap names the store of that swap, and no
\* other store, token or pool.
LEMMA StoresOfCall ==
  ASSUME NEW name \in SwapCalls, NEW a, NEW sender,
         NEW accounts, accounts = SolanaCall(Call(name, a), sender).accounts
  PROVE  /\ StoreOf(name, a) \in accounts
         /\ \A x \in accounts : Fits(x, StoreOf(name, a), TokenOf(name, a), PoolOf[sender])
<1> DEFINE s == a.encodedSwap
           pool == PoolOf[sender]
<1>1. CASE name \in {"postSwapFromInitiator", "bondSwap", "cancelSwap"}
  <2>1. accounts = Sol!SolanaDepositCall(Call(name, a), sender, "depositor").accounts
    BY <1>1, SolanaDispatch
  <2>2. TokenOf(name, a) = s.inToken /\ StoreOf(name, a) = Sol!PostedStore(s)
    BY <1>1 DEF Move!SwapMethods, StoreOf, TokenOf
  <2>3. accounts \subseteq
          {Sol!TokenAccount(s.inToken, Sol!ContractSigner), Sol!ContractSigner,
           Sol!PostedStore(s), Sol!SupportedTokens, Sol!Account(sender),
           Sol!TokenAccount(s.inToken, Sol!Account(sender)), Sol!PoolOfAuthorized(sender),
           Sol!Account("depositor"), Sol!TokenAccount(s.inToken, Sol!Account("depositor"))}
        /\ Sol!PostedStore(s) \in accounts
    BY <1>1, <2>1, DepositAccounts
  <2> HIDE DEF s
  <2>. QED  BY <2>2, <2>3, AccountsFit
<1>2. CASE name \in {"executeSwap", "lockSwap", "unlock"}
  <2>1. accounts = Sol!SolanaPoolSwapCall(Call(name, a), sender, PoolOf).accounts
    BY <1>2, SolanaDispatch
  <2>2. TokenOf(name, a) = (IF name = "executeSwap" THEN s.inToken ELSE s.outToken)
        /\ StoreOf(name, a) = IF name = "executeSwap" THEN Sol!PostedStore(s)
                              ELSE Sol!LockedStore(s, a.initiator)
    BY <1>2 DEF Move!SwapMethods, StoreOf, TokenOf
  <2>3. accounts \subseteq
          {Sol!BalanceOfPool(pool, TokenOf(name, a)), Sol!SupportedTokens,
           Sol!PoolOfAuthorized(sender), Sol!BalanceOfPool(pool, Sol!HighValueToken),
           StoreOf(name, a), Sol!Account(sender)}
        /\ StoreOf(name, a) \in accounts
    BY <1>2, <2>1, <2>2, PoolSwapAccounts
  <2> DEFINE Fit(x) == Fits(x, StoreOf(name, a), TokenOf(name, a), pool)
  <2>4. /\ Fit(Sol!BalanceOfPool(pool, TokenOf(name, a))) /\ Fit(Sol!SupportedTokens)
        /\ Fit(Sol!PoolOfAuthorized(sender)) /\ Fit(Sol!Account(sender))
        /\ Fit(Sol!BalanceOfPool(pool, Sol!HighValueToken))
    BY AccountsFit
  <2>5. Fit(StoreOf(name, a))
    BY <2>2, AccountsFit
  <2> HIDE DEF Fit
  <2>6. \A x \in accounts : Fit(x)
    BY <2>3, <2>4, <2>5
  <2>. QED  BY <2>3, <2>6 DEF Fit
<1>3. CASE name \in {"release", "directRelease"}
  <2>1. accounts = Sol!SolanaReleaseCall(Call(name, a), sender, PoolOf).accounts
    BY <1>3, SolanaDispatch
  <2>2. TokenOf(name, a) = s.outToken /\ StoreOf(name, a) = Sol!LockedStore(s, a.initiator)
    BY <1>3 DEF Move!SwapMethods, StoreOf, TokenOf
  <2>3. accounts \subseteq
          {Sol!TokenAccount(s.outToken, Sol!ContractSigner), Sol!ContractSigner,
           Sol!Admin, Sol!BalanceOfPool(0, s.outToken),
           Sol!LockedStore(s, a.initiator), Sol!Account(sender), Sol!Recipient(a.recipient),
           Sol!TokenAccount(s.outToken, Sol!Recipient(a.recipient)),
           Sol!SupportedTokens, Sol!PoolOfAuthorized(sender),
           Sol!BalanceOfPool(pool, s.outToken), Sol!BalanceOfPool(pool, Sol!HighValueToken)}
        /\ Sol!LockedStore(s, a.initiator) \in accounts
    BY <1>3, <2>1, ReleaseAccounts
  <2> DEFINE Fit(x) == Fits(x, StoreOf(name, a), TokenOf(name, a), pool)
             recipient == Sol!Recipient(a.recipient)
  <2>4. /\ Fit(Sol!TokenAccount(s.outToken, Sol!ContractSigner)) /\ Fit(Sol!ContractSigner)
        /\ Fit(Sol!Admin) /\ Fit(Sol!BalanceOfPool(0, s.outToken))
        /\ Fit(Sol!Account(sender)) /\ Fit(recipient)
        /\ Fit(Sol!TokenAccount(s.outToken, recipient))
    BY <2>2, AccountsFit
  <2>5. /\ Fit(Sol!SupportedTokens) /\ Fit(Sol!PoolOfAuthorized(sender))
        /\ Fit(Sol!BalanceOfPool(pool, s.outToken))
        /\ Fit(Sol!BalanceOfPool(pool, Sol!HighValueToken))
        /\ Fit(Sol!LockedStore(s, a.initiator))
    BY <2>2, AccountsFit
  <2> HIDE DEF Fit
  <2>6. \A x \in accounts : Fit(x)
    BY <2>3, <2>4, <2>5
  <2>. QED  BY <2>2, <2>3, <2>6 DEF Fit
<1>. QED  BY <1>1, <1>2, <1>3 DEF SwapCalls

\* What the providers are told of a swap, and what a call names.
SentWell == ReadAsSent /\ CallsNameTheirStores

\* So it does, too, of the swap that is read from it.
LEMMA MadeNamesItsStores ==
  ASSUME NEW c, NEW sender, NEW p, Made("solana", c, sender, p), ReadWell("solana", c, p)
  PROVE  StoresOfTheSwap'
<1> DEFINE a == p.args
           accounts == SolanaCall(c, sender).accounts
<1>1. /\ last'.chain = "solana" /\ last'.call = c /\ last'.sender = sender /\ last'.parsed = p
  BY DEF Made
<1>2. /\ c = Call(c.name, c.args) /\ c.name \in SwapCalls /\ Needed(c.name) \subseteq DOMAIN c.args
      /\ Reads(p, c, {})
  <2>1. c.name \in SwapCalls /\ c = Call(c.name, c.args) /\ Needed(c.name) \subseteq DOMAIN c.args
    BY DEF ReadWell, WellMade, NonEvm
  <2>2. MisreadOn("solana", c.name) = {}
    BY DEF MisreadOn
  <2>3. Reads(p, c, MisreadOn("solana", c.name))
    BY DEF ReadWell
  <2>. QED  BY <2>1, <2>2, <2>3
<1>3. a.encodedSwap = c.args.encodedSwap
      /\ (c.name \notin Move!SwapMethods => a.initiator = c.args.initiator)
  <2>1. /\ "encodedSwap" \in Needed(c.name)
        /\ c.name \notin Move!SwapMethods => "initiator" \in Needed(c.name)
    BY <1>2, NeededOf DEF SwapCalls, Move!SwapMethods
  <2>. QED  BY <1>2, <2>1 DEF Reads
<1>4. StoreOf(c.name, a) = StoreOf(c.name, c.args) /\ TokenOf(c.name, a) = TokenOf(c.name, c.args)
  BY <1>3 DEF StoreOf, TokenOf
<1>5. /\ StoreOf(c.name, a) \in accounts
      /\ \A x \in accounts : Fits(x, StoreOf(c.name, a), TokenOf(c.name, a), PoolOf[sender])
  BY <1>2, <1>4, StoresOfCall
<1>6. StoreOf(c.name, a)[1] \in {"posted_swap", "locked_swap"}
  BY AccountsFit DEF StoreOf
<1> HIDE DEF a, accounts
<1>7. /\ {x \in accounts : x[1] \in {"posted_swap", "locked_swap"}} = {StoreOf(c.name, a)}
      /\ \A x \in accounts :
           /\ x[1] = "token account" => x[2][1] = TokenOf(c.name, a)
           /\ x[1] = "balance_of_pool" =>
                /\ x[2][1] \in {0, PoolOf[sender]}
                /\ x[2][2] \in {TokenOf(c.name, a), Sol!HighValueToken}
  BY <1>5, <1>6 DEF Fits
<1>. QED  BY <1>1, <1>7 DEF StoresOfTheSwap, StoreOf, TokenOf, a, accounts

\* Whatever is made and read well is as ReadAsSent and CallsNameTheirStores ask.
LEMMA MadeIsSentWell ==
  ASSUME NEW chain, NEW c, NEW sender, NEW p, Made(chain, c, sender, p),
         ReadWell(chain, c, p)
  PROVE  SentWell'
<1>1. ReadAsSent'
  BY DEF Made, ReadWell, Reads, MisreadOn, ReadAsSent, Misread
<1>2. StoresOfTheSwap'
  <2>1. CASE chain = "solana"
    BY <2>1, MadeNamesItsStores
  <2>2. CASE chain # "solana"
    BY <2>2 DEF Made, StoresOfTheSwap
  <2>. QED  BY <2>1, <2>2
<1>3. PoolCallAsAsked'
  BY DEF Made, ReadWell, WellMade, SwapCalls, PoolCallAsAsked
<1>. QED  BY <1>1, <1>2, <1>3 DEF SentWell, CallsNameTheirStores

\* A step that makes no call, or none but the last.
LEMMA NothingSent ==
  /\ last = NoCall => SentWell
  /\ last' = NoCall => SentWell'
<1>1. NoCall.chain # "solana"
  BY DEF NoCall
<1>2. last = NoCall => ReadAsSent /\ StoresOfTheSwap /\ PoolCallAsAsked
  BY <1>1 DEF ReadAsSent, StoresOfTheSwap, PoolCallAsAsked
<1>3. last' = NoCall => ReadAsSent' /\ StoresOfTheSwap' /\ PoolCallAsAsked'
  BY <1>1 DEF ReadAsSent, StoresOfTheSwap, PoolCallAsAsked
<1>. QED  BY <1>2, <1>3 DEF SentWell, CallsNameTheirStores

LEMMA SentWellOfSame == SentWell /\ last' = last => SentWell'
<1> SUFFICES ASSUME SentWell, last' = last
             PROVE  SentWell'
  OBVIOUS
<1>1. ReadAsSent'
  BY DEF SentWell, ReadAsSent, Misread
<1>2. StoresOfTheSwap'
  BY Zenon DEF SentWell, CallsNameTheirStores, StoresOfTheSwap
<1>3. PoolCallAsAsked'
  BY Zenon DEF SentWell, CallsNameTheirStores, PoolCallAsAsked
<1>. QED  BY <1>1, <1>2, <1>3 DEF SentWell, CallsNameTheirStores

\* The transactions that move the tokens of a pool, or fees.
LEMMA SolanaPoolData ==
  ASSUME NEW a, NEW sender
  PROVE  LET At(name) == SolanaCall(Call(name, a), sender)
         IN  /\ \A name \in {"deposit", "withdraw"} :
                  /\ At(name).data[1].value = a.poolTokenIndex[1]
                  /\ At(name).data[2].value = a.amount
                  /\ Sol!BalanceOfPool(a.poolTokenIndex[2], a.poolTokenIndex[1])
                       \in At(name).accounts
             /\ LET i == At("withdrawServiceFee")
                IN  /\ i.data[1].value = a.tokenIndex /\ i.data[2].value = a.amount
                    /\ Sol!BalanceOfPool(a.poolIndex, a.tokenIndex) \in i.accounts
<1> DEFINE At(name) == Sol!SolanaPoolCall(Call(name, a), sender, PoolOf)
<1>1. \A name \in {"deposit", "withdraw"} :
        /\ At(name).data = <<Sol!Word(1, a.poolTokenIndex[1]), Sol!Word(8, a.amount)>>
        /\ Sol!BalanceOfPool(a.poolTokenIndex[2], a.poolTokenIndex[1]) \in At(name).accounts
  BY DEF Sol!SolanaPoolCall, Call, Sol!Instruction
<1>2. LET i == At("withdrawServiceFee")
      IN  /\ i.data = <<Sol!Word(1, a.tokenIndex), Sol!Word(8, a.amount),
                        Sol!Word(8, a.poolIndex)>>
          /\ Sol!BalanceOfPool(a.poolIndex, a.tokenIndex) \in i.accounts
  BY DEF Sol!SolanaPoolCall, Call, Sol!Instruction
<1>3. \A name \in {"deposit", "withdraw", "withdrawServiceFee"} :
        SolanaCall(Call(name, a), sender) = At(name)
  BY SolanaDispatch
<1> HIDE DEF At
<1>. QED  BY <1>1, <1>2, <1>3 DEF Sol!Word

PoolMoves == {"depositAndRegister", "deposit", "withdraw", "withdrawServiceFee"}

\* The calls of Aptos and Sui that move the tokens of a pool, or fees.
LEMMA MovePoolData ==
  ASSUME NEW a, NEW name \in PoolMoves
  PROVE  LET fee == name = "withdrawServiceFee"
             types == <<IF fee THEN a.tokenIndex ELSE a.poolTokenIndex[1]>>
             pool == IF fee THEN a.poolIndex ELSE a.poolTokenIndex[2]
             aptos == Move!AptosCall(Call(name, a))
             sui == Move!SuiCall(Call(name, a))
             at == IF fee THEN 2 ELSE 1
         IN  /\ aptos.types = types /\ aptos.args[1] = a.amount /\ aptos.args[2] = pool
             /\ sui.types = types /\ sui.args[at] = a.amount /\ sui.args[at + 1] = pool
<1> DEFINE c == Call(name, a)
<1>1. /\ Move!AptosCall(c) =
           Move!Payload(Move!AptosModule(name), name, Move!CoinTypes(c),
                        Move!AptosPoolArguments(c))
      /\ Move!SuiCall(c) =
           Move!Payload(Move!SuiModule(name), name, Move!CoinTypes(c),
                        Move!SuiPoolArguments(c))
  <2>1. ~Move!IsForSwap(c) /\ c.name = name
    BY DEF Move!IsForSwap, Move!SwapMethods, PoolMoves, Call
  <2> HIDE DEF c
  <2>. QED  BY <2>1, Zenon DEF Move!AptosCall, Move!SuiCall
<1>2. CASE name = "withdrawServiceFee"
  <2>1. /\ Move!CoinTypes(c) = <<a.tokenIndex>>
        /\ Move!AptosPoolArguments(c) = <<a.amount, a.poolIndex>>
        /\ Move!SuiPoolArguments(c) = <<Move!AdminCap, a.amount, a.poolIndex, Move!StoreG>>
    BY <1>2, Zenon DEF Move!CoinTypes, Move!AptosPoolArguments, Move!SuiPoolArguments, Call
  <2> HIDE DEF c
  <2>. QED  BY <1>1, <1>2, <2>1 DEF Move!Payload, c
<1>3. CASE name \in {"depositAndRegister", "deposit", "withdraw"}
  <2>1. /\ Move!CoinTypes(c) = <<a.poolTokenIndex[1]>>
        /\ Move!AptosPoolArguments(c) = <<a.amount, a.poolTokenIndex[2]>>
        /\ \/ Move!SuiPoolArguments(c) = <<a.amount, a.poolTokenIndex[2], Move!StoreG>>
           \/ Move!SuiPoolArguments(c) =
                <<a.amount, a.poolTokenIndex[2],
                  Move!Coins(a.poolTokenIndex[1], a.amount), Move!StoreG>>
    BY <1>3, Zenon DEF Move!CoinTypes, Move!AptosPoolArguments, Move!SuiPoolArguments, Call
  <2> HIDE DEF c
  <2>. QED  BY <1>1, <1>3, <2>1 DEF Move!Payload, c
<1>. QED  BY <1>2, <1>3 DEF PoolMoves

LEMMA PoolCallIsSentWell ==
  ASSUME NEW chain \in {"solana", "aptos", "sui"}, NEW p \in Providers,
         NEW call \in PoolCalls(p), CallForPool(chain, call, p)
  PROVE  SentWell'
<1>1. /\ last'.chain = chain /\ last'.call = call
      /\ last'.parsed = CASE chain = "solana" -> SolanaCall(call, p)
                          [] chain = "aptos" -> Move!AptosCall(call)
                          [] chain = "sui" -> Move!SuiCall(call)
  BY DEF CallForPool, Made
<1>2. /\ chain = "solana" => last'.parsed = SolanaCall(call, p)
      /\ chain = "aptos" => last'.parsed = Move!AptosCall(call)
      /\ chain = "sui" => last'.parsed = Move!SuiCall(call)
  BY <1>1, Zenon
<1>3. PICK name, a : call = Call(name, a)
  <2> DEFINE tokens == {s.inToken : s \in Swaps}
             moves == {PoolDeposit(name, token, amount, PoolOf[p]) :
                         name \in {"depositAndRegister", "deposit", "withdraw"},
                         token \in tokens, amount \in Amounts}
             owners == {Call(name, [addr |-> p]) :
               name \in {"addAuthorizedAddr", "removeAuthorizedAddr", "transferPoolOwner"}}
             fees == {Call("withdrawServiceFee",
                           [tokenIndex |-> token, amount |-> amount, poolIndex |-> PoolOf[p]]) :
                        token \in tokens, amount \in Amounts}
  <2>1. call \in moves \/ call \in owners \/ call \in fees
    <3>1. PoolCalls(p) = moves \union owners \union fees
      BY DEF PoolCalls
    <3> HIDE DEF moves, owners, fees
    <3>. QED  BY <3>1
  <2>2. ASSUME call \in moves
        PROVE  \E name, a : call = Call(name, a)
    <3>1. PICK name \in {"depositAndRegister", "deposit", "withdraw"}, token \in tokens,
               amount \in Amounts : call = PoolDeposit(name, token, amount, PoolOf[p])
      BY <2>2
    <3>. QED  BY <3>1, Zenon DEF PoolDeposit
  <2>3. ASSUME call \in owners
        PROVE  \E name, a : call = Call(name, a)
    BY <2>3, Zenon
  <2>4. ASSUME call \in fees
        PROVE  \E name, a : call = Call(name, a)
    <3>1. PICK token \in tokens, amount \in Amounts :
               call = Call("withdrawServiceFee",
                 [tokenIndex |-> token, amount |-> amount, poolIndex |-> PoolOf[p]])
      BY <2>4
    <3>. QED  BY <3>1, Zenon
  <2> HIDE DEF moves, owners, fees
  <2>. QED  BY <2>1, <2>2, <2>3, <2>4
<1>4. call.name = name /\ call.args = a /\ name \in ForPool
  BY <1>3 DEF Call, ForPool
<1>5. ReadAsSent' /\ StoresOfTheSwap'
  BY <1>1, <1>4 DEF ReadAsSent, StoresOfTheSwap
<1>6. PoolCallAsAsked'
  <2>1. CASE name \in PoolMoves /\ chain = "solana"
    BY <1>1, <1>2, <1>3, <1>4, <2>1, SolanaPoolData DEF PoolCallAsAsked, PoolMoves
  <2>2. CASE name \in PoolMoves /\ chain # "solana"
    BY <1>1, <1>2, <1>3, <1>4, <2>2, MovePoolData DEF PoolCallAsAsked
  <2>3. CASE name \notin PoolMoves
    BY <1>1, <1>4, <2>3 DEF PoolCallAsAsked, PoolMoves
  <2>. QED  BY <2>1, <2>2, <2>3
<1>. QED  BY <1>5, <1>6 DEF SentWell, CallsNameTheirStores

-----------------------------------------------------------------------------
\* The steps

LEMMA ChainInvInit == Init => ChainInv /\ SentWell
<1>1. Init => ChainInv
  BY NoneAssumption DEF Init, ChainInv, SwapOK
<1>2. last = NoCall => SentWell
  BY NothingSent
<1>. QED  BY <1>1, <1>2 DEF Init

\* A swap that a step does not touch.
LEMMA UntouchedIsOK ==
  ASSUME NEW x, SwapOK(x), posted'[x] = posted[x], locked'[x] = locked[x],
         released'[x] = released[x], executed'[x] = executed[x], testnet' = testnet
  PROVE  SwapOK(x)'
BY DEF SwapOK, PostOK, LockOK, PostedBy, Releaser

\* A step that touches one swap only.
LEMMA OneSwapIsTouched ==
  ASSUME ChainInv, NEW s \in Swaps, testnet' = testnet,
         DOMAIN posted' = Swaps, DOMAIN locked' = Swaps,
         DOMAIN released' = Swaps, DOMAIN executed' = Swaps,
         \A x \in Swaps : x # s =>
           /\ posted'[x] = posted[x] /\ locked'[x] = locked[x]
           /\ released'[x] = released[x] /\ executed'[x] = executed[x],
         SwapOK(s)'
  PROVE  ChainInv'
<1>1. ASSUME NEW x \in Swaps
      PROVE  SwapOK(x)'
  BY <1>1, UntouchedIsOK DEF ChainInv
<1>. QED  BY <1>1 DEF ChainInv

LEMMA NothingIsTouched ==
  ASSUME ChainInv, UNCHANGED chainVars, testnet' = testnet
  PROVE  ChainInv'
BY UntouchedIsOK DEF ChainInv, chainVars

\* Nothing is locked or released of a swap that can still be posted.
LEMMA FreshSwap ==
  ASSUME NEW s, SwapOK(s), posted[s] = None, executed[s] = None
  PROVE  locked[s] = None /\ (released[s] = None \/ released[s].r = ZeroWord)
BY DEF SwapOK, LockOK, PostedBy

\* The actions, each of which keeps the invariant.
LEMMA PostKeeps ==
  ASSUME ChainInv, NEW request, request.swap \in Swaps, NEW p, Post(request, p)
  PROVE  ChainInv' /\ SentWell'
<1> DEFINE s == request.swap
           evm == s.inChain \notin NonEvm
           call == IF evm THEN PostSwap(request, PoolOf[p])
                   ELSE PostSwapFromInitiator(s, request.initiator, PoolOf[p])
           sender == IF evm THEN p ELSE "depositor"
<1>1. /\ posted[s] = None /\ executed[s] = None
      /\ UNCHANGED <<signingVars, locked, released, executed>>
  BY DEF Post
<1>2. PICK parsed \in Parses(s.inChain, call, sender) :
        /\ \/ posted' = posted
           \/ posted' = [posted EXCEPT ![s] =
                [initiator |-> parsed.args.postingValue[1], pool |-> parsed.args.postingValue[2],
                 script |-> Other!SigTimeLock(s, parsed.args.postingValue[1], LpWallet, sender)]]
        /\ Made(s.inChain, call, sender, parsed)
  BY DEF Post
<1>3. ReadWell(s.inChain, call, parsed)
  <2>1. CASE evm
    BY <2>1, <1>2, PostIsRead
  <2>2. CASE ~evm
    BY <2>2, <1>2, InitiatorsPostIsRead
  <2>. QED  BY <2>1, <2>2
<1>4. SentWell'
  <2> HIDE DEF call, sender, s
  <2>. QED  BY <1>2, <1>3, MadeIsSentWell
<1> HIDE DEF call, sender
<1>5. SwapOK(s)'
  <2>1. posted'[s] = posted[s] \/ posted'[s].script.swap = s
    BY <1>2 DEF ChainInv, Other!SigTimeLock
  <2>2. SwapOK(s) /\ locked' = locked /\ released' = released /\ executed' = executed
    BY <1>1 DEF ChainInv
  <2>3. locked[s] = None /\ (released[s] = None \/ released[s].r = ZeroWord)
    BY <1>1, <2>2, FreshSwap
  <2> HIDE DEF s
  <2>. QED  BY <2>1, <2>2, <2>3 DEF SwapOK, PostOK
<1>6. ChainInv'
  <2>1. /\ DOMAIN posted' = Swaps /\ DOMAIN locked' = Swaps
        /\ DOMAIN released' = Swaps /\ DOMAIN executed' = Swaps
        /\ \A x \in Swaps : x # s =>
             /\ posted'[x] = posted[x] /\ locked'[x] = locked[x]
             /\ released'[x] = released[x] /\ executed'[x] = executed[x]
    BY <1>1, <1>2 DEF ChainInv
  <2>2. testnet' = testnet
    BY <1>1 DEF signingVars
  <2> HIDE DEF s
  <2>. QED  BY <2>1, <2>2, <1>5, OneSwapIsTouched DEF s
<1>. QED  BY <1>4, <1>6

LEMMA BondKeeps ==
  ASSUME ChainInv, NEW s \in Swaps, NEW p, Bond(s, p)
  PROVE  ChainInv' /\ SentWell'
<1>1. UNCHANGED chainVars /\ testnet' = testnet /\ s.inChain # "ckb"
  BY DEF Bond, signingVars
<1>2. PICK parsed \in Parses(s.inChain, BondSwap(s, PoolOf[p]), p) :
        Made(s.inChain, BondSwap(s, PoolOf[p]), p, parsed)
  BY DEF Bond
<1>3. ReadWell(s.inChain, BondSwap(s, PoolOf[p]), parsed)
  BY <1>1, <1>2, BondAndCancelAreRead
<1>. QED  BY <1>1, <1>2, <1>3, MadeIsSentWell, NothingIsTouched

LEMMA CancelKeeps ==
  ASSUME ChainInv, NEW s \in Swaps, Cancel(s)
  PROVE  ChainInv' /\ SentWell'
<1>1. /\ s.inChain # "ckb"
      /\ posted' = [posted EXCEPT ![s] = None]
      /\ executed' = [executed EXCEPT ![s] = "cancelled"]
      /\ UNCHANGED <<signingVars, locked, released>>
  BY DEF Cancel
<1>2. PICK parsed \in Parses(s.inChain, CancelSwap(s), "depositor") :
        Made(s.inChain, CancelSwap(s), "depositor", parsed)
  BY DEF Cancel
<1>3. ReadWell(s.inChain, CancelSwap(s), parsed)
  BY <1>1, <1>2, BondAndCancelAreRead
<1>4. SentWell'
  BY <1>2, <1>3, MadeIsSentWell
<1>5. SwapOK(s)'
  <2>1. posted'[s] = None /\ executed'[s] = "cancelled" /\ locked' = locked /\ released' = released
    BY <1>1 DEF ChainInv
  <2>2. SwapOK(s)
    BY DEF ChainInv
  <2>. QED  BY <2>1, <2>2, NoneAssumption DEF SwapOK, LockOK, PostedBy
<1>6. ChainInv'
  <2>1. /\ DOMAIN posted' = Swaps /\ DOMAIN locked' = Swaps
        /\ DOMAIN released' = Swaps /\ DOMAIN executed' = Swaps
        /\ \A x \in Swaps : x # s =>
             /\ posted'[x] = posted[x] /\ locked'[x] = locked[x]
             /\ released'[x] = released[x] /\ executed'[x] = executed[x]
    BY <1>1 DEF ChainInv
  <2>2. testnet' = testnet
    BY <1>1 DEF signingVars
  <2>. QED  BY <2>1, <2>2, <1>5, OneSwapIsTouched
<1>. QED  BY <1>4, <1>6

\* What is read of a call that every chain can read.
LEMMA WhatIsRead ==
  ASSUME NEW chain, NEW c, NEW p, ReadWell(chain, c, p), c.name \in Other!SELECTORS,
         NEW k \in Needed(c.name), k \in DOMAIN c.args, k \notin MisreadOn(chain, c.name)
  PROVE  p.args[k] = c.args[k]
BY DEF ReadWell, Reads

\* Two pairs of words that are the same are of the same signature.
LEMMA SameWords ==
  ASSUME NEW x, NEW y, x.r = y.r, x.yParityAndS = y.yParityAndS
  PROVE  Rejoined(x) = Rejoined(y)
BY DEF Rejoined

LEMMA ExecuteKeeps ==
  ASSUME ChainInv, NEW s \in Swaps, NEW p, NEW depositToPool, Execute(s, p, depositToPool)
  PROVE  ChainInv' /\ SentWell'
<1> DEFINE known == released[s]
           release == [swap |-> s, r |-> known.r, yParityAndS |-> known.yParityAndS,
                       recipient |-> known.recipient]
           call == ExecuteSwap(release, depositToPool)
<1>1. /\ posted[s] # None /\ executed[s] = None /\ known # None /\ known.r # ZeroWord
      /\ UNCHANGED <<signingVars, posted, locked, released>>
  BY DEF Execute
<1>2. PICK parsed \in Parses(s.inChain, call, p) :
        /\ executed' = [executed EXCEPT ![s] =
             IF Recovered(Rejoined(parsed.args),
                          ContractReleaseDigest(s, parsed.args.recipient, testnet))
                  = posted[s].initiator
             THEN "accepted" ELSE "refused"]
        /\ Made(s.inChain, call, p, parsed)
  BY DEF Execute
<1>3. SwapOK(s) /\ release.swap = s
  BY DEF ChainInv
<1>4. /\ call.name = "executeSwap"
      /\ {"encodedSwap", "r", "yParityAndS", "recipient"} \subseteq DOMAIN call.args
      /\ call.args.r = known.r /\ call.args.yParityAndS = known.yParityAndS
      /\ call.args.recipient = ClipRecipient(known.recipient, s)
  BY DEF ExecuteSwap, Call
<1>5. ReadWell(s.inChain, call, parsed)
  <2>1. s.inChain = "ckb" => posted[s].script.swap = s
    BY <1>1, <1>3 DEF SwapOK, PostOK
  <2> HIDE DEF release
  <2>. QED  BY <1>2, <1>3, <2>1, ExecutionIsRead
<1> HIDE DEF call
<1>6. SentWell'
  BY <1>2, <1>5, MadeIsSentWell
<1>7. /\ parsed.args.r = known.r /\ parsed.args.yParityAndS = known.yParityAndS
      /\ parsed.args.recipient = ClipRecipient(known.recipient, s)
  <2>1. "executeSwap" \in Other!SELECTORS /\ MisreadOn(s.inChain, "executeSwap") = {}
    BY DEF Other!SELECTORS, MisreadOn
  <2> HIDE DEF known
  <2>. QED  BY <1>4, <1>5, <2>1, NeededOf, WhatIsRead
<1>8. Recovered(Rejoined(parsed.args), ContractReleaseDigest(s, parsed.args.recipient, testnet))
        = posted[s].initiator
  <2>1. Rejoined(parsed.args) = Rejoined(known)
    BY <1>7, SameWords
  <2>2. PostedBy(s, Releaser(s))
    BY <1>1, <1>3 DEF SwapOK
  <2>. QED  BY <1>1, <1>7, <2>1, <2>2 DEF PostedBy, Releaser
<1>9. executed' = [executed EXCEPT ![s] = "accepted"]
  BY <1>2, <1>8
<1>10. SwapOK(s)'
  <2>1. executed'[s] = "accepted" /\ posted' = posted /\ locked' = locked /\ released' = released
        /\ testnet' = testnet
    BY <1>1, <1>9 DEF ChainInv, signingVars
  <2> HIDE DEF known
  <2>. QED  BY <1>1, <1>3, <2>1 DEF SwapOK, PostOK, LockOK, PostedBy, Releaser
<1>11. ChainInv'
  <2>1. /\ DOMAIN posted' = Swaps /\ DOMAIN locked' = Swaps
        /\ DOMAIN released' = Swaps /\ DOMAIN executed' = Swaps
        /\ \A x \in Swaps : x # s =>
             /\ posted'[x] = posted[x] /\ locked'[x] = locked[x]
             /\ released'[x] = released[x] /\ executed'[x] = executed[x]
    BY <1>1, <1>9 DEF ChainInv
  <2>2. testnet' = testnet
    BY <1>1 DEF signingVars
  <2>. QED  BY <2>1, <2>2, <1>10, OneSwapIsTouched
<1>. QED  BY <1>6, <1>11

LEMMA LockKeeps ==
  ASSUME ChainInv, NEW s \in Swaps, NEW recipient, NEW p, Lock(s, recipient, p)
  PROVE  ChainInv' /\ SentWell'
<1> DEFINE call == LockSwap(s, posted[s].initiator, recipient)
<1>1. /\ posted[s] # None
      /\ s.outChain \in LocksForRecipient => Payable(recipient, s)
      /\ UNCHANGED <<signingVars, posted, released, executed>>
  BY DEF Lock
<1>2. PICK parsed \in Parses(s.outChain, call, p) :
        /\ locked' = [locked EXCEPT ![s] =
             [initiator |-> parsed.args.initiator, recipient |-> recipient,
              script |-> Other!SigTimeLock(s, call.args.initiator, recipient, LpWallet)]]
        /\ Made(s.outChain, call, p, parsed)
  BY DEF Lock
<1>3. SwapOK(s)
  BY DEF ChainInv
<1>4. /\ call.name = "lockSwap" /\ "initiator" \in DOMAIN call.args
      /\ call.args.initiator = posted[s].initiator
  BY DEF LockSwap, Call
<1>5. ReadWell(s.outChain, call, parsed)
  BY <1>2, ChainsAssumption, LockIsRead
<1> HIDE DEF call
<1>6. SentWell'
  BY <1>2, <1>5, MadeIsSentWell
<1>7. parsed.args.initiator = posted[s].initiator
  <2>1. "lockSwap" \in Other!SELECTORS /\ MisreadOn(s.outChain, "lockSwap") = {}
    BY DEF Other!SELECTORS, MisreadOn
  <2>. QED  BY <1>4, <1>5, <2>1, NeededOf, WhatIsRead
<1>8. s.outChain \in LocksForRecipient => recipient.form = FormOn(s.outChain)
  <2> SUFFICES ASSUME s.outChain \in LocksForRecipient
               PROVE  recipient.form = FormOn(s.outChain)
    OBVIOUS
  <2>1. Payable(recipient, s) /\ s.outChain \in {"solana", "aptos", "sui", "starknet", "ckb"}
    BY <1>1 DEF LocksForRecipient
  <2>. QED  BY <2>1, Zenon DEF Payable
<1>9. SwapOK(s)'
  <2>1. /\ locked'[s].initiator = posted[s].initiator /\ locked'[s].recipient = recipient
        /\ locked'[s].script.swap = s /\ locked'[s].script.initiator = posted[s].initiator
    BY <1>2, <1>4, <1>7 DEF ChainInv, Other!SigTimeLock
  <2>2. posted' = posted /\ released' = released /\ executed' = executed /\ testnet' = testnet
    BY <1>1 DEF signingVars
  <2>. QED  BY <1>1, <1>3, <1>8, <2>1, <2>2 DEF SwapOK, PostOK, LockOK, PostedBy, Releaser
<1>10. ChainInv'
  <2>1. /\ DOMAIN posted' = Swaps /\ DOMAIN locked' = Swaps
        /\ DOMAIN released' = Swaps /\ DOMAIN executed' = Swaps
        /\ \A x \in Swaps : x # s =>
             /\ posted'[x] = posted[x] /\ locked'[x] = locked[x]
             /\ released'[x] = released[x] /\ executed'[x] = executed[x]
    BY <1>1, <1>2 DEF ChainInv
  <2>2. testnet' = testnet
    BY <1>1 DEF signingVars
  <2>. QED  BY <2>1, <2>2, <1>9, OneSwapIsTouched
<1>. QED  BY <1>6, <1>10

LEMMA UnlockKeeps ==
  ASSUME ChainInv, NEW request, request.swap \in Swaps, NEW p, UnlockSwap(request, p)
  PROVE  ChainInv' /\ SentWell'
<1> DEFINE s == request.swap
<1>1. /\ s.outChain # "ckb" /\ locked' = [locked EXCEPT ![s] = None]
      /\ UNCHANGED <<signingVars, posted, released, executed>>
  BY DEF UnlockSwap
<1>2. PICK parsed \in Parses(s.outChain, Unlock(request), p) :
        Made(s.outChain, Unlock(request), p, parsed)
  BY DEF UnlockSwap
<1>3. ReadWell(s.outChain, Unlock(request), parsed)
  BY <1>1, <1>2, UnlockIsRead
<1>4. SentWell'
  BY <1>2, <1>3, MadeIsSentWell
<1>5. SwapOK(s) /\ s \in Swaps
  BY DEF ChainInv
<1> HIDE DEF s
<1>6. SwapOK(s)'
  <2>1. /\ locked'[s] = None /\ posted' = posted /\ released' = released /\ executed' = executed
        /\ testnet' = testnet
    BY <1>1, <1>5 DEF ChainInv, signingVars
  <2>. QED  BY <1>5, <2>1 DEF SwapOK, PostOK, PostedBy, Releaser
<1>7. ChainInv'
  <2>1. /\ DOMAIN posted' = Swaps /\ DOMAIN locked' = Swaps
        /\ DOMAIN released' = Swaps /\ DOMAIN executed' = Swaps
        /\ \A x \in Swaps : x # s =>
             /\ posted'[x] = posted[x] /\ locked'[x] = locked[x]
             /\ released'[x] = released[x] /\ executed'[x] = executed[x]
    BY <1>1 DEF ChainInv
  <2>2. testnet' = testnet
    BY <1>1 DEF signingVars
  <2>. QED  BY <1>5, <1>6, <2>1, <2>2, OneSwapIsTouched
<1>. QED  BY <1>4, <1>7

\* The recipient that an execution names, after a release that has paid it.
LEMMA PaidIsClipped ==
  ASSUME NEW s, NEW recipient, Payable(recipient, s)
  PROVE  /\ ClipRecipient(recipient, s) = recipient.head
         /\ ToTron(s) => ClipRecipient(TwentyBytes(recipient.head), s) = recipient.head
<1>1. CASE s.outChain \in {"solana", "aptos", "sui", "starknet", "ckb"}
  <2>1. recipient.form = FormOn(s.outChain)
    BY <1>1, Zenon DEF Payable
  <2>2. s.outChain \in Clipped /\ ~ToTron(s)
    BY <1>1 DEF Clipped, ToTron
  <2>. QED  BY <2>1, <2>2, Zenon DEF ClipRecipient
<1>2. CASE s.outChain = "tron"
  <2>1. s.outChain \notin {"solana", "aptos", "sui", "starknet", "ckb"}
        /\ s.outChain \notin Clipped /\ ToTron(s)
    BY <1>2 DEF Clipped, ToTron
  <2>2. recipient.form = "tron"
    BY <1>2, <2>1, Zenon DEF Payable
  <2>3. ClipRecipient(recipient, s) = recipient.head
    BY <2>1, <2>2, Zenon DEF ClipRecipient
  <2>4. ClipRecipient(TwentyBytes(recipient.head), s) = TwentyBytes(recipient.head).head
    <3>1. TwentyBytes(recipient.head).form = "ethers"
      BY DEF TwentyBytes
    <3>. QED  BY <2>1, <3>1, Zenon DEF ClipRecipient
  <2>5. TwentyBytes(recipient.head).head = recipient.head
    BY DEF TwentyBytes
  <2>. QED  BY <2>3, <2>4, <2>5
<1>3. CASE s.outChain \notin {"solana", "aptos", "sui", "starknet", "ckb"} /\ s.outChain # "tron"
  <2>1. recipient.form = "ethers"
    BY <1>3, Zenon DEF Payable
  <2>2. ~ToTron(s)
    BY <1>3 DEF ToTron
  <2>3. CASE s.outChain \in Clipped
    BY <2>1, <2>2, <2>3, Zenon DEF ClipRecipient
  <2>4. CASE s.outChain \notin Clipped
    BY <2>1, <2>2, <2>4, Zenon DEF ClipRecipient
  <2>. QED  BY <2>2, <2>3, <2>4
<1>. QED  BY <1>1, <1>2, <1>3

\* The recipient of a lock is of the form that an execution clips.
LEMMA LockedIsClipped ==
  ASSUME NEW s, NEW recipient, s.outChain \in LocksForRecipient,
         recipient.form = FormOn(s.outChain)
  PROVE  ClipRecipient(recipient, s) = recipient.head
<1>1. s.outChain \in Clipped /\ ~ToTron(s)
  BY DEF LocksForRecipient, Clipped, ToTron
<1>. QED  BY <1>1, Zenon DEF ClipRecipient

\* What a release passes on as its recipient.
LEMMA PassedRecipient ==
  ASSUME NEW release, NEW s, release.swap = s, Payable(release.recipient, s)
  PROVE  /\ ToTron(s) => ReleaseRecipient(release) = release.recipient.head
         /\ ~ToTron(s) => ReleaseRecipient(release) = release.recipient
BY PaidIsClipped DEF ReleaseRecipient

LEMMA ReleaseKeeps ==
  ASSUME ChainInv, NEW release, release.swap \in Swaps, NEW sender, ReleaseSwap(release, sender)
  PROVE  ChainInv' /\ SentWell'
<1> DEFINE s == release.swap
           call == Release(release)
           lock == locked[s]
           names == s.outChain \in LocksForRecipient
           paid == IF names THEN lock.recipient ELSE release.recipient
           Known(parsed) == IF names THEN lock.recipient
                            ELSE IF ToTron(s) THEN TwentyBytes(parsed.args.recipient)
                            ELSE parsed.args.recipient
<1>1. /\ lock # None /\ lock.initiator = release.initiator
      /\ Payable(release.recipient, s)
      /\ UNCHANGED <<signingVars, posted, executed>>
  BY DEF ReleaseSwap
<1>2. PICK parsed \in Parses(s.outChain, call, sender) :
        /\ \/ /\ Recovered(Rejoined(parsed.args), ContractReleaseDigest(s, paid.head, testnet))
                   = lock.initiator
              /\ released' = [released EXCEPT ![s] =
                   [r |-> parsed.args.r, yParityAndS |-> parsed.args.yParityAndS,
                    recipient |-> Known(parsed)]]
              /\ locked' = [locked EXCEPT ![s] = None]
           \/ UNCHANGED <<released, locked>>
        /\ Made(s.outChain, call, sender, parsed)
  BY DEF ReleaseSwap
<1>3. SwapOK(s) /\ s \in Swaps
  BY DEF ChainInv
<1>4. LockOK(s)
  BY <1>1, <1>3 DEF SwapOK
<1>5. /\ ReadWell(s.outChain, call, parsed)
      /\ s.outChain \notin NonEvm => parsed = call
  <2>1. locked[s].script.swap = s /\ locked[s].script.initiator = release.initiator
    BY <1>1, <1>4 DEF LockOK
  <2>2. ~(s.inChain = "ckb" /\ s.outChain = "ckb")
    BY <1>3, ChainsAssumption
  <2>. QED  BY <1>2, <2>1, <2>2, ReleaseIsRead
<1>6. call.args.recipient = ReleaseRecipient(release)
  BY DEF Release, Call
<1> HIDE DEF call
<1>7. SentWell'
  BY <1>2, <1>5, MadeIsSentWell
<1>8. ClipRecipient(Known(parsed), s) = paid.head
  <2>1. CASE names
    <3>1. lock.recipient.form = FormOn(s.outChain)
      BY <2>1, <1>4 DEF LockOK
    <3>2. Known(parsed) = lock.recipient /\ paid = lock.recipient
      BY <2>1
    <3> HIDE DEF Known, paid
    <3>. QED  BY <2>1, <3>1, <3>2, LockedIsClipped
  <2>2. CASE ~names
    <3>1. s.outChain \notin NonEvm
      BY <2>2 DEF LocksForRecipient, NonEvm
    <3>2. parsed.args.recipient = ReleaseRecipient(release)
      BY <1>5, <1>6, <3>1
    <3>3. paid = release.recipient
      BY <2>2
    <3>4. Known(parsed) = IF ToTron(s) THEN TwentyBytes(ReleaseRecipient(release))
                          ELSE ReleaseRecipient(release)
      BY <2>2, <3>2
    <3>5. Known(parsed) = IF ToTron(s) THEN TwentyBytes(release.recipient.head)
                          ELSE release.recipient
      BY <1>1, <3>4, PassedRecipient
    <3> HIDE DEF Known, paid
    <3>. QED  BY <1>1, <3>3, <3>5, PaidIsClipped
  <2>. QED  BY <2>1, <2>2
<1> HIDE DEF Known
<1>9. ASSUME Recovered(Rejoined(parsed.args), ContractReleaseDigest(s, paid.head, testnet))
               = lock.initiator,
             released' = [released EXCEPT ![s] =
               [r |-> parsed.args.r, yParityAndS |-> parsed.args.yParityAndS,
                recipient |-> Known(parsed)]],
             locked' = [locked EXCEPT ![s] = None]
      PROVE  SwapOK(s)'
  <2>1. /\ released'[s].r = parsed.args.r /\ released'[s].yParityAndS = parsed.args.yParityAndS
        /\ released'[s].recipient = Known(parsed)
    BY <1>3, <1>9 DEF ChainInv
  <2>2. locked'[s] = None
    BY <1>3, <1>9 DEF ChainInv
  <2>3. posted' = posted /\ executed' = executed /\ testnet' = testnet
    BY <1>1 DEF signingVars
  <2>4. Rejoined(released'[s]) = Rejoined(parsed.args)
    BY <2>1, SameWords
  <2>5. Releaser(s)' = Recovered(Rejoined(parsed.args),
                                 ContractReleaseDigest(s, paid.head, testnet))
    BY <1>8, <2>1, <2>3, <2>4 DEF Releaser
  <2>6. Releaser(s)' = lock.initiator
    BY <1>9, <2>5
  <2>7. PostedBy(s, lock.initiator)
    BY <1>4 DEF LockOK
  <2> HIDE DEF lock
  <2>. QED  BY <1>3, <2>2, <2>3, <2>6, <2>7 DEF SwapOK, PostOK, PostedBy
<1>10. ASSUME UNCHANGED <<released, locked>>
       PROVE  SwapOK(s)'
  <2>1. posted' = posted /\ executed' = executed /\ testnet' = testnet
    BY <1>1 DEF signingVars
  <2>. QED  BY <1>3, <1>10, <2>1, UntouchedIsOK
<1>11. ChainInv'
  <2>1. /\ DOMAIN posted' = Swaps /\ DOMAIN locked' = Swaps
        /\ DOMAIN released' = Swaps /\ DOMAIN executed' = Swaps
        /\ \A x \in Swaps : x # s =>
             /\ posted'[x] = posted[x] /\ locked'[x] = locked[x]
             /\ released'[x] = released[x] /\ executed'[x] = executed[x]
    BY <1>1, <1>2 DEF ChainInv
  <2>2. testnet' = testnet
    BY <1>1 DEF signingVars
  <2>3. SwapOK(s)'
    BY <1>2, <1>9, <1>10
  <2> HIDE DEF s
  <2>. QED  BY <1>3, <2>1, <2>2, <2>3, OneSwapIsTouched
<1>. QED  BY <1>7, <1>11

LEMMA DirectReleaseKeeps ==
  ASSUME ChainInv, NEW release, release.swap \in Swaps, NEW p, NEW expired,
         ReleaseDirectly(release, p, expired)
  PROVE  ChainInv' /\ SentWell'
<1> DEFINE s == release.swap
           call == DirectRelease(release, expired)
           known == IF ToTron(s) THEN TwentyBytes(call.args.recipient) ELSE release.recipient
<1>1. /\ s.outChain # "ckb" /\ posted[s] # None /\ posted[s].initiator = release.initiator
      /\ Payable(release.recipient, s)
      /\ UNCHANGED <<signingVars, posted, locked, executed>>
  BY DEF ReleaseDirectly
<1>2. PICK parsed \in Parses(s.outChain, call, p) :
        /\ \/ /\ Recovered(Rejoined(call.args),
                           ContractReleaseDigest(s, release.recipient.head, testnet))
                   = release.initiator
              /\ released' = [released EXCEPT ![s] =
                   [r |-> parsed.args.r, yParityAndS |-> parsed.args.yParityAndS,
                    recipient |-> known]]
           \/ released' = released
        /\ Made(s.outChain, call, p, parsed)
  BY DEF ReleaseDirectly
<1>3. SwapOK(s) /\ s \in Swaps
  BY DEF ChainInv
<1>4. ReadWell(s.outChain, call, parsed)
  BY <1>1, <1>2, DirectReleaseIsRead
<1>5. /\ call.name = "directRelease" /\ call.args.recipient = ReleaseRecipient(release)
      /\ {"r", "yParityAndS"} \subseteq DOMAIN call.args
  BY DEF DirectRelease, Call
<1> HIDE DEF call
<1>6. SentWell'
  BY <1>2, <1>4, MadeIsSentWell
<1>7. parsed.args.r = call.args.r /\ parsed.args.yParityAndS = call.args.yParityAndS
  <2>1. /\ "directRelease" \in Other!SELECTORS
        /\ "r" \notin MisreadOn(s.outChain, "directRelease")
        /\ "yParityAndS" \notin MisreadOn(s.outChain, "directRelease")
    BY DEF Other!SELECTORS, MisreadOn
  <2>. QED  BY <1>4, <1>5, <2>1, NeededOf, WhatIsRead
<1>8. ClipRecipient(known, s) = release.recipient.head
  <2>1. known = IF ToTron(s) THEN TwentyBytes(release.recipient.head) ELSE release.recipient
    BY <1>1, <1>5, PassedRecipient
  <2> HIDE DEF known
  <2>. QED  BY <1>1, <2>1, PaidIsClipped
<1> HIDE DEF known
<1>9. ASSUME Recovered(Rejoined(call.args),
                       ContractReleaseDigest(s, release.recipient.head, testnet))
               = release.initiator,
             released' = [released EXCEPT ![s] =
               [r |-> parsed.args.r, yParityAndS |-> parsed.args.yParityAndS,
                recipient |-> known]]
      PROVE  SwapOK(s)'
  <2>1. /\ released'[s].r = call.args.r /\ released'[s].yParityAndS = call.args.yParityAndS
        /\ released'[s].recipient = known
    BY <1>3, <1>7, <1>9 DEF ChainInv
  <2>2. posted' = posted /\ executed' = executed /\ locked' = locked /\ testnet' = testnet
    BY <1>1 DEF signingVars
  <2>3. Rejoined(released'[s]) = Rejoined(call.args)
    BY <2>1, SameWords
  <2>4. Releaser(s)' = release.initiator
    BY <1>8, <1>9, <2>1, <2>2, <2>3 DEF Releaser
  <2>. QED  BY <1>1, <1>3, <2>2, <2>4 DEF SwapOK, PostOK, LockOK, PostedBy
<1>10. ASSUME released' = released
       PROVE  SwapOK(s)'
  <2>1. posted' = posted /\ executed' = executed /\ locked' = locked /\ testnet' = testnet
    BY <1>1 DEF signingVars
  <2>. QED  BY <1>3, <1>10, <2>1, UntouchedIsOK
<1>11. ChainInv'
  <2>1. /\ DOMAIN posted' = Swaps /\ DOMAIN locked' = Swaps
        /\ DOMAIN released' = Swaps /\ DOMAIN executed' = Swaps
        /\ \A x \in Swaps : x # s =>
             /\ posted'[x] = posted[x] /\ locked'[x] = locked[x]
             /\ released'[x] = released[x] /\ executed'[x] = executed[x]
    BY <1>1, <1>2 DEF ChainInv
  <2>2. testnet' = testnet
    BY <1>1 DEF signingVars
  <2>3. SwapOK(s)'
    BY <1>2, <1>9, <1>10
  <2> HIDE DEF s
  <2>. QED  BY <1>3, <2>1, <2>2, <2>3, OneSwapIsTouched
<1>. QED  BY <1>6, <1>11

\* A call for a pool touches no swap.
LEMMA PoolCallKeeps ==
  ASSUME ChainInv, NEW chain \in {"solana", "aptos", "sui"}, NEW p \in Providers,
         NEW call \in PoolCalls(p), CallForPool(chain, call, p)
  PROVE  ChainInv' /\ SentWell'
<1>1. UNCHANGED chainVars /\ testnet' = testnet
  BY DEF CallForPool, signingVars
<1>. QED  BY <1>1, NothingIsTouched, PoolCallIsSentWell

LEMMA CallingKeeps ==
  ASSUME SigningInv, ChainInv, Calling
  PROVE  ChainInv' /\ SentWell'
<1>1. \A d \in signed : d.swap \in Swaps
  BY DEF SigningInv, DataAreOK, SignedOK
<1>2. CASE \E d \in signed, p \in Providers :
             \/ Post(d, p) \/ UnlockSwap(d, p) \/ ReleaseSwap(d, p)
             \/ \E expired \in BOOLEAN : ReleaseDirectly(d, p, expired)
  BY <1>1, <1>2, PostKeeps, UnlockKeeps, ReleaseKeeps, DirectReleaseKeeps
<1>3. CASE \E s \in Swaps, p \in Providers :
             \/ Bond(s, p)
             \/ \E r \in Recipients \union {NoRecipient} : Lock(s, r, p)
             \/ \E depositToPool \in BOOLEAN : Execute(s, p, depositToPool)
  BY <1>3, BondKeeps, LockKeeps, ExecuteKeeps
<1>4. CASE \E s \in Swaps : Cancel(s)
  BY <1>4, CancelKeeps
<1>. QED  BY <1>2, <1>3, <1>4 DEF Calling

LEMMA ChainInvNext ==
  SigningInv /\ ChainInv /\ SentWell /\ [Next]_vars => ChainInv' /\ SentWell'
<1> SUFFICES ASSUME SigningInv, ChainInv, SentWell, [Next]_vars
             PROVE  ChainInv' /\ SentWell'
  OBVIOUS
<1>1. CASE Signing
  <2>1. UNCHANGED chainVars /\ last' = NoCall /\ testnet' = testnet
    BY <1>1 DEF Signing, SigningNext, StartSigning, WalletSigns, WalletRefuses, ReturnSigned,
                SelectAccount, ReloadPage
  <2>. QED  BY <2>1, NothingIsTouched, NothingSent
<1>2. CASE signing = {} /\ Calling
  BY <1>2, CallingKeeps
<1>3. CASE \E chain \in {"solana", "aptos", "sui"}, p \in Providers :
             \E call \in PoolCalls(p) : CallForPool(chain, call, p)
  BY <1>3, PoolCallKeeps
<1>4. CASE UNCHANGED vars
  <2>1. UNCHANGED chainVars /\ testnet' = testnet /\ last' = last
    BY <1>4 DEF vars, signingVars
  <2>. QED  BY <2>1, NothingIsTouched, SentWellOfSame
<1>. QED  BY <1>1, <1>2, <1>3, <1>4 DEF Next

LEMMA ChainInvHolds == Spec => [](ChainInv /\ SentWell)
BY ChainInvInit, ChainInvNext, SigningInvHolds, PTL DEF Spec

\* What the parser of a chain reads of a transaction about a swap is what the
\* client was asked to send, on every chain, for any swaps, pools and
\* recipients: no word of Solana's data is taken for another, no argument of a
\* Move call or of Starknet's calldata for its neighbour, and no cell of CKB for
\* one of another swap.
THEOREM AlwaysReadAsSent == Spec => []ReadAsSent
BY ChainInvHolds, PTL DEF SentWell

\* A transaction of Solana names the stores of its swap and of no other, and its
\* token and pool only; a deposit, a withdrawal of a pool or of fees moves the
\* token and the amount that were asked for.
THEOREM CallsAlwaysNameTheirStores == Spec => []CallsNameTheirStores
BY ChainInvHolds, PTL DEF SentWell

\* The execution that a provider builds out of a release that it has seen is
\* never refused on the initial chain, for every pair of chains: the signature
\* comes through the parser of the target chain, and the recipient as the
\* digest has it.
THEOREM ReleasedIsAlwaysExecutable == Spec => []ReleasedIsExecutable
<1>1. ChainInv => ReleasedIsExecutable
  BY DEF ChainInv, SwapOK, ReleasedIsExecutable
<1>. QED  BY <1>1, ChainInvHolds, PTL

=============================================================================
