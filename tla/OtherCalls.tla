------------------------------ MODULE OtherCalls ------------------------------
(***************************************************************************)
(* The transactions that the contract objects of Starknet and of CKB make  *)
(* of a call, and what parseTransaction reads from one                     *)
(* (adaptors/starknet/index.ts, adaptors/ckb/index.ts).                    *)
(*                                                                         *)
(* Starknet takes the arguments by position and the SDK knows the          *)
(* selectors of five methods only.  On CKB a swap is a cell: its script    *)
(* names the swap, the initiator and the keys that receive and that are    *)
(* refunded; the witness of the transaction that spends it says why.       *)
(***************************************************************************)
EXTENDS Naturals, Sequences

NoTransaction == [name |-> "none"]

SELECTORS == {"postSwapFromInitiator", "lockSwap", "executeSwap", "release", "directRelease"}

\* The arguments of the client by position; a lock hands over two in one, and
\* the recipient of a release is dropped.
StarknetData(call) ==
  LET a == call.args
      s == a.encodedSwap
  IN CASE call.name = "postSwapFromInitiator" -> <<s, a.postingValue>>
       [] call.name = "bondSwap" -> <<s, a.poolIndex>>
       [] call.name = "executeSwap" ->
            <<s, a.r, a.yParityAndS, a.recipient, a.depositToPool>>
       [] call.name = "lockSwap" -> <<s, a.initiator, a.recipient>>
       [] call.name = "unlock" -> <<s, a.initiator>>
       [] call.name = "release" -> <<s, a.r, a.yParityAndS, a.initiator>>
       [] call.name = "directRelease" ->
            <<s, a.r, a.yParityAndS, a.initiator, a.recipient>>
       [] OTHER -> <<s>>

StarknetCall(call) == [name |-> call.name, data |-> StarknetData(call)]

\* parseTransaction: nothing for a method whose selector it does not know.
StarknetArguments(name, d) ==
  CASE name = "postSwapFromInitiator" ->
         [encodedSwap |-> d[1], postingValue |-> d[2]]
    [] name = "lockSwap" ->
         [encodedSwap |-> d[1], initiator |-> d[2], recipient |-> d[3]]
    [] name = "executeSwap" ->
         [encodedSwap |-> d[1], r |-> d[2], yParityAndS |-> d[3], recipient |-> d[4]]
    [] name = "release" ->
         [encodedSwap |-> d[1], r |-> d[2], yParityAndS |-> d[3], initiator |-> d[4]]
    [] OTHER ->
         [encodedSwap |-> d[1], r |-> d[2], yParityAndS |-> d[3], initiator |-> d[4],
          recipient |-> d[5]]

StarknetParse(tx) ==
  IF tx.name \notin SELECTORS THEN NoTransaction
  ELSE [name |-> tx.name, args |-> StarknetArguments(tx.name, tx.data)]

-----------------------------------------------------------------------------
\* CKB

CkbChain == "ckb"
PoolOfLpWallet == 1

SigTimeLock(s, initiator, receive, refund) ==
  [swap |-> s, initiator |-> initiator, receive |-> receive, refund |-> refund]

\* The cell of a swap that is posted or locked.
CkbEscrow(call, signer, lpWallet) ==
  LET a == call.args
      s == a.encodedSwap
  IN  IF call.name = "postSwapFromInitiator"
      THEN SigTimeLock(s, a.postingValue[1], lpWallet, signer)
      ELSE SigTimeLock(s, a.initiator, a.recipient, lpWallet)

\* The witness with which such a cell is spent, headed 0x00 with a signature
\* and by another byte once the swap has expired.
CkbWitness(call) ==
  LET a == call.args
  IN  [head |-> "0x00", signature |-> <<a.r, a.yParityAndS>>,
       tail |-> IF call.name = "executeSwap" THEN a.recipient ELSE a.recipient.head]

\* A transaction is read as the script of a swap cell and the witness that
\* spends it, if it does.
CkbTransaction(script, witness) == [script |-> script, witness |-> witness]
NoWitness == [head |-> "none"]

\* parseTransaction, which takes a posted swap to be for the first pool.
CkbParse(tx) ==
  LET s == tx.script.swap
      initiator == tx.script.initiator
      swapOut == s.inChain = CkbChain
      spent == tx.witness # NoWitness
      signature == tx.witness.signature
  IN CASE spent /\ tx.witness.head = "0x00" /\ swapOut ->
            [name |-> "executeSwap", args |->
              [encodedSwap |-> s, initiator |-> initiator, r |-> signature[1],
               yParityAndS |-> signature[2], recipient |-> tx.witness.tail]]
       [] spent /\ tx.witness.head = "0x00" /\ ~swapOut ->
            [name |-> "release", args |->
              [encodedSwap |-> s, initiator |-> initiator, r |-> signature[1],
               yParityAndS |-> signature[2]]]
       [] spent /\ tx.witness.head # "0x00" ->
            [name |-> IF swapOut THEN "cancelSwap" ELSE "unlock",
             args |-> [encodedSwap |-> s, initiator |-> initiator]]
       [] ~spent /\ swapOut ->
            [name |-> "postSwapFromInitiator", args |->
              [encodedSwap |-> s, initiator |-> initiator,
               postingValue |-> <<initiator, PoolOfLpWallet>>]]
       [] OTHER ->
            [name |-> "lockSwap",
             args |-> [encodedSwap |-> s, initiator |-> initiator]]

=============================================================================
