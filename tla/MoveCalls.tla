------------------------------- MODULE MoveCalls ------------------------------
(***************************************************************************)
(* The entry functions that the contract objects of Aptos and of Sui call  *)
(* for a call of the client, and what parseTransaction reads from one      *)
(* (adaptors/aptos/index.ts, adaptors/sui/index.ts).                       *)
(*                                                                         *)
(* A payload is the function, the coin type of the token and the arguments *)
(* by position.  The two parts of a signature are joined for the call, and *)
(* cut apart again by the parser.  A transaction read back from a node of  *)
(* Aptos may have its arguments in the serialised form, in which a vector  *)
(* of bytes has its length before it.                                      *)
(***************************************************************************)
EXTENDS Naturals, Sequences

PoolMethods == {"depositAndRegister", "deposit", "withdraw", "addAuthorizedAddr",
  "removeAuthorizedAddr", "transferPoolOwner", "withdrawServiceFee", "lockSwap",
  "unlock", "release", "directRelease"}
SwapMethods == {"postSwapFromInitiator", "bondSwap", "cancelSwap", "executeSwap"}

AptosModule(method) ==
  CASE method = "addSupportToken" -> "MesonStates"
    [] method \in PoolMethods -> "MesonPools"
    [] method \in SwapMethods -> "MesonSwap"

SuiModule(method) ==
  IF method = "simpleRelease" THEN "MesonPools" ELSE AptosModule(method)

Payload(module, method, types, args) ==
  [module |-> module, name |-> method, types |-> types, args |-> args]

CompactSignature(a) == <<a.r, a.yParityAndS>>

\* The objects that only functions of Sui take.
StoreG == "storeG"
AdminCap == "adminCap"
Clock == "0x6"
Coins(token, amount) == <<"coins", token, amount>>

-----------------------------------------------------------------------------
\* Aptos

AptosPoolArguments(call) ==
  LET a == call.args IN
  CASE call.name = "addSupportToken" -> <<a.tokenIndex>>
    [] call.name \in {"depositAndRegister", "deposit", "withdraw"} ->
         <<a.amount, a.poolTokenIndex[2]>>
    [] call.name \in {"addAuthorizedAddr", "removeAuthorizedAddr", "transferPoolOwner"} ->
         <<a.addr>>
    [] call.name = "withdrawServiceFee" -> <<a.amount, a.poolIndex>>

\* The type argument of the methods for pools and tokens.
CoinTypes(call) ==
  CASE call.name = "addSupportToken" -> <<call.args.token>>
    [] call.name \in {"depositAndRegister", "deposit", "withdraw"} ->
         <<call.args.poolTokenIndex[1]>>
    [] call.name = "withdrawServiceFee" -> <<call.args.tokenIndex>>
    [] OTHER -> <<>>

AptosSwapArguments(call) ==
  LET a == call.args
      s == a.encodedSwap
  IN CASE call.name = "postSwapFromInitiator" ->
            <<s, a.postingValue[1], a.postingValue[2]>>
       [] call.name = "bondSwap" -> <<s, a.poolIndex>>
       [] call.name = "cancelSwap" -> <<s>>
       [] call.name = "executeSwap" ->
            <<s, CompactSignature(a), a.recipient, a.depositToPool>>
       [] call.name = "lockSwap" -> <<s, a.initiator, a.recipient>>
       [] call.name = "unlock" -> <<s, a.initiator>>
       [] call.name = "release" -> <<s, CompactSignature(a), a.initiator>>
       [] call.name = "directRelease" ->
            <<s, CompactSignature(a), a.initiator, a.recipient>>

\* The token that a method for a swap names.
SwapCoinTypes(call) ==
  IF call.name \in SwapMethods THEN <<call.args.encodedSwap.inToken>>
  ELSE <<call.args.encodedSwap.outToken>>

IsForSwap(call) ==
  call.name \in SwapMethods \union
    {"lockSwap", "unlock", "release", "directRelease", "simpleRelease"}

AptosCall(call) ==
  LET module == AptosModule(call.name)
  IN  IF IsForSwap(call)
      THEN Payload(module, call.name, SwapCoinTypes(call), AptosSwapArguments(call))
      ELSE Payload(module, call.name, CoinTypes(call), AptosPoolArguments(call))

\* The arguments as a node returns them: vectors of bytes and integers have
\* another form when they are serialised, an address has not.
Returned(payload, serialised) ==
  LET isAddress(i) == \/ i = 3 /\ payload.name = "lockSwap"
                      \/ i = 4 /\ payload.name = "directRelease"
  IN  [payload EXCEPT !.args =
         [i \in DOMAIN payload.args |->
            [prefixed |-> serialised /\ ~isAddress(i), value |-> payload.args[i]]]]

Unprefixed(arg) == arg.value
Prefixed(arg) == IF arg.prefixed THEN <<"length and", arg.value>> ELSE arg.value

\* parseTransaction.  A length is taken off every argument that it knows, but
\* not off the initiator of a direct release.
AptosArguments(name, args) ==
  LET s == Unprefixed(args[1])
      signature == Unprefixed(args[2])
  IN CASE name = "postSwapFromInitiator" ->
            [encodedSwap |-> s,
             postingValue |-> <<Unprefixed(args[2]), Unprefixed(args[3])>>]
       [] name \in {"lockSwap", "unlock"} ->
            [encodedSwap |-> s, initiator |-> Unprefixed(args[2])]
       [] name = "executeSwap" ->
            [encodedSwap |-> s, r |-> signature[1], yParityAndS |-> signature[2],
             recipient |-> Unprefixed(args[3])]
       [] name = "release" ->
            [encodedSwap |-> s, r |-> signature[1], yParityAndS |-> signature[2],
             initiator |-> Unprefixed(args[3])]
       [] name = "directRelease" ->
            [encodedSwap |-> s, r |-> signature[1], yParityAndS |-> signature[2],
             initiator |-> Prefixed(args[3]), recipient |-> Unprefixed(args[4])]
       [] OTHER -> [encodedSwap |-> s]

AptosParse(payload) ==
  [name |-> payload.name, args |-> AptosArguments(payload.name, payload.args)]

-----------------------------------------------------------------------------
\* Sui

SuiPoolArguments(call) ==
  LET a == call.args IN
  CASE call.name = "addSupportToken" -> <<AdminCap, a.tokenIndex, StoreG>>
    [] call.name \in {"depositAndRegister", "deposit"} ->
         <<a.amount, a.poolTokenIndex[2], Coins(a.poolTokenIndex[1], a.amount), StoreG>>
    [] call.name = "withdraw" -> <<a.amount, a.poolTokenIndex[2], StoreG>>
    [] call.name \in {"addAuthorizedAddr", "removeAuthorizedAddr", "transferPoolOwner"} ->
         <<a.addr, StoreG>>
    [] call.name = "withdrawServiceFee" -> <<AdminCap, a.amount, a.poolIndex, StoreG>>

SuiSwapArguments(call) ==
  LET a == call.args
      s == a.encodedSwap
  IN CASE call.name = "postSwapFromInitiator" ->
            <<s, a.postingValue[1], a.postingValue[2], Coins(s.inToken, s), Clock, StoreG>>
       [] call.name = "bondSwap" -> <<s, a.poolIndex, StoreG>>
       [] call.name = "cancelSwap" -> <<s, StoreG, Clock>>
       [] call.name = "executeSwap" ->
            <<s, CompactSignature(a), a.recipient, a.depositToPool, StoreG, Clock>>
       [] call.name = "lockSwap" -> <<s, a.initiator, a.recipient, StoreG, Clock>>
       [] call.name = "unlock" -> <<s, a.initiator, StoreG, Clock>>
       [] call.name = "release" -> <<s, CompactSignature(a), a.initiator, StoreG, Clock>>
       [] call.name = "directRelease" ->
            <<s, CompactSignature(a), a.initiator, a.recipient, StoreG, Clock>>
       [] call.name = "simpleRelease" -> <<s, a.recipient, StoreG>>

\* The coins are put together by a command of their own before the call.
SuiCall(call) ==
  LET module == SuiModule(call.name)
  IN  IF IsForSwap(call)
      THEN Payload(module, call.name, SwapCoinTypes(call), SuiSwapArguments(call))
      ELSE Payload(module, call.name, CoinTypes(call), SuiPoolArguments(call))

\* The calls that are read back from a transaction block: the other commands
\* are left out, and an argument that one of them has made is undefined.
MoveCallsFromTxResponse(payload) ==
  <<[payload EXCEPT !.args = [i \in DOMAIN payload.args |->
       IF \/ payload.name \in {"depositAndRegister", "deposit"} /\ i = 3
          \/ payload.name = "postSwapFromInitiator" /\ i = 4
       THEN "undefined" ELSE payload.args[i]]]>>

\* parseTransaction of a block with a single call.
SuiArguments(name, args) ==
  CASE name = "postSwapFromInitiator" ->
         [encodedSwap |-> args[1], postingValue |-> <<args[2], args[3]>>]
    [] name \in {"lockSwap", "unlock"} ->
         [encodedSwap |-> args[1], initiator |-> args[2]]
    [] name = "executeSwap" ->
         [encodedSwap |-> args[1], r |-> args[2][1], yParityAndS |-> args[2][2],
          recipient |-> args[3]]
    [] name = "release" ->
         [encodedSwap |-> args[1], r |-> args[2][1], yParityAndS |-> args[2][2],
          initiator |-> args[3]]
    [] name = "directRelease" ->
         [encodedSwap |-> args[1], r |-> args[2][1], yParityAndS |-> args[2][2],
          initiator |-> args[3], recipient |-> args[4]]
    [] OTHER -> [encodedSwap |-> args[1]]

SuiParse(moveCalls) ==
  LET call == moveCalls[1]
  IN  [name |-> call.name, args |-> SuiArguments(call.name, call.args)]

=============================================================================
