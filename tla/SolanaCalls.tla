----------------------------- MODULE SolanaCalls -----------------------------
(***************************************************************************)
(* The transactions that the contract object of Solana builds for a call,  *)
(* and what its parseTransaction reads from one (adaptors/solana/index.ts).*)
(*                                                                         *)
(* An instruction is the number of the method, the words of its data in    *)
(* the order they are laid out, and the accounts it names.  The parser     *)
(* cuts the words out of the data, written in hex, by their positions.     *)
(***************************************************************************)
EXTENDS Integers, Sequences

\* A mutant: two methods in the wrong order.
SWAPPED_METHODS == <<
  "init", "transferOwnership", "transferPremiumManager", "addSupportToken",
  "depositAndRegister", "deposit", "withdraw", "addAuthorizedAddr",
  "removeAuthorizedAddr", "transferPoolOwner", "withdrawServiceFee",
  "postSwapFromInitiator", "cancelSwap", "bondSwap", "executeSwap",
  "lockSwap", "unlock", "release", "directRelease" >>

SOLANA_METHODS == <<
  "init", "transferOwnership", "transferPremiumManager", "addSupportToken",
  "depositAndRegister", "deposit", "withdraw", "addAuthorizedAddr",
  "removeAuthorizedAddr", "transferPoolOwner", "withdrawServiceFee",
  "postSwapFromInitiator", "bondSwap", "cancelSwap", "executeSwap",
  "lockSwap", "unlock", "release", "directRelease" >>

Word(bytes, value) == [bytes |-> bytes, value |-> value]
Unreadable == "unreadable"

\* The digits of the data to the end of a word: "0x" and the number of the
\* method take four, and every byte two.  No instruction has more words.
Digits(words, last) ==
  LET Bytes(i) == IF i <= last /\ i <= Len(words) THEN words[i].bytes ELSE 0
  IN  4 + 2 * (Bytes(1) + Bytes(2) + Bytes(3) + Bytes(4))

\* data.substring(from, to): one word, or none.
Substring(ins, from, to) ==
  LET At(i) == Digits(ins.data, i - 1) = from /\ Digits(ins.data, i) = to
  IN  IF \E i \in 1..Len(ins.data) : At(i)
      THEN ins.data[CHOOSE i \in 1..Len(ins.data) : At(i)].value
      ELSE Unreadable

\* The accounts of an instruction: a key of its own, the stores of the program,
\* each at the address its seeds give, and the token account of an owner.
Account(addr) == <<"account", <<addr>>>>
Recipient(addr) == <<"recipient", <<addr>>>>
Store(prefix, seeds) == <<prefix, seeds>>
PostedStore(s) == Store("posted_swap", <<s>>)
LockedStore(s, initiator) == Store("locked_swap", <<s, initiator>>)
BalanceOfSwapped(pool, token) == Store("balance_of_pool", <<token, pool>>)     \* a mutant
BalanceOfPool(pool, token) == Store("balance_of_pool", <<pool, token>>)
OwnerOfPoolStore(pool) == Store("pool_owner", <<pool>>)
PoolOfAuthorized(addr) == Store("pool_of_authorized_account", <<addr>>)
TokenAccount(token, owner) == Store("token account", <<token, owner>>)
Admin == Store("admin", <<>>)
Owner == Store("owner", <<>>)         \* read from it
SupportedTokens == Store("supported_tokens", <<>>)
ContractSigner == Store("contract_signer", <<>>)

Instruction(op, words, accounts) ==
  [op |-> op, data |-> words, accounts |-> accounts]

HighValueToken == 247

\* The methods for pools and for the owner.  The first deposit of a pool only
\* registers it: no amount is sent.
SolanaPoolCall(call, signer, poolOf) ==
  LET a == call.args
      pool == poolOf[signer]
  IN CASE call.name = "transferOwnership" ->
            Instruction(1, <<>>, {Admin, Account(signer), Account(a.addr)})
       [] call.name = "transferPremiumManager" ->
            Instruction(2, <<>>, {Admin, Account(signer), Account(a.addr)})
       [] call.name = "addSupportToken" ->
            Instruction(3, <<Word(1, a.tokenIndex)>>,
              {Owner, Admin, SupportedTokens, BalanceOfPool(0, a.tokenIndex), Account(a.token)})
       [] call.name = "depositAndRegister" ->
            Instruction(4, <<Word(8, a.poolTokenIndex[2])>>,
              {PoolOfAuthorized(signer), OwnerOfPoolStore(a.poolTokenIndex[2]), Account(signer)})
       [] call.name \in {"deposit", "withdraw"} ->
            Instruction(IF call.name = "deposit" THEN 5 ELSE 6,
              <<Word(1, a.poolTokenIndex[1]), Word(8, a.amount)>>,
              {TokenAccount(a.poolTokenIndex[1], ContractSigner), ContractSigner,
               SupportedTokens, PoolOfAuthorized(signer), Account(signer),
               BalanceOfPool(a.poolTokenIndex[2], a.poolTokenIndex[1]),
               TokenAccount(a.poolTokenIndex[1], Account(signer))}
              \union (IF call.name = "deposit" THEN {}
                      ELSE {OwnerOfPoolStore(a.poolTokenIndex[2])}))
       [] call.name \in {"addAuthorizedAddr", "removeAuthorizedAddr", "transferPoolOwner"} ->
            Instruction(CASE call.name = "addAuthorizedAddr" -> 7
                          [] call.name = "removeAuthorizedAddr" -> 8
                          [] OTHER -> 9,
              <<>>, {PoolOfAuthorized(signer), OwnerOfPoolStore(pool),
                     PoolOfAuthorized(a.addr), Account(signer), Account(a.addr)})
       [] call.name = "withdrawServiceFee" ->
            Instruction(10, <<Word(1, a.tokenIndex), Word(8, a.amount), Word(8, a.poolIndex)>>,
              {Admin, OwnerOfPoolStore(a.poolIndex), BalanceOfPool(0, a.tokenIndex),
               BalanceOfPool(a.poolIndex, a.tokenIndex), Account(signer)})

\* postSwapFromInitiator, bondSwap and cancelSwap.  The depositor, whom a
\* cancellation pays, is read from the chain before.
SolanaDepositCall(call, signer, fromAddress) ==
  LET a == call.args
      s == a.encodedSwap
      escrow == {TokenAccount(s.inToken, ContractSigner), ContractSigner, PostedStore(s)}
  IN CASE call.name = "postSwapFromInitiator" ->
            Instruction(11, <<Word(32, s), Word(20, a.postingValue[1]), Word(3, 0),
                              Word(5, a.postingValue[2])>>,
              escrow \union {SupportedTokens, Account(signer),
                                 TokenAccount(s.inToken, Account(signer))})
       [] call.name = "bondSwap" ->
            Instruction(12, <<Word(32, s)>>,
              {PoolOfAuthorized(signer), PostedStore(s), Account(signer)})
       [] call.name = "cancelSwap" ->
            Instruction(13, <<Word(32, s)>>,
              escrow \union {Account(fromAddress),
                                 TokenAccount(s.inToken, Account(fromAddress))})

\* executeSwap, lockSwap and unlock name the balance of the pool of the signer.
SolanaPoolSwapCall(call, signer, poolOf) ==
  LET a == call.args
      s == a.encodedSwap
      pool == poolOf[signer]
  IN CASE call.name = "executeSwap" ->
            Instruction(14, <<Word(32, s), Word(32, a.r), Word(32, a.yParityAndS),
                              Word(20, a.recipient)>>,
              {BalanceOfPool(pool, s.inToken), PostedStore(s)})
       [] call.name = "lockSwap" ->
            Instruction(15, <<Word(32, s), Word(20, a.initiator), Word(32, a.recipient)>>,
              {SupportedTokens, PoolOfAuthorized(signer),
               BalanceOfPool(pool, s.outToken), BalanceOfPool(pool, HighValueToken),
               LockedStore(s, a.initiator), Account(signer)})
       [] call.name = "unlock" ->
            Instruction(16, <<Word(32, s), Word(20, a.initiator)>>,
              {BalanceOfPool(pool, s.outToken), BalanceOfPool(pool, HighValueToken),
               LockedStore(s, a.initiator)})

\* release and directRelease pay into the token account of the recipient, which
\* is created in the same transaction if it is not there.
SolanaReleaseCall(call, signer, poolOf) ==
  LET a == call.args
      s == a.encodedSwap
      pool == poolOf[signer]
      words == <<Word(32, s), Word(32, a.r), Word(32, a.yParityAndS), Word(20, a.initiator)>>
      paid == {TokenAccount(s.outToken, ContractSigner), ContractSigner, Admin,
               BalanceOfPool(0, s.outToken), LockedStore(s, a.initiator), Account(signer),
               Recipient(a.recipient), TokenAccount(s.outToken, Recipient(a.recipient))}
  IN  IF call.name = "release" THEN Instruction(17, words, paid)
      ELSE Instruction(18, words, paid \union
             {SupportedTokens, PoolOfAuthorized(signer), BalanceOfPool(pool, s.outToken),
              BalanceOfPool(pool, HighValueToken)})

\* parseTransaction; whatever it does not set is not in the result.
SolanaArguments(name, ins) ==
  LET s == Substring(ins, 4, 68)
      r == Substring(ins, 68, 132)
      yParityAndS == Substring(ins, 132, 196)
  IN CASE name = "postSwapFromInitiator" ->
            [encodedSwap |-> s,
             postingValue |-> <<Substring(ins, 68, 108), Substring(ins, 114, 124)>>]
       [] name \in {"lockSwap", "unlock"} ->
            [encodedSwap |-> s, initiator |-> Substring(ins, 68, 108)]
       [] name = "executeSwap" ->
            [encodedSwap |-> s, r |-> r, yParityAndS |-> yParityAndS,
             recipient |-> Substring(ins, 196, 236)]
       [] name \in {"release", "directRelease"} ->
            [encodedSwap |-> s, r |-> r, yParityAndS |-> yParityAndS,
             initiator |-> Substring(ins, 196, 236)]
       [] OTHER -> [encodedSwap |-> s]

SolanaParse(ins) ==
  LET name == SOLANA_METHODS[ins.op + 1]
  IN  [name |-> name, args |-> SolanaArguments(name, ins)]

=============================================================================
