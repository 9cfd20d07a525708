----------------------------- MODULE AdaptorCalls -----------------------------
(***************************************************************************)
(* Swaps on their way through the client and the contract objects of two *)
(* chains: the initiator signs, a request is posted (and bonded) on        *)
(* the initial chain, locked on the target chain and released, and a       *)
(* provider builds the execution of the swap out of the transactions that  *)
(* it sees on the target chain, through the parser of that chain.          *)
(*                                                                         *)
(* A chain is what its contract keeps of the swap.  A contract takes what  *)
(* the parser reads from the transaction; on EVM chains both are those of  *)
(* the ABI, which loses nothing.                                           *)
(***************************************************************************)
EXTENDS ClientCalls

CONSTANTS
  Providers,      \* accounts of liquidity providers, the same on every chain
  PoolOf,         \* [Providers -> pool indices]
  Amounts         \* of deposits and withdrawals

\* The parser of CKB tells the two sides of a swap apart by its initial chain.
ASSUME ChainsAssumption == \A s \in Swaps : ~(s.inChain = "ckb" /\ s.outChain = "ckb")

\* A swap that is over is not one that nothing has happened to.
ASSUME NoneAssumption == None \notin {"accepted", "refused", "cancelled"}

VARIABLES
  posted,         \* [Swaps -> what the initial chain keeps]
  locked,         \* [Swaps -> what the target chain keeps]
  released,       \* [Swaps -> the release as the providers know it]
  executed,       \* [Swaps -> how the execution ended]
  last            \* the call that the last step has made, if it made one

chainVars == <<posted, locked, released, executed>>
vars == <<signingVars, chainVars, last>>

Sol == INSTANCE SolanaCalls
Move == INSTANCE MoveCalls
Other == INSTANCE OtherCalls

NoCall == [chain |-> "none"]
LpWallet == "lp wallet"         \* pools[0] of CKB
NonEvm == {"solana", "aptos", "sui", "starknet", "ckb"}

-----------------------------------------------------------------------------
\* A call on its way through a contract object

SolanaCall(call, sender) ==
  CASE call.name \in {"postSwapFromInitiator", "bondSwap", "cancelSwap"} ->
         Sol!SolanaDepositCall(call, sender, "depositor")
    [] call.name \in {"executeSwap", "lockSwap", "unlock"} ->
         Sol!SolanaPoolSwapCall(call, sender, PoolOf)
    [] call.name \in {"release", "directRelease"} ->
         Sol!SolanaReleaseCall(call, sender, PoolOf)
    [] OTHER -> Sol!SolanaPoolCall(call, sender, PoolOf)

\* The swap cell of a transaction of CKB is made by it or it spends it.
CkbTransactionOf(call, sender) ==
  LET s == call.args.encodedSwap
  IN  IF call.name \in {"postSwapFromInitiator", "lockSwap"}
      THEN Other!CkbTransaction(Other!CkbEscrow(call, sender, LpWallet), Other!NoWitness)
      ELSE Other!CkbTransaction(IF s.inChain = "ckb" THEN posted[s].script
                                ELSE locked[s].script, Other!CkbWitness(call))

\* What a call may be read as on a chain.
Parses(chain, call, sender) ==
  CASE chain = "solana" -> {Sol!SolanaParse(SolanaCall(call, sender))}
    [] chain = "aptos" ->
         {Move!AptosParse(Move!Returned(Move!AptosCall(call), serialised)) :
            serialised \in BOOLEAN}
    [] chain = "sui" ->
         {Move!SuiParse(Move!MoveCallsFromTxResponse(Move!SuiCall(call)))}
    [] chain = "starknet" -> {Other!StarknetParse(Other!StarknetCall(call))}
    [] chain = "ckb" -> {Other!CkbParse(CkbTransactionOf(call, sender))}
    [] OTHER -> {call}

Made(chain, call, sender, parsed) ==
  last' = [chain |-> chain, call |-> call, sender |-> sender, parsed |-> parsed]

\* The signature of the two words of a call.
NoSignature == [by |-> NoSigner, digest |-> <<>>]
Rejoined(args) ==
  IF args.r[1] = "r" /\ args.yParityAndS[1] = "s" /\ args.r[2] = args.yParityAndS[2]
  THEN args.r[2] ELSE NoSignature

\* The recipient that a lock or a release pays, and the 20 bytes of it that a
\* signature is over; 20 bytes are too few for an address of another chain.
Payable(recipient, s) ==
  recipient.form = (CASE s.outChain \in {"solana", "aptos", "sui", "starknet", "ckb"} ->
                           FormOn(s.outChain)
                      [] s.outChain = "tron" -> "tron"
                      [] OTHER -> "ethers")

TwentyBytes(word) == [form |-> "ethers", head |-> word, tail |-> "none"]

-----------------------------------------------------------------------------
\* The initial chain

\* postSwap on EVM chains, by whoever has got the request; elsewhere the
\* initiator posts without a signature.
Post(request, p) ==
  LET s == request.swap
      evm == s.inChain \notin NonEvm
      call == IF evm THEN PostSwap(request, PoolOf[p])
              ELSE PostSwapFromInitiator(s, request.initiator, PoolOf[p])
      sender == IF evm THEN p ELSE "depositor"
  IN  /\ request.kind = "request" /\ posted[s] = None /\ executed[s] = None
      /\ \E parsed \in Parses(s.inChain, call, sender) :
           LET value == parsed.args.postingValue
               valid == evm => Recovered(Rejoined(parsed.args),
                                 ContractRequestDigest(s, testnet)) = value[1]
           IN  /\ posted' = IF ~valid THEN posted ELSE
                    [posted EXCEPT ![s] =
                       [initiator |-> value[1], pool |-> value[2],
                        script |-> Other!SigTimeLock(s, value[1], LpWallet, sender)]]
               /\ Made(s.inChain, call, sender, parsed)
      /\ UNCHANGED <<signingVars, locked, released, executed>>

\* The initiator posts without a pool, which a provider bonds later.
Bond(s, p) ==
  LET call == BondSwap(s, PoolOf[p])
  IN  /\ posted[s] # None /\ s.inChain # "ckb" /\ executed[s] = None
      /\ \E parsed \in Parses(s.inChain, call, p) : Made(s.inChain, call, p, parsed)
      /\ UNCHANGED <<signingVars, chainVars>>

\* Possible once the swap has expired, when it can be posted no more.
Cancel(s) ==
  LET call == CancelSwap(s)
  IN  /\ posted[s] # None /\ s.inChain # "ckb" /\ executed[s] = None
      /\ posted' = [posted EXCEPT ![s] = None]
      /\ executed' = [executed EXCEPT ![s] = "cancelled"]
      /\ \E parsed \in Parses(s.inChain, call, "depositor") :
           Made(s.inChain, call, "depositor", parsed)
      /\ UNCHANGED <<signingVars, locked, released>>

\* executeSwap, from what has been read on the target chain: the signature and
\* the recipient of the release.  On CKB one wallet is paid, whoever sends it.
Execute(s, p, depositToPool) ==
  LET known == released[s]
      call == ExecuteSwap([swap |-> s, r |-> known.r, yParityAndS |-> known.yParityAndS,
                           recipient |-> known.recipient], depositToPool)
  IN  /\ posted[s] # None /\ executed[s] = None
      /\ known # None /\ known.r # ZeroWord
      /\ PoolOf[p] = posted[s].pool \/ s.inChain = "ckb"
      /\ \E parsed \in Parses(s.inChain, call, p) :
           LET digest == ContractReleaseDigest(s, parsed.args.recipient, testnet)
           IN  /\ executed' = [executed EXCEPT ![s] =
                    IF Recovered(Rejoined(parsed.args), digest) = posted[s].initiator
                    THEN "accepted" ELSE "refused"]
               /\ Made(s.inChain, call, p, parsed)
      /\ UNCHANGED <<signingVars, posted, locked, released>>

-----------------------------------------------------------------------------
\* The target chain

\* lockSwap for a posted swap, with the recipient that the user asked for.
Lock(s, recipient, p) ==
  LET call == LockSwap(s, posted[s].initiator, recipient)
      names == s.outChain \in LocksForRecipient
  IN  /\ posted[s] # None /\ locked[s] = None /\ released[s] = None
      /\ IF names THEN Payable(recipient, s) ELSE recipient = NoRecipient
      /\ \E parsed \in Parses(s.outChain, call, p) :
           /\ locked' = [locked EXCEPT ![s] =
                [initiator |-> parsed.args.initiator, recipient |-> recipient,
                 script |-> Other!SigTimeLock(s, call.args.initiator, recipient, LpWallet)]]
           /\ Made(s.outChain, call, p, parsed)
      /\ UNCHANGED <<signingVars, posted, released, executed>>

UnlockSwap(request, p) ==
  LET s == request.swap
      call == Unlock(request)
  IN  /\ request.kind = "request" /\ locked[s] # None /\ s.outChain # "ckb"
      /\ request.initiator = locked[s].initiator
      /\ locked' = [locked EXCEPT ![s] = None]
      /\ \E parsed \in Parses(s.outChain, call, p) : Made(s.outChain, call, p, parsed)
      /\ UNCHANGED <<signingVars, posted, released, executed>>

\* A release by anyone who has the data: it pays the recipient of the lock,
\* where the lock names one.  A provider that sees the transaction takes the
\* recipient from it, or from the lock.
ReleaseSwap(release, sender) ==
  LET s == release.swap
      call == Release(release)
      lock == locked[s]
      paid == IF s.outChain \in LocksForRecipient THEN lock.recipient ELSE release.recipient
  IN  /\ release.kind = "release"
      /\ lock # None /\ lock.initiator = release.initiator
      /\ Payable(release.recipient, s)
      /\ \E parsed \in Parses(s.outChain, call, sender) :
           LET digest == ContractReleaseDigest(s, paid.head, testnet)
               known == IF s.outChain \in LocksForRecipient THEN lock.recipient
                        ELSE IF ToTron(s) THEN TwentyBytes(parsed.args.recipient)
                        ELSE parsed.args.recipient
               valid == Recovered(Rejoined(parsed.args), digest) = lock.initiator
                        /\ parsed.args.initiator = lock.initiator
           IN  /\ IF valid
                  THEN /\ released' = [released EXCEPT ![s] =
                            [r |-> parsed.args.r, yParityAndS |-> parsed.args.yParityAndS,
                             recipient |-> known]]
                       /\ locked' = [locked EXCEPT ![s] = None]
                  ELSE UNCHANGED <<released, locked>>
               /\ Made(s.outChain, call, sender, parsed)
      /\ UNCHANGED <<signingVars, posted, executed>>

\* A provider releases without a lock a swap that it has seen posted by the same
\* initiator; with no signature, once the swap has expired.
ReleaseDirectly(release, p, expired) ==
  LET s == release.swap
      call == DirectRelease(release, expired)
  IN  /\ release.kind = "release" /\ s.outChain # "ckb"
      /\ locked[s] = None /\ released[s] = None
      /\ posted[s] # None /\ posted[s].initiator = release.initiator
      /\ Payable(release.recipient, s)
      /\ \E parsed \in Parses(s.outChain, call, p) :
           LET digest == ContractReleaseDigest(s, release.recipient.head, testnet)
               valid == Recovered(Rejoined(call.args), digest) = release.initiator
           IN  /\ released' = IF ~valid THEN released ELSE [released EXCEPT ![s] =
                    [r |-> parsed.args.r, yParityAndS |-> parsed.args.yParityAndS,
                     recipient |-> IF ToTron(s) THEN TwentyBytes(call.args.recipient)
                                   ELSE release.recipient]]
               /\ Made(s.outChain, call, p, parsed)
      /\ UNCHANGED <<signingVars, posted, locked, executed>>

-----------------------------------------------------------------------------
\* The calls for pools and for the owner, on the chains whose contract object
\* builds the transaction itself

PoolCalls(p) ==
  {PoolDeposit(name, token, amount, PoolOf[p]) :
     name \in {"depositAndRegister", "deposit", "withdraw"},
     token \in {s.inToken : s \in Swaps}, amount \in Amounts}
  \union {Call(name, [addr |-> p]) :
     name \in {"addAuthorizedAddr", "removeAuthorizedAddr", "transferPoolOwner"}}
  \union {Call("withdrawServiceFee",
               [tokenIndex |-> token, amount |-> amount, poolIndex |-> PoolOf[p]]) :
     token \in {s.inToken : s \in Swaps}, amount \in Amounts}

\* parsed is here the transaction itself: no parser reads these calls.
CallForPool(chain, call, p) ==
  /\ signing = {} /\ signed = {}
  /\ Made(chain, call, p,
       CASE chain = "solana" -> SolanaCall(call, p)
         [] chain = "aptos" -> Move!AptosCall(call)
         [] chain = "sui" -> Move!SuiCall(call))
  /\ UNCHANGED <<signingVars, chainVars>>

-----------------------------------------------------------------------------
Init ==
  /\ SigningInit
  /\ posted = [s \in Swaps |-> None]
  /\ locked = [s \in Swaps |-> None]
  /\ released = [s \in Swaps |-> None]
  /\ executed = [s \in Swaps |-> None]
  /\ last = NoCall

\* A bound: what is signed is signed before the first call.
Signing ==
  /\ \A s \in Swaps : posted[s] = None
  /\ SigningNext
  /\ last' = NoCall
  /\ UNCHANGED chainVars

Calling ==
  \/ \E d \in signed, p \in Providers :
       \/ Post(d, p) \/ UnlockSwap(d, p) \/ ReleaseSwap(d, p)
       \/ \E expired \in BOOLEAN : ReleaseDirectly(d, p, expired)
  \/ \E s \in Swaps, p \in Providers :
       \/ Bond(s, p)
       \/ \E r \in Recipients \union {NoRecipient} : Lock(s, r, p)
       \/ \E depositToPool \in BOOLEAN : Execute(s, p, depositToPool)
  \/ \E s \in Swaps : Cancel(s)

Next ==
  \/ Signing
  \/ signing = {} /\ Calling
  \/ \E chain \in {"solana", "aptos", "sui"}, p \in Providers :
       \E call \in PoolCalls(p) : CallForPool(chain, call, p)

Spec == Init /\ [][Next]_vars

-----------------------------------------------------------------------------
\* Properties

\* A provider whose lock has been released is paid: the execution that it
\* builds out of what it reads on the target chain is accepted on the initial
\* chain, for every pair of chains, however the signature was made.
ReleasedIsExecutable == \A s \in Swaps : executed[s] # "refused"

ForPool == UNION {{c.name : c \in PoolCalls(p)} : p \in Providers}

\* The arguments that the providers need of what happens to a swap.
Needed(name) ==
  CASE name \in {"postSwap", "postSwapFromInitiator"} -> {"encodedSwap", "postingValue"}
    [] name \in {"lockSwap", "unlock"} -> {"encodedSwap", "initiator"}
    [] name \in {"release", "directRelease"} ->
         {"encodedSwap", "r", "yParityAndS", "initiator"}
    [] name = "executeSwap" -> {"encodedSwap", "r", "yParityAndS", "recipient"}
    [] OTHER -> {"encodedSwap"}

\* The only arguments that are not read as they were sent: the pool on CKB, and
\* on Aptos the initiator of a direct release.
Misread ==
  \/ last.chain = "ckb" /\ last.call.name = "postSwapFromInitiator"
  \/ last.chain = "aptos" /\ last.call.name = "directRelease"

\* What is read from a transaction about a swap is what the client was asked to
\* send; Starknet's parser knows five methods only.
ReadAsSent ==
  last # NoCall /\ last.call.name \notin ForPool =>
    LET p == last.parsed
        c == last.call
    IN  IF p = Other!NoTransaction
        THEN last.chain = "starknet" /\ c.name \notin Other!SELECTORS
        ELSE /\ p.name = c.name
             /\ Needed(c.name) \subseteq DOMAIN p.args
             /\ \A k \in DOMAIN p.args \intersect DOMAIN c.args :
                  p.args[k] = c.args[k] \/ (Misread /\ k \in {"postingValue", "initiator"})

\* A transaction of Solana names the stores of the swap, the initiator and the
\* token in its data, and balances of the pool of its sender or of fees only.
StoresOfTheSwap ==
  last.chain = "solana" /\ last.call.name \notin ForPool =>
    LET a == last.parsed.args
        accounts == SolanaCall(last.call, last.sender).accounts
        onInitialChain == last.call.name \in Move!SwapMethods
        token == IF onInitialChain THEN a.encodedSwap.inToken ELSE a.encodedSwap.outToken
        store == IF onInitialChain THEN Sol!PostedStore(a.encodedSwap)
                 ELSE Sol!LockedStore(a.encodedSwap, a.initiator)
    IN  /\ {x \in accounts : x[1] \in {"posted_swap", "locked_swap"}} = {store}
        /\ \A x \in accounts :
             /\ x[1] = "token account" => x[2][1] = token
             /\ x[1] = "balance_of_pool" =>
                  /\ x[2][1] \in {0, PoolOf[last.sender]}
                  /\ x[2][2] \in {token, Sol!HighValueToken}

\* A deposit, a withdrawal of a pool or of fees moves the token and the amount
\* that were asked for, to or from that pool; but a first deposit on Solana
\* carries no amount.
PoolCallAsAsked ==
  last # NoCall /\ last.call.name \in {"depositAndRegister", "deposit", "withdraw",
                                     "withdrawServiceFee"} =>
    LET a == last.call.args
        fee == last.call.name = "withdrawServiceFee"
        token == IF fee THEN a.tokenIndex ELSE a.poolTokenIndex[1]
        pool == IF fee THEN a.poolIndex ELSE a.poolTokenIndex[2]
        tx == last.parsed
        at == IF last.chain = "sui" /\ fee THEN 2 ELSE 1
    IN  IF last.chain = "solana"
        THEN last.call.name = "depositAndRegister" \/
             /\ tx.data[1].value = token /\ tx.data[2].value = a.amount
             /\ Sol!BalanceOfPool(pool, token) \in tx.accounts
        ELSE /\ tx.types = <<token>>
             /\ tx.args[at] = a.amount /\ tx.args[at + 1] = pool

\* What a call names is what it was made for, on the chains whose contract object
\* builds the transaction: the stores and tokens of the swap, the token, amount
\* and pool of a deposit or withdrawal.
CallsNameTheirStores == StoresOfTheSwap /\ PoolCallAsAsked

=============================================================================
