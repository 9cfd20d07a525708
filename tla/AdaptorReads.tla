---------------------------- MODULE AdaptorReads ----------------------------
(***************************************************************************)
(* What a page that reads a chain through MesonClient.ts is told, while    *)
(* the chain goes on between the requests of a read, requests fail, and    *)
(* answers are kept: by the contract objects, which memoize the promise of *)
(* a request, and by the client, which keeps the list of tokens.           *)
(***************************************************************************)
EXTENDS ChainReaders

CONSTANTS
  Chains,         \* kinds of contract objects
  Other,          \* an initiator that has not posted the swap
  Owners,         \* of the pool, one after the other
  Slots,          \* reads at the same time
  MaxReads,       \* bounds: on the reads of a page,
  MaxFailures,    \* on requests that fail,
  MaxChanges      \* on changes on the chain

\* The parties are there, and none of them is one of the marks for nobody.
ASSUME ReadersAssumption ==
  /\ Chains \subseteq {"ethers", "solana", "sui", "aptos", "starknet", "ckb"}
  /\ Other # Initiator
  /\ \A a \in {Initiator, Owners[1], Owners[2]} : a \notin {None, Zero20, "wallet"}
  /\ None \notin {Zero20, Zero32, One, "wallet"}

VARIABLES
  chain,          \* which kind of chain, throughout
  subject,        \* what the page asks about, throughout (a bound)
  posted, locked, \* the swap: how far it is, and the pool
  owner,          \* of the pool
  authorized,     \* addresses of the pool
  listed,         \* whether the token is supported
  balance,        \* of the pool
  time,
  cache,          \* of memoized requests
  tokens,         \* _tokens: whether the token is in the list, None if not fetched
  reads,          \* the reads under way
  said,           \* the last answer
  ownersKept,     \* history: owners of the pool since the page was loaded
  started, failures, changes

swapVars == <<chain, subject, posted, locked, owner, authorized, listed, balance, time, changes>>
pageVars == <<cache, tokens, reads, said, ownersKept, started, failures>>
readsVars == <<swapVars, pageVars>>

Pool == 1
ExpireTs == 0           \* of the swap
Until == 0              \* of the lock
Grace == 1              \* 120 seconds
MaxTime == 2            \* a bound

\* What happened to a swap, as a read should tell it; a swap can be posted for
\* a pool that nobody has registered.
PostedKind ==
  CASE posted.state \in {"none", "cancelled"} -> "none"
    [] posted.state = "bonded" /\ owner = None -> "unserved"
    [] OTHER -> posted.state
LockedKind ==
  IF locked.state = "unlocked" THEN "none" ELSE locked.state
TrueBalance(addr) == IF chain = "ckb" \/ addr \in authorized THEN balance ELSE 0

Truth(query) ==
  CASE query.name = "getPostedSwap" -> PostedKind
    [] query.name = "getLockedSwap" -> LockedKind
    [] query.name = "getBalanceInPool" -> TrueBalance(query.arg)
    [] OTHER -> None                              \* ownerOfPool

-----------------------------------------------------------------------------
\* A node answers what is on the chain at that moment.
Answer(request) ==
  CASE request.of \in {"posted", "locked"} ->
         LET store == IF request.of = "posted" THEN posted ELSE locked
         IN  [state |-> store.state, pool |-> store.pool,
              owner |-> IF store.pool = Pool THEN owner ELSE None]
    [] request.of = "refItem" -> locked.state # "none"
    [] request.of = "owner" -> IF request.key = Pool THEN owner ELSE None
    [] request.of = "poolOf" -> IF request.key \in authorized THEN Pool ELSE NoPool
    [] request.of = "tokens" -> listed
    [] request.of = "balance" -> balance
    [] request.of = "poolTokenBalance" -> TrueBalance(request.key)
    [] request.of = "udt" -> 100 * balance + 99
    [] OTHER -> TRUE                              \* handles

KeptRequests == {Handles, Request("tokens", NoPool), Request("coinStore", NoPool),
                 Request("owner", Pool), Request("owner", NoPool)}

NotAsked == [state |-> "none", answer |-> None]
Waiting == [state |-> "pending", answer |-> None]
Kept(value) == [state |-> "done", answer |-> value]
Rejected == [state |-> "rejected", answer |-> None]

\* getBalanceInPool makes sure first that the list of tokens is there; a list
\* is taken for missing while it is empty (here it never stays so, since there
\* are other tokens).
NeedsTokens(r) == r.query.name = "getBalanceInPool" /\ ~r.ready
NoSuchToken(r) ==
  r.query.name = "getBalanceInPool" /\ r.ready /\ r.got = <<>> /\ tokens = FALSE

ContractQuery(r) ==
  CASE NeedsTokens(r) -> [name |-> "getSupportedTokens", arg |-> NoPool]
    [] r.query.name = "getBalanceInPool" /\ r.ready ->
         [name |-> "poolTokenBalance", arg |-> r.query.arg]
    [] OTHER -> r.query
Asks(r) == NextRequest(chain, ContractQuery(r), r.got)

-----------------------------------------------------------------------------
\* What the client makes of the view of the contract object

\* Twenty bytes of zero are undefined.
FormatOwner(addr) == IF addr \in {None, Zero20} THEN None ELSE addr

\* formatAddress of Sui and Aptos takes the address apart: what is undefined it
\* throws on, where a caller lets it through.
Throws(addr) == addr = None /\ HasHandles(chain)
Failure == [status |-> "failure", owner |-> None]

PostedSwapView(got) ==
  CASE chain = "solana" -> SolanaPostedSwap(got)
    [] chain = "sui" -> SuiPostedSwap(got)
    [] chain = "aptos" -> AptosPostedSwap(got)
    [] chain = "starknet" -> StarknetPostedSwap(got)
    [] chain = "ckb" -> CkbPostedSwap(got, "wallet")
    [] OTHER -> EvmPostedSwap(got)
LockedSwapView(got) ==
  CASE chain = "solana" -> SolanaLockedSwap(got)
    [] chain = "sui" -> SuiLockedSwap(got)
    [] chain = "aptos" -> AptosLockedSwap(got)
    [] chain = "starknet" -> StarknetLockedSwap(got)
    [] chain = "ckb" -> CkbLockedSwap(got, "wallet")
    [] OTHER -> EvmLockedSwap(got)

PendingStatus(expired, bonded) ==
  CASE expired /\ bonded -> "ErrorExpiredButBonded"
    [] expired /\ ~bonded -> "ErrorExpired"
    [] ~expired /\ bonded -> "Bonded"
    [] OTHER -> "Requested"

\* expired was computed before the first request.
GetPostedSwap(view, toCheck, expired) ==
  LET initiator == FormatOwner(view.initiator)
      poolOwner == FormatOwner(view.poolOwner)
      Says(status, by) == [status |-> status, owner |-> by]
  IN  CASE view.exist /\ initiator = None -> Says("Executed", None)
        [] ~view.exist /\ initiator = None -> Says("NoneOrAfterRunning", None)
        [] initiator # None /\ toCheck # initiator ->
             Says("ErrorMadeByOtherInitiator", None)
        [] OTHER -> Says(PendingStatus(expired, poolOwner # None), poolOwner)

\* The clock is read after the last request.
GetLockedSwap(view, now) ==
  IF ~view.until
  THEN [status |-> IF FormatOwner(view.poolOwner) = None THEN "None" ELSE "Released",
        owner |-> None]
  ELSE IF Throws(view.poolOwner) THEN Failure
  ELSE [status |-> IF Until + Grace < now THEN "ErrorExpired" ELSE "Locked",
        owner |-> FormatOwner(view.poolOwner)]

OwnerOfPool(addr) ==
  IF Throws(addr) THEN Failure ELSE [status |-> "owner", owner |-> FormatOwner(addr)]

\* What a read that has all its answers returns.
Told(r) ==
  LET got == IF HasHandles(chain) THEN Tail(r.got) ELSE r.got
      q == r.query
  IN  CASE q.name = "getPostedSwap" ->
             GetPostedSwap(PostedSwapView(got), q.arg, r.expired)
        [] q.name = "getLockedSwap" -> GetLockedSwap(LockedSwapView(got), time)
        [] q.name = "ownerOfPool" ->
             OwnerOfPool(IF chain = "ckb" THEN "wallet" ELSE got[1])
        [] OTHER -> [status |-> "balance", owner |-> None,
                     balance |-> PoolTokenBalance(chain, got)]

-----------------------------------------------------------------------------
\* The reads of the page

NoAnswer == [query |-> [name |-> "none", arg |-> NoPool]]
Idle == None
Running == {i \in Slots : reads[i] # Idle}

Queries ==
  {[name |-> "ownerOfPool", arg |-> Pool]} \union
  CASE subject = "posted" ->
         {[name |-> "getPostedSwap", arg |-> a] : a \in {Initiator, Other}}
    [] subject = "locked" -> {[name |-> "getLockedSwap", arg |-> Initiator]}
    [] OTHER ->                                   \* "balance"
         {[name |-> "getBalanceInPool", arg |-> a] : a \in {Owners[1], Owners[2]}}

StartRead(i, query) ==
  /\ reads[i] = Idle /\ \A j \in Slots : j < i => reads[j] # Idle   \* alike
  /\ started < MaxReads
  /\ reads' = [reads EXCEPT ![i] =
       [query |-> query, ready |-> tokens # None, got |-> <<>>, asked |-> FALSE,
        expired |-> ExpireTs < time,
        seen |-> {Truth(query)}, owners |-> {owner}]]
  /\ started' = started + 1
  /\ said' = NoAnswer
  /\ UNCHANGED <<swapVars, cache, tokens, ownersKept, failures>>

Ends(i, answer) ==
  /\ said' = [query |-> reads[i].query, seen |-> reads[i].seen, owners |-> reads[i].owners,
              expired |-> reads[i].expired, answer |-> answer]
  /\ reads' = [reads EXCEPT ![i] = Idle]

\* The next request of a read, if there is one.
NextOf(i) ==
  IF reads[i] = Idle \/ NoSuchToken(reads[i]) THEN Done ELSE Asks(reads[i])

\* A read finds its next request memoized, under way or not, or sends it.
Ask(i) ==
  LET request == NextOf(i)
  IN  /\ Memoized(chain, request) /\ ~reads[i].asked
      /\ reads' = [reads EXCEPT ![i].asked = TRUE]
      /\ cache' = IF cache[request] = NotAsked THEN [cache EXCEPT ![request] = Waiting]
                  ELSE cache
      /\ said' = NoAnswer
      /\ UNCHANGED <<swapVars, tokens, ownersKept, started, failures>>

\* The node answers a request of one read only.
NodeAnswers(i) ==
  LET request == NextOf(i)
  IN  /\ request # Done /\ ~Memoized(chain, request)
      /\ reads' = [reads EXCEPT ![i].got = Append(@, Answer(request))]
      /\ said' = NoAnswer
      /\ UNCHANGED <<swapVars, cache, tokens, ownersKept, started, failures>>

\* The node answers a memoized request, for all that wait and will come.
NodeAnswersKept(request) ==
  /\ cache[request] = Waiting
  /\ cache' = [cache EXCEPT ![request] = Kept(Answer(request))]
  /\ said' = NoAnswer
  /\ UNCHANGED <<swapVars, tokens, reads, ownersKept, started, failures>>

TakeKept(i) ==
  LET request == NextOf(i)
  IN  /\ Memoized(chain, request) /\ reads[i].asked
      /\ \/ /\ cache[request].state = "done"
            /\ reads' = [reads EXCEPT ![i].asked = FALSE,
                           ![i].got = Append(@, cache[request].answer)]
            /\ said' = NoAnswer
         \/ /\ cache[request].state = "rejected"
            /\ Ends(i, Failure)
      /\ UNCHANGED <<swapVars, cache, tokens, ownersKept, started, failures>>

\* A request fails: the read of it does, or the promise that is kept.
NodeFails(i) ==
  /\ failures < MaxFailures /\ NextOf(i) # Done /\ ~Memoized(chain, NextOf(i))
  /\ Ends(i, Failure)
  /\ failures' = failures + 1
  /\ UNCHANGED <<swapVars, cache, tokens, ownersKept, started>>

NodeFailsKept(request) ==
  /\ failures < MaxFailures /\ cache[request] = Waiting
  /\ cache' = [cache EXCEPT ![request] = Rejected]
  /\ said' = NoAnswer
  /\ failures' = failures + 1
  /\ UNCHANGED <<swapVars, tokens, reads, ownersKept, started>>

\* ready() has its answer; the list that is there last is the one that is kept.
TokensFetched(i) ==
  LET r == reads[i]
  IN  /\ r # Idle /\ ~r.asked /\ NeedsTokens(r) /\ Asks(r) = Done
      /\ tokens' = r.got[Len(r.got)]
      /\ reads' = [reads EXCEPT ![i].ready = TRUE, ![i].got = <<>>]
      /\ said' = NoAnswer
      /\ UNCHANGED <<swapVars, cache, ownersKept, started, failures>>

\* A token that is not in the list ends a read before its next request.
Return(i) ==
  LET r == reads[i]
  IN  /\ r # Idle /\ ~r.asked
      /\ IF NoSuchToken(r) THEN Ends(i, [status |-> "no token", owner |-> None])
         ELSE ~NeedsTokens(r) /\ Asks(r) = Done /\ Ends(i, Told(r))
      /\ UNCHANGED <<swapVars, cache, tokens, ownersKept, started, failures>>

-----------------------------------------------------------------------------
\* The chain goes on; each read under way sees what is true after the step.

Changed(vs) ==
  /\ changes < MaxChanges /\ changes' = changes + 1
  /\ UNCHANGED <<vs, chain, subject, cache, tokens, started, failures>>
  /\ reads' = [i \in Slots |-> IF reads[i] = Idle THEN Idle
       ELSE [reads[i] EXCEPT
               !.seen = @ \union {Truth(q)' : q \in {reads[i].query}},
               !.owners = @ \union {owner'}]]
  /\ ownersKept' = ownersKept \union {owner'}
  /\ said' = NoAnswer

RegisterPool ==
  /\ owner = None /\ owner' = Owners[1] /\ authorized' = {owner'}
  /\ Changed(<<posted, locked, listed, balance, time>>)

TransferPoolOwner ==
  /\ owner = Owners[1] /\ owner' = Owners[2] /\ authorized' = authorized \union {owner'}
  /\ Changed(<<posted, locked, listed, balance, time>>)

AddSupportToken ==
  /\ ~listed /\ listed' = TRUE
  /\ Changed(<<posted, locked, owner, authorized, balance, time>>)

MoveBalance ==
  /\ listed /\ owner # None /\ balance' = 1 - balance
  /\ Changed(<<posted, locked, owner, authorized, listed, time>>)

Post(pool) ==
  /\ posted.state = "none" /\ time <= ExpireTs
  /\ chain = "ckb" => pool = Pool
  /\ posted' = [state |-> IF pool = Pool THEN "bonded" ELSE "requested", pool |-> pool]
  /\ Changed(<<locked, owner, authorized, listed, balance, time>>)

PostedStep(from, to) ==
  /\ posted.state = from
  /\ posted' = [posted EXCEPT !.state = to, !.pool = IF to = "bonded" THEN Pool ELSE @]
  /\ Changed(<<locked, owner, authorized, listed, balance, time>>)
Bond == owner # None /\ PostedStep("requested", "bonded")
EndPosted ==
  \E from \in {"requested", "bonded"}, to \in {"executed", "cancelled"} : PostedStep(from, to)

LockStep(from, to) ==
  /\ locked.state = from /\ locked' = [state |-> to, pool |-> Pool]
  /\ Changed(<<posted, owner, authorized, listed, balance, time>>)
Lock == time <= Until /\ owner # None /\ LockStep("none", "locked")
ReleaseLocked == time <= Until /\ LockStep("locked", "released")
Unlock == time > Until /\ LockStep("locked", "unlocked")

TimePasses ==
  /\ time < MaxTime /\ time' = time + 1
  /\ Changed(<<posted, locked, owner, authorized, listed, balance>>)

-----------------------------------------------------------------------------
ReadsInit ==
  /\ chain \in Chains /\ subject \in {"posted", "locked", "balance"}
  /\ posted = [state |-> "none", pool |-> NoPool]
  /\ locked = [state |-> "none", pool |-> NoPool]
  /\ owner \in IF chain = "ckb" THEN {"wallet"} ELSE {None, Owners[1]}
  /\ authorized = {owner} \ {None}
  /\ listed = FALSE /\ balance = 0 /\ time = 0
  /\ cache = [request \in KeptRequests |-> NotAsked]
  /\ tokens = None
  /\ reads = [i \in Slots |-> Idle]
  /\ said = NoAnswer /\ ownersKept = {owner}
  /\ started = 0 /\ failures = 0 /\ changes = 0

ChainNext ==
  \/ RegisterPool \/ TransferPoolOwner
  \/ /\ subject = "posted"
     /\ (\E pool \in {NoPool, Pool} : Post(pool)) \/ Bond \/ EndPosted \/ TimePasses
  \/ /\ subject = "locked"
     /\ Lock \/ ReleaseLocked \/ Unlock \/ TimePasses
  \/ /\ subject = "balance"
     /\ AddSupportToken \/ MoveBalance

ReadsNext ==
  \/ ChainNext
  \/ \E i \in Slots, query \in Queries : StartRead(i, query)
  \/ \E i \in Slots : Ask(i) \/ NodeAnswers(i) \/ NodeFails(i) \/ TakeKept(i)
                      \/ TokensFetched(i) \/ Return(i)
  \/ \E request \in KeptRequests : NodeAnswersKept(request) \/ NodeFailsKept(request)

ReadsSpec == ReadsInit /\ [][ReadsNext]_readsVars

-----------------------------------------------------------------------------
\* Properties

OwnerAbsent == cache[Request("owner", Pool)] = Kept(None)

\* As what the client takes a swap of which something is true.  Starknet pads a
\* zero address to more bytes than the client looks for; a pool may be registered
\* between the two requests of a read; a contract object that
\* was once told that a pool has no owner keeps to it; on CKB nothing is left of
\* an executed swap, and of one that was unlocked as much as of one released.
TakenFor(kind) ==
  CASE chain = "starknet" /\ kind \in {"requested", "unserved"} -> {"bonded"}
    [] chain = "ckb" /\ kind = "executed" -> {"none"}
    [] chain # "starknet" /\ kind = "unserved" ->
         {"requested"} \union (IF owner = None THEN {} ELSE {"bonded"})
    [] kind = "bonded" /\ chain \in {"solana", "sui"} /\ OwnerAbsent -> {"requested"}
    [] OTHER -> {kind}

StatusOf(kind, toCheck, expired) ==
  CASE kind = "none" -> "NoneOrAfterRunning"
    [] kind = "executed" -> "Executed"
    [] kind \in {"requested", "bonded"} /\ toCheck = Other -> "ErrorMadeByOtherInitiator"
    [] OTHER -> PendingStatus(expired, kind = "bonded")

\* getPostedSwap tells what was true of the swap at some moment of the read,
\* seen by the clock of its start; it is not a mixture of several moments.
PostedWasSo ==
  said.query.name = "getPostedSwap" /\ said.answer.status # "failure" =>
    \E kind \in UNION {TakenFor(k) : k \in said.seen} :
      said.answer.status = StatusOf(kind, said.query.arg, said.expired)

\* getLockedSwap likewise, seen by the clock of its end.  On CKB a release is told
\* of an unlocked swap too, and when the lock comes between the two requests: the
\* swap then was absent, and was locked, and nobody has released it.
LockedWasSo ==
  said.query.name = "getLockedSwap" /\ said.answer.status # "failure" =>
    CASE said.answer.status = "None" -> "none" \in said.seen
      [] said.answer.status = "Released" ->
           \/ "released" \in said.seen
           \/ chain = "ckb" /\ (locked.state = "unlocked" \/ {"none", "locked"} \subseteq said.seen)
      [] OTHER -> "locked" \in said.seen
                  /\ (said.answer.status = "ErrorExpired" <=> Until + Grace < time)

\* The pool owner that is told has been the owner during the read, or since the
\* page was loaded where answers are kept.
OwnerWasOwner ==
  said.query.name \in {"getPostedSwap", "getLockedSwap", "ownerOfPool"} =>
    \/ said.answer.owner \in {None, Zero32}
    \/ said.answer.owner \in (IF chain \in {"solana", "sui"} THEN ownersKept ELSE said.owners)

\* Where no request has failed a read does, on Sui and Aptos only, because nobody
\* owns the pool: ownerOfPool, and getLockedSwap on Sui, where the page was told so
\* before the pool was registered and keeps to it.  getPostedSwap never does.
FailureHasCause ==
  said # NoAnswer /\ said.answer.status = "failure" =>
    \/ failures > 0
    \/ said.query.name \in {"ownerOfPool", "getLockedSwap"} /\ chain = "sui" /\ OwnerAbsent
    \/ said.query.name = "ownerOfPool" /\ chain = "aptos" /\ None \in said.owners

\* The balance of a pool that is told was its balance during the read: that of
\* several requests is no mixture, although the address may get its pool and the
\* pool its balance between them.
BalanceWasSo ==
  said.query.name = "getBalanceInPool" /\ said.answer.status = "balance" =>
    said.answer.balance \in said.seen

=============================================================================
