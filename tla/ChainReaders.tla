----------------------------- MODULE ChainReaders -----------------------------
(***************************************************************************)
(* How the contract objects of the chains read a swap and the pools: the   *)
(* requests to the node that a read makes one after the other, which of    *)
(* them are memoized, and what it makes of the answers.                    *)
(*                                                                         *)
(* A read is a record with its query and the answers it has got so far.    *)
(***************************************************************************)
EXTENDS Naturals, Sequences

CONSTANTS
  None,           \* undefined
  Initiator       \* of the swap that is read

\* The zero address: of 20 bytes, and as Starknet's formatAddress pads it.
Zero20 == "0x00 (20 bytes)"
Zero32 == "0x00 (32 bytes)"
One == "0x1"

\* The pool index that stands for no pool.
NoPool == 0

Request(of, key) == [of |-> of, key |-> key]
Done == [of |-> "done", key |-> NoPool]

\* Tables of Sui and Aptos are found through handles in a store.
HasHandles(chain) == chain \in {"sui", "aptos"}
Handles == Request("handles", NoPool)

\* memoize: the promise of the first call is what every later call gets.  The
\* resource of a coin on Aptos is the store that holds the balances of pools.
SolanaMemoized(request) == request.of \in {"tokens", "owner"}
SuiMemoized(request) == request.of \in {"handles", "tokens", "owner"}
AptosMemoizedToo(request) == request.of \in {"handles", "tokens", "coinStore", "owner"}  \* a mutant
AptosMemoized(request) == request.of \in {"handles", "tokens", "coinStore"}

Memoized(chain, request) ==
  \/ chain = "solana" /\ SolanaMemoized(request)
  \/ chain = "sui" /\ SuiMemoized(request)
  \/ chain = "aptos" /\ AptosMemoized(request)

Pending(store) == store.state \in {"requested", "bonded"}

-----------------------------------------------------------------------------
\* The requests of a read

\* ownerOfPool, once the store has been read: Solana and Sui know that pool 0 has
\* no owner.
SolanaOwner(pool) == IF pool = NoPool THEN Done ELSE Request("owner", pool)
SuiOwner(pool) == IF pool = NoPool THEN Done ELSE Request("owner", pool)
AptosOwner(pool) == Request("owner", pool)

\* On EVM chains the contract looks it up itself, on CKB it is in the cell.
OwnerRequest(chain, pool) ==
  CASE chain = "solana" -> SolanaOwner(pool)
    [] chain = "sui" -> SuiOwner(pool)
    [] chain \in {"ethers", "ckb"} -> Done
    [] OTHER -> AptosOwner(pool)

PostedRequests(chain, got) ==
  IF got = <<>> THEN Request("posted", NoPool)
  ELSE IF Len(got) = 1 /\ Pending(got[1]) THEN OwnerRequest(chain, got[1].pool)
  ELSE Done

\* On CKB a lock is a cell; where there is none, the list of references is asked for.
LockedRequests(chain, got) ==
  IF got = <<>> THEN Request("locked", NoPool)
  ELSE IF Len(got) = 1 /\ got[1].state = "locked" THEN OwnerRequest(chain, got[1].pool)
  ELSE IF Len(got) = 1 /\ chain = "ckb" THEN Request("refItem", NoPool)
  ELSE Done

\* poolTokenBalance, by the pool of the owner: for none of it the balance is 0.
OfPool(got, requests) ==
  IF Len(got) > Len(requests) \/ got[1] = NoPool THEN Done
  ELSE requests[Len(got)]

SolanaBalance(got) ==
  IF Len(got) = 1 THEN Request("tokens", NoPool)
  ELSE OfPool(got, <<Done, Request("balance", got[1])>>)
AptosBalance(got) == OfPool(got, <<Request("coinStore", NoPool), Request("balance", got[1])>>)
SuiBalance(got) == OfPool(got, <<Request("balance", got[1])>>)

FirstOfBalance(chain, owner) ==
  CASE chain \in {"ethers", "starknet"} -> Request("poolTokenBalance", owner)
    [] chain = "ckb" -> Request("udt", owner)
    [] OTHER -> Request("poolOf", owner)

BalanceRequests(chain, owner, got) ==
  IF got = <<>> THEN FirstOfBalance(chain, owner)
  ELSE CASE chain = "solana" -> SolanaBalance(got)
         [] chain = "aptos" -> AptosBalance(got)
         [] chain = "sui" -> SuiBalance(got)
         [] OTHER -> Done

\* What a reader asks the node next.
NextRequest(chain, query, got) ==
  LET rest == IF HasHandles(chain) /\ got # <<>> THEN Tail(got) ELSE got
      asked == CASE query.name = "getPostedSwap" -> PostedRequests(chain, rest)
                 [] query.name = "getLockedSwap" -> LockedRequests(chain, rest)
                 [] query.name = "poolTokenBalance" ->
                      BalanceRequests(chain, query.arg, rest)
                 [] query.name = "ownerOfPool" ->
                      IF rest = <<>> /\ chain # "ckb" THEN Request("owner", query.arg) ELSE Done
                 [] OTHER ->                            \* getSupportedTokens
                      IF rest = <<>> THEN Request("tokens", NoPool) ELSE Done
  IN  IF HasHandles(chain) /\ got = <<>> /\ asked # Done THEN Handles ELSE asked

-----------------------------------------------------------------------------
\* What the readers make of the answers

PostedView(exist, initiator, poolOwner) ==
  [exist |-> exist, initiator |-> initiator, poolOwner |-> poolOwner]
LockedView(until, poolOwner) == [until |-> until, poolOwner |-> poolOwner]

NotPosted == PostedView(FALSE, None, None)
NotLocked == LockedView(FALSE, None)

\* The owner that was asked for, undefined for no pool.
OwnerGot(got) == IF Len(got) = 2 THEN got[2] ELSE None

\* Mutants: the mark of a cancelled swap is left, a release is not told, decimals
\* are not converted.
SolanaPostedKept(got) ==
  IF got[1].state = "none" THEN NotPosted
  ELSE IF Pending(got[1]) THEN PostedView(TRUE, Initiator, OwnerGot(got))
  ELSE PostedView(TRUE, None, None)

SolanaPostedSwap(got) ==
  IF got[1].state \in {"none", "cancelled"} THEN NotPosted
  ELSE IF Pending(got[1]) THEN PostedView(TRUE, Initiator, OwnerGot(got))
  ELSE PostedView(TRUE, None, None)

SolanaLockedNow(got) ==
  IF got[1].state = "locked" THEN LockedView(TRUE, OwnerGot(got)) ELSE NotLocked

SolanaLockedSwap(got) ==
  CASE got[1].state = "locked" -> LockedView(TRUE, OwnerGot(got))
    [] got[1].state = "released" -> LockedView(FALSE, One)
    [] OTHER -> NotLocked

SuiPostedSwap(got) == SolanaPostedSwap(got)
SuiLockedSwap(got) == SolanaLockedSwap(got)
AptosPostedSwap(got) == SolanaPostedSwap(got)
AptosLockedSwap(got) == SolanaLockedSwap(got)

\* formatAddress pads whatever the contract has, zero too.
StarknetAddress(addr) == IF addr = None THEN Zero32 ELSE addr

StarknetPostedSwap(got) ==
  IF got[1].state \in {"none", "cancelled"} THEN NotPosted
  ELSE IF Pending(got[1])
       THEN PostedView(TRUE, Initiator, StarknetAddress(OwnerGot(got)))
  ELSE PostedView(TRUE, None, None)

StarknetLockedSwap(got) ==
  CASE got[1].state = "locked" -> LockedView(TRUE, StarknetAddress(OwnerGot(got)))
    [] got[1].state = "released" -> LockedView(FALSE, One)
    [] OTHER -> NotLocked

\* On CKB there is a cell or there is none; of a lock the list of references has
\* an item, from the transaction of the lock on, however it ends.
CkbPostedSwap(got, wallet) ==
  IF Pending(got[1]) THEN PostedView(TRUE, Initiator, wallet) ELSE NotPosted

CkbLockedSwap(got, wallet) ==
  IF got[1].state = "locked" THEN LockedView(TRUE, wallet)
  ELSE IF got[2] THEN LockedView(FALSE, One)
  ELSE NotLocked

\* getPostedSwap and getLockedSwap of the contracts, in one call.
EvmPostedSwap(got) ==
  CASE got[1].state \in {"none", "cancelled"} -> PostedView(FALSE, Zero20, Zero20)
    [] got[1].state = "executed" -> PostedView(TRUE, Zero20, Zero20)
    [] OTHER -> PostedView(TRUE, Initiator,
                           IF got[1].owner = None THEN Zero20 ELSE got[1].owner)

EvmLockedSwap(got) ==
  CASE got[1].state = "locked" -> LockedView(TRUE, got[1].owner)
    [] got[1].state = "released" -> LockedView(FALSE, One)
    [] OTHER -> LockedView(FALSE, Zero20)

PoolTokenBalanceRaw(chain, got) == IF chain # "ckb" /\ got[1] = NoPool THEN 0 ELSE got[Len(got)]

\* A token of CKB has 8 decimals, the balances of pools have 6.
PoolTokenBalance(chain, got) ==
  CASE chain = "ckb" -> got[1] \div 100
    [] chain \in {"ethers", "starknet"} -> got[1]
    [] OTHER -> IF got[1] = NoPool THEN 0 ELSE got[Len(got)]

=============================================================================
