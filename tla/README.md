# A verification project for Meson

Meson swaps tokens between chains. The same contract is deployed on every
chain; users post swap requests with a deposit on the initial chain, liquidity
providers (LPs) lock and release tokens of their pools on the target chain, and
the release signature of the user, once it is public, lets the LP take the
deposit. The off-chain parts are an SDK (`packages/sdk`) with adaptors for a
dozen kinds of chains, a package of presets (`packages/presets`) and scripts.

This directory holds TLA+ specifications of the program, the configurations
that check them with TLC, and theorems about them that TLAPS checks. Paths
below are relative to the repository; `contracts/...` stands for
`src/contracts/...`.

## 1. The system

| Component | State | Operations | Interacts with |
|---|---|---|---|
| Swap request (`contracts/utils/MesonHelpers.sol`) | none: an encoded swap is one 256-bit word | decode fields, fees, shares, core-token parts; check signatures | everything |
| Shared state (`utils/MesonStates.sol`, `utils/MesonTokens.sol`) | `tokenForIndex`, `indexOfToken`, `poolOfAuthorizedAddr`, `ownerOfPool`, `_balanceOfPoolToken` | list and remove tokens, collect and pay out tokens | token contracts |
| Initial-chain side (`Swap/MesonSwap.sol`) | `_postedSwaps` | `postSwap`, `postSwapFromInitiator`, `postSwapFromContract`, `bondSwap`, `cancelSwap`, `cancelSwapTo`, `executeSwap`, `directExecuteSwap`, `simpleExecuteSwap` | shared state |
| Pools and target-chain side (`Pools/MesonPools.sol`) | `_lockedSwaps` | `depositAndRegister`, `deposit`, `withdraw`, `addAuthorizedAddr`, `removeAuthorizedAddr`, `transferPoolOwner`, `lock`, `lockSwap`, `unlock`, `release`, `directRelease` | shared state, recipient contracts |
| Owner and premium manager (`MesonManager.sol`, `Meson.sol`, `UpgradableMeson.sol`) | `_owner`, `_premiumManager` | token listing, `withdrawServiceFee`, `directSwap`, transfers of both roles | all of the above |
| PoD and UCT tokens (`Token/*.sol`) | ERC20 balances; locked balances, lock times and rewards | mint; `lockPoD`, `unlockPoD`, `withdrawRewards` | the Meson contract spends them without approval |
| SDK swaps and signing (`packages/sdk/src/Swap.ts`, `SwapSigner.ts`, `SignedSwap.ts`) | none | encode, decode, sign, compute fees | must agree with `MesonHelpers.sol` |
| SDK client (`MesonClient.ts`) | list of tokens | one method per contract call, status of swaps, fetching of events | an adaptor |
| SDK adaptors (`adaptors/**`) | clients of nodes | send, poll, retry, fail over to other nodes | remote nodes |
| SDK contract objects of other chains (`adaptors/{solana,sui,aptos,starknet,ckb}/index.ts`) | memoized answers | turn the calls of the client into transactions and views of their chain, and transactions back into calls | the client above, nodes below |
| Presets (`packages/presets/src`) | cache of clients | `checkSwapStatus` over two chains | SDK clients |
| Scripts (`scripts/**`) | none | deployment, upgrade, pool administration | contract |

What is hard here:

* **Interleaving.** Every handler is atomic on its chain, but anyone may call it
  at any time: cancel races execute, unlock races release, two LPs race for a
  bond, `directRelease` races `lockSwap`.
* **Records that are deleted.** `_postedSwaps` and `_lockedSwaps` are cleared on
  some paths and marked (with the word 1) on others. That a cleared request
  cannot be used again depends on deadlines in other handlers.
* **Books.** Pool balances, escrowed deposits, locked amounts, fees, shares and
  core-token parts are computed separately in each handler from one word; the
  contract must hold what it owes after any sequence of calls.
* **Registries.** Pools can be left, handed over and given away; tokens can be
  removed while balances and swaps refer to them.
* **Two chains** with two clocks, connected only by a signature.
* **Clients** that read several chains one after the other, and one chain in
  several requests, keep answers, time out and retry.
* **Many chains** behind one interface: what one contract object writes another
  must read, and what a wallet on one chain signs the contract of another must
  accept.
* **Nodes** that refuse, answer late or not at all, lag behind and replace blocks.

What makes each component correct: a request takes a deposit at most once and
the deposit ends with exactly one party (initial-chain side); a lock is paid at
most once, before expiry, or returned after its time (target-chain side); the
contract is solvent (shared state); a pool and its fees can only be moved by
whom the registry says (pools, manager); a client reports only what happened,
and what it signs and sends is taken by the contracts (SDK, presets).

## 2. Modules

| Module | Models |
|---|---|
| `MesonHelpers` | the swap request as the contract decodes it, token types, fees, amounts |
| `MesonStates` | the shared state, the token contracts around it (`ledger`), block time, the signatures given out; operators for collecting and paying tokens |
| `MesonSwap` | `MesonSwap.sol`, one action per handler |
| `MesonPools` | `MesonPools.sol`, one action per handler |
| `MesonManager` | the deployed contract: both of the above over the same state, the calls of the owner and the premium manager, time and signing; `Init`, `Next`, `Spec` |
| `PostedEscrow` | abstract: what the initial-chain side promises about each request |
| `LockedEscrow` | abstract: what the target-chain side promises about each lock |
| `MesonProperties` | the safety properties, and the refinement mappings to the two abstract specifications |
| `MesonSolvency` | the properties that sum over the books |
| `CrossChainSwap` | one swap over two chains: `MesonSwap` on the one, `MesonPools` on the other, each with its own clock and books; the initiator and the provider as parties, careful or not |
| `SwapStatus` | `CrossChainSwap` with a client that checks the status of the swap |
| `SwapEncoding` | how the client encodes a request, and how the contract and the client decode it |
| `PoDStaking` | the PoD token: locking, unlocking, rewards |
| `SwapSigning` | `SwapSigner.ts`, `SignedSwap.ts`, `SwapWithSigner.ts`: the kinds of signers, the keys they keep, the texts that are signed and the digests that the contract checks |
| `ClientCalls` | the calls of `MesonClient.ts`: which method, with which arguments |
| `SolanaCalls`, `MoveCalls`, `OtherCalls` | the contract objects of Solana; Aptos and Sui; Starknet and CKB: a call as a transaction, and a transaction as a call |
| `AdaptorCalls` | swaps between two chains through all four of these |
| `ChainReaders` | the views of the contract objects: their requests, what is memoized, what is made of the answers |
| `AdaptorReads` | a page that reads a changing chain through `ChainReaders` and the client |
| `Failover` | a call to several nodes, in the four ways the SDK makes one |
| `TransactionWait` | `waitForTransaction` of seven adaptors |
| `EventRanges` | the fetching of events, range after range |
| `NodeCalls` | the three composed: sending and then waiting, or fetching, through one failover adaptor |
| `MCMeson`, `MCCrossChain`, `MCEncoding`, `MCCalls`, `MCReads` | instances for TLC |
| `SetFacts` | lemmas about sums and maxima over finite sets |
| `MesonProofs`, `MesonSolvencyProofs`, `CrossChainProofs`, `SwapEncodingProofs`, `PoDStakingProofs`, `AdaptorCallsProofs`, `NodeCallsProofs` | theorems and their proofs |

### How the state corresponds

* An encoded swap is the record of its decoded fields. Keys of mappings are
  these records (`postedSwaps`), or pairs of swap and initiator (`lockedSwaps`;
  the code hashes the pair).
* The words `initiator|poolIndex` and `until|poolIndex` are records; the values
  0 and 1 that the code gives a meaning of their own are `NotPosted`/`Executed`
  and `NotLocked`/`Released`. A caller of `postSwapFromContract` can store
  either, and so it can here.
* `balanceOfPoolToken` is a function of the pair of token index and pool index.
  Core tokens are looked up under `indexOfToken[address(1)]`, at the time the
  code does.
* `ledger` stands for the token contracts and the native balances: a payment
  moves an amount between the contract's address and another.
* `require`s, checked subtractions and failing calls are guards. A call that
  reverts changes nothing, so it is no step. Within a handler the order of the
  changes does not matter for that reason, but what each reads does: a handler
  that changes a balance twice chains the two changes.
* Signatures are a set that only grows. A handler that checks a signature asks
  whether it was given out. The digest that `cancelSwapTo` and `directSwap`
  check is the same plain pair of swap and recipient, so it is one kind here.
* In `CrossChainSwap` both sides are instances of the modules of the contract,
  with `sourceTime` and `targetTime` for their `now`, and fixed registries. The
  two clocks may be `MaxSkew` apart. The actions are the calls that
  `packages/sdk/src/MesonClient.ts` makes for a party. A careful party does what
  the comments of the handlers number 1 to 4, each step only when it sees the
  one before; and time does not pass while it has something to do at once
  (`Quiet`). A party that is not careful may make any call, or none.
* `SwapStatus` adds the two awaited reads of `checkSwapStatus`: `reading` is the
  answer that is waited for, with what is kept meanwhile, and `report` what was
  returned. Between the reads any step of the swap can happen.
* In `SwapEncoding` a word is a record of its number fields, the set of the salt
  header's bits that have a meaning, and the two 16-bit words of salt data.
  `Decoded` maps it to the record that the other modules use.
* In `PoDStaking`, `withdrawn`, `staked` and `minted` are history.
* In `SwapSigning` a digest is the record of what is hashed, and a signature the
  pair of key and digest; recovery gives another key for another digest. A recipient is
  its form and two parts, so that clipping it to 20 bytes loses one of them.
  `signing` holds the signatures that a wallet is asked for: the awaited calls of
  `remoteSigner`, between which the account can be switched and the page
  reloaded.
* In `ClientCalls` and the contract objects a call is its name and arguments, and
  a transaction what the chain knows it by: on Solana the operation, the words
  of data (at most four) with their lengths, and the accounts; on Aptos and Sui the module, the
  function, the types and the arguments; on Starknet selector and data; on CKB
  the script of the swap cell and the witness. A parser of Solana finds a word by
  its position in the data, so that a wrong length makes it unreadable.
* In `AdaptorCalls`, `posted` and `locked` are what the two chains keep. Their
  contracts take from a transaction what the parser of the chain reads from it:
  the contracts themselves are not in the repository. EVM chains check
  signatures as `MesonHelpers.sol` does.
* In `AdaptorReads` a read is the list of answers it has got, and what has been
  true since it began. `cache` has the memoized promises, which are filled by
  the first request, shared by reads that come while it is under way, and kept;
  a rejected promise is kept, too, where the code keeps it.
* In `Failover` a request that is given up is still under way (`late`): the node
  can take it. `accepted` is what nodes have taken, which is one transaction if
  the wallet signs once, and another for each node if the client of the node
  signs (Solana, Sui). In `TransactionWait` each poll is a function of its own.

### What is left out, and why

* The positions of the fields in the word, hashing and signature recovery. The
  models of the contract start from decoded fields; `SwapEncoding` covers the
  fields that are encoded in others.
* The client's older format of the salt data (`_splitPos`, `_pFactor`), which
  this contract does not know, and its price in floating point
  (`coreTokenAmount`), which is out of the reach of TLC's integers.
* Signatures for withdrawals, and the branches of the client for
  `directExecuteSwap` and `postSwapFromContract`; both handlers are in the
  contract's modules.
* How CKB and Sui pick the cells and coins they pay with, and Bitcoin its inputs; the
  contract object of TON (an archived file that nothing imports) and of Bitcoin
  (no contract: a plain payment).
* How CKB keeps the references to the locks of a shard in one cell. An item is two
  bytes, the time that is left and one byte of the swap's hash, and may match another
  swap. Items are never dropped: where the start of the list would move past the
  expiry of one, the code writes a negative number into its data, which can not be sent.
* `waitForTransaction` of EVM chains and Aptos, which is in their libraries, and
  of zkSync, which is that of EVM chains.
* The end of the process on an exception that nobody catches. The interval of
  Bitcoin's `waitForTransaction` does not catch a failed request (`BtcAdaptor.ts:146`):
  a page goes on, as the model does, but Node.js since version 15 ends.
* Nodes that answer a request for logs with fewer than there are. A node behind
  the others is a node that does not know the transaction yet.
* The cache of clients and the look-ups of networks and tokens in the presets.
* The factor between the 6 decimals of the contract and the decimals of a token
  (`_amountFactor`), and with it the rounding of tokens of fewer decimals.
* Token approval: a payer is taken to have approved the contract. Without
  approval the call would revert, that is, not happen.
* Value sent along with a call that does not need it. It would only raise the
  contract's holdings.
* Nested calls from recipient contracts. Every handler writes all of its state
  before its one external call, so a nested call behaves as one that follows;
  callers that are contracts are in `Contracts`. The contract itself is never a
  caller. Of tokens that it is sent with `depositWithBeneficiary` a recipient contract is
  taken to accept the whole amount: it is approved for that (`_transferToContract`,
  `utils/MesonStates.sol:152-182`), and could take less of a stablecoin.
* Reads of an older block by `checkSwapStatus`, and an initiator other than the
  one of the swap in `getPostedSwap`.
* The faucet of one chain in `_transferCoreToken`, events, views and upgrades.

## 3. Runs

The runs of the contract are instances of `Spec` in `MCMeson`. Amounts are in
half dollars and a unit of time is about 20 minutes; the periods keep the order
of the real ones (lock time + margin < minimum bond time < maximum bond time).
Bounds that are not in the code are named constants: `MaxTime` (block time
stops), `Initiators` and `Recipients` (addresses that calls name), `Members`
(addresses that owners authorize), `Amounts` (of deposits, withdrawals and
fees), `Listings`, `Delistings`, `Managers`, `Signable`, `MaxSkew`, `MaxSupply`,
`Rates`, `Words`, `Requests`. Block time always reaches past the expiry of the
latest swap or the window in which anything about it can happen.

| Run | Question | Instance |
|---|---|---|
| `posted` | Is a request used once, settled in full, to one party? Is nothing lost when both sides are on one chain? Where can fees go? | 1 swap between 2 tokens of one chain, 3 addresses, 2 pools, all posting and execution paths, cancellation to others, locks and releases, direct swaps, service fees moved |
| `locked` | Is a lock released at most once and in time, over repeated locking? Does the contract stay solvent? | 2 swaps (one with a core-token part, one with a partner share), 2 pools that can lock, a partner's pool |
| `direct` | Who pays for a direct release, and who may ask for it? Do the token maps stay inverse and the books balanced when the core token changes its index? | a fee-waived swap and one to a contract, a manager who changes, the core token removed and listed again at another index |
| `registry` | Who owns and who serves a pool? | 3 accounts, the zero address and the contract as members, 2 pools |
| `crosschain` | Who can lose what, on two chains? Does everything come out of escrow? Are reports of it right? | 1 swap, clocks up to 3 apart, each party careful or not, a client whose clock is that of either chain |
| `encoding` | Does the contract decode what the client encodes, and the client show what the contract pays? | every salt header; amounts around each power of ten, words of 8 bits |
| `staking` | Are rewards earned once, and locked tokens there? | 2 holders, 2 tokens, 3 rates (0 among them) in fifths, so that rewards are rounded, ages on both sides of both periods |
| `calls` | Is what a user signs accepted on each chain, and can a provider execute with what it reads of a release? | 8 swaps: each of the six kinds of chain as initial and as target chain, Tron on each side; 3 kinds of signers, 2 accounts, 2 signatures |
| `reads` | Is a page told what was true during its read? | 6 kinds of contract objects, 2 reads at the same time, 1 failing request, 3 changes of the swap and its pool |
| `nodecalls` | Is every node tried, nothing paid twice without notice, each block fetched once, a found transaction confirmed, and does every wait end? | 3 nodes, 10 kinds of adaptors; 2 polls at the same time, 1 that fails or is answered by a node behind, 4 blocks and reorganisations of the last |

Bounds of the last three:

* `calls`: `MaxSigned` = 2 signatures, a request and a release. What is signed is
  signed before the first call (`signing` is empty for calls), since calls only
  use the signatures that there are. A provider releases directly only a swap it
  has seen posted by the same initiator, as the server does.
* `reads`: the page asks about one thing throughout (`subject`): a status, an
  owner or a balance. The bounds `MaxReads`, `MaxFailures`, `MaxChanges` are
  reached in every kind of read, so that all requests of one can be answered
  before or after each change; the longest read has four requests.
* `nodecalls`: a wait begins after a call that the first node answered at once
  (`AnsweredAtOnce`), since the calls before do not matter to it. A poll is one
  request, or two for Bitcoin; that a request to several nodes ends is what
  `CallEnds` says. Time counts in units of the limit per node, so the 30 seconds
  of the whole are two to three of them. `MaxHeight` is past `Final`, after which a block
  stays.

The properties:

* `RequestsAreUsedOnce` – refinement of `PostedEscrow`: open → held → closed,
  never back; the bond is set once. The crux is that records are deleted by
  `cancelSwap` and by a late `executeSwap`.
* `LocksAreReleasedOnce` – refinement of `LockedEscrow`.
* `DepositsAreSettled`, `LocksAreSettled`, `DirectReleasesAreCovered` – where the
  money of a swap goes when its record changes, who has signed for it, and that
  it is the whole amount.
* `Solvent` – the contract holds at least what it owes for every token;
  `NothingStranded` – exactly that. Both need that no index is listed for two
  tokens (`ListingAssumption`), since a pool would be paid out in the one what it
  has deposited in the other. The second
  also needs that the contract is nobody's payee, that nobody posts with the words
  0 or 1 (see the hazards), and that the core token is not removed
  (`NothingIsSentAway`, `CoreTokenStays`). If
  the core token is removed while a swap has it locked and not listed again,
  `unlock` credits index 0, which `utils/MesonTokens.sol:11` calls unsupported;
  when it is listed at another index the balance is under that one. `Solvent`
  holds in both cases.
* `FeesStayInPools` – service fees leave pool 0 only by moving in full to one
  other pool that has an owner, in a call that pays nobody and changes no swap,
  no lock and no registration. The code says more, that nobody can take them from there, which
  is not so: see the end of this section.
* `MembersHaveOwner`, `LeftPoolIsFrozen`, `TokenMapsAreInverse` – the registries.
* `InitiatorIsWhole`, `ProviderIsWhole` – a careful party loses nothing, whatever
  the other does: her deposit is gone only if the recipient has been paid, or can
  be at once (`ReleaseGoesThrough`: the guards of `release` hold); its funds are
  gone only if it has the deposit, or can take it. A careful initiator gives out
  the release signature only while the lock is before `until`, since afterwards
  the provider can unlock and still execute. A careful provider is safe because
  `lockSwap` keeps 5 minutes (`LOCK_MARGIN`) between the end of the lock and the
  expiry of the swap: it rests on block times of the two chains that differ by
  no more than the margin and one (`SkewAssumption`). The instance is at that
  bound, with a margin of 2 and clocks 3 apart; with clocks 4 apart
  `ProviderIsWhole` fails.
* `ReleaseIsRewarded`, `EscrowsEmpty` – liveness, see section 5.
* `ExecutedIsCovered`, `PaymentIsReported` – what a client shows. Since the
  initial chain is read first, a deposit that is shown as taken comes with a lock
  or a release; and because the target chain is read also when no deposit is
  there (`NoneOrAfterRunning`), every payment is shown in the end.
* `DecodedIsExclusive`, `ClientKnowsReceive`, `EncodedAsAsked` – the encoding.
  The first is `ExclusiveExtras`, which the other modules assume of every swap
  (`SwapsAssumption`): here it is a result. `ClientKnowsReceive` is about tokens
  with an index below 191; for others the client may show a core-token part that
  the contract does not give.
* `LockedIsBacked`, `RewardsAreEarned`, `ClaimsStay` – the PoD token. No second
  of a lock is rewarded twice, although `lockPoD` turns pending rewards into an
  earlier start, and what is claimable can only be taken away by the owner: by
  lowering the rate, and by raising it, which can cost one unit. Past the first
  period the claim is a difference of two rewards that are each rounded down,
  and a higher rate can raise the subtrahend alone.
* `InitiatorHasSigned`, `SignedIsAccepted` – what a user signs is for the address
  that she is told is the initiator, while she switches accounts, signs several
  swaps at once and reloads the page; and the contracts (and `SignedSwap.ts`)
  recover that address from it, for every pair of chains and kind of wallet.
* `ReleasedIsExecutable` – a provider that sees a release on the target chain can
  execute on the initial chain with the signature and the recipient it has read.
  The recipient is clipped twice, once by the signer and once by the client, on
  chains whose addresses are longer than 20 bytes.
* `ReadAsSent` – a parser gives back what the client was asked to send, but for the
  pool on CKB and the initiator of a direct release on Aptos, which providers do not
  need. `CallsNameTheirStores` – the accounts, coins and amounts of a transaction are
  those of the swap or the deposit. The amount of a first deposit on
  Solana is dropped by the code, and the property leaves it out; where the contract
  objects name the balance of the signer's pool, which they do also for a swap that
  another pool has bonded or locked, the property accepts that one.
* `PostedWasSo`, `LockedWasSo`, `OwnerWasOwner`, `BalanceWasSo` – what a read
  returns was true at one moment of the read and is no mixture of several. The
  exceptions that they name are behaviour of the code: on Starknet a swap without
  a pool is shown as bonded; a page on Solana or Sui that has seen a pool without
  owner keeps to that, and one that has seen an owner keeps to it;
  on CKB a swap that was unlocked is shown as released, and so is one whose lock
  comes between the two requests of the read: no cell is there for the first of them
  (`ckb/index.ts:104`), and an item for the second (`:116`). The run reaches both.
* `FailureHasCause` – a read fails because a request has failed, or because of an
  owner that is absent: `formatAddress` of Sui and Aptos throws on it, and `ownerOfPool`
  and `getLockedSwap` call it unguarded (`MesonClient.ts:343`, `:642`). On Sui, where
  an absent owner is kept, a page that has asked for it can not read a lock
  of that pool until it is loaded again. `getPostedSwap` checks first, and never fails.
* `RejectedAskedAll`, `SurplusWasGivenUp` – a call is given up only after
  every node had its chance, and a node took a payment that is not the reported
  one only if that node, or one with the same transaction, was given up. A second payment is
  possible only on chains where the client of each node signs for itself.
* `BlocksAreFetchedOnce` – the ranges have no gap and no overlap.
* `FoundWasConfirmed` – a transaction that is reported has had the confirmations
  asked for; on Bitcoin not if its block is replaced between the two requests of
  a poll. `NothingHangs` – see section 5; a wait on CKB that begins before the
  transaction is committed never ends and reports nothing, nor does one on
  TON for a transaction that can not be read. The property leaves these two out.

Small instances of the contract suffice because handlers treat swaps, pools and addresses
alike: the interesting cases are pairs (two callers, two swaps, a pool and a
second one, before and after a deadline), and each is present. The theorems
below drop the bounds for all properties but the four about liveness. For the encoding, the scale of
an amount changes at every power of ten alike; one digit and a half of precision
in words of 8 bits have three scales, all header bits are the real ones. For the
PoD token, a reward depends on the age of a lock only through its comparison
with the two periods, and the instance has ages below, at and above both.

Deadlock checking is off: block time is bounded, and when it is used up and all
money is withdrawn nothing more can happen.

### Where the comments and the code disagree

| Run | Comment | What the code does |
|---|---|---|
| `posted` | `MesonPools.sol:233`: "Currently, no one is capable to withdraw fund from pool 0" | the owner can, with `withdrawServiceFee` (`MesonManager.sol:56-60`), to any pool with an owner, which can withdraw it. The run takes this call; `FeesStayInPools`, which passes, says what remains of the comment |
| `clientfee` | `packages/sdk/src/Swap.ts:230`: "0.005 BNB or SOL", and `:232`: "0.00005 BTC" | the contract charges at least 0.0005 SOL and 0.00001 BTC (`scripts/config/MesonConfig.sol:15`), so the client shows another amount than is paid |
| `small` | `MesonPools.sol:194-195`: the fund "is guaranteed to be released" | a swap whose amount after the LP fee is below the service fee can be locked, but its release always reverts |

## 4. Theorems

Each holds for every choice of the constants that satisfies the named
assumptions, which every run evaluates for its instance:

| Assumption | What it says |
|---|---|
| `IndexAssumption`, `SwapsAssumption`, `FeeAssumption`, `AddressAssumption`, `BondTimeAssumption`, `LockTimeAssumption`, `DeploymentAssumption` | constants have their types, salt bits exclude each other as they do in the decoder, `LOCK_TIME_PERIOD` is positive, indexes are at most 255, the deployment lists each token once |
| `ListingAssumption` | an index is never listed for two different tokens. The contract allows the owner to do that; what pools have deposited of the one would be paid out in the other |
| `FinitenessAssumption` | swaps, initiators and pools are finite sets, so that what is owed for them is a sum |
| `PartiesAssumption` | initiator, provider and contract of `CrossChainSwap` are different addresses; the recipient may be the initiator or the provider. Each chain has the token listed, and the provider a pool |
| `SwapAssumption` | there is a swap; it is of the tokens listed under index 1, not waived of its fee, not to a contract, and its amount covers its fees |
| `SkewAssumption` | the clocks of the chains are at most `LOCK_MARGIN + 1` units apart. It is tight: with one unit more, `crosschain` finds a provider that is paid nothing |
| `GraceAssumption` | what a client adds to the deadline of a lock before it takes it for expired is a number |
| `PoDAssumption` | the PoD contract is no account, accounts and rates are finite sets, there is a rate, the period without a reward is shorter than that with a lesser one |
| `EncodingAssumption` | amounts have at least two digits, the units of amounts and prices are positive, and a 16-bit word has room for every leading number next to the power of ten |
| `WordsAssumption` | the words that anybody sends fit the fields of a word (`EveryWord`) |
| `RequestsAssumption` | what a client is asked to encode is numbers and known header bits, and no amount for core tokens is encoded as the mark for all of it. `NoAmountIsTheMark` proves the latter for the numbers of the code and amounts of 40 bits |
| `ReadersAssumption` | the kinds of chains are the six that `ChainReaders` has, the other initiator is another one, and neither an initiator nor an owner is one of the marks for nobody |
| `ChainsAssumption` | no swap stays on CKB. The parser of CKB tells the two sides of a swap apart by its initial chain (`adaptors/ckb/index.ts:293`), so that it would take the lock of such a swap for its posting, and its release for its execution |
| `NoneAssumption` | the mark for what is not there is none of the ways in which a swap ends |
| `NodesAssumption`, `LimitsAssumption`, `PollsAssumption`, `ChunkAssumption`, `MaxSignedAssumption` | the mark for no node is no node; limits and lengths are numbers, positive except the bound on signatures |

### The contract (`MesonProofs`)

* `TypeCorrect`: `Spec => []TypeOK`. `TypeOK` is inductive.
  Its arithmetic content is that no balance becomes negative: each debit stands
  under a check (`Covers`, `CanTransfer`, `CanTakeFees`), and a handler that
  debits twice checks the second time against the result of the first.
* `MembersAlwaysHaveOwner`, `LeftPoolsStayFrozen`, `TokenMapsStayInverse`.
  `OnlyRegistrySteps` and `OnlyTokenSteps` reduce `Next`
  to the handlers that write the registries. The inductive invariant of the
  pools, `RegistryInv`, adds to `MembersHaveOwner` that pool 0 is never owned
  (`FeePoolIsUnowned`): otherwise its owner would serve pool 0, which is what
  being unauthorized means.
* `EveryRequestIsUsedOnce` and `EveryLockIsReleasedOnce`:
  the refinements. `OnlyPostedSteps` and `OnlyLockedSteps` say how one word can
  change in a step and under which deadline; `PostedNext` and `LockedNext` map
  each such change to a step of the abstract specification, or to a stutter.
  A tick of the clock maps to closing every request that has become too old.
* `DepositsAreAlwaysSettled`, `LocksAreAlwaysSettled`,
  `DirectReleasesAreAlwaysCovered`, `FeesAlwaysStayInPools`:
  the money properties of single steps, from `TypeOK` alone. `OnlySettlingSteps` and
  `OnlyLockSteps` find the handlers that can end a deposit or a lock. What these
  pay is computed from the operators that move tokens: `CreditedAt`, `DebitedAt`
  and `FeesTakenAt` say what each adds to every account, so that a chain of them,
  where the two tokens or the two pools may be the same one, adds up;
  `PaidIsReceived` says the same of the two transfers of `_release`, which may be
  of one token. `FeePoolKeeps` goes through all handlers: what a handler takes
  from a pool it takes from the caller's, and no caller is authorized for pool 0.

### The books of the contract (`MesonSolvencyProofs`)

* `AlwaysSolvent`: `Spec => []Solvent`. The liabilities of `Solvent` are sums over
  sets that change with every step. The proof works on sums over fixed sets
  (`PoolOwed`, `PostedOwed`, `LockedOwed`), in which whatever is not owed counts as 0;
  `CoveredIsSolvent` leads from these to the liabilities. `SolvencyInv` says that
  what is held covers what is owed (`CoveredAll`), and adds to it (`Books`) the
  types, that the two maps of the token registry are inverse, that every
  index with a token got it from the deployment or a listing (`ListedTokens`), and
  that no swap is locked whose fee exceeds its amount (`CoveredLocks`). What is
  owed counts index 0 for the core token (`Stands`): a lock made while the core token
  had an index is unlocked to index 0 if it has been removed since. One lemma per
  handler (`PostCovers`, `ExecuteCovers`, `LockCovers`, ...) shows that
  holdings fall by no more than what is owed.
* `NothingIsEverStranded`: `Spec => []NothingStranded`, under the two hypotheses that
  `MesonSolvency` states next to it, and that `posted`, which checks it, satisfies. `NothingIsSentAway`: the contract
  receives tokens through its handlers only, is nobody's payee, and nobody
  posts with the words 0 or 1, each of which the contract takes and which strand
  a deposit; `CoreTokenStays`: the owner does not remove the core token.
  `Covering` carries the equality along with the inequality. `MesonIsNoParty`
  adds that no deposit is paid back to the contract; `IndexedInv` that nothing
  is booked under index 0, no swap is posted with it, and nothing is locked with
  core tokens while these have no index.
* `SetFacts` has the lemmas about sums and maxima. The library's induction
  over finite sets takes an operator as a parameter and can not be used here;
  each lemma takes a smallest subset for which it fails instead (`SmallestSubset`),
  and removes an element from it. `SumOfChanged`, `SumWithoutZeros`,
  `SumOfFewer` and `SumGrows` are those that the other proofs need.

### Both chains (`CrossChainProofs`)

* `InitiatorStaysWhole`, `ProviderStaysWhole`, for every length of the periods, every
  amount and any two clocks that `SkewAssumption` allows. `CrossInv` relates the two chains:
  which words the deposit and the lock can hold together with what has been signed,
  released and paid (`DepositInv`, `LockInv`, `LedgerInv`), that the clocks stay close
  (`SkewInv`), and for each party what it can still do in time (`InitiatorInv`,
  `ProviderInv`): a careful provider that has lost its tokens holds a release signature
  and a bond, and the deposit can not be cancelled before a time that it gets.
* `ExecutedIsAlwaysCovered`, for `SwapStatus`: `ReadInv` adds that a read which
  saw the executed swap, and has yet to read the target chain, was preceded by the
  release signature.

### The PoD token (`PoDStakingProofs`)

* `LockedIsAlwaysBacked`, `RewardsAreAlwaysEarned`, `ClaimsAlwaysStay`, for every
  number of accounts and every sequence of rates. `StakingInv` has types, that
  no lock begins after now (`StartInv`), that what an account has been paid, what is saved for it
  and what the time since the start of its lock can be worth at the highest rate
  are together at most what it has earned (`EarnedInv`), and that locked amounts sum to at most what the
  contract holds (`BackedInv`). `ClaimsStay` allows for one unit: raising the rate rounds twice.

### The SDK

* `ExtrasAreExclusive` (`SwapEncodingProofs`): whatever the word, its decoded extra
  amounts exclude each other, by the masks of the salt header. It is what
  `SwapsAssumption` asks of the swaps in the other theorems.
* `EncodedIsAsAsked` (`SwapEncodingProofs`): the contract decodes what the client was
  asked for, rounded down to the leading digits, for every precision, unit and
  amount. `TenToDef` to `CeilLogBounds` are about powers of ten and the logarithm.
  They need an induction, which they take from the least
  number of a set (`InductiveSet`); that the recursive `TenTo` has the values of its
  equation is proved, too (`PowersExist`, `PowersAreUnique`). `FewDigits` and
  `ManyDigits` say what a compressed number is made of, `DecompressScaled` what
  the contract makes of that, and `CompressedIsRounded` puts them together: the
  number decoded is no greater than the one encoded, is less by less than one part
  in `Factor`. `EncodingInv` says of the word
  that it is one that anybody sends or what `Encode` makes of the request.
* `ClientAlwaysKnowsReceive` (`SwapEncodingProofs`), for every word in the new format,
  whoever made it: what the client takes as fees and extra amounts is what the contract
  does (`SameServiceFee`, `SameExtras`, `SameDecompress`), wherever the two know the
  same minimal fee.
* `InitiatorHasAlwaysSigned`, `SignedIsAlwaysAccepted` (`AdaptorCallsProofs`), for all swaps, wallets, kinds of signers and recipients.
  `SigningInv` says that a key outlives the request it was made for as long as the
  page waits for an answer (`KeysAreKept`), what each answer under way is signed
  with (`CallsAreOK`), and what is signed (`DataAreOK`). `PrehashIsContracts`,
  `WalletRequestIsContracts` and `WalletReleaseIsContracts` show that the digests
  of keys, of wallets and of the contracts are of the same text.
* `AlwaysReadAsSent`, `ReleasedIsAlwaysExecutable`, `CallsAlwaysNameTheirStores`
  (`AdaptorCallsProofs`), for all swaps, pools, providers and recipients.
  The first half of the argument has no state: `SolanaReads`, `AptosReads`, `SuiReads`,
  `StarknetReads`, `CkbReadsMade` and `CkbReadsSpent` follow a call through the
  transaction of its chain and back, method by method. On Solana this comes
  down to `DigitsGrow`: the words of an instruction end at different places, so that
  the digits cut out are one word and no other (`WordIsRead`). `StoresOfCall` and
  `PoolCallIsSentWell` say what a transaction names.
  The other half is the invariant `ChainInv`. A cell of CKB has to be of the swap that
  the call is about (`PostOK`, `LockOK`), since its parser reads the swap from the
  cell that is spent; a lock names a recipient of its chain and the
  initiator that has posted the swap; and the signature of a release that is known
  is that of the initiator, over the recipient as an execution will clip it (`Releaser`,
  `PaidIsClipped`, `LockedIsClipped`). `PostedBy` keeps the initial chain in step
  with that: whoever the target chain knows as the initiator has posted the
  swap, or it is over and can be posted no more.
* `EveryBlockIsFetchedOnce` (`NodeCallsProofs`), for every length of ranges and
  every two blocks. `RangesInv` adds to the property that the loop never gets past
  the last block (`RestIsThere`): otherwise the rest, which is fetched when no
  whole range is left, could be empty, and the last block be in no range.
  `RangeIsAdded` shows that a range begins where the ones before it end.
* `RejectedAlwaysAskedAll`, `SurplusWasAlwaysGivenUp` (`NodeCallsProofs`), for every
  set of nodes, and every limit. The
  inductive invariant `CallInv` adds that the nodes that were given up are just those whose
  request is late (`LateWereGivenUp`), that in turn only the current node is
  waited for and those before it have failed (`OneIsWaitedFor`,
  `EarlierHaveFailed`), that a taken transaction is one that some node was
  sent (`AcceptedWasTaken`), and that an answer heard after the first one is to the same
  transaction (`AnsweredIsReported`). `FailuresAre` and `FailureIs` reduce refusals,
  broken connections and timeouts to one kind of step.
* `FoundWasAlwaysConfirmed` (`NodeCallsProofs`), for every number of polls and
  confirmations. `WaitInv` adds that the history keeps the greatest depth that the
  transaction has had (`DeepestIsKept`), and of each of the polls under way, of which
  there can be several, that what it has read was so (`PollOK`).
* `PostedWasAlwaysSo`, `LockedWasAlwaysSo`, `OwnerWasAlwaysOwner`, `FailureAlwaysHasCause`,
  `BalanceWasAlwaysSo` (`NodeCallsProofs`), for every number of reads at the same time, any failures and
  any changes on the chain. The properties speak of the last answer only; the
  inductive invariant `ReadsInv` says of each read under way what its answers so far
  tell of the time since it began (`ReadOK`). The store of a swap was read at a moment
  with some owner of its pool (`StoreReadOK`), and the owner asked for next
  is one of that time, or one that has been kept (`OwnerReadOK`); an answer is
  no mixture because a pool that has had an owner goes on having one (`Past`), so that only
  the two moments that `TakenFor` names can be taken for each other. A balance
  was zero as long as the address had no pool (`BalanceReadOK`). On CKB an item that was
  read says that there has been a lock (`RefItemOK`): with the request before it, that
  there was none at first, it is either over or came between the two. `CacheOK` says of
  the memoized owner that it was one since the page was loaded. `FailuresInv` adds
  that a promise is kept as rejected only after a request has failed. `ReadGrows`
  adds an answer to a read, `ReadGoesOn` carries it over any step of the chain, and
  `PostedIsTold`, `LockedIsTold`, `OwnerIsTold`, `BalanceIsTold` conclude what is told
  when nothing more is asked.

### What is only model-checked

* `ReleaseIsRewarded`, `EscrowsEmpty`, `PaymentIsReported` and `NothingHangs`:
  liveness under fairness and `ENABLED` are out of the provers' reach. Every invariant
  and every action property of the passing runs is also a theorem.
Two remarks on the tools that the modules bear traces of. tlapm 1.4.5 takes `@` in a
second component of one `EXCEPT` for the value of the original function, which is not what
TLA+ says; `Moved` therefore is two nested ones. And PTL treats a hypothesis
that has only constants as one that always holds, as it should, so that
`NothingIsEverStranded` can name its own.

## 5. Fairness

`Spec` of the contract has no fairness condition: no call is ever guaranteed to
happen, and no property of it depends on one.

`FairSpec` of `CrossChainSwap` assumes weak fairness of
* both clocks, since chains keep producing blocks (up to `MaxTime`, which is past
  every deadline);
* `Cancel`, `Unlock`, `Release` and `Execute`, one by one. Each of them is open
  to anybody or in the interest of the party that can call it: the initiator
  gets her deposit back, the provider its lock or the deposit, and anybody who
  has the release signature can have the recipient paid.

`StatusSpec` adds that the caller keeps checking (weak fairness of `StartCheck`)
and that a node which is asked again and again answers in the end (strong
fairness of the two reads, since a read may fail every time it is tried).

`Spec` of `NodeCalls` assumes that timers run and fire (`CallFairness`), that the
intervals of a wait fire and what a node has answered is heard
(`WaitFairness`), and that a node which is polled again and again answers at last.
The last is an assumption about the nodes; it matters most to Bitcoin, which has
one address, and to Tron, whose client the failover hands out as it is. A call to
several nodes needs none: `CallEnds` holds whatever they do, but for a call
in the way `single`, which has no limit. `Spec` of `AdaptorCalls` and
`ReadsSpec` of `AdaptorReads` have no fairness.

No fairness is assumed for signing, posting, bonding or locking: a party may
stop at any point before it has something to collect. Under these assumptions
everything leaves escrow (`EscrowsEmpty`), also when neither party is careful,
and a paid recipient means a paid provider if the provider is careful
(`ReleaseIsRewarded`). If the provider is not, it may release without a bond, and
is not paid.

## 6. Plan

In this order, each with its runs:

1. *(done)* the contract on one chain and its theorems;
2. *(done)* `CrossChainSwap`: the initial-chain side on one chain and the
   target-chain side on another, two parties, liveness;
3. *(done)* `SwapEncoding`: salt bits, fixed-precision amounts and fees, of
   contract and client;
4. *(done)* `PoDStaking`;
5. *(done)* `SwapStatus`, on top of `CrossChainSwap`: `checkSwapStatus` of a swap
   that moves between the reads; planned: reads of an older block;
6. *(done)* `Failover`, `TransactionWait`, `EventRanges`, composed in `NodeCalls`;
7. *(done)* `SwapSigning`, `ClientCalls` and the contract objects, composed in
   `AdaptorCalls`; their views in `ChainReaders` and `AdaptorReads`;
8. *(done)* theorems: the invariants and the step properties of the contract, those of
   two chains under an assumption on the skew of the clocks, of the PoD token, of signing,
   of `Failover`, `TransactionWait` and `EventRanges`, of the calls and the reads of
   the contract objects, and of the arithmetic of `SwapEncoding`;
9. open: the cells of CKB and the coins of Sui, as sets that other transactions
   spend; reads of an older block by `checkSwapStatus`.

Not planned: mock contracts and tests, proxies (constructors), the UCT token
(no logic of its own beyond the allowance), one-off scripts, JSON data.
