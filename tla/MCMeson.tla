------------------------------- MODULE MCMeson -------------------------------
(***************************************************************************)
(* Values of the constants for model checking one deployed contract.  The  *)
(* unit of amounts is half a dollar, and the unit of time 20 minutes or    *)
(* more; the time periods keep the order of the real ones.                 *)
(***************************************************************************)
EXTENDS MesonSolvency, TLC

CONSTANTS alice, bob, carol, zero, meson, usdc, usdt, core, here, there

USDC == 1
USDT == 2
CORE == 52

Swap(salt, amount, in, out, expireTs) ==
  [ salt |-> salt, amount |-> amount, fee |-> 1, expireTs |-> expireTs,
    inChain |-> in[1], inToken |-> in[2],
    outChain |-> out[1], outToken |-> out[2],
    feeWaived |-> FALSE, toContract |-> FALSE,
    forCore |-> 0, coreAmount |-> 0, share |-> 0, poolToShare |-> 0 ]

\* A swap within this chain.
SwapWithin == Swap(0, 4, <<here, USDC>>, <<here, USDT>>, 4)

\* Swaps that go out here.
SwapOut == Swap(3, 4, <<there, USDC>>, <<here, USDC>>, 6)
SwapOutShared ==
  [SwapOut EXCEPT !.salt = 5, !.share = 1, !.poolToShare = 3]
SwapOutWithCore ==
  [SwapOut EXCEPT !.salt = 6, !.forCore = 1, !.coreAmount = 1]
SwapOutWaived == [SwapOutWithCore EXCEPT !.salt = 4, !.feeWaived = TRUE]
SwapOutToContract == [SwapOut EXCEPT !.salt = 7, !.toContract = TRUE]
SwapOutTooSmall == [SwapOut EXCEPT !.salt = 8, !.amount = 3, !.fee = 2]

Sig(kind, s, recipient, signer) ==
  [kind |-> kind, swap |-> s, recipient |-> recipient, signer |-> signer]

\* The request and the release of alice's swap s, released to recipient.
Signatures(s, recipient) ==
  { Sig("request", s, zero, alice), Sig("release", s, recipient, alice) }

Listing(listed) ==
  [i \in TokenIndices \union {0} |->
     IF i = USDC /\ usdc \in listed THEN usdc
     ELSE IF i = USDT /\ usdt \in listed THEN usdt
     ELSE IF i = CORE /\ core \in listed THEN core ELSE zero]

\* Everybody holds the same amount of every token.
Endowment(amount) ==
  [h \in Tokens \X (Accounts \union {zero, meson}) |->
     IF h[2] \in Accounts THEN amount ELSE 0]

-----------------------------------------------------------------------------
\* posted: both sides of a swap between two tokens of this chain, posted or
\* made directly on a signature of the premium manager, and the service fees

PostedSwaps == {SwapWithin}
PostedListing == Listing({usdc, usdt, core})
PostedLedger == Endowment(4)
PostedSignable == Signatures(SwapWithin, carol) \union
                  {Sig("plain", SwapWithin, carol, a) : a \in {alice, bob}}

-----------------------------------------------------------------------------
\* locked: swaps out of other chains, one of them partly for core tokens

LockedSwaps == {SwapOutWithCore, SwapOutShared}
LockedListing == Listing({usdc, core})
LockedLedger == Endowment(6)
LockedSignable == {Sig("release", SwapOutWithCore, alice, alice),
                   Sig("release", SwapOutShared, alice, alice)}

-----------------------------------------------------------------------------
\* direct: a fee-waived swap with a core-token part and one that is released
\* to a contract, locked first or released directly, while the premium manager
\* is replaced and the core token removed and listed again at another index

DirectSwaps == {SwapOutWaived, SwapOutToContract}
DirectListing == Listing({usdc, core})
DirectLedger == Endowment(3)
DirectSignable == {Sig("release", SwapOutWaived, carol, alice),
                   Sig("release", SwapOutToContract, carol, alice)}
CoreLater == {<<core, 53>>}

-----------------------------------------------------------------------------
\* registry: who owns and who serves a pool

RegistrySwaps == {}
RegistryListing == Listing({usdc, core})
RegistryLedger == Endowment(2)
RegistrySignable == {}
AnyAddress == Accounts \union {zero, meson}

-----------------------------------------------------------------------------
\* small: a swap whose amount does not cover the fees

SmallSwaps == {SwapOutTooSmall}
SmallListing == Listing({usdc, core})
SmallLedger == Endowment(3)
SmallSignable == {Sig("release", SwapOutTooSmall, carol, alice)}

=============================================================================
