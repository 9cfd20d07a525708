--------------------------- MODULE MesonSolvency ---------------------------
(***************************************************************************)
(* The books of the contract against its holdings in the token contracts.  *)
(***************************************************************************)
EXTENDS MesonProperties, FiniteSetsExt

\* The token that backs an index over the whole life of the contract.
Backs(token, i) ==
  \/ IsCoreToken(i) /\ token = CoreToken
  \/ ~IsCoreToken(i) /\ (Deployment[i] = token \/ <<token, i>> \in Listings)

\* An index is never listed for two different tokens: what pools have deposited
\* for the one would be paid out in the other.
ASSUME ListingAssumption ==
  \A t, u \in Tokens, i \in TokenIndex : Backs(t, i) /\ Backs(u, i) => t = u

ASSUME FinitenessAssumption ==
  IsFiniteSet(Swaps) /\ IsFiniteSet(Initiators) /\ IsFiniteSet(PoolIndices)

IndexesOf(token) == {i \in TokenIndex : Backs(token, i)}

PoolLiability(token) ==
  MapThenSumSet(LAMBDA pti : balanceOfPoolToken[pti],
                IndexesOf(token) \X PoolIndices)

PostedLiability(token) ==
  MapThenSumSet(LAMBDA s : s.amount,
                {s \in Swaps : Pending(postedSwaps[s])
                               /\ s.inToken \in IndexesOf(token)})

LockedLiability(token) ==
  LET ids == {id \in SwapId : Locked(lockedSwaps[id])}
      Due(id) == (IF id[1].outToken \in IndexesOf(token)
                  THEN AmountToLock(id[1]) ELSE 0)
                 + (IF token = CoreToken THEN id[1].coreAmount ELSE 0)
  IN  MapThenSumSet(Due, ids)

Liability(token) ==
  PoolLiability(token) + PostedLiability(token) + LockedLiability(token)

\* Whatever calls are made in whatever order, the contract holds at least the
\* tokens it owes: to pools, to the initiators of posted swaps and for locked
\* swaps.
Solvent == \A t \in Tokens : ledger[<<t, Meson>>] >= Liability(t)

\* The contract is sent tokens only by its own handlers, it is no party to a
\* swap and no member of a pool, and no one posts with a postingValue of 0 or 1.
NothingIsSentAway ==
  /\ \A t \in Tokens : InitialLedger[<<t, Meson>>] = 0
  /\ Meson \notin Initiators \union Recipients \union Members
  /\ ZeroAddress \notin Initiators

\* The owner never removes the index of the core token.
CoreTokenStays == \A i \in Delistings : ~Backs(CoreToken, i)

\* Nothing that was paid in is stranded either, as long as nothing is sent away
\* and the core token stays.
NothingStranded == \A t \in Tokens : ledger[<<t, Meson>>] = Liability(t)

=============================================================================
