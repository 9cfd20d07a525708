----------------------------- MODULE EventRanges -----------------------------
(***************************************************************************)
(* fetchEventsBetween of MesonClient.ts: the blocks from fromBlock to      *)
(* toBlock are asked for in ranges of Chunk blocks, one after the other,   *)
(* and the logs put together at the end; an error of one ends them all.    *)
(***************************************************************************)
EXTENDS Integers

CONSTANT Chunk    \* 3000

ASSUME ChunkAssumption == Chunk \in Nat \ {0}

VARIABLES
  fromBlock, toBlock,   \* what is asked for
  nextBlock,            \* where the loop is
  ranges,               \* ranges whose logs have come
  fetching              \* "open", "complete", "failed"

rangeVars == <<fromBlock, toBlock, nextBlock, ranges, fetching>>

RangesInit ==
  /\ fromBlock \in Int /\ toBlock \in Int /\ fromBlock <= toBlock
  /\ nextBlock = fromBlock /\ ranges = {} /\ fetching = "open"

\* The last range is the rest, when no more than Chunk blocks are left.
HasMore == nextBlock + (Chunk - 1) < toBlock
NextRangeWithEnd == <<nextBlock, IF HasMore THEN nextBlock + Chunk ELSE toBlock>>  \* a mutant
NextRange == <<nextBlock, IF HasMore THEN nextBlock + (Chunk - 1) ELSE toBlock>>

FetchRange ==
  /\ fetching = "open"
  /\ ranges' = ranges \union {NextRange}
  /\ IF HasMore THEN nextBlock' = nextBlock + Chunk /\ fetching' = fetching
     ELSE nextBlock' = nextBlock /\ fetching' = "complete"
  /\ UNCHANGED <<fromBlock, toBlock>>

FetchFails ==
  /\ fetching = "open"
  /\ fetching' = "failed"
  /\ UNCHANGED <<fromBlock, toBlock, nextBlock, ranges>>

RangesNext == FetchRange \/ FetchFails

RangesSpec == RangesInit /\ [][RangesNext]_rangeVars

-----------------------------------------------------------------------------
\* The first block that has not been asked for.
Reached == IF fetching = "complete" THEN toBlock + 1 ELSE nextBlock

Holds(range, block) == range[1] <= block /\ block <= range[2]

\* Every block up to where the loop is has been asked for, exactly once, and
\* none beyond: neither the blocks between two ranges nor the last one get lost,
\* and no log is there twice.
BlocksAreFetchedOnce ==
  /\ \A block \in fromBlock .. (Reached - 1) : \E range \in ranges : Holds(range, block)
  /\ \A range \in ranges : fromBlock <= range[1] /\ range[2] < Reached
  /\ \A r \in ranges, s \in ranges : r # s => r[2] < s[1] \/ s[2] < r[1]

=============================================================================
