SPECIFICATION Spec
CONSTANTS
  Nodes = {n1, n2, n3}
  PerNode = 1
  Overall = 2
  Chunk = 2
  MaxBlock = 5
  MaxPolls = 2
  MaxLapses = 1
  MaxHeight = 4
  Kinds = {"events", "ethers", "solana", "sui", "aptos", "ton", "ckb", "bitcoin", "tron", "starknet"}
INVARIANTS
  RejectedAskedAll
  SurplusWasGivenUp
  BlocksAreFetchedOnce
  FoundWasConfirmed
PROPERTIES
  NothingHangs
CHECK_DEADLOCK FALSE
