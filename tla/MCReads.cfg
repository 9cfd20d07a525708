SPECIFICATION ReadsSpec
CONSTANTS
  None = None
  Initiator = "0xinitiator"
  Other = "0xother"
  Chains = {"ethers", "solana", "sui", "aptos", "starknet", "ckb"}
  Owners <- MCOwners
  Slots = {1, 2}
  MaxReads = 2
  MaxFailures = 1
  MaxChanges = 3
INVARIANTS
  PostedWasSo
  LockedWasSo
  OwnerWasOwner
  FailureHasCause
  BalanceWasSo
CHECK_DEADLOCK FALSE
