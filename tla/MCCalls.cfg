SPECIFICATION Spec
CONSTANTS
  Swaps <- MCSwaps
  Accounts = {"alice", "bob"}
  Recipients <- MCRecipients
  MaxSigned = 2
  Providers = {"lp"}
  PoolOf <- MCPoolOf
  Amounts = {7}
  None = None
INVARIANTS
  InitiatorHasSigned
  SignedIsAccepted
  ReleasedIsExecutable
  ReadAsSent
  CallsNameTheirStores
CHECK_DEADLOCK FALSE
