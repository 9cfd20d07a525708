SPECIFICATION StatusSpec
CONSTANTS
  here = here
  there = there
  Swaps <- OneSwap
  Initiator = initiator
  Provider = provider
  Recipient = recipient
  ZeroAddress = zero
  Meson = meson
  TokenIndices = {1}
  PoolIndices = {0, 1, 2}
  ProviderPool = 2
  Chains = {here, there}
  SourceChain = here
  TargetChain = there
  SourceToken = usdcHere
  TargetToken = usdcThere
  CoreToken = core
  Liquidity = 2
  GRACE = 1
  MaxSkew = 3
  MaxTime = 9
  MIN_BOND_TIME_PERIOD = 4
  MAX_BOND_TIME_PERIOD = 8
  LOCK_TIME_PERIOD = 1
  LOCK_MARGIN = 2
  MAX_SWAP_AMOUNT = 3
  SERVICE_FEE_MINIMUM = 1
  SERVICE_FEE_MINIMUM_ETH = 1
  SERVICE_FEE_MINIMUM_BNB = 1
  SERVICE_FEE_MINIMUM_BTC = 1
INVARIANTS
  InitiatorIsWhole
  ProviderIsWhole
  ExecutedIsCovered
PROPERTIES
  EscrowsEmpty
  PaymentIsReported
  ReleaseIsRewarded
CHECK_DEADLOCK FALSE
