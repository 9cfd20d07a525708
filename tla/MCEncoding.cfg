SPECIFICATION Spec
CONSTANTS
  here = here
  there = there
  Swaps = {}
  TokenIndices = {1, 190, 191, 240, 244, 248, 252}
  PoolIndices = {0, 1}
  Chains = {here, there}
  SERVICE_FEE_MINIMUM = 1
  SERVICE_FEE_MINIMUM_ETH = 3
  SERVICE_FEE_MINIMUM_BNB = 4
  SERVICE_FEE_MINIMUM_BTC = 5
  CLIENT_SERVICE_FEE_MINIMUM_BNB_OR_SOL = 4
  CLIENT_SERVICE_FEE_MINIMUM_BTC = 6
  PRECISION = 1
  WORD = 256
  AMOUNT_UNIT = 2
  PRICE_UNIT = 10
  Words <- AnyWord
  Requests <- AnyRequest
INVARIANTS
  DecodedIsExclusive
  ClientKnowsReceive
  EncodedAsAsked
CHECK_DEADLOCK FALSE
