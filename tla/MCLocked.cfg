SPECIFICATION Spec
CONSTANTS
  alice = alice
  bob = bob
  carol = carol
  zero = zero
  meson = meson
  usdc = usdc
  usdt = usdt
  core = core
  here = here
  there = there
  Swaps <- LockedSwaps
  Deployment <- LockedListing
  InitialLedger <- LockedLedger
  Signable <- LockedSignable
  Accounts = {alice, bob}
  Contracts = {}
  ZeroAddress = zero
  Meson = meson
  Tokens = {usdc, core}
  CoreToken = core
  Chains = {here, there}
  SHORT_COIN_TYPE = here
  Initiators = {alice}
  Recipients = {alice}
  Members = {}
  TokenIndices = {1, 52}
  PoolIndices = {0, 1, 2, 3}
  Deployer = bob
  FirstManager = bob
  Listings = {}
  Delistings = {}
  Managers = {}
  Amounts = {3}
  MaxTime = 6
  MIN_BOND_TIME_PERIOD = 2
  MAX_BOND_TIME_PERIOD = 5
  LOCK_TIME_PERIOD = 1
  LOCK_MARGIN = 1
  MAX_SWAP_AMOUNT = 4
  SERVICE_FEE_MINIMUM = 1
  SERVICE_FEE_MINIMUM_ETH = 1
  SERVICE_FEE_MINIMUM_BNB = 1
  SERVICE_FEE_MINIMUM_BTC = 1
INVARIANTS
  Solvent
PROPERTIES
  LocksAreReleasedOnce
  LocksAreSettled
CHECK_DEADLOCK FALSE
