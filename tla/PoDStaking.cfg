SPECIFICATION Spec
CONSTANTS
  Accounts = {alice, bob}
  PoD = pod
  NO_REWARD_LOCK_PERIOD = 2
  LESS_REWARD_LOCK_PERIOD = 3
  SCALE = 5
  Rates = {0, 2, 3}
  Amounts = {1, 2}
  MaxSupply = 2
  MaxTime = 6
INVARIANTS
  LockedIsBacked
  RewardsAreEarned
PROPERTIES
  ClaimsStay
CHECK_DEADLOCK FALSE
