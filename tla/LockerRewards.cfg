\* One reward token streamed to two accounts; two ticks to an epoch.
CONSTANTS
  alice = alice
  bob = bob
  dan = dan
  eve = eve
  aurabal = aurabal
  keeper = keeper
  NoOne = NoOne
  Accounts = {alice, bob}
  Contracts = {}
  Delegatees = {}
  RewardTokens = {aurabal}
  Distributors = {keeper}
  rewardsDuration = 2
  LockEpochs = 2
  StartTime = 4
  MaxTime = 7
  LockAmounts = {1}
  InitialWallet <- MCWalletOneEach
  denominator = 2
  InitialKickRate = 1
  InitialKickDelay = 2
  KickSettings <- NoKickSettings
  MaxKickRate = 2
  Precision = 3
  RewardAmounts = {2, 5}
  InitialFunds = 9
  MaxRewards = 100
  MaxRewardRate = 100
  MinRewardSupply = 1
  MaxUint96 = 1000
  MaxUint112 = 1000
  MaxUint224 = 1000
SPECIFICATION Spec
SYMMETRY AccountSymmetry
INVARIANTS RewardsSolvent
PROPERTIES EarningsKept
\* the clock is bounded
CHECK_DEADLOCK FALSE
