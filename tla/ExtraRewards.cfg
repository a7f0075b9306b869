\* Two accounts, rewards for up to three epochs, a depositor and the forwarder.
CONSTANTS
  alice = alice
  bob = bob
  keeper = keeper
  NoOne = NoOne
  Accounts = {alice, bob}
  Contracts = {}
  Delegatees = {}
  RewardTokens = {}
  Distributors = {}
  rewardsDuration = 2
  LockEpochs = 3
  StartTime = 7
  MaxTime = 13
  LockAmounts = {1}
  InitialWallet <- MCWallet
  denominator = 2
  InitialKickRate = 1
  InitialKickDelay = 2
  KickSettings <- NoKickSettings
  MaxKickRate = 2
  Precision = 1
  RewardAmounts = {}
  InitialFunds = 0
  MaxRewards = 100
  MaxRewardRate = 100
  MinRewardSupply = 1
  MaxUint96 = 1000
  MaxUint112 = 1000
  MaxUint224 = 1000
  Depositors = {keeper, forwarder}
  forwarder = forwarder
  distributionDelay = 1
  DepositAmounts = {3}
  InitialDeposits = 9
  SharePrecision = 3
SPECIFICATION ExtraSpec
SYMMETRY AccountSymmetry
INVARIANTS ExtraRewardsCovered
PROPERTIES SettledEpochsClosed
\* the clock is bounded
CHECK_DEADLOCK FALSE
