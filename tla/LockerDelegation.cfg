\* Two accounts move their votes between two delegatees; a tick is an epoch.
CONSTANTS
  alice = alice
  bob = bob
  dan = dan
  eve = eve
  aurabal = aurabal
  keeper = keeper
  NoOne = NoOne
  Accounts = {alice, bob}
  Contracts = {}
  Delegatees = {dan, eve}
  RewardTokens = {}
  Distributors = {}
  rewardsDuration = 1
  LockEpochs = 2
  StartTime = 2
  MaxTime = 4
  LockAmounts = {1}
  InitialWallet <- MCWalletOneEach
  denominator = 2
  InitialKickRate = 1
  InitialKickDelay = 2
  KickSettings <- NoKickSettings
  MaxKickRate = 2
  Precision = 1
  RewardAmounts = {}
  InitialFunds = 0
  MaxRewards = 100
  MaxRewardRate = 100
  MinRewardSupply = 1
  MaxUint96 = 1000
  MaxUint112 = 1000
  MaxUint224 = 1000
SPECIFICATION Spec
SYMMETRY DelegateeSymmetry
INVARIANTS FutureVotesMatchLocks ExpiredLocksCanBeWithdrawn
PROPERTIES PastEpochsFrozen
\* the clock is bounded
CHECK_DEADLOCK FALSE
