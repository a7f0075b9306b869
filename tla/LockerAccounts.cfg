\* Balances, supply, relocks and kicks of two accounts, one of them a contract.
CONSTANTS
  alice = alice
  bob = bob
  dan = dan
  eve = eve
  aurabal = aurabal
  keeper = keeper
  NoOne = NoOne
  Accounts = {alice, bob}
  Contracts = {bob}
  Delegatees = {}
  RewardTokens = {}
  Distributors = {}
  rewardsDuration = 1
  LockEpochs = 2
  StartTime = 2
  MaxTime = 6
  LockAmounts = {1, 2}
  InitialWallet <- MCWalletUneven
  denominator = 2
  InitialKickRate = 1
  InitialKickDelay = 2
  KickSettings <- MCKickSettings
  MaxKickRate = 2
  Precision = 1
  RewardAmounts = {}
  InitialFunds = 0
  MaxRewards = 100
  MaxRewardRate = 100
  MinRewardSupply = 1
  MaxUint96 = 1000
  MaxUint112 = 1000
  MaxUint224 = 1000
SPECIFICATION Spec
INVARIANTS LocksAccounted SupplyIsSumOfBalances
PROPERTIES NoEarlyExit
\* the clock is bounded
CHECK_DEADLOCK FALSE
