\* The token, two airdrops, an escrow and a reward pool.
CONSTANTS
  alice = alice
  bob = bob
  dao = dao
  council = council
  locker = locker
  airdrop = airdrop
  airdropV2 = airdropV2
  escrow = escrow
  auraBalPool = auraBalPool
  penaltyForwarder = penaltyForwarder
  deployer = deployer
  booster = booster
  newBooster = newBooster
  NoBooster = NoBooster
  NoLocker = NoLocker
  NoAdmin = NoAdmin
  Accounts <- MCAccounts
  Contracts <- MCContracts
  Releasers <- MCReleasers
  Boosters = {booster, newBooster}
  Lockers = {locker}
  Admins = {dao, council}
  MaxTime = 5
  EmissionAmounts = {1, 4}
  InflationAmounts = {3}
  MaxInflation = 6
  inflationProtectionTime = 2
  INIT_MINT_AMOUNT = 8
  EMISSIONS_MAX_SUPPLY = 20
  totalCliffs = 4
  BaseReduction = 2
  Drops = {airdrop, airdropV2}
  PenaltyDrops = {airdrop}
  Leaves <- MCLeaves
  DropFunds <- MCDropFunds
  startDelay = 1
  expiresAfter = 3
  RescueWindow = 2
  Escrows = {escrow}
  Vestings <- MCVestings
  vestingStart = 1
  vestingEnd = 4
  Pools = {auraBalPool}
  PoolFunds = {2, 6}
  poolDelay = 1
  duration = 3
  Precision = 3
  StakeAmounts = {1}
  InitialStaking <- MCStaking
  Situations <- MCSituations
SPECIFICATION ReleasesSpec
SYMMETRY ReleaseSymmetry
INVARIANTS EmissionsCapped DropsCovered VestingsCovered PoolsSolvent
\* the clock is bounded
CHECK_DEADLOCK FALSE
