\* Two sidechains: fees, debts, the float, distributions at two multipliers, and claims that round.
CONSTANTS
  arbitrum = arbitrum
  optimism = optimism
  Sidechains = {arbitrum, optimism}
  Amounts = {1}
  MaxFees = 2
  MaxRewards = 2
  MaxNotices = 2
  MaxDistributions = 2
  MintRates = {3}
  Multipliers = {1}
  RewardMultiplierDenominator = 2
  RatePrecision = 10
  InitialFloat = 1
SPECIFICATION Spec
SYMMETRY Symmetry
INVARIANTS OwedIsOnTheWay FloatIsAccounted RewardsBacked
PROPERTY MintKeepsRate
\* every count is bounded
CHECK_DEADLOCK FALSE
