\* One user who also holds shares, and two sidechains.
CONSTANTS
  alice = alice
  proxy = proxy
  c1 = c1
  c2 = c2
  Users = {alice, proxy}
  Proxy = proxy
  InitialWallet <- MCWallet
  Amounts = {1, 3}
  Gains = {0, 2}
  InitialRewards = 2
  Penalties = {0, 4}
  FEE_DENOMINATOR = 10
  Chains = {c1, c2}
  Reports <- MCReports
  ExtraGains = {0, 2}
  InitialExtra = 2
  MaxTaken = 1
  MaxShares = 3
  MaxSupply = 3
SPECIFICATION Spec
INVARIANTS SharesAreBacked WithdrawCoversAssets SupplyIsAbroad ClaimsAreKept
PROPERTIES ShareNeverLoses BackingLosesOnlyRounding
CHECK_DEADLOCK FALSE
