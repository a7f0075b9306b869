\* One account, one sidechain, two messages a path, every administrative action, a fair relayer.
CONSTANTS
  alice = alice
  bob = bob
  arbitrum = arbitrum
  optimism = optimism
  L1 = L1
  Accounts = {alice}
  Sidechains = {arbitrum}
  InitialBalance <- MCBalance
  Amounts = {1}
  MaxNonce = 2
  MaxTime = 3
  epochDuration = 2
  InflowLimits = {0}
  InitialInflowLimit = 1
  QueueDelays = {1}
  InitialQueueDelay = 0
SPECIFICATION FairSpec
INVARIANTS EachMessageInOnePlace EscrowCoversClaims
PROPERTIES PausedMeansFrozen ImplementsExactlyOnce NeverBlocked
\* the clock and the nonces are bounded
CHECK_DEADLOCK FALSE
