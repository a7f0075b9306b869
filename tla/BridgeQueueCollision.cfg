\* Two equal transfers queued in one block.
CONSTANTS
  alice = alice
  bob = bob
  arbitrum = arbitrum
  optimism = optimism
  L1 = L1
  Accounts = {alice}
  Sidechains = {arbitrum}
  InitialBalance <- MCBalance
  Amounts = {1}
  MaxNonce = 2
  MaxTime = 2
  epochDuration = 2
  InflowLimits = {}
  InitialInflowLimit = 1
  QueueDelays = {}
  InitialQueueDelay = 0
SPECIFICATION Spec
INVARIANTS EveryTransferIsKept
\* the clock and the nonces are bounded
CHECK_DEADLOCK FALSE
