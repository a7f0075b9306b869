\* A batch for pools without their extra reward.  Two gauges of mainnet, two of the sidechain and one of another chain.
CONSTANTS
  m1 = m1
  m2 = m2
  s1 = s1
  s2 = s2
  f1 = f1
  MainGauges = {m1, m2}
  BareGauges = {}
  SideGauges = {s1, s2}
  ForeignGauges = {f1}
  GaugeOrder <- MCOrder
  VotingList <- MCVotingList
  LabelOf <- MCLabelOf
  PrefixOf <- MCPrefixOf
  Starts <- MCStarts
  TotalVotes = 7
  MinShareDenominator = 5
  Scores = {0, 1, 2}
  InitialAura = 10
  Rewards = {4, 6}
  MaxPools = 4
  BatchOfPids = 3
SPECIFICATION Spec
INVARIANT BatchesExecute
CHECK_DEADLOCK FALSE
