SPECIFICATION Spec
CONSTANTS
    Plans <- MCPlans
    Chains <- MCChains
INVARIANTS FirstRunsComplete RerunsFailOnlyPastNoReturn DeployerKeepsLeftovers RemotesAreMutual
CHECK_DEADLOCK FALSE
