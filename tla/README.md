# Aura Finance: a verification development

Aura is a set of Solidity contracts around a Convex-style booster for Balancer. Users deposit
Balancer pool tokens or auraBAL, earn BAL and AURA, lock AURA for votes and fees, and move AURA and
auraBAL to sidechains over LayerZero. This directory holds TLA+ modules for the contracts that carry
the protocol's own logic and for the TypeScript that runs the protocol around them (the fortnightly
gauge vote, the batches for the Safes, the deployment scripts), the TLC configurations that check them
on small instances, and proofs that TLAPS checks.

## 1. Inventory

The booster itself (`convex-platform/`: Booster, VoterProxy, BaseRewardPool, VirtualRewardPool,
CvxCrv, stashes) is a submodule that is not in the tree; where a contract calls it, the model takes
what the call does for its caller as an external definition. Everything runs in transactions: one
call runs to its end or reverts and changes nothing, so the interleavings are of whole calls, of
different users, keepers and owners, at different times, and, across chains, of messages.

| Component | State | Operations | Correct when |
|---|---|---|---|
| `core/AuraLocker` | locks of each account, locked balances, supply, one record per epoch, checkpoints of votes, streams of rewards | lock, relock, process expired, kick, emergency withdraw, delegate, getReward, queue rewards, shutdown, blacklist | records, balances, supply and tokens agree; no lock leaves early or twice; votes are the sum of the delegators' locks; the past never changes; rewards owed are covered |
| AURA bridge: `sidechain/AuraProxyOFT`, `AuraOFT`, `PausableProxyOFT`, `PausableOFT`, `PauseGuardian`, `layerzero/lzApp`, `layerzero/token/oft` | escrow, sidechain balances, in- and outflow of an epoch, queue, failed messages, pause flags | sendFrom, lock, lzReceive, retryMessage, processQueued, pause, rescue | every message takes effect once; the escrow covers what can be claimed; a paused proxy pays nothing |
| Coordinators: `sidechain/L1Coordinator`, `L2Coordinator`, `AuraDistributor`, `sidechain/bridge` | fee debt of each chain, what of it is distributed and settled; accumulated BAL and AURA, fees to notify | queueNewRewards, notifyFees, distributeAura, settleFeeDebt, mint | no debt is distributed or settled twice; mints are covered |
| auraBAL bridge: `sidechain/AuraBalProxyOFT`, `AuraBalOFT` | bridged supply, claimable rewards of each chain | send, harvest, processClaimable, rescue, vaultExecute | supply abroad and claims are covered by the vault |
| Compounder: `compounder/` | shares, underlying, penalty; fee schedule | deposit, withdraw, harvest, forward | shares are redeemable, a harvest never lowers their price |
| Side rewards of the locker: `rewards/ExtraRewardsDistributor`, `AuraPenaltyForwarder` | reward of an epoch per locked token, epochs with rewards, claimed index | addReward, getReward, forfeit | each epoch is paid once, out of what was added |
| auraBAL pool: `rewards/AuraBalRewardPool` | stakes, one stream, penalties | stake, withdraw, getReward, initialiseRewards, rescueReward, forwardPenalty | what is earned, pending and still to stream is in the pool |
| Gauge votes: `rewards/GaugeVoteRewards`, `ChildGaugeVoteRewards`, `StashRewardDistro` | weights of an epoch, processed gauges, funds per epoch and pool | vote, process, fund, queue | each gauge is paid once an epoch; funds are covered |
| Airdrop and vesting: `rewards/AuraMerkleDrop*`, `AuraVestedEscrow*` | claimed flags, penalties; totals and claims | fund, claim, cancel, forwardPenalty, withdrawExpired, rescueReward | nobody is paid twice or ahead of the vesting, and nobody's part goes to another |
| AURA: `core/Aura`, `AuraMinter` | supply, minted by the minter, operator | mint, minterMint | emissions never pass the cap |
| Entry and swaps: `core/AuraStakingProxy`, `BalInvestor`, `BalToAuraBALSwapper`, `CrvDepositorWrapper*` | addresses and price bounds | distribute, deposit | not modelled: conversions by external pools |
| Grants: `peripheral/grants` | stage of a grant, balances | fund, create lock, relock, redeem | a grant can always be ended |
| Keepers and quests: `peripheral/WardenQuestScheduler`, `KeeperRole` | rewards queued per epoch and pool | create, queue, forward, cancel | queued rewards are covered |
| Pool managers: `sidechain/L1PoolManagerProxy`, `L2PoolManagerProxy`, `Create2Factory` | list of gauges already added | addPool | a gauge is added once |
| Zaps, helpers, migrators, views: rest of `peripheral/`; `chef/`; `safe/`; `migration/` | none of their own | bundles of calls | not modelled |
| The gauge vote: `tasks/snapshot` | `gauge_choices.json`, the proposal on Snapshot, the votes it ends in | generate, create, result | weight goes to the gauges that were voted for, and the votes can be cast |
| Batches for the Safes: `tasks/protocol` | the transactions of a batch; pool ids and stashes as they were when it was made | voteGaugeWeights-tx, add-pool, setIsNoDepositGauge, keeper tasks | a batch that is not out of date executes, and lists what it names |
| Deployment: `scripts/deploy*.ts`, `tasks/deploy` | none: what is on chain | the phases of mainnet, the sidechains and what came between, in some five hundred transactions | each script goes through, and can be run again if it died; roles and remotes end where they should |
| Other tasks, tests, interfaces, mocks, `utils/balancer` | | | not modelled |

Interaction. The locker is called by the bridge (LOCK messages), by the airdrop, the vesting escrow
and the reward pool (lock instead of a penalty), and read by ExtraRewardsDistributor (`epochCount`,
`totalSupplyAtEpoch`, `balanceAtEpochOf`). The coordinators move AURA over the AURA bridge and their
own notices over a LayerZero path of their own. The auraBAL bridge stakes in the vault and is its
owner. GaugeVoteRewards funds StashRewardDistro on its chain and sends to its child over the AURA
bridge. The tasks of `tasks/protocol` read the pools, gauges and vote settings of a chain and write a
batch that a Safe executes later, when they may have changed; the result of a vote on Snapshot becomes
a batch that casts it, and the weights that it leaves decide what `GaugeVoteRewards` sends.

What is hard. In the locker, bookkeeping by epochs that is only brought up to date when somebody
calls, kept three times over (locks, checkpoints, epochs) and changed by operations in any order with
gaps of any length. In the bridge, messages that fail, wait and are retried by anybody while the
proxy is paused, limited or drained, with one escrow for all chains. In the coordinators, two paths
that are not ordered against each other. Everywhere, division that rounds down and unsigned
subtraction that reverts, so that an inconsistency of one unit can block an account. In the scripts, what is read before a batch
is made and used when it executes, lists kept in files beside those on chain, and deployments that die
half way without any record of how far they got. There is no
scheduler in the system: apart from LayerZero's delivery nothing is fair, and the properties are
safety properties but for the one that delivery supports. The `hazards` of `PROJECT.json` list these
at their lines.

## 2. The modules

| Module | What it is |
|---|---|
| `AuraLocker` | the locker: one action per transaction |
| `AuraLockerProperties` | its views (`getPastVotes`, `balanceAtEpochOf`, `totalSupplyAtEpoch`) and its properties |
| `ExtraRewards` | composes the locker with `ExtraRewardsDistributor` and `AuraPenaltyForwarder`, and its properties |
| `AuraBridge` | the AURA bridge, any number of sidechains, with LayerZero's channels and stored messages |
| `ExactlyOnce` | abstract: what a messaging path promises of a message |
| `AuraBridgeProperties` | the bridge's properties, and `ImplementsExactlyOnce`, the refinement of `ExactlyOnce` |
| `Coordinators`, `CoordinatorsProperties` | fees, debts, the float and the AURA of the sidechains |
| `AuraBalVault`, `AuraBalVaultProperties` | shares against underlying of the compounder |
| `AuraBalBridge`, `AuraBalBridgeProperties` | composes the vault with the auraBAL bridge, which is one of its users |
| `SnapshotVotes` | the gauge list, the proposal and its result: `tasks/snapshot` |
| `GaugeVoteRewards` | `GaugeVoteRewards`, `ChildGaugeVoteRewards`, `StashRewardDistro` of one chain, as operators on its record |
| `PoolListing` | the tasks that make batches for the Safes, the Safes, keepers and the pool manager proxies of two chains |
| `VotingRound`, `VotingRoundProperties` | composes the three above with the two bridges to the sidechain: a round of voting from end to end |
| `DeploymentSteps` | what a transaction of a script is, and the helpers that make one |
| `MainnetDeployment`, `MainnetUpgrades`, `SidechainDeployment` | the scripts, as sequences of such transactions |
| `Deployment`, `DeploymentProperties` | running the scripts: transactions, failures, crashes, reruns, the multisigs in between |
| `AuraToken` | the AURA ledger, emissions, operator, the minter |
| `AuraPayout` | what the contracts that release AURA share: locking for the receiver, penalties, administrators |
| `MerkleDrop`, `VestedEscrow`, `AuraBalRewardPool` | the airdrops, the vesting escrows (both versions of each) and the auraBAL pool |
| `AuraReleases`, `AuraReleasesProperties` | composes the five above over one ledger |
| `MC...` | instances for TLC: one for each of the eight systems that are run |
| `Arithmetic` | lemmas on integer division that the proofs share |
| `AuraLockerProofs`, `ExtraRewardsProofs`, `AuraBridgeProofs`, `CoordinatorsProofs`, `AuraBalBridgeProofs`, `AuraReleasesProofs`, `VotingRoundProofs` | theorems and their proofs |

An action is a transaction: it happens whole or, where a `require` or a checked subtraction fails,
not at all. A view that several handlers share is an operator under the source's name; a modifier
(`updateReward`) is an operator that the handler's action conjoins. Operators with a suffix
(`ClaimableAt_Locked`) are mutants: the definition after each, changed as a plausible bug would
change it. No action uses one; each shows that a property tells the code from that bug.

**AuraLocker.** State is the contract's, field by field, with the arrays as sequences
(`nextUnlockIndex` counts processed records, so it points at the next one in both), plus the tokens:
`wallet`, `vault`, and for rewards `funds`, `rewardVault`. `Withdraw` is `_processExpiredLocks` when
it pays out, with no delay for the owner (`ProcessExpiredLocks`) and with the kick delay for a keeper
(`KickExpiredLocks`); `RelockExpiredLocks` is the same with `_relock`, which includes the whole of
`_lock`. `Release` is what both compute first: how many records are done, what they held, what the
keeper gets. `_checkpointDelegate` appears as `Carried` and `Checkpoint`, and the conditions under
which its subtractions revert as `CanCheckpoint`. Loops that stop early at an older record
(`LastExpired`, `FutureLocks`, `BalanceAt`, `SupplyAt`) keep their stopping condition, and the binary
search of `_checkpointsLookup` is a recursive function, so that the models find out if a list were
not sorted. Narrowing casts (`to96`, `to112`, `to224`) are guards. `UserStep`, `RewardStep` and
`OwnerStep` group the actions by caller.

**ExtraRewards.** The distributor reads the locker (`SupplyAt`, `BalanceAt`, the last checkpointed epoch),
so it is modelled over it: a step is one of the locker's, of a depositor or of a claimant. All its
mappings are per token, so there is one token; an epoch goes by its start. Adding a reward begins with
`checkpointEpoch`, which `RecordReward` conjoins as the locker's own operator; claiming does not, so it
goes by an epoch that may be long past. A claim that pays nothing changes nothing, not even the index,
as in the code. `deposits` is what depositors hold, `penalties` what the forwarder has been sent and
not yet forwarded.

**AuraBridge.** `escrow` is what `AuraProxyOFT` holds, `balance` the AURA of accounts on each chain.
A path is a pair of chains, one of them `L1`; `channel` holds what the endpoint will deliver in the
order of the nonces, `failedMessages` what `NonblockingLzApp` has stored, `handled` (no code keeps
it) the nonces that took effect. `Receive` and `ReceiveFails` are the two outcomes of `lzReceive`: the
handler's whole effect, or the message stored. A handler may fail for want of gas at any time, so
`ReceiveFails` has no further guard. `retryMessage` runs the same handler. `SafeCreditTo` is
`_safeCreditTo` with the net inflow of the epoch and the queue, `LockFor` is `_lockFor`, which falls
back to it when the locker is shut down or the proxy paused. Queued transfers are identified as in
the code by epoch, chain, account, amount and time.

**Coordinators.** One sidechain's three ways to L1 are a set `wire` of messages that have not taken
effect: nothing orders a notice of fees, the AURA and the callback, and each takes effect once, which
is what `AuraBridge` shows of such a path. BAL travels by `BridgeBal`, in any portions.
`DistributeAura` is the call of a distributor for one chain, `DistributeToAll` the call through
`AuraDistributor`, which tops up the float first. What the booster mints per BAL is the choice of
`rate`; how `rewardMultiplier` cuts it is the code's.

**AuraBalVault.** `totalUnderlying` is what the strategy has staked. `Redeem` is `redeem` and
`_withdraw`; the last to leave harvests and takes everything (`PaidFor`). `MintShares` and `Withdraw`
are `mint` and `withdraw`, which convert and call `deposit` and `redeem`. What a harvest brings is
chosen from `Gains`, up to `InitialRewards` in all: it is the outcome of external exchanges. `Stake` and
`Unstake` are the parts that the bridge shares with other users.

**AuraBalBridge.** `Proxy` is the bridge among the vault's users, and `wallet[Proxy]` what it holds loose.
`Pay` is `_withdraw` (with no penalty) and the transfer after it; `CreditTo`, `Rescue` use it. `SendFrom` stakes
all that is loose, as `_stakeAll` does. Messages are those of `AuraBridge`, which shows that each takes
effect once, so here auraBAL is `abroad` from when it is sent and `home` is a bag of what waits to be
credited, be it on the way, stored or queued. `HarvestBridge` splits yield and AURA by what a harvester
reports; `ProcessClaimable` sends a chain its part. `rescue` sends any token the proxy has: auraBAL, which it
withdraws first (`Rescue`), AURA (`RescueExtra`) or the proxy's shares of the vault (`RescueShares`), and only
the first is subtracted from `internalTotalSupply`. By `vaultExecute` the owner makes any call of the
vault as the proxy: `VaultExecute` is every step an account can take in the vault (deposit, mint, redeem and
withdraw for any receiver, transfer), and `setWithdrawalPenalty`, the owner's call of the vault, is part of
the vault's own steps. An approval is not a step of its own: what it would let somebody do, the transfer
or redemption does. `sharesTaken`, which no code keeps, adds up the shares that leave in these two ways, up to
`MaxShares`.

**SnapshotVotes.** `Generate`, `Create` and `Result` are the tasks `snapshot:generate`, `snapshot:create`
and `snapshot:result`; a gauge may be added to Balancer's list or killed between them (`ChangeStatus`). A
label is a model value: what matters is that two gauges may have the same, and the prefix by which
`snapshot:generate` tells them apart (`DeduplicateLabels`); `snapshot:create` refuses what is still equal.
`Result` rounds and orders as the task does: the comparator of its sort is one-sided, the
weights are cut to whole numbers, what is left goes to the heaviest, and gauges that had weight before
are set to 0 first.

**GaugeVoteRewards.** The state of a chain is a record (pools, pool ids known, destination of each
gauge, weights, processed gauges, amounts, AURA), and each function is an operator that returns the
set of records it can leave: empty where it reverts. So a batch of a Safe is a fold over its
transactions, which is all or nothing.

**PoolListing.** A batch is the sequence of transactions that the task writes, with `known`, the
number of pools when it was written. `VoteGaugeWeightsTask` is `protocol:gaugeVoter-voteGaugeWeights-tx` with
all it prepends (adding of pools, extra rewards for the pool ids and stashes that it predicts, pool ids,
no-deposit flags, chain ids); `AddPoolTask` is `protocol:add-pool`, and `SetIsNoDepositGaugeTask`
`protocol:gaugeVoter-setIsNoDepositGauge`. The tasks `protocol:keeper:l1:addPool`, `l1l2:addPool`,
`l2l2:addPool`, `l1:setStashExtraReward` and `l2:setStashExtraReward` go by the names of the actions that
model them; `L1SetPoolIds` and `L2SetPoolIds` are `protocol:gaugeVoter-getPoolIds`, which looks back over
`BatchOfPids` pools, and `protocol:gaugeVoter-setPoolIds` with what it answers. Between writing and execution
keepers may add pools through the managers, on either chain, and the order of messages to the
sidechain is free. A query that fails (`sideFails`) leaves the sidechain out, as the task's `catch` does.

**VotingRound.** Situations a round may start in are the constant `Starts`: gauges listed before, their
votes, the gauges with a weight, and `budget`, which bounds how often each kind of step happens. The
AURA and the amounts that go to the sidechain are two sets of messages that nothing orders.

**Deployment.** A script is data: one record per transaction, with what makes it revert (authority,
balances, once-only settings, addresses that must exist, salts that are taken) and what it leaves.
`Transact`, `Fail`, `Crash` and `Rerun` are what can happen to a script: the source keeps no record of
how far a script got, so a rerun starts at its first line with contracts of new addresses, but for
those at a salted address. The fields of an abandoned contract of the same name are dropped (`Make`), so
what the deployer still owns of abandoned attempts is not counted by `DeployerKeepsLeftovers`. Fields that no later transaction asks for and nobody commands by are left
out. What the multisigs do between the scripts (`Post2`, `Sale`, `DaoChild`, ...) are scripts too, with
the script they wait for. The task of `WardenQuestScheduler` sends its last three transactions without
waiting for their receipts (`mainnet-post-phases.ts:335`); they have one sender, whose nonces keep them in
the order they are modelled in. `LaunchOrder` is the order of the launch, from which the others start.

**AuraReleases.** One ledger, `aura`, holds the AURA of the deployer, users, contracts and lockers; a
transfer beyond a balance does not happen. A contract that releases AURA calls only the token and the
locker, so the contracts meet nowhere but in the ledger: `active` names those a behaviour is about, and
the instance takes each alone. A lock is a transfer to the locker, with the guards of
`AuraLocker.lock`; what the locker does with it is `AuraLocker`'s. A locker may be shut down, replaced or
set to `address(0)` at any time (`AdminStep`), which also turns off the penalty of a drop. A Merkle tree
is its set of leaves, and an account may have several of them. `Vestings` is what the arrays of `fund`
come to for each recipient, as only the sums are kept. `PayOrLock` is the last part of every claim.
The pool's modifier `updateReward` is `PoolUpdated` and `StakerUpdated`,
records that a handler goes on from; `initialiseRewards` does not have it and does not need it, because
until then the rate is zero. That it stays zero if the pool has less AURA than a period has seconds, so
that the rewards can be initialised again, is a case of the instance.

## 3. What the runs check

| Run | Instance | Properties |
|---|---|---|
| `locker_delegation` | two accounts, two delegatees, locks of two epochs, three epochs | `FutureVotesMatchLocks`, `ExpiredLocksCanBeWithdrawn`, `PastEpochsFrozen` |
| `locker_accounts` | two accounts, one of them a contract; relocks, kicks, shutdown, blacklist, a changed kick incentive | `LocksAccounted`, `SupplyIsSumOfBalances`, `NoEarlyExit` |
| `locker_rewards` | two accounts, one reward token in streams of two ticks | `RewardsSolvent`, `EarningsKept` |
| `extra_rewards` | two accounts, locks of three epochs, four epochs of two ticks, three additions by a depositor or the forwarder | `ExtraRewardsCovered`, `SettledEpochsClosed` |
| `bridge_safety` | one sidechain, two messages a path, two epochs, all administrative actions, a fair relayer | `EachMessageInOnePlace`, `EscrowCoversClaims`, `PausedMeansFrozen`, `ImplementsExactlyOnce`, `NeverBlocked` |
| `coordinators` | two sidechains that share the float, two notices and two distributions each, two multipliers, claims that round | `OwedIsOnTheWay`, `FloatIsAccounted`, `RewardsBacked`, `MintKeepsRate` |
| `aurabal_bridge` | the bridge and one other user of the vault, amounts of 1 and 3, penalties of nothing and four tenths, yield of 2 and AURA of 2 for two sidechains, up to 3 shares taken by sudo or the owner | `SharesAreBacked`, `WithdrawCoversAssets`, `ShareNeverLoses`, `SupplyIsAbroad`, `ClaimsAreKept`, `BackingLosesOnlyRounding` |
| `voting_round` | two gauges of mainnet, two of a sidechain, one of another chain; first and second rounds, and listings with keepers at work | `VotesGoWhereMeant`, `VotesFitPower`, `FreshBatchExecutes`, `FreshBatchLists`, `RewardsWithinBudget`, `RewardsGoToOwnPool`, `ChildIsBacked` |
| `deployments` | the launch, what came later and two sidechains with each kind of bridge; one crash, or one number at its limit | `FirstRunsComplete`, `RerunsFailOnlyPastNoReturn`, `DeployerKeepsLeftovers`, `RemotesAreMutual` |
| `aura_releases` | the token with four cliffs and two boosters, an airdrop of each kind for two accounts, an escrow for two recipients, a reward pool funded in parts of 2 and 6 | `EmissionsCapped`, `DropsCovered`, `VestingsCovered`, `PoolsSolvent` |

What they show. In the locker: the three bookkeepings agree in every reachable state, so votes,
balances and supply are the same facts counted three ways; nothing done later, however late the
epochs are checkpointed, changes an epoch that has started; nothing leaves early, nobody but a keeper
past the delay takes from another's lock (that no record is processed twice, `ProcessedOnce`, is
proved and not run, section 5); an expired lock can
always be withdrawn; the locker can always pay the rewards it owes, and what an account has earned
falls only when it is paid in full or leaves in an emergency itself. Of the extra rewards: whatever
happens to the locks after an amount was divided by the supply of an epoch, a shutdown included, the
open claims of all accounts are in the distributor, and no reward enters an epoch somebody has
settled. In the bridge: no mixture of
failures, retries, queueing and pauses applies a message twice or loses it, the escrow covers every
claim, and a failing message never blocks those behind it. Between coordinators: whatever order
notices, AURA and BAL arrive in, debts are distributed and settled once, the float is accounted for,
accumulated AURA is held or on the way, and claims are fair. In the vault, with the auraBAL bridge as a
user: no operation takes from the other holders; `internalTotalSupply` is the auraBAL abroad and on its
way back, the claims of the chains add up and are held, and what the bridge owes stays staked but for
the price of a share that each rounding may cost, for what is sent to the proxy itself, and for the worth
of the shares that sudo rescues or the owner gives away by `vaultExecute`: these leave with nothing
subtracted from what is owed, and nobody else can take them.
In a round of voting: with the list of gauges unchanged, votes go to the gauges that were voted for, in
the order of their scores, and never ask for more weight than there is; a batch that no later pool has
made out of date executes as a whole, whatever mix of new, known and unlistable gauges it has, and
leaves each gauge with its own pool id and extra reward; no more than the reward of an epoch is paid
though the rate changes between gauges, and no pool gets another's AURA. In the deployments: a first
run fails only where `LateRefusal` says, a second one only past the script's point of no return
(`NoReturn`) or at a spent salt; the deployer is left with what `Leftovers` lists; contracts across
chains trust each other whatever attempts they needed. Of the releases of AURA: the emissions, which
`mint` finds by subtraction, stay between zero and the cap across cliffs, mints of the minter and
changes of the operator; a drop can pay every account that has not claimed, and its penalties, until
the dao takes the rest, and the penalties after that; an escrow holds to the last unit what its
recipients have not been paid, so that rounding loses nothing and a cancellation takes from nobody
else; the pool holds what is earned, pending and still to stream, whoever starts the stream and
whenever AURA is added, and what is added later is nobody's.

Bounds and why they are enough. *Time*: the locker depends on time through epochs only (except for
streams, and views that refuse an epoch in its first block), so a tick is an epoch where neither
matters, and two ticks are one in `locker_rewards` and `extra_rewards`; five epochs with locks of two let
a lock be made, expire, be kicked after the delay and be relocked; the three of `locker_delegation` leave
gaps between checkpoints up to the length of a lock; the four of `extra_rewards` are what it takes to
forfeit one of three rewarded epochs and to claim for a lock that is gone. 17 epochs only make the lists
longer. *Amounts* of 1 and 2 tell a sum from each of its parts and let amounts round (the kick
incentive, the stream with `Precision` 3). The reward constants (`MaxRewards`, `MaxRewardRate`,
`MaxUint96`) are set far above what the amounts can reach, so overflow does not occur in these
instances. *Bridge*: two messages a path let one fail or wait and the other be handled behind it, in
both directions, with two epochs for the queue; sidechains meet only in the escrow, and what is
proved (section 5) is proved for any number of them. *Coordinators*: two distributions to a chain are
what it takes to distribute a debt twice, two chains to confuse whose debt it is. *auraBAL*: three auraBAL of a user
and two of yield give shares worth 1, 2, 5/2 and so on, so that deposits, withdrawals and parts of a
harvest round; one auraBAL (or AURA) is rescued, or sent to the proxy itself, and three shares
are the most that are taken, as many as the user's deposit buys. *Voting*: two gauges of one
label, two of a chain, and one that neither chain lists are the cases the tasks tell apart; seven votes
over scores of 0 to 2 leave every kind of remainder. *Deployments*: two sidechains tell the first
(configured by the deployer) from the others and every kind of bridge occurs; a rerun repeats a script
from its start, so that one crash at each place is what a second one could only repeat. *Releases*: five ticks have the
start, the middle and the expiry of a drop, and each third of a vesting and of a stream; leaves of 4
leave a penalty of 1, 3 and 1 none; 4 over three ticks rounds at each; a pool with 2 for three ticks has
a rate of zero, and 6 and 8 make rates with and without a remainder; 20 over four cliffs lets one mint
cross two of them and the last be cut; each half of the accounts, administrators and boosters is like
the other (symmetry). Every bound is
a constant that the module marks as one.

`CHECK_DEADLOCK FALSE` stands where a clock or a counter is bounded, so that the instance stops though
the system does not.

Fairness. `FairSpec` assumes weak fairness of `Receive(p) \/ ReceiveFails(p)` for each path: LayerZero's
relayer delivers what the endpoint has accepted, and the handler then succeeds or fails. It is
the specification of `bridge_safety`. Nothing
obliges anybody to retry, process the queue or claim, so no property assumes that anybody does.

Disagreements. Two runs check what the repository says and find the code to do otherwise:

- `bridge_queue_collision`, `EveryTransferIsKept`: two equal transfers to one account that are queued in
  one block have one entry in the queue, and one of them is paid (`PausableProxyOFT.sol:175`).
- `listing_batches`, `BatchesExecute`: for a gauge whose pool exists but lacks its extra reward,
  `protocol:add-pool` puts an array where the batch has transactions (`tasks/protocol/index.ts:252`, `:477`),
  and the file it writes cannot be executed.

Met while modelling, without a run of their own. *Contracts*: after a shutdown `balanceOf` counts locks
that have been withdrawn (`AuraLocker.sol:684`, `:690`), and extra rewards are paid on them; `withdraw` says it sends exactly the assets and sends a
little more (`GenericVault.sol:351`). What `_withdraw` of the auraBAL bridge gets beyond what it asked for
(the last to leave the vault gets everything) stays loose and is sent along by the next sender, who
receives it abroad (`AuraBalProxyOFT.sol:189`, `:398`); auraBAL sent home to the proxy itself does not lower
`internalTotalSupply` (`:207`), which is why `SupplyIsAbroad` counts it; neither does a rescue of vault shares
(`:372`) or a `vaultExecute` that spends them (`:339`), which leaves what is abroad uncovered; the comment on `harvest` says that it
triggers a harvest of the vault, which it does not (`:219`). Comments on the penalty of
immediate claims say 20% (`AuraBalRewardPool.sol:16`, `:173`, `AuraMerkleDrop.sol:152`), the code takes three
tenths; `initialiseRewards` is said to work once ("only allows funding to be called once, ever",
`test/rewards/AuraBalRewardPool.spec.ts:236`), and works again after a call that left the rate at zero.
*Voting*: if `gauge_choices.json` is generated again between
proposal and result, a label may move to another gauge (a condition of `VotesGoWhereMeant`); weights on
gauges that Balancer delisted are not reset, because the tasks look for them in Balancer's list only; a
mainnet gauge without `liquidityGauge` is shown as "no deposit" but no transaction says so; looking for
the latest pool goes back 19 pools, the comment says 20; the sidechain tasks never set ids that an
earlier batch left unset; a chain whose queries fail is left out of a batch without the task failing.
*Deployment*: the WETH for the sale is never counted (`deploySystem.ts:1011`), nor is the deployer's last
pool token, which phase 2 needs twice; 375 WETH pass the script's test and not the contract's;
`deploySidechainPeripherals` takes the constant salt where it was given one (`deploySidechain.ts:1116`); the
tasks for L1 phases 3 and 4 pass a chain id of the EVM where LayerZero's is meant
(`tasks/deploy/sidechain.ts`); the owner of the sale is the deployer, not the treasury
(`deploySystem.ts:411`).

## 4. Hazards

`PROJECT.json` lists them at their lines, each with the properties that would catch it, and, where none does, why.

## 5. What is proved

The theorems hold for every value of the constants that the modules' assumptions allow: any finite
number of accounts, users, chains and leaves, any number of messages, any amounts, any clock. The
assumptions (`BridgeAssumption`, `CoordinatorsAssumption`, `VaultAssumption`, `AuraBalBridgeAssumption`,
the locker's `TimeAssumption`, `AmountAssumption`, `KickAssumption`, `AddressAssumption`,
`ExtraRewardsAssumption`, and `TokenAssumption`, `EscrowAssumption`, `PayoutAssumption`,
`DropAssumption` of the releases, `GaugeAssumption`, `SnapshotAssumption`, `ListingAssumption` and
`RoundAssumption` of the voting round) say that amounts and bounds are natural numbers, that an epoch has a
length and a lock lasts at least two, that the clock starts later than the length of a lock, that a
penalty is less than the whole, that there are no more cliffs than units of the cap, that a vesting
ends after it starts, that contracts are accounts and `address(0)` is no delegatee, and that sets which
a property sums over are finite (there are 2^160 addresses, a Merkle tree has finitely many leaves,
the subgraph answers with a list of gauges that names each once, and so does Balancer's voting list).

**Sums.** Most of what these contracts promise is about a sum: over accounts, over messages that wait,
over records of a lock. A sum is a fold, and a fold is a recursive function that `CHOOSE` takes, so that
what it computes takes an induction that the prover has no rule for. `Arithmetic` does without: the
function exists on every finite set because there is no smallest subset on which it does not
(`SmallestSubset`, from the well-foundedness of strict inclusion, with the predicate spelled out as a
set of subsets instead of a parameter), and the lemmas on what a sum does when a term is added, taken
or changed, is zero, or bounds another, are proved the same way. Bags of messages, lists of locks and
pairs of indices are summed by the same lemmas over their domains. Products and rounded divisions are
kept away from the solvers by the lemmas on `\div` and `*` in the same module.

- **Bridge** (`AuraBridgeProofs`). `TypeCorrect`: no balance or escrow is ever negative.
  `PlacesCorrect`: a message that was sent is on the way, stored, or handled, and in one place only.
  It is inductive because `EachMessageInOnePlace` also says what the channel looks like: it holds the
  nonces after those received, in order (`ChannelOrdered`), so that what is delivered next was never
  stored or handled. `BridgeImplementsExactlyOnce`: with `IInv`, types and places, every step maps to
  `Accept`, `Complete` or a stutter of `ExactlyOnce`; `WaitingIsUnhandled` is the step that turns
  places into the abstract sets. `PauseFreezes`: while the proxy is paused only sudo takes AURA out of
  it, by cases over the handlers. `EscrowStaysCovered`: the escrow covers what is abroad, what is on the
  way, what waits to be retried and what the queue still owes. Its claims lie in channels, stores and a
  queue that grow without bound, so `StoresAreFinite` is carried along with `EscrowCoversClaims`, and
  each handler moves one message from one sum to another.
- **Coordinators** (`CoordinatorsProofs`). `CountsCorrect`: no count is negative and neither more debt is
  distributed nor settled than there is, so no subtraction in the code reverts. `CountsOK` is
  inductive. `ClaimsKeepRate`: a claim never lowers the AURA per BAL of the others; it rests on
  `ShareIsFair`, that rounding down twice, in the rate and in the amount, only takes less.
  `EachFeeIsOwedOnce`, `FloatStaysAccounted` and `CountedAuraIsThere` follow the BAL of the fees, the BAL of
  the float and the AURA that is distributed for it, through a wire that loses nothing but keeps no order.
  By `WireInv` the wire is finite and the number of the next message is not in it, so that a message
  that is sent adds exactly its amount.
- **Vault** (`AuraBalBridgeProofs`). `VInv`, types and `SharesAreBacked`, is inductive; being worth at
  least one auraBAL is what makes a conversion to shares give no more than the deposit, and a division
  possible while shares exist. From it: `VaultTypeCorrect`, `SharesStayBacked`, `SharesNeverLose` (each
  operation keeps underlying per share, in the form of a product, so that rounding is exact),
  `WithdrawIsEnough` (the two roundings of `previewWithdraw` and the one of `redeem` still pay for the
  assets) and `SharesStayAddedUp` (the shares of all users are the supply).
- **auraBAL bridge** (`AuraBalBridgeProofs`). Its steps are not steps of the vault's specification (no
  penalty, and part of what is withdrawn is sent on), so `VInv` is shown to be inductive again, from
  `StakeIsFair`, `UnstakeIsFair` and `PayIsFair`. `BridgeKeepsSharesBacked`, `BridgeNeverTakesFromShares` and
  `BridgeLeavesWithdrawEnough` are the vault's theorems for the composition; `BridgeIsPaid` says that the
  require "!withdrawn" never fails. `SupplyStaysAbroad` and `ClaimsStayKept` need `FInv`: the messages
  home are a bag of natural numbers, and a harvest gives the chains no more than it found
  (`PartsFit`). `BackingOnlyRounds` bounds what rounding may cost the bridge in one step by the price of one
  share (`StakeBacks`, `PayBacks`), and uses `SharesAddUp` for what the others do (`OthersBack`). Shares that
  are rescued or that `vaultExecute` spends cost it at most their worth (`TakenIsWorth`): what takes them is a
  step of the vault (`TakingIsAVaultStep`), by which the price of a share does not fall, and the stake is
  then worth no less than before but for the shares that left, however it is rounded (`WorthOfLeft`).
- **Locker** (`AuraLockerProofs`). `IInv` joins `TypeOK`, `VaultHoldsSupply` and `ListsSorted`
  with `ProcessedAreOver`: before a shutdown, a record below `nextUnlockIndex` unlocks no
  later than an epoch from now. It is what makes `RecordsProcessedOnce` provable: a new lock unlocks
  at `currentEpoch + lockDuration`, and because a lock lasts at least two epochs (`LockEpochs >= 2`,
  17 in the code) that is later than any record already processed, so `_lock` never adds to one; after
  a shutdown nothing is locked any more. Sortedness rests on lemmas about dates (`Dates`,
  `DatesAreApart`, `EpochsBetween`: two starts of epochs are a whole number of epochs apart) and on
  one lemma per list: `AddLockKeeps`, `CheckpointKeeps`, `EpochsFilled`. `ScanStops` shows that the
  loop of `_processExpiredLocks` ends at a record or at the end, by the least record that has not
  expired; `ReleaseFacts` says what it leaves. Then there is one lemma per handler.
  `LockerTypeCorrect`, `SupplyHeld` and `ListsStaySorted` follow. On top of it, each with what it adds to `IInv`:
  - `LocksStayAccounted`: a balance is the sum of the records not processed yet, and the supply that of
    the balances. What the loop of `_processExpiredLocks` passes is exactly what leaves.
  - `RewardsStaySolvent` (`RewardsInv`): per token, what the accounts are owed before any rounding, what is
    queued and what the stream gives from the last update on, all in units of `1 / Precision`, is in the
    locker. Stated before rounding, no rounding of a later claim has to be looked at.
  - `EarningsStayKept` (`StreamsStarted`, by which `addReward` never starts a running token again): an
    accrual leaves the reward per token where it is, and without one it can only grow, as time passes or
    the supply shrinks. It falls back to what is stored when the last holder leaves by
    `emergencyWithdraw`; by `LocksAccounted` nobody then has a share in it. Both exceptions of the property
    are real: without either, TLC has a counterexample.
  - `SupplyMatchesBalances` (`SuppliesInv`): the supply stored for an epoch is what was locked in it, that is,
    what unlocks `lockDuration` later, and no lock was made outside the listed epochs.
  - `VotesMatchLocks` (`VotesInv`): beyond the upcoming epoch, `delegateeUnlocks` is what the delegators of a
    delegatee have locked until each date; its last checkpoint has the sum of the unlocks after it, and
    no unlock is further than a lock's duration away. A delegation moves all of an account's records at
    once, which makes this the longest of the proofs.
  - `WithdrawalsGoThrough`: from the same sums and `RecordsHold` (no record is empty) none of the checked
    subtractions of a withdrawal underflows.
  - `PastStaysFrozen`: what `balanceAtEpochOf`, `totalSupplyAtEpoch` and `getPastVotes` answer for an epoch that
    has begun is changed by no step. The answer of a binary search is characterised first, as the last
    checkpoint not after the epoch, so that appending a later one does not change it.
  - `NothingLeavesEarly` (`KicksAreLate`: `setKickIncentive` keeps the least delay): a step takes from an account
    only what has expired, and somebody else is paid only for what has been expired for that delay.
- **Extra rewards** (`ExtraRewardsProofs`). `EInv` adds to the locker's `IInv` that the list of rewarded
  epochs is in order and not beyond the last checkpoint (`ListInv`), and that every settled entry is over
  by that checkpoint (`SettledInv`): a claim stops before the last checkpointed epoch, and a forfeit
  before the last entry. A reward goes to the running epoch, which is not over, or behind the last entry,
  so `SettledEpochsStayClosed` follows. From the locker it takes that no step moves the last checkpoint
  back (`EpochsMoveOn`). `ExtraClaimsStayCovered` (`CoveredInv`): the balances by which an epoch's reward
  is divided are those of the past, which stay, and add up to no more than the supply it is divided by, so
  what accounts have yet to claim, each rounded down, is in the contract.
- **Releases** (`AuraReleasesProofs`). `EmissionsStayCapped`: `SupplyInv` keeps the supply apart from what
  the minter added, and `EmissionFits` bounds one mint by what is left of the cap, for which the rate must
  not be negative while a cliff is left. `VestingNeverOverpaid`: `EscrowInv` says that nothing is claimed
  before an escrow is funded and that claims never exceed what has vested (`NotAheadOfVesting`, the part of
  `VestingsCovered` that is not a sum); a claim takes exactly what has vested, a cancelled recipient
  has nothing left, and with time vesting only grows although it rounds (`VestingGrows`).
  `DropsStayCovered`, `VestingsStayCovered` and `PoolsStaySolvent` share one inductive invariant
  (`HoldingsInv`), because all of them are paid in the same AURA and several contracts hold it: the AURA
  of a drop covers the leaves not claimed, that of an escrow the shares not paid, that of a pool the
  deposits, the rewards earned and those still to stream. A step of one of them
  leaves what the others hold alone (`OthersKeep`).
- **Voting round** (`VotingRoundProofs`). A batch of a Safe is a fold of its transactions over sets of
  states. `BatchStays` turns it into one step: the function that the fold takes is shown to exist on every
  finite set of indices (`FoldExists`), and what every transaction keeps, no smallest set of indices can
  break (`FoldStays`). `EffectFollows` then says what any transaction keeps, whatever its arguments: pools
  stay where they are, a pool id is that of a pool of the gauge (`KnownPools`), rewards do not move, and
  weights change only by the first vote of an epoch, to weights that add up to no more than
  `totalWeight` although a gauge may be voted for twice (`LastWeightsFit`). With that `RInv` is inductive:
  on mainnet what has been sent, times the total weight, is at most the largest reward times the weight of
  the gauges processed (`WithinShares`, which no change of `rewardPerEpoch` breaks), and a funded pool is
  that of a processed gauge; on the sidechain what is announced and not passed on, with the amounts
  on their way, is at most the AURA there and on its way. That each gauge is processed once is what
  makes a message differ from all those still on their way (`Announced`). Hence `RewardsStayWithinBudget`,
  `RewardsReachOwnPool` and `ChildStaysBacked`. These three hold for batches of any transactions, in any
  number and order, not only those that the tasks make. On top of `RInv`:
  - `VotesStayCastable` and `VotesFollowScores` (`VInv`). A filter is a fold that keeps or drops the next element
    and a sort one that inserts it (`Kept`, `Inserted`), so that what they give is shown prefix by prefix, by
    the smallest prefix for which it would fail: a filter keeps the order and each gauge once, a sort the
    elements. Rounded weights fall with the scores, and what rounding leaves over is added to the first of
    them. `OrderedFits` is the argument for the order of `snapshot:result`: while the votes that are cast take
    weight away, or add none, the power in use only falls from what the round before left; afterwards it
    only rises, towards the `TotalVotes` at the end. `VInv` carries this to the chain: until there is a result the
    old power belongs to gauges that are or were listed, so each of them has a vote, if only of nothing; once
    there is one the votes fit, before and after they are cast (`FitsAgain`), for a Safe executes no votes
    but those (`CarriesVotes`).
  - `FreshBatchesList` and `FreshBatchesExecute` (`BInv`). `Made` says what a batch of the tasks looks like,
    whatever the gauges: the new ones are added in some order, each followed by the stash that its place
    among them predicts; then ids are set up to the last new pool, places are set, and the votes come
    last. `MainIsMade` and `SideIsMade` read that off the scripts. By `BInv` the batch of a Safe is made for
    the chain as it is, as long as no pool has come since it was written. `Reached` says what is true after the
    first k transactions, `Placed` which gauges can be voted for by then; one lemma for each takes it over
    one transaction (`ReachedNext`, `PlacedNext`), `EffectGoes` says that from there the next one does not
    revert, and with `VInv` neither do the votes.

Only model-checked:

- `NeverBlocked`, a liveness property under fairness.
- The deployments (`FirstRunsComplete`, `RerunsFailOnlyPastNoReturn`, `DeployerKeepsLeftovers`,
  `RemotesAreMutual`): they speak of fixed lists of steps, which TLC runs through completely; there is
  no constant to generalise over but where a run dies, and TLC tries all places.

## 6. What is not modelled, and the plan

Not modelled, with no plan to: gas; the exchanges, pools and third-party bridges that contracts call
(their outcomes are chosen); zaps, helpers, migrators, views, safe modules; the booster, which is not
in the tree; the tasks that only report; wording, rates and names of what the deployment scripts pass.
Of the auraBAL bridge its configuration is not modelled (receivers, harvesters, adapter parameters), nor the
owner calls of the vault other than `setWithdrawalPenalty` (`setStrategy`, extra rewards, harvesters), which
`vaultExecute` could make: they replace the strategy that the vault's model stands on.
Reentrancy is not modelled: AURA, auraBAL and BAL call nobody when they move. A Safe is taken to hold
the roles its batches need; who signs is not modelled.

Planned, in this order:

1. `WardenQuestScheduler`, `FeeScheduler` and the grants: amounts queued for epochs, released on time and
   covered; the owner's operations of the coordinators and bridges that re-point remotes.
2. Theorems: of the reward pool and the extra rewards what `EarningsKept` says of the locker, that no step
   lowers what an account can claim but its own.
