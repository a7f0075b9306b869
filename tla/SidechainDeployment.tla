------------------------ MODULE SidechainDeployment ------------------------
(***************************************************************************)
(* The scripts that take Aura to a sidechain x (scripts/deploySidechain.ts,*)
(* deployBridgeDelegates.ts, tasks/deploy/sidechain.ts and                 *)
(* gaugeVoteRewards.ts): the canonical contracts on mainnet, the contracts *)
(* of the sidechain, and the configuration that makes each the trusted     *)
(* remote of the other.  A contract c of chain x is named At(c, x), and    *)
(* what a mainnet contract keeps for chain x is its field For(f, x).       *)
(***************************************************************************)
EXTENDS MainnetUpgrades

At(c, x) == c \o "@" \o x
For(f, x) == f \o ":" \o x

\* setTrustedRemote of the mainnet contract c for chain x.
TrustL2(who, c, x, remote) ==
    [CallBy(who, c, "owner", <<>>) EXCEPT !.put = {<<c, For("trustedRemote", x), At(remote, x)>>}]
-----------------------------------------------------------------------------
(* Mainnet.  m says what the multisig config names.                        *)

CanonicalPhase1 ==
    << Deploy("auraProxyOFT", [owner |-> "deployer", token |-> "cvx", locker |-> "cvxLocker"]),
       Deploy("l1Coordinator", [owner |-> "deployer", booster |-> "booster6", aura |-> "cvx",
                                auraOFT |-> "auraProxyOFT"]) >>

CanonicalPhase2(m) ==
    << Deploy("auraBalProxyOFT", [owner |-> "deployer", token |-> "cvxCrv", vault |-> "vault"]),
       Call("auraBalProxyOFT", "owner", [oftOfAuraBal |-> "auraBalProxyOFT"]),
       Call("auraBalProxyOFT", "owner", [oftOfAura |-> "auraProxyOFT"]),
       CheckThat(m.harvestor),
       Call("auraBalProxyOFT", "owner", [harvester |-> "harvestor"]) >>

\* Constructors take the chain id of the caller: 101 by LayerZero's count, 1 by Ethereum's.
GaugeVoteRewards(id) ==
    << Deploy("stashRewardDistro", [booster |-> "booster6"]),
       Deploy("gaugeVoteRewards", [owner |-> "deployer", aura |-> "cvx", auraProxyOFT |-> "auraProxyOFT",
                                   booster |-> "booster6", stashRewardDistro |-> "stashRewardDistro",
                                   lzChainId |-> id]) >>

CanonicalPhase3(id) == GaugeVoteRewards(id)

CanonicalPhase4(id) ==
    << Deploy2("l1PoolManagerProxy", [owner |-> "deployer", lzChainId |-> id]) >>
    \o [i \in 1..8 |-> Call("l1PoolManagerProxy", "owner", [gaugeType |-> "set"])]

\* (mutant) it stays with the deployer
CanonicalAuraDistributor_Kept ==
    << Deploy("auraDistributor", [owner |-> "deployer", treasury |-> "treasury",
                                  l1Coordinator |-> "l1Coordinator", distributor |-> "distributor"]) >>

CanonicalAuraDistributor ==
    << Deploy("auraDistributor", [owner |-> "deployer", treasury |-> "treasury",
                                  l1Coordinator |-> "l1Coordinator", distributor |-> "distributor"]),
       HandOver("auraDistributor", "owner", "dao") >>

CanonicalView == << Deploy("canonicalView", [vault |-> "vault", auraBalProxyOFT |-> "auraBalProxyOFT"]) >>

\* The tasks deploy:sidechain:L1:phase3 and phase4 pass the id that was typed in: the
\* translation to LayerZero's is the unused half of a comma expression.
TaskL1Phase3 == CanonicalPhase3("evm")
TaskL1Phase4 == CanonicalPhase4("evm")

\* deploy:mainnet:gaugeVoteRewards, in place of phase 3.
TaskGaugeVoteRewards ==
    GaugeVoteRewards("layerZero")
    \o << Call("gaugeVoteRewards", "owner", [pools |-> "known"]) >>
    \o [i \in 1..3 |-> Call("gaugeVoteRewards", "owner", [noDeposit |-> "set"])]
-----------------------------------------------------------------------------
(* The bridge delegates.                                                   *)

SimpleBridgeReceiver(x) ==
    << Deploy2(At("l1Receiver", x), [owner |-> "deployer", l1Coordinator |-> "l1Coordinator"]) >>

BridgeSender(x) == << Deploy(At("l2Sender", x), [owner |-> "deployer"]) >>

To(x, receiver) == Call(At("l2Sender", x), "owner", [l1Receiver |-> receiver])
Keeper(x, k) == Call(At("l2Sender", x), "owner", [keeper |-> k])

\* Arbitrum and Optimism.
TaskRollupSender(x) ==
    BridgeSender(x) \o << To(x, At("l1Receiver", x)), Keeper(x, "defender"),
                          HandOver(At("l2Sender", x), "owner", "dao") >>

\* Polygon and Gnosis: nothing is set.
TaskPlainSender(x) == BridgeSender(x)

TaskZkevmSender(x) == BridgeSender(x) \o << To(x, "deployer") >>

\* Over a token of LayerZero, for tests still: the receiver is written into the task.
TaskOftSender(x) ==
    BridgeSender(x) \o << To(x, "receiver"), Keeper(x, "defender"),
                          Call(At("l2Sender", x), "owner", [adapter |-> "set"]), Keeper(x, "deployer") >>

TaskBridgeSender(x, bridge) ==
    CASE bridge \in {"arbitrum", "optimism"} -> TaskRollupSender(x)
      [] bridge \in {"polygon", "gnosis"}    -> TaskPlainSender(x)
      [] bridge = "zkevm"                    -> TaskZkevmSender(x)
      [] bridge = "oft"                      -> TaskOftSender(x)
-----------------------------------------------------------------------------
(* Sidechain x.                                                            *)

Create2Factory(x) ==
    << Deploy(At("create2Factory", x), [owner |-> "deployer"]),
       Call(At("create2Factory", x), "owner", [deployer |-> "deployer"]) >>

\* Through the factory of the chain, by one of its deployers.
OnFactory(x, tx) == Needing(tx, {<<At("create2Factory", x), "deployer", "deployer">>})
On2(x, c, fields) == OnFactory(x, Deploy2(At(c, x), fields))
On(x, c, fields) == Call(At(c, x), "owner", fields)

SidechainCore(x) ==
    << On2(x, "voterProxy", [owner |-> "deployer"]),
       On2(x, "auraOFT", [owner |-> "deployer"]),
       On2(x, "l2Coordinator", [owner |-> "deployer", auraOFT |-> At("auraOFT", x)]),
       Leaving(On2(x, "booster", [owner |-> "deployer", feeManager |-> "deployer",
                                  poolManager |-> "deployer"]),
               Facts(At("booster", x), [staker |-> At("voterProxy", x)])),
       On2(x, "keeperMulticall3", [owner |-> "deployer"]),
       On2(x, "rewardFactory", [operator |-> At("booster", x)]),
       On2(x, "tokenFactory", [operator |-> At("booster", x)]),
       On2(x, "proxyFactory", <<>>),
       On2(x, "stashFactory", [operator |-> At("booster", x), rewardFactory |-> At("rewardFactory", x)]),
       On2(x, "stashV3", <<>>),
       On2(x, "poolManager", [operator |-> "dao", booster |-> At("booster", x)]),
       On2(x, "boosterOwner", [owner |-> "dao", poolManager |-> At("poolManager", x),
                               booster |-> At("booster", x)]) >>

SidechainWiring(x) ==
    << Needing(On(x, "l2Coordinator", [booster |-> At("booster", x)]),
               {<<At("l2Coordinator", x), "booster", "nobody">>}),
       On(x, "l2Coordinator", [trustedRemote |-> "l1Coordinator"]),
       On(x, "l2Coordinator", [bridgeDelegate |-> At("l2Sender", x)]),
       HandOver(At("l2Coordinator", x), "owner", "dao"),
       On(x, "auraOFT", [trustedRemote |-> "auraProxyOFT"]),
       On(x, "auraOFT", [adapterParams |-> "set"]),
       HandOver(At("auraOFT", x), "owner", "dao"),
       Needing(On(x, "voterProxy", [operator |-> At("booster", x)]),
               {<<At("voterProxy", x), "operator", "nobody">>}),
       Needing(OpenCall(At("stashFactory", x), [implementation |-> At("stashV3", x)]),
               {<<At("booster", x), "owner", "deployer">>}),
       HandOver(At("voterProxy", x), "owner", "dao"),
       Needing(On(x, "booster", [rewards |-> At("l2Coordinator", x)]),
               {<<At("booster", x), "rewards", "nobody">>}),
       HandOver(At("booster", x), "poolManager", At("poolManager", x)),
       On(x, "booster", [rewardFactory |-> At("rewardFactory", x), stashFactory |-> At("stashFactory", x),
                         tokenFactory |-> At("tokenFactory", x)]),
       HandOver(At("booster", x), "feeManager", "deployer"),
       Call(At("booster", x), "feeManager", [fees |-> "set"]),
       HandOver(At("booster", x), "feeManager", "dao"),
       HandOver(At("booster", x), "owner", At("boosterOwner", x)) >>

SidechainPhase1(x) == SidechainCore(x) \o SidechainWiring(x)

SidechainPhase2(x) ==
    << On2(x, "auraBalOFT", [owner |-> "deployer"]),
       On2(x, "virtualRewardFactory", <<>>),
       On2(x, "auraBalVault", [owner |-> "deployer", underlying |-> At("auraBalOFT", x),
                               virtualRewardFactory |-> At("virtualRewardFactory", x)]),
       On2(x, "auraBalStrategy", [vault |-> At("auraBalVault", x)]),
       Needing(On(x, "auraBalVault", [strategy |-> At("auraBalStrategy", x)]),
               {<<At("auraBalVault", x), "strategy", "nobody">>}),
       On(x, "auraBalVault", [harvest |-> "open"]),
       Needing(On(x, "auraBalVault", [extraReward |-> At("auraOFT", x)]),
               {<<At("auraBalVault", x), "strategy", At("auraBalStrategy", x)>>}),
       On(x, "auraBalOFT", [trustedRemote |-> "auraBalProxyOFT"]),
       On(x, "auraBalOFT", [customParams |-> "set"]),
       On(x, "auraBalOFT", [minDstGas |-> "set"]),
       HandOver(At("auraBalOFT", x), "owner", "dao") >>

\* Initialised and handed over by the callbacks of one creation.
SidechainPhase3(x) ==
    << On2(x, "stashRewardDistro", [booster |-> At("booster", x)]),
       On2(x, "childGaugeVoteRewards", [owner |-> "dao", distributor |-> "defender", auraOFT |-> At("auraOFT", x),
                                        booster |-> At("booster", x),
                                        stashRewardDistro |-> At("stashRewardDistro", x)]) >>

SidechainPhase4(x) ==
    << On2(x, "l2PoolManagerProxy", [owner |-> "dao", keeper |-> "deployer",
                                     poolManager |-> At("poolManager", x),
                                     trustedRemote |-> "l1PoolManagerProxy"]) >>

\* deploy:sidechain:gaugeVoteRewards, in place of phase 3.
TaskChildGaugeVoteRewards(x) ==
    << On2(x, "childStashRewardDistro", [booster |-> At("booster", x)]),
       On2(x, "childGaugeVoteRewards", [owner |-> "deployer", auraOFT |-> At("auraOFT", x),
                                        booster |-> At("booster", x),
                                        stashRewardDistro |-> At("childStashRewardDistro", x)]),
       On(x, "childGaugeVoteRewards", [endpoint |-> "set"]),
       On(x, "childGaugeVoteRewards", [pools |-> "known"]),
       On(x, "childGaugeVoteRewards", [trustedRemote |-> "gaugeVoteRewards"]),
       On(x, "childGaugeVoteRewards", [distributor |-> At("keeperMulticall3", x)]),
       HandOver(At("childGaugeVoteRewards", x), "owner", "dao") >>
-----------------------------------------------------------------------------
(* The peripherals of sidechain x.                                         *)

\* The salt of this multicall is that of the text, whatever the option of the task says.
KeeperMulticall3(x) ==
    << [On2(x, "peripheralMulticall3", [owner |-> "deployer"]) EXCEPT !.salt = "fixed"] >>

SidechainClaimZap(x) ==
    << On2(x, "sidechainClaimZap", [owner |-> "deployer", cvx |-> At("auraOFT", x),
                                    cvxCrv |-> At("auraBalOFT", x), vault |-> At("auraBalVault", x)]),
       On(x, "sidechainClaimZap", <<>>) >>

SidechainView(x) ==
    << On2(x, "sidechainView", [l2Coordinator |-> At("l2Coordinator", x)]),
       On2(x, "auraViewHelpers", <<>>) >>

SidechainPayableMulticall(x) == << On2(x, "payableMulticall", <<>>) >>

SidechainBoosterHelper(x) == << On2(x, "boosterHelper", [booster |-> At("booster", x)]) >>

SidechainPeripherals(x) ==
    KeeperMulticall3(x) \o SidechainClaimZap(x) \o SidechainView(x)
    \o << Deploy(At("rewardDepositWrapper", x), <<>>) >>

SidechainAuraLocker(x) ==
    << On2(x, "cvxLocker", [owner |-> "dao", stakingToken |-> At("auraOFT", x)]) >>

ExtraRewardStashLiteModule(x) ==
    << On2(x, "extraRewardStashModule", [owner |-> "dao", keeper |-> At("keeperMulticall3", x),
                                         token |-> At("auraOFT", x),
                                         boosterOwner |-> At("boosterOwner", x)]) >>

\* The Post step: the defender becomes a keeper, and the multicall the dao's.
PostKeepers(x) ==
    << On(x, "keeperMulticall3", [keeper |-> "defender"]),
       HandOver(At("keeperMulticall3", x), "owner", "dao") >>
-----------------------------------------------------------------------------
(* Configuration of mainnet for sidechain x.  The first time by the        *)
(* deployer; afterwards the owner is the dao, which makes the same calls.  *)

SetTrustedRemotePhase1(x, who, m) ==
    << TrustL2(who, "l1Coordinator", x, "l2Coordinator"),
       TrustL2(who, "auraProxyOFT", x, "auraOFT"),
       [CallBy(who, "l1Coordinator", "owner", <<>>) EXCEPT
           !.put = {<<"l1Coordinator", For("bridgeDelegate", x), At("l1Receiver", x)>>}],
       [CallBy(who, "l1Coordinator", "owner", <<>>) EXCEPT
           !.put = {<<"l1Coordinator", For("l2Coordinator", x), At("l2Coordinator", x)>>}],
       CheckThat(m.distributor),
       CallBy(who, "l1Coordinator", "owner", [distributor |-> "distributor"]),
       CallBy(who, "l1Coordinator", "owner", [owner |-> "dao"]),
       CallBy(who, "auraProxyOFT", "owner", [owner |-> "dao"]) >>

\* (mutant) the owner changes first
SetTrustedRemotePhase2_HandOverFirst(x, who) ==
    << CallBy(who, "auraBalProxyOFT", "owner", [owner |-> "dao"]),
       TrustL2(who, "auraBalProxyOFT", x, "auraBalOFT") >>

\* (mutant) the remote of the other token
SetTrustedRemotePhase2_WrongToken(x, who) ==
    << TrustL2(who, "auraBalProxyOFT", x, "auraOFT"),
       CallBy(who, "auraBalProxyOFT", "owner", [owner |-> "dao"]) >>

SetTrustedRemotePhase2(x, who) ==
    << TrustL2(who, "auraBalProxyOFT", x, "auraBalOFT"),
       CallBy(who, "auraBalProxyOFT", "owner", [owner |-> "dao"]) >>

SetTrustedRemotePhase3(x, who) ==
    << TrustL2(who, "gaugeVoteRewards", x, "childGaugeVoteRewards"),
       CallBy(who, "gaugeVoteRewards", "owner", [owner |-> "dao"]) >>

SetTrustedRemotePhase4(x, transferOwnership) ==
    << TrustL2("deployer", "l1PoolManagerProxy", x, "l2PoolManagerProxy") >>
    \o IF transferOwnership THEN << HandOver("l1PoolManagerProxy", "owner", "dao") >> ELSE <<>>

\* (mutant) it hands over after each chain
TaskConfigPhase4_EachTime(chains) ==
    FlattenSeq([i \in DOMAIN chains |-> SetTrustedRemotePhase4(chains[i], TRUE)])

\* The task for phase 4 takes all chains, and hands over after the last.
TaskConfigPhase4(chains) ==
    FlattenSeq([i \in DOMAIN chains |-> SetTrustedRemotePhase4(chains[i], i = Len(chains))])

\* configure:mainnet:gaugeVoteRewards
TaskConfigGaugeVoteRewards(chains) ==
    << Call("gaugeVoteRewards", "owner", [rewardPerEpoch |-> "set"]) >>
    \o [i \in DOMAIN chains |->
           [Call("gaugeVoteRewards", "owner", <<>>) EXCEPT
               !.put = {<<"gaugeVoteRewards", For("child", chains[i]), At("childGaugeVoteRewards", chains[i])>>}]]
    \o [i \in DOMAIN chains |-> TrustL2("deployer", "gaugeVoteRewards", chains[i], "childGaugeVoteRewards")]
    \o << Call("gaugeVoteRewards", "owner", [distributor |-> "keeperMulticall3"]),
           HandOver("gaugeVoteRewards", "owner", "dao") >>
-----------------------------------------------------------------------------
(* What the dao does itself.                                               *)

\* Once: the booster reports to the coordinator, the gauge votes to their contract.
DaoMainnet ==
    << CallBy("dao", "booster6", "feeManager", [bridgeDelegate |-> "l1Coordinator"]),
       Leaving(Needing(CallBy("dao", "boosterOwnerSecondary", "owner", <<>>),
                       {<<"boosterOwner6", "owner", "boosterOwnerSecondary">>,
                        <<"booster6", "owner", "boosterOwner6">>}),
               {<<"booster6", "voteDelegate", "gaugeVoteRewards">>}) >>

\* For chain x, after phase 3 of the scripts: the child trusts mainnet.
DaoChild(x) ==
    << CallBy("dao", At("childGaugeVoteRewards", x), "owner", [trustedRemote |-> "gaugeVoteRewards"]) >>

\* The owner of the vault: deployer until it gives it to the proxy.
DaoVault == << HandOver("vault", "owner", "auraBalProxyOFT") >>
=============================================================================
