--------------------------- MODULE MainnetUpgrades ---------------------------
(***************************************************************************)
(* What was deployed on mainnet after the launch: the second booster and   *)
(* the migration to it, its managers, the auraBAL vault, and the small     *)
(* contracts and Safe modules around them.  A contract of phase 6 that     *)
(* replaces one of phase 2 has its name with a 6.                          *)
(***************************************************************************)
EXTENDS MainnetDeployment

-----------------------------------------------------------------------------
Phase6Core ==
    << Leaving(Deploy("booster6", BoosterRoles),
               Facts("booster6", [staker |-> "voterProxy", minter |-> "cvx"])),
       Deploy("rewardFactory6", [operator |-> "booster6"]),
       Deploy("tokenFactory6", [operator |-> "booster6"]),
       Deploy("proxyFactory6", <<>>),
       Deploy("stashFactory6", [operator |-> "booster6", rewardFactory |-> "rewardFactory6"]),
       Deploy("stashV36", <<>>),
       Deploy("cvxCrvRewards6", [stakingToken |-> "cvxCrv", operator |-> "booster6",
                                 rewardManager |-> "rewardFactory6"]),
       Deploy("poolManagerProxy6", [pools |-> "booster6", owner |-> "deployer", operator |-> "deployer"]),
       Deploy("poolManagerSecondaryProxy6", [pools |-> "poolManagerProxy6", booster |-> "booster6",
                                             owner |-> "deployer", operator |-> "deployer"]),
       Deploy("poolManager6", [pools |-> "poolManagerSecondaryProxy6", operator |-> "dao",
                               protectAddPool |-> "yes"]),
       Deploy("boosterOwner6", [owner |-> "dao", poolManager |-> "poolManagerSecondaryProxy6",
                                booster |-> "booster6", stashFactory |-> "stashFactory6"]),
       Deploy("boosterHelper6", [booster |-> "booster6"]),
       Deploy("feeCollector6", [booster |-> "booster6", voterProxy |-> "voterProxy"]),
       Deploy("claimZap6", [owner |-> "deployer", cvx |-> "cvx", cvxCrv |-> "cvxCrv",
                            crvDepositWrapper |-> "crvDepositorWrapper",
                            cvxCrvRewards |-> "cvxCrvRewards6", locker |-> "cvxLocker"]),
       Deploy("poolMigrator", [boosterV1 |-> "booster", boosterV2 |-> "booster6"]) >>

Phase6Configuration ==
    << Call("claimZap6", "owner", <<>>),
       Call("booster6", "owner", [lockRewards |-> "cvxCrvRewards6", stakerRewards |-> "cvxStakingProxy"]),
       HandOver("booster6", "poolManager", "poolManagerProxy6"),
       Call("poolManagerProxy6", "owner", [operator |-> "poolManagerSecondaryProxy6"]),
       HandOver("poolManagerProxy6", "owner", "nobody"),
       Call("poolManagerSecondaryProxy6", "owner", [operator |-> "poolManager6"]),
       Call("poolManagerSecondaryProxy6", "owner", [usedMap |-> "cvx"]),
       HandOver("poolManagerSecondaryProxy6", "owner", "dao"),
       Call("booster6", "owner", [rewardFactory |-> "rewardFactory6", stashFactory |-> "stashFactory6",
                                  tokenFactory |-> "tokenFactory6"]),
       Call("booster6", "owner", [rewardArbitrator |-> "arbitratorVault"]),
       Call("booster6", "owner", [voteDelegate |-> "dao"]),
       Needing(OpenCall("stashFactory6", [v3Implementation |-> "stashV36"]),
               {<<"booster6", "owner", "deployer">>}),
       Call("booster6", "feeManager", <<>>),
       Call("booster6", "feeManager", [feeInfo |-> "token"]),
       Call("booster6", "feeManager", [feeInfo |-> "feeToken"]),
       Call("booster6", "feeManager", [treasury |-> "treasury"]),
       HandOver("booster6", "feeManager", "dao"),
       HandOver("booster6", "owner", "boosterOwner6") >>

Phase6 == Phase6Core \o Phase6Configuration

\* The great migration: the dao shuts the pools and the first booster down, then gives
\* the VoterProxy and AURA to the second one.
Migration ==
    << Leaving(Needing(CallBy("dao", "poolManager", "operator", <<>>),
                       {<<"poolManagerSecondaryProxy", "operator", "poolManager">>}),
               {<<"booster", "poolsShutdown", "yes">>}),
       Needing(CallBy("dao", "poolManagerSecondaryProxy", "owner", [isShutdown |-> "yes"]),
               {<<"booster", "poolsShutdown", "yes">>}),
       Leaving(Needing(CallBy("dao", "boosterOwner", "owner", <<>>),
                       {<<"booster", "owner", "boosterOwner">>,
                        <<"poolManagerSecondaryProxy", "isShutdown", "yes">>}),
               {<<"booster", "isShutdown", "yes">>}),
       Needing(CallBy("dao", "voterProxy", "owner", [operator |-> "booster6"]),
               {<<"booster", "isShutdown", "yes">>}),
       Needing(OpenCallBy("dao", "cvx", [operator |-> "booster6"]),
               {<<"voterProxy", "operator", "booster6">>, <<"cvx", "operator", "booster">>}) >>
-----------------------------------------------------------------------------
Phase7 ==
    << Deploy("masterChefRewardHook", [owner |-> "deployer", chef |-> "chef", cvx |-> "cvx"]),
       Deploy("siphonToken", [holder |-> "masterChefRewardHook"]) >>

\* POST-7: setPid and transferOwnership.
Post7 ==
    << Call("masterChefRewardHook", "owner", [pid |-> "siphonToken"]),
       HandOver("masterChefRewardHook", "owner", "dao") >>

\* mainnet:siphon, a forwarder and a second hook, handed over by the task.
Siphon ==
    << Deploy("chefForwarder", [owner |-> "deployer", chef |-> "chef"]),
       Deploy("siphonTokenBribes", [holder |-> "chefForwarder"]),
       Deploy("masterChefRewardHook2", [owner |-> "deployer", chef |-> "chef", cvx |-> "cvx"]),
       Deploy("siphonTokenHook2", [holder |-> "masterChefRewardHook2"]),
       HandOver("chefForwarder", "owner", "dao"),
       HandOver("masterChefRewardHook2", "owner", "dao") >>

Phase8 ==
    << Deploy("poolManagerV4", [pools |-> "poolManagerSecondaryProxy6", operator |-> "dao"]),
       Deploy("boosterOwnerSecondary", [owner |-> "dao", boosterOwner |-> "boosterOwner6",
                                        booster |-> "booster6"]) >>

\* deploy:mainnet:boosterSecondary, with a stash that the dao may take up later.
Upgrade01 == << Deploy("extraRewardStashV3", <<>>) >> \o Phase8

\* The dao puts the managers of phase 8 in charge.
Post8 ==
    << CallBy("dao", "boosterOwner6", "owner", [pendingOwner |-> "boosterOwnerSecondary"]),
       Leaving(Needing(CallBy("dao", "boosterOwnerSecondary", "owner", <<>>),
                       {<<"boosterOwner6", "pendingOwner", "boosterOwnerSecondary">>}),
               {<<"boosterOwner6", "owner", "boosterOwnerSecondary">>,
                <<"boosterOwner6", "pendingOwner", "nobody">>}),
       CallBy("dao", "poolManagerSecondaryProxy6", "owner", [operator |-> "poolManagerV4"]),
       CallBy("dao", "poolManagerSecondaryProxy6", "owner", [owner |-> "poolManagerV4"]) >>

Phase9 ==
    << Deploy2("poolFeeManagerProxy", [operator |-> "deployer", poolManager |-> "poolManagerV4",
                                       booster |-> "booster6"]),
       Call("poolFeeManagerProxy", "operator", <<>>),
       HandOver("poolFeeManagerProxy", "operator", "dao") >>

\* 9.1 and 9.2: the fee manager is set through the owners of the booster.
Post9 ==
    << CallBy("dao", "poolManagerV4", "operator", [operator |-> "poolFeeManagerProxy"]),
       Leaving(Needing(CallBy("dao", "boosterOwnerSecondary", "owner", <<>>),
                       {<<"boosterOwner6", "owner", "boosterOwnerSecondary">>,
                        <<"booster6", "owner", "boosterOwner6">>}),
               {<<"booster6", "feeManager", "poolFeeManagerProxy">>}) >>
-----------------------------------------------------------------------------
(* The auraBAL vault.  Its owner is whoever deploys it.                    *)
Vault ==
    << Deploy("virtualRewardFactory", <<>>),
       Deploy("vault", [owner |-> "deployer", underlying |-> "cvxCrv",
                        virtualRewardFactory |-> "virtualRewardFactory"]),
       Deploy("strategy", [vault |-> "vault", auraBalStaking |-> "cvxCrvRewards6", auraToken |-> "cvx"]),
       Deploy("feeTokenHandler", [owner |-> "deployer", strategy |-> "strategy"]),
       Needing(Call("vault", "owner", [strategy |-> "strategy"]), {<<"vault", "strategy", "nobody">>}),
       Needing(OpenCall("strategy", [rewardToken |-> "feeTokenHandler"]),
               {<<"vault", "owner", "deployer">>, <<"strategy", "vault", "vault">>}),
       Needing(Call("vault", "owner", [extraReward |-> "cvx"]), {<<"vault", "strategy", "strategy">>}),
       OpenCall("strategy", <<>>),
       OpenCall("feeTokenHandler", <<>>) >>

FeeForwarder == << Deploy("feeForwarder", [owner |-> "dao"]) >>

FeeTokenHandlerV4 ==
    << Deploy("feeTokenHandlerV4", [owner |-> "deployer", strategy |-> "strategy"]),
       OpenCall("feeTokenHandlerV4", <<>>) >>

FeeTokenHandlerV5 ==
    << Deploy("feeTokenHandlerV5", [owner |-> "deployer", strategy |-> "strategy"]),
       OpenCall("feeTokenHandlerV5", <<>>) >>

ClaimZapVN(wrapper) ==
    << Deploy("claimZapV3", [owner |-> "deployer", cvx |-> "cvx", cvxCrv |-> "cvxCrv",
                             crvDepositWrapper |-> wrapper,
                             cvxCrvRewards |-> "cvxCrvRewards6", locker |-> "cvxLocker", vault |-> "vault"]),
       Call("claimZapV3", "owner", <<>>) >>

ClaimZapV3 == ClaimZapVN("crvDepositorWrapper")
ClaimZapV3Swapper == ClaimZapVN("crvDepositorWrapperSwapper")

AuraBalStaker == << Deploy("auraBalStaker", [vault |-> "vault", auraBal |-> "cvxCrv"]) >>
FeeScheduler == << Deploy("feeScheduler", [dao |-> "dao", strategy |-> "strategy"]) >>
VeBalGrant == << Deploy("veBalGrant", [project |-> "project", balancer |-> "balancer"]) >>
KeeperMulticall(owner) == << Deploy("keeperMulticall3", [owner |-> owner]) >>
PayableMulticall == << Deploy2("payableMulticall", <<>>) >>

\* Helpers that a task of their own deploys again, for the first booster.
FeeCollectorTask == << Deploy("feeCollector", [booster |-> "booster", voterProxy |-> "voterProxy"]) >>
BoosterHelperTask == << Deploy("boosterHelper", [booster |-> "booster"]) >>
GaugeMigratorTask == << Deploy("gaugeMigrator", [booster |-> "booster"]) >>
UniswapMigratorTask == << Deploy("uniswapMigrator", <<>>) >>
AuraMiningTask == << Deploy("auraMining", <<>>) >>

\* A later airdrop: its tokens are not sent by the task.
MerkleDrop ==
    << Deploy("merkleDrop", [dao |-> "treasury", aura |-> "cvx", auraLocker |-> "cvxLocker"]) >>

\* The owner is the deployer until the task has set the keepers.  The task does not wait
\* for the last three transactions: they go through in the order of their nonces.
WardenQuestScheduler ==
    << Deploy("wardenQuestScheduler", [owner |-> "deployer", booster |-> "booster6", cvx |-> "cvx"]),
       Call("wardenQuestScheduler", "owner", [keeper |-> "defender"]),
       Call("wardenQuestScheduler", "owner", [keeper |-> "incentives"]),
       HandOver("wardenQuestScheduler", "owner", "incentives") >>

CrvDepositorWrapperForwarder ==
    << Deploy("crvDepositorWrapperForwarder", [crvDeposit |-> "crvDepositor", cvxCrv |-> "cvxCrv",
                                               stashRewardDistro |-> "stashRewardDistro"]) >>

CrvDepositorWrapperForwarderV2 ==
    << Deploy("crvDepositorWrapperForwarderV2", [cvxCrv |-> "cvxCrv", pool |-> "cvxCrvBpt",
                                                 stashRewardDistro |-> "stashRewardDistro"]) >>

CrvDepositorWrapperSwapper ==
    << Deploy("crvDepositorWrapperSwapper", [cvxCrv |-> "cvxCrv", pool |-> "cvxCrvBpt"]),
       OpenCall("crvDepositorWrapperSwapper", <<>>) >>
-----------------------------------------------------------------------------
(* The Safe modules: the deployer sets the keepers, then the owner is the  *)
(* multisig that the module acts for.                                      *)

\* One call of the owner for each entry of lists.
Module(c, safe, uses, lists) ==
    << Leaving(Deploy(c, [owner |-> "deployer", safeWallet |-> safe]), Facts(c, uses)) >>
    \o [i \in DOMAIN lists |-> [Call(c, "owner", <<>>) EXCEPT !.put = {<<c, lists[i][1], lists[i][2]>>}]]
    \o << HandOver(c, "owner", safe) >>

GaugeVoterModule ==
    Module("gaugeVoterModule", "dao", [gaugeVoter |-> "gaugeVoteRewards"],
           << <<"keeper", "keeperMulticall3">>, <<"keeper", "defender">> >>)

ExtraRewardStashModule ==
    Module("extraRewardStashModule", "dao",
           [boosterOwner |-> "boosterOwnerSecondary", booster |-> "booster6"],
           << <<"keeper", "keeperMulticall3">>, <<"token", "cvx">>, <<"token", "gho">> >>)

HHRewardsClaimForwarderModule ==
    Module("hhRewardsClaimForwarderModule", "incentives",
           [cvx |-> "cvx", stashRewardDistro |-> "stashRewardDistro"],
           << <<"keeper", "keeperMulticall3">>, <<"pids", "set">> >>)

HHChefClaimBriberModule ==
    Module("hhChefClaimBriberModule", "incentives", [cvx |-> "cvx", chefForwarder |-> "chefForwarder"],
           << <<"keeper", "keeperMulticall3">>, <<"proposal", "set">>, <<"proposal", "set">>,
              <<"proposal", "set">>, <<"market", "set">>, <<"market", "set">>, <<"reward", "set">> >>)

AuraLockerModule ==
    Module("auraLockerModule", "treasury", [locker |-> "cvxLocker"],
           << <<"keeper", "keeperMulticall3">>, <<"keeper", "defender">> >>)
=============================================================================
