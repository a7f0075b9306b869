------------------------- MODULE MainnetDeployment -------------------------
(***************************************************************************)
(* The scripts that deploy Aura on mainnet (scripts/deploySystem.ts,       *)
(* deployVault.ts, deployPeripheral.ts, tasks/deploy) and, between them,   *)
(* what the multisigs have to do according to the PRE-n and POST-n         *)
(* comments and the fork tests.  AURA and WETH are counted in whole tokens,*)
(* token bpt (the 80/20 BAL/WETH pool token) in units of one.              *)
(***************************************************************************)
EXTENDS DeploymentSteps, SequencesExt

-----------------------------------------------------------------------------
(* The distribution of mainnet-config.ts, in AURA.                         *)

\* The recipients of the vesting escrows that last 24 months.
ContributorDistro == <<275000, 500000, 3500000, 450000, 75000, 500000, 300000, 325000,
                       60000, 175000, 125000, 500000, 1500000, 125000, 40000>>

DistroList ==
    [miningRewards |-> 50000000,
     lpIncentives |-> 10000000,
     cvxCrvBootstrap |-> 2000000,
     lbp |-> [tknAmount |-> 2200000, wethAmount |-> 100, matching |-> 2800000],
     airdrops |-> <<2500000, 1000000>>,
     immutableVesting |-> <<<<2000000>>, <<17500000>>>>,
     vesting |-> <<<<8000, 8000>>, <<67500, 15000, 1451500>>, ContributorDistro>>]

Sum(seq) == FoldLeft(LAMBDA a, b : a + b, 0, seq)

\* One escrow for each group of recipients, in the order of the source.
VestingDistro(d) == d.vesting \o d.immutableVesting

Premine(d) ==
    d.lpIncentives + Sum(d.airdrops) + d.cvxCrvBootstrap + d.lbp.tknAmount + d.lbp.matching
    + Sum([i \in DOMAIN VestingDistro(d) |-> Sum(VestingDistro(d)[i])])

ChecksumHolds(d) == Premine(d) = 50000000 /\ Premine(d) + d.miningRewards = 100000000
-----------------------------------------------------------------------------
(* Phase 1 and the vote that lets the VoterProxy lock.                     *)

Phase1 == << Deploy("voterProxy", [owner |-> "deployer"]) >>

Whitelist == << OpenCallBy("balancerDao", "walletChecker", [approved |-> "voterProxy"]) >>
-----------------------------------------------------------------------------
(* Phase 2.1, the core system.                                             *)

BoosterRoles == [owner |-> "deployer", feeManager |-> "deployer",
                 poolManager |-> "deployer", voteDelegate |-> "deployer"]

\* The booster, AURA and the factories.
Phase2Booster ==
    << Deploy("cvx", [operator |-> "deployer", staker |-> "voterProxy"]),
       Deploy("minter", [owner |-> "dao", aura |-> "cvx"]),
       Leaving(Deploy("booster", BoosterRoles),
               Facts("booster", [staker |-> "voterProxy", minter |-> "cvx"])),
       Deploy("rewardFactory", [operator |-> "booster"]),
       Deploy("tokenFactory", [operator |-> "booster"]),
       Deploy("proxyFactory", <<>>),
       Deploy("stashFactory", [operator |-> "booster", rewardFactory |-> "rewardFactory"]),
       Deploy("stashV3", <<>>) >>

\* auraBAL, the managers of the booster, the locker and its rewards.
Phase2Managers ==
    << Deploy("cvxCrv", [operator |-> "deployer"]),
       Deploy("crvDepositor", [staker |-> "voterProxy", minter |-> "cvxCrv",
                               feeManager |-> "deployer", daoOperator |-> "dao"]),
       Deploy("cvxCrvRewards", [stakingToken |-> "cvxCrv", operator |-> "booster",
                                rewardManager |-> "rewardFactory"]),
       Deploy("poolManagerProxy", [pools |-> "booster", owner |-> "deployer", operator |-> "deployer"]),
       Deploy("poolManagerSecondaryProxy", [pools |-> "poolManagerProxy", booster |-> "booster",
                                            owner |-> "deployer", operator |-> "deployer"]),
       Deploy("poolManager", [pools |-> "poolManagerSecondaryProxy", operator |-> "dao",
                              protectAddPool |-> "yes"]),
       Deploy("boosterOwner", [owner |-> "dao", poolManager |-> "poolManagerSecondaryProxy",
                               booster |-> "booster", stashFactory |-> "stashFactory"]),
       Deploy("arbitratorVault", [operator |-> "deployer", depositor |-> "booster"]),
       Deploy("cvxLocker", [owner |-> "deployer", stakingToken |-> "cvx", cvxCrv |-> "cvxCrv",
                            cvxcrvStaking |-> "cvxCrvRewards"]),
       Deploy("crvDepositorWrapper", [crvDeposit |-> "crvDepositor"]),
       Deploy("cvxStakingProxy", [owner |-> "deployer", rewards |-> "cvxLocker", cvx |-> "cvx",
                                  cvxCrv |-> "cvxCrv", crvDepositorWrapper |-> "crvDepositorWrapper"]),
       Deploy("extraRewardsDistributor", [owner |-> "deployer", auraLocker |-> "cvxLocker"]),
       Deploy("penaltyForwarder", [owner |-> "dao", distributor |-> "extraRewardsDistributor",
                                   token |-> "cvx"]) >>

Phase2Core == Phase2Booster \o Phase2Managers

Phase2Wiring ==
    << Call("cvxLocker", "owner", [cvxCrvDistributor |-> "cvxStakingProxy"]),
       OpenCall("cvxLocker", <<>>),
       OpenCall("crvDepositorWrapper", <<>>),
       HandOver("cvxLocker", "owner", "dao"),
       OpenCall("cvxStakingProxy", <<>>),
       Call("cvxStakingProxy", "owner", [keeper |-> "keeper"]),
       Call("cvxStakingProxy", "owner", [pendingOwner |-> "dao"]),
       Needing(Call("cvxStakingProxy", "owner", [owner |-> "dao", pendingOwner |-> "nobody"]),
               {<<"cvxStakingProxy", "pendingOwner", "dao">>}),
       Needing(Call("voterProxy", "owner", [operator |-> "booster"]),
               {<<"voterProxy", "operator", "nobody">>}),
       Paying(Needing(Call("cvx", "operator", [operator |-> "booster", minter |-> "minter"]),
                      {<<"cvx", "minter", "nobody">>, <<"voterProxy", "operator", "booster">>}),
              <<Amount("aura", "nobody", "deployer", 50000000)>>),
       Needing(OpenCall("stashFactory", [v3Implementation |-> "stashV3"]),
               {<<"booster", "owner", "deployer">>}),
       HandOver("cvxCrv", "operator", "crvDepositor"),
       Call("voterProxy", "owner", [depositor |-> "crvDepositor"]),
       HandOver("voterProxy", "owner", "dao"),
       CheckHolds("bpt", "deployer", 1),
       Paying(OpenCall("tokenBpt", <<>>), <<Amount("bpt", "deployer", "voterProxy", 1)>>),
       WithAtLeast(Needing(Call("crvDepositor", "feeManager", <<>>),
                           {<<"voterProxy", "depositor", "crvDepositor">>,
                            <<"walletChecker", "approved", "voterProxy">>}),
                   "bpt", "voterProxy", 1),
       HandOver("crvDepositor", "feeManager", "dao"),
       Call("booster", "owner", [lockRewards |-> "cvxCrvRewards", stakerRewards |-> "cvxStakingProxy"]),
       HandOver("booster", "poolManager", "poolManagerProxy"),
       Call("poolManagerProxy", "owner", [operator |-> "poolManagerSecondaryProxy"]),
       HandOver("poolManagerProxy", "owner", "nobody"),
       Call("poolManagerSecondaryProxy", "owner", [operator |-> "poolManager"]),
       HandOver("poolManagerSecondaryProxy", "owner", "dao"),
       Call("booster", "owner", [rewardFactory |-> "rewardFactory", stashFactory |-> "stashFactory",
                                 tokenFactory |-> "tokenFactory"]),
       HandOver("arbitratorVault", "operator", "dao"),
       Call("booster", "owner", [rewardArbitrator |-> "arbitratorVault"]),
       Call("booster", "owner", [voteDelegate |-> "dao"]),
       Call("booster", "feeManager", <<>>),
       HandOver("booster", "feeManager", "dao"),
       HandOver("booster", "owner", "boosterOwner"),
       Call("extraRewardsDistributor", "owner", [canAddReward |-> "penaltyForwarder"]),
       HandOver("extraRewardsDistributor", "owner", "dao") >>
-----------------------------------------------------------------------------
(* Phase 2.2, what becomes of the premine d.                               *)

EscrowNames == <<"vestedEscrow1", "vestedEscrow2", "vestedEscrow3", "vestedEscrow4", "vestedEscrow5">>
DropNames == <<"drop1", "drop2">>

\* vestedEscrows[i]: deploy, approve, fund.
FundEscrow(d, i) ==
    LET c == EscrowNames[i]
    IN << Deploy(c, [rewardToken |-> "cvx", auraLocker |-> "cvxLocker", funder |-> "deployer",
                     admin |-> IF i <= Len(d.vesting) THEN "vestingMultisig" ELSE "nobody"]),
          OpenCall("cvx", <<>>),
          Paying(Needing(Call(c, "funder", [initialised |-> "yes"]), {<<c, "initialised", "nobody">>}),
                 <<Amount("aura", "deployer", c, Sum(VestingDistro(d)[i]))>>) >>

Phase2Vesting(d) == FlattenSeq([i \in DOMAIN VestingDistro(d) |-> FundEscrow(d, i)])

Transfer(token, whom, n) == Paying(OpenCall(token, <<>>), <<Amount("aura", "deployer", whom, n)>>)

Phase2Staking(d) ==
    << Deploy("initialCvxCrvStaking", [stakingToken |-> "cvxCrv", rewardToken |-> "cvx",
                                       rewardManager |-> "treasury", auraLocker |-> "cvxLocker",
                                       penaltyForwarder |-> "penaltyForwarder"]),
       Transfer("cvx", "initialCvxCrvStaking", d.cvxCrvBootstrap) >>

\* Two fifths of the deployer's bpt become auraBAL, as many are paired with it (two thirds
\* of what is left).
Phase2StablePool ==
    << CheckHolds("bpt", "deployer", 1),
       OpenCall("tokenBpt", <<>>),
       Paying(Needing(OpenCall("crvDepositor", <<>>), {<<"cvxCrv", "operator", "crvDepositor">>}),
              <<Share("bpt", "deployer", "voterProxy", 2, 5)>>),
       Deploy("cvxCrvBpt", [owner |-> "treasury", token |-> "cvxCrv"]),
       OpenCall("cvxCrv", <<>>),
       OpenCall("tokenBpt", <<>>),
       Paying(Needing(OpenCall("cvxCrvBpt", [supply |-> "yes", shares |-> "treasury"]),
                      {<<"cvxCrvBpt", "supply", "nobody">>}),
              <<Share("bpt", "deployer", "cvxCrvBpt", 2, 3)>>) >>

Phase2Chef(d) ==
    << Deploy("chef", [owner |-> "deployer", cvx |-> "cvx"]),
       Transfer("cvx", "chef", d.lpIncentives),
       Call("chef", "owner", [pool |-> "cvxCrvBpt"]),
       HandOver("chef", "owner", "dao") >>

Phase2Airdrops(d) ==
    FlattenSeq([i \in DOMAIN d.airdrops |->
        << Deploy(DropNames[i], [dao |-> "treasury", aura |-> "cvx", auraLocker |-> "cvxLocker",
                                 penaltyForwarder |-> "penaltyForwarder"]),
           Transfer("cvx", DropNames[i], d.airdrops[i]) >>])

\* The pool belongs to the deployer (only its owner may join), its shares to the treasury.
Phase2Lbp(d) ==
    << Deploy("lbp", [owner |-> "deployer", token |-> "cvx"]),
       OpenCall("weth", <<>>),
       OpenCall("cvx", <<>>),
       Paying(Needing(Call("lbp", "owner", [supply |-> "yes", shares |-> "treasury"]),
                      {<<"lbp", "supply", "nobody">>}),
              <<Amount("weth", "deployer", "lbp", d.lbp.wethAmount),
                Amount("aura", "deployer", "lbp", d.lbp.tknAmount)>>),
       Deploy("balLiquidityProvider", [provider |-> "deployer", dao |-> "treasury", startToken |-> "cvx"]),
       Transfer("cvx", "balLiquidityProvider", d.lbp.matching) >>

\* The last test is that the deployer has no AURA left to distribute.
Phase2(d) ==
    << CheckThat(ChecksumHolds(d)) >>
    \o Phase2Core \o Phase2Wiring \o Phase2Vesting(d) \o Phase2Staking(d) \o Phase2StablePool
    \o Phase2Chef(d) \o Phase2Airdrops(d) \o Phase2Lbp(d) \o << CheckEmpty("aura", "deployer") >>
-----------------------------------------------------------------------------
(* The sale and what follows it.                                           *)

\* POST-2: the weights are lowered and swaps enabled, by the owner of the pool.
Post2 ==
    << Needing(Call("lbp", "owner", [weights |-> "falling"]), {<<"lbp", "supply", "yes">>}),
       Call("lbp", "owner", [swapEnabled |-> "yes"]) >>

\* The public buys AURA for sold WETH.
Sale(sold) ==
    << Paying(Needing(OpenCallBy("public", "lbp", <<>>), {<<"lbp", "swapEnabled", "yes">>}),
              <<Amount("weth", "public", "lbp", sold), Share("aura", "lbp", "public", 4, 5)>>) >>

\* PRE-3: the treasury withdraws from the LBP, and sends the WETH and the AURA it got.
Pre3 ==
    << Paying(Needing(OpenCallBy("treasury", "lbp", [shares |-> "nobody"]),
                      {<<"lbp", "shares", "treasury">>}),
              <<Whole("aura", "lbp", "treasury"), Whole("weth", "lbp", "treasury")>>),
       Paying(OpenCallBy("treasury", "weth", <<>>), <<Whole("weth", "treasury", "balLiquidityProvider")>>),
       Paying(OpenCallBy("treasury", "cvx", <<>>), <<Whole("aura", "treasury", "balLiquidityProvider")>>) >>

\* The script asks for 375 WETH or more, provideLiquidity for more than 375.
Phase3 ==
    << [CheckHolds("aura", "balLiquidityProvider", 1500000) EXCEPT
           !.least = @ \cup {<<"weth", "balLiquidityProvider", 375>>}],
       Deploy("pool8020", [owner |-> "balancerPoolOwner", token |-> "cvx"]),
       Paying(WithAtLeast(Needing(Call("balLiquidityProvider", "provider", <<>>),
                                  {<<"pool8020", "supply", "nobody">>}),
                          "weth", "balLiquidityProvider", 376),
              <<Whole("aura", "balLiquidityProvider", "pool8020"),
                Whole("weth", "balLiquidityProvider", "pool8020")>>) >>

\* PRE-4, of the dao.
Pre4 ==
    << CallBy("dao", "poolManager", "operator", [protectAddPool |-> "no"]),
       CallBy("dao", "booster", "feeManager", [feeInfo |-> "feeToken"]),
       CallBy("dao", "booster", "feeManager", [feeInfo |-> "token"]) >>

\* poolManager.addPool: who may, the chain of proxies down to the booster, and each
\* gauge once.  Two gauges that are over the weight stand for the list of the config.
AddPool(gauge) ==
    Needing(OpenCall("poolManager", <<>>),
            {<<"poolManager", "protectAddPool", "no">>,
             <<"poolManagerSecondaryProxy", "operator", "poolManager">>,
             <<"poolManagerProxy", "operator", "poolManagerSecondaryProxy">>,
             <<"booster", "poolManager", "poolManagerProxy">>,
             <<"booster", "tokenFactory", "tokenFactory">>,
             <<"stashFactory", "v3Implementation", "stashV3">>,
             <<"booster", gauge, "nobody">>})

Phase4 ==
    << Deploy("claimZap", [owner |-> "deployer", cvx |-> "cvx", cvxCrv |-> "cvxCrv",
                           crvDepositWrapper |-> "crvDepositorWrapper",
                           cvxCrvRewards |-> "cvxCrvRewards", locker |-> "cvxLocker"]),
       Call("claimZap", "owner", <<>>) >>
    \o [i \in 1..2 |-> LET gauge == <<"gauge1", "gauge2">>[i]
                        IN Leaving(AddPool(gauge), {<<"booster", gauge, "yes">>})]
    \o << Deploy("feeCollector", [booster |-> "booster", voterProxy |-> "voterProxy"]),
           Deploy("rewardDepositWrapper", <<>>) >>

TempBooster == << Deploy("tempBooster", <<>>) >>

Phase5 ==
    << Deploy("boosterHelper", [booster |-> "booster"]),
       Deploy("gaugeMigrator", [booster |-> "booster"]),
       Deploy("uniswapMigrator", <<>>),
       Deploy("crvDepositorWrapperWithFee", [owner |-> "dao", crvDeposit |-> "crvDepositor",
                                             booster |-> "booster", voterProxy |-> "voterProxy"]),
       OpenCall("crvDepositorWrapperWithFee", <<>>) >>
=============================================================================
