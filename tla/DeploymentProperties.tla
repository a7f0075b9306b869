------------------------ MODULE DeploymentProperties ------------------------
(***************************************************************************)
(* What a deployment should achieve.                                       *)
(***************************************************************************)
EXTENDS Deployment

Done(s) == s \in DOMAIN run /\ run[s].state = "done"
AllDone == \A s \in DOMAIN run : run[s].state = "done"
-----------------------------------------------------------------------------
\* Configurations that a script refuses only half way: the deployer's last pool token is
\* needed twice (phase 2), the WETH for the sale is never counted (phase 2), 375 WETH pass
\* the script's test and not the contract's (phase 3), a keeper is missing in the config.
LateRefusal(s) ==
    \/ s = "phase2" /\ (plan.bpt < 2 \/ plan.weth < 100)
    \/ s = "phase3" /\ plan.sold + 100 = 375
    \/ s = "L1phase2" /\ ~plan.harvestor
    \/ \E x \in Range(Chains) : s = At("config1", x) /\ ~plan.distributor

(* A script that is run for the first time ends well, or ends before it has sent anything *)
(* (an impossible distribution, a sale that brought too little): every role it needs is   *)
(* still the sender's, every address it uses exists, each once-only setting is unset, in  *)
(* all of the some five hundred transactions and for each order the multisigs may act in. *)
FirstRunsComplete ==
    \A s \in DOMAIN run :
        run[s].state = "failed" /\ run[s].died = 0 => run[s].at = 1 \/ LateRefusal(s)
-----------------------------------------------------------------------------
\* The setting of an older contract after which a script can not start over: taken for good
\* (the operator of the VoterProxy), or handed to somebody else.
NoReturn(s) ==
    CASE s = "phase2" -> <<"voterProxy", "operator">>
      [] \E x \in Range(Chains) : s = At("config1", x) /\ Who(x) = "deployer" -> <<"l1Coordinator", "owner">>
      [] s = "phase4" -> <<"booster", "gauge1">>
      [] s = "post7" -> <<"masterChefRewardHook", "owner">>
      [] OTHER -> <<"", "">>

PastNoReturn(s) ==
    \E i \in 1..(run[s].died - 1), fact \in UNION {tx.put : tx \in Range(Steps(s))} :
        fact \in Steps(s)[i].put /\ <<fact[1], fact[2]>> = NoReturn(s)

\* A script that put a contract at a salted address needs a new salt; one with a fixed
\* salt has none.
SaltSpent(s) ==
    \E i \in 1..(run[s].died - 1) :
        \/ Steps(s)[i].salt = "chosen" /\ run[s].salt = 0
        \/ Steps(s)[i].salt = "fixed"

(* A script whose process died can be run again from the start: with another salt if it   *)
(* had used one, and unless it had passed its point of no return.  Then a second run fails *)
(* (having sent some of its transactions again); otherwise it goes through.               *)
RerunsFailOnlyPastNoReturn ==
    \A s \in DOMAIN run :
        run[s].died > 0 =>
            /\ run[s].state = "failed" => PastNoReturn(s) \/ SaltSpent(s)
            /\ run[s].state = "done" => ~(PastNoReturn(s) \/ SaltSpent(s))
-----------------------------------------------------------------------------
\* What the deployer commands in the end.  Of the launch: pools of the sale and their
\* liquidity, which only it can manage; zaps, whose owner may renew approvals; the vault,
\* until the proxy gets it; the receiver and the sender of some bridges; what the sidechain
\* scripts leave out.
Leftovers(part) ==
    CASE part = "launch" ->
           {<<"lbp", "owner">>, <<"balLiquidityProvider", "provider">>, <<"claimZap", "owner">>,
            <<"claimZap6", "owner">>, <<"vault", "owner">>, <<"feeTokenHandler", "owner">>}
           \cup {<<EscrowNames[i], "funder">> : i \in DOMAIN EscrowNames}
      [] part = "later" ->
           {<<"feeTokenHandlerV4", "owner">>, <<"feeTokenHandlerV5", "owner">>, <<"claimZapV3", "owner">>,
            <<"gaugeVoteRewards", "owner">>}
      [] part = "sidechains" ->
           UNION {{<<At(c, x), "owner">> : c \in {"l1Receiver", "create2Factory", "auraBalVault",
                                                   "peripheralMulticall3", "sidechainClaimZap"}}
                  \cup {<<At("create2Factory", x), "deployer">>, <<At("l2PoolManagerProxy", x), "keeper">>}
                  \cup (IF plan.bridges[x] \in {"arbitrum", "optimism"} THEN {} ELSE {<<At("l2Sender", x), "owner">>})
                  \cup (IF plan.bridges[x] = "zkevm" THEN {<<At("l2Sender", x), "l1Receiver">>} ELSE {})
                  \cup (IF plan.bridges[x] = "oft" THEN {<<At("l2Sender", x), "keeper">>} ELSE {})
                  : x \in Range(Chains)}

DeployersOwn == {k \in DOMAIN world.field : world.field[k] = <<"deployer", 0>>}
DeployersBefore == {k \in DOMAIN Started(plan).field : Started(plan).field[k] = <<"deployer", 0>>}

(* When the scripts are through, also after one died and was run again, the deployer is    *)
(* the owner, operator, manager or keeper of exactly what is listed above: everything else *)
(* was handed to the multisigs or to the contract that is to command it.  This is about    *)
(* the contracts in use: those of attempts that were given up, which nothing points to,    *)
(* stay the deployer's and are not counted (Make).                                         *)
DeployerKeepsLeftovers ==
    AllDone => DeployersOwn = Leftovers(plan.about)
                              \cup {k \in DeployersBefore : plan.about = "sidechains" => k[1] # "vault"}
-----------------------------------------------------------------------------
RemotePairs == {<<"l1Coordinator", "l2Coordinator">>, <<"auraProxyOFT", "auraOFT">>,
                <<"auraBalProxyOFT", "auraBalOFT">>, <<"gaugeVoteRewards", "childGaugeVoteRewards">>,
                <<"l1PoolManagerProxy", "l2PoolManagerProxy">>}

(* In the end each contract that sends to a sidechain trusts the contract of that chain    *)
(* that trusts it, whatever attempts its scripts needed: nobody listens to an address of   *)
(* an abandoned attempt, or to the counterpart of another contract.                        *)
RemotesAreMutual ==
    plan.about = "sidechains" /\ AllDone =>
        \A pair \in RemotePairs, x \in Range(Chains) :
            /\ Field(world, pair[1], For("trustedRemote", x)) = Addr(world, At(pair[2], x))
            /\ Field(world, At(pair[2], x), "trustedRemote") = Addr(world, pair[1])
=============================================================================
