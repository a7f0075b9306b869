----------------------------- MODULE Deployment -----------------------------
(***************************************************************************)
(* Running the deployment scripts.  The deployer runs them one after the   *)
(* other; in between, and meanwhile, the multisigs do their part.  A script*)
(* is a list of transactions without any record of how far it got: if one  *)
(* reverts or the script throws, and if the process dies, what was sent    *)
(* stays, and running the script again starts from its first line with     *)
(* contracts of a new address.                                             *)
(***************************************************************************)
EXTENDS SidechainDeployment, FiniteSets

CONSTANTS Plans,   \* what may differ from one deployment to the next: records
          Chains   \* the sidechains, in the order they are deployed

(***************************************************************************)
(* A plan p has the part of the deployment it is about; p.distro, the      *)
(* distribution of the premine; p.bpt and p.weth, what the deployer holds; *)
(* p.sold, the WETH the sale brings; p.harvestor and p.distributor, whether*)
(* the config names them; p.ownTasks, whether the gauge vote rewards are   *)
(* deployed by tasks of their own; p.bridges, the bridge of each chain; and*)
(* p.crashes, a bound: how often the process dies.                         *)
(***************************************************************************)

ASSUME ChainsAssumption == Chains \in Seq(STRING) /\ Len(Chains) > 0
-----------------------------------------------------------------------------
(* The scripts of a deployment.  after: the scripts that have to be done.  *)

Script(name, steps, after) == name :> [steps |-> steps, after |-> after]
Table(scripts) == FoldLeft(LAMBDA s, t : s @@ t, <<>>, scripts)

\* The deployer's scripts, each after the one before it.
InOrder(list) ==
    Table([i \in DOMAIN list |->
        Script(list[i][1], list[i][2],
               list[i][3] \cup IF i = 1 THEN {} ELSE {list[i - 1][1]})])

LaunchScripts(p) ==
    InOrder(<< <<"phase1", Phase1, {}>>,
               <<"phase2", Phase2(p.distro), {"whitelist"}>>,
               <<"post2", Post2, {}>>,
               <<"phase3", Phase3, {"pre3"}>>,
               <<"phase4", Phase4, {"pre4"}>>,
               <<"tempBooster", TempBooster, {}>>,
               <<"phase5", Phase5, {}>>,
               <<"phase6", Phase6, {}>>,
               <<"phase7", Phase7, {"migration"}>>,
               <<"post7", Post7, {}>>,
               <<"siphon", Siphon, {}>>,
               <<"phase8", Upgrade01, {}>>,
               <<"vault", Vault, {}>>,
               <<"keeperMulticall3", KeeperMulticall("dao"), {}>> >>)
    @@ Table(<< Script("whitelist", Whitelist, {"phase1"}),
                Script("sale", Sale(p.sold), {"post2"}),
                Script("pre3", Pre3, {"sale"}),
                Script("pre4", Pre4, {"phase2"}),
                Script("migration", Migration, {"phase6"}),
                Script("post8", Post8, {"phase8"}) >>)

\* The tasks of mainnet-post-phases.ts, for the vault and its fees ...
VaultTasks ==
    << <<"phase9", Phase9, {}>>,
       <<"feeForwarder", FeeForwarder, {}>>,
       <<"feeTokenHandlerV4", FeeTokenHandlerV4, {"post9"}>>,
       <<"claimZapV3", ClaimZapV3, {}>>,
       <<"auraBalStaker", AuraBalStaker, {}>>,
       <<"feeScheduler", FeeScheduler, {}>>,
       <<"veBalGrant", VeBalGrant, {}>>,
       <<"feeTokenHandlerV5", FeeTokenHandlerV5, {}>>,
       <<"wardenQuestScheduler", WardenQuestScheduler, {}>> >>

\* ... for single contracts ...
HelperTasks ==
    << <<"feeCollectorTask", FeeCollectorTask, {}>>,
       <<"boosterHelperTask", BoosterHelperTask, {}>>,
       <<"gaugeMigratorTask", GaugeMigratorTask, {}>>,
       <<"uniswapMigratorTask", UniswapMigratorTask, {}>>,
       <<"auraMining", AuraMiningTask, {}>>,
       <<"merkleDrop", MerkleDrop, {}>>,
       <<"payableMulticall", PayableMulticall, {}>>,
       <<"gauges", TaskGaugeVoteRewards, {}>>,
       <<"wrapperForwarder", CrvDepositorWrapperForwarder, {}>>,
       <<"wrapperForwarderV2", CrvDepositorWrapperForwarderV2, {}>> >>

\* ... and for the Safe modules.
ModuleTasks ==
    << <<"extraRewardStashModule", ExtraRewardStashModule, {}>>,
       <<"hhRewardsClaimForwarderModule", HHRewardsClaimForwarderModule, {}>>,
       <<"hhChefClaimBriberModule", HHChefClaimBriberModule, {}>>,
       <<"auraLockerModule", AuraLockerModule, {}>>,
       <<"gaugeVoterModule", GaugeVoterModule, {}>>,
       <<"wrapperSwapper", CrvDepositorWrapperSwapper, {}>>,
       <<"claimZapV3Swapper", ClaimZapV3Swapper, {}>> >>

LaterScripts ==
    InOrder(VaultTasks \o HelperTasks \o ModuleTasks)
    @@ Table(<< Script("post9", Post9, {"phase9"}) >>)

\* The gauge vote rewards come from phase 3 of the scripts or from tasks of their own.
CanonicalScripts(p) ==
    << <<"L1phase1", CanonicalPhase1, {}>>,
       <<"L1phase2", CanonicalPhase2(p), {}>>,
       <<"L1phase3", IF p.ownTasks THEN TaskGaugeVoteRewards ELSE TaskL1Phase3, {}>>,
       <<"L1phase4", TaskL1Phase4, {}>>,
       <<"auraDistributor", CanonicalAuraDistributor, {"daoMainnet", "daoVault"}>>,
       <<"canonicalView", CanonicalView, {}>> >>

\* The first chain is configured by the deployer, the others by the dao.
Who(x) == IF x = Chains[1] THEN "deployer" ELSE "dao"

\* The tasks of sidechain.ts for chain x: bridge delegates, the phases on the sidechain, ...
BridgeTasks(p, x) ==
    << <<At("receiver", x), SimpleBridgeReceiver(x), {}>>,
       <<At("sender", x), TaskBridgeSender(x, p.bridges[x]), {}>> >>

CoreTasks(x) ==
    << <<At("factory", x), Create2Factory(x), {}>>,
       <<At("L2phase1", x), SidechainPhase1(x), {}>>,
       <<At("L2phase2", x), SidechainPhase2(x), {}>> >>

GaugeTasks(p, x) ==
    << <<At("L2phase3", x), IF p.ownTasks THEN TaskChildGaugeVoteRewards(x) ELSE SidechainPhase3(x), {}>>,
       <<At("L2phase4", x), SidechainPhase4(x), {}>> >>

\* ... what mainnet has to know of it, and its peripherals.
ConfigTasks(p, x) ==
    << <<At("config1", x), SetTrustedRemotePhase1(x, Who(x), p), {}>>,
       <<At("config2", x), SetTrustedRemotePhase2(x, Who(x)), {}>> >>
    \o IF p.ownTasks THEN <<>> ELSE << <<At("config3", x), SetTrustedRemotePhase3(x, Who(x)), {}>> >>

PeripheralTasks(p, x) ==
    << <<At("peripherals", x), SidechainPeripherals(x),
         IF p.ownTasks THEN {} ELSE {At("daoChild", x)}>>,
       <<At("payableMulticall", x), SidechainPayableMulticall(x), {}>>,
       <<At("boosterHelper", x), SidechainBoosterHelper(x), {}>> >>

LockerTasks(x) ==
    << <<At("auraLocker", x), SidechainAuraLocker(x), {}>>,
       <<At("stashModule", x), ExtraRewardStashLiteModule(x), {}>>,
       <<At("postKeepers", x), PostKeepers(x), {}>> >>

ChainScripts(p, x) ==
    BridgeTasks(p, x) \o CoreTasks(x) \o GaugeTasks(p, x) \o ConfigTasks(p, x)
    \o PeripheralTasks(p, x) \o LockerTasks(x)

SidechainScripts(p) ==
    InOrder(CanonicalScripts(p)
            \o FlattenSeq([i \in DOMAIN Chains |-> ChainScripts(p, Chains[i])])
            \o << <<"config4", TaskConfigPhase4(Chains), {}>> >>
            \o IF p.ownTasks THEN << <<"configGauges", TaskConfigGaugeVoteRewards(Chains), {}>> >> ELSE <<>>)
    @@ Table(<< Script("daoMainnet", DaoMainnet, {"L1phase3"}),
                Script("daoVault", DaoVault, {"L1phase2"}) >>)
    @@ IF p.ownTasks THEN <<>>
       ELSE Table([i \in DOMAIN Chains |->
                Script(At("daoChild", Chains[i]), DaoChild(Chains[i]), {At("L2phase3", Chains[i])})])

\* A plan is about the launch, about what came later, or about the sidechains.
Scripts(p) ==
    CASE p.about = "launch" -> LaunchScripts(p)
      [] p.about = "later" -> LaterScripts
      [] p.about = "sidechains" -> SidechainScripts(p)

\* (@@ <<>> makes TLC compute a table once and for all.)
ScriptsOf == [p \in Plans |-> Scripts(p)] @@ <<>>

MadeBy(steps) == {steps[i].make : i \in DOMAIN steps}
Contracts == {c \in UNION {UNION {MadeBy(t[s].steps) : s \in DOMAIN t} :
                              t \in UNION {{ScriptsOf[p], LaunchScripts(p), InOrder(CanonicalScripts(p))} :
                                             p \in Plans}} : c # ""}
-----------------------------------------------------------------------------
(* The chain.  A contract is known by its name and by how many of the name *)
(* were made before; a script writes to the last one.                      *)

Blank == [live |-> [c \in Contracts |-> 0], field |-> <<>>, bal |-> <<>>, taken |-> {}]

Exists(w, v) == v \in Contracts => w.live[v] > 0
Addr(w, v) == <<v, IF v \in Contracts THEN w.live[v] ELSE 0>>
Field(w, c, f) == IF <<c, f>> \in DOMAIN w.field THEN w.field[<<c, f>>] ELSE <<"nobody", 0>>
Balance(w, t, h) == IF <<t, h>> \in DOMAIN w.bal THEN w.bal[<<t, h>>] ELSE 0

Holds(w, fact) == Exists(w, fact[1]) /\ Field(w, fact[1], fact[2]) = Addr(w, fact[3])

\* The salted address: one for each salt that was chosen.
Place(tx, salt) == <<tx.make, IF tx.salt = "fixed" THEN 0 ELSE salt>>

\* A contract of the same name, of an attempt that was given up, is forgotten with its
\* fields: what the deployer still owns of it is not counted any more.
Make(w, tx, salt) ==
    IF tx.make = "" THEN w
    ELSE [w EXCEPT !.live = [@ EXCEPT ![tx.make] = @ + 1],
                   !.field = Restrict(@, {k \in DOMAIN @ : k[1] # tx.make}),
                   !.taken = IF tx.salt = "" THEN @ ELSE @ \cup {Place(tx, salt)}]

Put(w, facts) ==
    LET holder(k) == CHOOSE x \in facts : k = <<x[1], x[2]>>
    IN [w EXCEPT !.field = [k \in {<<x[1], x[2]>> : x \in facts} |-> Addr(w, holder(k)[3])] @@ @]

Size(w, p) == p.n + (p.num * Balance(w, p.token, p.from)) \div p.den
CanPay(w, p) == p.from = "nobody" \/ Size(w, p) <= Balance(w, p.token, p.from)

Move(w, p) ==
    LET n == Size(w, p)
        debit == IF p.from = "nobody" THEN <<>>
                 ELSE <<p.token, p.from>> :> Balance(w, p.token, p.from) - n
    IN [w EXCEPT !.bal = (<<p.token, p.to>> :> Balance(w, p.token, p.to) + n) @@ debit @@ @]

\* No require of the transaction stops it, and every address it uses is known.
GoesThrough(w, tx, salt) ==
    /\ tx.salt # "" => Place(tx, salt) \notin w.taken
    /\ Exists(w, tx.on)
    /\ \A fact \in tx.need : Holds(w, fact)
    /\ \A l \in tx.least : Balance(w, l[1], l[2]) >= l[3]
    /\ \A e \in tx.empty : Balance(w, e[1], e[2]) = 0
    /\ tx.that
    /\ \A fact \in tx.put : \A v \in {fact[1], fact[3]} : v = tx.make \/ Exists(w, v)
    /\ \A i \in DOMAIN tx.pay : CanPay(w, tx.pay[i])

After(w, tx, salt) == FoldLeft(Move, Put(Make(w, tx, salt), tx.put), tx.pay)
-----------------------------------------------------------------------------
VARIABLES plan, world, run, crashes

vars == <<plan, world, run, crashes>>

\* The mainnet that later scripts start from: the launch, as planned, in one go.
LaunchOrder == <<"phase1", "whitelist", "phase2", "post2", "sale", "pre3", "phase3", "pre4", "phase4",
                 "tempBooster", "phase5", "phase6", "migration", "phase7", "post7", "siphon",
                 "phase8", "post8", "vault", "keeperMulticall3">>

Stock(p) == [Blank EXCEPT !.bal = <<"bpt", "deployer">> :> p.bpt @@ <<"weth", "deployer">> :> p.weth
                                   @@ <<"weth", "public">> :> p.sold]

Sent(w, steps) == FoldLeft(LAMBDA v, tx : After(v, tx, 0), w, steps)
Launched == [p \in Plans |->
    LET t == LaunchScripts(p)
    IN Sent(Stock(p), FlattenSeq([i \in DOMAIN LaunchOrder |-> t[LaunchOrder[i]].steps]))] @@ <<>>

\* The later scripts also need the contracts of phase 1 on mainnet.
WithCanonical == [p \in Plans |->
    Sent(Launched[p], FlattenSeq([i \in 1..2 |-> CanonicalScripts(p)[i][2]]))] @@ <<>>

Started(p) ==
    CASE p.about = "launch" -> Stock(p)
      [] p.about = "later" -> WithCanonical[p]
      [] p.about = "sidechains" -> Launched[p]

NotRun == [state |-> "waiting", at |-> 1, died |-> 0, salt |-> 0]

Init ==
    /\ plan \in Plans
    /\ world = Started(plan)
    /\ run = [s \in DOMAIN ScriptsOf[plan] |-> NotRun]
    /\ crashes = 0
-----------------------------------------------------------------------------
Steps(s) == ScriptsOf[plan][s].steps
Next1(s) == Steps(s)[run[s].at]
Signer(s) == Steps(s)[Len(Steps(s))].by

May(s) ==
    /\ run[s].state \in {"waiting", "running"}
    /\ \A t \in ScriptsOf[plan][s].after : run[t].state = "done"

\* The next transaction, or the next test of the script, goes through.
Transact(s) ==
    /\ May(s)
    /\ GoesThrough(world, Next1(s), run[s].salt)
    /\ world' = After(world, Next1(s), run[s].salt)
    /\ run' = [run EXCEPT ![s] = [@ EXCEPT !.at = @ + 1,
                                  !.state = IF run[s].at = Len(Steps(s)) THEN "done" ELSE "running"]]
    /\ UNCHANGED <<plan, crashes>>

\* It does not: the script ends there with an error.
Fail(s) ==
    /\ May(s)
    /\ ~GoesThrough(world, Next1(s), run[s].salt)
    /\ run' = [run EXCEPT ![s] = [@ EXCEPT !.state = "failed"]]
    /\ UNCHANGED <<plan, world, crashes>>

\* The deployer's process dies between two transactions (node lost, gas price, ...); what
\* the multisigs have to sign waits for them.
Crash(s) ==
    /\ crashes < plan.crashes
    /\ Signer(s) = "deployer"
    /\ run[s].state = "running"
    /\ crashes' = crashes + 1
    /\ run' = [run EXCEPT ![s] = [@ EXCEPT !.state = "dead", !.died = run[s].at]]
    /\ UNCHANGED <<plan, world>>

\* The script is run again, with the same salt or with a new one.
Rerun(s) ==
    /\ run[s].state = "dead"
    /\ \E salt \in {run[s].salt, run[s].salt + 1} :
           run' = [run EXCEPT ![s] = [@ EXCEPT !.state = "running", !.at = 1, !.salt = salt]]
    /\ UNCHANGED <<plan, world, crashes>>

Next == \E s \in DOMAIN run : Transact(s) \/ Fail(s) \/ Crash(s) \/ Rerun(s)

Spec == Init /\ [][Next]_vars
=============================================================================
