---------------------------- MODULE MCDeployment ----------------------------
(* The plans that TLC looks at: the configured one, with a crash, and those with one       *)
(* number at its limit or one name missing.                                                *)
EXTENDS DeploymentProperties

MCChains == <<"A", "B">>

Usual == [about |-> "launch", distro |-> DistroList, bpt |-> 6, weth |-> 100, sold |-> 400,
          harvestor |-> TRUE, distributor |-> TRUE, ownTasks |-> FALSE,
          bridges |-> [x \in {"A", "B"} |-> IF x = "A" THEN "optimism" ELSE "oft"], crashes |-> 1]

Calm == [Usual EXCEPT !.crashes = 0]

MCPlans ==
    {Usual, [Usual EXCEPT !.about = "later"], [Usual EXCEPT !.about = "sidechains"],
     [Usual EXCEPT !.about = "sidechains", !.ownTasks = TRUE,
                   !.bridges = [x \in {"A", "B"} |-> IF x = "A" THEN "zkevm" ELSE "gnosis"]],
     [Calm EXCEPT !.distro.airdrops = <<2500000, 1000001>>],
     [Calm EXCEPT !.bpt = 0], [Calm EXCEPT !.bpt = 1], [Calm EXCEPT !.weth = 99],
     [Calm EXCEPT !.sold = 274], [Calm EXCEPT !.sold = 275], [Calm EXCEPT !.sold = 276],
     [Calm EXCEPT !.about = "sidechains", !.harvestor = FALSE],
     [Calm EXCEPT !.about = "sidechains", !.distributor = FALSE]}
=============================================================================
