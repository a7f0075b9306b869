--------------------------- MODULE MCAuraReleases ---------------------------
(* Instance of AuraReleases for TLC.                                       *)
EXTENDS AuraReleasesProperties, TLC

CONSTANTS alice, bob, booster, newBooster, dao, council, locker, airdrop, airdropV2, escrow, auraBalPool

MCAccounts  == {alice, bob}
MCContracts == {dao, council, locker, penaltyForwarder, airdrop, airdropV2, escrow, auraBalPool}
MCReleasers == {airdrop, airdropV2, escrow, auraBalPool}

(* What one account may claim the other may as well; with two leaves of V2 *)
(* it claims one of them.                                                  *)
MCLeaves ==
  (airdrop :> MCAccounts \X {4}) @@ (airdropV2 :> MCAccounts \X {1, 3})
MCDropFunds == (airdrop :> 8) @@ (airdropV2 :> 6)

MCVestings == escrow :> [a \in Accounts |-> 4]

MCStaking == [a \in Accounts |-> 1]

(* Each contract alone.                                                    *)
MCSituations == {{deployer}, {airdrop}, {airdropV2}, {escrow}, {auraBalPool}}

ReleaseSymmetry ==
  {f @@ g @@ h : f \in Permutations(Boosters), g \in Permutations(Admins),
                 h \in Permutations(Accounts)}
=============================================================================
