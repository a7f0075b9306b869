----------------------- MODULE AuraReleasesProperties -----------------------
(* What the release of AURA is checked for.                                *)
EXTENDS AuraReleases

(* The emissions never pass their cap and are never counted negative,      *)
(* whatever the minter adds between them and however large a mint crosses  *)
(* the last cliffs, and nothing is minted besides them, the first mint and *)
(* what the minter may add, after its three years (Aura.mint, minterMint,  *)
(* AuraMinter.mint).                                                       *)
EmissionsCapped ==
  totalSupply # 0 =>
    /\ EmissionsMinted \in 0 .. EMISSIONS_MAX_SUPPLY
    /\ minterMinted > 0 => now > inflationProtectionTime

(* A drop that was funded holds the leaf of everybody who has not claimed  *)
(* and the penalties of those who have, until the dao takes it back before *)
(* the start or after the expiry, and then it still holds the penalties:   *)
(* nobody's claim is paid out of another's, or twice (claim,               *)
(* withdrawExpired, rescueReward, forwardPenalty).                         *)
Unclaimed(d) ==
  SumFunctionOnSet([a \in Accounts |-> LargestLeaf(d, a)], Accounts \ hasClaimed[d])

DropsCovered ==
  \A d \in Drops :
    /\ pendingPenalty[d] <= aura[d]
    /\ d \in funded /\ now < expiryTime => pendingPenalty[d] + Unclaimed(d) <= aura[d]

(* An escrow holds exactly what its recipients have not been paid yet, and *)
(* none of them has been paid more than had vested, whatever is claimed    *)
(* and cancelled when: nothing is lost to rounding and no cancellation     *)
(* takes from another recipient (_claim, cancel, remaining).               *)
Unpaid(e, r) == IF totalLocked[e][r] = 0 THEN 0 ELSE totalLocked[e][r] - totalClaimed[e][r]

NotAheadOfVesting ==
  \A e \in Escrows, r \in Accounts :
    totalLocked[e][r] # 0 => totalClaimed[e][r] <= TotalVestedOf(e, r)

VestingsCovered ==
  /\ \A e \in Escrows : aura[e] = SumFunctionOnSet([r \in Accounts |-> Unpaid(e, r)], Accounts)
  /\ NotAheadOfVesting

(* The pool can pay what it owes its stakers, the penalties it has kept    *)
(* and the rest of the stream, whenever and by whom the stream was         *)
(* started, and its supply is the sum of the stakes (updateReward,         *)
(* getReward, initialiseRewards, rescueReward, forwardPenalty).            *)
RestOfStream(p) ==
  IF pool[p].periodFinish > now THEN (pool[p].periodFinish - now) * pool[p].rewardRate ELSE 0

PoolsSolvent ==
  \A p \in Pools :
    /\ SumFunctionOnSet([a \in Accounts |-> Earned(p, a)], Accounts)
         + pendingPenalty[p] + RestOfStream(p) <= aura[p]
    /\ pool[p].totalSupply = SumFunctionOnSet([a \in Accounts |-> staker[p][a].balance], Accounts)
=============================================================================
