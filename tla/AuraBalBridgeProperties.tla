----------------------- MODULE AuraBalBridgeProperties -----------------------
(* What the auraBAL bridge is checked for.                                 *)
EXTENDS AuraBalBridge

(* internalTotalSupply is the auraBAL of the sidechains and of messages on *)
(* the way back, but for what sudo has rescued and what somebody sent to   *)
(* the proxy itself, whose balance does not grow for good                  *)
(* (AuraBalProxyOFT._debitFrom, _creditTo, processClaimable).              *)
SupplyIsAbroad ==
  internalTotalSupply + rescued["auraBAL"] = abroad + SumBag(home) + toItself

(* totalClaimable is the sum of what the chains can claim, and the proxy   *)
(* holds the AURA of it, but for what sudo has rescued, however the yield  *)
(* was divided (AuraBalProxyOFT.harvest, processClaimable).                *)
ClaimsAreKept ==
  /\ \A t \in Tokens : totalClaimable[t] = SumFunction(claimable[t])
  /\ totalClaimable["AURA"] <= held + rescued["AURA"]

Staked == IF totalSupply = 0 THEN 0 ELSE UnderlyingOf(balanceOf[Proxy])
Owed   == internalTotalSupply + totalClaimable["auraBAL"]
Short  == IF Owed > Staked THEN Owed - Staked ELSE 0

PriceOfShare == IF totalSupply = 0 THEN 1 ELSE RoundUpDiv(totalUnderlying, totalSupply)

Worth(shares) == IF totalSupply = 0 THEN 0 ELSE RoundUpDiv(shares * totalUnderlying, totalSupply)

(* What the bridge owes abroad is staked in the vault.  Each step leaves   *)
(* it short by no more than rounding to shares may cost, the price of one  *)
(* share, by what was sent to the proxy itself, and by the worth of the    *)
(* shares that sudo rescued or the owner's vaultExecute gave away, whoever *)
(* else deposits, withdraws or harvests and whatever the penalty           *)
(* (AuraBalProxyOFT._stakeAll, _withdraw, harvest, rescue, vaultExecute).  *)
BackingLosesOnlyRounding ==
  [][Short' <= Short + PriceOfShare + (toItself' - toItself) + Worth(sharesTaken' - sharesTaken)]_vars
=============================================================================
