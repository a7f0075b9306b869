----------------------- MODULE CoordinatorsProperties -----------------------
(* What the coordinators are checked for.                                  *)
EXTENDS Coordinators

(* Types of what each chain counts.  No more debt is distributed or        *)
(* settled than there is, so no subtraction of the coordinators reverts.   *)
CountsOK ==
  /\ accBalRewards \in [Sidechains -> Nat] /\ accAuraRewards \in [Sidechains -> Nat]
  /\ pendingNotifyFees \in [Sidechains -> Nat] /\ auraBalance \in [Sidechains -> Nat]
  /\ feeDebtOf \in [Sidechains -> Nat]
  /\ distributedFeeDebtOf \in [Sidechains -> Nat] /\ settledFeeDebtOf \in [Sidechains -> Nat]
  /\ noticesSent \in [Sidechains -> Nat] /\ distributionsSent \in [Sidechains -> Nat]
  /\ rewardMultiplier \in 0 .. RewardMultiplierDenominator
  /\ wire \subseteq Messages
  /\ \A c \in Sidechains :
       distributedFeeDebtOf[c] <= feeDebtOf[c] /\ settledFeeDebtOf[c] <= feeDebtOf[c]

TypeOK ==
  /\ CountsOK
  /\ balFloat \in Nat /\ distributorBal \in Nat /\ treasuryBal \in Nat
  /\ balOnTheWay \in [Sidechains -> Nat] /\ receiverBal \in [Sidechains -> Nat]

InWire(kind, c) == {m \in wire : m.kind = kind /\ m.chain = c}
AmountIn(S) == SumFunctionOnSet([m \in S |-> m.amount], S)

(* The BAL still on its way from a sidechain is what the sidechain still   *)
(* owes: the debt L1 has been told of and that is not settled, what is in  *)
(* a notice, and what waits for one.  So whatever order notices and BAL    *)
(* arrive in, each fee becomes debt once, the debt can be settled with the *)
(* BAL that arrives, and no BAL is left over at the receiver               *)
(* (L2Coordinator.notifyFees, L1Coordinator.settleFeeDebt).                *)
OwedIsOnTheWay ==
  \A c \in Sidechains :
    FeeOwed(c) + AmountIn(InWire("FEES", c)) + pendingNotifyFees[c] =
    balOnTheWay[c] + receiverBal[c]

Total(f) == SumFunctionOnSet(f, Sidechains)

(* The BAL of the distributor, the treasury and L1Coordinator is the float *)
(* they began with, plus what was settled, less what AURA was distributed  *)
(* for: no debt is distributed twice, over calls that list any chains,     *)
(* top up the float or not, before or after the debts are settled          *)
(* (L1Coordinator.distributeAura, AuraDistributor.distributeAura).         *)
FloatIsAccounted ==
  balFloat + distributorBal + treasuryBal + Total(distributedFeeDebtOf) =
  InitialFloat + Total(settledFeeDebtOf)

(* What L2Coordinator counts as accumulated AURA, and will count once the  *)
(* callbacks are in, is the AURA it holds or that is on the way, although  *)
(* the two travel on different paths (L1Coordinator._distributeAura).      *)
RewardsBacked ==
  \A c \in Sidechains :
    accAuraRewards[c] + AmountIn(InWire("FEES_CALLBACK", c)) =
    auraBalance[c] + AmountIn(InWire("AURA", c))

(* A claim leaves the others at least the AURA per BAL they had: rounding  *)
(* is never at the cost of those who claim later (L2Coordinator.mint).     *)
MintKeepsRate ==
  [][\A c \in Sidechains : accBalRewards'[c] < accBalRewards[c] =>
       accAuraRewards'[c] * accBalRewards[c] >= accAuraRewards[c] * accBalRewards'[c]]_vars
=============================================================================
