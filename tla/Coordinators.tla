---------------------------- MODULE Coordinators ----------------------------
(***************************************************************************)
(* How a sidechain pays for the AURA it hands out.  L2Coordinator records  *)
(* the BAL fees and rewards that the sidechain's booster earns, sends the  *)
(* fees to L1 through a third-party bridge and tells L1Coordinator of      *)
(* them.  L1Coordinator keeps the fee debt of each sidechain, has AURA     *)
(* minted against it from a float of BAL, sends the AURA to the sidechain  *)
(* and settles the debt when the BAL arrives.                              *)
(*                                                                         *)
(* Three ways lead from chain to chain: LayerZero between the              *)
(* coordinators, the AURA bridge, and the third-party bridge of BAL.       *)
(* Nothing orders one against another, and since a stored LayerZero        *)
(* message is retried at any time, nothing orders two messages of one way: *)
(* wire is the set of messages that have not taken effect yet, which each  *)
(* do once (AuraBridge, ImplementsExactlyOnce).                            *)
(***************************************************************************)
EXTENDS Integers, FiniteSets, Functions

CONSTANTS
  Sidechains,
  Amounts,             \* bound: fees, rewards and transfers of BAL
  MaxFees,             \* bound: BAL fees queued on a sidechain
  MaxRewards,          \* bound: BAL rewards accumulated on a sidechain
  MaxNotices,          \* bound: calls of notifyFees on a sidechain
  MaxDistributions,    \* bound: distributions to a sidechain
  MintRates,           \* bound: AURA the booster mints per BAL of fees
  Multipliers,         \* bound: values of rewardMultiplier
  RewardMultiplierDenominator,
  RatePrecision,       \* 1e18
  InitialFloat         \* BAL that AuraDistributor starts with

ASSUME CoordinatorsAssumption ==
  /\ IsFiniteSet(Sidechains)
  /\ Amounts \subseteq Nat
  /\ MaxFees \in Nat /\ MaxRewards \in Nat /\ MaxNotices \in Nat /\ MaxDistributions \in Nat
  /\ MintRates \subseteq Nat
  /\ RewardMultiplierDenominator \in Nat \ {0}
  /\ Multipliers \subseteq 0 .. RewardMultiplierDenominator
  /\ RatePrecision \in Nat \ {0}
  /\ InitialFloat \in Nat

VARIABLES
  (* L2Coordinator of each sidechain *)
  accBalRewards,
  accAuraRewards,
  pendingNotifyFees,
  auraBalance,          \* AURA (OFT) it holds
  (* L1Coordinator *)
  feeDebtOf,
  distributedFeeDebtOf,
  settledFeeDebtOf,
  rewardMultiplier,
  balFloat,             \* BAL it holds
  (* AuraDistributor *)
  distributorBal,
  treasuryBal,          \* BAL that withdrawERC20 has moved to the treasury
  (* between the chains *)
  wire,                 \* messages accepted and without effect so far
  noticesSent,          \* sidechain -> messages of notifyFees
  distributionsSent,    \* sidechain -> distributions
  balOnTheWay,          \* sidechain -> BAL at the sender, or in the third-party bridge
  receiverBal           \* sidechain -> BAL at its BridgeDelegateReceiver on L1

Messages == [kind : {"FEES", "FEES_CALLBACK", "AURA"}, chain : Sidechains, id : Nat, amount : Nat]

l2Vars     == <<accBalRewards, accAuraRewards, pendingNotifyFees, auraBalance>>
debtVars   == <<feeDebtOf, distributedFeeDebtOf, settledFeeDebtOf>>
floatVars  == <<balFloat, distributorBal, treasuryBal>>
wireVars   == <<wire, noticesSent, distributionsSent>>
bridgeVars == <<balOnTheWay, receiverBal>>
vars == <<l2Vars, debtVars, rewardMultiplier, floatVars, wireVars, bridgeVars>>

-----------------------------------------------------------------------------
(* L2Coordinator.                                                          *)

(* queueNewRewards: the booster has handed over the fees, all the BAL the  *)
(* coordinator holds, which pass on to the bridge delegate.                *)
QueueNewRewards(c, fees, rewards) ==
  /\ fees + pendingNotifyFees[c] + feeDebtOf[c] <= MaxFees
  /\ rewards + accBalRewards[c] <= MaxRewards
  /\ accBalRewards' = [accBalRewards EXCEPT ![c] = @ + rewards]
  /\ pendingNotifyFees' = [pendingNotifyFees EXCEPT ![c] = @ + fees]
  /\ balOnTheWay' = [balOnTheWay EXCEPT ![c] = @ + fees]
  /\ UNCHANGED <<accAuraRewards, auraBalance, debtVars, rewardMultiplier, floatVars, wireVars,
                 receiverBal>>

(* Mutant: the fees stay pending after they were sent.                     *)
NotifyFees_NoReset(c) ==
  /\ noticesSent[c] < MaxNotices
  /\ wire' = wire \cup {[kind |-> "FEES", chain |-> c, id |-> noticesSent[c] + 1,
                         amount |-> pendingNotifyFees[c]]}
  /\ noticesSent' = [noticesSent EXCEPT ![c] = @ + 1]
  /\ UNCHANGED <<l2Vars, debtVars, rewardMultiplier, floatVars, distributionsSent, bridgeVars>>

NotifyFees(c) ==
  /\ noticesSent[c] < MaxNotices
  /\ wire' = wire \cup {[kind |-> "FEES", chain |-> c, id |-> noticesSent[c] + 1,
                         amount |-> pendingNotifyFees[c]]}
  /\ noticesSent' = [noticesSent EXCEPT ![c] = @ + 1]
  /\ pendingNotifyFees' = [pendingNotifyFees EXCEPT ![c] = 0]
  /\ UNCHANGED <<accBalRewards, accAuraRewards, auraBalance, debtVars, rewardMultiplier,
                 floatVars, distributionsSent, bridgeVars>>

mintRate(c) ==
  IF accBalRewards[c] = 0 THEN 0
  ELSE (accAuraRewards[c] * RatePrecision) \div accBalRewards[c]

(* Mutant: the amount is rounded up.                                       *)
MintAmount_RoundsUp(c, bal) == (bal * mintRate(c) + RatePrecision - 1) \div RatePrecision

MintAmount(c, bal) == (bal * mintRate(c)) \div RatePrecision

(* mint: somebody claims bal of the rewards.                               *)
Mint(c, bal) ==
  /\ mintRate(c) > 0
  /\ bal <= accBalRewards[c]
  /\ MintAmount(c, bal) <= accAuraRewards[c]
  /\ MintAmount(c, bal) <= auraBalance[c]
  /\ accBalRewards' = [accBalRewards EXCEPT ![c] = @ - bal]
  /\ accAuraRewards' = [accAuraRewards EXCEPT ![c] = @ - MintAmount(c, bal)]
  /\ auraBalance' = [auraBalance EXCEPT ![c] = @ - MintAmount(c, bal)]
  /\ UNCHANGED <<pendingNotifyFees, debtVars, rewardMultiplier, floatVars, wireVars, bridgeVars>>

-----------------------------------------------------------------------------
(* What a message does when it takes effect.                               *)

(* L1Coordinator._notifyFees                                               *)
ReceiveFees(m) ==
  /\ m.kind = "FEES"
  /\ feeDebtOf' = [feeDebtOf EXCEPT ![m.chain] = @ + m.amount]
  /\ UNCHANGED <<l2Vars, distributedFeeDebtOf, settledFeeDebtOf>>

(* L2Coordinator._nonblockingLzReceive                                     *)
ReceiveFeesCallback(m) ==
  /\ m.kind = "FEES_CALLBACK"
  /\ accAuraRewards' = [accAuraRewards EXCEPT ![m.chain] = @ + m.amount]
  /\ UNCHANGED <<accBalRewards, pendingNotifyFees, auraBalance, debtVars>>

(* AuraOFT mints to L2Coordinator.                                         *)
ReceiveAura(m) ==
  /\ m.kind = "AURA"
  /\ auraBalance' = [auraBalance EXCEPT ![m.chain] = @ + m.amount]
  /\ UNCHANGED <<accBalRewards, accAuraRewards, pendingNotifyFees, debtVars>>

Receive(m) ==
  /\ m \in wire
  /\ wire' = wire \ {m}
  /\ ReceiveFees(m) \/ ReceiveFeesCallback(m) \/ ReceiveAura(m)
  /\ UNCHANGED <<rewardMultiplier, floatVars, noticesSent, distributionsSent, bridgeVars>>

-----------------------------------------------------------------------------
(* L1Coordinator and AuraDistributor.                                      *)

(* Mutant: what was distributed before is distributed again.               *)
Debt_Again(c) == feeDebtOf[c]

Debt(c) == feeDebtOf[c] - distributedFeeDebtOf[c]

AuraReward(c, rate) == (Debt(c) * rate * rewardMultiplier) \div RewardMultiplierDenominator

(* Mutant: the callback tells of all the AURA, the treasury's part too.    *)
Distribution_Whole(c, rate) ==
  { [kind |-> kind, chain |-> c, id |-> distributionsSent[c] + 1,
     amount |-> IF kind = "AURA" THEN AuraReward(c, rate) ELSE Debt(c) * rate] :
    kind \in {"FEES_CALLBACK", "AURA"} }

Distribution(c, rate) ==
  { [kind |-> kind, chain |-> c, id |-> distributionsSent[c] + 1, amount |-> AuraReward(c, rate)] :
    kind \in {"FEES_CALLBACK", "AURA"} }

(* Booster.distributeL2Fees takes the BAL and mints AURA at some rate; the *)
(* treasury keeps what is not rewarded.  Nothing to reward is an error.    *)
DistributeTo(S, rate, held) ==
  /\ \A c \in S :
       /\ distributionsSent[c] < MaxDistributions
       /\ AuraReward(c, rate) > 0
  /\ SumFunctionOnSet([c \in S |-> Debt(c)], S) <= held
  /\ balFloat' = held - SumFunctionOnSet([c \in S |-> Debt(c)], S)
  /\ distributedFeeDebtOf' = [c \in Sidechains |->
       IF c \in S THEN feeDebtOf[c] ELSE distributedFeeDebtOf[c]]
  /\ distributionsSent' = [c \in Sidechains |->
       IF c \in S THEN distributionsSent[c] + 1 ELSE distributionsSent[c]]
  /\ wire' = wire \cup UNION {Distribution(c, rate) : c \in S}
  /\ UNCHANGED <<l2Vars, feeDebtOf, settledFeeDebtOf, rewardMultiplier, treasuryBal, noticesSent,
                 bridgeVars>>

(* L1Coordinator.distributeAura, called by a distributor itself.           *)
DistributeAura(c, rate) ==
  /\ DistributeTo({c}, rate, balFloat)
  /\ UNCHANGED distributorBal

Shortfall(S) ==
  LET totalFeeDebt == SumFunctionOnSet([c \in S |-> Debt(c)], S)
  IN  IF totalFeeDebt > balFloat THEN totalFeeDebt - balFloat ELSE 0

(* AuraDistributor.distributeAura tops up the float and distributes to     *)
(* several chains.  A chain that is listed twice has nothing to reward the *)
(* second time, so the call reverts: the list is a set.                    *)
DistributeToAll(S, rate) ==
  /\ Shortfall(S) <= distributorBal
  /\ distributorBal' = distributorBal - Shortfall(S)
  /\ DistributeTo(S, rate, balFloat + Shortfall(S))

(* AuraDistributor.withdrawERC20                                           *)
WithdrawFloat(amount) ==
  /\ amount <= distributorBal
  /\ distributorBal' = distributorBal - amount
  /\ treasuryBal' = treasuryBal + amount
  /\ UNCHANGED <<l2Vars, debtVars, rewardMultiplier, balFloat, wireVars, bridgeVars>>

(* The third-party bridge, from the delegate on the sidechain to the one   *)
(* on L1.                                                                  *)
BridgeBal(c, amount) ==
  /\ amount <= balOnTheWay[c]
  /\ balOnTheWay' = [balOnTheWay EXCEPT ![c] = @ - amount]
  /\ receiverBal' = [receiverBal EXCEPT ![c] = @ + amount]
  /\ UNCHANGED <<l2Vars, debtVars, rewardMultiplier, floatVars, wireVars>>

FeeOwed(c) == feeDebtOf[c] - settledFeeDebtOf[c]

SettleFeeDebt(c, amount) ==
  /\ amount <= FeeOwed(c)
  /\ amount <= receiverBal[c]
  /\ settledFeeDebtOf' = [settledFeeDebtOf EXCEPT ![c] = @ + amount]
  /\ receiverBal' = [receiverBal EXCEPT ![c] = @ - amount]
  /\ balFloat' = balFloat + amount
  /\ UNCHANGED <<l2Vars, feeDebtOf, distributedFeeDebtOf, rewardMultiplier, distributorBal,
                 treasuryBal, wireVars, balOnTheWay>>

SetRewardMultiplier(multiplier) ==
  /\ multiplier # rewardMultiplier
  /\ rewardMultiplier' = multiplier
  /\ UNCHANGED <<l2Vars, debtVars, floatVars, wireVars, bridgeVars>>

-----------------------------------------------------------------------------
Init ==
  /\ accBalRewards = [c \in Sidechains |-> 0]
  /\ accAuraRewards = [c \in Sidechains |-> 0]
  /\ pendingNotifyFees = [c \in Sidechains |-> 0]
  /\ auraBalance = [c \in Sidechains |-> 0]
  /\ feeDebtOf = [c \in Sidechains |-> 0]
  /\ distributedFeeDebtOf = [c \in Sidechains |-> 0]
  /\ settledFeeDebtOf = [c \in Sidechains |-> 0]
  /\ rewardMultiplier = RewardMultiplierDenominator
  /\ balFloat = 0
  /\ distributorBal = InitialFloat
  /\ treasuryBal = 0
  /\ wire = {}
  /\ noticesSent = [c \in Sidechains |-> 0]
  /\ distributionsSent = [c \in Sidechains |-> 0]
  /\ balOnTheWay = [c \in Sidechains |-> 0]
  /\ receiverBal = [c \in Sidechains |-> 0]

SidechainStep(c) ==
  \/ \E fees, rewards \in Amounts : QueueNewRewards(c, fees, rewards)
  \/ NotifyFees(c)
  \/ \E bal \in Amounts : Mint(c, bal) \/ BridgeBal(c, bal) \/ SettleFeeDebt(c, bal)
  \/ \E rate \in MintRates : DistributeAura(c, rate)

Next ==
  \/ \E c \in Sidechains : SidechainStep(c)
  \/ \E m \in wire : Receive(m)
  \/ \E S \in SUBSET Sidechains, rate \in MintRates : DistributeToAll(S, rate)
  \/ \E amount \in Amounts : WithdrawFloat(amount)
  \/ \E multiplier \in Multipliers : SetRewardMultiplier(multiplier)

Spec == Init /\ [][Next]_vars
=============================================================================
