------------------------- MODULE CoordinatorsProofs -------------------------
(***************************************************************************)
(* Proofs about the coordinators, for any number of sidechains: the types  *)
(* and bounds of their counts, that a claim never costs those who claim    *)
(* later, and where the BAL and the AURA are at any time: what is owed is  *)
(* on the way, the float is accounted for, and the AURA that is counted is *)
(* there.  The last three rest on the sum of the amounts in the wire, and  *)
(* on the number of the next message not being in it (WireInv).            *)
(***************************************************************************)
EXTENDS CoordinatorsProperties, Arithmetic, TLAPS

-----------------------------------------------------------------------------
(* The heart of mint: bal of all BAL is given no more than its share of    *)
(* all AURA, through a rate that is rounded and an amount that is rounded. *)
LEMMA ShareIsFair ==
  ASSUME NEW aura \in Nat, NEW all \in Nat \ {0}, NEW bal \in Nat, NEW p \in Nat \ {0}
  PROVE  /\ (bal * ((aura * p) \div all)) \div p \in Nat
         /\ ((bal * ((aura * p) \div all)) \div p) * all <= aura * bal
<1> DEFINE rate == (aura * p) \div all
           amount == (bal * rate) \div p
<1>1. rate \in Nat /\ rate * all <= aura * p
  BY DivIsFloor, ProductIsNat
<1> HIDE DEF rate
<1>2. amount \in Nat /\ amount * p <= bal * rate
  BY <1>1, DivIsFloor, ProductIsNat
<1> HIDE DEF amount
<1>3. (amount * p) * all <= (bal * rate) * all
  BY <1>1, <1>2, ProductIsNat, ProductIsMonotone
<1>4. (rate * all) * bal <= (aura * p) * bal
  BY <1>1, ProductIsNat, ProductIsMonotone
<1>5. (amount * all) * p <= (aura * bal) * p
  <2>1. (amount * all) * p = (amount * p) * all
    BY <1>2, SMT
  <2>2. (bal * rate) * all = (rate * all) * bal
    BY <1>1, SMT
  <2>3. (aura * bal) * p = (aura * p) * bal
    BY SMT
  <2> QED
    BY <1>1, <1>2, <1>3, <1>4, <2>1, <2>2, <2>3, ProductIsNat
<1>6. amount * all <= aura * bal
  BY <1>2, <1>5, ProductIsNat, ProductCancels
<1> QED
  BY <1>2, <1>6 DEF amount, rate

-----------------------------------------------------------------------------
(* The counts.                                                             *)

(* The AURA for a report is a number.                                      *)
LEMMA RewardIsNat ==
  ASSUME CountsOK, NEW c \in Sidechains, NEW rate \in MintRates
  PROVE  AuraReward(c, rate) \in Nat
<1>1. Debt(c) \in Nat
  BY DEF CountsOK, Debt
<1>2. rewardMultiplier \in Nat /\ rate \in Nat /\ RewardMultiplierDenominator \in Nat \ {0}
  BY CoordinatorsAssumption DEF CountsOK
<1>3. Debt(c) * rate * rewardMultiplier \in Nat
  BY <1>1, <1>2, ProductIsNat
<1> QED
  BY <1>2, <1>3, DivIsFloor DEF AuraReward

(* The AURA minted for a payment is in proportion to what was accumulated, *)
(* rounded down (L2Coordinator.queueNewRewards).                           *)
LEMMA MintAmountIsFair ==
  ASSUME CountsOK, NEW c \in Sidechains, NEW bal \in Nat, accBalRewards[c] # 0
  PROVE  /\ MintAmount(c, bal) \in Nat
         /\ MintAmount(c, bal) * accBalRewards[c] <= accAuraRewards[c] * bal
<1>1. accAuraRewards[c] \in Nat /\ accBalRewards[c] \in Nat \ {0} /\ RatePrecision \in Nat \ {0}
  BY CoordinatorsAssumption DEF CountsOK
<1> QED
  BY <1>1, ShareIsFair DEF MintAmount, mintRate

(* What a distribution sends are messages.                                 *)
LEMMA DistributionIsTyped ==
  ASSUME CountsOK, NEW c \in Sidechains, NEW rate \in MintRates
  PROVE  Distribution(c, rate) \subseteq Messages
<1>1. AuraReward(c, rate) \in Nat
  BY RewardIsNat
<1>2. distributionsSent[c] + 1 \in Nat
  BY DEF CountsOK
<1> QED
  BY <1>1, <1>2 DEF Distribution, Messages

(* A distribution keeps the counts numbers.                                *)
LEMMA DistributionKeepsCounts ==
  ASSUME CountsOK, NEW S \in SUBSET Sidechains, NEW rate \in MintRates, NEW held,
         DistributeTo(S, rate, held)
  PROVE  CountsOK'
<1>1. distributedFeeDebtOf' \in [Sidechains -> Nat]
  BY DEF DistributeTo, CountsOK
<1>2. distributionsSent' \in [Sidechains -> Nat]
  BY DEF DistributeTo, CountsOK
<1>3. wire' \subseteq Messages
  <2>1. \A c \in S : Distribution(c, rate) \subseteq Messages
    BY DistributionIsTyped
  <2> QED
    BY <2>1 DEF DistributeTo, CountsOK
<1>4. \A c \in Sidechains : distributedFeeDebtOf'[c] <= feeDebtOf'[c]
  BY DEF DistributeTo, CountsOK, debtVars
<1>5. \A c \in Sidechains : settledFeeDebtOf'[c] <= feeDebtOf'[c]
  BY DEF DistributeTo, CountsOK
<1> QED
  BY <1>1, <1>2, <1>3, <1>4, <1>5 DEF DistributeTo, CountsOK, l2Vars

(* The counts are zero after deployment.                                   *)
LEMMA InitCounts == Init => CountsOK
  BY CoordinatorsAssumption DEF Init, CountsOK

(* Every step keeps the counts: one case for each operation.               *)
LEMMA StepKeepsCounts == CountsOK /\ [Next]_vars => CountsOK'
<1> SUFFICES ASSUME CountsOK, [Next]_vars PROVE CountsOK'
  OBVIOUS
<1> USE CoordinatorsAssumption
<1>1. ASSUME NEW c \in Sidechains, NEW fees \in Amounts, NEW rewards \in Amounts,
             QueueNewRewards(c, fees, rewards)
      PROVE  CountsOK'
  BY <1>1 DEF QueueNewRewards, CountsOK, debtVars, wireVars
<1>2. ASSUME NEW c \in Sidechains, NotifyFees(c)
      PROVE  CountsOK'
  <2>1. wire' \subseteq Messages
    BY <1>2 DEF NotifyFees, CountsOK, Messages
  <2> QED
    BY <1>2, <2>1 DEF NotifyFees, CountsOK, debtVars
<1>3. ASSUME NEW c \in Sidechains, NEW bal \in Amounts, Mint(c, bal)
      PROVE  CountsOK'
  <2>1. accBalRewards[c] # 0
    BY <1>3 DEF Mint, mintRate
  <2>2. MintAmount(c, bal) \in Nat
    BY <2>1, MintAmountIsFair
  <2> QED
    BY <1>3, <2>2 DEF Mint, CountsOK, debtVars, wireVars
<1>4. ASSUME NEW c \in Sidechains, NEW bal \in Amounts, BridgeBal(c, bal)
      PROVE  CountsOK'
  BY <1>4 DEF BridgeBal, CountsOK, l2Vars, debtVars, wireVars
<1>5. ASSUME NEW c \in Sidechains, NEW bal \in Amounts, SettleFeeDebt(c, bal)
      PROVE  CountsOK'
  BY <1>5 DEF SettleFeeDebt, FeeOwed, CountsOK, l2Vars, wireVars
<1>6. ASSUME NEW c \in Sidechains, NEW rate \in MintRates, DistributeAura(c, rate)
      PROVE  CountsOK'
  BY <1>6, DistributionKeepsCounts DEF DistributeAura
<1>7. ASSUME NEW m \in wire, Receive(m)
      PROVE  CountsOK'
  <2>1. m \in Messages
    BY DEF CountsOK
  <2>2. m.chain \in Sidechains /\ m.amount \in Nat
    BY <2>1 DEF Messages
  <2>3. CASE ReceiveFees(m)
    BY <1>7, <2>2, <2>3 DEF Receive, ReceiveFees, CountsOK, l2Vars
  <2>4. CASE ReceiveFeesCallback(m)
    BY <1>7, <2>2, <2>4 DEF Receive, ReceiveFeesCallback, CountsOK, debtVars
  <2>5. CASE ReceiveAura(m)
    BY <1>7, <2>2, <2>5 DEF Receive, ReceiveAura, CountsOK, debtVars
  <2> QED
    BY <1>7, <2>3, <2>4, <2>5 DEF Receive
<1>8. ASSUME NEW S \in SUBSET Sidechains, NEW rate \in MintRates, DistributeToAll(S, rate)
      PROVE  CountsOK'
  BY <1>8, DistributionKeepsCounts DEF DistributeToAll
<1>9. ASSUME NEW amount \in Amounts, WithdrawFloat(amount)
      PROVE  CountsOK'
  BY <1>9 DEF WithdrawFloat, CountsOK, l2Vars, debtVars, wireVars
<1>10. ASSUME NEW multiplier \in Multipliers, SetRewardMultiplier(multiplier)
       PROVE  CountsOK'
  BY <1>10 DEF SetRewardMultiplier, CountsOK, l2Vars, debtVars, wireVars
<1>11. CASE UNCHANGED vars
  BY <1>11 DEF vars, CountsOK, l2Vars, debtVars, wireVars
<1> QED
  BY <1>1, <1>2, <1>3, <1>4, <1>5, <1>6, <1>7, <1>8, <1>9, <1>10, <1>11 DEF Next, SidechainStep

(* The counts keep their types, and neither more is distributed nor more   *)
(* is settled than the debt (L1Coordinator.distributeAura, settleFeeDebt). *)
THEOREM CountsCorrect == Spec => []CountsOK
  BY InitCounts, StepKeepsCounts, PTL DEF Spec

-----------------------------------------------------------------------------
(* The rate of the others.                                                 *)

(* All keep at least their rate when bal is claimed for amount.            *)
LEMMA TheRestKeepsItsRate ==
  ASSUME NEW aura \in Nat, NEW all \in Nat, NEW bal \in Nat, NEW amount \in Nat,
         amount * all <= aura * bal
  PROVE  (aura - amount) * all >= aura * (all - bal)
  BY SMT

(* A step that takes BAL out of the accumulated rewards leaves no less     *)
(* AURA for the rest in proportion.                                        *)
LEMMA StepKeepsRate ==
  ASSUME CountsOK, [Next]_vars, NEW c \in Sidechains, accBalRewards'[c] < accBalRewards[c]
  PROVE  accAuraRewards'[c] * accBalRewards[c] >= accAuraRewards[c] * accBalRewards'[c]
<1> USE CoordinatorsAssumption
<1>1. PICK bal \in Amounts : Mint(c, bal)
  <2>1. ASSUME NEW d \in Sidechains, NEW bal \in Amounts, Mint(d, bal)
        PROVE  d = c
    BY <2>1 DEF Mint, CountsOK
  <2>2. ASSUME NEW d \in Sidechains, NEW fees \in Amounts, NEW rewards \in Amounts
        PROVE  ~ QueueNewRewards(d, fees, rewards)
    BY DEF QueueNewRewards, CountsOK
  <2>3. accBalRewards' # accBalRewards
    BY DEF CountsOK
  <2> QED
    BY <2>1, <2>2, <2>3 DEF Next, SidechainStep, vars, l2Vars, NotifyFees, BridgeBal, SettleFeeDebt,
       DistributeAura, DistributeToAll, DistributeTo, Receive, ReceiveFees, ReceiveFeesCallback,
       ReceiveAura, WithdrawFloat, SetRewardMultiplier
<1>2. accBalRewards[c] # 0
  BY <1>1 DEF Mint, mintRate
<1>3. /\ MintAmount(c, bal) \in Nat
      /\ MintAmount(c, bal) * accBalRewards[c] <= accAuraRewards[c] * bal
  BY <1>2, MintAmountIsFair
<1>4. /\ accBalRewards'[c] = accBalRewards[c] - bal
      /\ accAuraRewards'[c] = accAuraRewards[c] - MintAmount(c, bal)
  BY <1>1 DEF Mint, CountsOK
<1>5. accAuraRewards[c] \in Nat /\ accBalRewards[c] \in Nat /\ bal \in Nat
  BY DEF CountsOK
<1> HIDE DEF MintAmount
<1> QED
  BY <1>3, <1>4, <1>5, TheRestKeepsItsRate

(* Whatever the amounts and the precision, a claim leaves the others at    *)
(* least the AURA per BAL they had (L2Coordinator.mint).                   *)
THEOREM ClaimsKeepRate == Spec => MintKeepsRate
<1>1. CountsOK /\ [Next]_vars =>
        [\A c \in Sidechains : accBalRewards'[c] < accBalRewards[c] =>
           accAuraRewards'[c] * accBalRewards[c] >= accAuraRewards[c] * accBalRewards'[c]]_vars
  BY StepKeepsRate
<1> QED
  BY <1>1, CountsCorrect, PTL DEF Spec, MintKeepsRate

-----------------------------------------------------------------------------
(* The other types.                                                        *)

(* What some chains are in debt.                                           *)
LEMMA DebtsAreNat ==
  ASSUME CountsOK, NEW S \in SUBSET Sidechains
  PROVE  /\ IsFiniteSet(S) /\ \A c \in S : Debt(c) \in Nat
         /\ SumFunctionOnSet([c \in S |-> Debt(c)], S) \in Nat
<1>1. IsFiniteSet(S)
  BY CoordinatorsAssumption, FS_Subset
<1>2. \A c \in S : Debt(c) \in Nat
  BY DEF CountsOK, Debt
<1> DEFINE debts == [c \in S |-> Debt(c)]
<1>3. \A c \in S : debts[c] \in Nat
  BY <1>2
<1> HIDE DEF debts
<1>4. SumFunctionOnSet(debts, S) \in Nat
  BY <1>1, <1>3, SumIsNat
<1> QED
  BY <1>1, <1>2, <1>4 DEF debts

(* What is missing on the receiver is a number.                            *)
LEMMA ShortfallIsNat ==
  ASSUME TypeOK, NEW S \in SUBSET Sidechains
  PROVE  Shortfall(S) \in Nat
<1> DEFINE total == SumFunctionOnSet([c \in S |-> Debt(c)], S)
<1>1. total \in Nat /\ balFloat \in Nat
  BY DebtsAreNat DEF TypeOK
<1>2. Shortfall(S) = IF total > balFloat THEN total - balFloat ELSE 0
  BY DEF Shortfall
<1> HIDE DEF total
<1> QED
  BY <1>1, <1>2

(* A distribution keeps the types of BAL.                                  *)
LEMMA DistributionKeepsTypes ==
  ASSUME TypeOK, NEW S \in SUBSET Sidechains, NEW rate \in MintRates, NEW held \in Nat,
         DistributeTo(S, rate, held)
  PROVE  balFloat' \in Nat /\ UNCHANGED <<treasuryBal, balOnTheWay, receiverBal>>
<1> DEFINE total == SumFunctionOnSet([c \in S |-> Debt(c)], S)
<1>1. total \in Nat
  BY DebtsAreNat DEF TypeOK
<1>2. total <= held /\ balFloat' = held - total
  BY DEF DistributeTo
<1> HIDE DEF total
<1>3. balFloat' \in Nat
  BY <1>1, <1>2
<1> QED
  BY <1>3 DEF DistributeTo, bridgeVars

(* Every step keeps the types.                                             *)
LEMMA StepKeepsTypes == TypeOK /\ [Next]_vars => TypeOK'
<1> SUFFICES ASSUME TypeOK, [Next]_vars PROVE TypeOK'
  OBVIOUS
<1>0. CountsOK /\ CountsOK'
  BY StepKeepsCounts DEF TypeOK
<1> DEFINE Rest == /\ balFloat \in Nat /\ distributorBal \in Nat /\ treasuryBal \in Nat
                   /\ balOnTheWay \in [Sidechains -> Nat] /\ receiverBal \in [Sidechains -> Nat]
<1> SUFFICES Rest'
  BY <1>0 DEF TypeOK
<1> USE CoordinatorsAssumption
<1>1. ASSUME NEW c \in Sidechains, NEW fees \in Amounts, NEW rewards \in Amounts,
             QueueNewRewards(c, fees, rewards)
      PROVE  Rest'
  BY <1>1 DEF QueueNewRewards, TypeOK, floatVars
<1>2. ASSUME NEW c \in Sidechains, NotifyFees(c)
      PROVE  Rest'
  BY <1>2 DEF NotifyFees, TypeOK, floatVars, bridgeVars
<1>3. ASSUME NEW c \in Sidechains, NEW bal \in Amounts, Mint(c, bal)
      PROVE  Rest'
  BY <1>3 DEF Mint, TypeOK, floatVars, bridgeVars
<1>4. ASSUME NEW c \in Sidechains, NEW bal \in Amounts, BridgeBal(c, bal)
      PROVE  Rest'
  BY <1>4 DEF BridgeBal, TypeOK, floatVars
<1>5. ASSUME NEW c \in Sidechains, NEW bal \in Amounts, SettleFeeDebt(c, bal)
      PROVE  Rest'
  BY <1>5 DEF SettleFeeDebt, TypeOK
<1>6. ASSUME NEW c \in Sidechains, NEW rate \in MintRates, DistributeAura(c, rate)
      PROVE  Rest'
  <2>1. balFloat' \in Nat /\ UNCHANGED <<treasuryBal, balOnTheWay, receiverBal>>
    BY <1>6, DistributionKeepsTypes DEF DistributeAura, TypeOK
  <2> QED
    BY <1>6, <2>1 DEF DistributeAura, TypeOK
<1>7. ASSUME NEW m \in wire, Receive(m)
      PROVE  Rest'
  BY <1>7 DEF Receive, TypeOK, floatVars, bridgeVars
<1>8. ASSUME NEW S \in SUBSET Sidechains, NEW rate \in MintRates, DistributeToAll(S, rate)
      PROVE  Rest'
  <2> DEFINE short == Shortfall(S)
  <2>1. short \in Nat /\ balFloat \in Nat /\ distributorBal \in Nat
    BY ShortfallIsNat DEF TypeOK
  <2>2. /\ short <= distributorBal /\ distributorBal' = distributorBal - short
        /\ DistributeTo(S, rate, balFloat + short)
    BY <1>8 DEF DistributeToAll
  <2> HIDE DEF short
  <2>3. balFloat + short \in Nat /\ distributorBal' \in Nat
    BY <2>1, <2>2
  <2>4. balFloat' \in Nat /\ UNCHANGED <<treasuryBal, balOnTheWay, receiverBal>>
    BY <2>2, <2>3, DistributionKeepsTypes
  <2> QED
    BY <2>3, <2>4 DEF TypeOK
<1>9. ASSUME NEW amount \in Amounts, WithdrawFloat(amount)
      PROVE  Rest'
  BY <1>9 DEF WithdrawFloat, TypeOK, bridgeVars
<1>10. ASSUME NEW multiplier \in Multipliers, SetRewardMultiplier(multiplier)
       PROVE  Rest'
  BY <1>10 DEF SetRewardMultiplier, TypeOK, floatVars, bridgeVars
<1>11. CASE UNCHANGED vars
  BY <1>11 DEF vars, TypeOK, floatVars, bridgeVars
<1> QED
  BY <1>1, <1>2, <1>3, <1>4, <1>5, <1>6, <1>7, <1>8, <1>9, <1>10, <1>11 DEF Next, SidechainStep

-----------------------------------------------------------------------------
(* What is in the wire.                                                    *)

Kinds == {"FEES", "FEES_CALLBACK", "AURA"}

(* The number of the next message is not in the wire.                      *)
WireInv ==
  \A c \in Sidechains :
    /\ \A kind \in Kinds : IsFiniteSet(InWire(kind, c))
    /\ \A m \in InWire("FEES", c) : m.id <= noticesSent[c]
    /\ \A m \in InWire("FEES_CALLBACK", c) \cup InWire("AURA", c) : m.id <= distributionsSent[c]

(* The amounts of a set of messages add up to a number.                    *)
LEMMA AmountsAreNat ==
  ASSUME NEW S, IsFiniteSet(S), \A m \in S : m.amount \in Nat
  PROVE  AmountIn(S) \in Nat
  BY AmountsHaveSum DEF AmountIn, AmountsOf

(* A new message adds its amount.                                          *)
LEMMA AmountsAdded ==
  ASSUME NEW S, IsFiniteSet(S), \A m \in S : m.amount \in Nat,
         NEW x, x \notin S, x.amount \in Nat
  PROVE  AmountIn(S \cup {x}) = AmountIn(S) + x.amount
  BY AmountsOfMore DEF AmountIn, AmountsOf

(* A message taken out takes its amount.                                   *)
LEMMA AmountsRemoved ==
  ASSUME NEW S, IsFiniteSet(S), \A m \in S : m.amount \in Nat, NEW x \in S
  PROVE  AmountIn(S) = AmountIn(S \ {x}) + x.amount
  BY AmountsOfLess DEF AmountIn, AmountsOf

(* The messages of one kind to or from one chain are finitely many, with   *)
(* amounts.                                                                *)
LEMMA InWireIsTyped ==
  ASSUME CountsOK, WireInv, NEW c \in Sidechains, NEW kind \in Kinds
  PROVE  /\ IsFiniteSet(InWire(kind, c)) /\ \A m \in InWire(kind, c) : m.amount \in Nat
         /\ AmountIn(InWire(kind, c)) \in Nat
<1>1. IsFiniteSet(InWire(kind, c))
  BY DEF WireInv
<1>2. \A m \in InWire(kind, c) : m.amount \in Nat
  BY DEF InWire, CountsOK, Messages
<1> QED
  BY <1>1, <1>2, AmountsAreNat

Notice(c) == [kind |-> "FEES", chain |-> c, id |-> noticesSent[c] + 1, amount |-> pendingNotifyFees[c]]

(* A notice of fees is new, and the only change of the wire.               *)
LEMMA NoticeInWire ==
  ASSUME CountsOK, WireInv, NEW d \in Sidechains, NotifyFees(d)
  PROVE  /\ Notice(d) \notin InWire("FEES", d) /\ InWire("FEES", d)' = InWire("FEES", d) \cup {Notice(d)}
         /\ \A c \in Sidechains, kind \in Kinds :
              (c # d \/ kind # "FEES") => InWire(kind, c)' = InWire(kind, c)
<1>1. wire' = wire \cup {Notice(d)}
  BY DEF NotifyFees, Notice
<1>2. Notice(d).kind = "FEES" /\ Notice(d).chain = d /\ Notice(d).id = noticesSent[d] + 1
  BY DEF Notice
<1>3. noticesSent[d] \in Nat
  BY DEF CountsOK
<1>4. Notice(d) \notin InWire("FEES", d)
  BY <1>2, <1>3 DEF WireInv
<1> QED
  BY <1>1, <1>2, <1>4 DEF InWire, Kinds

Sent(kind, c, rate) ==
  [kind |-> kind, chain |-> c, id |-> distributionsSent[c] + 1, amount |-> AuraReward(c, rate)]

(* A distribution puts one callback and one payment for each of its chains *)
(* on the wire.                                                            *)
LEMMA DistributionInWire ==
  ASSUME CountsOK, WireInv, NEW S \in SUBSET Sidechains, NEW rate \in MintRates, NEW held,
         DistributeTo(S, rate, held), NEW c \in Sidechains
  PROVE  /\ InWire("FEES", c)' = InWire("FEES", c)
         /\ \A kind \in {"FEES_CALLBACK", "AURA"} :
              /\ c \in S => /\ Sent(kind, c, rate) \notin InWire(kind, c)
                            /\ InWire(kind, c)' = InWire(kind, c) \cup {Sent(kind, c, rate)}
              /\ c \notin S => InWire(kind, c)' = InWire(kind, c)
<1> DEFINE news == UNION {Distribution(x, rate) : x \in S}
<1>1. wire' = wire \cup news
  BY DEF DistributeTo
<1>2. \A m : m \in news <=> \E x \in S, kind \in {"FEES_CALLBACK", "AURA"} : m = Sent(kind, x, rate)
  BY DEF Distribution, Sent
<1>3. \A x, kind : Sent(kind, x, rate).kind = kind /\ Sent(kind, x, rate).chain = x
                   /\ Sent(kind, x, rate).id = distributionsSent[x] + 1
  BY DEF Sent
<1>4. distributionsSent[c] \in Nat
  BY DEF CountsOK
<1> HIDE DEF news
<1>5. \A kind \in {"FEES_CALLBACK", "AURA"} : Sent(kind, c, rate) \notin InWire(kind, c)
  BY <1>3, <1>4 DEF WireInv
<1>6. InWire("FEES", c)' = InWire("FEES", c)
  BY <1>1, <1>2, <1>3 DEF InWire
<1>7. ASSUME NEW kind \in {"FEES_CALLBACK", "AURA"}
      PROVE  /\ c \in S => InWire(kind, c)' = InWire(kind, c) \cup {Sent(kind, c, rate)}
             /\ c \notin S => InWire(kind, c)' = InWire(kind, c)
  <2>1. \A m : m \in InWire(kind, c)' <=> m \in InWire(kind, c) \/ (m \in news /\ m.kind = kind /\ m.chain = c)
    BY <1>1 DEF InWire
  <2>2. \A m : (m \in news /\ m.kind = kind /\ m.chain = c) <=> (c \in S /\ m = Sent(kind, c, rate))
    BY <1>2, <1>3
  <2> QED
    BY <2>1, <2>2
<1> QED
  BY <1>5, <1>6, <1>7

(* A message received is off the wire.                                     *)
LEMMA ReceiptInWire ==
  ASSUME NEW m \in wire, Receive(m)
  PROVE  \A kind, c : InWire(kind, c)' = InWire(kind, c) \ {m}
  BY DEF Receive, InWire

(* A wire that stays as it is holds the same messages.                     *)
LEMMA WireStays ==
  ASSUME wire' = wire
  PROVE  \A kind, c : InWire(kind, c)' = InWire(kind, c)
  BY DEF InWire

(* A distribution keeps the wire finite and its messages old.              *)
LEMMA DistributionKeepsWire ==
  ASSUME CountsOK, WireInv, NEW S \in SUBSET Sidechains, NEW rate \in MintRates, NEW held,
         DistributeTo(S, rate, held)
  PROVE  WireInv'
<1> SUFFICES ASSUME NEW c \in Sidechains
             PROVE  /\ \A kind \in Kinds : IsFiniteSet(InWire(kind, c)')
                    /\ \A m \in InWire("FEES", c)' : m.id <= noticesSent'[c]
                    /\ \A m \in InWire("FEES_CALLBACK", c)' \cup InWire("AURA", c)' :
                         m.id <= distributionsSent'[c]
  BY DEF WireInv
<1>1. /\ InWire("FEES", c)' = InWire("FEES", c)
      /\ \A kind \in {"FEES_CALLBACK", "AURA"} :
           /\ c \in S => InWire(kind, c)' = InWire(kind, c) \cup {Sent(kind, c, rate)}
           /\ c \notin S => InWire(kind, c)' = InWire(kind, c)
  BY DistributionInWire
<1>2. \A kind \in Kinds : IsFiniteSet(InWire(kind, c))
  BY DEF WireInv
<1>3. ASSUME NEW kind \in Kinds PROVE IsFiniteSet(InWire(kind, c)')
  <2>1. CASE c \in S /\ kind # "FEES"
    BY <1>1, <1>2, <2>1, FS_AddElement DEF Kinds
  <2>2. CASE c \notin S \/ kind = "FEES"
    BY <1>1, <1>2, <2>2 DEF Kinds
  <2> QED
    BY <2>1, <2>2
<1>4. /\ noticesSent' = noticesSent /\ distributionsSent[c] \in Nat
      /\ distributionsSent'[c] = IF c \in S THEN distributionsSent[c] + 1 ELSE distributionsSent[c]
  BY DEF DistributeTo, CountsOK
<1>5. \A kind : Sent(kind, c, rate).id = distributionsSent[c] + 1
  BY DEF Sent
<1>6. ASSUME NEW kind \in {"FEES_CALLBACK", "AURA"}, NEW m \in InWire(kind, c)'
      PROVE  m.id <= distributionsSent'[c]
  <2>1. m \in InWire(kind, c) => m.id <= distributionsSent[c] /\ m.id \in Nat
    BY DEF WireInv, CountsOK, InWire, Messages
  <2>2. m \in InWire(kind, c) \/ (c \in S /\ m = Sent(kind, c, rate))
    BY <1>1, <1>6
  <2> QED
    BY <1>4, <1>5, <2>1, <2>2
<1> QED
  BY <1>1, <1>3, <1>4, <1>6 DEF WireInv

(* So does every step.                                                     *)
LEMMA StepKeepsWire == CountsOK /\ WireInv /\ [Next]_vars => WireInv'
<1> SUFFICES ASSUME CountsOK, WireInv, [Next]_vars PROVE WireInv'
  OBVIOUS
<1>1. ASSUME wire' = wire, UNCHANGED <<noticesSent, distributionsSent>>
      PROVE  WireInv'
  BY <1>1, WireStays DEF WireInv
<1>2. ASSUME NEW d \in Sidechains, NotifyFees(d)
      PROVE  WireInv'
  <2>1. /\ InWire("FEES", d)' = InWire("FEES", d) \cup {Notice(d)}
        /\ \A c \in Sidechains, kind \in Kinds :
             (c # d \/ kind # "FEES") => InWire(kind, c)' = InWire(kind, c)
    BY <1>2, NoticeInWire
  <2>2. /\ noticesSent' = [noticesSent EXCEPT ![d] = @ + 1] /\ distributionsSent' = distributionsSent
        /\ noticesSent \in [Sidechains -> Nat]
    BY <1>2 DEF NotifyFees, CountsOK
  <2>3. Notice(d).id = noticesSent[d] + 1
    BY DEF Notice
  <2> SUFFICES ASSUME NEW c \in Sidechains
               PROVE  /\ \A kind \in Kinds : IsFiniteSet(InWire(kind, c)')
                      /\ \A m \in InWire("FEES", c)' : m.id <= noticesSent'[c]
                      /\ \A m \in InWire("FEES_CALLBACK", c)' \cup InWire("AURA", c)' :
                           m.id <= distributionsSent'[c]
    BY DEF WireInv
  <2>4. ASSUME NEW kind \in Kinds PROVE IsFiniteSet(InWire(kind, c)')
    <3>1. IsFiniteSet(InWire(kind, c))
      BY DEF WireInv
    <3>2. CASE c = d /\ kind = "FEES"
      BY <2>1, <3>1, <3>2, FS_AddElement
    <3>3. CASE c # d \/ kind # "FEES"
      BY <2>1, <3>1, <3>3
    <3> QED
      BY <3>2, <3>3
  <2>5. ASSUME NEW m \in InWire("FEES", c)' PROVE m.id <= noticesSent'[c]
    <3>1. m \in InWire("FEES", c) => m.id <= noticesSent[c] /\ m.id \in Nat
      BY DEF WireInv, CountsOK, InWire, Messages
    <3>2. m \in InWire("FEES", c) \/ (c = d /\ m = Notice(d))
      BY <2>1, <2>5 DEF Kinds
    <3> QED
      BY <2>2, <2>3, <3>1, <3>2
  <2>6. \A m \in InWire("FEES_CALLBACK", c)' \cup InWire("AURA", c)' : m.id <= distributionsSent'[c]
    BY <2>1, <2>2 DEF WireInv, Kinds
  <2> QED
    BY <2>4, <2>5, <2>6
<1>3. ASSUME NEW m \in wire, Receive(m)
      PROVE  WireInv'
  <2>1. \A kind, c : InWire(kind, c)' = InWire(kind, c) \ {m}
    BY <1>3, ReceiptInWire
  <2>2. UNCHANGED <<noticesSent, distributionsSent>>
    BY <1>3 DEF Receive
  <2>3. \A c \in Sidechains, kind \in Kinds : IsFiniteSet(InWire(kind, c)')
    BY <2>1, FS_RemoveElement DEF WireInv
  <2> QED
    BY <2>1, <2>2, <2>3 DEF WireInv
<1>4. ASSUME NEW c \in Sidechains, NEW rate \in MintRates, DistributeAura(c, rate)
      PROVE  WireInv'
  BY <1>4, DistributionKeepsWire DEF DistributeAura
<1>5. ASSUME NEW S \in SUBSET Sidechains, NEW rate \in MintRates, DistributeToAll(S, rate)
      PROVE  WireInv'
  BY <1>5, DistributionKeepsWire DEF DistributeToAll
<1>6. ASSUME NEW c \in Sidechains, NEW fees \in Amounts, NEW rewards \in Amounts,
             QueueNewRewards(c, fees, rewards)
      PROVE  WireInv'
  BY <1>1, <1>6 DEF QueueNewRewards, wireVars
<1>7. ASSUME NEW c \in Sidechains, NEW bal \in Amounts, Mint(c, bal) \/ BridgeBal(c, bal) \/ SettleFeeDebt(c, bal)
      PROVE  WireInv'
  BY <1>1, <1>7 DEF Mint, BridgeBal, SettleFeeDebt, wireVars
<1>8. ASSUME NEW x, WithdrawFloat(x) \/ SetRewardMultiplier(x)
      PROVE  WireInv'
  BY <1>1, <1>8 DEF WithdrawFloat, SetRewardMultiplier, wireVars
<1>9. CASE UNCHANGED vars
  BY <1>1, <1>9 DEF vars, wireVars
<1> QED
  BY <1>2, <1>3, <1>4, <1>5, <1>6, <1>7, <1>8, <1>9 DEF Next, SidechainStep

(* The types, and the numbers in the wire.                                 *)
CInv == TypeOK /\ WireInv

(* The invariant holds after deployment.                                   *)
LEMMA InitC == Init => CInv
<1> SUFFICES ASSUME Init PROVE CInv
  OBVIOUS
<1>1. CountsOK
  BY InitCounts
<1>2. TypeOK
  BY <1>1, CoordinatorsAssumption DEF Init, TypeOK
<1>3. \A kind, c : InWire(kind, c) = {}
  BY DEF Init, InWire
<1>4. WireInv
  BY <1>3, FS_EmptySet DEF WireInv
<1> QED
  BY <1>2, <1>4 DEF CInv

(* Every step keeps the invariant.                                         *)
LEMMA StepC == CInv /\ [Next]_vars => CInv'
  BY StepKeepsTypes, StepKeepsWire DEF CInv, TypeOK

-----------------------------------------------------------------------------
(* Each fee is owed once.                                                  *)

(* Nothing is owed after deployment.                                       *)
LEMMA InitOwed == Init => OwedIsOnTheWay
<1> SUFFICES ASSUME Init PROVE OwedIsOnTheWay
  OBVIOUS
<1>1. \A c \in Sidechains : InWire("FEES", c) = {}
  BY DEF Init, InWire
<1>2. AmountIn({}) = 0
  BY SumEmpty DEF AmountIn
<1>3. \A c \in Sidechains : AmountIn(InWire("FEES", c)) = 0
  BY <1>1, <1>2, Zenon
<1> QED
  BY <1>3 DEF Init, OwedIsOnTheWay, FeeOwed

(* What is in the notices on the way, with names for what the sums are of. *)
NoticesOf == [c \in Sidechains |-> AmountIn(InWire("FEES", c))]

(* Where the notices stay, so does what they add up to.                    *)
LEMMA NoticesStay ==
  ASSUME \A c \in Sidechains : InWire("FEES", c)' = InWire("FEES", c)
  PROVE  NoticesOf' = NoticesOf
  BY Zenon DEF NoticesOf, AmountIn

(* Every step keeps the fees owed once.                                    *)
LEMMA StepKeepsOwed == CInv /\ OwedIsOnTheWay /\ [Next]_vars => OwedIsOnTheWay'
<1> SUFFICES ASSUME CInv, OwedIsOnTheWay, [Next]_vars PROVE OwedIsOnTheWay'
  OBVIOUS
<1> USE CoordinatorsAssumption
<1>0. /\ CountsOK /\ WireInv
      /\ feeDebtOf \in [Sidechains -> Nat] /\ settledFeeDebtOf \in [Sidechains -> Nat]
      /\ pendingNotifyFees \in [Sidechains -> Nat] /\ balOnTheWay \in [Sidechains -> Nat]
      /\ receiverBal \in [Sidechains -> Nat] /\ NoticesOf \in [Sidechains -> Nat]
      /\ \A c \in Sidechains :
           feeDebtOf[c] - settledFeeDebtOf[c] + NoticesOf[c] + pendingNotifyFees[c]
             = balOnTheWay[c] + receiverBal[c]
  <2>1. CountsOK /\ WireInv
    BY DEF CInv, TypeOK
  <2>2. \A c \in Sidechains : AmountIn(InWire("FEES", c)) \in Nat
    BY <2>1, InWireIsTyped DEF Kinds
  <2> QED
    BY <2>1, <2>2 DEF CInv, TypeOK, CountsOK, NoticesOf, OwedIsOnTheWay, FeeOwed
<1>00. (\A c \in Sidechains :
           feeDebtOf'[c] - settledFeeDebtOf'[c] + NoticesOf'[c] + pendingNotifyFees'[c]
             = balOnTheWay'[c] + receiverBal'[c]) => OwedIsOnTheWay'
  BY DEF NoticesOf, OwedIsOnTheWay, FeeOwed
<1>1. ASSUME NoticesOf' = NoticesOf,
             UNCHANGED <<feeDebtOf, settledFeeDebtOf, pendingNotifyFees, bridgeVars>>
      PROVE  OwedIsOnTheWay'
  BY <1>0, <1>00, <1>1 DEF bridgeVars
<1>2. wire' = wire => NoticesOf' = NoticesOf
  BY WireStays, NoticesStay
<1>3. ASSUME NEW d \in Sidechains, NEW fees \in Amounts, NEW rewards \in Amounts,
             QueueNewRewards(d, fees, rewards)
      PROVE  OwedIsOnTheWay'
  <2>1. NoticesOf' = NoticesOf
    BY <1>2, <1>3 DEF QueueNewRewards, wireVars
  <2>2. /\ pendingNotifyFees' = [pendingNotifyFees EXCEPT ![d] = @ + fees]
        /\ balOnTheWay' = [balOnTheWay EXCEPT ![d] = @ + fees] /\ fees \in Nat
        /\ UNCHANGED <<feeDebtOf, settledFeeDebtOf, receiverBal>>
    BY <1>3 DEF QueueNewRewards, debtVars
  <2> SUFFICES ASSUME NEW c \in Sidechains
               PROVE  feeDebtOf'[c] - settledFeeDebtOf'[c] + NoticesOf'[c] + pendingNotifyFees'[c]
                        = balOnTheWay'[c] + receiverBal'[c]
    BY <1>00
  <2>3. /\ feeDebtOf[c] \in Nat /\ settledFeeDebtOf[c] \in Nat /\ NoticesOf[c] \in Nat
        /\ pendingNotifyFees[c] \in Nat /\ balOnTheWay[c] \in Nat /\ receiverBal[c] \in Nat
        /\ feeDebtOf[c] - settledFeeDebtOf[c] + NoticesOf[c] + pendingNotifyFees[c]
              = balOnTheWay[c] + receiverBal[c]
    BY <1>0
  <2>4. CASE c = d
    <3>1. pendingNotifyFees'[c] = pendingNotifyFees[c] + fees /\ balOnTheWay'[c] = balOnTheWay[c] + fees
      BY <1>0, <2>2, <2>4
    <3> QED
      BY <2>1, <2>2, <2>3, <3>1
  <2>5. CASE c # d
    <3>1. pendingNotifyFees'[c] = pendingNotifyFees[c] /\ balOnTheWay'[c] = balOnTheWay[c]
      BY <1>0, <2>2, <2>5
    <3> QED
      BY <2>1, <2>2, <2>3, <3>1
  <2> QED
    BY <2>4, <2>5
<1>4. ASSUME NEW d \in Sidechains, NotifyFees(d)
      PROVE  OwedIsOnTheWay'
  <2>1. /\ Notice(d) \notin InWire("FEES", d) /\ InWire("FEES", d)' = InWire("FEES", d) \cup {Notice(d)}
        /\ \A c \in Sidechains : c # d => InWire("FEES", c)' = InWire("FEES", c)
    BY <1>0, <1>4, NoticeInWire DEF Kinds
  <2>2. Notice(d).amount = pendingNotifyFees[d] /\ pendingNotifyFees[d] \in Nat
    BY <1>0 DEF Notice
  <2>3. /\ IsFiniteSet(InWire("FEES", d)) /\ \A m \in InWire("FEES", d) : m.amount \in Nat
    BY <1>0, InWireIsTyped DEF Kinds
  <2>4. AmountIn(InWire("FEES", d) \cup {Notice(d)}) = AmountIn(InWire("FEES", d)) + pendingNotifyFees[d]
    BY <2>1, <2>2, <2>3, AmountsAdded
  <2>5. NoticesOf'[d] = NoticesOf[d] + pendingNotifyFees[d]
    <3>1. NoticesOf'[d] = AmountIn(InWire("FEES", d)')
      BY DEF NoticesOf, AmountIn
    <3>2. NoticesOf[d] = AmountIn(InWire("FEES", d))
      BY DEF NoticesOf
    <3> QED
      BY <2>1, <2>4, <3>1, <3>2, Zenon
  <2>6. \A c \in Sidechains : c # d => NoticesOf'[c] = NoticesOf[c]
    <3> SUFFICES ASSUME NEW c \in Sidechains, c # d PROVE NoticesOf'[c] = NoticesOf[c]
      OBVIOUS
    <3>1. NoticesOf'[c] = AmountIn(InWire("FEES", c)') /\ NoticesOf[c] = AmountIn(InWire("FEES", c))
      BY DEF NoticesOf, AmountIn
    <3> QED
      BY <2>1, <3>1, Zenon
  <2>7. /\ pendingNotifyFees' = [pendingNotifyFees EXCEPT ![d] = 0]
        /\ UNCHANGED <<feeDebtOf, settledFeeDebtOf, balOnTheWay, receiverBal>>
    BY <1>4 DEF NotifyFees, debtVars, bridgeVars
  <2> QED
    BY <1>0, <1>00, <2>5, <2>6, <2>7
<1>5. ASSUME NEW d \in Sidechains, NEW bal \in Amounts, BridgeBal(d, bal)
      PROVE  OwedIsOnTheWay'
  <2>1. NoticesOf' = NoticesOf
    BY <1>2, <1>5 DEF BridgeBal, wireVars
  <2>2. /\ balOnTheWay' = [balOnTheWay EXCEPT ![d] = @ - bal]
        /\ receiverBal' = [receiverBal EXCEPT ![d] = @ + bal] /\ bal \in Nat
        /\ UNCHANGED <<feeDebtOf, settledFeeDebtOf, pendingNotifyFees>>
    BY <1>5 DEF BridgeBal, l2Vars, debtVars
  <2> QED
    BY <1>0, <1>00, <2>1, <2>2
<1>6. ASSUME NEW d \in Sidechains, NEW bal \in Amounts, SettleFeeDebt(d, bal)
      PROVE  OwedIsOnTheWay'
  <2>1. NoticesOf' = NoticesOf
    BY <1>2, <1>6 DEF SettleFeeDebt, wireVars
  <2>2. /\ settledFeeDebtOf' = [settledFeeDebtOf EXCEPT ![d] = @ + bal]
        /\ receiverBal' = [receiverBal EXCEPT ![d] = @ - bal] /\ bal \in Nat
        /\ UNCHANGED <<feeDebtOf, balOnTheWay, pendingNotifyFees>>
    BY <1>6 DEF SettleFeeDebt, l2Vars
  <2> SUFFICES ASSUME NEW c \in Sidechains
               PROVE  feeDebtOf'[c] - settledFeeDebtOf'[c] + NoticesOf'[c] + pendingNotifyFees'[c]
                        = balOnTheWay'[c] + receiverBal'[c]
    BY <1>00
  <2>3. /\ feeDebtOf[c] \in Nat /\ settledFeeDebtOf[c] \in Nat /\ NoticesOf[c] \in Nat
        /\ pendingNotifyFees[c] \in Nat /\ balOnTheWay[c] \in Nat /\ receiverBal[c] \in Nat
        /\ feeDebtOf[c] - settledFeeDebtOf[c] + NoticesOf[c] + pendingNotifyFees[c]
              = balOnTheWay[c] + receiverBal[c]
    BY <1>0
  <2>4. CASE c = d
    <3>1. settledFeeDebtOf'[c] = settledFeeDebtOf[c] + bal /\ receiverBal'[c] = receiverBal[c] - bal
      BY <1>0, <2>2, <2>4
    <3> QED
      BY <2>1, <2>2, <2>3, <3>1
  <2>5. CASE c # d
    <3>1. settledFeeDebtOf'[c] = settledFeeDebtOf[c] /\ receiverBal'[c] = receiverBal[c]
      BY <1>0, <2>2, <2>5
    <3> QED
      BY <2>1, <2>2, <2>3, <3>1
  <2> QED
    BY <2>4, <2>5
<1>7. ASSUME NEW S \in SUBSET Sidechains, NEW rate \in MintRates, NEW held, DistributeTo(S, rate, held)
      PROVE  OwedIsOnTheWay'
  <2>1. NoticesOf' = NoticesOf
    BY <1>0, <1>7, DistributionInWire, NoticesStay
  <2> QED
    BY <1>1, <1>7, <2>1 DEF DistributeTo, l2Vars
<1>8. ASSUME NEW m \in wire, Receive(m)
      PROVE  OwedIsOnTheWay'
  <2>1. \A kind, c : InWire(kind, c)' = InWire(kind, c) \ {m}
    BY <1>8, ReceiptInWire
  <2>2. m.chain \in Sidechains /\ m.amount \in Nat
    BY <1>0 DEF CountsOK, Messages
  <2>3. CASE m.kind # "FEES"
    <3>1. \A c \in Sidechains : InWire("FEES", c)' = InWire("FEES", c)
      <4>1. \A c : m \notin InWire("FEES", c)
        BY <2>3 DEF InWire
      <4> QED
        BY <2>1, <4>1
    <3>2. NoticesOf' = NoticesOf
      BY <3>1, NoticesStay
    <3> QED
      BY <1>1, <1>8, <2>3, <3>2 DEF Receive, ReceiveFees, ReceiveFeesCallback, ReceiveAura, debtVars
  <2>4. CASE m.kind = "FEES"
    <3> DEFINE d == m.chain
    <3>1. m \in InWire("FEES", d) /\ \A c \in Sidechains : c # d => InWire("FEES", c)' = InWire("FEES", c)
      BY <2>1, <2>4 DEF InWire
    <3>2. /\ IsFiniteSet(InWire("FEES", d)) /\ \A x \in InWire("FEES", d) : x.amount \in Nat
      BY <1>0, <2>2, InWireIsTyped DEF Kinds
    <3>3. AmountIn(InWire("FEES", d)) = AmountIn(InWire("FEES", d) \ {m}) + m.amount
      BY <3>1, <3>2, AmountsRemoved
    <3>4. NoticesOf[d] = NoticesOf'[d] + m.amount /\ NoticesOf'[d] \in Nat
      <4>1. NoticesOf'[d] = AmountIn(InWire("FEES", d)') /\ NoticesOf[d] = AmountIn(InWire("FEES", d))
        BY <2>2 DEF NoticesOf, AmountIn
      <4>2. NoticesOf'[d] = AmountIn(InWire("FEES", d) \ {m})
        BY <2>1, <4>1, Zenon
      <4>3. AmountIn(InWire("FEES", d) \ {m}) \in Nat
        BY <3>2, FS_RemoveElement, AmountsAreNat
      <4> QED
        BY <3>3, <4>1, <4>2, <4>3
    <3>5. \A c \in Sidechains : c # d => NoticesOf'[c] = NoticesOf[c]
      <4> SUFFICES ASSUME NEW c \in Sidechains, c # d PROVE NoticesOf'[c] = NoticesOf[c]
        OBVIOUS
      <4>1. NoticesOf'[c] = AmountIn(InWire("FEES", c)') /\ NoticesOf[c] = AmountIn(InWire("FEES", c))
        BY DEF NoticesOf, AmountIn
      <4> QED
        BY <3>1, <4>1, Zenon
    <3>6. /\ feeDebtOf' = [feeDebtOf EXCEPT ![d] = @ + m.amount]
          /\ UNCHANGED <<settledFeeDebtOf, pendingNotifyFees, balOnTheWay, receiverBal>>
      BY <1>8, <2>4 DEF Receive, ReceiveFees, ReceiveFeesCallback, ReceiveAura, l2Vars, bridgeVars
    <3> HIDE DEF d
    <3>7. d \in Sidechains
      BY <2>2 DEF d
    <3> QED
      BY <1>0, <1>00, <2>2, <3>4, <3>5, <3>6, <3>7
  <2> QED
    BY <2>3, <2>4
<1>9. ASSUME NEW c \in Sidechains, NEW bal \in Amounts, Mint(c, bal)
      PROVE  OwedIsOnTheWay'
  BY <1>1, <1>2, <1>9 DEF Mint, debtVars, wireVars
<1>10. ASSUME NEW x, WithdrawFloat(x) \/ SetRewardMultiplier(x)
       PROVE  OwedIsOnTheWay'
  BY <1>1, <1>2, <1>10 DEF WithdrawFloat, SetRewardMultiplier, l2Vars, debtVars, wireVars
<1>11. CASE UNCHANGED vars
  BY <1>1, <1>2, <1>11 DEF vars, l2Vars, debtVars, wireVars
<1> QED
  BY <1>3, <1>4, <1>5, <1>6, <1>7, <1>8, <1>9, <1>10, <1>11
     DEF Next, SidechainStep, DistributeAura, DistributeToAll

(* Whatever order the notices and the BAL arrive in, each fee becomes debt *)
(* once, and the BAL that is still on its way is what is still owed.       *)
THEOREM EachFeeIsOwedOnce == Spec => []OwedIsOnTheWay
<1>1. Init => CInv /\ OwedIsOnTheWay
  BY InitC, InitOwed
<1>2. CInv /\ OwedIsOnTheWay /\ [Next]_vars => CInv' /\ OwedIsOnTheWay'
  BY StepC, StepKeepsOwed
<1> QED
  BY <1>1, <1>2, PTL DEF Spec

-----------------------------------------------------------------------------
(* The float.                                                              *)

(* The sum over all chains is a number.                                    *)
LEMMA TotalIsNat ==
  ASSUME NEW f \in [Sidechains -> Nat]
  PROVE  Total(f) \in Nat
<1>1. IsFiniteSet(Sidechains) /\ \A c \in Sidechains : f[c] \in Nat
  BY CoordinatorsAssumption
<1>2. SumFunctionOnSet(f, Sidechains) \in Nat
  BY <1>1, SumIsNat
<1> QED
  BY <1>2 DEF Total

(* What some chains are distributed to is added to the total.              *)
LEMMA DebtsAreAdded ==
  ASSUME CountsOK, NEW S \in SUBSET Sidechains, NEW now_ \in [Sidechains -> Nat],
         \A c \in Sidechains : now_[c] = IF c \in S THEN feeDebtOf[c] ELSE distributedFeeDebtOf[c]
  PROVE  Total(now_) = Total(distributedFeeDebtOf) + SumFunctionOnSet([c \in S |-> Debt(c)], S)
<1> DEFINE T == Sidechains \ S
           debts == [c \in S |-> Debt(c)]
           more == [c \in Sidechains |-> IF c \in S THEN Debt(c) ELSE 0]
           before == distributedFeeDebtOf
<1>1. IsFiniteSet(Sidechains) /\ IsFiniteSet(S) /\ IsFiniteSet(T)
  BY CoordinatorsAssumption, FS_Subset
<1>2. \A c \in Sidechains : /\ before[c] \in Int /\ more[c] \in Int
                            /\ now_[c] = before[c] + more[c]
  BY DEF CountsOK, Debt
<1>3. \A c \in S : debts[c] \in Int /\ debts[c] = more[c]
  BY DEF CountsOK, Debt
<1>4. \A c \in T : more[c] = 0
  OBVIOUS
<1>5. S \cup T = Sidechains /\ S \cap T = {}
  OBVIOUS
<1> HIDE DEF debts, more, before, T
<1>6. SumFunctionOnSet(now_, Sidechains)
        = SumFunctionOnSet(before, Sidechains) + SumFunctionOnSet(more, Sidechains)
  BY <1>1, <1>2, SumOfSums
<1>7. SumFunctionOnSet(more, S \cup T) = SumFunctionOnSet(more, S) + SumFunctionOnSet(more, T)
  <2>1. \A c \in S \cup T : more[c] \in Int
    BY <1>2, <1>5
  <2> QED
    BY <1>1, <1>5, <2>1, SumOfUnion
<1>8. SumFunctionOnSet(more, T) = 0
  BY <1>1, <1>4, SumOfZeros
<1>9. SumFunctionOnSet(debts, S) = SumFunctionOnSet(more, S)
  BY <1>1, <1>3, SumOfSame
<1>10. SumFunctionOnSet(more, S \cup T) = SumFunctionOnSet(more, Sidechains)
  BY <1>5, Zenon
<1>11. SumFunctionOnSet(more, S) \in Int
  BY <1>1, <1>2, SumIsInt
<1> QED
  BY <1>6, <1>7, <1>8, <1>9, <1>10, <1>11 DEF Total, debts, before

(* There is no float after deployment.                                     *)
LEMMA InitFloat == Init => FloatIsAccounted
<1> SUFFICES ASSUME Init PROVE FloatIsAccounted
  OBVIOUS
<1> DEFINE zero == [c \in Sidechains |-> 0]
<1>1. IsFiniteSet(Sidechains) /\ \A c \in Sidechains : zero[c] = 0
  BY CoordinatorsAssumption
<1>2. distributedFeeDebtOf = zero /\ settledFeeDebtOf = zero
  BY DEF Init
<1> HIDE DEF zero
<1>3. Total(zero) = 0
  BY <1>1, SumOfZeros DEF Total
<1>4. Total(distributedFeeDebtOf) = 0 /\ Total(settledFeeDebtOf) = 0
  BY <1>2, <1>3, Zenon
<1> QED
  BY <1>4, CoordinatorsAssumption DEF Init, FloatIsAccounted

(* The totals, without an argument.                                        *)
Distributed == Total(distributedFeeDebtOf)
SettledTotal == Total(settledFeeDebtOf)

(* Distributing to some chains from what is held.                          *)
LEMMA DistributionIsAccounted ==
  ASSUME CInv, NEW S \in SUBSET Sidechains, NEW rate \in MintRates, NEW held \in Nat,
         DistributeTo(S, rate, held)
  PROVE  balFloat' + Distributed' = held + Distributed
<1> DEFINE total == SumFunctionOnSet([c \in S |-> Debt(c)], S)
<1>0. CountsOK /\ CountsOK'
  BY DistributionKeepsCounts DEF CInv, TypeOK
<1>1. total \in Nat
  BY <1>0, DebtsAreNat
<1>2. balFloat' = held - total
  BY DEF DistributeTo
<1>3. /\ distributedFeeDebtOf' \in [Sidechains -> Nat]
      /\ \A c \in Sidechains : distributedFeeDebtOf'[c] = IF c \in S THEN feeDebtOf[c] ELSE distributedFeeDebtOf[c]
  BY <1>0 DEF DistributeTo, CountsOK
<1>4. Total(distributedFeeDebtOf') = Total(distributedFeeDebtOf) + total
  BY <1>0, <1>3, DebtsAreAdded
<1>5. Total(distributedFeeDebtOf) \in Nat
  BY <1>0, TotalIsNat DEF CountsOK
<1>6. Distributed' = Total(distributedFeeDebtOf') /\ Distributed = Total(distributedFeeDebtOf)
  BY DEF Distributed, Total
<1> HIDE DEF total
<1> QED
  BY <1>1, <1>2, <1>4, <1>5, <1>6

(* Every step keeps the float accounted for.                               *)
LEMMA StepKeepsFloat == CInv /\ FloatIsAccounted /\ [Next]_vars => FloatIsAccounted'
<1> SUFFICES ASSUME CInv, FloatIsAccounted, [Next]_vars PROVE FloatIsAccounted'
  OBVIOUS
<1>0. /\ balFloat \in Nat /\ distributorBal \in Nat /\ treasuryBal \in Nat /\ InitialFloat \in Nat
      /\ Distributed \in Nat /\ SettledTotal \in Nat
      /\ balFloat + distributorBal + treasuryBal + Distributed = InitialFloat + SettledTotal
  BY TotalIsNat, CoordinatorsAssumption DEF CInv, TypeOK, CountsOK, FloatIsAccounted, Distributed, SettledTotal
<1>00. balFloat' + distributorBal' + treasuryBal' + Distributed' = InitialFloat + SettledTotal'
         => FloatIsAccounted'
  BY DEF FloatIsAccounted, Distributed, SettledTotal, Total
<1>1. /\ UNCHANGED distributedFeeDebtOf => Distributed' = Distributed
      /\ UNCHANGED settledFeeDebtOf => SettledTotal' = SettledTotal
  BY Zenon DEF Distributed, SettledTotal, Total
<1>2. ASSUME UNCHANGED <<floatVars, distributedFeeDebtOf, settledFeeDebtOf>>
      PROVE  FloatIsAccounted'
  BY <1>0, <1>00, <1>1, <1>2 DEF floatVars
<1>3. ASSUME NEW d \in Sidechains, NEW bal \in Amounts, SettleFeeDebt(d, bal)
      PROVE  FloatIsAccounted'
  <2> DEFINE before == settledFeeDebtOf
             after == [settledFeeDebtOf EXCEPT ![d] = @ + bal]
  <2>1. /\ settledFeeDebtOf' = after /\ balFloat' = balFloat + bal /\ bal \in Nat
        /\ UNCHANGED <<distributorBal, treasuryBal, distributedFeeDebtOf>>
    BY <1>3, CoordinatorsAssumption DEF SettleFeeDebt
  <2>2. /\ IsFiniteSet(Sidechains)
        /\ \A c \in Sidechains : before[c] \in Int /\ after[c] \in Int /\ (c # d => before[c] = after[c])
        /\ after[d] = before[d] + bal /\ before[d] \in Nat
    BY <2>1, CoordinatorsAssumption DEF CInv, TypeOK, CountsOK
  <2>3. SettledTotal = SumFunctionOnSet(before, Sidechains)
    BY DEF SettledTotal, Total
  <2>4. SettledTotal' = SumFunctionOnSet(after, Sidechains)
    BY <2>1, Zenon DEF SettledTotal, Total
  <2> HIDE DEF before, after
  <2>5. SumFunctionOnSet(after, Sidechains) = SumFunctionOnSet(before, Sidechains) + (after[d] - before[d])
    BY <2>2, SumOfChanged
  <2>6. SettledTotal' = SettledTotal + bal
    BY <1>0, <2>1, <2>2, <2>3, <2>4, <2>5
  <2> QED
    BY <1>0, <1>00, <1>1, <2>1, <2>6
<1>4. ASSUME NEW c \in Sidechains, NEW rate \in MintRates, DistributeAura(c, rate)
      PROVE  FloatIsAccounted'
  <2>1. DistributeTo({c}, rate, balFloat) /\ distributorBal' = distributorBal
    BY <1>4 DEF DistributeAura
  <2>2. balFloat' + Distributed' = balFloat + Distributed
    BY <1>0, <2>1, DistributionIsAccounted
  <2>3. UNCHANGED <<treasuryBal, settledFeeDebtOf>> /\ balFloat' \in Nat /\ Distributed' \in Nat
    <3>1. TypeOK'
      BY StepC DEF CInv
    <3>2. Distributed' \in Nat
      BY <3>1, TotalIsNat DEF TypeOK, CountsOK, Distributed, Total
    <3> QED
      BY <2>1, <3>1, <3>2 DEF DistributeTo, TypeOK
  <2>4. SettledTotal' = SettledTotal /\ treasuryBal' = treasuryBal
    BY <1>1, <2>3
  <2>5. balFloat' + distributorBal + treasuryBal + Distributed' = InitialFloat + SettledTotal
    <3> DEFINE b == balFloat
               b2 == balFloat'
               d == distributorBal
               t == treasuryBal
               x == Distributed
               x2 == Distributed'
               i == InitialFloat
               y == SettledTotal
    <3>1. /\ b \in Nat /\ b2 \in Nat /\ d \in Nat /\ t \in Nat /\ x \in Nat /\ x2 \in Nat
          /\ i \in Nat /\ y \in Nat
      BY <1>0, <2>3
    <3>2. b + d + t + x = i + y
      BY <1>0
    <3>3. b2 + x2 = b + x
      BY <2>2
    <3> HIDE DEF b, b2, d, t, x, x2, i, y
    <3>4. b2 + d + t + x2 = i + y
      BY <3>1, <3>2, <3>3
    <3> QED
      BY <3>4 DEF b, b2, d, t, x, x2, i, y
  <2> QED
    BY <1>00, <2>1, <2>4, <2>5
<1>5. ASSUME NEW S \in SUBSET Sidechains, NEW rate \in MintRates, DistributeToAll(S, rate)
      PROVE  FloatIsAccounted'
  <2> DEFINE short == Shortfall(S)
  <2>1. /\ DistributeTo(S, rate, balFloat + short) /\ distributorBal' = distributorBal - short
        /\ short <= distributorBal
    BY <1>5 DEF DistributeToAll
  <2>2. short \in Nat
    BY ShortfallIsNat DEF CInv
  <2> HIDE DEF short
  <2>3. balFloat' + Distributed' = balFloat + short + Distributed
    BY <1>0, <2>1, <2>2, DistributionIsAccounted
  <2>4. UNCHANGED <<treasuryBal, settledFeeDebtOf>> /\ balFloat' \in Nat /\ Distributed' \in Nat
    <3>1. TypeOK'
      BY StepC DEF CInv
    <3>2. Distributed' \in Nat
      BY <3>1, TotalIsNat DEF TypeOK, CountsOK, Distributed, Total
    <3> QED
      BY <2>1, <3>1, <3>2 DEF DistributeTo, TypeOK
  <2>5. SettledTotal' = SettledTotal /\ treasuryBal' = treasuryBal
    BY <1>1, <2>4
  <2>6. balFloat' + (distributorBal - short) + treasuryBal + Distributed' = InitialFloat + SettledTotal
    <3> DEFINE b == balFloat
               b2 == balFloat'
               d == distributorBal
               t == treasuryBal
               x == Distributed
               x2 == Distributed'
               i == InitialFloat
               y == SettledTotal
    <3>1. /\ b \in Nat /\ b2 \in Nat /\ d \in Nat /\ t \in Nat /\ x \in Nat /\ x2 \in Nat
          /\ i \in Nat /\ y \in Nat
      BY <1>0, <2>4
    <3>2. b + d + t + x = i + y
      BY <1>0
    <3>3. b2 + x2 = b + short + x
      BY <2>3
    <3> HIDE DEF b, b2, d, t, x, x2, i, y
    <3>4. b2 + (d - short) + t + x2 = i + y
      BY <2>2, <3>1, <3>2, <3>3
    <3> QED
      BY <3>4 DEF b, b2, d, t, x, x2, i, y
  <2>7. distributorBal' = distributorBal - short
    BY <2>1
  <2> QED
    BY <1>00, <2>5, <2>6, <2>7
<1>6. ASSUME NEW amount \in Amounts, WithdrawFloat(amount)
      PROVE  FloatIsAccounted'
  <2>1. /\ amount \in Nat /\ distributorBal' = distributorBal - amount
        /\ treasuryBal' = treasuryBal + amount
        /\ UNCHANGED <<balFloat, distributedFeeDebtOf, settledFeeDebtOf>>
    BY <1>6, CoordinatorsAssumption DEF WithdrawFloat, debtVars
  <2> QED
    BY <1>0, <1>00, <1>1, <2>1
<1>7. ASSUME NEW c \in Sidechains, NEW fees \in Amounts, NEW rewards \in Amounts,
             QueueNewRewards(c, fees, rewards)
      PROVE  FloatIsAccounted'
  BY <1>2, <1>7 DEF QueueNewRewards, debtVars
<1>8. ASSUME NEW c \in Sidechains, NEW bal \in Amounts, Mint(c, bal) \/ BridgeBal(c, bal)
      PROVE  FloatIsAccounted'
  BY <1>2, <1>8 DEF Mint, BridgeBal, debtVars
<1>9. ASSUME NEW c \in Sidechains, NotifyFees(c)
      PROVE  FloatIsAccounted'
  BY <1>2, <1>9 DEF NotifyFees, debtVars
<1>10. ASSUME NEW m \in wire, Receive(m)
       PROVE  FloatIsAccounted'
  BY <1>2, <1>10 DEF Receive, ReceiveFees, ReceiveFeesCallback, ReceiveAura, debtVars
<1>11. ASSUME NEW x, SetRewardMultiplier(x)
       PROVE  FloatIsAccounted'
  BY <1>2, <1>11 DEF SetRewardMultiplier, debtVars
<1>12. CASE UNCHANGED vars
  BY <1>2, <1>12 DEF vars, debtVars
<1> QED
  BY <1>3, <1>4, <1>5, <1>6, <1>7, <1>8, <1>9, <1>10, <1>11, <1>12 DEF Next, SidechainStep

(* No debt is distributed twice out of the float, in calls for one chain   *)
(* or several, topped up or not, before the debts are settled or after.    *)
THEOREM FloatStaysAccounted == Spec => []FloatIsAccounted
<1>1. Init => CInv /\ FloatIsAccounted
  BY InitC, InitFloat
<1>2. CInv /\ FloatIsAccounted /\ [Next]_vars => CInv' /\ FloatIsAccounted'
  BY StepC, StepKeepsFloat
<1> QED
  BY <1>1, <1>2, PTL DEF Spec

-----------------------------------------------------------------------------
(* The AURA that is counted is there.                                      *)

(* What is in the callbacks and in the transfers on the way.               *)
CallbacksOf == [c \in Sidechains |-> AmountIn(InWire("FEES_CALLBACK", c))]
TransfersOf == [c \in Sidechains |-> AmountIn(InWire("AURA", c))]

(* There are no rewards after deployment.                                  *)
LEMMA InitRewards == Init => RewardsBacked
<1> SUFFICES ASSUME Init PROVE RewardsBacked
  OBVIOUS
<1>1. \A kind, c : InWire(kind, c) = {}
  BY DEF Init, InWire
<1>2. AmountIn({}) = 0
  BY SumEmpty DEF AmountIn
<1>3. \A kind, c : AmountIn(InWire(kind, c)) = 0
  BY <1>1, <1>2, Zenon
<1> QED
  BY <1>3 DEF Init, RewardsBacked

(* How the amounts in the wire change for a chain, and for one kind.       *)
LEMMA AmountStays ==
  ASSUME NEW kind, NEW c, InWire(kind, c)' = InWire(kind, c)
  PROVE  AmountIn(InWire(kind, c))' = AmountIn(InWire(kind, c))
<1>1. AmountIn(InWire(kind, c))' = AmountIn(InWire(kind, c)')
  BY DEF AmountIn
<1> QED
  BY <1>1, Zenon

(* The amount on the wire grows by that of a new message.                  *)
LEMMA AmountGrows ==
  ASSUME CountsOK, WireInv, NEW kind \in Kinds, NEW c \in Sidechains, NEW x, x.amount \in Nat,
         x \notin InWire(kind, c), InWire(kind, c)' = InWire(kind, c) \cup {x}
  PROVE  AmountIn(InWire(kind, c))' = AmountIn(InWire(kind, c)) + x.amount
<1>1. /\ IsFiniteSet(InWire(kind, c)) /\ \A m \in InWire(kind, c) : m.amount \in Nat
  BY InWireIsTyped
<1>2. AmountIn(InWire(kind, c) \cup {x}) = AmountIn(InWire(kind, c)) + x.amount
  BY <1>1, AmountsAdded
<1>3. AmountIn(InWire(kind, c))' = AmountIn(InWire(kind, c)')
  BY DEF AmountIn
<1>4. AmountIn(InWire(kind, c))' = AmountIn(InWire(kind, c) \cup {x})
  BY <1>3, Zenon
<1> QED
  BY <1>2, <1>4

(* The amount on the wire shrinks by that of a message received.           *)
LEMMA AmountShrinks ==
  ASSUME CountsOK, WireInv, NEW kind \in Kinds, NEW c \in Sidechains, NEW x \in InWire(kind, c),
         InWire(kind, c)' = InWire(kind, c) \ {x}
  PROVE  /\ AmountIn(InWire(kind, c)) = AmountIn(InWire(kind, c))' + x.amount
         /\ AmountIn(InWire(kind, c))' \in Nat
<1>1. /\ IsFiniteSet(InWire(kind, c)) /\ \A m \in InWire(kind, c) : m.amount \in Nat
  BY InWireIsTyped
<1>2. AmountIn(InWire(kind, c)) = AmountIn(InWire(kind, c) \ {x}) + x.amount
  BY <1>1, AmountsRemoved
<1>3. AmountIn(InWire(kind, c))' = AmountIn(InWire(kind, c)')
  BY DEF AmountIn
<1>4. AmountIn(InWire(kind, c))' = AmountIn(InWire(kind, c) \ {x})
  BY <1>3, Zenon
<1>5. AmountIn(InWire(kind, c) \ {x}) \in Nat
  BY <1>1, FS_RemoveElement, AmountsAreNat
<1> QED
  BY <1>2, <1>4, <1>5

(* Every step keeps the AURA that was counted on its way or there.         *)
LEMMA StepKeepsRewards == CInv /\ RewardsBacked /\ [Next]_vars => RewardsBacked'
<1> SUFFICES ASSUME CInv, RewardsBacked, [Next]_vars, NEW c \in Sidechains
             PROVE  accAuraRewards'[c] + CallbacksOf'[c] = auraBalance'[c] + TransfersOf'[c]
  BY DEF RewardsBacked, CallbacksOf, TransfersOf, AmountIn
<1> DEFINE callbacks == AmountIn(InWire("FEES_CALLBACK", c))
           transfers == AmountIn(InWire("AURA", c))
           Goal == accAuraRewards'[c] + callbacks' = auraBalance'[c] + transfers'
<1> SUFFICES Goal
  BY DEF CallbacksOf, TransfersOf, AmountIn
<1>0. /\ CountsOK /\ WireInv
      /\ accAuraRewards \in [Sidechains -> Nat] /\ auraBalance \in [Sidechains -> Nat]
      /\ accAuraRewards[c] \in Nat /\ auraBalance[c] \in Nat
      /\ callbacks \in Nat /\ transfers \in Nat
      /\ accAuraRewards[c] + callbacks = auraBalance[c] + transfers
  BY InWireIsTyped DEF CInv, TypeOK, CountsOK, RewardsBacked, Kinds
<1>1. /\ InWire("FEES_CALLBACK", c)' = InWire("FEES_CALLBACK", c) => callbacks' = callbacks
      /\ InWire("AURA", c)' = InWire("AURA", c) => transfers' = transfers
  BY AmountStays
<1>2. wire' = wire => callbacks' = callbacks /\ transfers' = transfers
  BY <1>1, WireStays
<1> HIDE DEF callbacks, transfers
<1>3. ASSUME UNCHANGED <<accAuraRewards, auraBalance>>, callbacks' = callbacks, transfers' = transfers
      PROVE  Goal
  BY <1>0, <1>3
<1>4. ASSUME NEW d \in Sidechains, NEW bal \in Amounts, Mint(d, bal)
      PROVE  Goal
  <2>1. callbacks' = callbacks /\ transfers' = transfers
    BY <1>2, <1>4 DEF Mint, wireVars
  <2> DEFINE amount == MintAmount(d, bal)
  <2>2. amount \in Nat
    <3>1. accBalRewards[d] # 0
      BY <1>4 DEF Mint, mintRate
    <3> QED
      BY <1>0, <3>1, CoordinatorsAssumption, MintAmountIsFair
  <2>3. /\ accAuraRewards' = [accAuraRewards EXCEPT ![d] = @ - amount]
        /\ auraBalance' = [auraBalance EXCEPT ![d] = @ - amount]
    BY <1>4 DEF Mint
  <2> HIDE DEF amount
  <2> QED
    BY <1>0, <2>1, <2>2, <2>3
<1>5. ASSUME NEW S \in SUBSET Sidechains, NEW rate \in MintRates, NEW held, DistributeTo(S, rate, held)
      PROVE  Goal
  <2>1. \A kind \in {"FEES_CALLBACK", "AURA"} :
          /\ c \in S => /\ Sent(kind, c, rate) \notin InWire(kind, c)
                        /\ InWire(kind, c)' = InWire(kind, c) \cup {Sent(kind, c, rate)}
          /\ c \notin S => InWire(kind, c)' = InWire(kind, c)
    BY <1>0, <1>5, DistributionInWire
  <2>2. UNCHANGED <<accAuraRewards, auraBalance>>
    BY <1>5 DEF DistributeTo, l2Vars
  <2>3. CASE c \notin S
    BY <1>1, <1>3, <2>1, <2>2, <2>3
  <2>4. CASE c \in S
    <3>1. AuraReward(c, rate) \in Nat
      BY <1>0, RewardIsNat
    <3>2. \A kind : Sent(kind, c, rate).amount = AuraReward(c, rate)
      BY DEF Sent
    <3>3. /\ Sent("FEES_CALLBACK", c, rate) \notin InWire("FEES_CALLBACK", c)
          /\ InWire("FEES_CALLBACK", c)' = InWire("FEES_CALLBACK", c) \cup {Sent("FEES_CALLBACK", c, rate)}
      BY <2>1, <2>4
    <3>4. /\ Sent("AURA", c, rate) \notin InWire("AURA", c)
          /\ InWire("AURA", c)' = InWire("AURA", c) \cup {Sent("AURA", c, rate)}
      BY <2>1, <2>4
    <3>5. callbacks' = callbacks + AuraReward(c, rate)
      <4>1. "FEES_CALLBACK" \in Kinds /\ Sent("FEES_CALLBACK", c, rate).amount \in Nat
        BY <3>1, <3>2 DEF Kinds
      <4> QED
        BY <1>0, <3>2, <3>3, <4>1, AmountGrows DEF callbacks
    <3>6. transfers' = transfers + AuraReward(c, rate)
      <4>1. "AURA" \in Kinds /\ Sent("AURA", c, rate).amount \in Nat
        BY <3>1, <3>2 DEF Kinds
      <4> QED
        BY <1>0, <3>2, <3>4, <4>1, AmountGrows DEF transfers
    <3> QED
      BY <1>0, <2>2, <3>1, <3>5, <3>6
  <2> QED
    BY <2>3, <2>4
<1>6. ASSUME NEW m \in wire, Receive(m)
      PROVE  Goal
  <2>1. \A kind, x : InWire(kind, x)' = InWire(kind, x) \ {m}
    BY <1>6, ReceiptInWire
  <2>2. m.chain \in Sidechains /\ m.amount \in Nat
    BY <1>0 DEF CountsOK, Messages
  <2>3. \A kind : m \in InWire(kind, c) <=> m.kind = kind /\ m.chain = c
    BY DEF InWire
  <2>4. \A kind : m \notin InWire(kind, c) => InWire(kind, c)' = InWire(kind, c)
    BY <2>1
  <2>5. CASE m.kind = "FEES"
    <3>1. callbacks' = callbacks /\ transfers' = transfers
      BY <1>1, <2>3, <2>4, <2>5
    <3> QED
      BY <1>3, <1>6, <2>5, <3>1 DEF Receive, ReceiveFees, ReceiveFeesCallback, ReceiveAura, l2Vars
  <2>6. CASE m.kind = "FEES_CALLBACK"
    <3>1. transfers' = transfers
      BY <1>1, <2>3, <2>4, <2>6
    <3>2. /\ accAuraRewards' = [accAuraRewards EXCEPT ![m.chain] = @ + m.amount]
          /\ auraBalance' = auraBalance
      BY <1>6, <2>6 DEF Receive, ReceiveFees, ReceiveFeesCallback, ReceiveAura
    <3>3. CASE m.chain # c
      <4>1. callbacks' = callbacks
        BY <1>1, <2>3, <2>4, <3>3
      <4> QED
        BY <1>0, <3>1, <3>2, <3>3, <4>1
    <3>4. CASE m.chain = c
      <4>1. m \in InWire("FEES_CALLBACK", c) /\ "FEES_CALLBACK" \in Kinds
        BY <2>3, <2>6, <3>4 DEF Kinds
      <4>2. callbacks = callbacks' + m.amount /\ callbacks' \in Nat
        BY <1>0, <2>1, <4>1, AmountShrinks DEF callbacks
      <4>3. accAuraRewards'[c] = accAuraRewards[c] + m.amount
        BY <1>0, <3>2, <3>4
      <4> QED
        BY <1>0, <2>2, <3>1, <3>2, <4>2, <4>3
    <3> QED
      BY <3>3, <3>4
  <2>7. CASE m.kind = "AURA"
    <3>1. callbacks' = callbacks
      BY <1>1, <2>3, <2>4, <2>7
    <3>2. /\ auraBalance' = [auraBalance EXCEPT ![m.chain] = @ + m.amount]
          /\ accAuraRewards' = accAuraRewards
      BY <1>6, <2>7 DEF Receive, ReceiveFees, ReceiveFeesCallback, ReceiveAura
    <3>3. CASE m.chain # c
      <4>1. transfers' = transfers
        BY <1>1, <2>3, <2>4, <3>3
      <4> QED
        BY <1>0, <3>1, <3>2, <3>3, <4>1
    <3>4. CASE m.chain = c
      <4>1. m \in InWire("AURA", c) /\ "AURA" \in Kinds
        BY <2>3, <2>7, <3>4 DEF Kinds
      <4>2. transfers = transfers' + m.amount /\ transfers' \in Nat
        BY <1>0, <2>1, <4>1, AmountShrinks DEF transfers
      <4>3. auraBalance'[c] = auraBalance[c] + m.amount
        BY <1>0, <3>2, <3>4
      <4> QED
        BY <1>0, <2>2, <3>1, <3>2, <4>2, <4>3
    <3> QED
      BY <3>3, <3>4
  <2> QED
    BY <1>6, <2>5, <2>6, <2>7 DEF Receive, ReceiveFees, ReceiveFeesCallback, ReceiveAura
<1>7. ASSUME NEW d \in Sidechains, NotifyFees(d)
      PROVE  Goal
  <2>1. \A kind \in Kinds : kind # "FEES" => InWire(kind, c)' = InWire(kind, c)
    BY <1>0, <1>7, NoticeInWire
  <2>2. callbacks' = callbacks /\ transfers' = transfers
    BY <1>1, <2>1 DEF Kinds
  <2> QED
    BY <1>3, <1>7, <2>2 DEF NotifyFees
<1>8. ASSUME NEW d \in Sidechains, NEW fees \in Amounts, NEW rewards \in Amounts,
             QueueNewRewards(d, fees, rewards)
      PROVE  Goal
  BY <1>2, <1>3, <1>8 DEF QueueNewRewards, wireVars
<1>9. ASSUME NEW d \in Sidechains, NEW bal \in Amounts, BridgeBal(d, bal) \/ SettleFeeDebt(d, bal)
      PROVE  Goal
  BY <1>2, <1>3, <1>9 DEF BridgeBal, SettleFeeDebt, l2Vars, wireVars
<1>10. ASSUME NEW x, WithdrawFloat(x) \/ SetRewardMultiplier(x)
       PROVE  Goal
  BY <1>2, <1>3, <1>10 DEF WithdrawFloat, SetRewardMultiplier, l2Vars, wireVars
<1>11. CASE UNCHANGED vars
  BY <1>2, <1>3, <1>11 DEF vars, l2Vars, wireVars
<1> HIDE DEF Goal
<1> QED
  BY <1>4, <1>5, <1>6, <1>7, <1>8, <1>9, <1>10, <1>11
     DEF Next, SidechainStep, DistributeAura, DistributeToAll

(* The AURA that L2Coordinator counts, and will count when the callbacks   *)
(* are in, is the AURA it holds or that is on its way to it, in whatever   *)
(* order callbacks and transfers arrive.                                   *)
THEOREM CountedAuraIsThere == Spec => []RewardsBacked
<1>1. Init => CInv /\ RewardsBacked
  BY InitC, InitRewards
<1>2. CInv /\ RewardsBacked /\ [Next]_vars => CInv' /\ RewardsBacked'
  BY StepC, StepKeepsRewards
<1> QED
  BY <1>1, <1>2, PTL DEF Spec
=============================================================================
