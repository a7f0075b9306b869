------------------------- MODULE AuraBalBridgeProofs -------------------------
(***************************************************************************)
(* Proofs about the auraBAL compounder and about the auraBAL bridge, which *)
(* is one of its users.                                                    *)
(*                                                                         *)
(* The compounder: a share is worth at least one auraBAL and never loses,  *)
(* and withdraw pays for what it is asked.  VInv is inductive.  It needs   *)
(* both parts: that an operation keeps the types depends on shares being   *)
(* backed, for what is divided by.  That shares add up to the supply is a  *)
(* second invariant on top of it.                                          *)
(*                                                                         *)
(* The bridge: whatever it does, with a penalty of nothing around its      *)
(* withdrawals, keeps the promises of the vault, and the vault always pays *)
(* what the bridge asks for; the supply it counts is abroad or on its way  *)
(* home, what chains can claim is set aside, and what is owed is staked    *)
(* but for rounding.  A step of the bridge is no step of VaultSpec,        *)
(* because it withdraws without the penalty and sends part of what it gets *)
(* on.  So VInv is shown to be inductive again, from the lemmas on staking *)
(* and unstaking.  It needs to know that messages home carry natural       *)
(* numbers.                                                                *)
(***************************************************************************)
EXTENDS AuraBalBridgeProperties, Arithmetic

VInv == VaultTypeOK /\ SharesAreBacked

-----------------------------------------------------------------------------
(* What the conversions give.                                              *)

(* A deposit gets shares for no more than it brings.                       *)
LEMMA SharesAreFair ==
  ASSUME VInv, NEW amount \in Nat
  PROVE  /\ SharesFor(amount) \in Nat
         /\ SharesFor(amount) <= amount
         /\ totalSupply > 0 => SharesFor(amount) * totalUnderlying <= amount * totalSupply
<1>1. CASE totalSupply = 0
  BY <1>1 DEF SharesFor
<1>2. CASE totalSupply # 0
  <2>1. totalSupply \in Nat \ {0} /\ totalUnderlying \in Nat \ {0} /\ totalSupply <= totalUnderlying
    BY <1>2 DEF VInv, VaultTypeOK, SharesAreBacked
  <2> DEFINE m == (amount * totalSupply) \div totalUnderlying
  <2>2. m \in Nat /\ m * totalUnderlying <= amount * totalSupply
    BY <2>1, DivIsFloor, ProductIsNat
  <2> HIDE DEF m
  <2>3. amount * totalSupply <= amount * totalUnderlying
    BY <2>1, SMT
  <2>4. m <= amount
    <3>1. m * totalUnderlying <= amount * totalUnderlying
      BY <2>1, <2>2, <2>3, ProductIsNat
    <3> QED
      BY <2>1, <2>2, <3>1, ProductCancels
  <2> QED
    BY <1>2, <2>2, <2>4 DEF SharesFor, m
<1> QED
  BY <1>1, <1>2

(* Shares that are not all are worth no more than their part.              *)
LEMMA ValueIsFair ==
  ASSUME VInv, totalSupply > 0, NEW shares \in Nat, shares <= totalSupply
  PROVE  /\ UnderlyingOf(shares) \in Nat
         /\ UnderlyingOf(shares) * totalSupply <= shares * totalUnderlying
         /\ UnderlyingOf(shares) <= totalUnderlying
<1>1. totalSupply \in Nat \ {0} /\ totalUnderlying \in Nat
  BY DEF VInv, VaultTypeOK
<1> DEFINE value == (shares * totalUnderlying) \div totalSupply
<1>2. value \in Nat /\ value * totalSupply <= shares * totalUnderlying
  BY <1>1, DivIsFloor, ProductIsNat
<1> HIDE DEF value
<1>3. shares * totalUnderlying <= totalUnderlying * totalSupply
  BY <1>1, SMT
<1>4. value <= totalUnderlying
  <2>1. value * totalSupply <= totalUnderlying * totalSupply
    BY <1>1, <1>2, <1>3, ProductIsNat
  <2> QED
    BY <1>1, <1>2, <2>1, ProductCancels
<1> QED
  BY <1>2, <1>4 DEF UnderlyingOf, value

(* The penalty takes its part, rounded up at most.                         *)
LEMMA PenaltyIsAPart ==
  ASSUME NEW amount \in Nat, NEW penalty \in 0 .. FEE_DENOMINATOR - 1
  PROVE  /\ AfterPenalty(amount, penalty) \in Nat
         /\ AfterPenalty(amount, penalty) <= amount
         /\ FEE_DENOMINATOR * AfterPenalty(amount, penalty) >= amount * (FEE_DENOMINATOR - penalty)
<1>1. FEE_DENOMINATOR \in Nat \ {0} /\ penalty \in Nat /\ penalty < FEE_DENOMINATOR
  BY VaultAssumption
<1> DEFINE part == (amount * penalty) \div FEE_DENOMINATOR
<1>2. part \in Nat /\ part * FEE_DENOMINATOR <= amount * penalty
  BY <1>1, DivIsFloor, ProductIsNat
<1> HIDE DEF part
<1>3. amount * penalty <= amount * FEE_DENOMINATOR
  BY <1>1, SMT
<1>4. part <= amount
  <2>1. part * FEE_DENOMINATOR <= amount * FEE_DENOMINATOR
    BY <1>1, <1>2, <1>3, ProductIsNat
  <2> QED
    BY <1>1, <1>2, <2>1, ProductCancels
<1>5. FEE_DENOMINATOR * (amount - part) >= amount * (FEE_DENOMINATOR - penalty)
  <2>1. FEE_DENOMINATOR * (amount - part) = amount * FEE_DENOMINATOR - part * FEE_DENOMINATOR
    BY <1>1, <1>2, SMT
  <2>2. amount * (FEE_DENOMINATOR - penalty) = amount * FEE_DENOMINATOR - amount * penalty
    BY <1>1, SMT
  <2> QED
    BY <1>1, <1>2, <2>1, <2>2, ProductIsNat
<1> QED
  BY <1>2, <1>4, <1>5 DEF AfterPenalty, part

(* The previews are numbers.                                               *)
LEMMA PreviewIsNat ==
  ASSUME VInv
  PROVE  /\ \A assets \in Nat, penalty \in 0 .. FEE_DENOMINATOR - 1 :
              PreviewWithdraw(assets, penalty) \in Nat
         /\ \A shares \in Nat : PreviewMint(shares) \in Nat
<1>1. totalSupply \in Nat /\ totalUnderlying \in Nat /\ totalSupply <= totalUnderlying
  BY DEF VInv, VaultTypeOK, SharesAreBacked
<1>2. ASSUME NEW assets \in Nat, NEW penalty \in 0 .. FEE_DENOMINATOR - 1
      PROVE  PreviewWithdraw(assets, penalty) \in Nat
  <2> DEFINE gross == (FEE_DENOMINATOR * assets) \div (FEE_DENOMINATOR - penalty)
  <2>1. FEE_DENOMINATOR \in Nat /\ FEE_DENOMINATOR - penalty \in Nat \ {0}
    BY VaultAssumption
  <2>2. gross \in Nat
    BY <2>1, DivIsFloor, ProductIsNat
  <2> HIDE DEF gross
  <2>3. gross * totalSupply \in Nat
    BY <1>1, <2>2, ProductIsNat
  <2> DEFINE product == gross * totalSupply
  <2>4. product \in Nat
    BY <2>3
  <2> HIDE DEF product
  <2>5. ASSUME totalSupply # 0
        PROVE  RoundUpDiv(product, totalUnderlying) \in Nat
    <3>1. totalUnderlying \in Nat \ {0}
      BY <1>1, <2>5
    <3> QED
      BY <2>4, <3>1, RemainderRoundsUp DEF RoundUpDiv
  <2> QED
    BY <2>2, <2>5 DEF PreviewWithdraw, gross, product
<1>3. ASSUME NEW shares \in Nat
      PROVE  PreviewMint(shares) \in Nat
  <2> DEFINE worth == shares * totalUnderlying
  <2>1. worth \in Nat
    BY <1>1, ProductIsNat
  <2> HIDE DEF worth
  <2>2. totalSupply # 0 => RoundUpDiv(worth, totalSupply) \in Nat
    BY <1>1, <2>1, RemainderRoundsUp DEF RoundUpDiv
  <2> QED
    BY <2>2 DEF PreviewMint, worth
<1> QED
  BY <1>2, <1>3

-----------------------------------------------------------------------------
(* The operations.  Each is shown to keep VInv and the worth of a share.   *)

ShareKeepsWorth ==
  totalSupply > 0 /\ totalSupply' > 0 =>
    totalUnderlying' * totalSupply >= totalUnderlying * totalSupply'

(* Staking keeps the promises of the vault.                                *)
LEMMA StakeIsFair ==
  ASSUME VInv, NEW receiver \in Users, NEW amount \in Nat,
         Stake(amount, receiver), wallet' \in [Users -> Nat]
  PROVE  VInv' /\ ShareKeepsWorth
<1> DEFINE m == SharesFor(amount)
<1>1. /\ m \in Nat /\ m <= amount
      /\ totalSupply > 0 => m * totalUnderlying <= amount * totalSupply
  BY SharesAreFair
<1>2. /\ totalSupply' = totalSupply + m
      /\ totalUnderlying' = totalUnderlying + amount
      /\ balanceOf' = [balanceOf EXCEPT ![receiver] = @ + m]
      /\ UNCHANGED <<rewards, withdrawalPenalty>>
  BY DEF Stake
<1> HIDE DEF m
<1>3. VaultTypeOK'
  BY <1>1, <1>2 DEF VInv, VaultTypeOK
<1>4. SharesAreBacked'
  BY <1>1, <1>2 DEF VInv, VaultTypeOK, SharesAreBacked
<1>5. ShareKeepsWorth
  <2> SUFFICES ASSUME totalSupply > 0
               PROVE  totalUnderlying' * totalSupply >= totalUnderlying * totalSupply'
    BY DEF ShareKeepsWorth
  <2>1. totalSupply \in Nat /\ totalUnderlying \in Nat
    BY DEF VInv, VaultTypeOK
  <2>2. totalUnderlying' * totalSupply = totalUnderlying * totalSupply + amount * totalSupply
    BY <1>2, <2>1, SMT
  <2>3. totalUnderlying * totalSupply' = totalUnderlying * totalSupply + m * totalUnderlying
    BY <1>1, <1>2, <2>1, SMT
  <2> QED
    BY <1>1, <2>1, <2>2, <2>3, ProductIsNat
<1> QED
  BY <1>3, <1>4, <1>5 DEF VInv

(* So does a deposit.                                                      *)
LEMMA DepositIsFair ==
  ASSUME VInv, NEW from \in Users, NEW receiver \in Users, NEW amount \in Nat,
         Deposit(from, amount, receiver)
  PROVE  VInv' /\ ShareKeepsWorth
<1>1. wallet' \in [Users -> Nat]
  BY DEF Deposit, VInv, VaultTypeOK
<1> QED
  BY <1>1, StakeIsFair DEF Deposit

(* So does unstaking, and what it pays is a number.                        *)
LEMMA UnstakeIsFair ==
  ASSUME VInv, NEW owner \in Users, NEW shares \in Nat, NEW gain \in Nat,
         NEW penalty \in 0 .. FEE_DENOMINATOR - 1,
         Unstake(owner, shares, penalty, gain)
  PROVE  /\ PaidFor(shares, penalty, gain) \in Nat
         /\ wallet' \in [Users -> Nat] => VInv' /\ ShareKeepsWorth
<1> DEFINE paid == PaidFor(shares, penalty, gain)
<1>1. totalSupply \in Nat /\ totalUnderlying \in Nat /\ rewards \in Nat /\ totalSupply <= totalUnderlying
  BY DEF VInv, VaultTypeOK, SharesAreBacked
<1>2. /\ totalSupply' = totalSupply - shares /\ shares <= totalSupply /\ totalSupply > 0
      /\ totalUnderlying' = totalUnderlying + gain - paid
      /\ balanceOf' = [balanceOf EXCEPT ![owner] = @ - shares] /\ shares <= balanceOf[owner]
      /\ rewards' = rewards - gain /\ gain <= rewards
      /\ shares < totalSupply => gain = 0
      /\ UNCHANGED withdrawalPenalty
  BY DEF Unstake
<1>3. /\ paid \in Nat /\ paid <= totalUnderlying + gain
      /\ shares < totalSupply => paid * totalSupply <= shares * totalUnderlying
  <2>1. CASE shares = totalSupply
    BY <1>1, <2>1 DEF PaidFor
  <2>2. CASE shares < totalSupply
    <3> DEFINE value == UnderlyingOf(shares)
    <3>1. value \in Nat /\ value * totalSupply <= shares * totalUnderlying /\ value <= totalUnderlying
      BY <1>2, ValueIsFair
    <3>2. paid = AfterPenalty(value, penalty)
      BY <1>1, <2>2 DEF PaidFor
    <3> HIDE DEF value, paid
    <3>3. paid \in Nat /\ paid <= value
      BY <3>1, <3>2, PenaltyIsAPart
    <3>4. paid * totalSupply <= value * totalSupply
      BY <1>1, <3>1, <3>3, ProductIsMonotone
    <3>5. paid * totalSupply \in Nat /\ value * totalSupply \in Nat /\ shares * totalUnderlying \in Nat
      BY <1>1, <3>1, <3>3, ProductIsNat
    <3> QED
      BY <1>1, <3>1, <3>3, <3>4, <3>5
  <2> QED
    BY <1>1, <1>2, <2>1, <2>2
<1> HIDE DEF paid
<1>4. wallet' \in [Users -> Nat] => VaultTypeOK'
  <2>1. balanceOf \in [Users -> Nat] /\ withdrawalPenalty \in 0 .. FEE_DENOMINATOR - 1
    BY DEF VInv, VaultTypeOK
  <2>2. balanceOf' \in [Users -> Nat]
    BY <1>2, <2>1
  <2>3. totalSupply' \in Nat /\ totalUnderlying' \in Nat /\ rewards' \in Nat
    BY <1>1, <1>2, <1>3
  <2> QED
    BY <1>2, <2>1, <2>2, <2>3 DEF VaultTypeOK
<1>5. shares < totalSupply => totalUnderlying' * totalSupply >= totalUnderlying * totalSupply'
  <2> SUFFICES ASSUME shares < totalSupply
               PROVE  totalUnderlying' * totalSupply >= totalUnderlying * totalSupply'
    OBVIOUS
  <2>1. totalUnderlying' * totalSupply = totalUnderlying * totalSupply - paid * totalSupply
    BY <1>1, <1>2, <1>3, SMT
  <2>2. totalUnderlying * totalSupply' = totalUnderlying * totalSupply - shares * totalUnderlying
    BY <1>1, <1>2, SMT
  <2> QED
    BY <1>1, <1>3, <2>1, <2>2, ProductIsNat
<1>6. SharesAreBacked'
  <2>1. CASE shares = totalSupply
    BY <1>1, <1>2, <1>3, <2>1 DEF SharesAreBacked
  <2>2. CASE shares < totalSupply
    <3>1. totalUnderlying' \in Nat /\ totalSupply' \in Nat
      BY <1>1, <1>2, <1>3
    <3>2. totalSupply * totalSupply' <= totalUnderlying * totalSupply'
      BY <1>1, <3>1, ProductIsMonotone
    <3>3. totalSupply * totalSupply' = totalSupply' * totalSupply
      BY <1>1, <3>1, SMT
    <3> DEFINE before == totalUnderlying * totalSupply'
               after == totalUnderlying' * totalSupply
               square == totalSupply' * totalSupply
    <3>4. before \in Nat /\ after \in Nat /\ square \in Nat
      BY <1>1, <3>1, ProductIsNat
    <3>5. after >= before /\ before >= square
      BY <1>5, <2>2, <3>2, <3>3
    <3> HIDE DEF before, after, square
    <3>6. square <= after
      BY <3>4, <3>5
    <3> QED
      BY <1>1, <1>2, <3>1, <3>6, ProductCancels DEF SharesAreBacked, square, after
  <2> QED
    BY <1>1, <1>2, <2>1, <2>2
<1>7. PaidFor(shares, penalty, gain) \in Nat
  BY <1>3 DEF paid
<1> QED
  BY <1>1, <1>2, <1>4, <1>5, <1>6, <1>7 DEF VInv, ShareKeepsWorth

(* So does a redemption.                                                   *)
LEMMA RedeemIsFair ==
  ASSUME VInv, NEW owner \in Users, NEW receiver \in Users, NEW shares \in Nat, NEW gain \in Nat,
         NEW penalty \in 0 .. FEE_DENOMINATOR - 1,
         Redeem(owner, shares, receiver, penalty, gain)
  PROVE  VInv' /\ ShareKeepsWorth
<1>1. Unstake(owner, shares, penalty, gain)
  BY DEF Redeem
<1>2. PaidFor(shares, penalty, gain) \in Nat
  BY <1>1, UnstakeIsFair
<1>3. wallet' \in [Users -> Nat]
  BY <1>2 DEF Redeem, VInv, VaultTypeOK
<1> QED
  BY <1>1, <1>3, UnstakeIsFair

-----------------------------------------------------------------------------
(* The vault starts empty.                                                 *)
LEMMA VaultInitIsFair == VaultInit => VInv
  BY VaultAssumption DEF VaultInit, VInv, VaultTypeOK, SharesAreBacked

(* Every step of the vault keeps its promises.                             *)
LEMMA VaultStepIsFair == VInv /\ [VaultStep(Users)]_vaultVars => VInv' /\ ShareKeepsWorth
<1> SUFFICES ASSUME VInv, [VaultStep(Users)]_vaultVars PROVE VInv' /\ ShareKeepsWorth
  OBVIOUS
<1> USE VaultAssumption
<1>1. withdrawalPenalty \in 0 .. FEE_DENOMINATOR - 1
  BY DEF VInv, VaultTypeOK
<1>2. ASSUME NEW u \in Users, NEW v \in Users, NEW amount \in Amounts, Deposit(u, amount, v)
      PROVE  VInv' /\ ShareKeepsWorth
  BY <1>2, DepositIsFair
<1>3. ASSUME NEW u \in Users, NEW v \in Users, NEW shares \in Amounts, MintShares(u, shares, v)
      PROVE  VInv' /\ ShareKeepsWorth
  BY <1>3, PreviewIsNat, DepositIsFair DEF MintShares
<1>4. ASSUME NEW u \in Users, NEW v \in Users, NEW shares \in Amounts, NEW gain \in Gains,
             Redeem(u, shares, v, withdrawalPenalty, gain)
      PROVE  VInv' /\ ShareKeepsWorth
  BY <1>1, <1>4, RedeemIsFair
<1>5. ASSUME NEW u \in Users, NEW v \in Users, NEW assets \in Amounts, NEW gain \in Gains,
             Withdraw(u, assets, v, withdrawalPenalty, gain)
      PROVE  VInv' /\ ShareKeepsWorth
  BY <1>1, <1>5, PreviewIsNat, RedeemIsFair DEF Withdraw
<1>6. ASSUME NEW u \in Users, NEW v \in Users, NEW shares \in Amounts, Transfer(u, v, shares)
      PROVE  VInv' /\ ShareKeepsWorth
  BY <1>6 DEF Transfer, VInv, VaultTypeOK, SharesAreBacked, ShareKeepsWorth
<1>7. ASSUME NEW gain \in Gains, Harvest(gain)
      PROVE  VInv' /\ ShareKeepsWorth
  <2>1. totalUnderlying \in Nat /\ totalSupply \in Nat /\ gain \in Nat
    BY DEF VInv, VaultTypeOK
  <2>2. totalUnderlying * totalSupply <= (totalUnderlying + gain) * totalSupply
    BY <2>1, ProductIsMonotone
  <2> QED
    BY <1>7, <2>1, <2>2, ProductIsNat
    DEF Harvest, VInv, VaultTypeOK, SharesAreBacked, ShareKeepsWorth
<1>8. ASSUME NEW penalty \in Penalties, SetWithdrawalPenalty(penalty)
      PROVE  VInv' /\ ShareKeepsWorth
  BY <1>8 DEF SetWithdrawalPenalty, VInv, VaultTypeOK, SharesAreBacked, ShareKeepsWorth
<1>9. CASE UNCHANGED vaultVars
  BY <1>9 DEF vaultVars, VInv, VaultTypeOK, SharesAreBacked, ShareKeepsWorth
<1> QED
  BY <1>2, <1>3, <1>4, <1>5, <1>6, <1>7, <1>8, <1>9 DEF VaultStep, UserStep

(* They hold in every state.                                               *)
LEMMA VaultInvariant == VaultSpec => []VInv
  BY VaultInitIsFair, VaultStepIsFair, PTL DEF VaultSpec

(* No balance is ever negative.                                            *)
THEOREM VaultTypeCorrect == VaultSpec => []VaultTypeOK
  BY VaultInvariant, PTL DEF VInv

(* A share is always worth at least one auraBAL.                           *)
THEOREM SharesStayBacked == VaultSpec => []SharesAreBacked
  BY VaultInvariant, PTL DEF VInv

(* No step makes a share worth less, for any amounts, harvests and         *)
(* penalties.                                                              *)
THEOREM SharesNeverLose == VaultSpec => ShareNeverLoses
<1>1. VInv /\ [VaultStep(Users)]_vaultVars =>
        [totalSupply > 0 /\ totalSupply' > 0 =>
           totalUnderlying' * totalSupply >= totalUnderlying * totalSupply']_vaultVars
  BY VaultStepIsFair DEF ShareKeepsWorth
<1> QED
  BY <1>1, VaultInvariant, PTL DEF VaultSpec, ShareNeverLoses

-----------------------------------------------------------------------------
(* What withdraw pays.                                                     *)

(* What was grossed up by the penalty is enough after it.                  *)
LEMMA ShareOfTheGross ==
  ASSUME NEW assets \in Nat, NEW penalty \in 0 .. FEE_DENOMINATOR - 1,
         NEW paid \in Nat, NEW value \in Nat,
         (FEE_DENOMINATOR * assets) \div (FEE_DENOMINATOR - penalty) <= value,
         FEE_DENOMINATOR * paid >= value * (FEE_DENOMINATOR - penalty)
  PROVE  paid >= assets
<1> DEFINE rest == FEE_DENOMINATOR - penalty
           gross == (FEE_DENOMINATOR * assets) \div rest
<1>1. FEE_DENOMINATOR \in Nat \ {0} /\ rest \in Nat \ {0} /\ rest <= FEE_DENOMINATOR
  BY VaultAssumption
<1>2. gross \in Nat /\ FEE_DENOMINATOR * assets < gross * rest + rest
  BY <1>1, ProductIsNat, DivIsFloor, DivIsNear
<1>3. gross <= value /\ FEE_DENOMINATOR * paid >= value * rest
  OBVIOUS
<1> HIDE DEF gross, rest
<1>4. gross * rest <= value * rest
  BY <1>1, <1>2, <1>3, ProductIsMonotone
<1>5. FEE_DENOMINATOR * assets < FEE_DENOMINATOR * paid + FEE_DENOMINATOR
  BY <1>1, <1>2, <1>3, <1>4, ProductIsNat
<1>6. FEE_DENOMINATOR * assets < FEE_DENOMINATOR * (paid + 1)
  BY <1>1, <1>5, SMT
<1>7. assets < paid + 1
  <2> SUFFICES ASSUME paid + 1 <= assets PROVE FALSE
    OBVIOUS
  <2>1. (paid + 1) * FEE_DENOMINATOR <= assets * FEE_DENOMINATOR
    BY <1>1, ProductIsMonotone
  <2> QED
    BY <1>1, <1>6, <2>1, SMT
<1> QED
  BY <1>7

(* A withdrawal pays what was asked for, after the penalty.                *)
LEMMA WithdrawPays ==
  ASSUME VInv, totalSupply > 0, NEW assets \in Nat, NEW penalty \in 0 .. FEE_DENOMINATOR - 1
  PROVE  AfterPenalty(UnderlyingOf(PreviewWithdraw(assets, penalty)), penalty) >= assets
<1> DEFINE gross == (FEE_DENOMINATOR * assets) \div (FEE_DENOMINATOR - penalty)
           shares == PreviewWithdraw(assets, penalty)
           value == UnderlyingOf(shares)
<1>1. totalSupply \in Nat \ {0} /\ totalUnderlying \in Nat \ {0}
  BY DEF VInv, VaultTypeOK, SharesAreBacked
<1>2. penalty \in 0 .. FEE_DENOMINATOR - 1
  OBVIOUS
<1>3. gross \in Nat
  <2>1. FEE_DENOMINATOR \in Nat /\ FEE_DENOMINATOR - penalty \in Nat \ {0}
    BY <1>2, VaultAssumption
  <2> QED
    BY <2>1, DivIsFloor, ProductIsNat
<1>4. shares \in Nat
  BY <1>2, PreviewIsNat
<1>5. gross * totalSupply <= shares * totalUnderlying
  <2>1. shares = RoundUpDiv(gross * totalSupply, totalUnderlying)
    BY <1>1 DEF PreviewWithdraw
  <2> HIDE DEF gross, shares
  <2>2. gross * totalSupply \in Nat
    BY <1>1, <1>3, ProductIsNat
  <2> QED
    BY <1>1, <2>1, <2>2, RemainderRoundsUp DEF RoundUpDiv
<1> HIDE DEF gross, shares
<1>6. value \in Nat /\ gross <= value
  <2>1. shares * totalUnderlying \in Nat
    BY <1>1, <1>4, ProductIsNat
  <2> QED
    BY <1>1, <1>3, <1>5, <2>1, DivIsFloor, DivIsLargest DEF UnderlyingOf
<1> HIDE DEF value
<1>7. /\ AfterPenalty(value, penalty) \in Nat
      /\ FEE_DENOMINATOR * AfterPenalty(value, penalty)
           >= value * (FEE_DENOMINATOR - penalty)
  BY <1>2, <1>6, PenaltyIsAPart
<1> QED
  BY <1>2, <1>6, <1>7, ShareOfTheGross DEF gross, value, shares

(* A withdrawal of assets is always paid at least the assets, so           *)
(* AuraBalProxyOFT._withdraw never finds too little withdrawn.             *)
THEOREM WithdrawIsEnough == VaultSpec => []WithdrawCoversAssets
<1>1. VInv => WithdrawCoversAssets
  BY WithdrawPays, VaultAssumption DEF WithdrawCoversAssets, VInv, VaultTypeOK
<1> QED
  BY <1>1, VaultInvariant, PTL

-----------------------------------------------------------------------------
(* The shares of all users add up to the supply: no share is lost when it  *)
(* is minted, burnt or moved, so nobody is left when the supply is zero.   *)
SharesAddUp == totalSupply = SumFunctionOnSet(balanceOf, Users)

(* Shares that one user gets or gives up change the sum by as much.        *)
LEMMA SharesMove ==
  ASSUME NEW old \in [Users -> Nat], NEW new \in [Users -> Nat], NEW u \in Users,
         \A v \in Users : v # u => new[v] = old[v]
  PROVE  /\ SumFunctionOnSet(new, Users) = SumFunctionOnSet(old, Users) + (new[u] - old[u])
         /\ SumFunctionOnSet(old, Users) \in Nat
<1>1. IsFiniteSet(Users)
  BY VaultAssumption
<1>2. \A v \in Users : old[v] \in Int /\ new[v] \in Int /\ (v # u => old[v] = new[v])
  OBVIOUS
<1>3. SumFunctionOnSet(new, Users) = SumFunctionOnSet(old, Users) + (new[u] - old[u])
  BY <1>1, <1>2, SumOfChanged
<1>4. \A v \in Users : old[v] \in Nat
  OBVIOUS
<1>5. SumFunctionOnSet(old, Users) \in Nat
  BY <1>1, <1>4, SumIsNat
<1> QED
  BY <1>3, <1>5

(* So nobody has more shares than there are.                               *)
SharesAreWithin == \A u \in Users : balanceOf[u] <= totalSupply

(* By the sum, which covers each of its terms.                             *)
LEMMA SharesFit == VInv /\ SharesAddUp => SharesAreWithin
<1> SUFFICES ASSUME VInv, SharesAddUp, NEW u \in Users PROVE balanceOf[u] <= totalSupply
  BY DEF SharesAreWithin
<1>1. \A v \in Users : balanceOf[v] \in Nat
  BY DEF VInv, VaultTypeOK
<1>2. IsFiniteSet(Users)
  BY VaultAssumption
<1>3. balanceOf[u] <= SumFunctionOnSet(balanceOf, Users)
  BY <1>1, <1>2, SumCoversEach
<1> QED
  BY <1>3 DEF SharesAddUp

(* The same, after a step.                                                 *)
LEMMA SharesFitNext == VInv' /\ SharesAddUp' => SharesAreWithin'
  BY SharesFit, PTL

(* What is staked mints as many shares as it adds.                         *)
LEMMA StakeAddsUp ==
  ASSUME VInv, SharesAddUp, NEW receiver \in Users, NEW amount \in Nat, Stake(amount, receiver)
  PROVE  SharesAddUp'
<1> DEFINE m == SharesFor(amount)
<1>1. m \in Nat
  BY SharesAreFair
<1>2. totalSupply' = totalSupply + m /\ balanceOf' = [balanceOf EXCEPT ![receiver] = @ + m]
  BY DEF Stake
<1> HIDE DEF m
<1>3. balanceOf \in [Users -> Nat] /\ totalSupply \in Nat
  BY DEF VInv, VaultTypeOK
<1>4. /\ balanceOf' \in [Users -> Nat] /\ balanceOf'[receiver] = balanceOf[receiver] + m
      /\ \A v \in Users : v # receiver => balanceOf'[v] = balanceOf[v]
  BY <1>1, <1>2, <1>3
<1>5. SumFunctionOnSet(balanceOf', Users)
        = SumFunctionOnSet(balanceOf, Users) + (balanceOf'[receiver] - balanceOf[receiver])
  BY <1>3, <1>4, SharesMove
<1>6. balanceOf'[receiver] - balanceOf[receiver] = m
  BY <1>1, <1>3, <1>4
<1> QED
  BY <1>2, <1>3, <1>5, <1>6 DEF SharesAddUp

(* What is unstaked burns as many shares as it takes.                      *)
LEMMA UnstakeAddsUp ==
  ASSUME VInv, SharesAddUp, NEW owner \in Users, NEW shares \in Nat, NEW penalty, NEW gain,
         Unstake(owner, shares, penalty, gain)
  PROVE  SharesAddUp'
<1>1. /\ totalSupply' = totalSupply - shares /\ shares <= balanceOf[owner]
      /\ balanceOf' = [balanceOf EXCEPT ![owner] = @ - shares]
  BY DEF Unstake
<1>2. balanceOf \in [Users -> Nat] /\ totalSupply \in Nat
  BY DEF VInv, VaultTypeOK
<1>3. /\ balanceOf' \in [Users -> Nat] /\ balanceOf'[owner] = balanceOf[owner] - shares
      /\ \A v \in Users : v # owner => balanceOf'[v] = balanceOf[v]
  BY <1>1, <1>2
<1>4. SumFunctionOnSet(balanceOf', Users)
        = SumFunctionOnSet(balanceOf, Users) + (balanceOf'[owner] - balanceOf[owner])
  BY <1>2, <1>3, SharesMove
<1>5. balanceOf'[owner] - balanceOf[owner] = 0 - shares
  BY <1>2, <1>3
<1> QED
  BY <1>1, <1>2, <1>4, <1>5 DEF SharesAddUp

(* A transfer leaves the sum as it is.                                     *)
LEMMA TransferAddsUp ==
  ASSUME VInv, SharesAddUp, NEW from \in Users, NEW to \in Users, NEW shares \in Nat,
         Transfer(from, to, shares)
  PROVE  SharesAddUp'
<1> DEFINE taken == [balanceOf EXCEPT ![from] = @ - shares]
<1>1. /\ from # to /\ shares <= balanceOf[from] /\ totalSupply' = totalSupply
      /\ balanceOf' = [balanceOf EXCEPT ![from] = @ - shares, ![to] = @ + shares]
  BY DEF Transfer
<1>2. balanceOf \in [Users -> Nat] /\ totalSupply \in Nat
  BY DEF VInv, VaultTypeOK
<1>3. /\ taken \in [Users -> Nat] /\ taken[from] = balanceOf[from] - shares
      /\ \A v \in Users : v # from => taken[v] = balanceOf[v]
  BY <1>1, <1>2
<1>4. /\ balanceOf' \in [Users -> Nat] /\ balanceOf'[to] = taken[to] + shares
      /\ \A v \in Users : v # to => balanceOf'[v] = taken[v]
  BY <1>1, <1>2
<1> HIDE DEF taken
<1>5. /\ SumFunctionOnSet(taken, Users) = SumFunctionOnSet(balanceOf, Users) + (taken[from] - balanceOf[from])
      /\ SumFunctionOnSet(balanceOf, Users) \in Nat
  BY <1>2, <1>3, SharesMove
<1>6. /\ SumFunctionOnSet(balanceOf', Users) = SumFunctionOnSet(taken, Users) + (balanceOf'[to] - taken[to])
      /\ SumFunctionOnSet(taken, Users) \in Nat
  BY <1>3, <1>4, SharesMove
<1>7. taken[from] - balanceOf[from] = 0 - shares /\ balanceOf'[to] - taken[to] = shares
  BY <1>2, <1>3, <1>4
<1> QED
  BY <1>1, <1>2, <1>5, <1>6, <1>7 DEF SharesAddUp

(* So does every step of the vault.  The shares of a user who does not act *)
(* do not get less.                                                        *)
LEMMA VaultStepAddsUp ==
  ASSUME VInv, SharesAddUp, NEW users \in SUBSET Users, VaultStep(users)
  PROVE  SharesAddUp' /\ \A u \in Users \ users : balanceOf'[u] >= balanceOf[u]
<1> USE VaultAssumption
<1> DEFINE OthersKeep == \A u \in Users \ users : balanceOf'[u] >= balanceOf[u]
<1>1. balanceOf \in [Users -> Nat] /\ withdrawalPenalty \in 0 .. FEE_DENOMINATOR - 1
  BY DEF VInv, VaultTypeOK
<1>2. ASSUME NEW u \in users, NEW v \in Users, NEW amount \in Nat, Deposit(u, amount, v)
      PROVE  SharesAddUp' /\ OthersKeep
  <2>1. Stake(amount, v)
    BY <1>2 DEF Deposit
  <2>2. SharesAddUp'
    BY <2>1, StakeAddsUp
  <2> DEFINE m == SharesFor(amount)
  <2>3. m \in Nat /\ balanceOf' = [balanceOf EXCEPT ![v] = @ + m]
    BY <2>1, SharesAreFair DEF Stake
  <2> HIDE DEF m
  <2> QED
    BY <1>1, <2>2, <2>3
<1>3. ASSUME NEW u \in users, NEW v \in Users, NEW shares \in Amounts, MintShares(u, shares, v)
      PROVE  SharesAddUp' /\ OthersKeep
  <2>1. PreviewMint(shares) \in Nat /\ Deposit(u, PreviewMint(shares), v)
    BY <1>3, PreviewIsNat DEF MintShares
  <2> QED
    BY <1>2, <2>1
<1>4. ASSUME NEW u \in users, NEW v \in Users, NEW shares \in Nat, NEW gain \in Nat,
             Redeem(u, shares, v, withdrawalPenalty, gain)
      PROVE  SharesAddUp' /\ OthersKeep
  <2>1. Unstake(u, shares, withdrawalPenalty, gain)
    BY <1>4 DEF Redeem
  <2>2. SharesAddUp'
    BY <2>1, UnstakeAddsUp
  <2>3. balanceOf' = [balanceOf EXCEPT ![u] = @ - shares]
    BY <2>1 DEF Unstake
  <2> QED
    BY <1>1, <2>2, <2>3
<1>5. ASSUME NEW u \in users, NEW v \in Users, NEW assets \in Amounts, NEW gain \in Gains,
             Withdraw(u, assets, v, withdrawalPenalty, gain)
      PROVE  SharesAddUp' /\ OthersKeep
  <2>1. PreviewWithdraw(assets, withdrawalPenalty) \in Nat
    BY <1>1, PreviewIsNat
  <2>2. Redeem(u, PreviewWithdraw(assets, withdrawalPenalty), v, withdrawalPenalty, gain)
    BY <1>5 DEF Withdraw
  <2> QED
    BY <1>4, <2>1, <2>2
<1>6. ASSUME NEW u \in users, NEW v \in Users, NEW shares \in Amounts, Transfer(u, v, shares)
      PROVE  SharesAddUp' /\ OthersKeep
  <2>1. SharesAddUp'
    BY <1>6, TransferAddsUp
  <2>2. balanceOf' = [balanceOf EXCEPT ![u] = @ - shares, ![v] = @ + shares] /\ shares \in Nat
    BY <1>6 DEF Transfer
  <2> QED
    BY <1>1, <2>1, <2>2
<1>7. ASSUME UNCHANGED <<balanceOf, totalSupply>>
      PROVE  SharesAddUp' /\ OthersKeep
  BY <1>1, <1>7 DEF SharesAddUp
<1>8. CASE \E gain \in Gains : Harvest(gain)
  BY <1>7, <1>8 DEF Harvest
<1>9. CASE \E penalty \in Penalties : SetWithdrawalPenalty(penalty)
  BY <1>7, <1>9 DEF SetWithdrawalPenalty
<1>10. CASE \E u \in users : UserStep(u)
  BY <1>2, <1>3, <1>4, <1>5, <1>6, <1>10 DEF UserStep
<1> QED
  BY <1>8, <1>9, <1>10 DEF VaultStep

(* There is no share at the start.                                         *)
LEMMA NoSharesAddUp == VaultInit => SharesAddUp
<1> SUFFICES ASSUME VaultInit PROVE SharesAddUp
  OBVIOUS
<1>1. totalSupply = 0 /\ \A u \in Users : balanceOf[u] = 0
  BY DEF VaultInit
<1>2. SumFunctionOnSet(balanceOf, Users) = 0
  BY <1>1, SumOfZeros, VaultAssumption
<1> QED
  BY <1>1, <1>2 DEF SharesAddUp

(* totalSupply is the sum of all balances, for any number of users and any *)
(* mix of deposits, withdrawals and transfers.                             *)
THEOREM SharesStayAddedUp == VaultSpec => []SharesAddUp
<1>1. VInv /\ SharesAddUp /\ [VaultStep(Users)]_vaultVars => SharesAddUp'
  BY VaultStepAddsUp DEF SharesAddUp, vaultVars
<1> QED
  BY <1>1, NoSharesAddUp, VaultInvariant, PTL DEF VaultSpec
-----------------------------------------------------------------------------
(* The bridge.                                                             *)

HomeOK == DOMAIN home \subseteq Nat

BInv == VInv /\ HomeOK

-----------------------------------------------------------------------------
(* With no penalty, what is withdrawn is never less than what was asked    *)
(* for, so the require of _withdraw holds.                                 *)
LEMMA VaultPaysEnough ==
  ASSUME VInv, totalSupply > 0, NEW amount \in Nat, NEW gain \in Nat,
         PreviewWithdraw(amount, 0) <= totalSupply
  PROVE  PaidFor(PreviewWithdraw(amount, 0), 0, gain) >= amount
<1> DEFINE shares == PreviewWithdraw(amount, 0)
<1>1. totalSupply \in Nat \ {0} /\ totalUnderlying \in Nat
  BY DEF VInv, VaultTypeOK
<1>2. 0 \in 0 .. FEE_DENOMINATOR - 1
  BY VaultAssumption
<1>3. shares \in Nat
  BY <1>2, PreviewIsNat
<1>4. AfterPenalty(UnderlyingOf(shares), 0) >= amount
  BY <1>2, WithdrawPays
<1> HIDE DEF shares
<1>5. shares <= totalSupply
  BY DEF shares
<1>6. UnderlyingOf(shares) \in Nat /\ UnderlyingOf(shares) <= totalUnderlying
  BY <1>3, <1>5, ValueIsFair
<1>7. /\ AfterPenalty(UnderlyingOf(shares), 0) \in Nat
      /\ AfterPenalty(UnderlyingOf(shares), 0) <= UnderlyingOf(shares)
  BY <1>2, <1>6, PenaltyIsAPart
<1>8. CASE shares = totalSupply
  BY <1>1, <1>4, <1>6, <1>7, <1>8 DEF PaidFor, shares
<1>9. CASE shares # totalSupply
  BY <1>4, <1>9 DEF PaidFor, shares
<1> QED
  BY <1>8, <1>9

(* Paying out of the vault keeps its promises.                             *)
LEMMA PayIsFair ==
  ASSUME VInv, NEW account \in Users, NEW amount \in Nat, NEW gain \in Nat,
         Pay(account, amount, gain)
  PROVE  VInv' /\ ShareKeepsWorth
<1> DEFINE shares == PreviewWithdraw(amount, 0)
           withdrawn == PaidFor(shares, 0, gain)
<1>1. /\ Unstake(Proxy, shares, 0, gain)
      /\ withdrawn >= amount
      /\ wallet' = [[wallet EXCEPT ![Proxy] = @ + withdrawn - amount] EXCEPT ![account] = @ + amount]
  BY DEF Pay, PenaltyOfBridge
<1>2. 0 \in 0 .. FEE_DENOMINATOR - 1 /\ Proxy \in Users
  BY VaultAssumption, AuraBalBridgeAssumption
<1>3. shares \in Nat
  BY <1>2, PreviewIsNat
<1> HIDE DEF shares
<1>4. withdrawn \in Nat
  BY <1>1, <1>2, <1>3, UnstakeIsFair
<1> HIDE DEF withdrawn
<1>5. wallet \in [Users -> Nat]
  BY DEF VInv, VaultTypeOK
<1>6. wallet' \in [Users -> Nat]
  BY <1>1, <1>2, <1>4, <1>5
<1> QED
  BY <1>1, <1>2, <1>3, <1>6, UnstakeIsFair

-----------------------------------------------------------------------------
(* The bridge starts with an empty vault.                                  *)
LEMMA BridgeInitIsFair == Init => BInv
  BY VaultInitIsFair DEF Init, BInv, HomeOK, EmptyBag, SetToBag

(* Shares that are taken from the proxy go by a step of the vault.         *)
TakesShares == (\E u \in Users, shares \in Amounts : RescueShares(u, shares)) \/ VaultExecute

LEMMA TakingIsAVaultStep == TakesShares => VaultStep(Users) /\ SharesLeave
  BY AuraBalBridgeAssumption DEF TakesShares, RescueShares, VaultExecute, VaultStep, UserStep

(* Every step of the bridge, and of all others with it, keeps the promises *)
(* of the vault.                                                           *)
LEMMA BridgeStepIsFair == BInv /\ [Next]_vars => BInv' /\ (ShareKeepsWorth \/ UNCHANGED vaultVars)
<1> SUFFICES ASSUME BInv, [Next]_vars
             PROVE  BInv' /\ (ShareKeepsWorth \/ UNCHANGED vaultVars)
  OBVIOUS
<1> USE VaultAssumption, AuraBalBridgeAssumption
<1>1. VInv /\ HomeOK
  BY DEF BInv
<1>2. UNCHANGED vaultVars => VInv'
  BY <1>1 DEF vaultVars, VInv, VaultTypeOK, SharesAreBacked
<1>3. CASE VaultStep(Users \ {Proxy}) /\ UNCHANGED bridgeVars
  <2>1. VaultStep(Users)
    BY <1>3 DEF VaultStep
  <2>2. VInv' /\ ShareKeepsWorth
    BY <1>1, <2>1, VaultStepIsFair
  <2> QED
    BY <1>1, <1>3, <2>2 DEF BInv, bridgeVars, HomeOK
<1>4. ASSUME NEW u \in Users, NEW amount \in Amounts \cup {0}, SendFrom(u, amount)
      PROVE  BInv' /\ ShareKeepsWorth
  <2> DEFINE staked == wallet[Proxy] + amount
  <2>1. /\ Stake(staked, Proxy) /\ amount <= wallet[u]
        /\ wallet' = [wallet EXCEPT ![u] = @ - amount, ![Proxy] = 0]
        /\ UNCHANGED home
    BY <1>4 DEF SendFrom
  <2>2. wallet \in [Users -> Nat] /\ amount \in Nat
    BY <1>1 DEF VInv, VaultTypeOK
  <2>3. staked \in Nat /\ wallet' \in [Users -> Nat]
    BY <2>1, <2>2
  <2> HIDE DEF staked
  <2> QED
    BY <1>1, <2>1, <2>3, StakeIsFair DEF BInv, HomeOK
<1>5. ASSUME NEW amount \in Amounts, SendHome(amount)
      PROVE  BInv' /\ UNCHANGED vaultVars
  BY <1>1, <1>2, <1>5 DEF SendHome, BInv, HomeOK, BagAdd
<1>6. ASSUME NEW u \in Users, NEW amount \in DOMAIN home, NEW gain \in Gains, CreditTo(u, amount, gain)
      PROVE  BInv' /\ ShareKeepsWorth
  <2>1. amount \in Nat /\ gain \in Nat
    BY <1>1 DEF HomeOK
  <2>2. HomeOK'
    BY <1>1, <1>6 DEF CreditTo, HomeOK, BagRemove
  <2>3. Pay(u, amount, gain)
    BY <1>6 DEF CreditTo
  <2> QED
    BY <1>1, <2>1, <2>2, <2>3, PayIsFair DEF BInv
<1>7. ASSUME NEW report \in Reports, NEW extraGain \in ExtraGains, HarvestBridge(report, extraGain)
      PROVE  BInv' /\ UNCHANGED vaultVars
  BY <1>1, <1>2, <1>7 DEF HarvestBridge, BInv, HomeOK
<1>8. ASSUME NEW t \in Tokens, NEW c \in Chains, ProcessClaimable(t, c)
      PROVE  BInv' /\ UNCHANGED vaultVars
  BY <1>1, <1>2, <1>8 DEF ProcessClaimable, BInv, HomeOK
<1>9. ASSUME NEW u \in Users, NEW amount \in Amounts, NEW gain \in Gains, Rescue(u, amount, gain)
      PROVE  BInv' /\ ShareKeepsWorth
  <2>1. Pay(u, amount, gain) /\ UNCHANGED home /\ amount \in Nat /\ gain \in Nat
    BY <1>9 DEF Rescue
  <2> QED
    BY <1>1, <2>1, PayIsFair DEF BInv, HomeOK
<1>10. ASSUME NEW amount \in Amounts, RescueExtra(amount)
       PROVE  BInv' /\ UNCHANGED vaultVars
  BY <1>1, <1>2, <1>10 DEF RescueExtra, BInv, HomeOK
<1>11. CASE UNCHANGED vars
  BY <1>1, <1>2, <1>11 DEF vars, bridgeVars, BInv, HomeOK
<1>12. CASE TakesShares
  <2>1. VaultStep(Users) /\ UNCHANGED home
    BY <1>12, TakingIsAVaultStep DEF SharesLeave, bridgeVars
  <2>2. VInv' /\ ShareKeepsWorth
    BY <1>1, <2>1, VaultStepIsFair
  <2> QED
    BY <1>1, <2>1, <2>2 DEF BInv, HomeOK
<1> QED
  BY <1>3, <1>4, <1>5, <1>6, <1>7, <1>8, <1>9, <1>10, <1>11, <1>12
  DEF Next, BridgeStep, SudoStep, TakesShares

(* They hold in every state.                                               *)
LEMMA BridgeInvariant == Spec => []BInv
  BY BridgeInitIsFair, BridgeStepIsFair, PTL DEF Spec

(* With the bridge as a user, a share is worth at least one auraBAL.       *)
THEOREM BridgeKeepsSharesBacked == Spec => []SharesAreBacked
  BY BridgeInvariant, PTL DEF BInv, VInv

(* Neither what is sent abroad nor what comes home makes a share worth     *)
(* less, though the bridge pays no penalty.                                *)
THEOREM BridgeNeverTakesFromShares == Spec => ShareNeverLoses
<1>1. BInv /\ [Next]_vars =>
        [totalSupply > 0 /\ totalSupply' > 0 =>
           totalUnderlying' * totalSupply >= totalUnderlying * totalSupply']_vaultVars
  BY BridgeStepIsFair DEF ShareKeepsWorth
<1> QED
  BY <1>1, BridgeInvariant, PTL DEF Spec, ShareNeverLoses

(* Whatever is asked of the vault, it is paid, so the require "!withdrawn" *)
(* of AuraBalProxyOFT._withdraw never fails.                               *)
WithdrawnIsEnough ==
  totalSupply > 0 =>
    \A amount \in Nat, gain \in Nat :
      PreviewWithdraw(amount, 0) <= totalSupply => PaidFor(PreviewWithdraw(amount, 0), 0, gain) >= amount

(* The proxy can always get what it asks for out of the vault.             *)
THEOREM BridgeIsPaid == Spec => []WithdrawnIsEnough
<1>1. BInv => WithdrawnIsEnough
  BY VaultPaysEnough DEF BInv, WithdrawnIsEnough
<1> QED
  BY <1>1, BridgeInvariant, PTL

(* And with the vault's penalty, for every other user.                     *)
THEOREM BridgeLeavesWithdrawEnough == Spec => []WithdrawCoversAssets
<1>1. BInv => WithdrawCoversAssets
  BY WithdrawPays, VaultAssumption DEF WithdrawCoversAssets, BInv, VInv, VaultTypeOK
<1> QED
  BY <1>1, BridgeInvariant, PTL

-----------------------------------------------------------------------------
(* The sum of a bag.  SumBag adds an element as often as it is in the bag, *)
(* by a recursive function, and one element after the other by another.    *)

(* pow gives every multiple of x.                                          *)
IsTimes(pow, x) == pow = [n \in Nat \ {0} |-> (IF n = 1 THEN 0 ELSE pow[n - 1]) + x]

Times(x, n) == (CHOOSE pow : IsTimes(pow, x))[n]

(* sum gives every set of elements of B what they add.                     *)
IsBagSum(sum, B, S) ==
  sum = [s \in SUBSET S |->
           IF s = {} THEN 0
           ELSE LET x == CHOOSE x \in s : TRUE IN Times(x, B[x]) + sum[s \ {x}]]

(* The sum of a bag is read off the function that CHOOSE takes.            *)
LEMMA BagSumIsChosen ==
  ASSUME NEW B
  PROVE  SumBag(B) = (CHOOSE sum : IsBagSum(sum, B, DOMAIN B))[DOMAIN B]
  BY DEF SumBag, FoldBag, MapThenFoldBag, MapThenFoldSet, IsBagSum, Times, IsTimes

(* A multiple is a product.                                                *)
LEMMA TimesIsProduct ==
  ASSUME NEW x \in Nat, NEW n \in Nat \ {0}
  PROVE  Times(x, n) = n * x
<1> DEFINE f == [k \in Nat \ {0} |-> k * x]
           g == CHOOSE pow : IsTimes(pow, x)
<1>1. IsTimes(f, x)
  <2>1. \A k \in Nat \ {0} : k * x = (IF k = 1 THEN 0 ELSE f[k - 1]) + x
    <3>1. ASSUME NEW k \in Nat \ {0} PROVE k * x = (IF k = 1 THEN 0 ELSE f[k - 1]) + x
      <4>1. CASE k = 1
        BY <4>1
      <4>2. CASE k # 1
        <5>1. k - 1 \in Nat \ {0}
          BY <4>2
        <5>2. f[k - 1] = (k - 1) * x
          BY <5>1
        <5>3. (k - 1) * x + x = k * x
          BY SMT
        <5> HIDE DEF f
        <5> QED
          BY <4>2, <5>2, <5>3
      <4> QED
        BY <4>1, <4>2
    <3> QED
      BY <3>1
  <2> QED
    BY <2>1 DEF IsTimes
<1>2. IsTimes(g, x)
  BY <1>1
<1> HIDE DEF f, g
<1>3. \A k \in Nat \ {0} : g[k] = (IF k = 1 THEN 0 ELSE g[k - 1]) + x
  BY <1>2 DEF IsTimes
<1> DEFINE Bad == {k \in Nat \ {0} : g[k] # k * x}
<1>4. SUFFICES ASSUME Bad # {} PROVE FALSE
  BY DEF Times, g
<1>5. PICK k \in Bad : \A l \in Bad : k <= l
  <2>1. Bad \in SUBSET Nat
    OBVIOUS
  <2> HIDE DEF Bad
  <2> QED
    BY <1>4, <2>1, SmallestExists
<1>6. k \in Nat \ {0} /\ g[k] # k * x
  BY <1>5
<1>7. CASE k = 1
  BY <1>3, <1>6, <1>7
<1>8. CASE k # 1
  <2>1. k - 1 \in Nat \ {0} /\ ~(k <= k - 1)
    BY <1>6, <1>8
  <2>2. k - 1 \notin Bad
    BY <1>5, <2>1
  <2>3. g[k - 1] = (k - 1) * x
    BY <2>1, <2>2
  <2>4. (k - 1) * x + x = k * x
    BY <1>6, SMT
  <2>5. g[k] = g[k - 1] + x
    BY <1>3, <1>6, <1>8
  <2> QED
    BY <1>6, <2>3, <2>4, <2>5
<1> QED
  BY <1>7, <1>8

(* A bag of natural numbers, and what each of them adds to its sum.        *)
IsBagOfNat(B) ==
  /\ IsFiniteSet(DOMAIN B) /\ DOMAIN B \subseteq Nat
  /\ \A x \in DOMAIN B : B[x] \in Nat \ {0}

Weights(B) == [x \in DOMAIN B |-> B[x] * x]

(* The sum of a bag is the sum of what its elements add.                   *)
LEMMA BagSumIsSum ==
  ASSUME NEW B, IsBagOfNat(B)
  PROVE  SumBag(B) = SumFunctionOnSet(Weights(B), DOMAIN B)
<1> DEFINE S == DOMAIN B
           w == Weights(B)
           g == CHOOSE sum : IsSumOn(sum, w, S)
           h == CHOOSE sum : IsBagSum(sum, B, S)
<1>1. ASSUME NEW s \in SUBSET S, s # {}
      PROVE  LET x == CHOOSE x \in s : TRUE IN Times(x, B[x]) = w[x]
  <2> DEFINE x == CHOOSE x \in s : TRUE
  <2>1. x \in S
    BY <1>1
  <2> HIDE DEF x
  <2>2. Times(x, B[x]) = B[x] * x
    BY <2>1, TimesIsProduct DEF IsBagOfNat
  <2>3. w[x] = B[x] * x
    BY <2>1 DEF Weights
  <2> QED
    BY <2>2, <2>3 DEF x
<1>2. ASSUME NEW sum PROVE IsSumOn(sum, w, S) <=> IsBagSum(sum, B, S)
  <2> DEFINE F == [s \in SUBSET S |->
                     IF s = {} THEN 0
                     ELSE LET x == CHOOSE x \in s : TRUE IN w[x] + sum[s \ {x}]]
             G == [s \in SUBSET S |->
                     IF s = {} THEN 0
                     ELSE LET x == CHOOSE x \in s : TRUE IN Times(x, B[x]) + sum[s \ {x}]]
  <2>1. \A s \in SUBSET S : F[s] = G[s]
    <3> HIDE DEF w
    <3> QED
      BY <1>1
  <2>2. F = G
    <3>1. F = [s \in SUBSET S |-> F[s]] /\ G = [s \in SUBSET S |-> G[s]]
      OBVIOUS
    <3> HIDE DEF F, G
    <3> QED
      BY <2>1, <3>1
  <2> QED
    BY <2>2 DEF IsSumOn, IsBagSum
<1>3. IsFiniteSet(S)
  BY DEF IsBagOfNat
<1>4. IsSumOn(g, w, S)
  BY <1>3, SumExists
<1>5. IsBagSum(g, B, S)
  BY <1>2, <1>4
<1>6. IsBagSum(h, B, S)
  BY <1>5
<1>7. IsSumOn(h, w, S)
  BY <1>2, <1>6
<1>8. g[S] = h[S]
  <2> HIDE DEF g, h, w
  <2> QED
    BY <1>3, <1>4, <1>7, SumsAgree
<1>9. SumBag(B) = h[S]
  BY BagSumIsChosen
<1>10. SumFunctionOnSet(w, S) = g[S]
  BY SumIsChosen
<1> QED
  BY <1>8, <1>9, <1>10

(* The sum of a bag is a natural number.                                   *)
LEMMA BagSumIsNat ==
  ASSUME NEW B, IsBagOfNat(B)
  PROVE  /\ SumBag(B) \in Nat
         /\ \A x \in DOMAIN B : Weights(B)[x] \in Nat
<1>1. \A x \in DOMAIN B : Weights(B)[x] \in Nat
  <2>1. ASSUME NEW x \in DOMAIN B PROVE B[x] * x \in Nat
    BY ProductIsNat DEF IsBagOfNat
  <2> QED
    BY <2>1 DEF Weights
<1>2. SumFunctionOnSet(Weights(B), DOMAIN B) \in Nat
  BY <1>1, SumIsNat DEF IsBagOfNat
<1> QED
  BY <1>1, <1>2, BagSumIsSum

(* A bag with one more of x, which may have been in it before.             *)
IsOneMore(C, B, x) ==
  /\ x \in DOMAIN C /\ DOMAIN B \subseteq DOMAIN C /\ DOMAIN C \subseteq DOMAIN B \cup {x}
  /\ \A y \in DOMAIN B \ {x} : C[y] = B[y]
  /\ IF x \in DOMAIN B THEN C[x] = B[x] + 1 ELSE C[x] = 1

(* One more of x adds x to the sum.                                        *)
LEMMA BagSumGrows ==
  ASSUME NEW B, IsBagOfNat(B), NEW C, IsBagOfNat(C), NEW x \in Nat, IsOneMore(C, B, x)
  PROVE  SumBag(C) = SumBag(B) + x
<1> DEFINE I == DOMAIN C
           D == DOMAIN B
           f == Weights(B)
           g == Weights(C)
<1>1. \A y \in I \ {x} : y \in D /\ f[y] \in Nat /\ g[y] = f[y]
  BY BagSumIsNat DEF IsOneMore, Weights
<1>2. x \in D => f[x] \in Nat
  BY BagSumIsNat
<1>3. x \in D => g[x] = x + f[x]
  <2> SUFFICES ASSUME x \in D PROVE g[x] = x + f[x]
    OBVIOUS
  <2>1. f[x] = B[x] * x /\ g[x] = (B[x] + 1) * x /\ B[x] \in Nat
    BY DEF IsOneMore, Weights, IsBagOfNat
  <2>2. \A k, n \in Nat : (k + 1) * n = n + k * n
    BY SMT
  <2> QED
    BY <2>1, <2>2
<1>4. x \notin D => g[x] = x
  BY DEF IsOneMore, Weights
<1>5. IsFiniteSet(I) /\ x \in I /\ I \cap D = D
  BY DEF IsOneMore, IsBagOfNat
<1>6. IsFiniteSet(D)
  BY DEF IsBagOfNat
<1>7. SumBag(B) = SumFunctionOnSet(f, D) /\ SumBag(C) = SumFunctionOnSet(g, I)
  BY BagSumIsSum
<1> HIDE DEF I, D, f, g
<1>8. SumFunctionOnSet(g, I) = SumFunctionOnSet(f, I \cap D) + x
  <2> DEFINE d == x
             y == x
  <2>1. d \in Nat /\ y \in I /\ \A z \in I \ {y} : z \in D /\ f[z] \in Nat /\ g[z] = f[z]
    BY <1>1, <1>5
  <2>2. CASE x \in D
    <3>1. y \in D /\ f[y] \in Nat /\ g[y] = d + f[y]
      BY <1>2, <1>3, <2>2
    <3> HIDE DEF d, y
    <3>2. \A z \in I : f[z] \in Int /\ g[z] \in Int /\ (z # y => f[z] = g[z])
      BY <2>1, <3>1
    <3>3. SumFunctionOnSet(g, I) = SumFunctionOnSet(f, I) + (g[y] - f[y])
      BY <1>5, <2>1, <3>2, SumOfChanged
    <3>4. I \cap D = I
      BY <2>1, <3>1
    <3>5. SumFunctionOnSet(f, I \cap D) = SumFunctionOnSet(f, I)
      BY <3>4, Zenon
    <3>6. g[y] - f[y] = d
      BY <2>1, <3>1
    <3> QED
      BY <3>3, <3>5, <3>6 DEF d
  <2>3. CASE x \notin D
    <3>1. y \notin D /\ g[y] = d
      BY <1>4, <2>3
    <3> HIDE DEF d, y
    <3>2. \A z \in I : g[z] \in Int
      BY <2>1, <3>1
    <3>3. SumFunctionOnSet(g, I) = g[y] + SumFunctionOnSet(g, I \ {y})
      BY <1>5, <2>1, <3>2, SumRemove
    <3>4. I \ {y} = D /\ I \cap D = D
      BY <1>5, <2>1, <3>1
    <3>5. SumFunctionOnSet(g, I \ {y}) = SumFunctionOnSet(g, D)
      BY <3>4, Zenon
    <3>6. IsFiniteSet(D) /\ \A z \in D : f[z] \in Int /\ f[z] = g[z]
      BY <2>1, <3>4, <1>6
    <3>7. SumFunctionOnSet(f, D) = SumFunctionOnSet(g, D) /\ SumFunctionOnSet(f, D) \in Int
      BY <3>6, SumOfSame, SumIsInt
    <3>8. SumFunctionOnSet(f, I \cap D) = SumFunctionOnSet(f, D)
      BY <3>4, Zenon
    <3> QED
      BY <2>1, <3>1, <3>3, <3>5, <3>7, <3>8 DEF d
  <2> QED
    BY <2>2, <2>3
<1>9. SumFunctionOnSet(f, I \cap D) = SumFunctionOnSet(f, D)
  BY <1>5, Zenon
<1> QED
  BY <1>7, <1>8, <1>9

(* Putting a number into a bag adds it to the sum.                         *)
LEMMA BagAdds ==
  ASSUME NEW B, IsBagOfNat(B), NEW x \in Nat
  PROVE  IsBagOfNat(BagAdd(B, x)) /\ SumBag(BagAdd(B, x)) = SumBag(B) + x
<1> DEFINE C == BagAdd(B, x)
<1>1. DOMAIN C = DOMAIN B \cup {x} /\ IsOneMore(C, B, x)
  BY DEF BagAdd, IsOneMore
<1>2. \A y \in DOMAIN C : C[y] \in Nat \ {0}
  BY <1>1 DEF IsOneMore, IsBagOfNat
<1> HIDE DEF C
<1>3. IsBagOfNat(C)
  BY <1>1, <1>2, FiniteWithOne DEF IsBagOfNat
<1> QED
  BY <1>1, <1>3, BagSumGrows DEF C

(* Taking a number out of a bag takes it from the sum.                     *)
LEMMA BagRemoves ==
  ASSUME NEW B, IsBagOfNat(B), NEW x \in DOMAIN B
  PROVE  IsBagOfNat(BagRemove(B, x)) /\ SumBag(B) = SumBag(BagRemove(B, x)) + x
<1> DEFINE C == BagRemove(B, x)
<1>1. x \in Nat /\ B[x] \in Nat \ {0}
  BY DEF IsBagOfNat
<1>2. /\ DOMAIN C = DOMAIN B \/ DOMAIN C = DOMAIN B \ {x}
      /\ \A y \in DOMAIN C : C[y] \in Nat \ {0}
      /\ IsOneMore(B, C, x)
  BY <1>1 DEF BagRemove, IsOneMore, IsBagOfNat
<1> HIDE DEF C
<1>3. IsBagOfNat(C)
  BY <1>2, FiniteWithOne DEF IsBagOfNat
<1>4. SumBag(B) = SumBag(C) + x
  BY <1>1, <1>2, <1>3, BagSumGrows
<1> QED
  BY <1>3, <1>4 DEF C

-----------------------------------------------------------------------------
(* What the bridge counts.                                                 *)

FundsOK ==
  /\ internalTotalSupply \in Nat /\ held \in Nat /\ extra \in Nat
  /\ abroad \in Nat /\ toItself \in Nat
  /\ claimable \in [Tokens -> [Chains -> Nat]]
  /\ totalClaimable \in [Tokens -> Nat]
  /\ rescued \in [Tokens -> Nat]
  /\ IsBagOfNat(home)

(* The sum of what the chains get is a number.                             *)
LEMMA ChainsHaveSum ==
  ASSUME NEW f \in [Chains -> Nat]
  PROVE  SumFunction(f) = SumFunctionOnSet(f, Chains) /\ SumFunction(f) \in Nat
<1>1. DOMAIN f = Chains
  OBVIOUS
<1>2. SumFunction(f) = SumFunctionOnSet(f, Chains)
  BY <1>1, Zenon DEF SumFunction
<1>3. IsFiniteSet(Chains) /\ \A c \in Chains : f[c] \in Nat
  BY AuraBalBridgeAssumption
<1>4. SumFunctionOnSet(f, Chains) \in Nat
  BY <1>3, SumIsNat
<1> QED
  BY <1>2, <1>4

(* The parts of the chains are within what is divided.                     *)
LEMMA PartsFit ==
  ASSUME NEW amount \in Nat, NEW report \in [Chains -> Nat], SumFunction(report) > 0,
         NEW parts, parts = [c \in Chains |-> Part(amount, report, c)]
  PROVE  parts \in [Chains -> Nat] /\ SumFunction(parts) \in Nat /\ SumFunction(parts) <= amount
<1> DEFINE unit == SumFunction(report)
           owed == [c \in Chains |-> report[c] * amount]
<1>1. unit \in Nat \ {0} /\ unit = SumFunctionOnSet(report, Chains)
  BY ChainsHaveSum
<1>2. IsFiniteSet(Chains)
  BY AuraBalBridgeAssumption
<1>3. \A c \in Chains : parts[c] = (amount * report[c]) \div unit
  BY DEF Part
<1> HIDE DEF unit
<1>4. ASSUME NEW c \in Chains
      PROVE  parts[c] \in Nat /\ report[c] * amount \in Nat /\ parts[c] * unit <= report[c] * amount
  <2>1. amount * report[c] = report[c] * amount /\ report[c] * amount \in Nat
    BY ProductIsNat, SMT
  <2> DEFINE a == report[c] * amount
  <2>2. a \in Nat /\ parts[c] = a \div unit
    BY <1>3, <2>1
  <2> HIDE DEF a
  <2>3. parts[c] \in Nat /\ parts[c] * unit <= a
    BY <1>1, <2>2, DivIsFloor
  <2> QED
    BY <2>1, <2>3 DEF a
<1>5. \A c \in Chains : owed[c] = report[c] * amount
  OBVIOUS
<1>6. \A c \in Chains : parts[c] \in Nat /\ owed[c] \in Nat /\ parts[c] * unit <= owed[c]
  BY <1>4, <1>5
<1> HIDE DEF owed
<1>7. SumFunctionOnSet(parts, Chains) * unit <= SumFunctionOnSet(owed, Chains)
      /\ SumFunctionOnSet(parts, Chains) \in Nat
  BY <1>1, <1>2, <1>6, SumOfFloors
<1>8. SumFunctionOnSet(owed, Chains) = unit * amount
  <2>1. amount \in Int /\ \A c \in Chains : report[c] \in Int /\ owed[c] = report[c] * amount
    BY <1>5
  <2>2. SumFunctionOnSet(owed, Chains) = SumFunctionOnSet(report, Chains) * amount
    BY <1>2, <2>1, SumScales
  <2> QED
    BY <1>1, <2>2
<1>9. parts \in [Chains -> Nat]
  BY <1>6
<1>10. SumFunction(parts) = SumFunctionOnSet(parts, Chains)
  BY <1>9, ChainsHaveSum
<1>11. SumFunctionOnSet(parts, Chains) <= amount
  <2> DEFINE n == SumFunctionOnSet(parts, Chains)
  <2>1. n \in Nat /\ n * unit <= unit * amount
    BY <1>7, <1>8
  <2> HIDE DEF n
  <2>2. unit * amount = amount * unit
    BY <1>1, SMT
  <2>3. n <= amount
    BY <1>1, <2>1, <2>2, ProductCancels
  <2> QED
    BY <2>3 DEF n
<1> QED
  BY <1>7, <1>9, <1>10, <1>11

(* What is harvested is a number, by the subtraction that has not reverted. *)
LEMMA HarvestIsNat ==
  ASSUME VInv, FundsOK, NEW report \in Reports, NEW extraGain \in ExtraGains,
         HarvestBridge(report, extraGain), NEW t \in Tokens
  PROVE  /\ Harvestable(extraGain)[t] \in Nat
         /\ Harvestable(extraGain)["AURA"] = held + extraGain - totalClaimable["AURA"]
<1>1. Harvestable(extraGain)[t] >= 0 /\ totalSupply > 0
  BY DEF HarvestBridge
<1>2. /\ Harvestable(extraGain)["AURA"] = held + extraGain - totalClaimable["AURA"]
      /\ Harvestable(extraGain)["auraBAL"]
           = UnderlyingOf(balanceOf[Proxy]) - internalTotalSupply - totalClaimable["auraBAL"]
  BY DEF Harvestable
<1>3. /\ held \in Nat /\ extraGain \in Nat /\ internalTotalSupply \in Nat
      /\ totalClaimable["AURA"] \in Nat /\ totalClaimable["auraBAL"] \in Nat
  BY AuraBalBridgeAssumption DEF FundsOK, Tokens
<1>4. UnderlyingOf(balanceOf[Proxy]) \in Nat
  <2>1. balanceOf[Proxy] \in Nat /\ totalUnderlying \in Nat /\ totalSupply \in Nat \ {0}
    BY <1>1, AuraBalBridgeAssumption DEF VInv, VaultTypeOK
  <2>2. balanceOf[Proxy] * totalUnderlying \in Nat
    BY <2>1, ProductIsNat
  <2> QED
    BY <2>1, <2>2, DivIsFloor DEF UnderlyingOf
<1>5. Harvestable(extraGain)[t] \in Int
  <2>1. held + extraGain - totalClaimable["AURA"] \in Int
    BY <1>3
  <2>2. UnderlyingOf(balanceOf[Proxy]) - internalTotalSupply - totalClaimable["auraBAL"] \in Int
    BY <1>3, <1>4
  <2> QED
    BY <1>2, <2>1, <2>2 DEF Tokens
<1> QED
  BY <1>1, <1>2, <1>5

(* What is abroad is on the sidechains or on its way home, and claims are  *)
(* kept: the two properties, with the types they need.                     *)
FInv == FundsOK /\ SupplyIsAbroad /\ ClaimsAreKept

(* Both speak of nothing but the funds.                                    *)
LEMMA FundsUnchanged ==
  ASSUME FInv, UNCHANGED bridgeVars
  PROVE  FInv'
BY DEF FInv, FundsOK, SupplyIsAbroad, ClaimsAreKept, bridgeVars, claimVars

(* The supply, when claims are left alone.                                 *)
LEMMA SupplyMoves ==
  ASSUME FInv, UNCHANGED <<claimable, totalClaimable, extra>>,
         internalTotalSupply' \in Nat, abroad' \in Nat, toItself' \in Nat, held' \in Nat,
         rescued' \in [Tokens -> Nat], IsBagOfNat(home'),
         held' + rescued'["AURA"] = held + rescued["AURA"],
         internalTotalSupply' + rescued'["auraBAL"] = abroad' + SumBag(home') + toItself'
  PROVE  FInv'
BY DEF FInv, FundsOK, SupplyIsAbroad, ClaimsAreKept

(* The bridge starts with no funds.                                        *)
LEMMA FundsStart == Init => FInv
<1> SUFFICES ASSUME Init PROVE FInv
  OBVIOUS
<1>1. /\ internalTotalSupply = 0 /\ held = 0 /\ extra = InitialExtra /\ abroad = 0 /\ toItself = 0
      /\ claimable = [t \in Tokens |-> [c \in Chains |-> 0]]
      /\ totalClaimable = [t \in Tokens |-> 0]
      /\ rescued = [t \in Tokens |-> 0]
      /\ home = EmptyBag
  BY DEF Init
<1>2. IsBagOfNat(home) /\ DOMAIN home = {}
  BY <1>1, FiniteWithOne DEF EmptyBag, SetToBag, IsBagOfNat
<1>3. SumBag(home) = 0
  <2>1. SumBag(home) = SumFunctionOnSet(Weights(home), DOMAIN home)
    BY <1>2, BagSumIsSum
  <2>2. SumFunctionOnSet(Weights(home), {}) = 0
    BY SumEmpty
  <2> QED
    BY <1>2, <2>1, <2>2, Zenon
<1>4. FundsOK
  BY <1>1, <1>2, AuraBalBridgeAssumption DEF FundsOK
<1>5. \A t \in Tokens : SumFunction(claimable[t]) = 0
  <2> SUFFICES ASSUME NEW t \in Tokens PROVE SumFunction(claimable[t]) = 0
    OBVIOUS
  <2>1. claimable[t] \in [Chains -> Nat] /\ \A c \in Chains : claimable[t][c] = 0
    BY <1>1
  <2>2. SumFunction(claimable[t]) = SumFunctionOnSet(claimable[t], Chains)
    BY <2>1, ChainsHaveSum
  <2>3. SumFunctionOnSet(claimable[t], Chains) = 0
    BY <2>1, SumOfZeros, AuraBalBridgeAssumption
  <2> QED
    BY <2>2, <2>3
<1>6. SupplyIsAbroad
  BY <1>1, <1>3 DEF SupplyIsAbroad, Tokens
<1>7. ClaimsAreKept
  BY <1>1, <1>5 DEF ClaimsAreKept, Tokens
<1> QED
  BY <1>4, <1>6, <1>7 DEF FInv

(* Sending adds to the supply all that it sends abroad.                    *)
LEMMA SendFromCounts ==
  ASSUME BInv, FInv, NEW u \in Users, NEW amount \in Amounts \cup {0}, SendFrom(u, amount)
  PROVE  FInv'
<1>1. wallet[Proxy] \in Nat /\ amount \in Nat
  BY VaultAssumption, AuraBalBridgeAssumption DEF BInv, VInv, VaultTypeOK
<1> DEFINE staked == wallet[Proxy] + amount
<1>2. /\ internalTotalSupply' = internalTotalSupply + staked
      /\ abroad' = abroad + staked
      /\ UNCHANGED <<claimVars, home, rescued, toItself>>
  BY DEF SendFrom, Debited
<1>3. staked \in Nat
  BY <1>1
<1> HIDE DEF staked
<1>4. SumBag(home') = SumBag(home) /\ SumBag(home) \in Nat
  BY <1>2, BagSumIsNat DEF FInv, FundsOK
<1>5. internalTotalSupply' + rescued'["auraBAL"] = abroad' + SumBag(home') + toItself'
  BY <1>2, <1>3, <1>4 DEF FInv, FundsOK, SupplyIsAbroad, Tokens
<1> QED
  BY <1>2, <1>3, <1>5, SupplyMoves DEF FInv, FundsOK, claimVars

(* What is burnt abroad is on its way home.                                *)
LEMMA SendHomeCounts ==
  ASSUME FInv, NEW amount \in Amounts, SendHome(amount)
  PROVE  FInv'
<1>1. /\ amount \in Nat /\ amount <= abroad /\ abroad' = abroad - amount
      /\ home' = BagAdd(home, amount)
      /\ UNCHANGED <<internalTotalSupply, claimVars, rescued, toItself>>
  BY VaultAssumption DEF SendHome
<1>2. IsBagOfNat(home) /\ SumBag(home) \in Nat
  BY BagSumIsNat DEF FInv, FundsOK
<1>3. IsBagOfNat(home') /\ SumBag(home') = SumBag(home) + amount
  BY <1>1, <1>2, BagAdds
<1>4. internalTotalSupply' + rescued'["auraBAL"] = abroad' + SumBag(home') + toItself'
  BY <1>1, <1>2, <1>3 DEF FInv, FundsOK, SupplyIsAbroad, Tokens
<1> QED
  BY <1>1, <1>3, <1>4, SupplyMoves DEF FInv, FundsOK, claimVars

(* A credit takes its message, and what it pays out, from the supply.      *)
LEMMA CreditToCounts ==
  ASSUME FInv, NEW u \in Users, NEW amount \in DOMAIN home, NEW gain, CreditTo(u, amount, gain)
  PROVE  FInv'
<1> DEFINE kept == IF u = Proxy THEN amount ELSE 0
           left == BagRemove(home, amount)
<1>1. /\ internalTotalSupply >= amount - kept
      /\ internalTotalSupply' = internalTotalSupply - (amount - kept)
      /\ home' = left
      /\ toItself' = toItself + kept
      /\ UNCHANGED <<claimVars, abroad, rescued>>
  BY DEF CreditTo
<1>2. IsBagOfNat(home) /\ SumBag(home) \in Nat /\ amount \in Nat
  BY BagSumIsNat DEF FInv, FundsOK, IsBagOfNat
<1>3. IsBagOfNat(left) /\ SumBag(home) = SumBag(left) + amount
  BY <1>2, BagRemoves
<1>4. SumBag(left) \in Nat
  BY <1>3, BagSumIsNat
<1>5. kept \in Nat /\ kept <= amount
  BY <1>2
<1> HIDE DEF kept, left
<1>6. SumBag(home') = SumBag(left) /\ IsBagOfNat(home')
  BY <1>1, <1>3
<1>7. internalTotalSupply' + rescued'["auraBAL"] = abroad' + SumBag(home') + toItself'
  BY <1>1, <1>2, <1>3, <1>4, <1>5, <1>6 DEF FInv, FundsOK, SupplyIsAbroad, Tokens
<1>8. internalTotalSupply' \in Nat /\ toItself' \in Nat
  BY <1>1, <1>2, <1>5 DEF FInv, FundsOK
<1> QED
  BY <1>1, <1>6, <1>7, <1>8, SupplyMoves DEF FInv, FundsOK, claimVars

(* A rescue takes from the supply what it counts as rescued.               *)
LEMMA RescueCounts ==
  ASSUME FInv, NEW u \in Users, NEW amount \in Amounts, NEW gain, Rescue(u, amount, gain)
  PROVE  FInv'
<1>1. /\ amount \in Nat /\ internalTotalSupply >= amount
      /\ internalTotalSupply' = internalTotalSupply - amount
      /\ rescued' = [rescued EXCEPT !["auraBAL"] = @ + amount]
      /\ UNCHANGED <<claimVars, abroad, home, toItself>>
  BY VaultAssumption DEF Rescue
<1>2. /\ rescued' \in [Tokens -> Nat] /\ rescued'["AURA"] = rescued["AURA"]
      /\ rescued'["auraBAL"] = rescued["auraBAL"] + amount
  BY <1>1 DEF FInv, FundsOK, Tokens
<1>3. SumBag(home') = SumBag(home) /\ SumBag(home) \in Nat
  BY <1>1, BagSumIsNat DEF FInv, FundsOK
<1>4. internalTotalSupply' + rescued'["auraBAL"] = abroad' + SumBag(home') + toItself'
  BY <1>1, <1>2, <1>3 DEF FInv, FundsOK, SupplyIsAbroad, Tokens
<1>5. internalTotalSupply' \in Nat
  BY <1>1 DEF FInv, FundsOK
<1> QED
  BY <1>1, <1>2, <1>4, <1>5, SupplyMoves DEF FInv, FundsOK, claimVars

(* A rescue of AURA takes from what is held.                               *)
LEMMA RescueExtraCounts ==
  ASSUME FInv, NEW amount \in Amounts, RescueExtra(amount)
  PROVE  FInv'
<1>1. /\ amount \in Nat /\ amount <= held /\ held' = held - amount
      /\ rescued' = [rescued EXCEPT !["AURA"] = @ + amount]
      /\ UNCHANGED <<internalTotalSupply, claimable, totalClaimable, extra, abroad, home, toItself>>
  BY VaultAssumption DEF RescueExtra
<1>2. /\ rescued' \in [Tokens -> Nat] /\ rescued'["auraBAL"] = rescued["auraBAL"]
      /\ rescued'["AURA"] = rescued["AURA"] + amount
  BY <1>1 DEF FInv, FundsOK, Tokens
<1>3. SumBag(home') = SumBag(home)
  BY <1>1
<1>4. held' \in Nat /\ held' + rescued'["AURA"] = held + rescued["AURA"]
  BY <1>1, <1>2 DEF FInv, FundsOK, Tokens
<1> QED
  BY <1>1, <1>2, <1>3, <1>4, SupplyMoves DEF FInv, FundsOK, SupplyIsAbroad

(* What the chains could claim before, and what they get now.              *)
LEMMA ClaimsAdd ==
  ASSUME NEW f \in [Chains -> Nat], NEW g \in [Chains -> Nat], NEW h \in [Chains -> Nat],
         \A c \in Chains : h[c] = f[c] + g[c]
  PROVE  SumFunction(h) = SumFunction(f) + SumFunction(g)
<1>1. SumFunctionOnSet(h, Chains) = SumFunctionOnSet(f, Chains) + SumFunctionOnSet(g, Chains)
  <2>1. \A c \in Chains : f[c] \in Int /\ g[c] \in Int /\ h[c] = f[c] + g[c]
    OBVIOUS
  <2> QED
    BY <2>1, SumOfSums, AuraBalBridgeAssumption
<1> QED
  BY <1>1, ChainsHaveSum

(* A harvest sets aside no more than it found unclaimed.                   *)
LEMMA HarvestCounts ==
  ASSUME BInv, FInv, NEW report \in Reports, NEW extraGain \in ExtraGains,
         HarvestBridge(report, extraGain)
  PROVE  FInv'
<1> DEFINE harvested == Harvestable(extraGain)
           parts(t) == [c \in Chains |-> Part(harvested[t], report, c)]
<1>1. /\ SumFunction(report) > 0 /\ extraGain <= extra
      /\ claimable' = [t \in Tokens |-> [c \in Chains |-> claimable[t][c] + parts(t)[c]]]
      /\ totalClaimable' = [t \in Tokens |-> totalClaimable[t] + SumFunction(parts(t))]
      /\ held' = held + extraGain /\ extra' = extra - extraGain
      /\ UNCHANGED <<internalTotalSupply, abroad, home, rescued, toItself>>
  BY DEF HarvestBridge
<1>2. report \in [Chains -> Nat] /\ extraGain \in Nat
  BY AuraBalBridgeAssumption
<1>3. ASSUME NEW t \in Tokens
      PROVE  /\ harvested[t] \in Nat
             /\ harvested["AURA"] = held + extraGain - totalClaimable["AURA"]
             /\ parts(t) \in [Chains -> Nat] /\ SumFunction(parts(t)) \in Nat
             /\ SumFunction(parts(t)) <= harvested[t]
  <2>1. /\ harvested[t] \in Nat
        /\ harvested["AURA"] = held + extraGain - totalClaimable["AURA"]
    BY HarvestIsNat DEF BInv, FInv
  <2> HIDE DEF harvested
  <2> QED
    BY <1>1, <1>2, <2>1, PartsFit
<1>4. FundsOK /\ claimable \in [Tokens -> [Chains -> Nat]] /\ totalClaimable \in [Tokens -> Nat]
  BY DEF FInv, FundsOK
<1> HIDE DEF harvested
<1> DEFINE sum(t) == SumFunction(parts(t))
<1>5. ASSUME NEW t \in Tokens
      PROVE  /\ claimable'[t] \in [Chains -> Nat]
             /\ totalClaimable'[t] = totalClaimable[t] + sum(t)
             /\ sum(t) \in Nat /\ totalClaimable'[t] \in Nat
             /\ totalClaimable'[t] = SumFunction(claimable'[t])
  <2> DEFINE f == claimable[t]
             g == parts(t)
             h == claimable'[t]
  <2>1. f \in [Chains -> Nat] /\ g \in [Chains -> Nat]
    BY <1>3, <1>4
  <2>2. h = [c \in Chains |-> f[c] + g[c]]
    BY <1>1
  <2> HIDE DEF parts
  <2>3. h \in [Chains -> Nat] /\ \A c \in Chains : h[c] = f[c] + g[c]
    <3> HIDE DEF f, g, h
    <3> QED
      BY <2>1, <2>2
  <2>4. SumFunction(h) = SumFunction(f) + SumFunction(g)
    BY <2>1, <2>3, ClaimsAdd
  <2>5. totalClaimable[t] = SumFunction(f) /\ totalClaimable[t] \in Nat
    BY <1>4 DEF FInv, ClaimsAreKept
  <2>6. totalClaimable'[t] = totalClaimable[t] + SumFunction(g)
    BY <1>1
  <2>7. SumFunction(g) \in Nat
    BY <1>3
  <2> DEFINE a == SumFunction(f)
             b == SumFunction(g)
             d == SumFunction(h)
  <2>8. totalClaimable'[t] = d /\ totalClaimable'[t] \in Nat
    <3>1. d = a + b /\ totalClaimable[t] = a /\ a \in Nat /\ totalClaimable'[t] = totalClaimable[t] + b
          /\ b \in Nat
      BY <2>4, <2>5, <2>6, <2>7
    <3> HIDE DEF a, b, d
    <3> QED
      BY <3>1
  <2> QED
    BY <2>3, <2>6, <2>7, <2>8
<1> HIDE DEF sum, parts
<1>6. "AURA" \in Tokens
  BY DEF Tokens
<1>7. totalClaimable'["AURA"] <= held' + rescued'["AURA"]
  <2>1. /\ harvested["AURA"] \in Nat /\ harvested["AURA"] = held + extraGain - totalClaimable["AURA"]
        /\ sum("AURA") <= harvested["AURA"] /\ sum("AURA") \in Nat
    BY <1>3, <1>6 DEF sum
  <2>2. totalClaimable'["AURA"] = totalClaimable["AURA"] + sum("AURA")
    BY <1>5, <1>6
  <2>3. held \in Nat /\ rescued["AURA"] \in Nat /\ totalClaimable["AURA"] \in Nat
    BY <1>6 DEF FInv, FundsOK
  <2>4. held' = held + extraGain /\ rescued'["AURA"] = rescued["AURA"]
    BY <1>1
  <2> QED
    BY <1>2, <2>1, <2>2, <2>3, <2>4
<1>8. ClaimsAreKept'
  BY <1>5, <1>7 DEF ClaimsAreKept
<1>9. claimable' \in [Tokens -> [Chains -> Nat]] /\ totalClaimable' \in [Tokens -> Nat]
  <2>1. /\ claimable' = [t \in Tokens |-> claimable'[t]]
        /\ totalClaimable' = [t \in Tokens |-> totalClaimable'[t]]
    BY <1>1
  <2> QED
    BY <1>5, <2>1
<1>10. /\ held' \in Nat /\ extra' \in Nat
       /\ internalTotalSupply' \in Nat /\ abroad' \in Nat /\ toItself' \in Nat
       /\ rescued' \in [Tokens -> Nat] /\ IsBagOfNat(home')
  BY <1>1, <1>2 DEF FInv, FundsOK
<1>11. SupplyIsAbroad'
  BY <1>1 DEF FInv, SupplyIsAbroad
<1> QED
  BY <1>8, <1>9, <1>10, <1>11 DEF FInv, FundsOK

(* A claim that is sent on is no longer set aside.                         *)
LEMMA ProcessCounts ==
  ASSUME FInv, NEW t \in Tokens, NEW c \in Chains, ProcessClaimable(t, c)
  PROVE  FInv'
<1> DEFINE reward == claimable[t][c]
           f == claimable[t]
           g == claimable'[t]
<1>1. /\ totalClaimable[t] >= reward
      /\ claimable' = [claimable EXCEPT ![t][c] = 0]
      /\ totalClaimable' = [totalClaimable EXCEPT ![t] = @ - reward]
      /\ UNCHANGED <<extra, home, rescued, toItself>>
      /\ \/ /\ t = "auraBAL"
            /\ internalTotalSupply' = internalTotalSupply + reward
            /\ abroad' = abroad + reward
            /\ UNCHANGED held
         \/ /\ t = "AURA"
            /\ held >= reward
            /\ held' = held - reward
            /\ UNCHANGED <<internalTotalSupply, abroad>>
  BY DEF ProcessClaimable
<1>2. claimable \in [Tokens -> [Chains -> Nat]] /\ totalClaimable \in [Tokens -> Nat]
  BY DEF FInv, FundsOK
<1>3. /\ claimable' \in [Tokens -> [Chains -> Nat]]
      /\ f \in [Chains -> Nat] /\ g \in [Chains -> Nat] /\ reward \in Nat /\ f[c] = reward
      /\ g[c] = 0 /\ \A d \in Chains : d # c => g[d] = f[d]
      /\ \A s \in Tokens : s # t => claimable'[s] = claimable[s]
  BY <1>1, <1>2
<1>4. SumFunction(g) + reward = SumFunction(f) /\ SumFunction(f) \in Nat /\ SumFunction(g) \in Nat
  <2> HIDE DEF f, g, reward
  <2>1. \A d \in Chains : f[d] \in Int /\ g[d] \in Int /\ (d # c => f[d] = g[d])
    BY <1>3
  <2>2. SumFunctionOnSet(g, Chains) = SumFunctionOnSet(f, Chains) + (g[c] - f[c])
    BY <2>1, SumOfChanged, AuraBalBridgeAssumption
  <2>3. /\ SumFunction(f) = SumFunctionOnSet(f, Chains) /\ SumFunction(f) \in Nat
        /\ SumFunction(g) = SumFunctionOnSet(g, Chains) /\ SumFunction(g) \in Nat
    BY <1>3, ChainsHaveSum
  <2> QED
    BY <1>3, <2>2, <2>3
<1>5. /\ totalClaimable' \in [Tokens -> Nat] /\ totalClaimable'[t] = totalClaimable[t] - reward
      /\ \A s \in Tokens : s # t => totalClaimable'[s] = totalClaimable[s]
  <2> HIDE DEF f, g, reward
  <2> QED
    BY <1>1, <1>2, <1>3
<1>6. \A s \in Tokens : totalClaimable'[s] = SumFunction(claimable'[s])
  <2> SUFFICES ASSUME NEW s \in Tokens PROVE totalClaimable'[s] = SumFunction(claimable'[s])
    OBVIOUS
  <2>1. totalClaimable[s] = SumFunction(claimable[s])
    BY DEF FInv, ClaimsAreKept
  <2>2. CASE s # t
    <3>1. SumFunction(claimable'[s]) = SumFunction(claimable[s])
      BY <1>3, <2>2, Zenon
    <3> QED
      BY <1>5, <2>1, <2>2, <3>1
  <2>3. CASE s = t
    <3> DEFINE a == SumFunction(f)
               b == SumFunction(g)
    <3>1. totalClaimable'[t] = a - reward /\ b + reward = a /\ a \in Nat /\ b \in Nat
      BY <1>4, <1>5, <2>1, <2>3
    <3>2. reward \in Nat
      BY <1>3
    <3>3. SumFunction(claimable'[s]) = b
      BY <2>3, Zenon
    <3> HIDE DEF a, b, reward
    <3> QED
      BY <2>3, <3>1, <3>2, <3>3
  <2> QED
    BY <2>2, <2>3
<1>7. SumBag(home') = SumBag(home) /\ SumBag(home) \in Nat /\ IsBagOfNat(home')
  BY <1>1, BagSumIsNat DEF FInv, FundsOK
<1>8. /\ internalTotalSupply \in Nat /\ abroad \in Nat /\ held \in Nat /\ toItself \in Nat
      /\ rescued["auraBAL"] \in Nat /\ rescued["AURA"] \in Nat
      /\ totalClaimable["AURA"] \in Nat
      /\ internalTotalSupply + rescued["auraBAL"] = abroad + SumBag(home) + toItself
      /\ totalClaimable["AURA"] <= held + rescued["AURA"]
  BY DEF FInv, FundsOK, SupplyIsAbroad, ClaimsAreKept, Tokens
<1>9. "AURA" \in Tokens /\ "auraBAL" # "AURA"
  BY DEF Tokens
<1> HIDE DEF reward, f, g
<1>10. /\ internalTotalSupply' \in Nat /\ abroad' \in Nat /\ held' \in Nat
       /\ internalTotalSupply' + rescued'["auraBAL"] = abroad' + SumBag(home') + toItself'
       /\ totalClaimable'["AURA"] <= held' + rescued'["AURA"]
  <2>1. CASE t = "auraBAL"
    <3>1. /\ internalTotalSupply' = internalTotalSupply + reward /\ abroad' = abroad + reward
          /\ held' = held /\ rescued' = rescued /\ toItself' = toItself
      BY <1>1, <1>9, <2>1
    <3>2. totalClaimable'["AURA"] = totalClaimable["AURA"]
      BY <1>5, <1>9, <2>1
    <3>3. held' \in Nat /\ internalTotalSupply' \in Nat /\ abroad' \in Nat
      BY <1>3, <1>8, <3>1
    <3>4. internalTotalSupply' + rescued'["auraBAL"] = abroad' + SumBag(home') + toItself'
      <4>1. \A i, r, o, m, x, k \in Nat : i + r = o + m + x => (i + k) + r = (o + k) + m + x
        OBVIOUS
      <4>2. (internalTotalSupply + reward) + rescued["auraBAL"]
              = (abroad + reward) + SumBag(home) + toItself
        BY <1>3, <1>7, <1>8, <4>1
      <4> QED
        BY <1>7, <3>1, <4>2
    <3>5. totalClaimable'["AURA"] <= held' + rescued'["AURA"]
      BY <1>8, <3>1, <3>2
    <3> QED
      BY <3>3, <3>4, <3>5
  <2>2. CASE t = "AURA"
    <3>1. /\ internalTotalSupply' = internalTotalSupply /\ abroad' = abroad
          /\ held >= reward /\ held' = held - reward /\ rescued' = rescued /\ toItself' = toItself
      BY <1>1, <1>9, <2>2
    <3>2. totalClaimable'["AURA"] = totalClaimable["AURA"] - reward
      BY <1>5, <2>2
    <3>3. held' \in Nat /\ internalTotalSupply' \in Nat /\ abroad' \in Nat
      BY <1>3, <1>8, <3>1
    <3>4. internalTotalSupply' + rescued'["auraBAL"] = abroad' + SumBag(home') + toItself'
      BY <1>7, <1>8, <3>1
    <3>5. totalClaimable'["AURA"] <= held' + rescued'["AURA"]
      <4>1. \A n, h, r, k \in Nat : n <= h + r => n - k <= (h - k) + r
        OBVIOUS
      <4>2. totalClaimable["AURA"] - reward <= (held - reward) + rescued["AURA"]
        BY <1>3, <1>8, <4>1
      <4> QED
        BY <3>1, <3>2, <4>2
    <3> QED
      BY <3>3, <3>4, <3>5
  <2> QED
    BY <2>1, <2>2 DEF Tokens
<1> QED
  BY <1>1, <1>3, <1>5, <1>6, <1>7, <1>10 DEF FInv, FundsOK, SupplyIsAbroad, ClaimsAreKept

(* Every step keeps the supply abroad and the claims.                      *)
LEMMA FundsStep == BInv /\ FInv /\ [Next]_vars => FInv'
<1> SUFFICES ASSUME BInv, FInv, [Next]_vars PROVE FInv'
  OBVIOUS
<1>1. CASE VaultStep(Users \ {Proxy}) /\ UNCHANGED bridgeVars
  BY <1>1, FundsUnchanged
<1>2. CASE UNCHANGED vars
  BY <1>2, FundsUnchanged DEF vars
<1>3. CASE BridgeStep
  <2> USE AuraBalBridgeAssumption
  <2>1. CASE \E u \in Users, amount \in Amounts \cup {0} : SendFrom(u, amount)
    BY <2>1, SendFromCounts
  <2>2. CASE \E amount \in Amounts : SendHome(amount)
    BY <2>2, SendHomeCounts
  <2>3. CASE \E u \in Users, amount \in DOMAIN home, gain \in Gains : CreditTo(u, amount, gain)
    BY <2>3, CreditToCounts
  <2>4. CASE \E report \in Reports, extraGain \in ExtraGains : HarvestBridge(report, extraGain)
    BY <2>4, HarvestCounts
  <2>5. CASE \E t \in Tokens, c \in Chains : ProcessClaimable(t, c)
    BY <2>5, ProcessCounts
  <2> QED
    BY <1>3, <2>1, <2>2, <2>3, <2>4, <2>5 DEF BridgeStep
<1>4. CASE SudoStep
  BY <1>4, RescueCounts, RescueExtraCounts DEF SudoStep
<1>5. CASE TakesShares
  BY <1>5, TakingIsAVaultStep, FundsUnchanged DEF SharesLeave
<1> QED
  BY <1>1, <1>2, <1>3, <1>4, <1>5 DEF Next, TakesShares

(* They hold in every state.                                               *)
LEMMA FundsInvariant == Spec => []FInv
  BY FundsStart, FundsStep, BridgeInvariant, PTL DEF Spec

(* The supply that the proxy counts is abroad or on its way home, whoever  *)
(* sends, claims, rescues or credits the proxy itself.                     *)
THEOREM SupplyStaysAbroad == Spec => []SupplyIsAbroad
  BY FundsInvariant, PTL DEF FInv

(* What the chains can claim adds up to what is set aside for them, and    *)
(* the AURA of it is held, however each harvest was divided.               *)
THEOREM ClaimsStayKept == Spec => []ClaimsAreKept
  BY FundsInvariant, PTL DEF FInv

-----------------------------------------------------------------------------
(* What the bridge owes is staked, but for rounding.  Products and         *)
(* quotients first, of any numbers; b stands for shares of the bridge, s   *)
(* and t for the supply before and after, u and v for the underlying.      *)

(* A product is where its factors were: to compare two, both are           *)
(* multiplied by a third.                                                  *)
LEMMA WorthAfter ==
  ASSUME NEW k \in Nat, NEW b \in Nat, NEW s \in Nat \ {0}, NEW u \in Nat,
         NEW t \in Nat \ {0}, NEW v \in Nat, k * s <= b * u, u * t <= v * s
  PROVE  k <= (b * v) \div t
<1>1. (k * s) * t <= (b * u) * t
  BY ProductIsNat, ProductIsMonotone
<1>2. (u * t) * b <= (v * s) * b
  BY ProductIsNat, ProductIsMonotone
<1>3. (k * s) * t = (k * t) * s /\ (b * u) * t = (u * t) * b /\ (v * s) * b = (b * v) * s
  BY SMT
<1> DEFINE x == k * t
           y == b * v
           w == (u * t) * b
<1>4. x \in Nat /\ y \in Nat /\ w \in Nat /\ x * s \in Nat /\ y * s \in Nat
  BY ProductIsNat
<1>5. x * s <= w /\ w <= y * s
  BY <1>1, <1>2, <1>3
<1> HIDE DEF x, y, w
<1>6. x <= y
  <2>1. x * s <= y * s
    BY <1>4, <1>5
  <2> QED
    BY <1>4, <2>1, ProductCancels
<1> QED
  BY <1>4, <1>6, DivIsLargest DEF x, y

(* Rounding up adds less than one.                                         *)
LEMMA RoundUpIsNear ==
  ASSUME NEW a \in Nat, NEW b \in Nat \ {0}
  PROVE  /\ RoundUpDiv(a, b) \in Nat /\ a <= RoundUpDiv(a, b) * b
         /\ RoundUpDiv(a, b) * b <= a + b
<1>1. RoundUpDiv(a, b) \in Nat /\ a <= RoundUpDiv(a, b) * b
  BY RemainderRoundsUp DEF RoundUpDiv
<1> DEFINE q == a \div b
<1>2. q \in Nat /\ q * b <= a
  BY DivIsFloor
<1>3. RoundUpDiv(a, b) = q \/ RoundUpDiv(a, b) = q + 1
  BY DEF RoundUpDiv
<1> HIDE DEF q
<1>4. (q + 1) * b = q * b + b /\ q * b \in Nat
  BY <1>2, SMT
<1>5. RoundUpDiv(a, b) * b <= a + b
  BY <1>2, <1>3, <1>4
<1> QED
  BY <1>1, <1>5

(* A user whose shares grow by m for amount, rounded down, has no less     *)
(* than what it had and amount, but for the price of one share.            *)
LEMMA WorthOfMore ==
  ASSUME NEW b \in Nat, NEW m \in Nat, NEW amount \in Nat, NEW price \in Nat,
         NEW s \in Nat \ {0}, NEW u \in Nat, NEW t \in Nat \ {0}, NEW v \in Nat,
         u <= price * s, u * t <= v * s, amount * s <= m * u + u
  PROVE  (b * u) \div s + amount <= ((b + m) * v) \div t + price
<1> DEFINE old == (b * u) \div s
           new == ((b + m) * v) \div t
           k == old + amount - price
<1>1. old \in Nat /\ old * s <= b * u /\ new \in Nat
  BY ProductIsNat, DivIsFloor
<1> HIDE DEF old
<1>2. CASE k < 0
  BY <1>1, <1>2
<1>3. CASE k >= 0
  <2>1. k \in Nat
    BY <1>1, <1>3
  <2>2. k * s = old * s + amount * s - price * s
    BY <1>1, SMT
  <2>3. (b + m) * u = b * u + m * u
    BY SMT
  <2>4. /\ old * s \in Nat /\ amount * s \in Nat /\ price * s \in Nat /\ b * u \in Nat /\ m * u \in Nat
    BY <1>1, ProductIsNat
  <2>5. k * s <= (b + m) * u
    BY <1>1, <2>2, <2>3, <2>4
  <2> HIDE DEF k
  <2>6. k <= new
    BY <2>1, <2>5, WorthAfter
  <2> QED
    BY <1>1, <2>6 DEF k
<1> QED
  BY <1>1, <1>2, <1>3 DEF old

(* A user who gives up m shares for amount, rounded up, loses no more than *)
(* amount and the price of one share.                                      *)
LEMMA WorthOfLess ==
  ASSUME NEW b \in Nat, NEW m \in Nat, m <= b, NEW amount \in Nat, NEW price \in Nat,
         NEW s \in Nat \ {0}, NEW u \in Nat, NEW t \in Nat \ {0}, NEW v \in Nat,
         u <= price * s, u * t <= v * s, m * u <= amount * s + u
  PROVE  (b * u) \div s <= ((b - m) * v) \div t + amount + price
<1> DEFINE old == (b * u) \div s
           new == ((b - m) * v) \div t
           k == old - amount - price
<1>0. b - m \in Nat
  OBVIOUS
<1>1. old \in Nat /\ old * s <= b * u /\ new \in Nat
  BY <1>0, ProductIsNat, DivIsFloor
<1> HIDE DEF old
<1>2. CASE k < 0
  BY <1>1, <1>2
<1>3. CASE k >= 0
  <2>1. k \in Nat
    BY <1>1, <1>3
  <2>2. k * s = old * s - amount * s - price * s
    BY <1>1, SMT
  <2>3. (b - m) * u = b * u - m * u
    BY SMT
  <2>4. /\ old * s \in Nat /\ amount * s \in Nat /\ price * s \in Nat /\ b * u \in Nat /\ m * u \in Nat
    BY <1>1, ProductIsNat
  <2>5. k * s <= (b - m) * u
    BY <1>1, <2>2, <2>3, <2>4
  <2> HIDE DEF k
  <2>6. k <= new
    BY <1>0, <2>1, <2>5, WorthAfter
  <2> QED
    BY <1>1, <2>6 DEF k
<1> QED
  BY <1>1, <1>2, <1>3 DEF old

(* A user who has b shares, and d after m of them at the most have left,   *)
(* loses no more than the worth of m, rounded up.                          *)
LEMMA WorthOfLeft ==
  ASSUME NEW b \in Nat, NEW d \in Nat, NEW m \in Nat, b <= d + m,
         NEW s \in Nat \ {0}, NEW u \in Nat, NEW t \in Nat \ {0}, NEW v \in Nat, u * t <= v * s
  PROVE  (b * u) \div s <= (d * v) \div t + RoundUpDiv(m * u, s)
<1> DEFINE old == (b * u) \div s
           new == (d * v) \div t
           cost == RoundUpDiv(m * u, s)
           k == old - cost
<1>1. old \in Nat /\ old * s <= b * u /\ new \in Nat
  BY ProductIsNat, DivIsFloor
<1>2. cost \in Nat /\ m * u <= cost * s
  BY ProductIsNat, RoundUpIsNear
<1> HIDE DEF old, cost
<1>3. CASE k < 0
  BY <1>1, <1>2, <1>3 DEF cost
<1>4. CASE k >= 0
  <2>1. k \in Nat
    BY <1>1, <1>2, <1>4
  <2>2. k * s = old * s - cost * s
    BY <1>1, <1>2, SMT
  <2>3. b * u <= (d + m) * u
    BY ProductIsMonotone
  <2>4. (d + m) * u = d * u + m * u
    BY SMT
  <2>5. /\ old * s \in Nat /\ cost * s \in Nat /\ b * u \in Nat /\ d * u \in Nat /\ m * u \in Nat
    BY <1>1, <1>2, ProductIsNat
  <2>6. k * s <= d * u
    BY <1>1, <1>2, <2>2, <2>3, <2>4, <2>5
  <2> HIDE DEF k
  <2>7. k <= new
    BY <2>1, <2>6, WorthAfter
  <2> QED
    BY <1>1, <1>2, <2>7 DEF k, cost
<1> QED
  BY <1>1, <1>2, <1>3, <1>4 DEF old, cost

(* What is staked, and what a share costs at most, are numbers.            *)
LEMMA StakedIsNat ==
  ASSUME VInv
  PROVE  /\ Staked \in Nat /\ PriceOfShare \in Nat
         /\ totalSupply = 0 => Staked = 0 /\ PriceOfShare = 1
         /\ totalSupply # 0 => totalUnderlying <= PriceOfShare * totalSupply
         /\ totalSupply # 0 => Staked = (balanceOf[Proxy] * totalUnderlying) \div totalSupply
<1>1. /\ totalSupply \in Nat /\ totalUnderlying \in Nat /\ balanceOf[Proxy] \in Nat
  BY AuraBalBridgeAssumption DEF VInv, VaultTypeOK
<1>2. CASE totalSupply = 0
  BY <1>2 DEF Staked, PriceOfShare
<1>3. CASE totalSupply # 0
  <2>1. totalSupply \in Nat \ {0} /\ balanceOf[Proxy] * totalUnderlying \in Nat
    BY <1>1, <1>3, ProductIsNat
  <2>2. (balanceOf[Proxy] * totalUnderlying) \div totalSupply \in Nat
    BY <2>1, DivIsFloor
  <2>3. /\ RoundUpDiv(totalUnderlying, totalSupply) \in Nat
        /\ totalUnderlying <= RoundUpDiv(totalUnderlying, totalSupply) * totalSupply
    BY <1>1, <2>1, RoundUpIsNear
  <2> QED
    BY <1>3, <2>2, <2>3 DEF Staked, PriceOfShare, UnderlyingOf
<1> QED
  BY <1>2, <1>3

StakedOK ==
  /\ Staked \in Nat
  /\ totalSupply = 0 => Staked = 0
  /\ totalSupply # 0 => Staked = (balanceOf[Proxy] * totalUnderlying) \div totalSupply

(* The same, after a step.                                                 *)
LEMMA StakedIsNatNext == VInv' => StakedOK'
<1>1. VInv => StakedOK
  BY StakedIsNat DEF StakedOK
<1> QED
  BY <1>1, PTL

(* What is staked for the bridge is worth all but the price of a share.    *)
LEMMA StakeBacks ==
  ASSUME VInv, NEW amount \in Nat, Stake(amount, Proxy), wallet' \in [Users -> Nat]
  PROVE  Staked + amount <= Staked' + PriceOfShare
<1> DEFINE b == balanceOf[Proxy]
           m == SharesFor(amount)
<1>1. Proxy \in Users
  BY AuraBalBridgeAssumption
<1>2. VInv' /\ ShareKeepsWorth
  BY <1>1, StakeIsFair
<1>3. /\ amount > 0 /\ totalSupply' = totalSupply + m /\ totalUnderlying' = totalUnderlying + amount
      /\ balanceOf' = [balanceOf EXCEPT ![Proxy] = @ + m]
  BY DEF Stake
<1>4. m \in Nat
  BY SharesAreFair
<1>5. /\ totalSupply \in Nat /\ totalUnderlying \in Nat /\ b \in Nat
      /\ totalSupply <= totalUnderlying /\ balanceOf \in [Users -> Nat]
  BY <1>1 DEF VInv, VaultTypeOK, SharesAreBacked
<1>6. m = IF totalSupply = 0 THEN amount ELSE (amount * totalSupply) \div totalUnderlying
  BY DEF SharesFor
<1> HIDE DEF m
<1>7. balanceOf'[Proxy] = b + m
  BY <1>1, <1>3, <1>5
<1> HIDE DEF b
<1>8. CASE totalSupply = 0
  <2>1. m = amount /\ totalSupply' = amount /\ amount \in Nat \ {0}
    BY <1>3, <1>5, <1>6, <1>8
  <2>2. Staked' = ((b + amount) * (totalUnderlying + amount)) \div amount
    BY <1>2, <1>3, <1>7, <2>1, StakedIsNatNext DEF StakedOK
  <2>3. amount * amount <= (b + amount) * (totalUnderlying + amount)
    <3>1. amount * amount <= (b + amount) * amount
      BY <1>5, <2>1, ProductIsMonotone
    <3>2. amount * (b + amount) <= (totalUnderlying + amount) * (b + amount)
      BY <1>5, <2>1, ProductIsMonotone
    <3>3. /\ amount * (b + amount) = (b + amount) * amount
          /\ (totalUnderlying + amount) * (b + amount) = (b + amount) * (totalUnderlying + amount)
      BY <1>5, SMT
    <3>4. /\ amount * amount \in Nat /\ (b + amount) * amount \in Nat
          /\ (b + amount) * (totalUnderlying + amount) \in Nat
      BY <1>5, ProductIsNat
    <3> QED
      BY <3>1, <3>2, <3>3, <3>4
  <2>4. (b + amount) * (totalUnderlying + amount) \in Nat
    BY <1>5, ProductIsNat
  <2>5. amount <= Staked'
    BY <2>1, <2>2, <2>3, <2>4, DivIsLargest
  <2>6. Staked = 0 /\ PriceOfShare = 1 /\ Staked' \in Nat
    BY <1>2, <1>8, StakedIsNat, StakedIsNatNext DEF StakedOK
  <2>7. \A x, y, z, p \in Nat : x = 0 /\ y <= z => x + y <= z + p
    OBVIOUS
  <2> QED
    BY <2>5, <2>6, <2>7
<1>9. CASE totalSupply # 0
  <2>1. totalSupply \in Nat \ {0} /\ totalUnderlying \in Nat \ {0}
    BY <1>5, <1>9
  <2>2. totalSupply' \in Nat \ {0} /\ totalUnderlying' \in Nat
    BY <1>3, <1>4, <1>5, <2>1
  <2>3. totalUnderlying * totalSupply' <= totalUnderlying' * totalSupply
    <3>1. totalUnderlying * totalSupply' \in Nat /\ totalUnderlying' * totalSupply \in Nat
      BY <2>1, <2>2, ProductIsNat
    <3>2. totalUnderlying' * totalSupply >= totalUnderlying * totalSupply'
      <4>1. totalSupply > 0 /\ totalSupply' > 0
        BY <2>1, <2>2
      <4> QED
        BY <1>2, <4>1, Zenon DEF ShareKeepsWorth
    <3> QED
      BY <3>1, <3>2
  <2>4. amount * totalSupply <= m * totalUnderlying + totalUnderlying
    <3>1. amount * totalSupply \in Nat
      BY <2>1, ProductIsNat
    <3> DEFINE a == amount * totalSupply
    <3>2. a \in Nat /\ m = a \div totalUnderlying
      BY <1>6, <1>9, <3>1
    <3>3. m * totalUnderlying \in Nat
      BY <1>4, <2>1, ProductIsNat
    <3> HIDE DEF a
    <3>4. a < m * totalUnderlying + totalUnderlying
      BY <2>1, <3>2, DivIsNear
    <3>5. a <= m * totalUnderlying + totalUnderlying
      BY <2>1, <3>2, <3>3, <3>4
    <3> QED
      BY <3>5 DEF a
  <2>5. totalUnderlying <= PriceOfShare * totalSupply /\ PriceOfShare \in Nat
    BY <1>9, StakedIsNat
  <2>6. (b * totalUnderlying) \div totalSupply + amount
          <= ((b + m) * totalUnderlying') \div totalSupply' + PriceOfShare
    BY <1>4, <1>5, <2>1, <2>2, <2>3, <2>4, <2>5, WorthOfMore
  <2>7. /\ Staked = (b * totalUnderlying) \div totalSupply
        /\ Staked' = ((b + m) * totalUnderlying') \div totalSupply'
    BY <1>2, <1>7, <1>9, <2>2, StakedIsNat, StakedIsNatNext DEF b, StakedOK
  <2> QED
    BY <2>6, <2>7
<1> QED
  BY <1>8, <1>9

(* With no penalty, amount costs its shares rounded up.                    *)
LEMMA PreviewOfBridge ==
  ASSUME VInv, totalSupply # 0, NEW amount \in Nat
  PROVE  /\ PreviewWithdraw(amount, 0) \in Nat
         /\ PreviewWithdraw(amount, 0) * totalUnderlying <= amount * totalSupply + totalUnderlying
<1>1. totalSupply \in Nat \ {0} /\ totalUnderlying \in Nat \ {0}
  BY DEF VInv, VaultTypeOK, SharesAreBacked
<1>2. FEE_DENOMINATOR \in Nat \ {0} /\ FEE_DENOMINATOR - 0 = FEE_DENOMINATOR
  BY VaultAssumption
<1>3. (FEE_DENOMINATOR * amount) \div FEE_DENOMINATOR = amount
  <2> DEFINE q == (FEE_DENOMINATOR * amount) \div FEE_DENOMINATOR
  <2>1. FEE_DENOMINATOR * amount \in Nat /\ FEE_DENOMINATOR * amount = amount * FEE_DENOMINATOR
    BY <1>2, ProductIsNat, SMT
  <2>2. q \in Nat /\ q * FEE_DENOMINATOR <= amount * FEE_DENOMINATOR
    BY <1>2, <2>1, DivIsFloor
  <2>3. amount <= q
    <3>1. amount * FEE_DENOMINATOR <= FEE_DENOMINATOR * amount
      BY <2>1
    <3> QED
      BY <1>2, <2>1, <3>1, DivIsLargest
  <2> HIDE DEF q
  <2>4. q <= amount
    BY <1>2, <2>2, ProductCancels
  <2>5. q = amount
    BY <2>2, <2>3, <2>4
  <2> QED
    BY <2>5 DEF q
<1>4. PreviewWithdraw(amount, 0) = RoundUpDiv(amount * totalSupply, totalUnderlying)
  BY <1>1, <1>2, <1>3 DEF PreviewWithdraw
<1>5. amount * totalSupply \in Nat
  BY <1>1, ProductIsNat
<1> QED
  BY <1>1, <1>4, <1>5, RoundUpIsNear

(* What the bridge is paid costs it no more than that and the price of a   *)
(* share; also when it is the last to leave and takes all.                 *)
LEMMA PayBacks ==
  ASSUME VInv, SharesAddUp, NEW account \in Users, NEW amount \in Nat, NEW gain \in Nat,
         Pay(account, amount, gain)
  PROVE  Staked <= Staked' + amount + PriceOfShare
<1> DEFINE b == balanceOf[Proxy]
           m == PreviewWithdraw(amount, 0)
<1>1. Proxy \in Users
  BY AuraBalBridgeAssumption
<1>2. VInv' /\ ShareKeepsWorth
  BY PayIsFair
<1>3. /\ totalSupply > 0 /\ m <= b /\ m <= totalSupply /\ totalSupply' = totalSupply - m
      /\ balanceOf' = [balanceOf EXCEPT ![Proxy] = @ - m]
  BY DEF Pay, PenaltyOfBridge, Unstake
<1>4. totalSupply \in Nat \ {0} /\ totalUnderlying \in Nat /\ b \in Nat /\ balanceOf \in [Users -> Nat]
  BY <1>1, <1>3 DEF VInv, VaultTypeOK
<1>5. m \in Nat /\ m * totalUnderlying <= amount * totalSupply + totalUnderlying
  BY <1>4, PreviewOfBridge
<1> HIDE DEF m
<1>6. balanceOf'[Proxy] = b - m
  BY <1>1, <1>3, <1>4, <1>5
<1>7. b <= totalSupply
  BY <1>1, SharesFit DEF SharesAreWithin
<1>8. /\ totalUnderlying <= PriceOfShare * totalSupply /\ PriceOfShare \in Nat
      /\ Staked = (b * totalUnderlying) \div totalSupply /\ Staked \in Nat
  BY <1>4, StakedIsNat
<1>9. StakedOK'
  BY <1>2, StakedIsNatNext
<1> HIDE DEF b
<1>10. CASE totalSupply' = 0
  <2>1. m = totalSupply /\ b = totalSupply
    BY <1>3, <1>4, <1>5, <1>7, <1>10
  <2>2. Staked * totalSupply <= b * totalUnderlying
    BY <1>4, <1>8, ProductIsNat, DivIsFloor
  <2>3. b * totalUnderlying <= amount * totalSupply + totalUnderlying
    BY <1>5, <2>1
  <2>4. (amount + PriceOfShare) * totalSupply = amount * totalSupply + PriceOfShare * totalSupply
    BY <1>4, <1>8, SMT
  <2>5. /\ Staked * totalSupply \in Nat /\ b * totalUnderlying \in Nat /\ amount * totalSupply \in Nat
        /\ PriceOfShare * totalSupply \in Nat
    BY <1>4, <1>8, ProductIsNat
  <2>6. Staked * totalSupply <= (amount + PriceOfShare) * totalSupply
    BY <1>4, <1>8, <2>2, <2>3, <2>4, <2>5
  <2>7. amount + PriceOfShare \in Nat
    BY <1>8
  <2>8. Staked <= amount + PriceOfShare
    BY <1>4, <1>8, <2>6, <2>7, ProductCancels
  <2>9. Staked' = 0
    BY <1>9, <1>10 DEF StakedOK
  <2> QED
    BY <1>8, <2>8, <2>9
<1>11. CASE totalSupply' # 0
  <2>1. totalSupply' \in Nat \ {0} /\ totalUnderlying' \in Nat
    BY <1>2, <1>11 DEF VInv, VaultTypeOK
  <2>2. totalUnderlying * totalSupply' <= totalUnderlying' * totalSupply
    <3>1. totalUnderlying * totalSupply' \in Nat /\ totalUnderlying' * totalSupply \in Nat
      BY <1>4, <2>1, ProductIsNat
    <3>2. totalUnderlying' * totalSupply >= totalUnderlying * totalSupply'
      <4>1. totalSupply > 0 /\ totalSupply' > 0
        BY <1>4, <2>1
      <4> QED
        BY <1>2, <4>1, Zenon DEF ShareKeepsWorth
    <3> QED
      BY <3>1, <3>2
  <2>3. (b * totalUnderlying) \div totalSupply
          <= ((b - m) * totalUnderlying') \div totalSupply' + amount + PriceOfShare
    BY <1>3, <1>4, <1>5, <1>8, <2>1, <2>2, WorthOfLess
  <2>4. Staked' = ((b - m) * totalUnderlying') \div totalSupply'
    BY <1>6, <1>9, <1>11 DEF StakedOK
  <2> QED
    BY <1>8, <2>3, <2>4
<1> QED
  BY <1>10, <1>11

(* Shares have a worth.                                                    *)
LEMMA WorthIsNat ==
  ASSUME VInv
  PROVE  Worth(0) = 0 /\ \A m \in Nat : Worth(m) \in Nat
<1>1. totalSupply \in Nat /\ totalUnderlying \in Nat
  BY DEF VInv, VaultTypeOK
<1>2. CASE totalSupply = 0
  BY <1>2 DEF Worth
<1>3. CASE totalSupply # 0
  <2>1. totalSupply \in Nat \ {0} /\ 0 * totalUnderlying = 0
    BY <1>1, <1>3
  <2>2. 0 \div totalSupply = 0 /\ 0 % totalSupply = 0
    BY <2>1, SMT
  <2>3. Worth(0) = 0
    BY <1>3, <2>1, <2>2 DEF Worth, RoundUpDiv
  <2>4. ASSUME NEW m \in Nat PROVE Worth(m) \in Nat
    BY <1>1, <1>3, <2>1, ProductIsNat, RoundUpIsNear DEF Worth
  <2> QED
    BY <2>3, <2>4
<1> QED
  BY <1>2, <1>3

(* A step that makes no share worth less costs the bridge no more than the *)
(* worth of the shares that it takes from it.                              *)
LEMMA TakenIsWorth ==
  ASSUME VInv, VInv', SharesAddUp', ShareKeepsWorth, NEW m \in Nat,
         balanceOf[Proxy] <= balanceOf'[Proxy] + m
  PROVE  Staked <= Staked' + Worth(m)
<1> DEFINE b == balanceOf[Proxy]
           d == balanceOf'[Proxy]
<1>1. StakedOK /\ StakedOK' /\ Worth(m) \in Nat
  BY StakedIsNat, StakedIsNatNext, WorthIsNat DEF StakedOK
<1>2. /\ totalSupply \in Nat /\ totalUnderlying \in Nat /\ b \in Nat
      /\ totalSupply' \in Nat /\ totalUnderlying' \in Nat /\ d \in Nat
  BY AuraBalBridgeAssumption DEF VInv, VaultTypeOK
<1>3. CASE totalSupply = 0
  BY <1>1, <1>3 DEF StakedOK
<1>4. CASE totalSupply # 0 /\ totalSupply' = 0
  <2>1. d <= totalSupply'
    BY AuraBalBridgeAssumption, SharesFitNext DEF SharesAreWithin
  <2>2. b <= 0 + m /\ totalSupply \in Nat \ {0}
    BY <1>2, <1>4, <2>1
  <2>3. (b * totalUnderlying) \div totalSupply
          <= (0 * totalUnderlying) \div totalSupply + RoundUpDiv(m * totalUnderlying, totalSupply)
    <3>1. totalUnderlying * totalSupply <= totalUnderlying * totalSupply
      BY <1>2, ProductIsNat
    <3> QED
      BY <1>2, <2>2, <3>1, WorthOfLeft
  <2>4. (0 * totalUnderlying) \div totalSupply = 0
    <3>1. 0 * totalUnderlying = 0
      BY <1>2
    <3>2. 0 \div totalSupply = 0
      BY <2>2, SMT
    <3> QED
      BY <3>1, <3>2
  <2>5. Staked = (b * totalUnderlying) \div totalSupply /\ Staked' = 0
    BY <1>1, <1>4 DEF StakedOK
  <2>6. Worth(m) = RoundUpDiv(m * totalUnderlying, totalSupply)
    BY <1>4 DEF Worth
  <2> QED
    BY <1>1, <2>3, <2>4, <2>5, <2>6
<1>5. CASE totalSupply # 0 /\ totalSupply' # 0
  <2>1. totalSupply \in Nat \ {0} /\ totalSupply' \in Nat \ {0}
    BY <1>2, <1>5
  <2>2. totalUnderlying * totalSupply' <= totalUnderlying' * totalSupply
    <3>1. totalUnderlying * totalSupply' \in Nat /\ totalUnderlying' * totalSupply \in Nat
      BY <1>2, ProductIsNat
    <3>2. totalUnderlying' * totalSupply >= totalUnderlying * totalSupply'
      <4>1. totalSupply > 0 /\ totalSupply' > 0
        BY <2>1
      <4> QED
        BY <4>1, Zenon DEF ShareKeepsWorth
    <3> QED
      BY <3>1, <3>2
  <2>3. (b * totalUnderlying) \div totalSupply
          <= (d * totalUnderlying') \div totalSupply' + RoundUpDiv(m * totalUnderlying, totalSupply)
    BY <1>2, <2>1, <2>2, WorthOfLeft
  <2>4. /\ Staked = (b * totalUnderlying) \div totalSupply
        /\ Staked' = (d * totalUnderlying') \div totalSupply'
    BY <1>1, <1>5 DEF StakedOK
  <2>5. Worth(m) = RoundUpDiv(m * totalUnderlying, totalSupply)
    BY <1>5 DEF Worth
  <2> QED
    BY <2>3, <2>4, <2>5
<1> QED
  BY <1>3, <1>4, <1>5

(* What others do leaves what is staked for the bridge worth no less.      *)
LEMMA OthersBack ==
  ASSUME VInv, SharesAddUp, VaultStep(Users \ {Proxy})
  PROVE  Staked <= Staked'
<1>1. Users \ {Proxy} \in SUBSET Users /\ Proxy \in Users \ (Users \ {Proxy})
  BY AuraBalBridgeAssumption
<1>2. VaultStep(Users)
  BY DEF VaultStep
<1>3. VInv' /\ ShareKeepsWorth
  BY <1>2, VaultStepIsFair
<1>4. SharesAddUp' /\ balanceOf'[Proxy] >= balanceOf[Proxy]
  BY <1>1, VaultStepAddsUp
<1>5. balanceOf[Proxy] <= balanceOf'[Proxy] + 0
  BY <1>1, <1>3, <1>4 DEF VInv, VaultTypeOK
<1>6. Staked <= Staked' + Worth(0) /\ Worth(0) = 0
  BY <1>3, <1>4, <1>5, TakenIsWorth, WorthIsNat
<1>7. Staked' \in Nat
  BY <1>3, StakedIsNatNext DEF StakedOK
<1> QED
  BY <1>6, <1>7

(* Steps keep the sum of the shares too.                                   *)
LEMMA SharesStart == Init => SharesAddUp
  BY NoSharesAddUp DEF Init

(* So paying the bridge does.                                              *)
LEMMA PayAddsUp ==
  ASSUME VInv, SharesAddUp, NEW account, NEW amount \in Nat, NEW gain, Pay(account, amount, gain)
  PROVE  SharesAddUp'
<1>1. Proxy \in Users /\ 0 \in 0 .. FEE_DENOMINATOR - 1
  BY AuraBalBridgeAssumption, VaultAssumption
<1>2. PreviewWithdraw(amount, 0) \in Nat
  BY <1>1, PreviewIsNat
<1>3. Unstake(Proxy, PreviewWithdraw(amount, 0), 0, gain)
  BY DEF Pay, PenaltyOfBridge
<1> QED
  BY <1>1, <1>2, <1>3, UnstakeAddsUp

(* And every other step.                                                   *)
LEMMA SharesStep == BInv /\ SharesAddUp /\ [Next]_vars => SharesAddUp'
<1> SUFFICES ASSUME BInv, SharesAddUp, [Next]_vars PROVE SharesAddUp'
  OBVIOUS
<1> USE VaultAssumption, AuraBalBridgeAssumption
<1>1. VInv /\ HomeOK
  BY DEF BInv
<1>2. CASE UNCHANGED vaultVars
  BY <1>2 DEF vaultVars, SharesAddUp
<1>3. CASE VaultStep(Users \ {Proxy})
  BY <1>1, <1>3, VaultStepAddsUp
<1>4. ASSUME NEW u \in Users, NEW amount \in Amounts \cup {0}, SendFrom(u, amount)
      PROVE  SharesAddUp'
  <2>1. wallet[Proxy] + amount \in Nat
    BY <1>1 DEF VInv, VaultTypeOK
  <2>2. Stake(wallet[Proxy] + amount, Proxy)
    BY <1>4 DEF SendFrom
  <2> QED
    BY <1>1, <2>1, <2>2, StakeAddsUp
<1>5. ASSUME NEW u \in Users, NEW amount \in DOMAIN home, NEW gain \in Gains, CreditTo(u, amount, gain)
      PROVE  SharesAddUp'
  BY <1>1, <1>5, PayAddsUp DEF CreditTo, HomeOK
<1>6. ASSUME NEW u \in Users, NEW amount \in Amounts, NEW gain \in Gains, Rescue(u, amount, gain)
      PROVE  SharesAddUp'
  BY <1>1, <1>6, PayAddsUp DEF Rescue
<1>7. CASE UNCHANGED vars
  BY <1>2, <1>7 DEF vars
<1>8. CASE BridgeStep
  BY <1>2, <1>4, <1>5, <1>8 DEF BridgeStep, SendHome, HarvestBridge, ProcessClaimable
<1>9. CASE SudoStep
  BY <1>2, <1>6, <1>9 DEF SudoStep, RescueExtra
<1>10. CASE TakesShares
  BY <1>1, <1>10, TakingIsAVaultStep, VaultStepAddsUp
<1> QED
  BY <1>3, <1>7, <1>8, <1>9, <1>10 DEF Next, TakesShares

-----------------------------------------------------------------------------
(* By how much the bridge is short.                                        *)

(* When nobody takes its shares, the bridge gets no shorter than by the    *)
(* price of one share and by what it was sent itself.                      *)
BackingKept == Short' <= Short + PriceOfShare + (toItself' - toItself)

(* It does whenever what is owed grows by no more than what is staked.     *)
LEMMA ShortSuffices ==
  ASSUME VInv, VInv', FInv, FInv', NEW kept \in Nat, toItself' = toItself + kept,
         Owed' + Staked <= Owed + Staked' + PriceOfShare + kept
  PROVE  BackingKept
<1>1. Staked \in Nat /\ Staked' \in Nat /\ PriceOfShare \in Nat
  BY StakedIsNat, StakedIsNatNext DEF StakedOK
<1>2. Owed \in Nat /\ Owed' \in Nat /\ toItself \in Nat
  BY DEF FInv, FundsOK, Owed, Tokens
<1>3. toItself' - toItself = kept
  BY <1>2
<1>4. \A o, s, n, t, p, k \in Nat :
        n + s <= o + t + p + k =>
          (IF n > t THEN n - t ELSE 0) <= (IF o > s THEN o - s ELSE 0) + p + k
  OBVIOUS
<1>5. (IF Owed' > Staked' THEN Owed' - Staked' ELSE 0)
        <= (IF Owed > Staked THEN Owed - Staked ELSE 0) + PriceOfShare + kept
  BY <1>1, <1>2, <1>4
<1> QED
  BY <1>3, <1>5 DEF BackingKept, Short

(* A vault that nobody has touched backs as much as before.                *)
LEMMA StakedStays ==
  ASSUME UNCHANGED vaultVars
  PROVE  Staked' = Staked
BY DEF vaultVars, Staked, UnderlyingOf

(* A step of the bridge keeps the backing: what it stakes or pays out of   *)
(* the vault rounds by the price of a share at the most, and what it books *)
(* as a claim was there before.                                            *)
LEMMA BackingStep ==
  ASSUME BInv, BInv', FInv, FInv', SharesAddUp,
         (VaultStep(Users \ {Proxy}) /\ UNCHANGED bridgeVars) \/ BridgeStep \/ SudoStep
  PROVE  BackingKept
<1> USE VaultAssumption, AuraBalBridgeAssumption
<1>1. VInv /\ VInv' /\ HomeOK
  BY DEF BInv
<1>2. Staked \in Nat /\ Staked' \in Nat /\ PriceOfShare \in Nat
  BY <1>1, StakedIsNat, StakedIsNatNext DEF StakedOK
<1>3. /\ internalTotalSupply \in Nat /\ totalClaimable["auraBAL"] \in Nat
      /\ toItself \in Nat /\ toItself' \in Nat
      /\ Owed = internalTotalSupply + totalClaimable["auraBAL"] /\ Owed \in Nat
      /\ Owed' = internalTotalSupply' + totalClaimable'["auraBAL"] /\ Owed' \in Nat
  BY DEF FInv, FundsOK, Owed, Tokens
<1>4. ASSUME UNCHANGED toItself, Owed' + Staked <= Owed + Staked' + PriceOfShare
      PROVE  BackingKept
  <2>1. toItself' = toItself + 0
    BY <1>3, <1>4
  <2>2. Owed' + Staked <= Owed + Staked' + PriceOfShare + 0
    BY <1>2, <1>3, <1>4
  <2> QED
    BY <1>1, <2>1, <2>2, ShortSuffices
<1>5. CASE VaultStep(Users \ {Proxy}) /\ UNCHANGED bridgeVars
  <2>1. Owed' = Owed /\ UNCHANGED toItself
    BY <1>3, <1>5 DEF bridgeVars, claimVars
  <2>2. Staked <= Staked'
    BY <1>1, <1>5, OthersBack
  <2> QED
    BY <1>2, <1>3, <1>4, <2>1, <2>2
<1>6. ASSUME NEW u \in Users, NEW amount \in Amounts \cup {0}, SendFrom(u, amount)
      PROVE  BackingKept
  <2> DEFINE staked == wallet[Proxy] + amount
  <2>1. /\ Stake(staked, Proxy) /\ internalTotalSupply' = internalTotalSupply + staked
        /\ UNCHANGED <<claimVars, toItself>>
    BY <1>6 DEF SendFrom, Debited
  <2>2. staked \in Nat /\ wallet' \in [Users -> Nat]
    BY <1>1 DEF VInv, VaultTypeOK
  <2> HIDE DEF staked
  <2>3. Staked + staked <= Staked' + PriceOfShare
    BY <1>1, <2>1, <2>2, StakeBacks
  <2>4. Owed' = Owed + staked
    BY <1>3, <2>1, <2>2 DEF claimVars
  <2>5. Owed' + Staked <= Owed + Staked' + PriceOfShare
    <3>1. \A o, s, t, p, k \in Nat : s + k <= t + p => (o + k) + s <= o + t + p
      OBVIOUS
    <3>2. Owed \in Nat
      BY <1>3
    <3>3. (Owed + staked) + Staked <= Owed + Staked' + PriceOfShare
      BY <1>2, <2>2, <2>3, <3>1, <3>2
    <3> QED
      BY <2>4, <3>3
  <2>6. UNCHANGED toItself
    BY <2>1
  <2> QED
    BY <1>4, <2>5, <2>6
<1>7. ASSUME NEW amount \in Amounts, SendHome(amount)
      PROVE  BackingKept
  <2>1. Owed' = Owed /\ UNCHANGED toItself /\ Staked' = Staked
    BY <1>3, <1>7, StakedStays DEF SendHome, claimVars
  <2> QED
    BY <1>2, <1>3, <1>4, <2>1
<1>8. ASSUME NEW u \in Users, NEW amount \in DOMAIN home, NEW gain \in Gains, CreditTo(u, amount, gain)
      PROVE  BackingKept
  <2> DEFINE kept == IF u = Proxy THEN amount ELSE 0
  <2>1. /\ Pay(u, amount, gain) /\ internalTotalSupply >= amount - kept
        /\ internalTotalSupply' = internalTotalSupply - (amount - kept)
        /\ toItself' = toItself + kept /\ UNCHANGED claimVars
    BY <1>8 DEF CreditTo
  <2>2. amount \in Nat /\ gain \in Nat
    BY <1>1 DEF HomeOK
  <2>3. kept \in Nat /\ kept <= amount
    BY <2>2
  <2> HIDE DEF kept
  <2>4. Staked <= Staked' + amount + PriceOfShare
    BY <1>1, <2>1, <2>2, PayBacks
  <2>5. Owed' = Owed - (amount - kept)
    BY <1>3, <2>1, <2>2, <2>3 DEF claimVars
  <2>6. Owed' + Staked <= Owed + Staked' + PriceOfShare + kept
    BY <1>2, <1>3, <2>2, <2>3, <2>4, <2>5
  <2> QED
    BY <1>1, <2>1, <2>3, <2>6, ShortSuffices
<1>9. ASSUME NEW u \in Users, NEW amount \in Amounts, NEW gain \in Gains, Rescue(u, amount, gain)
      PROVE  BackingKept
  <2>1. /\ Pay(u, amount, gain) /\ internalTotalSupply >= amount
        /\ internalTotalSupply' = internalTotalSupply - amount
        /\ UNCHANGED <<claimVars, toItself>>
    BY <1>9 DEF Rescue
  <2>2. amount \in Nat /\ gain \in Nat
    OBVIOUS
  <2>3. Staked <= Staked' + amount + PriceOfShare
    BY <1>1, <2>1, <2>2, PayBacks
  <2>4. Owed' = Owed - amount
    BY <1>3, <2>1, <2>2 DEF claimVars
  <2>5. Owed' + Staked <= Owed + Staked' + PriceOfShare
    <3>1. \A o, s, t, p, k \in Nat : s <= t + k + p => (o - k) + s <= o + t + p
      OBVIOUS
    <3>2. Owed \in Nat
      BY <1>3
    <3>3. (Owed - amount) + Staked <= Owed + Staked' + PriceOfShare
      BY <1>2, <2>2, <2>3, <3>1, <3>2
    <3> QED
      BY <2>4, <3>3
  <2>6. UNCHANGED toItself
    BY <2>1
  <2> QED
    BY <1>4, <2>5, <2>6
<1>10. ASSUME NEW amount \in Amounts, RescueExtra(amount)
       PROVE  BackingKept
  <2>1. Owed' = Owed /\ UNCHANGED toItself /\ Staked' = Staked
    BY <1>3, <1>10, StakedStays DEF RescueExtra
  <2> QED
    BY <1>2, <1>3, <1>4, <2>1
<1>11. ASSUME NEW t \in Tokens, NEW c \in Chains, ProcessClaimable(t, c)
       PROVE  BackingKept
  <2> DEFINE reward == claimable[t][c]
  <2>1. /\ totalClaimable' = [totalClaimable EXCEPT ![t] = @ - reward]
        /\ UNCHANGED <<vaultVars, toItself>>
        /\ \/ t = "auraBAL" /\ internalTotalSupply' = internalTotalSupply + reward
           \/ t = "AURA" /\ internalTotalSupply' = internalTotalSupply
    BY <1>11 DEF ProcessClaimable
  <2>2. reward \in Nat /\ totalClaimable \in [Tokens -> Nat]
    BY DEF FInv, FundsOK
  <2> HIDE DEF reward
  <2>3. Staked' = Staked
    BY <2>1, StakedStays
  <2>4. "auraBAL" \in Tokens /\ "auraBAL" # "AURA"
    BY DEF Tokens
  <2>5. Owed' = Owed
    <3>1. CASE t = "auraBAL" /\ internalTotalSupply' = internalTotalSupply + reward
      <4>1. totalClaimable'["auraBAL"] = totalClaimable["auraBAL"] - reward
        BY <2>1, <2>2, <2>4, <3>1
      <4>2. \A x, y, r \in Nat : (x + r) + (y - r) = x + y
        OBVIOUS
      <4> QED
        BY <1>3, <2>2, <3>1, <4>1, <4>2
    <3>2. CASE t = "AURA" /\ internalTotalSupply' = internalTotalSupply
      <4>1. totalClaimable'["auraBAL"] = totalClaimable["auraBAL"]
        BY <2>1, <2>2, <2>4, <3>2
      <4> QED
        BY <1>3, <3>2, <4>1
    <3> QED
      BY <2>1, <3>1, <3>2
  <2> QED
    BY <1>2, <1>3, <1>4, <2>1, <2>3, <2>5
<1>12. ASSUME NEW report \in Reports, NEW extraGain \in ExtraGains, HarvestBridge(report, extraGain)
       PROVE  BackingKept
  <2> DEFINE found == Harvestable(extraGain)["auraBAL"]
             parts == [c \in Chains |-> Part(found, report, c)]
  <2>1. /\ totalSupply > 0 /\ SumFunction(report) > 0
        /\ totalClaimable'["auraBAL"] = totalClaimable["auraBAL"] + SumFunction(parts)
        /\ UNCHANGED <<vaultVars, internalTotalSupply, toItself>>
    BY <1>12 DEF HarvestBridge, Tokens
  <2>2. found \in Nat
    BY <1>1, <1>12, HarvestIsNat DEF FInv, Tokens
  <2>3. found = UnderlyingOf(balanceOf[Proxy]) - internalTotalSupply - totalClaimable["auraBAL"]
    BY DEF Harvestable
  <2>4. Staked' = Staked /\ Staked = UnderlyingOf(balanceOf[Proxy])
    BY <1>1, <2>1, StakedStays DEF Staked, VInv, VaultTypeOK
  <2>5. found = Staked - Owed
    BY <1>2, <1>3, <2>3, <2>4
  <2> HIDE DEF found
  <2>6. SumFunction(parts) \in Nat /\ SumFunction(parts) <= found
    BY <2>1, <2>2, PartsFit
  <2> DEFINE all == SumFunction(parts)
  <2>7. all \in Nat /\ all <= found /\ Owed' = Owed + all
    BY <1>3, <2>1, <2>6
  <2> HIDE DEF all, parts
  <2>8. Owed' <= Staked'
    BY <1>2, <1>3, <2>2, <2>4, <2>5, <2>7
  <2>9. Short' = 0 /\ Short \in Nat
    BY <1>2, <1>3, <2>8 DEF Short
  <2>10. toItself' - toItself = 0
    BY <1>3, <2>1
  <2> QED
    BY <1>2, <2>9, <2>10 DEF BackingKept
<1> QED
  BY <1>5, <1>6, <1>7, <1>8, <1>9, <1>10, <1>11, <1>12 DEF BridgeStep, SudoStep

(* What was taken before is a number, and no step gives it back.           *)
SharesTakenOK == sharesTaken \in Nat

LEMMA SharesTakenStep == BInv /\ SharesTakenOK /\ [Next]_vars => SharesTakenOK'
<1> SUFFICES ASSUME BInv, SharesTakenOK, [Next]_vars PROVE SharesTakenOK'
  OBVIOUS
<1>1. CASE UNCHANGED sharesTaken
  BY <1>1 DEF SharesTakenOK
<1>2. CASE TakesShares
  <2>1. VaultStep(Users) /\ SharesLeave
    BY <1>2, TakingIsAVaultStep
  <2>2. VInv /\ VInv'
    BY <2>1, VaultStepIsFair DEF BInv
  <2>3. balanceOf[Proxy] \in Nat /\ balanceOf'[Proxy] \in Nat
    BY <2>2, AuraBalBridgeAssumption DEF VInv, VaultTypeOK
  <2> QED
    BY <2>1, <2>3 DEF SharesLeave, SharesTakenOK
<1> QED
  BY <1>1, <1>2 DEF Next, TakesShares, vars

(* What is taken from the proxy is worth what the backing loses.           *)
LEMMA TakenStep ==
  ASSUME BInv, BInv', FInv, FInv', SharesTakenOK, SharesAddUp, SharesAddUp', TakesShares
  PROVE  Short' <= Short + Worth(sharesTaken' - sharesTaken) /\ UNCHANGED toItself
<1>1. VaultStep(Users) /\ SharesLeave
  BY TakingIsAVaultStep
<1>2. VInv /\ VInv' /\ ShareKeepsWorth
  BY <1>1, VaultStepIsFair DEF BInv
<1> DEFINE m == sharesTaken' - sharesTaken
<1>3. m \in Nat /\ balanceOf[Proxy] <= balanceOf'[Proxy] + m
  <2>1. balanceOf[Proxy] \in Nat /\ balanceOf'[Proxy] \in Nat
    BY <1>2, AuraBalBridgeAssumption DEF VInv, VaultTypeOK
  <2> QED
    BY <1>1, <2>1 DEF SharesLeave, SharesTakenOK
<1> HIDE DEF m
<1>4. Staked <= Staked' + Worth(m)
  BY <1>2, <1>3, TakenIsWorth
<1>5. Staked \in Nat /\ Staked' \in Nat /\ Worth(m) \in Nat
  BY <1>2, <1>3, StakedIsNat, StakedIsNatNext, WorthIsNat DEF StakedOK
<1>6. UNCHANGED <<internalTotalSupply, totalClaimable, toItself>>
  BY <1>1 DEF SharesLeave, bridgeVars, claimVars
<1>7. Owed \in Nat /\ Owed' = Owed
  BY <1>6 DEF FInv, FundsOK, Owed, Tokens
<1>8. \A o, s, t, w \in Nat :
        s <= t + w => (IF o > t THEN o - t ELSE 0) <= (IF o > s THEN o - s ELSE 0) + w
  OBVIOUS
<1>9. (IF Owed > Staked' THEN Owed - Staked' ELSE 0)
        <= (IF Owed > Staked THEN Owed - Staked ELSE 0) + Worth(m)
  BY <1>4, <1>5, <1>7, <1>8
<1>10. Short' <= Short + Worth(m)
  BY <1>7, <1>9 DEF Short
<1> QED
  BY <1>6, <1>10 DEF m

(* The two together.                                                       *)
BackingRounds ==
  Short' <= Short + PriceOfShare + (toItself' - toItself) + Worth(sharesTaken' - sharesTaken)

LEMMA BackingNext ==
  ASSUME BInv, BInv', FInv, FInv', SharesTakenOK, SharesAddUp, SharesAddUp', Next
  PROVE  BackingRounds
<1>1. /\ Staked \in Nat /\ Staked' \in Nat /\ PriceOfShare \in Nat
      /\ Worth(0) = 0 /\ \A m \in Nat : Worth(m) \in Nat
  BY StakedIsNat, StakedIsNatNext, WorthIsNat DEF StakedOK, BInv
<1>2. Short \in Nat /\ Short' \in Nat /\ toItself \in Nat /\ toItself' \in Nat
  <2>1. Owed \in Nat /\ Owed' \in Nat /\ toItself \in Nat /\ toItself' \in Nat
    BY DEF FInv, FundsOK, Owed, Tokens
  <2>2. \A o, s \in Nat : (IF o > s THEN o - s ELSE 0) \in Nat
    OBVIOUS
  <2>3. /\ (IF Owed > Staked THEN Owed - Staked ELSE 0) \in Nat
        /\ (IF Owed' > Staked' THEN Owed' - Staked' ELSE 0) \in Nat
    BY <1>1, <2>1, <2>2
  <2> QED
    BY <2>1, <2>3 DEF Short
<1>3. CASE BackingKept /\ UNCHANGED sharesTaken
  <2>1. sharesTaken' - sharesTaken = 0
    BY <1>3 DEF SharesTakenOK
  <2>2. Worth(sharesTaken' - sharesTaken) = 0
    BY <1>1, <2>1
  <2>3. Short' <= Short + PriceOfShare + (toItself' - toItself)
    BY <1>3 DEF BackingKept
  <2>4. \A x, y, p, k, l \in Nat : x <= y + p + (l - k) => x <= y + p + (l - k) + 0
    OBVIOUS
  <2>5. Short' <= Short + PriceOfShare + (toItself' - toItself) + 0
    BY <1>1, <1>2, <2>3, <2>4
  <2> QED
    BY <2>2, <2>5 DEF BackingRounds
<1>4. CASE TakesShares
  <2>1. Short' <= Short + Worth(sharesTaken' - sharesTaken) /\ UNCHANGED toItself
    BY <1>4, TakenStep
  <2> DEFINE w == Worth(sharesTaken' - sharesTaken)
  <2>2. w \in Nat
    <3>1. VInv /\ VInv' /\ SharesLeave
      BY <1>4, TakingIsAVaultStep DEF BInv
    <3>2. balanceOf[Proxy] \in Nat /\ balanceOf'[Proxy] \in Nat
      BY <3>1, AuraBalBridgeAssumption DEF VInv, VaultTypeOK
    <3>3. sharesTaken' - sharesTaken \in Nat
      BY <3>1, <3>2 DEF SharesLeave, SharesTakenOK
    <3> QED
      BY <1>1, <3>3
  <2> HIDE DEF w
  <2>3. Short' <= Short + w /\ toItself' - toItself = 0
    BY <1>2, <2>1 DEF w
  <2>4. \A x, y, p, v \in Nat : x <= y + v => x <= y + p + 0 + v
    OBVIOUS
  <2>5. Short' <= Short + PriceOfShare + 0 + w
    BY <1>1, <1>2, <2>2, <2>3, <2>4
  <2> QED
    BY <2>3, <2>5 DEF BackingRounds, w
<1> QED
  BY <1>3, <1>4, BackingStep DEF Next, TakesShares

(* What the bridge owes abroad is staked in the vault, and each step of    *)
(* anybody costs this backing no more than the price of one share, and     *)
(* what sudo or the owner take from it on purpose no more than the worth   *)
(* of the shares they take, for any amounts, penalty and division of the   *)
(* yield.                                                                  *)
THEOREM BackingOnlyRounds == Spec => BackingLosesOnlyRounding
<1>1. BInv /\ BInv' /\ FInv /\ FInv' /\ SharesTakenOK /\ SharesAddUp /\ SharesAddUp' /\ [Next]_vars
        => [Short' <= Short + PriceOfShare + (toItself' - toItself)
                        + Worth(sharesTaken' - sharesTaken)]_vars
  BY BackingNext DEF BackingRounds
<1>2. Spec => []SharesAddUp
  BY SharesStart, SharesStep, BridgeInvariant, PTL DEF Spec
<1>3. Init => SharesTakenOK
  BY DEF Init, SharesTakenOK
<1>4. Spec => []SharesTakenOK
  BY <1>3, SharesTakenStep, BridgeInvariant, PTL DEF Spec
<1> QED
  BY <1>1, <1>2, <1>4, BridgeInvariant, FundsInvariant, PTL
  DEF Spec, BackingLosesOnlyRounding
=============================================================================
