---------------------------- MODULE AuraBalVault ----------------------------
(***************************************************************************)
(* The auraBAL compounder: GenericUnionVault gives shares of the auraBAL   *)
(* that AuraBalStrategy stakes.  A harvest sells the rewards and stakes    *)
(* what they bring, so a share is worth more; a withdrawal leaves a        *)
(* penalty to the others; the last to leave takes everything.              *)
(*                                                                         *)
(* The amounts are auraBAL.  What a harvest brings is the choice of the    *)
(* exchanges it sells on.                                                  *)
(***************************************************************************)
EXTENDS Integers, FiniteSets, Functions

CONSTANTS
  Users,
  InitialWallet,        \* auraBAL of each user
  Amounts,              \* bound: assets and shares a user asks for
  Gains,                \* bound: auraBAL a harvest brings
  InitialRewards,       \* bound: auraBAL that all harvests bring
  Penalties,            \* bound: values of withdrawalPenalty
  FEE_DENOMINATOR       \* 10000

ASSUME VaultAssumption ==
  /\ IsFiniteSet(Users) /\ InitialWallet \in [Users -> Nat]
  /\ Amounts \subseteq Nat /\ Gains \subseteq Nat /\ InitialRewards \in Nat
  /\ FEE_DENOMINATOR \in Nat \ {0}
  /\ Penalties \subseteq 0 .. FEE_DENOMINATOR - 1

VARIABLES
  wallet,               \* user -> auraBAL outside the vault
  balanceOf,            \* user -> shares
  totalSupply,          \* shares
  totalUnderlying,      \* auraBAL the strategy has staked
  rewards,              \* auraBAL that harvests have still to bring
  withdrawalPenalty

vaultVars == <<wallet, balanceOf, totalSupply, totalUnderlying, rewards, withdrawalPenalty>>

-----------------------------------------------------------------------------
(* Conversions.                                                            *)

(* Mutant: shares are rounded up.                                          *)
SharesFor_RoundsUp(amount) ==
  IF totalSupply = 0 THEN amount
  ELSE (amount * totalSupply + totalUnderlying - 1) \div totalUnderlying

SharesFor(amount) ==
  IF totalSupply = 0 THEN amount ELSE (amount * totalSupply) \div totalUnderlying

UnderlyingOf(shares) == (shares * totalUnderlying) \div totalSupply

RoundUpDiv(a, b) == (a \div b) + (IF a % b > 0 THEN 1 ELSE 0)

(* Mutant: the shares to burn are rounded down.                            *)
PreviewWithdraw_RoundsDown(assets, penalty) ==
  SharesFor((FEE_DENOMINATOR * assets) \div (FEE_DENOMINATOR - penalty))

PreviewWithdraw(assets, penalty) ==
  LET gross == (FEE_DENOMINATOR * assets) \div (FEE_DENOMINATOR - penalty)
  IN  IF totalSupply = 0 THEN gross ELSE RoundUpDiv(gross * totalSupply, totalUnderlying)

PreviewMint(shares) ==
  IF totalSupply = 0 THEN shares ELSE RoundUpDiv(shares * totalUnderlying, totalSupply)

-----------------------------------------------------------------------------
(* The operations of an account.                                           *)

(* What deposit does once it has the tokens.                               *)
Stake(amount, receiver) ==
  /\ amount > 0
  /\ totalSupply > 0 => totalUnderlying > 0
  /\ balanceOf' = [balanceOf EXCEPT ![receiver] = @ + SharesFor(amount)]
  /\ totalSupply' = totalSupply + SharesFor(amount)
  /\ totalUnderlying' = totalUnderlying + amount
  /\ UNCHANGED <<rewards, withdrawalPenalty>>

Deposit(from, amount, receiver) ==
  /\ amount <= wallet[from]
  /\ wallet' = [wallet EXCEPT ![from] = @ - amount]
  /\ Stake(amount, receiver)

(* mint                                                                    *)
MintShares(from, shares, receiver) == Deposit(from, PreviewMint(shares), receiver)

(* Mutant: the penalty is paid on top.                                     *)
AfterPenalty_OnTop(amount, penalty) == amount + ((amount * penalty) \div FEE_DENOMINATOR)

(* _getWithdrawalPenalty                                                   *)
AfterPenalty(amount, penalty) == amount - ((amount * penalty) \div FEE_DENOMINATOR)

(* _withdraw: the last to leave harvests and takes all there is.           *)
PaidFor(shares, penalty, gain) ==
  IF shares = totalSupply THEN totalUnderlying + gain
  ELSE AfterPenalty(UnderlyingOf(shares), penalty)

(* What redeem does but for sending the tokens.  The staking contract      *)
(* refuses to pay nothing.                                                 *)
Unstake(owner, shares, penalty, gain) ==
  /\ totalSupply > 0
  /\ shares <= balanceOf[owner] /\ shares <= totalSupply
  /\ gain <= rewards /\ (shares < totalSupply => gain = 0)
  /\ PaidFor(shares, penalty, gain) > 0
  /\ balanceOf' = [balanceOf EXCEPT ![owner] = @ - shares]
  /\ totalSupply' = totalSupply - shares
  /\ totalUnderlying' = totalUnderlying + gain - PaidFor(shares, penalty, gain)
  /\ rewards' = rewards - gain
  /\ UNCHANGED withdrawalPenalty

Redeem(owner, shares, receiver, penalty, gain) ==
  /\ Unstake(owner, shares, penalty, gain)
  /\ wallet' = [wallet EXCEPT ![receiver] = @ + PaidFor(shares, penalty, gain)]

Withdraw(owner, assets, receiver, penalty, gain) ==
  /\ totalSupply > 0 => totalUnderlying > 0
  /\ Redeem(owner, PreviewWithdraw(assets, penalty), receiver, penalty, gain)

Transfer(from, to, shares) ==
  /\ from # to /\ shares <= balanceOf[from]
  /\ balanceOf' = [balanceOf EXCEPT ![from] = @ - shares, ![to] = @ + shares]
  /\ UNCHANGED <<wallet, totalSupply, totalUnderlying, rewards, withdrawalPenalty>>

(* harvest, by a harvester, or by anybody when nobody holds shares.        *)
Harvest(gain) ==
  /\ gain <= rewards
  /\ totalUnderlying' = totalUnderlying + gain
  /\ rewards' = rewards - gain
  /\ UNCHANGED <<wallet, balanceOf, totalSupply, withdrawalPenalty>>

SetWithdrawalPenalty(penalty) ==
  /\ penalty # withdrawalPenalty
  /\ withdrawalPenalty' = penalty
  /\ UNCHANGED <<wallet, balanceOf, totalSupply, totalUnderlying, rewards>>

-----------------------------------------------------------------------------
VaultInit ==
  /\ wallet = InitialWallet
  /\ balanceOf = [u \in Users |-> 0]
  /\ totalSupply = 0
  /\ totalUnderlying = 0
  /\ rewards = InitialRewards
  /\ withdrawalPenalty = 0

(* All that an account may do.  Who has an allowance does it in its name.  *)
UserStep(u) ==
  \E v \in Users, amount \in Amounts :
    \/ Deposit(u, amount, v)
    \/ MintShares(u, amount, v)
    \/ \E gain \in Gains : Redeem(u, amount, v, withdrawalPenalty, gain)
    \/ \E gain \in Gains : Withdraw(u, amount, v, withdrawalPenalty, gain)
    \/ Transfer(u, v, amount)

(* Whoever the users are that act, a harvest may come in between.          *)
VaultStep(users) ==
  \/ \E u \in users : UserStep(u)
  \/ \E gain \in Gains : Harvest(gain)
  \/ \E penalty \in Penalties : SetWithdrawalPenalty(penalty)

VaultSpec == VaultInit /\ [][VaultStep(Users)]_vaultVars
=============================================================================
