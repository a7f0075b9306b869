---------------------------- MODULE ExtraRewards ----------------------------
(***************************************************************************)
(* rewards/ExtraRewardsDistributor.sol over the locker, and                *)
(* rewards/AuraPenaltyForwarder.sol that feeds it.  A reward is added to   *)
(* an epoch of the locker, per unit of the supply of that epoch, and once  *)
(* a later epoch is checkpointed an account claims its balance's share.    *)
(*                                                                         *)
(* Every mapping of the distributor is per token, so one token is          *)
(* modelled.  An epoch is named by its start instead of its index.  The    *)
(* distributor reads epochCount, supplies and balances from the locker as  *)
(* it is at that moment, and only adding a reward checkpoints it first.    *)
(***************************************************************************)
EXTENDS AuraLockerProperties

CONSTANTS
  Depositors,          \* addresses the owner may allow to add rewards
  forwarder,           \* the AuraPenaltyForwarder, one of them
  distributionDelay,   \* of the forwarder
  DepositAmounts,      \* bound: amounts added and penalties paid
  InitialDeposits,     \* tokens in the hands of depositors at deployment
  SharePrecision       \* 1e20

ASSUME ExtraRewardsAssumption ==
  /\ forwarder \in Depositors
  /\ distributionDelay \in Nat
  /\ DepositAmounts \subseteq Nat /\ InitialDeposits \in Nat
  /\ SharePrecision \in Nat \ {0}

VARIABLES
  canAddReward,        \* the allowed depositors
  rewardPerShare,      \* epoch -> reward per locked token (rewardData[token])
  rewardEpochs,        \* the epochs with rewards, in order
  userClaims,          \* account -> how many of rewardEpochs are settled
  distributorVault,    \* token.balanceOf(distributor)
  deposits,            \* tokens the depositors still hold
  penalties,           \* token.balanceOf(forwarder)
  lastDistribution     \* of the forwarder

extraVars == <<canAddReward, rewardPerShare, rewardEpochs, userClaims, distributorVault,
               deposits, penalties, lastDistribution>>
allVars == <<vars, extraVars>>

-----------------------------------------------------------------------------
(* Adding rewards.                                                         *)

(* epochCount() - 1                                                        *)
latestEpoch == LastOf(epochs).date

AddedPerShare(amount, epoch) == (amount * SharePrecision) \div SupplyAt(epoch)

(* Mutant: rewards may be added to any epoch that has begun.               *)
CanAddTo_Any(epoch) == epoch <= currentEpoch

(* An epoch after all that have rewards.                                   *)
IsNewest(epoch) == rewardEpochs # <<>> => LastOf(rewardEpochs) < epoch

(* addRewardToEpoch: the running epoch, or one that is over but newest.    *)
CanAddTo(epoch) ==
  \/ epoch = currentEpoch
  \/ epoch < currentEpoch /\ IsNewest(epoch)

(* _addReward after checkpointEpoch.  The views of the locker refuse an    *)
(* epoch that begins in this very block, and nothing can be divided by a   *)
(* supply of zero.                                                         *)
RecordReward(amount, epoch) ==
  /\ CheckpointEpoch
  /\ CanAddTo(epoch)
  /\ 0 < amount
  /\ epoch < now
  /\ 0 < SupplyAt(epoch)
  /\ distributorVault' = distributorVault + amount
  /\ rewardPerShare' = [rewardPerShare EXCEPT ![epoch] = @ + AddedPerShare(amount, epoch)]
  /\ rewardEpochs' =
       IF IsNewest(epoch) THEN Append(rewardEpochs, epoch) ELSE rewardEpochs

(* addReward and addRewardToEpoch by a depositor of its own.               *)
AddExtraReward(depositor, amount, epoch) ==
  /\ depositor \in canAddReward \ {forwarder}
  /\ amount <= deposits
  /\ RecordReward(amount, epoch)
  /\ deposits' = deposits - amount
  /\ UNCHANGED <<canAddReward, userClaims, penalties, lastDistribution>>

(* AuraPenaltyForwarder.forward: all it holds, to the running epoch.       *)
Forward ==
  /\ now > lastDistribution + distributionDelay
  /\ forwarder \in canAddReward
  /\ RecordReward(penalties, currentEpoch)
  /\ penalties' = 0
  /\ lastDistribution' = now
  /\ UNCHANGED <<canAddReward, userClaims, deposits>>

(* Somebody sends tokens to the forwarder.                                 *)
PayPenalty(amount) ==
  /\ 0 < amount /\ amount <= deposits
  /\ deposits' = deposits - amount
  /\ penalties' = penalties + amount
  /\ UNCHANGED <<vars, canAddReward, rewardPerShare, rewardEpochs, userClaims,
                 distributorVault, lastDistribution>>

-----------------------------------------------------------------------------
(* Claims.                                                                 *)

(* Mutant: the share is that of what the account has locked now.           *)
ClaimableAt_Locked(a, epoch) == (balances[a].locked * rewardPerShare[epoch]) \div SharePrecision

(* _claimableRewards                                                       *)
ClaimableAt(a, epoch) == (BalanceAt(epoch, a) * rewardPerShare[epoch]) \div SharePrecision

ClaimOver(a, I) ==
  SumFunctionOnSet([i \in DOMAIN rewardEpochs |-> ClaimableAt(a, rewardEpochs[i])], I)

(* _allClaimableRewards: what is neither settled nor skipped and is over   *)
(* by the last checkpoint.                                                 *)
Claimable(a, startIndex) ==
  {i \in DOMAIN rewardEpochs :
     i > startIndex /\ i > userClaims[a] /\ rewardEpochs[i] < latestEpoch}

(* getReward.  With nothing to pay the index stays where it is.            *)
ClaimExtraReward(a, startIndex) ==
  LET claimed == Claimable(a, startIndex)
      amount == ClaimOver(a, claimed)
  IN  /\ amount \in 1 .. distributorVault
      /\ distributorVault' = distributorVault - amount
      /\ \E index \in claimed :
           /\ \A i \in claimed : i <= index
           /\ userClaims' = [userClaims EXCEPT ![a] = index]
      /\ UNCHANGED <<vars, canAddReward, rewardPerShare, rewardEpochs, deposits, penalties,
                     lastDistribution>>

(* forfeitRewards: everything up to and including the entry of this index, *)
(* which counts from 0 and is never the last one.                          *)
ForfeitRewards(a, index) ==
  /\ 0 < index /\ index < Len(rewardEpochs) - 1
  /\ userClaims[a] <= index
  /\ userClaims' = [userClaims EXCEPT ![a] = index + 1]
  /\ UNCHANGED <<vars, canAddReward, rewardPerShare, rewardEpochs, distributorVault, deposits,
                 penalties, lastDistribution>>

ModifyWhitelist(depositor, canAdd) ==
  /\ canAddReward' = IF canAdd THEN canAddReward \cup {depositor} ELSE canAddReward \ {depositor}
  /\ UNCHANGED <<vars, rewardPerShare, rewardEpochs, userClaims, distributorVault, deposits,
                 penalties, lastDistribution>>

-----------------------------------------------------------------------------
ExtraInit ==
  /\ Init
  /\ canAddReward = {}
  /\ rewardPerShare = [t \in EpochDates |-> 0]
  /\ rewardEpochs = <<>>
  /\ userClaims = [a \in Accounts |-> 0]
  /\ distributorVault = 0
  /\ deposits = InitialDeposits
  /\ penalties = 0
  /\ lastDistribution = StartTime

LockerStep == Next /\ UNCHANGED extraVars

DepositStep ==
  \/ \E d \in Depositors, amount \in DepositAmounts, i \in DOMAIN CheckpointedEpochs :
       AddExtraReward(d, amount, CheckpointedEpochs[i].date)
  \/ \E amount \in DepositAmounts : PayPenalty(amount)
  \/ Forward
  \/ \E d \in Depositors, canAdd \in BOOLEAN : ModifyWhitelist(d, canAdd)

ClaimStep ==
  \E a \in Accounts, index \in 0 .. Len(rewardEpochs) :
    ClaimExtraReward(a, index) \/ ForfeitRewards(a, index)

ExtraNext == LockerStep \/ DepositStep \/ ClaimStep

ExtraSpec == ExtraInit /\ [][ExtraNext]_allVars

-----------------------------------------------------------------------------
(* What the extra rewards are checked for.                                 *)

(* The distributor holds every claim that is still open, those of the      *)
(* running epoch included: the supply an amount was divided by when it was *)
(* added, before or after the epoch was checkpointed, is the sum of the    *)
(* balances the shares are paid on, long after the locks have been         *)
(* withdrawn, relocked or kicked (ExtraRewardsDistributor._addReward,      *)
(* _claimableRewards, AuraLocker.totalSupplyAtEpoch, balanceAtEpochOf).    *)
OpenClaims(a) == ClaimOver(a, (userClaims[a] + 1) .. Len(rewardEpochs))

ExtraRewardsCovered ==
  SumFunctionOnSet([a \in Accounts |-> OpenClaims(a)], Accounts) <= distributorVault

(* Whatever an account has settled, by a claim or by forfeiting, can never *)
(* grow again: no epoch enters the list behind its index and no reward is  *)
(* added to one, so that nothing is lost to those who claim early          *)
(* (addRewardToEpoch, getReward with an index, forfeitRewards).            *)
Settled == {i \in DOMAIN rewardEpochs : \E a \in Accounts : i <= userClaims[a]}

SettledEpochsClosed ==
  [][\A i \in Settled :
       /\ rewardEpochs'[i] = rewardEpochs[i]
       /\ rewardPerShare'[rewardEpochs[i]] = rewardPerShare[rewardEpochs[i]]]_allVars
=============================================================================
