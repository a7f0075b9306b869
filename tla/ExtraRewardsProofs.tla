------------------------- MODULE ExtraRewardsProofs -------------------------
(***************************************************************************)
(* What an account has settled stays settled, and what is still to be      *)
(* claimed is covered, for every number of accounts and depositors, every  *)
(* amount and every length of an epoch.                                    *)
(* The argument: an index only passes epochs that are over by the locker's *)
(* last checkpoint, and a reward goes to the running epoch or behind the   *)
(* last entry of the list. Balances at listed epochs are of the past and   *)
(* stay, and add up to the supply that a reward is divided by.             *)
(***************************************************************************)
EXTENDS ExtraRewards, AuraLockerProofs

(* Entries of the list, in order, and no later than the last checkpoint.   *)
ListInv ==
  /\ rewardEpochs \in Seq(EpochDates)
  /\ \A i, j \in 1 .. Len(rewardEpochs) : i < j => rewardEpochs[i] < rewardEpochs[j]
  /\ \A i \in 1 .. Len(rewardEpochs) : rewardEpochs[i] <= latestEpoch
  /\ rewardPerShare = [t \in EpochDates |-> rewardPerShare[t]]

(* What is settled is over.                                                *)
SettledInv ==
  /\ userClaims \in [Accounts -> Nat]
  /\ \A a \in Accounts :
       /\ userClaims[a] <= Len(rewardEpochs)
       /\ \A i \in 1 .. userClaims[a] : rewardEpochs[i] < latestEpoch

EInv == IInv /\ ListInv /\ SettledInv

SettledStay ==
  \A i \in Settled :
    /\ rewardEpochs'[i] = rewardEpochs[i]
    /\ rewardPerShare'[rewardEpochs[i]] = rewardPerShare[rewardEpochs[i]]

-----------------------------------------------------------------------------
(* The last checkpointed epoch only moves on.                              *)

(* The latest epoch of the locker is a date and not of the future.         *)
LEMMA LatestIsDate ==
  ASSUME EpochInv
  PROVE  latestEpoch \in Nat /\ latestEpoch <= currentEpoch
<1>1. Len(epochs) \in 1 .. Len(epochs) /\ epochs \in Seq(EpochRecords)
  BY EmptySeq, LenProperties DEF EpochInv, EpochType
<1>2. LastOf(epochs) \in EpochRecords
  BY <1>1, ElementOfSeq DEF LastOf
<1> QED
  BY <1>2 DEF EpochRecords, EpochDates, latestEpoch, EpochInv, EpochsConsecutive

(* After a checkpoint the latest epoch is the current one.                 *)
LEMMA Checkpointed ==
  ASSUME ClockType, EpochInv
  PROVE  /\ LastOf(CheckpointedEpochs).date = currentEpoch
         /\ CheckpointedEpochs \in Seq(EpochRecords) /\ CheckpointedEpochs # <<>>
         /\ Consecutive(CheckpointedEpochs)
<1>1. EpochType /\ Consecutive(epochs)
  BY DEF EpochInv, EpochsConsecutive, Consecutive
<1> QED
  BY <1>1, EpochsFilled

(* checkpointEpoch moves the latest epoch on to the current one.           *)
LEMMA CheckpointMovesOn ==
  ASSUME ClockType, EpochInv, CheckpointEpoch
  PROVE  latestEpoch' = currentEpoch
  BY Checkpointed DEF CheckpointEpoch, latestEpoch, LastOf

(* So does lock.                                                           *)
LEMMA LockMovesOn ==
  ASSUME ClockType, EpochInv, NEW a \in Accounts, NEW amount \in Nat, NEW ckpts,
         RecordLock(a, amount, ckpts)
  PROVE  latestEpoch' = currentEpoch
<1>1. epochs' = AddToLastEpoch(CheckpointedEpochs, amount)
  BY DEF RecordLock
<1>2. LastOf(epochs').date = LastOf(CheckpointedEpochs).date
  BY <1>1, Checkpointed, AddToLastKeeps
<1> QED
  BY <1>2, Checkpointed DEF latestEpoch, LastOf

(* The latest epoch never moves back.                                      *)
LEMMA EpochsMoveOn ==
  ASSUME IInv, [Next]_vars
  PROVE  latestEpoch' \in Nat /\ latestEpoch <= latestEpoch'
<1> USE InvParts
<1>1. latestEpoch \in Nat /\ latestEpoch <= currentEpoch
  BY LatestIsDate
<1>2. latestEpoch' = currentEpoch \/ epochs' = epochs
  <2>1. CASE \E s, a \in Accounts, amount \in LockAmounts : Lock(s, a, amount)
    <3> PICK s \in Accounts, a \in Accounts, amount \in LockAmounts : Lock(s, a, amount)
      BY <2>1
    <3>1. amount \in Nat /\ RecordLock(a, amount, checkpointedVotes)
      BY AmountAssumption DEF Lock
    <3> QED
      BY <3>1, LockMovesOn
  <2>2. CASE \E a \in Accounts : RelockExpiredLocks(a)
    <3> PICK a \in Accounts : RelockExpiredLocks(a)
      BY <2>2
    <3> DEFINE amount == Release(a, TRUE, 0).amount
    <3>1. RecordLock(a, amount, CheckpointedDelegatee(a))
      BY DEF RelockExpiredLocks
    <3>2. amount \in 1 .. balances[a].locked
      BY DEF RelockExpiredLocks, CanRelease
    <3>3. balances[a].locked \in Nat
      BY DEF BookInv, BookType
    <3> HIDE DEF amount
    <3>4. amount \in Nat
      BY <3>2, <3>3
    <3> QED
      BY <3>1, <3>4, LockMovesOn
  <2>3. CASE CheckpointEpoch
    BY <2>3, CheckpointMovesOn
  <2>4. CASE UserStep
    BY <2>1, <2>2, <2>4
       DEF UserStep, ProcessExpiredLocks, KickExpiredLocks, Withdraw, EmergencyWithdraw, Delegate,
           GetReward, lockVars
  <2>5. CASE RewardStep
    BY <2>5 DEF RewardStep, QueueNewRewards, AddReward, ApproveRewardDistributor, lockVars
  <2>6. CASE OwnerStep
    BY <2>6 DEF OwnerStep, ModifyBlacklist, SetKickIncentive, Shutdown, lockVars
  <2>7. CASE Tick
    BY <2>7 DEF Tick, lockVars
  <2>8. CASE UNCHANGED vars
    BY <2>8 DEF vars, lockVars
  <2> QED
    BY <2>3, <2>4, <2>5, <2>6, <2>7, <2>8 DEF Next
<1>3. currentEpoch \in Nat
  BY Dates DEF ClockType, EpochDates
<1> QED
  BY <1>1, <1>2, <1>3 DEF latestEpoch

-----------------------------------------------------------------------------
(* One lemma per handler.                                                  *)

(* A settled epoch is in the list and past.                                *)
LEMMA SettledInList ==
  ASSUME EInv, NEW i \in Settled
  PROVE  /\ i \in 1 .. Len(rewardEpochs) /\ rewardEpochs[i] \in EpochDates
         /\ rewardEpochs[i] < latestEpoch
<1>1. /\ DOMAIN rewardEpochs = 1 .. Len(rewardEpochs)
      /\ Len(rewardEpochs) \in Nat
      /\ \A j \in 1 .. Len(rewardEpochs) : rewardEpochs[j] \in EpochDates
  BY LenProperties, ElementOfSeq DEF EInv, ListInv
<1>2. PICK a \in Accounts : i <= userClaims[a]
  BY DEF Settled
<1>3. i \in 1 .. Len(rewardEpochs) /\ userClaims[a] \in Nat
  BY <1>1 DEF Settled, EInv, SettledInv
<1>4. i \in 1 .. userClaims[a]
  BY <1>1, <1>2, <1>3
<1> QED
  BY <1>1, <1>3, <1>4 DEF EInv, SettledInv

(* While the list stays as it is, so do the invariants.                    *)
LEMMA ListFrame ==
  ASSUME EInv, [Next]_vars, rewardEpochs' = rewardEpochs, rewardPerShare' = rewardPerShare
  PROVE  /\ IInv' /\ ListInv' /\ SettledStay
         /\ userClaims' = userClaims => SettledInv'
<1>1. IInv'
  BY StepInv DEF EInv
<1>2. /\ latestEpoch \in Nat /\ latestEpoch' \in Nat /\ latestEpoch <= latestEpoch'
  BY EpochsMoveOn, LatestIsDate, InvParts DEF EInv
<1>3. /\ Len(rewardEpochs) \in Nat
      /\ \A j \in 1 .. Len(rewardEpochs) : rewardEpochs[j] \in Nat
  BY LenProperties, ElementOfSeq DEF EInv, ListInv, EpochDates
<1>4. ListInv'
  BY <1>2, <1>3 DEF EInv, ListInv
<1>5. ASSUME userClaims' = userClaims PROVE SettledInv'
  <2>1. ASSUME NEW a \in Accounts, NEW i \in 1 .. userClaims[a]
        PROVE  rewardEpochs[i] < latestEpoch'
    <3>1. i \in 1 .. Len(rewardEpochs) /\ rewardEpochs[i] < latestEpoch
      BY <1>3 DEF EInv, SettledInv
    <3> QED
      BY <1>2, <1>3, <3>1
  <2> QED
    BY <1>5, <2>1 DEF EInv, SettledInv
<1>6. SettledStay
  BY DEF SettledStay
<1> QED
  BY <1>1, <1>4, <1>5, <1>6

(* Recording a reward keeps the list of epochs in order and the settled    *)
(* ones as they are (_addReward).                                          *)
LEMMA RecordRewardStep ==
  ASSUME EInv, NEW amount, NEW epoch \in EpochDates, RecordReward(amount, epoch),
         userClaims' = userClaims
  PROVE  EInv' /\ SettledStay
<1> DEFINE n == Len(rewardEpochs)
<1>1. IInv'
  BY CheckpointEpochStep DEF EInv, RecordReward
<1>2. /\ latestEpoch \in Nat /\ latestEpoch <= currentEpoch /\ latestEpoch' = currentEpoch
      /\ currentEpoch \in Nat /\ epoch \in Nat /\ epoch <= currentEpoch
  BY LatestIsDate, CheckpointMovesOn, InvParts, Dates
     DEF EInv, RecordReward, CanAddTo, ClockType, EpochDates
<1>3. /\ n \in Nat /\ DOMAIN rewardEpochs = 1 .. n /\ rewardEpochs \in Seq(EpochDates)
      /\ \A j \in 1 .. n : rewardEpochs[j] \in EpochDates /\ rewardEpochs[j] \in Nat
  BY LenProperties, ElementOfSeq DEF EInv, ListInv, EpochDates
<1>4. rewardPerShare' = [t \in EpochDates |-> rewardPerShare'[t]]
  BY DEF EInv, ListInv, RecordReward
<1>5. ASSUME IsNewest(epoch), NEW j \in 1 .. n
      PROVE  rewardEpochs[j] < epoch
  <2>1. rewardEpochs # <<>> /\ n \in 1 .. n
    BY <1>3, EmptySeq
  <2>2. rewardEpochs[n] < epoch /\ rewardEpochs[j] <= rewardEpochs[n]
    BY <1>3, <1>5, <2>1 DEF IsNewest, LastOf, EInv, ListInv
  <2> QED
    BY <1>2, <1>3, <2>1, <2>2
<1>6. ASSUME NEW j \in 1 .. n PROVE rewardEpochs[j] <= currentEpoch
  BY <1>2, <1>3 DEF EInv, ListInv
<1>7. /\ ListInv' /\ Len(rewardEpochs') \in Nat /\ n <= Len(rewardEpochs')
      /\ \A j \in 1 .. n : rewardEpochs'[j] = rewardEpochs[j]
  <2>1. CASE IsNewest(epoch)
    <3> DEFINE new == Append(rewardEpochs, epoch)
    <3>1. rewardEpochs' = new
      BY <2>1 DEF RecordReward
    <3>2. /\ new \in Seq(EpochDates) /\ Len(new) = n + 1 /\ new[n + 1] = epoch
          /\ \A j \in 1 .. n : new[j] = rewardEpochs[j]
      BY <1>3, AppendProperties
    <3> HIDE DEF new
    <3>3. \A i, j \in 1 .. (n + 1) : i < j => new[i] < new[j]
      <4> SUFFICES ASSUME NEW i \in 1 .. (n + 1), NEW j \in 1 .. (n + 1), i < j
                   PROVE  new[i] < new[j]
        OBVIOUS
      <4>1. CASE j = n + 1
        BY <1>3, <1>5, <2>1, <3>2, <4>1
      <4>2. CASE j # n + 1
        <5>1. i \in 1 .. n /\ j \in 1 .. n
          BY <1>3, <4>2
        <5> QED
          BY <3>2, <5>1 DEF EInv, ListInv
      <4> QED
        BY <4>1, <4>2
    <3>4. \A j \in 1 .. (n + 1) : new[j] <= latestEpoch'
      BY <1>2, <1>3, <1>6, <3>2
    <3> QED
      BY <1>3, <1>4, <3>1, <3>2, <3>3, <3>4 DEF ListInv
  <2>2. CASE ~IsNewest(epoch)
    <3>1. rewardEpochs' = rewardEpochs
      BY <2>2 DEF RecordReward
    <3> QED
      BY <1>2, <1>3, <1>4, <1>6, <3>1 DEF EInv, ListInv
  <2> QED
    BY <2>1, <2>2
<1>8. SettledInv'
  <2>1. ASSUME NEW a \in Accounts
        PROVE  /\ userClaims[a] \in Nat /\ userClaims[a] <= Len(rewardEpochs')
               /\ \A i \in 1 .. userClaims[a] : rewardEpochs'[i] < latestEpoch'
    <3>1. /\ userClaims[a] \in Nat /\ userClaims[a] <= n
          /\ \A i \in 1 .. userClaims[a] : rewardEpochs[i] < latestEpoch
      BY DEF EInv, SettledInv
    <3> QED
      BY <1>2, <1>3, <1>7, <3>1
  <2> QED
    BY <2>1 DEF EInv, SettledInv
<1>9. SettledStay
  <2> SUFFICES ASSUME NEW i \in Settled
               PROVE  /\ rewardEpochs'[i] = rewardEpochs[i]
                      /\ rewardPerShare'[rewardEpochs[i]] = rewardPerShare[rewardEpochs[i]]
    BY DEF SettledStay
  <2>1. i \in 1 .. n /\ rewardEpochs[i] \in EpochDates /\ rewardEpochs[i] < latestEpoch
    BY SettledInList
  <2>2. rewardEpochs[i] # epoch
    <3>1. CASE epoch = currentEpoch
      BY <1>2, <1>3, <2>1, <3>1
    <3>2. CASE IsNewest(epoch)
      BY <1>2, <1>3, <1>5, <2>1, <3>2
    <3> QED
      BY <3>1, <3>2 DEF RecordReward, CanAddTo
  <2> QED
    BY <1>7, <2>1, <2>2 DEF RecordReward, EInv, ListInv
<1> QED
  BY <1>1, <1>7, <1>8, <1>9 DEF EInv

(* Depositing and queueing keep the list.                                  *)
LEMMA DepositStepInv ==
  ASSUME EInv, DepositStep
  PROVE  EInv' /\ SettledStay
<1>1. ASSUME NEW d \in Depositors, NEW amount \in DepositAmounts, NEW i \in DOMAIN CheckpointedEpochs,
             AddExtraReward(d, amount, CheckpointedEpochs[i].date)
      PROVE  EInv' /\ SettledStay
  <2> DEFINE epoch == CheckpointedEpochs[i].date
  <2>1. CheckpointedEpochs \in Seq(EpochRecords)
    BY Checkpointed, InvParts DEF EInv
  <2>2. CheckpointedEpochs[i] \in EpochRecords
    BY <2>1, LenProperties, ElementOfSeq
  <2>3. epoch \in EpochDates /\ amount \in Nat
    BY <2>2, ExtraRewardsAssumption DEF EpochRecords
  <2>4. RecordReward(amount, epoch) /\ userClaims' = userClaims
    BY <1>1 DEF AddExtraReward
  <2> HIDE DEF epoch
  <2> QED
    BY <2>3, <2>4, RecordRewardStep
<1>2. ASSUME NEW amount \in DepositAmounts, PayPenalty(amount)
      PROVE  EInv' /\ SettledStay
  BY <1>2, ListFrame DEF PayPenalty, EInv
<1>3. ASSUME Forward
      PROVE  EInv' /\ SettledStay
  <2>1. currentEpoch \in EpochDates
    BY Dates, InvParts DEF EInv, ClockType
  <2> QED
    BY <1>3, <2>1, RecordRewardStep DEF Forward
<1>4. ASSUME NEW d \in Depositors, NEW canAdd \in BOOLEAN, ModifyWhitelist(d, canAdd)
      PROVE  EInv' /\ SettledStay
  BY <1>4, ListFrame DEF ModifyWhitelist, EInv
<1> QED
  BY <1>1, <1>2, <1>3, <1>4 DEF DepositStep

(* An index moves within the list, over epochs that are over.              *)
LEMMA IndexMoves ==
  ASSUME EInv, UNCHANGED vars, rewardEpochs' = rewardEpochs, rewardPerShare' = rewardPerShare,
         NEW a \in Accounts, NEW index \in 1 .. Len(rewardEpochs),
         userClaims' = [userClaims EXCEPT ![a] = index],
         rewardEpochs[index] < latestEpoch
  PROVE  EInv' /\ SettledStay
<1>1. IInv' /\ ListInv' /\ SettledStay
  BY ListFrame
<1>2. latestEpoch' = latestEpoch /\ latestEpoch \in Nat
  BY LatestIsDate, InvParts DEF EInv, vars, lockVars, latestEpoch
<1>3. /\ Len(rewardEpochs) \in Nat
      /\ \A j \in 1 .. Len(rewardEpochs) : rewardEpochs[j] \in Nat
  BY LenProperties, ElementOfSeq DEF EInv, ListInv, EpochDates
<1>4. ASSUME NEW i \in 1 .. index PROVE rewardEpochs[i] < latestEpoch
  <2>1. i \in 1 .. Len(rewardEpochs) /\ (i = index \/ i < index)
    BY <1>3
  <2> QED
    BY <1>2, <1>3, <2>1 DEF EInv, ListInv
<1>5. SettledInv'
  <2>1. ASSUME NEW x \in Accounts
        PROVE  /\ userClaims'[x] \in Nat /\ userClaims'[x] <= Len(rewardEpochs)
               /\ \A i \in 1 .. userClaims'[x] : rewardEpochs[i] < latestEpoch
    <3>1. CASE x = a
      BY <1>3, <1>4, <3>1 DEF EInv, SettledInv
    <3>2. CASE x # a
      BY <3>2 DEF EInv, SettledInv
    <3> QED
      BY <3>1, <3>2
  <2>2. userClaims' \in [Accounts -> Nat]
    BY <1>3 DEF EInv, SettledInv
  <2> QED
    BY <1>2, <2>1, <2>2, Zenon DEF SettledInv
<1> QED
  BY <1>1, <1>5 DEF EInv

(* Claiming and forfeiting keep the list.                                  *)
LEMMA ClaimStepInv ==
  ASSUME EInv, ClaimStep
  PROVE  EInv' /\ SettledStay
<1>1. /\ Len(rewardEpochs) \in Nat /\ DOMAIN rewardEpochs = 1 .. Len(rewardEpochs)
      /\ \A j \in 1 .. Len(rewardEpochs) : rewardEpochs[j] \in Nat
  BY LenProperties, ElementOfSeq DEF EInv, ListInv, EpochDates
<1>2. ASSUME NEW a \in Accounts, NEW start \in 0 .. Len(rewardEpochs), ClaimExtraReward(a, start)
      PROVE  EInv' /\ SettledStay
  <2>1. PICK index \in Claimable(a, start) : userClaims' = [userClaims EXCEPT ![a] = index]
    BY <1>2 DEF ClaimExtraReward
  <2>2. index \in 1 .. Len(rewardEpochs) /\ rewardEpochs[index] < latestEpoch
    BY <1>1 DEF Claimable
  <2>3. UNCHANGED vars /\ rewardEpochs' = rewardEpochs /\ rewardPerShare' = rewardPerShare
    BY <1>2 DEF ClaimExtraReward
  <2> QED
    BY <2>1, <2>2, <2>3, IndexMoves
<1>3. ASSUME NEW a \in Accounts, NEW index \in 0 .. Len(rewardEpochs), ForfeitRewards(a, index)
      PROVE  EInv' /\ SettledStay
  <2> DEFINE n == Len(rewardEpochs)
  <2>1. /\ index + 1 \in 1 .. n /\ n \in 1 .. n /\ index + 1 < n
        /\ userClaims' = [userClaims EXCEPT ![a] = index + 1]
        /\ UNCHANGED vars /\ rewardEpochs' = rewardEpochs /\ rewardPerShare' = rewardPerShare
    BY <1>1, <1>3 DEF ForfeitRewards
  <2>2. rewardEpochs[index + 1] < rewardEpochs[n] /\ rewardEpochs[n] <= latestEpoch
    BY <2>1 DEF EInv, ListInv
  <2>3. latestEpoch \in Nat
    BY LatestIsDate, InvParts DEF EInv
  <2>4. rewardEpochs[index + 1] < latestEpoch
    BY <1>1, <2>1, <2>2, <2>3
  <2> QED
    BY <2>1, <2>4, IndexMoves
<1> QED
  BY <1>2, <1>3 DEF ClaimStep

-----------------------------------------------------------------------------
(* The theorem.                                                            *)

(* The list is empty after construction.                                   *)
LEMMA ExtraInitInv == ExtraInit => EInv
<1> SUFFICES ASSUME ExtraInit PROVE EInv
  OBVIOUS
<1>1. IInv
  BY InitInv DEF ExtraInit
<1>2. ListInv /\ SettledInv
  BY DEF ExtraInit, ListInv, SettledInv
<1> QED
  BY <1>1, <1>2 DEF EInv

(* Every step keeps the list and what is settled.                          *)
LEMMA ExtraStepInv == EInv /\ [ExtraNext]_allVars => EInv' /\ SettledStay
<1> SUFFICES ASSUME EInv, [ExtraNext]_allVars PROVE EInv' /\ SettledStay
  OBVIOUS
<1>1. CASE LockerStep
  BY <1>1, ListFrame DEF LockerStep, extraVars, EInv
<1>2. CASE DepositStep
  BY <1>2, DepositStepInv
<1>3. CASE ClaimStep
  BY <1>3, ClaimStepInv
<1>4. CASE UNCHANGED allVars
  BY <1>4, ListFrame DEF allVars, extraVars, EInv
<1> QED
  BY <1>1, <1>2, <1>3, <1>4 DEF ExtraNext

(* What an account has claimed or forfeited never grows again: no epoch    *)
(* enters the list behind its index, and no reward is added to one that it *)
(* has passed, by addReward, addRewardToEpoch or a forwarded penalty.      *)
THEOREM SettledEpochsStayClosed == ExtraSpec => SettledEpochsClosed
<1>1. ExtraInit => EInv
  BY ExtraInitInv
<1>2. EInv /\ [ExtraNext]_allVars => EInv' /\ SettledStay
  BY ExtraStepInv
<1> QED
  BY <1>1, <1>2, PTL DEF ExtraSpec, SettledEpochsClosed, SettledStay

-----------------------------------------------------------------------------
(* The claims that are open, before any rounding.                          *)

(* Of the entries of a list: the balance at the epoch times its reward per *)
(* share; and over all accounts, behind the index of each.                 *)
Shares(bal, perShare, list, a) == [i \in DOMAIN list |-> bal[list[i]][a] * perShare[list[i]]]
OpenShares(bal, perShare, list, claims, a) ==
  SumFunctionOnSet(Shares(bal, perShare, list, a), (claims[a] + 1) .. Len(list))
AllShares(bal, perShare, list, claims) ==
  SumFunctionOnSet([a \in Accounts |-> OpenShares(bal, perShare, list, claims, a)], Accounts)

(* A function that grows at one point of a set, and one that grows by its  *)
(* stake at each: what their sums come to.                                 *)
GrowsAt(f, g, I, D, y, d) ==
  /\ IsFiniteSet(I) /\ d \in Nat /\ y \in I
  /\ \A i \in I \ {y} : i \in D /\ f[i] \in Nat /\ g[i] = f[i]
  /\ y \in D => f[y] \in Nat
  /\ y \in D => g[y] = d + f[y]
  /\ y \notin D => g[y] = d

(* A sum grows by what one place gets.                                     *)
LEMMA SumGrowsAt ==
  ASSUME NEW f, NEW g, NEW I, NEW D, NEW y, NEW d, GrowsAt(f, g, I, D, y, d)
  PROVE  SumFunctionOnSet(g, I) = SumFunctionOnSet(f, I \cap D) + d
<1>1. /\ IsFiniteSet(I) /\ d \in Nat /\ y \in I
      /\ \A i \in I \ {y} : i \in D /\ f[i] \in Nat /\ g[i] = f[i]
      /\ y \in D => f[y] \in Nat
      /\ y \in D => g[y] = d + f[y]
      /\ y \notin D => g[y] = d
  BY DEF GrowsAt
<1>2. y \in I => SumFunctionOnSet(g, I) = SumFunctionOnSet(f, I \cap D) + d
  BY <1>1, SumOfAdded
<1> QED
  BY <1>1, <1>2

GrowsByStakes(f, g, stakes, S, q) ==
  /\ IsFiniteSet(S) /\ q \in Nat
  /\ \A x \in S : f[x] \in Nat /\ stakes[x] \in Nat /\ g[x] = f[x] + stakes[x] * q

(* A sum grows by the stakes times the growth per stake.                   *)
LEMMA SumGrowsByStakes ==
  ASSUME NEW f, NEW g, NEW stakes, NEW S, NEW q, GrowsByStakes(f, g, stakes, S, q)
  PROVE  /\ SumFunctionOnSet(f, S) \in Nat
         /\ SumFunctionOnSet(g, S) = SumFunctionOnSet(f, S) + SumFunctionOnSet(stakes, S) * q
  BY ClaimsGrow DEF GrowsByStakes

(* What an account can claim of each epoch of the list is a number.        *)
LEMMA SharesAreNat ==
  ASSUME NEW bal \in [EpochDates -> [Accounts -> Nat]], NEW perShare \in [EpochDates -> Nat],
         NEW list \in Seq(EpochDates), NEW a \in Accounts, NEW I \in SUBSET (1 .. Len(list))
  PROVE  /\ IsFiniteSet(I) /\ \A i \in I : Shares(bal, perShare, list, a)[i] \in Nat
         /\ SumFunctionOnSet(Shares(bal, perShare, list, a), I) \in Nat
<1> DEFINE f == Shares(bal, perShare, list, a)
<1>1. /\ Len(list) \in Nat /\ DOMAIN list = 1 .. Len(list)
      /\ \A i \in 1 .. Len(list) : list[i] \in EpochDates
  BY LenProperties, ElementOfSeq
<1>2. IsFiniteSet(I)
  <2>1. IsFiniteSet(1 .. Len(list))
    BY <1>1, FS_Interval
  <2> QED
    BY <2>1, FS_Subset
<1>3. ASSUME NEW i \in I PROVE f[i] \in Nat
  <2>1. i \in DOMAIN list /\ list[i] \in EpochDates
    BY <1>1
  <2>2. bal[list[i]][a] \in Nat /\ perShare[list[i]] \in Nat
    BY <2>1
  <2>3. bal[list[i]][a] * perShare[list[i]] \in Nat
    BY <2>2, ProductIsNat
  <2> QED
    BY <2>1, <2>3 DEF Shares
<1> HIDE DEF f
<1>4. SumFunctionOnSet(f, I) \in Nat
  BY <1>2, <1>3, SumIsNat
<1> QED
  BY <1>2, <1>3, <1>4 DEF f

(* They depend on the balances at the listed epochs alone.                 *)
LEMMA SharesStay ==
  ASSUME NEW bal, NEW balNow, NEW perShare, NEW list, NEW claims,
         \A i \in DOMAIN list : balNow[list[i]] = bal[list[i]]
  PROVE  AllShares(balNow, perShare, list, claims) = AllShares(bal, perShare, list, claims)
<1>1. ASSUME NEW a \in Accounts
      PROVE  OpenShares(balNow, perShare, list, claims, a) = OpenShares(bal, perShare, list, claims, a)
  <2>1. Shares(balNow, perShare, list, a) = Shares(bal, perShare, list, a)
    BY DEF Shares
  <2> QED
    BY <2>1, Zenon DEF OpenShares
<1>2. [a \in Accounts |-> OpenShares(balNow, perShare, list, claims, a)]
        = [a \in Accounts |-> OpenShares(bal, perShare, list, claims, a)]
  BY <1>1
<1> QED
  BY <1>2, Zenon DEF AllShares

(* The list new is the list, or goes on with e.                            *)
ListGrows(bal, perShare, list, e, q, new, k, claims) ==
  /\ bal \in [EpochDates -> [Accounts -> Nat]] /\ perShare \in [EpochDates -> Nat]
  /\ list \in Seq(EpochDates) /\ e \in EpochDates /\ q \in Nat
  /\ new \in Seq(EpochDates) /\ k \in Nat \ {0} /\ claims \in [Accounts -> Nat]
  /\ Len(new) = k /\ new[k] = e
  /\ k = Len(list) \/ (k = Len(list) + 1 /\ perShare[e] = 0)
  /\ \A i \in 1 .. (k - 1) : new[i] = list[i] /\ new[i] # e
  /\ k = Len(list) => list[k] = e
  /\ \A a \in Accounts : claims[a] < k

Raised(perShare, e, q) == [perShare EXCEPT ![e] = @ + q]

(* More of a reward at the last entry of the list, which may be new to it: *)
(* every account's open share grows by its balance at that epoch times     *)
(* what each locked token gets.                                            *)
LEMMA SharesAdded ==
  ASSUME NEW bal, NEW perShare, NEW list, NEW e, NEW q, NEW new, NEW k, NEW claims,
         ListGrows(bal, perShare, list, e, q, new, k, claims)
  PROVE  /\ AllShares(bal, Raised(perShare, e, q), new, claims)
              = AllShares(bal, perShare, list, claims) + SumFunctionOnSet(bal[e], Accounts) * q
         /\ AllShares(bal, perShare, list, claims) \in Nat
<1> DEFINE n == Len(list)
           D == 1 .. n
           perShareNow == Raised(perShare, e, q)
           f(a) == Shares(bal, perShare, list, a)
           g(a) == Shares(bal, perShareNow, new, a)
           I(a) == (claims[a] + 1) .. k
           owed == [a \in Accounts |-> OpenShares(bal, perShare, list, claims, a)]
           owedNow == [a \in Accounts |-> OpenShares(bal, perShareNow, new, claims, a)]
<1>0. /\ bal \in [EpochDates -> [Accounts -> Nat]] /\ perShare \in [EpochDates -> Nat]
      /\ list \in Seq(EpochDates) /\ e \in EpochDates /\ q \in Nat
      /\ new \in Seq(EpochDates) /\ k \in Nat \ {0} /\ claims \in [Accounts -> Nat]
      /\ Len(new) = k /\ new[k] = e
      /\ k = Len(list) \/ (k = Len(list) + 1 /\ perShare[e] = 0)
      /\ \A i \in 1 .. (k - 1) : new[i] = list[i] /\ new[i] # e
      /\ k = Len(list) => list[k] = e
      /\ \A a \in Accounts : claims[a] < k
  BY DEF ListGrows
<1> USE <1>0
<1>1. /\ n \in Nat /\ DOMAIN list = D /\ DOMAIN new = 1 .. k
      /\ \A i \in D : list[i] \in EpochDates
      /\ perShareNow \in [EpochDates -> Nat] /\ perShareNow[e] = perShare[e] + q
      /\ \A t \in EpochDates : t # e => perShareNow[t] = perShare[t]
      /\ k = n \/ (k = n + 1 /\ perShare[e] = 0)
      /\ k = n => list[k] = e
  BY LenProperties, ElementOfSeq DEF Raised
<1> HIDE DEF perShareNow
<1>2. ASSUME NEW a \in Accounts
      PROVE  /\ owed[a] \in Nat /\ bal[e][a] \in Nat
             /\ owedNow[a] = owed[a] + bal[e][a] * q
  <2> DEFINE d == bal[e][a] * q
  <2>1. bal[e][a] \in Nat /\ d \in Nat /\ perShare[e] \in Nat
    BY ProductIsNat
  <2>2. /\ I(a) \in SUBSET (1 .. k) /\ claims[a] \in Nat /\ k \in I(a)
        /\ I(a) \cap D = (claims[a] + 1) .. n /\ IsFiniteSet(I(a))
    <3>1. claims[a] \in Nat /\ claims[a] < k
      OBVIOUS
    <3>2. IsFiniteSet(1 .. k)
      BY FS_Interval
    <3>3. I(a) \in SUBSET (1 .. k) /\ k \in I(a)
      BY <3>1
    <3>4. IsFiniteSet(I(a))
      BY <3>2, <3>3, FS_Subset
    <3>5. I(a) \cap D = (claims[a] + 1) .. n
      <4> HIDE DEF n
      <4> QED
        BY <1>1, <3>1
    <3> QED
      BY <3>1, <3>3, <3>4, <3>5
  <2>3. /\ (claims[a] + 1) .. n \in SUBSET (1 .. n)
        /\ SumFunctionOnSet(f(a), (claims[a] + 1) .. n) \in Nat
        /\ \A i \in D : f(a)[i] \in Nat
    <3>1. (claims[a] + 1) .. n \in SUBSET (1 .. n) /\ 1 .. n \in SUBSET (1 .. n)
      BY <1>1, <2>2
    <3> QED
      BY <3>1, SharesAreNat
  <2>4. \A i \in I(a) \ {k} : i \in D /\ f(a)[i] \in Nat /\ g(a)[i] = f(a)[i]
    <3> SUFFICES ASSUME NEW i \in I(a) \ {k}
                 PROVE  i \in D /\ f(a)[i] \in Nat /\ g(a)[i] = f(a)[i]
      OBVIOUS
    <3>1. i \in 1 .. (k - 1) /\ i \in D /\ i \in 1 .. k
      <4>1. i \in (claims[a] + 1) .. k /\ i # k
        OBVIOUS
      <4> HIDE DEF n
      <4> QED
        BY <1>1, <2>2, <4>1
    <3>2. new[i] = list[i] /\ list[i] # e /\ list[i] \in EpochDates
      BY <1>1, <3>1
    <3>3. perShareNow[list[i]] = perShare[list[i]]
      BY <1>1, <3>2
    <3>4. g(a)[i] = bal[new[i]][a] * perShareNow[new[i]] /\ f(a)[i] = bal[list[i]][a] * perShare[list[i]]
      BY <1>1, <3>1 DEF Shares
    <3>5. g(a)[i] = f(a)[i]
      BY <3>2, <3>3, <3>4, Zenon
    <3> QED
      BY <2>3, <3>1, <3>5
  <2>5. g(a)[k] = bal[e][a] * (perShare[e] + q)
    <3>1. k \in 1 .. k /\ new[k] = e
      OBVIOUS
    <3>2. g(a)[k] = bal[new[k]][a] * perShareNow[new[k]]
      BY <1>1, <3>1 DEF Shares
    <3> QED
      BY <1>1, <3>1, <3>2, Zenon
  <2>6. k \in D => f(a)[k] = bal[e][a] * perShare[e]
    <3> SUFFICES ASSUME k \in D PROVE f(a)[k] = bal[e][a] * perShare[e]
      OBVIOUS
    <3>1. list[k] = e
      <4> HIDE DEF n
      <4> QED
        BY <1>1
    <3>2. f(a)[k] = bal[list[k]][a] * perShare[list[k]]
      BY <1>1 DEF Shares
    <3> QED
      BY <3>1, <3>2, Zenon
  <2>7. bal[e][a] * (perShare[e] + q) = d + bal[e][a] * perShare[e]
    <3>1. \A x, y, z \in Nat : x * (y + z) = x * z + x * y
      OBVIOUS
    <3> QED
      BY <2>1, <3>1
  <2>8. k \notin D => bal[e][a] * (perShare[e] + q) = d
    <3>1. k \notin D => perShare[e] = 0
      <4> HIDE DEF n
      <4> QED
        BY <1>1
    <3>2. 0 + q = q
      OBVIOUS
    <3> QED
      BY <3>1, <3>2
  <2>9. OpenShares(bal, perShareNow, new, claims, a) = SumFunctionOnSet(g(a), I(a))
    BY DEF OpenShares
  <2>10. OpenShares(bal, perShare, list, claims, a) = SumFunctionOnSet(f(a), (claims[a] + 1) .. n)
    BY DEF OpenShares
  <2> HIDE DEF f, g, d, D, I
  <2>11. SumFunctionOnSet(g(a), I(a)) = SumFunctionOnSet(f(a), I(a) \cap D) + d
    <3> DEFINE F == f(a)
               G == g(a)
               J == I(a)
    <3>1. /\ k \in D => F[k] \in Nat
          /\ k \in D => G[k] = d + F[k]
          /\ k \notin D => G[k] = d
      BY <2>3, <2>5, <2>6, <2>7, <2>8
    <3>2. \A i \in J \ {k} : i \in D /\ F[i] \in Nat /\ G[i] = F[i]
      BY <2>4
    <3>3. IsFiniteSet(J) /\ k \in J /\ d \in Nat
      BY <2>1, <2>2
    <3> HIDE DEF F, G, J
    <3>4. GrowsAt(F, G, J, D, k, d)
      BY <3>1, <3>2, <3>3, Zenon DEF GrowsAt
    <3>5. SumFunctionOnSet(G, J) = SumFunctionOnSet(F, J \cap D) + d
      BY <3>4, SumGrowsAt
    <3> QED
      BY <3>5 DEF F, G, J
  <2>12. SumFunctionOnSet(f(a), I(a) \cap D) = SumFunctionOnSet(f(a), (claims[a] + 1) .. n)
    BY <2>2, Zenon
  <2> QED
    BY <2>1, <2>3, <2>9, <2>10, <2>11, <2>12 DEF d
<1>3. IsFiniteSet(Accounts)
  BY AddressAssumption
<1>4. /\ AllShares(bal, perShare, list, claims) = SumFunctionOnSet(owed, Accounts)
      /\ AllShares(bal, perShareNow, new, claims) = SumFunctionOnSet(owedNow, Accounts)
  BY DEF AllShares
<1> DEFINE stakes == bal[e]
<1>5. \A a \in Accounts : /\ owed[a] \in Nat /\ stakes[a] \in Nat
                         /\ owedNow[a] = owed[a] + stakes[a] * q
  BY <1>2
<1> HIDE DEF owed, owedNow, stakes
<1>6. GrowsByStakes(owed, owedNow, stakes, Accounts, q)
  BY <1>3, <1>5, Zenon DEF GrowsByStakes
<1>7. /\ SumFunctionOnSet(owed, Accounts) \in Nat
      /\ SumFunctionOnSet(owedNow, Accounts)
           = SumFunctionOnSet(owed, Accounts) + SumFunctionOnSet(stakes, Accounts) * q
  BY <1>6, SumGrowsByStakes
<1> QED
  BY <1>4, <1>7 DEF stakes, perShareNow

(* What all accounts can still claim is a number.                          *)
LEMMA SharesStayNat ==
  ASSUME NEW bal \in [EpochDates -> [Accounts -> Nat]], NEW perShare \in [EpochDates -> Nat],
         NEW list \in Seq(EpochDates), NEW claims \in [Accounts -> Nat]
  PROVE  AllShares(bal, perShare, list, claims) \in Nat
<1> DEFINE open == [a \in Accounts |-> OpenShares(bal, perShare, list, claims, a)]
<1>1. ASSUME NEW a \in Accounts PROVE open[a] \in Nat
  <2> DEFINE n == Len(list)
             from == claims[a]
  <2>1. n \in Nat /\ from \in Nat
    BY LenProperties
  <2>2. (from + 1) .. n \in SUBSET (1 .. n)
    <3> HIDE DEF n, from
    <3> QED
      BY <2>1
  <2>3. SumFunctionOnSet(Shares(bal, perShare, list, a), (from + 1) .. n) \in Nat
    BY <2>2, SharesAreNat
  <2> QED
    BY <2>3 DEF OpenShares
<1>2. IsFiniteSet(Accounts) /\ \A a \in Accounts : open[a] \in Nat
  BY <1>1, AddressAssumption
<1> HIDE DEF open
<1>3. SumFunctionOnSet(open, Accounts) \in Nat
  BY <1>2, SumIsNat
<1> QED
  BY <1>3 DEF open, AllShares

(* An index moves on, past the entries that are paid and maybe others:     *)
(* what is left open and what was paid fit into what was open.             *)
IndexPasses(bal, perShare, list, claims, a, index, paid) ==
  /\ bal \in [EpochDates -> [Accounts -> Nat]] /\ perShare \in [EpochDates -> Nat]
  /\ list \in Seq(EpochDates) /\ claims \in [Accounts -> Nat] /\ a \in Accounts
  /\ index \in Nat /\ claims[a] <= index
  /\ paid \in SUBSET ((claims[a] + 1) .. index) /\ paid \subseteq 1 .. Len(list)

(* Passing epochs takes at least what is paid for them out of what can be  *)
(* claimed.                                                                *)
LEMMA SharesClaimed ==
  ASSUME NEW bal, NEW perShare, NEW list, NEW claims, NEW a, NEW index, NEW paid,
         IndexPasses(bal, perShare, list, claims, a, index, paid)
  PROVE  /\ AllShares(bal, perShare, list, [claims EXCEPT ![a] = index])
               + SumFunctionOnSet(Shares(bal, perShare, list, a), paid)
             <= AllShares(bal, perShare, list, claims)
         /\ AllShares(bal, perShare, list, [claims EXCEPT ![a] = index]) \in Nat
         /\ SumFunctionOnSet(Shares(bal, perShare, list, a), paid) \in Nat
<1> DEFINE n == Len(list)
           now_ == [claims EXCEPT ![a] = index]
           f == Shares(bal, perShare, list, a)
           open == (claims[a] + 1) .. n
           left == (index + 1) .. n
           before == [x \in Accounts |-> OpenShares(bal, perShare, list, claims, x)]
           after == [x \in Accounts |-> OpenShares(bal, perShare, list, now_, x)]
<1>0. /\ bal \in [EpochDates -> [Accounts -> Nat]] /\ perShare \in [EpochDates -> Nat]
      /\ list \in Seq(EpochDates) /\ claims \in [Accounts -> Nat] /\ a \in Accounts
      /\ index \in Nat /\ claims[a] <= index
      /\ paid \in SUBSET ((claims[a] + 1) .. index) /\ paid \subseteq 1 .. Len(list)
  BY DEF IndexPasses
<1> USE <1>0
<1>1. n \in Nat /\ claims[a] \in Nat
  BY LenProperties
<1>2. /\ now_ \in [Accounts -> Nat] /\ now_[a] = index
      /\ \A x \in Accounts \ {a} : now_[x] = claims[x]
  OBVIOUS
<1> HIDE DEF now_
<1>3. \A x \in Accounts : before[x] \in Nat /\ after[x] \in Nat
  <2> SUFFICES ASSUME NEW x \in Accounts PROVE before[x] \in Nat /\ after[x] \in Nat
    OBVIOUS
  <2>1. claims[x] \in Nat /\ now_[x] \in Nat
    BY <1>2
  <2>2. (claims[x] + 1) .. n \in SUBSET (1 .. n) /\ (now_[x] + 1) .. n \in SUBSET (1 .. n)
    BY <1>1, <2>1
  <2>3. /\ SumFunctionOnSet(Shares(bal, perShare, list, x), (claims[x] + 1) .. n) \in Nat
        /\ SumFunctionOnSet(Shares(bal, perShare, list, x), (now_[x] + 1) .. n) \in Nat
    BY <2>2, SharesAreNat
  <2> QED
    BY <2>3 DEF OpenShares
<1>4. \A x \in Accounts : x # a => before[x] = after[x]
  BY <1>2 DEF OpenShares
<1>5. /\ open \in SUBSET (1 .. n) /\ left \in SUBSET (1 .. n) /\ paid \in SUBSET (1 .. n)
      /\ left \cap paid = {} /\ left \cup paid \in SUBSET open
  <2> DEFINE from == claims[a]
  <2>1. from \in Nat /\ from <= index /\ \A i \in paid : i \in (from + 1) .. index /\ i \in 1 .. n
    BY <1>1
  <2> HIDE DEF n, from
  <2>2. /\ (from + 1) .. n \in SUBSET (1 .. n) /\ left \in SUBSET (1 .. n)
        /\ left \in SUBSET ((from + 1) .. n)
    BY <1>1, <2>1
  <2>3. paid \in SUBSET (1 .. n) /\ paid \in SUBSET ((from + 1) .. n)
    BY <1>1, <2>1
  <2>4. left \cap paid = {}
    BY <1>1, <2>1
  <2> QED
    BY <2>2, <2>3, <2>4 DEF from
<1>6. before[a] = SumFunctionOnSet(f, open) /\ after[a] = SumFunctionOnSet(f, left)
  BY <1>2 DEF OpenShares
<1>7. /\ IsFiniteSet(open) /\ IsFiniteSet(left) /\ IsFiniteSet(paid)
      /\ \A i \in open : f[i] \in Nat
      /\ SumFunctionOnSet(f, open) \in Nat
      /\ SumFunctionOnSet(f, left) \in Nat
      /\ SumFunctionOnSet(f, paid) \in Nat
  BY <1>5, SharesAreNat
<1> HIDE DEF f, open, left
<1>8. after[a] + SumFunctionOnSet(f, paid) <= before[a]
  <2>1. \A i \in left \cup paid : f[i] \in Int
    BY <1>5, <1>7
  <2>2. SumFunctionOnSet(f, left \cup paid) = SumFunctionOnSet(f, left) + SumFunctionOnSet(f, paid)
    BY <1>5, <1>7, <2>1, SumOfUnion
  <2>3. SumFunctionOnSet(f, left \cup paid) <= SumFunctionOnSet(f, open)
    BY <1>5, <1>7, SumOfPart
  <2> QED
    BY <1>6, <2>2, <2>3
<1>9. IsFiniteSet(Accounts)
  BY AddressAssumption
<1>10. /\ AllShares(bal, perShare, list, claims) = SumFunctionOnSet(before, Accounts)
       /\ AllShares(bal, perShare, list, now_) = SumFunctionOnSet(after, Accounts)
  BY DEF AllShares
<1> HIDE DEF before, after
<1>11. SumFunctionOnSet(after, Accounts)
         = SumFunctionOnSet(before, Accounts) + (after[a] - before[a])
  <2>1. \A x \in Accounts : before[x] \in Int /\ after[x] \in Int /\ (x # a => before[x] = after[x])
    BY <1>3, <1>4
  <2> QED
    BY <1>9, <2>1, SumOfChanged
<1>12. SumFunctionOnSet(after, Accounts) \in Nat /\ SumFunctionOnSet(before, Accounts) \in Nat
  BY <1>3, <1>9, SumIsNat
<1>13. before[a] \in Nat /\ after[a] \in Nat
  BY <1>3
<1> QED
  BY <1>7, <1>8, <1>10, <1>11, <1>12, <1>13 DEF now_, f

-----------------------------------------------------------------------------
(* The claims stay covered.                                                *)

(* balanceAtEpochOf, as a table.                                           *)
BalanceOf == [t \in EpochDates |-> [a \in Accounts |-> BalanceAt(t, a)]]

(* What is open fits into the distributor before any rounding, so that no  *)
(* rounding of a later claim has to be looked at; an epoch that is not in  *)
(* the list has no rewards yet.                                            *)
CoveredInv ==
  /\ rewardPerShare \in [EpochDates -> Nat]
  /\ distributorVault \in Nat /\ penalties \in Nat
  /\ \A t \in EpochDates :
       (\A i \in 1 .. Len(rewardEpochs) : rewardEpochs[i] # t) => rewardPerShare[t] = 0
  /\ AllShares(BalanceOf, rewardPerShare, rewardEpochs, userClaims)
       <= distributorVault * SharePrecision

(* The balance of each account at each epoch is a number.                  *)
LEMMA BalanceOfType ==
  ASSUME EInv
  PROVE  BalanceOf \in [EpochDates -> [Accounts -> Nat]]
<1>1. ASSUME NEW t \in EpochDates, NEW a \in Accounts PROVE BalanceAt(t, a) \in Nat
  <2>1. BookType /\ LocksSorted /\ t \in Nat
    BY InvParts DEF EInv, BookInv, EpochDates
  <2>2. BalanceAt(t, a) = AmountOf(userLocks[a], CountedLocks(a, t))
    BY <2>1, BalanceIsCounted
  <2>3. userLocks[a] \in Seq(LockRecords) /\ CountedLocks(a, t) \in SUBSET (DOMAIN userLocks[a])
    BY <2>1 DEF BookType, CountedLocks
  <2> QED
    BY <2>2, <2>3, AmountIsNat
<1> QED
  BY <1>1 DEF BalanceOf

(* Every epoch of the list is a date and has begun.                        *)
LEMMA ListedHaveBegun ==
  ASSUME EInv
  PROVE  /\ Len(rewardEpochs) \in Nat /\ DOMAIN rewardEpochs = 1 .. Len(rewardEpochs)
         /\ \A i \in 1 .. Len(rewardEpochs) :
              /\ rewardEpochs[i] \in EpochDates /\ rewardEpochs[i] \in Nat
              /\ rewardEpochs[i] <= currentEpoch
<1>1. /\ Len(rewardEpochs) \in Nat /\ DOMAIN rewardEpochs = 1 .. Len(rewardEpochs)
      /\ \A i \in 1 .. Len(rewardEpochs) :
           rewardEpochs[i] \in EpochDates /\ rewardEpochs[i] \in Nat /\ rewardEpochs[i] <= latestEpoch
  BY LenProperties, ElementOfSeq DEF EInv, ListInv, EpochDates
<1>2. latestEpoch \in Nat /\ latestEpoch <= currentEpoch /\ currentEpoch \in Nat
  BY LatestIsDate, InvParts, Dates DEF EInv, ClockType, EpochDates
<1> QED
  BY <1>1, <1>2

(* No step of the locker changes a balance that a claim is paid on.        *)
LEMMA BalanceOfStays ==
  ASSUME EInv, [Next]_vars
  PROVE  \A t \in EpochDates : t <= currentEpoch => BalanceOf'[t] = BalanceOf[t]
<1> SUFFICES ASSUME NEW t \in EpochDates, t <= currentEpoch PROVE BalanceOf'[t] = BalanceOf[t]
  OBVIOUS
<1>1. t \in Nat /\ IInv
  BY DEF EpochDates, EInv
<1>2. \A a \in Accounts : BalanceAt(t, a)' = BalanceAt(t, a)
  BY <1>1, PastBalancesStay
<1>3. BalanceOf'[t] = [a \in Accounts |-> BalanceAt(t, a)']
  BY DEF BalanceOf
<1>4. BalanceOf[t] = [a \in Accounts |-> BalanceAt(t, a)]
  BY DEF BalanceOf
<1> QED
  BY <1>2, <1>3, <1>4

(* No step of the locker changes what can be claimed of the epochs of the  *)
(* list: their balances are of the past.                                   *)
LEMMA SharesOfListStay ==
  ASSUME EInv, [Next]_vars
  PROVE  \A perShare, claims :
           AllShares(BalanceOf', perShare, rewardEpochs, claims)
             = AllShares(BalanceOf, perShare, rewardEpochs, claims)
<1>1. \A i \in DOMAIN rewardEpochs : BalanceOf'[rewardEpochs[i]] = BalanceOf[rewardEpochs[i]]
  BY ListedHaveBegun, BalanceOfStays
<1> QED
  BY <1>1, SharesStay

(* While nothing is added or claimed.                                      *)
LEMMA CoveredFrame ==
  ASSUME EInv, CoveredInv, [Next]_vars, penalties' \in Nat,
         UNCHANGED <<rewardPerShare, rewardEpochs, userClaims, distributorVault>>
  PROVE  CoveredInv'
<1>1. AllShares(BalanceOf', rewardPerShare, rewardEpochs, userClaims)
        = AllShares(BalanceOf, rewardPerShare, rewardEpochs, userClaims)
  BY SharesOfListStay
<1> QED
  BY <1>1 DEF CoveredInv

(* The epochs that a reward can go to are known to the locker.             *)
LEMMA CheckpointedAreKnown ==
  ASSUME IInv, NEW i \in DOMAIN CheckpointedEpochs, CheckpointedEpochs[i].date <= currentEpoch
  PROVE  CheckpointedEpochs[i].date \in KnownEpochs
<1> DEFINE es == CheckpointedEpochs
           e == es[i].date
<1>1. ClockType /\ EpochType /\ Consecutive(epochs)
  BY EpochsOfInv
<1>2. es \in Seq(EpochRecords) /\ es # <<>> /\ Consecutive(es)
  BY <1>1, EpochsFilled
<1>3. es[1] = epochs[1]
  <2>1. 1 \in DOMAIN epochs /\ \A j \in DOMAIN epochs : es[j] = epochs[j]
    BY <1>1, EpochsExtended
  <2> QED
    BY <2>1
<1> HIDE DEF es
<1>4. /\ i \in Nat \ {0} /\ es[i] \in EpochRecords /\ es[1] \in EpochRecords
      /\ es[i].date = es[1].date + (i - 1) * rewardsDuration
  <2>1. Len(es) \in Nat /\ DOMAIN es = 1 .. Len(es) /\ i \in DOMAIN es
    BY <1>2, LenProperties DEF es
  <2>2. i \in 1 .. Len(es) /\ 1 \in 1 .. Len(es)
    BY <2>1
  <2> QED
    BY <1>2, <2>1, <2>2, ElementOfSeq DEF Consecutive
<1>5. e \in EpochDates /\ e \in Nat /\ es[1].date \in Nat
  BY <1>4 DEF EpochRecords, EpochDates
<1>6. es[1].date <= e
  <2>1. i - 1 \in Nat /\ rewardsDuration \in Nat
    BY <1>4, Durations
  <2>2. (i - 1) * rewardsDuration \in Nat
    BY <2>1, ProductIsNat
  <2> QED
    BY <1>4, <1>5, <2>2
<1>7. e <= upcomingEpoch
  <2>1. currentEpoch \in Nat /\ upcomingEpoch = currentEpoch + rewardsDuration
    BY <1>1, Dates DEF ClockType, EpochDates
  <2>2. e <= currentEpoch
    BY DEF es
  <2> QED
    BY <1>5, <2>1, <2>2, Durations
<1> QED
  BY <1>3, <1>5, <1>6, <1>7 DEF KnownEpochs, es

(* An amount that is added covers the shares it is divided into: the       *)
(* supply it is divided by is the sum of the balances.                     *)
LEMMA AddedIsCovered ==
  ASSUME EInv, SuppliesInv, CoveredInv, NEW amount \in Nat, NEW e \in KnownEpochs,
         RecordReward(amount, e), userClaims' = userClaims, penalties' \in Nat
  PROVE  CoveredInv'
<1> DEFINE n == Len(rewardEpochs)
           k == Len(rewardEpochs')
           q == AddedPerShare(amount, e)
           before == AllShares(BalanceOf, rewardPerShare, rewardEpochs, userClaims)
           after == AllShares(BalanceOf, rewardPerShare', rewardEpochs', userClaims)
<1>1. /\ n \in Nat /\ DOMAIN rewardEpochs = 1 .. n /\ rewardEpochs \in Seq(EpochDates)
      /\ \A i \in 1 .. n : /\ rewardEpochs[i] \in EpochDates /\ rewardEpochs[i] \in Nat
                           /\ rewardEpochs[i] <= currentEpoch
      /\ \A i, j \in 1 .. n : i < j => rewardEpochs[i] < rewardEpochs[j]
  BY ListedHaveBegun DEF EInv, ListInv
<1>2. /\ e \in EpochDates /\ e \in Nat /\ e <= currentEpoch
      /\ currentEpoch \in Nat /\ latestEpoch \in Nat /\ latestEpoch <= currentEpoch
  BY LatestIsDate, InvParts, Dates
     DEF EInv, RecordReward, CanAddTo, ClockType, EpochDates, KnownEpochs
<1>3. /\ userClaims \in [Accounts -> Nat]
      /\ \A a \in Accounts : /\ userClaims[a] <= n
                             /\ \A i \in 1 .. userClaims[a] : rewardEpochs[i] < latestEpoch
  BY DEF EInv, SettledInv
<1>4. /\ rewardEpochs' \in Seq(EpochDates) /\ k \in Nat \ {0} /\ rewardEpochs'[k] = e
      /\ k = n \/ (k = n + 1 /\ rewardPerShare[e] = 0)
      /\ \A i \in 1 .. (k - 1) : rewardEpochs'[i] = rewardEpochs[i] /\ rewardEpochs'[i] # e
      /\ k = n => rewardEpochs[k] = e
      /\ \A a \in Accounts : userClaims[a] < k
  <2>1. CASE IsNewest(e)
    <3> DEFINE new == Append(rewardEpochs, e)
    <3>1. rewardEpochs' = new
      BY <2>1 DEF RecordReward
    <3>2. /\ new \in Seq(EpochDates) /\ Len(new) = n + 1 /\ new[n + 1] = e
          /\ \A j \in 1 .. n : new[j] = rewardEpochs[j]
      BY <1>1, <1>2, AppendProperties
    <3> HIDE DEF new
    <3>3. \A j \in 1 .. n : rewardEpochs[j] < e
      <4> SUFFICES ASSUME NEW j \in 1 .. n PROVE rewardEpochs[j] < e
        OBVIOUS
      <4>1. rewardEpochs # <<>> /\ n \in 1 .. n
        BY <1>1, EmptySeq
      <4>2. rewardEpochs[n] < e
        BY <2>1, <4>1 DEF IsNewest, LastOf
      <4>3. /\ rewardEpochs[j] \in Nat /\ rewardEpochs[n] \in Nat
            /\ j = n \/ rewardEpochs[j] < rewardEpochs[n]
        <5>1. /\ n \in Nat /\ \A i \in 1 .. n : rewardEpochs[i] \in Nat
              /\ \A i, l \in 1 .. n : i < l => rewardEpochs[i] < rewardEpochs[l]
          BY <1>1
        <5> HIDE DEF n
        <5>2. j = n \/ j < n
          BY <5>1
        <5> QED
          BY <4>1, <5>1, <5>2
      <4> QED
        BY <1>2, <4>2, <4>3
    <3>4. \A j \in 1 .. n : rewardEpochs[j] # e
      BY <1>1, <1>2, <3>3
    <3>5. rewardPerShare[e] = 0
      BY <1>2, <3>4 DEF CoveredInv
    <3>6. k = n + 1 /\ k - 1 = n /\ k # n
      <4>1. k = n + 1 /\ n \in Nat
        BY <1>1, <3>1, <3>2
      <4> HIDE DEF n, k
      <4> QED
        BY <4>1
    <3>7. \A a \in Accounts : userClaims[a] < n + 1
      BY <1>1, <1>3
    <3> HIDE DEF n, k
    <3> QED
      BY <1>1, <3>1, <3>2, <3>4, <3>5, <3>6, <3>7
  <2>2. CASE ~IsNewest(e)
    <3>1. rewardEpochs' = rewardEpochs /\ e = currentEpoch
      BY <2>2 DEF RecordReward, CanAddTo
    <3>2. rewardEpochs # <<>> /\ ~(rewardEpochs[n] < e) /\ n \in 1 .. n
      BY <1>1, <2>2, EmptySeq DEF IsNewest, LastOf
    <3>3. rewardEpochs[n] = e
      BY <1>1, <1>2, <3>1, <3>2
    <3>4. \A i \in 1 .. (n - 1) : rewardEpochs[i] # e
      <4> SUFFICES ASSUME NEW i \in 1 .. (n - 1) PROVE rewardEpochs[i] # e
        OBVIOUS
      <4>1. i \in 1 .. n /\ i < n
        BY <1>1
      <4>2. rewardEpochs[i] < rewardEpochs[n] /\ rewardEpochs[i] \in Nat
        BY <1>1, <3>2, <4>1
      <4> QED
        BY <1>2, <3>3, <4>2
    <3>5. ASSUME NEW a \in Accounts PROVE userClaims[a] < n
      <4>1. userClaims[a] \in Nat /\ userClaims[a] <= n
        BY <1>3
      <4>2. ~(userClaims[a] = n)
        <5> SUFFICES ASSUME userClaims[a] = n PROVE FALSE
          OBVIOUS
        <5>1. rewardEpochs[n] < latestEpoch
          BY <1>3, <3>2
        <5> QED
          BY <1>2, <3>1, <3>3, <5>1
      <4> QED
        BY <1>1, <4>1, <4>2
    <3>6. k = n /\ n \in Nat \ {0}
      BY <1>1, <3>1, <3>2
    <3> HIDE DEF n, k
    <3> QED
      BY <1>1, <3>1, <3>3, <3>4, <3>5, <3>6
  <2> QED
    BY <2>1, <2>2
<1>5. /\ SupplyAt(e) = SumFunctionOnSet(BalanceOf[e], Accounts)
      /\ SupplyAt(e) \in Nat \ {0}
  <2>1. IInv
    BY DEF EInv
  <2>2. SupplyAt(e) = SumFunctionOnSet([a \in Accounts |-> BalanceAt(e, a)], Accounts)
    BY <2>1, SuppliesMatch
  <2>3. [a \in Accounts |-> BalanceAt(e, a)] = BalanceOf[e]
    BY <1>2 DEF BalanceOf
  <2>4. SupplyAt(e) = SumFunctionOnSet(BalanceOf[e], Accounts)
    BY <2>2, <2>3, Zenon
  <2>5. IsFiniteSet(Accounts) /\ \A a \in Accounts : BalanceOf[e][a] \in Nat
    BY <1>2, BalanceOfType, AddressAssumption
  <2>6. SumFunctionOnSet(BalanceOf[e], Accounts) \in Nat
    BY <2>5, SumIsNat
  <2>7. 0 < SupplyAt(e)
    BY DEF RecordReward
  <2> QED
    BY <2>4, <2>6, <2>7
<1>6. q \in Nat /\ SupplyAt(e) * q <= amount * SharePrecision /\ SupplyAt(e) * q \in Nat
  <2> DEFINE supply == SupplyAt(e)
             whole == amount * SharePrecision
  <2>1. whole \in Nat /\ supply \in Nat \ {0}
    BY <1>5, ProductIsNat, ExtraRewardsAssumption
  <2>2. q = whole \div supply
    BY DEF AddedPerShare
  <2> HIDE DEF supply, whole, q
  <2>3. q \in Nat /\ q * supply <= whole
    BY <2>1, <2>2, DivIsFloor
  <2>4. supply * q \in Nat /\ supply * q = q * supply
    BY <2>1, <2>3, ProductIsNat
  <2> QED
    BY <2>3, <2>4 DEF supply, whole
<1>7. /\ rewardPerShare' = [rewardPerShare EXCEPT ![e] = @ + q]
      /\ rewardPerShare' = Raised(rewardPerShare, e, q)
  BY DEF RecordReward, Raised
<1>8. /\ rewardPerShare \in [EpochDates -> Nat] /\ distributorVault \in Nat
      /\ before <= distributorVault * SharePrecision
  BY DEF CoveredInv
<1> HIDE DEF q, n, k
<1>9. after = before + SumFunctionOnSet(BalanceOf[e], Accounts) * q /\ before \in Nat
  <2>1. BalanceOf \in [EpochDates -> [Accounts -> Nat]]
    BY BalanceOfType
  <2>2. /\ k = Len(rewardEpochs') /\ n = Len(rewardEpochs)
    BY DEF k, n
  <2>5. /\ rewardEpochs \in Seq(EpochDates) /\ rewardEpochs' \in Seq(EpochDates)
        /\ k \in Nat \ {0} /\ userClaims \in [Accounts -> Nat] /\ e \in EpochDates /\ q \in Nat
        /\ rewardPerShare \in [EpochDates -> Nat]
    BY <1>1, <1>2, <1>3, <1>4, <1>6, <1>8
  <2>4. ListGrows(BalanceOf, rewardPerShare, rewardEpochs, e, q, rewardEpochs', k, userClaims)
    BY <1>4, <2>1, <2>2, <2>5 DEF ListGrows
  <2> HIDE DEF before
  <2>6. /\ AllShares(BalanceOf, Raised(rewardPerShare, e, q), rewardEpochs', userClaims)
              = AllShares(BalanceOf, rewardPerShare, rewardEpochs, userClaims)
                  + SumFunctionOnSet(BalanceOf[e], Accounts) * q
        /\ AllShares(BalanceOf, rewardPerShare, rewardEpochs, userClaims) \in Nat
    BY <2>4, SharesAdded
  <2>3. /\ AllShares(BalanceOf, Raised(rewardPerShare, e, q), rewardEpochs', userClaims)
              = before + SumFunctionOnSet(BalanceOf[e], Accounts) * q
        /\ before \in Nat
    BY <2>6 DEF before
  <2> QED
    BY <1>7, <2>3, Zenon
<1>10. AllShares(BalanceOf', rewardPerShare', rewardEpochs', userClaims) = after
  <2>1. [Next]_vars
    BY DEF RecordReward, Next
  <2>2. \A i \in DOMAIN rewardEpochs' : rewardEpochs'[i] \in EpochDates /\ rewardEpochs'[i] <= currentEpoch
    <3> SUFFICES ASSUME NEW i \in DOMAIN rewardEpochs'
                 PROVE  rewardEpochs'[i] \in EpochDates /\ rewardEpochs'[i] <= currentEpoch
      OBVIOUS
    <3>1. i \in 1 .. k
      BY <1>4, LenProperties DEF k
    <3>2. i = k \/ (i \in 1 .. (k - 1) /\ i \in 1 .. n)
      BY <1>1, <1>4, <3>1
    <3> QED
      BY <1>1, <1>2, <1>4, <3>2
  <2>3. \A i \in DOMAIN rewardEpochs' : BalanceOf'[rewardEpochs'[i]] = BalanceOf[rewardEpochs'[i]]
    BY <2>1, <2>2, BalanceOfStays
  <2> QED
    BY <2>3, SharesStay
<1>11. AllShares(BalanceOf', rewardPerShare', rewardEpochs', userClaims')
         <= distributorVault' * SharePrecision
  <2> DEFINE added == SupplyAt(e) * q
             p == SharePrecision
             v == distributorVault
  <2>1. distributorVault' = v + amount /\ v \in Nat /\ p \in Nat
    BY <1>8, ExtraRewardsAssumption DEF RecordReward
  <2>2. after = before + added /\ added <= amount * p /\ before <= v * p /\ added \in Nat /\ before \in Nat
    BY <1>5, <1>6, <1>8, <1>9
  <2>3. v * p \in Nat /\ amount * p \in Nat /\ (v + amount) * p = v * p + amount * p
    <3>1. \A x, y, z \in Nat : (x + y) * z = x * z + y * z
      OBVIOUS
    <3> QED
      BY <2>1, <3>1, ProductIsNat
  <2> HIDE DEF added, before, after, p, v
  <2>4. after <= (v + amount) * p
    <3> DEFINE vp == v * p
               ap == amount * p
    <3>1. vp \in Nat /\ ap \in Nat /\ added <= ap /\ before <= vp /\ (v + amount) * p = vp + ap
      BY <2>2, <2>3
    <3> HIDE DEF vp, ap
    <3> QED
      BY <2>2, <3>1
  <2>5. AllShares(BalanceOf', rewardPerShare', rewardEpochs', userClaims') = after
    BY <1>10
  <2>6. distributorVault' * SharePrecision = (v + amount) * p
    BY <2>1 DEF p
  <2> QED
    BY <2>4, <2>5, <2>6
<1>12. rewardPerShare' \in [EpochDates -> Nat] /\ distributorVault' \in Nat
  BY <1>2, <1>6, <1>7, <1>8 DEF RecordReward
<1>13. ASSUME NEW t \in EpochDates, \A i \in 1 .. k : rewardEpochs'[i] # t
       PROVE  rewardPerShare'[t] = 0
  <2>1. t # e
    BY <1>4, <1>13
  <2>2. \A i \in 1 .. n : rewardEpochs[i] # t
    <3> SUFFICES ASSUME NEW i \in 1 .. n PROVE rewardEpochs[i] # t
      OBVIOUS
    <3>1. i \in 1 .. k /\ (i = k \/ i \in 1 .. (k - 1)) /\ (i = k => k = n)
      BY <1>1, <1>4
    <3>2. CASE i = k
      <4>1. rewardEpochs[k] = e
        BY <1>4, <3>1, <3>2
      <4> QED
        BY <2>1, <3>2, <4>1
    <3>3. CASE i \in 1 .. (k - 1)
      <4>1. rewardEpochs'[i] = rewardEpochs[i]
        BY <1>4, <3>3
      <4> QED
        BY <1>13, <3>1, <4>1
    <3> QED
      BY <3>1, <3>2, <3>3
  <2>3. rewardPerShare[t] = 0
    BY <2>2 DEF CoveredInv, n
  <2> QED
    BY <1>7, <1>8, <2>1, <2>3
<1> QED
  BY <1>11, <1>12, <1>13 DEF CoveredInv, k

(* What can be claimed, rounded down entry by entry, fits into the shares. *)
LEMMA ClaimsFit ==
  ASSUME EInv, CoveredInv, NEW a \in Accounts, NEW I \in SUBSET (1 .. Len(rewardEpochs))
  PROVE  /\ ClaimOver(a, I) \in Nat
         /\ SumFunctionOnSet(Shares(BalanceOf, rewardPerShare, rewardEpochs, a), I) \in Nat
         /\ ClaimOver(a, I) * SharePrecision
              <= SumFunctionOnSet(Shares(BalanceOf, rewardPerShare, rewardEpochs, a), I)
<1> DEFINE f == [i \in DOMAIN rewardEpochs |-> ClaimableAt(a, rewardEpochs[i])]
           g == Shares(BalanceOf, rewardPerShare, rewardEpochs, a)
<1>1. /\ BalanceOf \in [EpochDates -> [Accounts -> Nat]]
      /\ rewardPerShare \in [EpochDates -> Nat] /\ rewardEpochs \in Seq(EpochDates)
  BY BalanceOfType DEF CoveredInv, EInv, ListInv
<1>2. /\ IsFiniteSet(I) /\ \A i \in I : g[i] \in Nat
      /\ SumFunctionOnSet(g, I) \in Nat
  BY <1>1, SharesAreNat
<1>3. ASSUME NEW i \in I
      PROVE  f[i] \in Nat /\ f[i] * SharePrecision <= g[i]
  <2>1. i \in DOMAIN rewardEpochs /\ rewardEpochs[i] \in EpochDates
    BY ListedHaveBegun
  <2>2. g[i] = BalanceAt(rewardEpochs[i], a) * rewardPerShare[rewardEpochs[i]]
    BY <2>1 DEF Shares, BalanceOf
  <2>3. f[i] = g[i] \div SharePrecision
    BY <2>1, <2>2 DEF ClaimableAt
  <2>4. g[i] \in Nat /\ SharePrecision \in Nat \ {0}
    BY <1>2, ExtraRewardsAssumption
  <2> HIDE DEF f, g
  <2> QED
    BY <2>3, <2>4, DivIsFloor
<1>4. ClaimOver(a, I) = SumFunctionOnSet(f, I)
  BY DEF ClaimOver
<1> HIDE DEF f, g
<1>5. SharePrecision \in Nat \ {0} /\ \A i \in I : f[i] \in Nat /\ g[i] \in Nat /\ f[i] * SharePrecision <= g[i]
  BY <1>2, <1>3, ExtraRewardsAssumption
<1>6. /\ SumFunctionOnSet(f, I) \in Nat
      /\ SumFunctionOnSet(f, I) * SharePrecision <= SumFunctionOnSet(g, I)
  BY <1>2, <1>5, SumOfFloors
<1> QED
  BY <1>2, <1>4, <1>6 DEF g

(* An index that moves on pays no more than what it closes.                *)
LEMMA PassingIsCovered ==
  ASSUME EInv, CoveredInv, NEW a \in Accounts, NEW index \in Nat, userClaims[a] <= index,
         NEW paid \in SUBSET (1 .. Len(rewardEpochs)),
         paid \subseteq (userClaims[a] + 1) .. index,
         ClaimOver(a, paid) <= distributorVault,
         UNCHANGED <<vars, rewardPerShare, rewardEpochs, penalties>>,
         userClaims' = [userClaims EXCEPT ![a] = index],
         distributorVault' = distributorVault - ClaimOver(a, paid)
  PROVE  CoveredInv'
<1> DEFINE amount == ClaimOver(a, paid)
           shares == SumFunctionOnSet(Shares(BalanceOf, rewardPerShare, rewardEpochs, a), paid)
           before == AllShares(BalanceOf, rewardPerShare, rewardEpochs, userClaims)
           after == AllShares(BalanceOf, rewardPerShare, rewardEpochs, userClaims')
           v == distributorVault
           p == SharePrecision
<1>1. /\ BalanceOf \in [EpochDates -> [Accounts -> Nat]]
      /\ rewardPerShare \in [EpochDates -> Nat] /\ rewardEpochs \in Seq(EpochDates)
      /\ userClaims \in [Accounts -> Nat]
  BY BalanceOfType DEF CoveredInv, EInv, ListInv, SettledInv
<1>2. amount \in Nat /\ shares \in Nat /\ amount * p <= shares
  BY ClaimsFit
<1>3. IndexPasses(BalanceOf, rewardPerShare, rewardEpochs, userClaims, a, index, paid)
  BY <1>1 DEF IndexPasses
<1>4. after + shares <= before /\ after \in Nat
  BY <1>3, SharesClaimed
<1>5. before <= v * p /\ v \in Nat /\ p \in Nat
  BY ExtraRewardsAssumption DEF CoveredInv
<1>6. before \in Nat
  BY <1>1, SharesStayNat
<1>7. distributorVault' = v - amount /\ amount <= v
  OBVIOUS
<1>8. AllShares(BalanceOf', rewardPerShare', rewardEpochs', userClaims') = after
  <2>1. [Next]_vars
    OBVIOUS
  <2> QED
    BY <2>1, SharesOfListStay
<1>9. after <= (v - amount) * p
  <2>1. \A x, y, z \in Nat : x <= y => (y - x) * z = y * z - x * z
    OBVIOUS
  <2>2. (v - amount) * p = v * p - amount * p /\ v * p \in Nat /\ amount * p \in Nat
    <3> HIDE DEF amount, v, p
    <3> QED
      BY <1>2, <1>5, <1>7, <2>1, ProductIsNat
  <2> DEFINE vp == v * p
             ap == amount * p
  <2>3. vp \in Nat /\ ap \in Nat /\ ap <= shares /\ before <= vp /\ (v - amount) * p = vp - ap
    BY <1>2, <1>5, <2>2
  <2> HIDE DEF vp, ap, shares, before, after, amount, v, p
  <2> QED
    BY <1>2, <1>4, <1>6, <2>3
<1>10. v - amount \in Nat
  <2> HIDE DEF v, amount
  <2> QED
    BY <1>2, <1>5, <1>7
<1> HIDE DEF amount, before, after
<1>11. AllShares(BalanceOf', rewardPerShare', rewardEpochs', userClaims') <= distributorVault' * SharePrecision
  BY <1>7, <1>8, <1>9 DEF p
<1> QED
  BY <1>7, <1>10, <1>11 DEF CoveredInv

(* A deposit brings at least what it lets accounts claim.                  *)
LEMMA DepositsAreCovered ==
  ASSUME EInv, SuppliesInv, CoveredInv, DepositStep
  PROVE  CoveredInv' /\ [Next]_vars
<1>0. /\ penalties \in Nat /\ IInv
      /\ currentEpoch \in EpochDates /\ currentEpoch \in Nat
  BY InvParts, Dates DEF CoveredInv, EInv, ClockType, EpochDates
<1>1. ASSUME NEW d \in Depositors, NEW amount \in DepositAmounts, NEW i \in DOMAIN CheckpointedEpochs,
             AddExtraReward(d, amount, CheckpointedEpochs[i].date)
      PROVE  CoveredInv' /\ [Next]_vars
  <2> DEFINE epoch == CheckpointedEpochs[i].date
  <2>1. amount \in Nat /\ RecordReward(amount, epoch) /\ userClaims' = userClaims /\ penalties' = penalties
    BY <1>1, ExtraRewardsAssumption DEF AddExtraReward
  <2>2. CheckpointedEpochs \in Seq(EpochRecords)
    BY Checkpointed, InvParts DEF EInv
  <2>3. epoch \in Nat
    <3>1. CheckpointedEpochs[i] \in EpochRecords
      BY <2>2, LenProperties, ElementOfSeq
    <3> QED
      BY <3>1 DEF EpochRecords, EpochDates
  <2>4. epoch <= currentEpoch
    BY <1>0, <2>1, <2>3 DEF RecordReward, CanAddTo
  <2>5. epoch \in KnownEpochs
    BY <1>0, <2>4, CheckpointedAreKnown
  <2>6. [Next]_vars
    BY <2>1 DEF RecordReward, Next
  <2> HIDE DEF epoch
  <2>7. CoveredInv'
    BY <1>0, <2>1, <2>5, AddedIsCovered
  <2> QED
    BY <2>6, <2>7
<1>2. ASSUME NEW amount \in DepositAmounts, PayPenalty(amount)
      PROVE  CoveredInv' /\ [Next]_vars
  <2>1. amount \in Nat /\ penalties' = penalties + amount
    BY <1>2, ExtraRewardsAssumption DEF PayPenalty
  <2>2. [Next]_vars /\ penalties' \in Nat
    BY <1>0, <1>2, <2>1 DEF PayPenalty
  <2> QED
    BY <1>2, <2>2, CoveredFrame DEF PayPenalty
<1>3. ASSUME Forward
      PROVE  CoveredInv' /\ [Next]_vars
  <2>1. RecordReward(penalties, currentEpoch) /\ userClaims' = userClaims /\ penalties' = 0
    BY <1>3 DEF Forward
  <2>2. currentEpoch \in KnownEpochs
    <3>1. /\ LastOf(CheckpointedEpochs).date = currentEpoch
          /\ CheckpointedEpochs \in Seq(EpochRecords) /\ CheckpointedEpochs # <<>>
      BY Checkpointed, InvParts DEF EInv
    <3>2. Len(CheckpointedEpochs) \in DOMAIN CheckpointedEpochs
      BY <3>1, EmptySeq, LenProperties
    <3> DEFINE i == Len(CheckpointedEpochs)
    <3>3. i \in DOMAIN CheckpointedEpochs /\ CheckpointedEpochs[i].date = currentEpoch
      BY <3>1, <3>2 DEF LastOf
    <3>4. CheckpointedEpochs[i].date <= currentEpoch
      BY <1>0, <3>3
    <3> HIDE DEF i
    <3>5. CheckpointedEpochs[i].date \in KnownEpochs
      BY <1>0, <3>3, <3>4, CheckpointedAreKnown
    <3> QED
      BY <3>3, <3>5
  <2>3. [Next]_vars
    BY <2>1 DEF RecordReward, Next
  <2>4. CoveredInv'
    BY <1>0, <2>1, <2>2, AddedIsCovered
  <2> QED
    BY <2>3, <2>4
<1>4. ASSUME NEW d \in Depositors, NEW canAdd \in BOOLEAN, ModifyWhitelist(d, canAdd)
      PROVE  CoveredInv' /\ [Next]_vars
  <2>1. [Next]_vars /\ penalties' \in Nat
    BY <1>0, <1>4 DEF ModifyWhitelist
  <2> QED
    BY <1>4, <2>1, CoveredFrame DEF ModifyWhitelist
<1> QED
  BY <1>1, <1>2, <1>3, <1>4 DEF DepositStep

(* A claim takes no more than it paid for.                                 *)
LEMMA ClaimsAreCovered ==
  ASSUME EInv, CoveredInv, ClaimStep
  PROVE  CoveredInv' /\ [Next]_vars
<1>1. /\ Len(rewardEpochs) \in Nat /\ DOMAIN rewardEpochs = 1 .. Len(rewardEpochs)
      /\ userClaims \in [Accounts -> Nat] /\ distributorVault \in Nat
  BY ListedHaveBegun DEF EInv, SettledInv, CoveredInv
<1>2. ASSUME NEW a \in Accounts, NEW start \in 0 .. Len(rewardEpochs), ClaimExtraReward(a, start)
      PROVE  CoveredInv' /\ [Next]_vars
  <2> DEFINE paid == Claimable(a, start)
  <2>1. PICK index \in paid : /\ \A i \in paid : i <= index
                              /\ userClaims' = [userClaims EXCEPT ![a] = index]
    BY <1>2 DEF ClaimExtraReward
  <2>2. /\ ClaimOver(a, paid) \in 1 .. distributorVault
        /\ distributorVault' = distributorVault - ClaimOver(a, paid)
        /\ UNCHANGED <<vars, rewardPerShare, rewardEpochs, penalties>>
    BY <1>2 DEF ClaimExtraReward
  <2>3. userClaims[a] \in Nat /\ \A i \in paid : i \in 1 .. Len(rewardEpochs) /\ i > userClaims[a]
    BY <1>1 DEF Claimable
  <2> HIDE DEF paid
  <2>4. /\ index \in Nat /\ userClaims[a] <= index /\ paid \in SUBSET (1 .. Len(rewardEpochs))
        /\ paid \subseteq (userClaims[a] + 1) .. index
        /\ ClaimOver(a, paid) <= distributorVault
    BY <1>1, <2>1, <2>2, <2>3
  <2>5. CoveredInv'
    BY <2>1, <2>2, <2>4, PassingIsCovered
  <2> QED
    BY <2>2, <2>5
<1>3. ASSUME NEW a \in Accounts, NEW index \in 0 .. Len(rewardEpochs), ForfeitRewards(a, index)
      PROVE  CoveredInv' /\ [Next]_vars
  <2> DEFINE passed == index + 1
             paid == {}
  <2>1. ClaimOver(a, paid) = 0
    BY SumEmpty DEF ClaimOver
  <2>2. /\ passed \in Nat /\ userClaims[a] <= passed
        /\ userClaims' = [userClaims EXCEPT ![a] = passed]
        /\ UNCHANGED <<vars, rewardPerShare, rewardEpochs, penalties>>
        /\ distributorVault' = distributorVault
    BY <1>1, <1>3 DEF ForfeitRewards
  <2>3. /\ paid \in SUBSET (1 .. Len(rewardEpochs))
        /\ paid \subseteq (userClaims[a] + 1) .. passed
        /\ ClaimOver(a, paid) <= distributorVault
        /\ distributorVault' = distributorVault - ClaimOver(a, paid)
    BY <1>1, <2>1, <2>2
  <2> HIDE DEF passed, paid
  <2>4. CoveredInv'
    BY <2>2, <2>3, PassingIsCovered
  <2> QED
    BY <2>2, <2>4
<1> QED
  BY <1>2, <1>3 DEF ClaimStep

(* Every step leaves the open claims covered.                              *)
LEMMA StepCovered == EInv /\ SuppliesInv /\ CoveredInv /\ [ExtraNext]_allVars
                       => EInv' /\ SuppliesInv' /\ CoveredInv'
<1> SUFFICES ASSUME EInv, SuppliesInv, CoveredInv, [ExtraNext]_allVars
             PROVE  EInv' /\ SuppliesInv' /\ CoveredInv'
  OBVIOUS
<1>0. penalties \in Nat /\ IInv
  BY DEF CoveredInv, EInv
<1>1. CoveredInv' /\ [Next]_vars
  <2>1. CASE LockerStep
    <3>1. [Next]_vars /\ penalties' \in Nat
      BY <1>0, <2>1 DEF LockerStep, extraVars
    <3> QED
      BY <2>1, <3>1, CoveredFrame DEF LockerStep, extraVars
  <2>2. CASE DepositStep
    BY <2>2, DepositsAreCovered
  <2>3. CASE ClaimStep
    BY <2>3, ClaimsAreCovered
  <2>4. CASE UNCHANGED allVars
    <3>1. [Next]_vars /\ penalties' \in Nat
      BY <1>0, <2>4 DEF allVars, extraVars
    <3> QED
      BY <2>4, <3>1, CoveredFrame DEF allVars, extraVars
  <2> QED
    BY <2>1, <2>2, <2>3, <2>4 DEF ExtraNext
<1>2. SuppliesInv'
  BY <1>0, <1>1, StepSupplies
<1>3. EInv'
  BY ExtraStepInv
<1> QED
  BY <1>1, <1>2, <1>3

(* Nothing can be claimed after construction.                              *)
LEMMA InitCovered == ExtraInit => EInv /\ SuppliesInv /\ CoveredInv
<1> SUFFICES ASSUME ExtraInit PROVE EInv /\ SuppliesInv /\ CoveredInv
  OBVIOUS
<1>1. EInv /\ SuppliesInv
  BY ExtraInitInv, InitSupplies DEF ExtraInit
<1>2. /\ rewardPerShare = [t \in EpochDates |-> 0] /\ rewardEpochs = <<>>
      /\ userClaims = [a \in Accounts |-> 0] /\ distributorVault = 0 /\ penalties = 0
  BY DEF ExtraInit
<1> DEFINE open == [a \in Accounts |-> OpenShares(BalanceOf, rewardPerShare, rewardEpochs, userClaims, a)]
<1>3. ASSUME NEW a \in Accounts PROVE open[a] = 0
  <2>1. Len(rewardEpochs) = 0 /\ userClaims[a] + 1 = 1
    BY <1>2
  <2>2. (userClaims[a] + 1) .. Len(rewardEpochs) = {}
    BY <2>1
  <2>3. open[a] = SumFunctionOnSet(Shares(BalanceOf, rewardPerShare, rewardEpochs, a), {})
    BY <2>2, Zenon DEF OpenShares
  <2> QED
    BY <2>3, SumEmpty
<1>4. AllShares(BalanceOf, rewardPerShare, rewardEpochs, userClaims) = SumFunctionOnSet(open, Accounts)
  BY DEF AllShares
<1> HIDE DEF open
<1>5. SumFunctionOnSet(open, Accounts) = 0
  BY <1>3, AddressAssumption, SumOfZeros
<1>6. distributorVault * SharePrecision = 0
  BY <1>2, ExtraRewardsAssumption
<1>7. AllShares(BalanceOf, rewardPerShare, rewardEpochs, userClaims) <= distributorVault * SharePrecision
  BY <1>4, <1>5, <1>6
<1> QED
  BY <1>1, <1>2, <1>7 DEF CoveredInv

(* The invariant on shares gives the property on claimable rewards.        *)
LEMMA CoveredSuffices == EInv /\ CoveredInv => ExtraRewardsCovered
<1> SUFFICES ASSUME EInv, CoveredInv PROVE ExtraRewardsCovered
  OBVIOUS
<1> DEFINE claims == [a \in Accounts |-> OpenClaims(a)]
           open == [a \in Accounts |-> OpenShares(BalanceOf, rewardPerShare, rewardEpochs, userClaims, a)]
<1>1. ASSUME NEW a \in Accounts
      PROVE  claims[a] \in Nat /\ open[a] \in Nat /\ claims[a] * SharePrecision <= open[a]
  <2> DEFINE n == Len(rewardEpochs)
             from == userClaims[a]
             I == (from + 1) .. n
  <2>1. n \in Nat /\ from \in Nat
    BY ListedHaveBegun DEF EInv, SettledInv
  <2>2. I \in SUBSET (1 .. n)
    <3> HIDE DEF n, from
    <3> QED
      BY <2>1
  <2>3. claims[a] = ClaimOver(a, I)
    BY DEF OpenClaims
  <2>4. open[a] = SumFunctionOnSet(Shares(BalanceOf, rewardPerShare, rewardEpochs, a), I)
    BY DEF OpenShares
  <2> HIDE DEF claims, open, I
  <2> QED
    BY <2>2, <2>3, <2>4, ClaimsFit
<1>2. AllShares(BalanceOf, rewardPerShare, rewardEpochs, userClaims) = SumFunctionOnSet(open, Accounts)
  BY DEF AllShares
<1> HIDE DEF claims, open
<1>3. IsFiniteSet(Accounts) /\ SharePrecision \in Nat \ {0}
  BY AddressAssumption, ExtraRewardsAssumption
<1>4. /\ SumFunctionOnSet(claims, Accounts) \in Nat /\ SumFunctionOnSet(open, Accounts) \in Nat
      /\ SumFunctionOnSet(claims, Accounts) * SharePrecision <= SumFunctionOnSet(open, Accounts)
  BY <1>1, <1>3, SumOfFloors
<1>5. distributorVault \in Nat /\ SumFunctionOnSet(open, Accounts) <= distributorVault * SharePrecision
  BY <1>2 DEF CoveredInv
<1> DEFINE x == SumFunctionOnSet(claims, Accounts) * SharePrecision
           y == SumFunctionOnSet(open, Accounts)
           z == distributorVault * SharePrecision
<1>6. x \in Nat /\ y \in Nat /\ z \in Nat /\ x <= y /\ y <= z
  BY <1>3, <1>4, <1>5, ProductIsNat
<1>7. x <= z
  <2> HIDE DEF x, y, z
  <2> QED
    BY <1>6
<1>8. SumFunctionOnSet(claims, Accounts) <= distributorVault
  BY <1>3, <1>4, <1>5, <1>7, ProductCancels
<1> QED
  BY <1>8 DEF ExtraRewardsCovered, claims

(* The distributor can pay every claim that is still open, those of the    *)
(* running epoch included, whatever has since become of the locks that the *)
(* balances were counted from and whatever was rounded down on the way.    *)
THEOREM ExtraClaimsStayCovered == ExtraSpec => []ExtraRewardsCovered
<1>1. ExtraInit => EInv /\ SuppliesInv /\ CoveredInv
  BY InitCovered
<1>2. EInv /\ SuppliesInv /\ CoveredInv /\ [ExtraNext]_allVars
        => EInv' /\ SuppliesInv' /\ CoveredInv'
  BY StepCovered
<1>3. EInv /\ CoveredInv => ExtraRewardsCovered
  BY CoveredSuffices
<1> QED
  BY <1>1, <1>2, <1>3, PTL DEF ExtraSpec
=============================================================================
