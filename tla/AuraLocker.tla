----------------------------- MODULE AuraLocker -----------------------------
(***************************************************************************)
(* core/AuraLocker.sol: vote-locked AURA.  An account locks AURA for        *)
(* lockDuration; the lock counts towards balances, supply and delegated     *)
(* votes from the next epoch on.  Expired locks are withdrawn, relocked or  *)
(* kicked.  Individual balances, the supply and the votes of delegatees     *)
(* live in three independent data structures that have to agree.            *)
(*                                                                         *)
(* One action is one transaction.  A transaction that reverts changes      *)
(* nothing, so a require is a conjunct of the action; a checked            *)
(* subtraction that would underflow is a conjunct too.                     *)
(***************************************************************************)
EXTENDS Integers, Sequences, FiniteSets, Functions

CONSTANTS
  Accounts,            \* externally owned accounts and contracts that lock
  Contracts,           \* the accounts that have code: only they can be blacklisted
  Delegatees,          \* addresses votes are delegated to
  NoOne,               \* address(0)
  RewardTokens,        \* tokens the owner may add as rewards
  Distributors,        \* addresses that may be approved to queue rewards
  rewardsDuration,     \* length of an epoch in clock ticks (7 days)
  LockEpochs,          \* epochs a lock lasts (17)
  StartTime,           \* block.timestamp of the deployment
  MaxTime,             \* bound: the clock stops here
  LockAmounts,         \* bound: amounts passed to lock
  InitialWallet,       \* AURA of each account at deployment
  denominator,         \* 10000
  InitialKickRate,     \* kickRewardPerEpoch at deployment (100)
  InitialKickDelay,    \* kickRewardEpochDelay at deployment (3)
  KickSettings,        \* bound: <<rate, delay>> pairs passed to setKickIncentive
  MaxKickRate,         \* 500
  Precision,           \* 1e18
  RewardAmounts,       \* bound: amounts passed to queueNewRewards
  InitialFunds,        \* reward tokens held by distributors at deployment
  MaxRewards,          \* 1e25
  MaxRewardRate,       \* 1e20
  MinRewardSupply,     \* 1e20
  MaxUint96,           \* type(uint96).max, of rewardPerTokenStored
  MaxUint112,          \* type(uint112).max, of lock amounts and balances
  MaxUint224           \* type(uint224).max, of votes and epoch supplies

lockDuration == rewardsDuration * LockEpochs
minKickDelay == 2
newRewardRatio == 830

ASSUME TimeAssumption ==
  /\ rewardsDuration \in Nat \ {0}
  /\ LockEpochs \in Nat /\ LockEpochs >= 2   \* a relock in the last epoch of a lock opens a new record
  /\ StartTime \in Nat /\ MaxTime \in Nat /\ StartTime <= MaxTime
  /\ lockDuration <= StartTime          \* block.timestamp is far beyond 17 weeks

ASSUME AmountAssumption ==
  /\ LockAmounts \subseteq Nat /\ RewardAmounts \subseteq Nat
  /\ InitialWallet \in [Accounts -> Nat]
  /\ InitialFunds \in Nat
  /\ denominator \in Nat \ {0} /\ Precision \in Nat \ {0}
  /\ MaxRewards \in Nat /\ MaxRewardRate \in Nat /\ MinRewardSupply \in Nat \ {0}
  /\ MaxUint96 \in Nat /\ MaxUint112 \in Nat /\ MaxUint224 \in Nat

ASSUME KickAssumption ==
  /\ MaxKickRate \in Nat
  /\ InitialKickRate \in Nat /\ InitialKickDelay \in Nat
  /\ InitialKickDelay >= minKickDelay
  /\ KickSettings \subseteq Nat \X Nat

ASSUME AddressAssumption ==
  /\ Contracts \subseteq Accounts /\ IsFiniteSet(Accounts)
  /\ NoOne \notin Delegatees

VARIABLES
  now,                 \* block.timestamp
  epochs,              \* Epoch[]: {supply, date}
  balances,            \* account -> {locked, nextUnlockIndex}
  userLocks,           \* account -> LockedBalance[]: {amount, unlockTime}
  lockedSupply,
  delegates,           \* account -> delegatee (private _delegates)
  checkpointedVotes,   \* delegatee -> DelegateeCheckpoint[]: {votes, epochStart}
  delegateeUnlocks,    \* delegatee -> unlock date -> amount
  blacklist,           \* set of blacklisted contracts
  kickRewardPerEpoch,
  kickRewardEpochDelay,
  isShutdown,
  rewardTokens,        \* tokens added by addReward
  rewardData,          \* token -> {periodFinish, lastUpdateTime, rewardRate, rewardPerTokenStored}
  userData,            \* account -> token -> {rewardPerTokenPaid, rewards}
  queuedRewards,       \* token -> amount
  rewardDistributors,  \* token -> approved distributors
  wallet,              \* AURA of each account outside the locker
  vault,               \* stakingToken.balanceOf(locker)
  funds,               \* token -> amount the distributors still hold
  rewardVault          \* token -> balanceOf(locker)

lockVars   == <<epochs, balances, userLocks, lockedSupply>>
voteVars   == <<delegates, checkpointedVotes, delegateeUnlocks>>
configVars == <<blacklist, kickRewardPerEpoch, kickRewardEpochDelay, isShutdown>>
streamVars == <<rewardTokens, rewardDistributors, queuedRewards, funds>>
accrueVars == <<rewardData, userData>>
tokenVars  == <<wallet, vault>>
vars == <<now, lockVars, voteVars, configVars, streamVars, accrueVars,
          rewardVault, tokenVars>>

-----------------------------------------------------------------------------
(* Time.  Every stored date is the start of an epoch.                      *)

EpochStart(t) == (t \div rewardsDuration) * rewardsDuration
currentEpoch == EpochStart(now)
upcomingEpoch == EpochStart(now + rewardsDuration)
EpochDates == {t \in 0 .. (MaxTime + lockDuration) : t % rewardsDuration = 0}

LastOf(s) == s[Len(s)]
Least(a, b) == IF a <= b THEN a ELSE b

(* The sum of the amounts of the locks whose index is in I.                *)
AmountOf(locks, I) == SumFunctionOnSet([i \in DOMAIN locks |-> locks[i].amount], I)

-----------------------------------------------------------------------------
(* Rewards: the updateReward modifier and the views it is made of.         *)

(* Mutant: the stream does not stop at periodFinish.                       *)
LastTime_Unbounded(t) == now

lastTimeRewardApplicable(t) == Least(now, rewardData[t].periodFinish)

RewardPerToken(t) ==
  IF lockedSupply = 0 THEN rewardData[t].rewardPerTokenStored
  ELSE rewardData[t].rewardPerTokenStored
         + ((lastTimeRewardApplicable(t) - rewardData[t].lastUpdateTime)
              * rewardData[t].rewardRate * Precision) \div lockedSupply

Earned(a, t) ==
  (balances[a].locked * (RewardPerToken(t) - userData[a][t].rewardPerTokenPaid)) \div Precision
    + userData[a][t].rewards

(* to96() and the checked subtraction of rewardPerTokenPaid.               *)
CanAccrue == \A t \in rewardTokens : RewardPerToken(t) \in 0 .. MaxUint96

CanUpdateReward(a) ==
  /\ CanAccrue
  /\ \A t \in rewardTokens : userData[a][t].rewardPerTokenPaid <= RewardPerToken(t)

AccruedRewardData ==
  [t \in RewardTokens |->
     IF t \in rewardTokens
     THEN [rewardData[t] EXCEPT !.rewardPerTokenStored = RewardPerToken(t),
                                !.lastUpdateTime = lastTimeRewardApplicable(t)]
     ELSE rewardData[t]]

AccruedUserData(a) ==
  [t \in RewardTokens |->
     IF t \in rewardTokens
     THEN [rewardPerTokenPaid |-> RewardPerToken(t), rewards |-> Earned(a, t)]
     ELSE userData[a][t]]

UpdateReward(a) ==
  /\ CanUpdateReward(a)
  /\ rewardData' = AccruedRewardData
  /\ userData' = [userData EXCEPT ![a] = AccruedUserData(a)]

-----------------------------------------------------------------------------
(* Epochs, locks and checkpoints: the helpers of the handlers.             *)

(* Mutant: the epoch is not checkpointed.                                  *)
CheckpointedEpochs_Never == epochs

(* _checkpointEpoch: one epoch of supply 0 for each one missing.           *)
CheckpointedEpochs ==
  LET last == LastOf(epochs).date
      missing == (currentEpoch - last) \div rewardsDuration
  IN  epochs \o [k \in 1 .. missing |-> [supply |-> 0, date |-> last + k * rewardsDuration]]

AddToLastEpoch(es, amount) ==
  [es EXCEPT ![Len(es)].supply = @ + amount]

UnlockTime == currentEpoch + lockDuration

(* A new lock record, or the amount added to the one of this epoch.        *)
AddLock(locks, amount, unlockTime) ==
  IF locks = <<>> \/ LastOf(locks).unlockTime < unlockTime
  THEN Append(locks, [amount |-> amount, unlockTime |-> unlockTime])
  ELSE [locks EXCEPT ![Len(locks)].amount = @ + amount]

(* Mutant: the unlocks of the checkpoint's own epoch are deducted again.    *)
Carried_Twice(ckpts, unlocks) ==
  IF ckpts = <<>> \/ LastOf(ckpts).epochStart + lockDuration <= upcomingEpoch THEN 0
  ELSE LastOf(ckpts).votes - SumFunctionOnSet(unlocks,
         {t \in EpochDates : LastOf(ckpts).epochStart <= t /\ t <= upcomingEpoch})

(* _checkpointDelegate.  Carried is what is left of the latest checkpoint  *)
(* at upcomingEpoch.                                                       *)
Carried(ckpts, unlocks) ==
  LET prev == LastOf(ckpts)
  IN  CASE ckpts = <<>> -> 0
        [] OTHER ->
             IF prev.epochStart # upcomingEpoch /\ prev.epochStart + lockDuration <= upcomingEpoch
             THEN 0
             ELSE prev.votes - SumFunctionOnSet(unlocks,
                    {t \in EpochDates : prev.epochStart < t /\ t <= upcomingEpoch})

(* Mutant: the checkpoint takes effect in the running epoch.               *)
Checkpoint_Now(ckpts, unlocks, addition, deduction) ==
  Append(ckpts, [votes |-> Carried(ckpts, unlocks) + addition - deduction,
                 epochStart |-> currentEpoch])

Checkpoint(ckpts, unlocks, addition, deduction) ==
  LET ckpt == [votes |-> Carried(ckpts, unlocks) + addition - deduction,
               epochStart |-> upcomingEpoch]
  IN  IF ckpts # <<>> /\ LastOf(ckpts).epochStart = upcomingEpoch
      THEN [ckpts EXCEPT ![Len(ckpts)] = ckpt]
      ELSE Append(ckpts, ckpt)

CanCheckpoint(ckpts, unlocks, addition, deduction) ==
  /\ Carried(ckpts, unlocks) \in Nat
  /\ Carried(ckpts, unlocks) + addition - deduction \in 0 .. MaxUint224

(* The part of _lock that records the lock (amount > 0, to112); the        *)
(* callers add the amount to balances and lockedSupply.  ckpts is          *)
(* checkpointedVotes as the caller has left it.                            *)
RecordLock(a, amount, ckpts) ==
  LET d == delegates[a]
  IN  /\ amount \in 1 .. MaxUint112
      /\ ~isShutdown
      /\ userLocks' = [userLocks EXCEPT ![a] = AddLock(@, amount, UnlockTime)]
      /\ epochs' = AddToLastEpoch(CheckpointedEpochs, amount)
      /\ IF d = NoOne
         THEN delegateeUnlocks' = delegateeUnlocks /\ checkpointedVotes' = ckpts
         ELSE /\ delegateeUnlocks' =
                   [delegateeUnlocks EXCEPT ![d][UnlockTime] = @ + amount]
              /\ CanCheckpoint(ckpts[d], delegateeUnlocks'[d], amount, 0)
              /\ checkpointedVotes' =
                   [ckpts EXCEPT ![d] = Checkpoint(@, delegateeUnlocks'[d], amount, 0)]

-----------------------------------------------------------------------------
(* The handlers.                                                           *)

(* lock: sender pays, account gets the lock.                               *)
Lock(sender, a, amount) ==
  /\ {sender, a} \cap blacklist = {}
  /\ amount <= wallet[sender]
  /\ UpdateReward(a)
  /\ wallet' = [wallet EXCEPT ![sender] = @ - amount]
  /\ vault' = vault + amount
  /\ balances' = [balances EXCEPT ![a].locked = @ + amount]
  /\ lockedSupply' = lockedSupply + amount
  /\ RecordLock(a, amount, checkpointedVotes)
  /\ UNCHANGED <<now, delegates, configVars, streamVars, rewardVault>>

CheckpointEpoch ==
  /\ epochs' = CheckpointedEpochs
  /\ UNCHANGED <<now, balances, userLocks, lockedSupply, voteVars, configVars,
                 streamVars, accrueVars, rewardVault, tokenVars>>

(* The scan of _processExpiredLocks from nextUnlockIndex on.               *)
LastExpired(locks, processed, expiry) ==
  CHOOSE k \in processed .. Len(locks) :
    /\ \A i \in (processed + 1) .. k : locks[i].unlockTime <= expiry
    /\ k < Len(locks) => locks[k + 1].unlockTime > expiry

(* The kick incentive on an amount that expired at unlockTime.             *)
EpochsOver(unlockTime, delay) == (EpochStart(now - delay) - unlockTime) \div rewardsDuration
KickShare(amount, unlockTime, delay) ==
  (amount * Least(kickRewardPerEpoch * (EpochsOver(unlockTime, delay) + 1), denominator))
    \div denominator

ExpiryTime(relock, delay) ==
  IF delay = 0 /\ relock THEN now + rewardsDuration ELSE now - delay

(* _processExpiredLocks as far as it is common to its three callers.       *)
(* Release names what leaves the lock book: how many records are done, the *)
(* amount they held and the keeper's incentive.                            *)
Release(a, relock, delay) ==
  LET locks == userLocks[a]
      expiry == ExpiryTime(relock, delay)
      all == isShutdown \/ LastOf(locks).unlockTime <= expiry
      first == balances[a].nextUnlockIndex + 1
      last == IF all THEN Len(locks) ELSE LastExpired(locks, first - 1, expiry)
      amount == IF all THEN balances[a].locked ELSE AmountOf(locks, first .. last)
      reward == CASE delay = 0 -> 0
                  [] delay > 0 /\ all -> KickShare(amount, LastOf(locks).unlockTime, delay)
                  [] OTHER -> SumFunctionOnSet(
                       [i \in DOMAIN locks |-> KickShare(locks[i].amount, locks[i].unlockTime, delay)],
                       first .. last)
  IN  [last |-> last, amount |-> amount, reward |-> reward,
       reverts |-> delay > 0 /\ all /\ EpochStart(now - delay) < LastOf(locks).unlockTime]

(* Taking the records off the book, and the delegatee's checkpoint.        *)
CheckpointedDelegatee(a) ==
  IF delegates[a] = NoOne THEN checkpointedVotes
  ELSE [checkpointedVotes EXCEPT ![delegates[a]] =
          Checkpoint(@, delegateeUnlocks[delegates[a]], 0, 0)]

CanRelease(a, relock, delay) ==
  /\ userLocks[a] # <<>>
  /\ delay <= now
  /\ LET r == Release(a, relock, delay)
     IN  /\ ~r.reverts
         /\ r.amount \in 1 .. balances[a].locked
         /\ r.reward \in 0 .. r.amount
         /\ r.amount <= lockedSupply
         /\ r.amount <= vault
  /\ delegates[a] # NoOne =>
       CanCheckpoint(checkpointedVotes[delegates[a]], delegateeUnlocks[delegates[a]], 0, 0)

(* processExpiredLocks(false) by a, or kickExpiredLocks(a) by a keeper:    *)
(* the tokens leave the locker.                                            *)
Withdraw(a, keeper, delay) ==
  /\ CanRelease(a, FALSE, delay)
  /\ UpdateReward(a)
  /\ LET r == Release(a, FALSE, delay)
     IN  /\ balances' = [balances EXCEPT ![a] =
                           [locked |-> @.locked - r.amount, nextUnlockIndex |-> r.last]]
         /\ lockedSupply' = lockedSupply - r.amount
         /\ vault' = vault - r.amount
         /\ wallet' = [wallet EXCEPT ![keeper] = @ + r.reward, ![a] = @ + r.amount - r.reward]
  /\ checkpointedVotes' = CheckpointedDelegatee(a)
  /\ UNCHANGED <<now, epochs, userLocks, delegates, delegateeUnlocks, configVars,
                 streamVars, rewardVault>>

ProcessExpiredLocks(a) == Withdraw(a, a, 0)

(* Mutant: the grace period is an epoch short.                             *)
KickExpiredLocks_Early(keeper, a) == Withdraw(a, keeper, rewardsDuration * (kickRewardEpochDelay - 1))

KickExpiredLocks(keeper, a) == Withdraw(a, keeper, rewardsDuration * kickRewardEpochDelay)

(* processExpiredLocks(true): also locks of the last week are relocked.    *)
RelockExpiredLocks(a) ==
  /\ a \notin blacklist
  /\ CanRelease(a, TRUE, 0)
  /\ UpdateReward(a)
  /\ LET r == Release(a, TRUE, 0)
     IN  /\ balances' = [balances EXCEPT ![a].nextUnlockIndex = r.last]
         /\ RecordLock(a, r.amount, CheckpointedDelegatee(a))
  /\ UNCHANGED <<now, lockedSupply, delegates, configVars, streamVars, rewardVault, tokenVars>>

(* Mutant: the records stay open.                                          *)
EmergencyWithdraw_KeepsIndex(a) ==
  /\ isShutdown
  /\ 0 < balances[a].locked
  /\ balances[a].locked <= lockedSupply /\ balances[a].locked <= vault
  /\ balances' = [balances EXCEPT ![a].locked = 0]
  /\ lockedSupply' = lockedSupply - balances[a].locked
  /\ vault' = vault - balances[a].locked
  /\ wallet' = [wallet EXCEPT ![a] = @ + balances[a].locked]
  /\ UNCHANGED <<now, epochs, userLocks, voteVars, configVars, streamVars, accrueVars, rewardVault>>

(* emergencyWithdraw: no checkpoint, no reward accrual.                    *)
EmergencyWithdraw(a) ==
  /\ isShutdown
  /\ 0 < balances[a].locked
  /\ balances[a].locked <= lockedSupply /\ balances[a].locked <= vault
  /\ balances' = [balances EXCEPT ![a] = [locked |-> 0, nextUnlockIndex |-> Len(userLocks[a])]]
  /\ lockedSupply' = lockedSupply - balances[a].locked
  /\ vault' = vault - balances[a].locked
  /\ wallet' = [wallet EXCEPT ![a] = @ + balances[a].locked]
  /\ UNCHANGED <<now, epochs, userLocks, voteVars, configVars, streamVars, accrueVars, rewardVault>>

(* Mutant: the records that expire at upcomingEpoch move too.              *)
FutureLocks_Inclusive(a) ==
  {i \in DOMAIN userLocks[a] : \A j \in i .. Len(userLocks[a]) : userLocks[a][j].unlockTime >= upcomingEpoch}

(* delegate: the records beyond upcomingEpoch, scanned from the last one,  *)
(* move from the old delegatee to the new one.                             *)
FutureLocks(a) ==
  {i \in DOMAIN userLocks[a] : \A j \in i .. Len(userLocks[a]) : userLocks[a][j].unlockTime > upcomingEpoch}

(* There is at most one record per date.                                   *)
FutureUnlockAt(a, t) ==
  LET dated == {i \in FutureLocks(a) : userLocks[a][i].unlockTime = t}
  IN  IF dated = {} THEN 0 ELSE userLocks[a][CHOOSE i \in dated : TRUE].amount

Delegate(a, d) ==
  LET old == delegates[a]
      futureUnlocksSum == AmountOf(userLocks[a], FutureLocks(a))
      moved == [t \in EpochDates |-> FutureUnlockAt(a, t)]
      gain(x) == IF x = d THEN futureUnlocksSum ELSE 0
      drop(x) == IF x = old THEN futureUnlocksSum ELSE 0
  IN  /\ userLocks[a] # <<>>
      /\ d # old
      /\ delegates' = [delegates EXCEPT ![a] = d]
      /\ old # NoOne => \A t \in EpochDates : moved[t] <= delegateeUnlocks[old][t]
      /\ delegateeUnlocks' =
           [x \in Delegatees |-> [t \in EpochDates |->
              delegateeUnlocks[x][t] - (IF x = old THEN moved[t] ELSE 0)
                                     + (IF x = d THEN moved[t] ELSE 0)]]
      /\ \A x \in {old, d} \ {NoOne} :
           CanCheckpoint(checkpointedVotes[x], delegateeUnlocks'[x], gain(x), drop(x))
      /\ checkpointedVotes' =
           [x \in Delegatees |->
              IF x \in {old, d}
              THEN Checkpoint(checkpointedVotes[x], delegateeUnlocks'[x], gain(x), drop(x))
              ELSE checkpointedVotes[x]]
      /\ UNCHANGED <<now, lockVars, configVars, streamVars, accrueVars, rewardVault, tokenVars>>

(* getReward: every reward token but the skipped ones is paid out.         *)
GetReward(a, skipped) ==
  LET paid == rewardTokens \ skipped
  IN  /\ CanUpdateReward(a)
      /\ \A t \in paid : Earned(a, t) <= rewardVault[t]
      /\ rewardData' = AccruedRewardData
      /\ userData' = [userData EXCEPT ![a] =
           [t \in RewardTokens |-> [AccruedUserData(a)[t] EXCEPT !.rewards = IF t \in paid THEN 0 ELSE @]]]
      /\ rewardVault' = [t \in RewardTokens |-> rewardVault[t] - IF t \in paid THEN Earned(a, t) ELSE 0]
      /\ UNCHANGED <<now, lockVars, voteVars, configVars, streamVars, tokenVars>>

(* _notifyReward: a new stream of rewardsDuration, what is left of the old *)
(* one included.                                                           *)
NotifiedRate(t, reward) ==
  IF now >= rewardData[t].periodFinish THEN reward \div rewardsDuration
  ELSE (reward + (rewardData[t].periodFinish - now) * rewardData[t].rewardRate) \div rewardsDuration

NotifyReward(t, reward) ==
  /\ CanAccrue
  /\ NotifiedRate(t, reward) < MaxRewardRate
  /\ MinRewardSupply <= lockedSupply
  /\ rewardData' = [AccruedRewardData EXCEPT ![t] =
       [@ EXCEPT !.rewardRate = NotifiedRate(t, reward),
                 !.lastUpdateTime = now,
                 !.periodFinish = now + rewardsDuration]]

(* queueNewRewards: a stream is restarted when it is over or when too      *)
(* little of it is used up compared with the new rewards; otherwise the    *)
(* rewards wait in queuedRewards.                                          *)
StreamIsOver(t, reward) ==
  LET elapsed == now - (rewardData[t].periodFinish - rewardsDuration)
  IN  \/ now >= rewardData[t].periodFinish
      \/ (rewardData[t].rewardRate * elapsed * 1000) \div reward < newRewardRatio

QueueNewRewards(dist, t, amount) ==
  LET total == amount + queuedRewards[t]
  IN  /\ dist \in rewardDistributors[t]
      /\ 0 < amount /\ amount <= funds[t]
      /\ total < MaxRewards
      /\ funds' = [funds EXCEPT ![t] = @ - amount]
      /\ rewardVault' = [rewardVault EXCEPT ![t] = @ + amount]
      /\ \/ /\ StreamIsOver(t, total)
            /\ NotifyReward(t, total)
            /\ queuedRewards' = [queuedRewards EXCEPT ![t] = 0]
         \/ /\ ~StreamIsOver(t, total)
            /\ queuedRewards' = [queuedRewards EXCEPT ![t] = total]
            /\ UNCHANGED rewardData
      /\ UNCHANGED <<now, lockVars, voteVars, configVars, rewardTokens, rewardDistributors,
                     userData, tokenVars>>

-----------------------------------------------------------------------------
(* The owner's handlers.                                                   *)

(* Mutant: a token that runs is added again.                               *)
AddReward_Again(t, dist) ==
  /\ rewardTokens' = rewardTokens \cup {t}
  /\ rewardData' = [rewardData EXCEPT ![t].lastUpdateTime = now, ![t].periodFinish = now]
  /\ rewardDistributors' = [rewardDistributors EXCEPT ![t] = @ \cup {dist}]
  /\ UNCHANGED <<now, lockVars, voteVars, configVars, queuedRewards, funds, userData,
                 rewardVault, tokenVars>>

AddReward(t, dist) ==
  /\ rewardData[t].lastUpdateTime = 0
  /\ Cardinality(rewardTokens) < 5
  /\ rewardTokens' = rewardTokens \cup {t}
  /\ rewardData' = [rewardData EXCEPT ![t].lastUpdateTime = now, ![t].periodFinish = now]
  /\ rewardDistributors' = [rewardDistributors EXCEPT ![t] = @ \cup {dist}]
  /\ UNCHANGED <<now, lockVars, voteVars, configVars, queuedRewards, funds, userData,
                 rewardVault, tokenVars>>

ApproveRewardDistributor(t, dist, approved) ==
  /\ rewardData[t].lastUpdateTime > 0
  /\ rewardDistributors' =
       [rewardDistributors EXCEPT ![t] = IF approved THEN @ \cup {dist} ELSE @ \ {dist}]
  /\ UNCHANGED <<now, lockVars, voteVars, configVars, rewardTokens, queuedRewards, funds,
                 accrueVars, rewardVault, tokenVars>>

ModifyBlacklist(a, blacklisted) ==
  /\ a \in Contracts
  /\ blacklist' = IF blacklisted THEN blacklist \cup {a} ELSE blacklist \ {a}
  /\ UNCHANGED <<now, lockVars, voteVars, kickRewardPerEpoch, kickRewardEpochDelay, isShutdown,
                 streamVars, accrueVars, rewardVault, tokenVars>>

SetKickIncentive(rate, delay) ==
  /\ rate <= MaxKickRate
  /\ delay >= minKickDelay
  /\ kickRewardPerEpoch' = rate
  /\ kickRewardEpochDelay' = delay
  /\ UNCHANGED <<now, lockVars, voteVars, blacklist, isShutdown, streamVars, accrueVars,
                 rewardVault, tokenVars>>

Shutdown ==
  /\ isShutdown' = TRUE
  /\ UNCHANGED <<now, lockVars, voteVars, blacklist, kickRewardPerEpoch, kickRewardEpochDelay,
                 streamVars, accrueVars, rewardVault, tokenVars>>

(* Blocks are mined: the clock moves.                                      *)
Tick ==
  /\ now < MaxTime
  /\ now' = now + 1
  /\ UNCHANGED <<lockVars, voteVars, configVars, streamVars, accrueVars, rewardVault, tokenVars>>

-----------------------------------------------------------------------------
Init ==
  /\ now = StartTime
  /\ epochs = <<[supply |-> 0, date |-> EpochStart(StartTime)]>>
  /\ balances = [a \in Accounts |-> [locked |-> 0, nextUnlockIndex |-> 0]]
  /\ userLocks = [a \in Accounts |-> <<>>]
  /\ lockedSupply = 0
  /\ delegates = [a \in Accounts |-> NoOne]
  /\ checkpointedVotes = [d \in Delegatees |-> <<>>]
  /\ delegateeUnlocks = [d \in Delegatees |-> [t \in EpochDates |-> 0]]
  /\ blacklist = {}
  /\ kickRewardPerEpoch = InitialKickRate
  /\ kickRewardEpochDelay = InitialKickDelay
  /\ isShutdown = FALSE
  /\ rewardTokens = {}
  /\ rewardData = [t \in RewardTokens |->
       [periodFinish |-> 0, lastUpdateTime |-> 0, rewardRate |-> 0, rewardPerTokenStored |-> 0]]
  /\ userData = [a \in Accounts |-> [t \in RewardTokens |-> [rewardPerTokenPaid |-> 0, rewards |-> 0]]]
  /\ queuedRewards = [t \in RewardTokens |-> 0]
  /\ rewardDistributors = [t \in RewardTokens |-> {}]
  /\ wallet = InitialWallet
  /\ vault = 0
  /\ funds = [t \in RewardTokens |-> InitialFunds]
  /\ rewardVault = [t \in RewardTokens |-> 0]

UserStep ==
  \E a \in Accounts :
    \/ \E s \in Accounts, amount \in LockAmounts : Lock(s, a, amount)
    \/ ProcessExpiredLocks(a)
    \/ RelockExpiredLocks(a)
    \/ \E k \in Accounts : KickExpiredLocks(k, a)
    \/ EmergencyWithdraw(a)
    \/ \E d \in Delegatees : Delegate(a, d)
    \/ \E skipped \in SUBSET rewardTokens : GetReward(a, skipped)

RewardStep ==
  \E t \in RewardTokens, dist \in Distributors :
    \/ \E amount \in RewardAmounts : QueueNewRewards(dist, t, amount)
    \/ AddReward(t, dist)
    \/ \E approved \in BOOLEAN : ApproveRewardDistributor(t, dist, approved)

OwnerStep ==
  \/ \E a \in Contracts, blacklisted \in BOOLEAN : ModifyBlacklist(a, blacklisted)
  \/ \E s \in KickSettings : SetKickIncentive(s[1], s[2])
  \/ Shutdown

Next == UserStep \/ RewardStep \/ OwnerStep \/ CheckpointEpoch \/ Tick

Spec == Init /\ [][Next]_vars
=============================================================================
