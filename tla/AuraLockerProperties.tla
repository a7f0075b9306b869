------------------------ MODULE AuraLockerProperties ------------------------
(***************************************************************************)
(* The views of AuraLocker.sol and what its three bookkeepings owe one     *)
(* another: the lock records of the accounts, the supply per epoch, and    *)
(* the checkpointed votes of the delegatees.                               *)
(***************************************************************************)
EXTENDS AuraLocker

(* Epoch starts that lie in the past or are being filled now.              *)
KnownEpochs == {t \in EpochDates : epochs[1].date <= t /\ t <= upcomingEpoch}
PastEpochs  == {t \in KnownEpochs : t <= currentEpoch}

-----------------------------------------------------------------------------
(* Views.                                                                  *)

(* _checkpointsLookup: the binary search, as the number of checkpoints     *)
(* that start at epoch or before.                                          *)
CheckpointsLookup(ckpts, epoch) ==
  LET n == Len(ckpts)
      search[range \in (0 .. n) \X (0 .. n)] ==
        LET low == range[1]
            high == range[2]
            mid == (low + high) \div 2
        IN  IF low >= high THEN high
            ELSE IF ckpts[mid + 1].epochStart > epoch THEN search[<<low, mid>>]
            ELSE search[<<mid + 1, high>>]
  IN  search[<<0, n>>]

(* getPastVotes, at the start of an epoch.                                 *)
VotesAt(d, epoch) ==
  LET pos == CheckpointsLookup(checkpointedVotes[d], epoch)
      ckpt == IF pos = 0 THEN [votes |-> 0, epochStart |-> 0] ELSE checkpointedVotes[d][pos]
  IN  IF ckpt.votes = 0 \/ ckpt.epochStart + lockDuration <= epoch THEN 0
      ELSE ckpt.votes - SumFunctionOnSet(delegateeUnlocks[d],
             {t \in EpochDates : ckpt.epochStart < t /\ t <= epoch})

(* balanceAtEpochOf: the scan goes from the last record down and stops at  *)
(* the first one that is too old.                                          *)
BalanceAt(epoch, a) ==
  LET locks == userLocks[a]
      lockEpoch(i) == locks[i].unlockTime - lockDuration
      cutoffEpoch == epoch - lockDuration
  IN  AmountOf(locks, {i \in DOMAIN locks :
        lockEpoch(i) < epoch /\ \A j \in i .. Len(locks) : lockEpoch(j) > cutoffEpoch})

(* totalSupplyAtEpoch: epochs that were not checkpointed yet hold nothing. *)
SupplyAt(epoch) ==
  LET id == (epoch - epochs[1].date) \div rewardsDuration
      last == Least(id + 1, Len(epochs))
      cutoffEpoch == epoch - lockDuration
      counted == {i \in 1 .. last :
        epochs[i].date # epoch /\ \A j \in i .. last : epochs[j].date > cutoffEpoch}
  IN  SumFunctionOnSet([i \in DOMAIN epochs |-> epochs[i].supply], counted)

-----------------------------------------------------------------------------
(* The variables hold values of their types: amounts are never negative,   *)
(* dates are starts of epochs.                                             *)
LockRecords == [amount : Nat, unlockTime : EpochDates]
Checkpoints == [votes : Nat, epochStart : EpochDates]

TypeOK ==
  /\ now \in StartTime .. MaxTime
  /\ epochs \in Seq([supply : Nat, date : EpochDates]) /\ epochs # <<>>
  /\ balances \in [Accounts -> [locked : Nat, nextUnlockIndex : Nat]]
  /\ userLocks \in [Accounts -> Seq(LockRecords)]
  /\ lockedSupply \in Nat
  /\ delegates \in [Accounts -> Delegatees \cup {NoOne}]
  /\ checkpointedVotes \in [Delegatees -> Seq(Checkpoints)]
  /\ delegateeUnlocks \in [Delegatees -> [EpochDates -> Nat]]
  /\ blacklist \subseteq Contracts
  /\ kickRewardPerEpoch \in Nat /\ kickRewardEpochDelay \in Nat
  /\ isShutdown \in BOOLEAN
  /\ rewardTokens \subseteq RewardTokens
  /\ rewardData \in [RewardTokens -> [periodFinish : Nat, lastUpdateTime : Nat,
                                      rewardRate : Nat, rewardPerTokenStored : Nat]]
  /\ userData \in [Accounts -> [RewardTokens -> [rewardPerTokenPaid : Nat, rewards : Nat]]]
  /\ queuedRewards \in [RewardTokens -> Nat]
  /\ rewardDistributors \in [RewardTokens -> SUBSET Distributors]
  /\ wallet \in [Accounts -> Nat] /\ vault \in Nat
  /\ funds \in [RewardTokens -> Nat] /\ rewardVault \in [RewardTokens -> Nat]

(* The three lists are strictly sorted, no later than the code's writes    *)
(* allow, and the epochs have no gap: the scans from the end that stop     *)
(* early, and the binary search, rest on this.                             *)
EpochsConsecutive ==
  /\ LastOf(epochs).date <= currentEpoch
  /\ \A i \in DOMAIN epochs : epochs[i].date = epochs[1].date + (i - 1) * rewardsDuration

LocksSorted ==
  \A a \in Accounts :
    /\ \A i, j \in DOMAIN userLocks[a] : i < j => userLocks[a][i].unlockTime < userLocks[a][j].unlockTime
    /\ \A i \in DOMAIN userLocks[a] : userLocks[a][i].unlockTime <= currentEpoch + lockDuration
    /\ balances[a].nextUnlockIndex <= Len(userLocks[a])

CheckpointsSorted ==
  \A d \in Delegatees :
    /\ \A i, j \in DOMAIN checkpointedVotes[d] :
         i < j => checkpointedVotes[d][i].epochStart < checkpointedVotes[d][j].epochStart
    /\ \A i \in DOMAIN checkpointedVotes[d] : checkpointedVotes[d][i].epochStart <= upcomingEpoch

ListsSorted == EpochsConsecutive /\ LocksSorted /\ CheckpointsSorted

(* What an account can still take out is exactly its records that were not *)
(* processed, and the supply is the sum over the accounts (_lock,          *)
(* _processExpiredLocks and emergencyWithdraw each write the three         *)
(* separately).                                                            *)
LocksAccounted ==
  /\ \A a \in Accounts :
       balances[a].locked =
         AmountOf(userLocks[a], (balances[a].nextUnlockIndex + 1) .. Len(userLocks[a]))
  /\ lockedSupply = SumFunctionOnSet([a \in Accounts |-> balances[a].locked], Accounts)

(* The locker holds exactly the tokens of lockedSupply: a kick's incentive *)
(* is paid out of the kicked amount, a relock moves none.                  *)
VaultHoldsSupply == vault = lockedSupply

(* The votes a delegatee has at the upcoming epoch and at every later one, *)
(* computed from checkpoints and delegateeUnlocks, are the amounts in the  *)
(* records of its delegators that will not have expired: "Individual and   *)
(* delegatee vote power lookups both use independent accounting            *)
(* mechanisms" (AuraLocker.sol:18), and they agree.                        *)
FutureVotesMatchLocks ==
  \A d \in Delegatees, e \in {t \in EpochDates : t >= upcomingEpoch} :
    VotesAt(d, e) =
      SumFunctionOnSet(
        [a \in Accounts |-> AmountOf(userLocks[a],
           {i \in DOMAIN userLocks[a] : userLocks[a][i].unlockTime > e})],
        {a \in Accounts : delegates[a] = d})

(* The total supply at an epoch is the sum of the balances at that epoch:  *)
(* for every past epoch, however late it is checkpointed, and for the      *)
(* upcoming one.                                                           *)
SupplyIsSumOfBalances ==
  \A e \in KnownEpochs :
    SupplyAt(e) = SumFunctionOnSet([a \in Accounts |-> BalanceAt(e, a)], Accounts)

(* An account whose latest records have expired can always be paid out:    *)
(* none of the checked subtractions on the way (checkpoint of the          *)
(* delegatee, balance, supply) can revert.                                 *)
ExpiredLocksCanBeWithdrawn ==
  \A a \in Accounts :
    LET next == balances[a].nextUnlockIndex + 1
    IN  /\ next <= Len(userLocks[a])
        /\ userLocks[a][next].unlockTime <= now
        /\ CanUpdateReward(a)
        => CanRelease(a, FALSE, 0)

(* What is owed to the accounts, what waits in the queue and what the      *)
(* running stream will still release is in the locker, whatever the        *)
(* rounding and the supply did, emergencyWithdraw included, which changes  *)
(* the supply without accruing first.                                      *)
StreamLeft(t) ==
  IF rewardData[t].periodFinish > now
  THEN (rewardData[t].periodFinish - now) * rewardData[t].rewardRate ELSE 0

RewardsSolvent ==
  \A t \in rewardTokens :
    SumFunctionOnSet([a \in Accounts |-> Earned(a, t)], Accounts) + queuedRewards[t] + StreamLeft(t)
      <= rewardVault[t]

-----------------------------------------------------------------------------
(* Action properties.                                                      *)

(* Governance snapshots: no transaction, however late, changes a balance,  *)
(* a supply or a delegatee's votes at an epoch that has started.           *)
PastEpochsFrozen ==
  [][\A e \in PastEpochs :
       /\ SupplyAt(e)' = SupplyAt(e)
       /\ \A a \in Accounts : BalanceAt(e, a)' = BalanceAt(e, a)
       /\ \A d \in Delegatees : VotesAt(d, e)' = VotesAt(d, e)]_vars

(* Before shutdown nothing leaves an account's lock book before it expires *)
(* (a relock may take records of the last week but gives the same amount   *)
(* back), and what somebody else takes has been expired for the delay.     *)
ExpiredAmount(a, time) ==
  AmountOf(userLocks[a], {i \in (balances[a].nextUnlockIndex + 1) .. Len(userLocks[a]) :
                            userLocks[a][i].unlockTime <= time})

NoEarlyExit ==
  [][\A a \in Accounts :
       LET out == balances[a].locked - balances[a].locked'
           keeperShare == SumFunctionOnSet([k \in Accounts |-> wallet'[k] - wallet[k]], Accounts \ {a})
       IN  (~isShutdown /\ out > 0) =>
             /\ out <= ExpiredAmount(a, now)
             /\ keeperShare > 0 =>
                  /\ out <= ExpiredAmount(a, now - minKickDelay * rewardsDuration)
                  /\ keeperShare <= out]_vars

(* A record is processed once: nextUnlockIndex never goes back, and no     *)
(* record below it changes.                                                *)
ProcessedOnce ==
  [][\A a \in Accounts :
       /\ balances[a].nextUnlockIndex <= balances[a].nextUnlockIndex'
       /\ \A i \in 1 .. balances[a].nextUnlockIndex : userLocks'[a][i] = userLocks[a][i]]_vars

(* Nobody can take a reward away: no transaction of anybody lowers what an *)
(* account has earned of a token, but getReward, which pays all of it, and *)
(* the account's own emergencyWithdraw, which forgoes what updateReward    *)
(* had not settled.  A kick, a new stream, others' locks and exits do not. *)
ClaimKept(a, t) ==
  \/ Earned(a, t) <= Earned(a, t)'
  \/ /\ userData'[a][t].rewards = 0
     /\ rewardVault'[t] = rewardVault[t] - Earned(a, t)
  \/ /\ isShutdown
     /\ 0 < balances[a].locked /\ balances'[a].locked = 0
     /\ wallet'[a] = wallet[a] + balances[a].locked
     /\ userData'[a][t] = userData[a][t]

EarningsKept == [][\A t \in rewardTokens, a \in Accounts : ClaimKept(a, t)]_vars
=============================================================================
