-------------------------- MODULE AuraLockerProofs --------------------------
(***************************************************************************)
(* What holds of the locker for every number of accounts, every amount and *)
(* every length of an epoch and a lock: types, the tokens behind the       *)
(* supply, the order of the three lists, that a record is processed once;  *)
(* that a balance is the sum of the open locks, that withdrawals go        *)
(* through, that rewards are solvent, that supplies and votes of an epoch  *)
(* are what is locked, that past epochs are frozen, that nobody leaves     *)
(* early, and that nobody can take from what another has earned.           *)
(***************************************************************************)
EXTENDS AuraLockerProperties, Arithmetic, SequenceTheorems, WellFoundedInduction, TLAPS

-----------------------------------------------------------------------------
(* Dates.                                                                  *)

(* A multiple leaves no remainder.                                         *)
LEMMA MultipleIsWhole ==
  ASSUME NEW k \in Nat, NEW d \in Nat \ {0}
  PROVE  (k * d) % d = 0
  BY SMT

(* What leaves no remainder is a multiple.                                 *)
LEMMA WholeIsMultiple ==
  ASSUME NEW t \in Nat, NEW d \in Nat \ {0}, t % d = 0
  PROVE  t \div d \in Nat /\ t = (t \div d) * d
  BY SMT

(* Two multiples are at least one step apart.                              *)
LEMMA MultiplesAreApart ==
  ASSUME NEW k \in Nat, NEW j \in Nat, NEW d \in Nat \ {0}, k * d < j * d
  PROVE  k * d + d <= j * d
  BY SMT

(* Multiples add up.                                                       *)
LEMMA SumOfMultiples ==
  ASSUME NEW k \in Nat, NEW j \in Nat, NEW d \in Nat \ {0}
  PROVE  (k + j) * d = k * d + j * d
  BY SMT

(* The durations of the locker are numbers, and a lock spans several       *)
(* epochs.                                                                 *)
LEMMA Durations ==
  /\ rewardsDuration \in Nat \ {0}
  /\ lockDuration \in Nat /\ 2 * rewardsDuration <= lockDuration
  /\ StartTime \in Nat /\ MaxTime \in Nat
  /\ lockDuration = LockEpochs * rewardsDuration
<1>1. rewardsDuration \in Nat \ {0} /\ LockEpochs \in Nat /\ 2 <= LockEpochs
  BY TimeAssumption
<1>2. lockDuration = LockEpochs * rewardsDuration /\ lockDuration \in Nat
  BY <1>1, ProductIsNat, SMT DEF lockDuration
<1>3. 2 * rewardsDuration <= LockEpochs * rewardsDuration
  BY <1>1, ProductIsMonotone
<1> QED
  BY <1>1, <1>2, <1>3, TimeAssumption

(* The start of an epoch is a date, and the epoch has begun but is not     *)
(* over.                                                                   *)
LEMMA EpochStarts ==
  ASSUME NEW t \in Nat
  PROVE  /\ EpochStart(t) \in Nat /\ EpochStart(t) % rewardsDuration = 0
         /\ EpochStart(t) <= t /\ t < EpochStart(t) + rewardsDuration
<1>1. t \div rewardsDuration \in Nat /\ EpochStart(t) <= t
  BY Durations, DivIsFloor DEF EpochStart
<1>2. EpochStart(t) \in Nat /\ EpochStart(t) % rewardsDuration = 0
  BY <1>1, Durations, ProductIsNat, MultipleIsWhole DEF EpochStart
<1>3. t < EpochStart(t) + rewardsDuration
  BY Durations, DivIsNear DEF EpochStart
<1> QED
  BY <1>1, <1>2, <1>3

(* Two dates are at least an epoch apart.                                  *)
LEMMA DatesAreApart ==
  ASSUME NEW s \in Nat, NEW t \in Nat, s % rewardsDuration = 0, t % rewardsDuration = 0, s < t
  PROVE  s + rewardsDuration <= t
<1> DEFINE k == s \div rewardsDuration
<1> DEFINE j == t \div rewardsDuration
<1>1. k \in Nat /\ s = k * rewardsDuration /\ j \in Nat /\ t = j * rewardsDuration
  BY Durations, WholeIsMultiple
<1> HIDE DEF k, j
<1> QED
  BY <1>1, Durations, MultiplesAreApart

(* So is a date and the date some epochs later.                            *)
LEMMA LaterIsDate ==
  ASSUME NEW s \in Nat, s % rewardsDuration = 0, NEW k \in Nat
  PROVE  s + k * rewardsDuration \in Nat /\ (s + k * rewardsDuration) % rewardsDuration = 0
<1> DEFINE j == s \div rewardsDuration
<1>1. j \in Nat /\ s = j * rewardsDuration
  BY Durations, WholeIsMultiple
<1> HIDE DEF j
<1>2. j + k \in Nat /\ s + k * rewardsDuration = (j + k) * rewardsDuration
  BY <1>1, Durations, SumOfMultiples
<1> QED
  BY <1>2, Durations, ProductIsNat, MultipleIsWhole

(* The current epoch, the next one and the unlock time of a new lock are   *)
(* dates of epochs around now.                                             *)
LEMMA Dates ==
  ASSUME now \in StartTime .. MaxTime
  PROVE  /\ now \in Nat
         /\ currentEpoch \in EpochDates /\ currentEpoch <= now
         /\ now < currentEpoch + rewardsDuration
         /\ upcomingEpoch \in EpochDates /\ upcomingEpoch = currentEpoch + rewardsDuration
         /\ UnlockTime \in EpochDates /\ UnlockTime = currentEpoch + lockDuration
<1>1. now \in Nat /\ now <= MaxTime
  BY Durations
<1>2. /\ currentEpoch \in Nat /\ currentEpoch % rewardsDuration = 0
      /\ currentEpoch <= now /\ now < currentEpoch + rewardsDuration
  BY <1>1, EpochStarts DEF currentEpoch
<1>3. /\ upcomingEpoch \in Nat /\ upcomingEpoch % rewardsDuration = 0
      /\ upcomingEpoch <= now + rewardsDuration /\ now < upcomingEpoch
  <2> DEFINE t == now + rewardsDuration
  <2>1. t \in Nat
    BY <1>1, Durations
  <2>2. upcomingEpoch = EpochStart(t)
    BY DEF upcomingEpoch
  <2> HIDE DEF t
  <2>3. /\ upcomingEpoch \in Nat /\ upcomingEpoch % rewardsDuration = 0
        /\ upcomingEpoch <= t /\ t < upcomingEpoch + rewardsDuration
    BY <2>1, <2>2, EpochStarts
  <2> QED
    BY <1>1, <2>3, Durations DEF t
<1>4. upcomingEpoch = currentEpoch + rewardsDuration
  <2>1. currentEpoch + rewardsDuration <= upcomingEpoch
    BY <1>1, <1>2, <1>3, DatesAreApart
  <2>2. currentEpoch + rewardsDuration \in Nat /\ (currentEpoch + rewardsDuration) % rewardsDuration = 0
    <3>1. currentEpoch + 1 * rewardsDuration \in Nat
          /\ (currentEpoch + 1 * rewardsDuration) % rewardsDuration = 0
      BY <1>2, LaterIsDate
    <3> QED
      BY <3>1, Durations
  <2>3. ~(currentEpoch + rewardsDuration < upcomingEpoch)
    <3> SUFFICES ASSUME currentEpoch + rewardsDuration < upcomingEpoch PROVE FALSE
      OBVIOUS
    <3>1. (currentEpoch + rewardsDuration) + rewardsDuration <= upcomingEpoch
      BY <1>3, <2>2, DatesAreApart
    <3> QED
      BY <1>1, <1>2, <1>3, <3>1, Durations
  <2> QED
    BY <1>2, <1>3, <2>1, <2>3, Durations
<1>5. UnlockTime \in Nat /\ UnlockTime % rewardsDuration = 0 /\ UnlockTime = currentEpoch + lockDuration
  BY <1>2, Durations, TimeAssumption, LaterIsDate DEF UnlockTime
<1> QED
  BY <1>1, <1>2, <1>3, <1>4, <1>5, Durations DEF EpochDates

(* Epochs do not go back.                                                  *)
LEMMA EpochsAdvance ==
  ASSUME NEW s \in Nat, NEW t \in Nat, s <= t
  PROVE  EpochStart(s) <= EpochStart(t)
<1>1. /\ EpochStart(s) \in Nat /\ EpochStart(s) % rewardsDuration = 0 /\ EpochStart(s) <= s
      /\ EpochStart(t) \in Nat /\ EpochStart(t) % rewardsDuration = 0
      /\ t < EpochStart(t) + rewardsDuration
  BY EpochStarts
<1> SUFFICES ASSUME EpochStart(t) < EpochStart(s) PROVE FALSE
  BY <1>1
<1>2. EpochStart(t) + rewardsDuration <= EpochStart(s)
  BY <1>1, DatesAreApart
<1> QED
  BY <1>1, <1>2, Durations

-----------------------------------------------------------------------------
(* The invariant: types by groups of variables, the order of the lists,    *)
(* and what has been processed.                                            *)

EpochRecords == [supply : Nat, date : EpochDates]

ClockType  == now \in StartTime .. MaxTime
EpochType  == epochs \in Seq(EpochRecords) /\ epochs # <<>>
BookType ==
  /\ balances \in [Accounts -> [locked : Nat, nextUnlockIndex : Nat]]
  /\ userLocks \in [Accounts -> Seq(LockRecords)]
  /\ lockedSupply \in Nat
VoteType ==
  /\ delegates \in [Accounts -> Delegatees \cup {NoOne}]
  /\ checkpointedVotes \in [Delegatees -> Seq(Checkpoints)]
  /\ delegateeUnlocks \in [Delegatees -> [EpochDates -> Nat]]
ConfigType ==
  /\ blacklist \subseteq Contracts
  /\ kickRewardPerEpoch \in Nat /\ kickRewardEpochDelay \in Nat
  /\ isShutdown \in BOOLEAN
StreamType ==
  /\ rewardTokens \subseteq RewardTokens
  /\ rewardDistributors \in [RewardTokens -> SUBSET Distributors]
  /\ queuedRewards \in [RewardTokens -> Nat] /\ funds \in [RewardTokens -> Nat]
RewardRecords == [periodFinish : Nat, lastUpdateTime : Nat, rewardRate : Nat,
                  rewardPerTokenStored : Nat]
PaidRecords == [rewardPerTokenPaid : Nat, rewards : Nat]
AccrueType ==
  /\ rewardData \in [RewardTokens -> RewardRecords]
  /\ userData \in [Accounts -> [RewardTokens -> PaidRecords]]
TokenType == wallet \in [Accounts -> Nat] /\ vault \in Nat
RewardVaultType == rewardVault \in [RewardTokens -> Nat]

(* The type invariant, by the state it speaks of.                          *)
LEMMA TypeParts ==
  TypeOK <=> /\ ClockType /\ EpochType /\ BookType /\ VoteType /\ ConfigType
             /\ StreamType /\ AccrueType /\ TokenType /\ RewardVaultType
  BY DEF TypeOK, ClockType, EpochType, EpochRecords, BookType, VoteType, ConfigType, StreamType,
     RewardRecords, PaidRecords, AccrueType, TokenType, RewardVaultType

(* Records that have been processed had expired, or would within the week  *)
(* (a relock), so a new lock never falls into one.                         *)
ProcessedAreOver ==
  ~isShutdown =>
    \A a \in Accounts : \A i \in 1 .. balances[a].nextUnlockIndex :
      userLocks[a][i].unlockTime <= now + rewardsDuration

(* A lock list in order; the checkpoints of a delegatee in order.          *)
InOrder(locks) ==
  /\ \A i, j \in DOMAIN locks : i < j => locks[i].unlockTime < locks[j].unlockTime
  /\ \A i \in DOMAIN locks : locks[i].unlockTime <= currentEpoch + lockDuration
CheckpointsInOrder(ckpts) ==
  /\ \A i, j \in DOMAIN ckpts : i < j => ckpts[i].epochStart < ckpts[j].epochStart
  /\ \A i \in DOMAIN ckpts : ckpts[i].epochStart <= upcomingEpoch

(* The order of locks and of checkpoints, for each account.                *)
LEMMA OrderParts ==
  /\ LocksSorted <=> \A a \in Accounts : /\ InOrder(userLocks[a])
                                         /\ balances[a].nextUnlockIndex <= Len(userLocks[a])
  /\ CheckpointsSorted <=> \A d \in Delegatees : CheckpointsInOrder(checkpointedVotes[d])
  BY DEF LocksSorted, InOrder, CheckpointsSorted, CheckpointsInOrder

-----------------------------------------------------------------------------
(* Lists.                                                                  *)

(* What is in a list of locks.                                             *)
LEMMA RecordTypes ==
  ASSUME NEW locks \in Seq(LockRecords)
  PROVE  /\ Len(locks) \in Nat /\ DOMAIN locks = 1 .. Len(locks)
         /\ \A i \in 1 .. Len(locks) :
              locks[i] \in LockRecords /\ locks[i].amount \in Nat /\ locks[i].unlockTime \in Nat
<1>1. /\ Len(locks) \in Nat /\ DOMAIN locks = 1 .. Len(locks)
      /\ \A i \in 1 .. Len(locks) : locks[i] \in LockRecords
  BY LenProperties, ElementOfSeq
<1>2. \A l \in LockRecords : l.amount \in Nat /\ l.unlockTime \in Nat
  BY DEF LockRecords, EpochDates
<1> QED
  BY <1>1, <1>2

(* A lock goes into a new record, or into the one of its week.             *)
LEMMA AddLockKeeps ==
  ASSUME ClockType, NEW locks \in Seq(LockRecords), NEW amount \in Nat, InOrder(locks)
  PROVE  LET new == AddLock(locks, amount, UnlockTime)
         IN  /\ new \in Seq(LockRecords) /\ InOrder(new)
             /\ Len(locks) <= Len(new)
             /\ \A i \in DOMAIN locks : locks[i].unlockTime < UnlockTime => new[i] = locks[i]
             /\ \A i \in DOMAIN locks : new[i].unlockTime = locks[i].unlockTime
<1> DEFINE rec == [amount |-> amount, unlockTime |-> UnlockTime]
<1>1. /\ UnlockTime \in EpochDates /\ UnlockTime = currentEpoch + lockDuration
      /\ rec \in LockRecords /\ rec.unlockTime = UnlockTime /\ EpochDates \subseteq Nat
  BY Dates DEF ClockType, LockRecords, EpochDates
<1>2. /\ Len(locks) \in Nat /\ DOMAIN locks = 1 .. Len(locks)
      /\ \A i \in DOMAIN locks : locks[i] \in LockRecords
      /\ \A i \in DOMAIN locks : locks[i].amount \in Nat /\ locks[i].unlockTime \in Nat
  BY RecordTypes
<1> HIDE DEF rec
<1>3. CASE locks = <<>> \/ LastOf(locks).unlockTime < UnlockTime
  <2> DEFINE new == Append(locks, rec)
  <2>1. AddLock(locks, amount, UnlockTime) = new
    BY <1>3 DEF AddLock, rec
  <2>2. /\ new \in Seq(LockRecords) /\ Len(new) = Len(locks) + 1
        /\ \A i \in 1 .. Len(locks) : new[i] = locks[i]
        /\ new[Len(locks) + 1] = rec
    BY <1>1, AppendProperties
  <2>3. DOMAIN new = 1 .. (Len(locks) + 1)
    BY <2>2, LenProperties
  <2> HIDE DEF new
  <2>4. \A i \in DOMAIN locks : locks[i].unlockTime < UnlockTime
    <3> SUFFICES ASSUME NEW i \in DOMAIN locks PROVE locks[i].unlockTime < UnlockTime
      OBVIOUS
    <3>1. locks # <<>> /\ Len(locks) \in DOMAIN locks
      BY <1>2
    <3>2. LastOf(locks).unlockTime < UnlockTime
      BY <1>3, <3>1
    <3>3. i < Len(locks) => locks[i].unlockTime < locks[Len(locks)].unlockTime
      BY <3>1 DEF InOrder
    <3> QED
      BY <1>1, <1>2, <3>1, <3>2, <3>3 DEF LastOf
  <2>5. InOrder(new)
    <3>1. ASSUME NEW i \in DOMAIN new, NEW j \in DOMAIN new, i < j
          PROVE  new[i].unlockTime < new[j].unlockTime
      <4>1. i \in DOMAIN locks /\ new[i] = locks[i]
        BY <1>2, <2>2, <2>3, <3>1
      <4>2. CASE j \in DOMAIN locks
        BY <1>2, <2>2, <3>1, <4>1, <4>2 DEF InOrder
      <4>3. CASE j = Len(locks) + 1
        BY <1>1, <2>2, <2>4, <4>1, <4>3
      <4> QED
        BY <1>2, <2>3, <4>2, <4>3
    <3>2. ASSUME NEW i \in DOMAIN new PROVE new[i].unlockTime <= currentEpoch + lockDuration
      <4>1. CASE i \in DOMAIN locks
        BY <1>2, <2>2, <4>1 DEF InOrder
      <4>2. CASE i = Len(locks) + 1
        BY <1>1, <2>2, <4>2
      <4> QED
        BY <1>2, <2>3, <4>1, <4>2
    <3> QED
      BY <3>1, <3>2 DEF InOrder
  <2> QED
    BY <1>2, <2>1, <2>2, <2>5
<1>4. CASE ~(locks = <<>> \/ LastOf(locks).unlockTime < UnlockTime)
  <2> DEFINE last == Len(locks)
  <2> DEFINE e == [locks[last] EXCEPT !.amount = @ + amount]
  <2> DEFINE new == [locks EXCEPT ![last] = e]
  <2>1. AddLock(locks, amount, UnlockTime) = new
    BY <1>4 DEF AddLock
  <2>2. last \in 1 .. Len(locks)
    BY <1>2, <1>4, EmptySeq
  <2>3. e \in LockRecords /\ e.unlockTime = locks[last].unlockTime
    BY <1>2, <2>2 DEF LockRecords
  <2> HIDE DEF e
  <2>4. /\ new \in Seq(LockRecords) /\ Len(new) = Len(locks)
        /\ \A i \in 1 .. Len(locks) : new[i] = IF i = last THEN e ELSE locks[i]
    BY <2>2, <2>3, ExceptSeq
  <2>5. DOMAIN new = DOMAIN locks
    BY <1>2, <2>4, LenProperties
  <2> HIDE DEF new
  <2>6. \A i \in DOMAIN locks : new[i].unlockTime = locks[i].unlockTime
    BY <1>2, <2>3, <2>4
  <2>7. InOrder(new)
    BY <2>5, <2>6 DEF InOrder
  <2>8. \A i \in DOMAIN locks : locks[i].unlockTime < UnlockTime => new[i] = locks[i]
    BY <1>1, <1>2, <1>4, <2>2, <2>4 DEF LastOf
  <2> QED
    BY <1>2, <2>1, <2>4, <2>6, <2>7, <2>8
<1> QED
  BY <1>3, <1>4

(* The epochs es run from one to the next without a gap, up to now.        *)
Consecutive(es) ==
  /\ LastOf(es).date <= currentEpoch
  /\ \A i \in DOMAIN es : es[i].date = es[1].date + (i - 1) * rewardsDuration

(* A multiple divided by its step.                                         *)
LEMMA QuotientOfMultiple ==
  ASSUME NEW k \in Nat, NEW d \in Nat \ {0}
  PROVE  (k * d) \div d = k
  BY SMT

(* The difference of multiples is a multiple.                              *)
LEMMA DifferenceOfMultiples ==
  ASSUME NEW k \in Nat, NEW j \in Nat, NEW d \in Nat \ {0}, k * d <= j * d
  PROVE  j - k \in Nat /\ j * d - k * d = (j - k) * d
<1>1. k <= j
  BY ProductCancels
<1>2. j - k \in Nat /\ k + (j - k) = j
  BY <1>1
<1>3. j * d = k * d + (j - k) * d
  BY <1>2, SumOfMultiples
<1>4. j * d \in Nat /\ k * d \in Nat /\ (j - k) * d \in Nat
  BY <1>2, ProductIsNat
<1> QED
  BY <1>2, <1>3, <1>4

(* From one date to a later one there is a whole number of epochs.         *)
LEMMA EpochsBetween ==
  ASSUME NEW s \in Nat, NEW t \in Nat, s % rewardsDuration = 0, t % rewardsDuration = 0, s <= t
  PROVE  /\ (t - s) \div rewardsDuration \in Nat
         /\ t = s + ((t - s) \div rewardsDuration) * rewardsDuration
<1> DEFINE k == s \div rewardsDuration
<1> DEFINE j == t \div rewardsDuration
<1>1. k \in Nat /\ s = k * rewardsDuration /\ j \in Nat /\ t = j * rewardsDuration
  BY Durations, WholeIsMultiple
<1> HIDE DEF k, j
<1>2. j - k \in Nat /\ t - s = (j - k) * rewardsDuration
  BY <1>1, Durations, DifferenceOfMultiples
<1>3. (t - s) \div rewardsDuration = j - k
  BY <1>2, Durations, QuotientOfMultiple
<1> QED
  BY <1>2, <1>3

(* _checkpointEpoch fills the gap up to the running epoch.                 *)
LEMMA EpochsFilled ==
  ASSUME ClockType, EpochType, Consecutive(epochs)
  PROVE  /\ CheckpointedEpochs \in Seq(EpochRecords) /\ CheckpointedEpochs # <<>>
         /\ Consecutive(CheckpointedEpochs)
         /\ LastOf(CheckpointedEpochs).date = currentEpoch
<1> DEFINE n == Len(epochs)
<1> DEFINE first == epochs[1].date
<1> DEFINE last == LastOf(epochs).date
<1> DEFINE missing == (currentEpoch - last) \div rewardsDuration
<1> DEFINE fill == [k \in 1 .. missing |-> [supply |-> 0, date |-> last + k * rewardsDuration]]
<1>1. /\ n \in Nat \ {0} /\ DOMAIN epochs = 1 .. n /\ epochs[1] \in EpochRecords
      /\ epochs[n] \in EpochRecords /\ LastOf(epochs) = epochs[n]
  BY EmptySeq, LenProperties, ElementOfSeq DEF EpochType, LastOf
<1>2. /\ first \in Nat /\ last \in Nat /\ last % rewardsDuration = 0 /\ last <= currentEpoch
      /\ last = first + (n - 1) * rewardsDuration
  BY <1>1 DEF Consecutive, EpochRecords, EpochDates
<1>3. /\ currentEpoch \in Nat /\ currentEpoch % rewardsDuration = 0
      /\ currentEpoch <= now /\ now <= MaxTime /\ now \in Nat
  BY Dates, Durations DEF ClockType, EpochDates
<1>4. missing \in Nat /\ currentEpoch = last + missing * rewardsDuration
  BY <1>2, <1>3, EpochsBetween
<1>5. CheckpointedEpochs = epochs \o fill
  BY DEF CheckpointedEpochs
<1> HIDE DEF missing
<1>6. ASSUME NEW k \in 1 .. missing
      PROVE  last + k * rewardsDuration \in EpochDates
  <2>1. k \in Nat /\ k <= missing
    BY <1>4
  <2>2. k * rewardsDuration <= missing * rewardsDuration
    BY <2>1, <1>4, Durations, ProductIsMonotone
  <2>3. last + k * rewardsDuration \in Nat /\ (last + k * rewardsDuration) % rewardsDuration = 0
    BY <2>1, <1>2, LaterIsDate
  <2>4. k * rewardsDuration \in Nat /\ missing * rewardsDuration \in Nat
    BY <2>1, <1>4, Durations, ProductIsNat
  <2>5. last + k * rewardsDuration <= MaxTime + lockDuration
    <3> DEFINE p == k * rewardsDuration
    <3> DEFINE q == missing * rewardsDuration
    <3>1. p \in Nat /\ q \in Nat /\ p <= q /\ currentEpoch = last + q
      BY <1>4, <2>2, <2>4
    <3> HIDE DEF p, q, last
    <3>2. last + p <= MaxTime + lockDuration
      <4>1. last \in Nat /\ last + q <= now /\ now <= MaxTime /\ now \in Nat
            /\ MaxTime \in Nat /\ lockDuration \in Nat
        BY <1>2, <1>3, <3>1, Durations
      <4>2. \A l, x, y, t, m, d \in Nat : x <= y /\ l + y <= t /\ t <= m => l + x <= m + d
        OBVIOUS
      <4> QED
        BY <3>1, <4>1, <4>2
    <3> QED
      BY <3>2 DEF p
  <2> DEFINE d == last + k * rewardsDuration
  <2>6. d \in Nat /\ d % rewardsDuration = 0 /\ d <= MaxTime + lockDuration
    BY <2>3, <2>5
  <2> HIDE DEF d
  <2>7. d \in EpochDates
    BY <2>6, Durations DEF EpochDates
  <2> QED
    BY <2>7 DEF d
<1>7. fill \in Seq(EpochRecords) /\ Len(fill) = missing
  <2>1. \A k \in 1 .. missing : fill[k] \in EpochRecords
    BY <1>6 DEF EpochRecords
  <2> QED
    BY <1>4, <2>1, IsASeq
<1> DEFINE new == epochs \o fill
<1>8. /\ new \in Seq(EpochRecords) /\ Len(new) = n + missing /\ DOMAIN new = 1 .. (n + missing)
      /\ \A i \in 1 .. n : new[i] = epochs[i]
      /\ \A i \in (n + 1) .. (n + missing) : new[i] = fill[i - n]
  BY <1>1, <1>4, <1>7, ConcatProperties, LenProperties DEF EpochType
<1>9. ASSUME NEW i \in 1 .. (n + missing)
      PROVE  new[i].date = first + (i - 1) * rewardsDuration
  <2>1. CASE i \in 1 .. n
    BY <1>1, <1>8, <2>1 DEF Consecutive
  <2>2. CASE i \in (n + 1) .. (n + missing)
    <3>1. i - n \in 1 .. missing /\ i - n \in Nat /\ n - 1 \in Nat /\ (n - 1) + (i - n) = i - 1
      BY <1>1, <1>4, <2>2
    <3>2. new[i] = fill[i - n]
      BY <1>8, <2>2
    <3>3. fill[i - n].date = last + (i - n) * rewardsDuration
      BY <3>1
    <3>4. (i - 1) * rewardsDuration = (n - 1) * rewardsDuration + (i - n) * rewardsDuration
      BY <3>1, Durations, SumOfMultiples
    <3>5. (n - 1) * rewardsDuration \in Nat /\ (i - n) * rewardsDuration \in Nat
      BY <3>1, Durations, ProductIsNat
    <3> HIDE DEF new, last, first, fill
    <3> QED
      BY <1>2, <3>2, <3>3, <3>4, <3>5
  <2> QED
    BY <1>1, <1>4, <2>1, <2>2
<1>10. new[1] = epochs[1] /\ new # <<>> /\ LastOf(new) = new[n + missing]
  BY <1>1, <1>4, <1>8 DEF LastOf
<1>11. LastOf(new).date = currentEpoch
  <2>1. n - 1 \in Nat /\ n + missing \in 1 .. (n + missing) /\ (n + missing) - 1 = (n - 1) + missing
    BY <1>1, <1>4
  <2>2. LastOf(new).date = first + ((n - 1) + missing) * rewardsDuration
    BY <1>9, <1>10, <2>1
  <2>3. ((n - 1) + missing) * rewardsDuration = (n - 1) * rewardsDuration + missing * rewardsDuration
    BY <1>4, <2>1, Durations, SumOfMultiples
  <2>4. (n - 1) * rewardsDuration \in Nat /\ missing * rewardsDuration \in Nat
    BY <1>4, <2>1, Durations, ProductIsNat
  <2> HIDE DEF new, last, first
  <2> QED
    BY <1>2, <1>4, <2>2, <2>3, <2>4
<1> HIDE DEF new
<1>12. Consecutive(new)
  BY <1>3, <1>8, <1>9, <1>10, <1>11 DEF Consecutive
<1> QED
  BY <1>5, <1>8, <1>10, <1>11, <1>12 DEF new

(* A lock adds to the supply of the last epoch.                            *)
LEMMA AddToLastKeeps ==
  ASSUME NEW es \in Seq(EpochRecords), es # <<>>, Consecutive(es), NEW amount \in Nat
  PROVE  LET new == AddToLastEpoch(es, amount)
         IN  /\ new \in Seq(EpochRecords) /\ new # <<>> /\ Consecutive(new)
             /\ LastOf(new).date = LastOf(es).date
<1> DEFINE n == Len(es)
<1> DEFINE e == [es[n] EXCEPT !.supply = @ + amount]
<1> DEFINE new == [es EXCEPT ![n] = e]
<1>1. n \in Nat \ {0} /\ DOMAIN es = 1 .. n /\ es[n] \in EpochRecords
  BY EmptySeq, LenProperties, ElementOfSeq
<1>2. AddToLastEpoch(es, amount) = new
  BY DEF AddToLastEpoch
<1>3. e \in EpochRecords /\ e.date = es[n].date
  BY <1>1 DEF EpochRecords
<1> HIDE DEF e
<1>4. /\ new \in Seq(EpochRecords) /\ Len(new) = n /\ DOMAIN new = 1 .. n
      /\ \A i \in 1 .. n : new[i] = IF i = n THEN e ELSE es[i]
  BY <1>1, <1>3, ExceptSeq, LenProperties
<1> HIDE DEF new
<1>5. \A i \in 1 .. n : new[i].date = es[i].date
  BY <1>1, <1>3, <1>4
<1>6. Consecutive(new)
  <2>1. 1 \in 1 .. n /\ n \in 1 .. n
    BY <1>1
  <2>2. LastOf(new).date = LastOf(es).date /\ new[1].date = es[1].date
    BY <1>4, <1>5, <2>1 DEF LastOf
  <2>3. ASSUME NEW i \in 1 .. n PROVE new[i].date = new[1].date + (i - 1) * rewardsDuration
    BY <1>1, <1>5, <2>2, Zenon DEF Consecutive
  <2> QED
    BY <1>4, <2>2, <2>3 DEF Consecutive
<1>7. new # <<>>
  BY <1>1, <1>4
<1>8. LastOf(new).date = LastOf(es).date
  <2>1. n \in 1 .. n
    BY <1>1
  <2> QED
    BY <1>4, <1>5, <2>1 DEF LastOf
<1> QED
  BY <1>2, <1>4, <1>6, <1>7, <1>8

(* A checkpoint takes the place of the last one or comes after it.         *)
LEMMA CheckpointKeeps ==
  ASSUME ClockType, NEW ckpts \in Seq(Checkpoints), CheckpointsInOrder(ckpts),
         NEW unlocks, NEW addition, NEW deduction,
         CanCheckpoint(ckpts, unlocks, addition, deduction)
  PROVE  LET new == Checkpoint(ckpts, unlocks, addition, deduction)
         IN  new \in Seq(Checkpoints) /\ CheckpointsInOrder(new)
<1> DEFINE votes == Carried(ckpts, unlocks) + addition - deduction
<1> DEFINE ckpt == [votes |-> votes, epochStart |-> upcomingEpoch]
<1> DEFINE n == Len(ckpts)
<1>1. votes \in Nat
  BY AmountAssumption DEF CanCheckpoint
<1>2. Checkpoint(ckpts, unlocks, addition, deduction) =
        IF ckpts # <<>> /\ LastOf(ckpts).epochStart = upcomingEpoch
        THEN [ckpts EXCEPT ![n] = ckpt] ELSE Append(ckpts, ckpt)
  BY DEF Checkpoint
<1> HIDE DEF votes
<1>3. ckpt \in Checkpoints /\ ckpt.epochStart = upcomingEpoch /\ upcomingEpoch \in Nat
  BY <1>1, Dates DEF ClockType, Checkpoints, EpochDates
<1> HIDE DEF ckpt
<1>4. /\ n \in Nat /\ DOMAIN ckpts = 1 .. n
      /\ \A i \in 1 .. n : ckpts[i] \in Checkpoints /\ ckpts[i].epochStart \in Nat
  <2>1. n \in Nat /\ DOMAIN ckpts = 1 .. n /\ \A i \in 1 .. n : ckpts[i] \in Checkpoints
    BY LenProperties, ElementOfSeq
  <2> QED
    BY <2>1 DEF Checkpoints, EpochDates
<1>5. CASE ckpts # <<>> /\ LastOf(ckpts).epochStart = upcomingEpoch
  <2> DEFINE new == [ckpts EXCEPT ![n] = ckpt]
  <2>1. n \in 1 .. n
    BY <1>4, <1>5, EmptySeq
  <2>2. /\ new \in Seq(Checkpoints) /\ Len(new) = n /\ DOMAIN new = 1 .. n
        /\ \A i \in 1 .. n : new[i] = IF i = n THEN ckpt ELSE ckpts[i]
    BY <1>3, <2>1, ExceptSeq, LenProperties
  <2>3. Checkpoint(ckpts, unlocks, addition, deduction) = new
    BY <1>2, <1>5
  <2> HIDE DEF new
  <2>4. \A i \in 1 .. n : new[i].epochStart = ckpts[i].epochStart
    BY <1>3, <1>5, <2>1, <2>2 DEF LastOf
  <2>5. CheckpointsInOrder(new)
    BY <1>4, <2>2, <2>4 DEF CheckpointsInOrder
  <2> QED
    BY <2>2, <2>3, <2>5
<1>6. CASE ~(ckpts # <<>> /\ LastOf(ckpts).epochStart = upcomingEpoch)
  <2> DEFINE new == Append(ckpts, ckpt)
  <2>1. /\ new \in Seq(Checkpoints) /\ Len(new) = n + 1 /\ DOMAIN new = 1 .. (n + 1)
        /\ \A i \in 1 .. n : new[i] = ckpts[i]
        /\ new[n + 1] = ckpt
    BY <1>3, <1>4, AppendProperties, LenProperties
  <2>2. Checkpoint(ckpts, unlocks, addition, deduction) = new
    BY <1>2, <1>6
  <2> HIDE DEF new
  <2>3. \A i \in 1 .. n : ckpts[i].epochStart < upcomingEpoch
    <3> SUFFICES ASSUME NEW i \in 1 .. n PROVE ckpts[i].epochStart < upcomingEpoch
      OBVIOUS
    <3>1. n \in 1 .. n /\ ckpts # <<>>
      BY <1>4
    <3>2. ckpts[n].epochStart # upcomingEpoch /\ ckpts[n].epochStart <= upcomingEpoch
      BY <1>4, <1>6, <3>1 DEF LastOf, CheckpointsInOrder
    <3>3. i < n => ckpts[i].epochStart < ckpts[n].epochStart
      BY <1>4, <3>1 DEF CheckpointsInOrder
    <3> QED
      BY <1>3, <1>4, <3>1, <3>2, <3>3
  <2>4. ASSUME NEW i \in 1 .. (n + 1), NEW j \in 1 .. (n + 1), i < j
        PROVE  new[i].epochStart < new[j].epochStart
    <3>1. i \in 1 .. n
      BY <1>4, <2>4
    <3>2. CASE j \in 1 .. n
      BY <1>4, <2>1, <2>4, <3>1, <3>2 DEF CheckpointsInOrder
    <3>3. CASE j = n + 1
      BY <1>3, <2>1, <2>3, <3>1, <3>3
    <3> QED
      BY <1>4, <3>2, <3>3
  <2>5. ASSUME NEW i \in 1 .. (n + 1) PROVE new[i].epochStart <= upcomingEpoch
    <3>1. CASE i \in 1 .. n
      BY <1>4, <2>1, <3>1 DEF CheckpointsInOrder
    <3>2. CASE i = n + 1
      BY <1>3, <2>1, <3>2
    <3> QED
      BY <1>4, <3>1, <3>2
  <2>6. CheckpointsInOrder(new)
    BY <2>1, <2>4, <2>5 DEF CheckpointsInOrder
  <2> QED
    BY <2>1, <2>2, <2>6
<1> QED
  BY <1>5, <1>6
-----------------------------------------------------------------------------
(* Rewards accrue to values of their types.                                *)

(* What updateReward computes has its type.                                *)
LEMMA AccrualType ==
  ASSUME ClockType, BookType, StreamType, AccrueType, NEW a \in Accounts, CanUpdateReward(a)
  PROVE  /\ AccruedRewardData \in [RewardTokens -> RewardRecords]
         /\ AccruedUserData(a) \in [RewardTokens -> PaidRecords]
         /\ \A t \in rewardTokens : Earned(a, t) \in Nat
<1>1. ASSUME NEW t \in rewardTokens
      PROVE  /\ t \in RewardTokens /\ rewardData[t] \in RewardRecords
             /\ RewardPerToken(t) \in Nat /\ lastTimeRewardApplicable(t) \in Nat
             /\ Earned(a, t) \in Nat
  <2>1. /\ t \in RewardTokens /\ rewardData[t] \in RewardRecords
        /\ userData[a][t] \in PaidRecords /\ balances[a].locked \in Nat
    BY DEF StreamType, AccrueType, BookType
  <2>2. RewardPerToken(t) \in Nat /\ userData[a][t].rewardPerTokenPaid <= RewardPerToken(t)
    BY AmountAssumption DEF CanUpdateReward, CanAccrue
  <2>3. lastTimeRewardApplicable(t) \in Nat
    BY <2>1, Durations DEF lastTimeRewardApplicable, Least, RewardRecords, ClockType
  <2>4. Earned(a, t) \in Nat
    <3> DEFINE gain == RewardPerToken(t) - userData[a][t].rewardPerTokenPaid
    <3> DEFINE p == balances[a].locked * gain
    <3>1. gain \in Nat
      BY <2>1, <2>2 DEF PaidRecords
    <3> HIDE DEF gain
    <3>2. p \in Nat
      BY <2>1, <3>1, ProductIsNat
    <3>3. Earned(a, t) = p \div Precision + userData[a][t].rewards
      BY DEF Earned, gain
    <3> HIDE DEF p
    <3>4. p \div Precision \in Nat
      BY <3>2, AmountAssumption, DivIsFloor
    <3> QED
      BY <2>1, <3>3, <3>4 DEF PaidRecords
  <2> QED
    BY <2>1, <2>2, <2>3, <2>4
<1>2. AccruedRewardData \in [RewardTokens -> RewardRecords]
  <2> SUFFICES ASSUME NEW t \in RewardTokens
               PROVE  (IF t \in rewardTokens
                       THEN [rewardData[t] EXCEPT !.rewardPerTokenStored = RewardPerToken(t),
                                                  !.lastUpdateTime = lastTimeRewardApplicable(t)]
                       ELSE rewardData[t]) \in RewardRecords
    BY DEF AccruedRewardData
  <2>1. CASE t \in rewardTokens
    BY <1>1, <2>1 DEF RewardRecords
  <2>2. CASE t \notin rewardTokens
    BY <2>2 DEF AccrueType
  <2> QED
    BY <2>1, <2>2
<1>3. AccruedUserData(a) \in [RewardTokens -> PaidRecords]
  <2> SUFFICES ASSUME NEW t \in RewardTokens
               PROVE  (IF t \in rewardTokens
                       THEN [rewardPerTokenPaid |-> RewardPerToken(t), rewards |-> Earned(a, t)]
                       ELSE userData[a][t]) \in PaidRecords
    BY DEF AccruedUserData
  <2>1. CASE t \in rewardTokens
    BY <1>1, <2>1 DEF PaidRecords
  <2>2. CASE t \notin rewardTokens
    BY <2>2 DEF AccrueType
  <2> QED
    BY <2>1, <2>2
<1> QED
  BY <1>1, <1>2, <1>3

(* updateReward keeps the types of rewards.                                *)
LEMMA UpdateRewardType ==
  ASSUME ClockType, BookType, StreamType, AccrueType, NEW a \in Accounts, UpdateReward(a)
  PROVE  AccrueType'
<1>1. /\ AccruedRewardData \in [RewardTokens -> RewardRecords]
      /\ AccruedUserData(a) \in [RewardTokens -> PaidRecords]
  BY AccrualType DEF UpdateReward
<1> QED
  BY <1>1 DEF UpdateReward, AccrueType

-----------------------------------------------------------------------------
(* What leaves the lock book.                                              *)

(* The scan stops somewhere: at the first record that has not expired, or  *)
(* at the end.                                                             *)
LEMMA ScanStops ==
  ASSUME NEW locks \in Seq(LockRecords), NEW processed \in Nat, processed <= Len(locks),
         NEW expiry \in Int
  PROVE  LET k == LastExpired(locks, processed, expiry)
         IN  /\ k \in processed .. Len(locks)
             /\ \A i \in (processed + 1) .. k : locks[i].unlockTime <= expiry
             /\ k < Len(locks) => locks[k + 1].unlockTime > expiry
<1> DEFINE Stop(k) == /\ \A i \in (processed + 1) .. k : locks[i].unlockTime <= expiry
                      /\ k < Len(locks) => locks[k + 1].unlockTime > expiry
<1> DEFINE later == {i \in Nat : i \in (processed + 1) .. Len(locks) /\ locks[i].unlockTime > expiry}
<1>1. Len(locks) \in Nat /\ \A i \in 1 .. Len(locks) : locks[i].unlockTime \in Nat
  BY RecordTypes
<1>2. \E k \in processed .. Len(locks) : Stop(k)
  <2>1. CASE later = {}
    <3>1. \A i \in (processed + 1) .. Len(locks) : locks[i].unlockTime <= expiry
      BY <1>1, <2>1
    <3>2. Len(locks) \in processed .. Len(locks) /\ Stop(Len(locks))
      BY <1>1, <3>1
    <3> QED
      BY <3>2
  <2>2. CASE later # {}
    <3>1. PICK m \in later : \A j \in later : ~(<<j, m>> \in OpToRel(<, Nat))
      BY <2>2, NatLessThanWellFounded, WFMin
    <3>2. m \in Nat /\ m \in (processed + 1) .. Len(locks) /\ locks[m].unlockTime > expiry
      BY DEF later
    <3>3. \A j \in later : ~(j < m)
      BY <3>1, <3>2 DEF OpToRel
    <3>4. \A i \in (processed + 1) .. (m - 1) : locks[i].unlockTime <= expiry
      BY <1>1, <3>2, <3>3
    <3>5. m - 1 \in processed .. Len(locks) /\ Stop(m - 1)
      BY <1>1, <3>2, <3>4
    <3> QED
      BY <3>5
  <2> QED
    BY <2>1, <2>2
<1>3. LastExpired(locks, processed, expiry) = CHOOSE k \in processed .. Len(locks) : Stop(k)
  BY DEF LastExpired
<1> HIDE DEF Stop
<1>4. /\ LastExpired(locks, processed, expiry) \in processed .. Len(locks)
      /\ Stop(LastExpired(locks, processed, expiry))
  BY <1>2, <1>3
<1> QED
  BY <1>4 DEF Stop

(* The records that are done follow those done before, and they had        *)
(* expired or would within the epoch; what they held is on the book.       *)
LEMMA ReleaseFacts ==
  ASSUME ClockType, BookType, LocksSorted, NEW a \in Accounts, NEW relock \in BOOLEAN,
         NEW delay \in Nat, CanRelease(a, relock, delay)
  PROVE  LET r == Release(a, relock, delay)
         IN  /\ r.last \in Nat /\ balances[a].nextUnlockIndex <= r.last
             /\ r.last <= Len(userLocks[a])
             /\ ~isShutdown =>
                  \A i \in (balances[a].nextUnlockIndex + 1) .. r.last :
                    userLocks[a][i].unlockTime <= now + rewardsDuration
             /\ r.amount \in Nat /\ r.amount <= balances[a].locked
             /\ r.amount <= lockedSupply /\ r.amount <= vault
             /\ r.reward \in Nat /\ r.reward <= r.amount
<1> DEFINE r == Release(a, relock, delay)
<1> DEFINE locks == userLocks[a]
<1> DEFINE expiry == ExpiryTime(relock, delay)
<1> DEFINE done == balances[a].nextUnlockIndex
<1> DEFINE all == isShutdown \/ LastOf(locks).unlockTime <= expiry
<1>1. /\ locks \in Seq(LockRecords) /\ done \in Nat /\ balances[a].locked \in Nat
      /\ done <= Len(locks) /\ Len(locks) \in Nat /\ locks # <<>> /\ now \in Nat
  BY LenProperties, Durations DEF BookType, LocksSorted, CanRelease, ClockType
<1>2. /\ r.amount \in Nat /\ r.amount <= balances[a].locked
      /\ r.amount <= lockedSupply /\ r.amount <= vault
      /\ r.reward \in Nat /\ r.reward <= r.amount
  BY <1>1 DEF CanRelease
<1>3. expiry \in Int /\ expiry <= now + rewardsDuration
  BY <1>1, Durations DEF ExpiryTime
<1>4. r.last = IF all THEN Len(locks) ELSE LastExpired(locks, (done + 1) - 1, expiry)
  BY DEF Release
<1>5. (done + 1) - 1 = done
  BY <1>1
<1> HIDE DEF r, expiry
<1>6. CASE all
  <2>1. r.last = Len(locks)
    BY <1>4, <1>6
  <2>2. ASSUME ~isShutdown, NEW i \in (done + 1) .. r.last
        PROVE  locks[i].unlockTime <= now + rewardsDuration
    <3>1. LastOf(locks).unlockTime <= expiry
      BY <1>6, <2>2
    <3>2. i \in 1 .. Len(locks) /\ Len(locks) \in 1 .. Len(locks) /\ DOMAIN locks = 1 .. Len(locks)
      BY <1>1, <2>1, <2>2, LenProperties
    <3>3. locks[i].unlockTime \in Nat /\ locks[Len(locks)].unlockTime \in Nat
      BY <1>1, <3>2, RecordTypes
    <3>4. i < Len(locks) => locks[i].unlockTime < locks[Len(locks)].unlockTime
      BY <3>2 DEF LocksSorted
    <3> QED
      BY <1>1, <1>3, <3>1, <3>2, <3>3, <3>4, Durations DEF LastOf
  <2> QED
    BY <1>1, <1>2, <2>1, <2>2 DEF r
<1>7. CASE ~all
  <2>1. r.last = LastExpired(locks, done, expiry)
    BY <1>4, <1>5, <1>7
  <2>2. /\ r.last \in done .. Len(locks)
        /\ \A i \in (done + 1) .. r.last : locks[i].unlockTime <= expiry
    BY <1>1, <1>3, <2>1, ScanStops
  <2>3. ASSUME NEW i \in (done + 1) .. r.last
        PROVE  locks[i].unlockTime <= now + rewardsDuration
    <3>1. i \in 1 .. Len(locks)
      BY <1>1, <2>2
    <3>2. locks[i].unlockTime \in Nat /\ locks[i].unlockTime <= expiry
      BY <1>1, <2>2, <3>1, RecordTypes
    <3>3. now \in Nat /\ rewardsDuration \in Nat
      BY <1>1, Durations
    <3> HIDE DEF locks, expiry
    <3> QED
      BY <1>3, <3>2, <3>3
  <2> QED
    BY <1>1, <1>2, <2>2, <2>3 DEF r
<1> QED
  BY <1>6, <1>7
-----------------------------------------------------------------------------
(* The inductive invariant.  What has been processed is not part of what   *)
(* the runs check; without it a new lock could fall into a record that is  *)
(* done.                                                                   *)

IInv == TypeOK /\ VaultHoldsSupply /\ ListsSorted /\ ProcessedAreOver

(* The same, by the variables it is about.                                 *)
EpochInv == EpochType /\ EpochsConsecutive
BookInv  == BookType /\ LocksSorted /\ ProcessedAreOver
VoteInv  == VoteType /\ CheckpointsSorted
TokenInv == TokenType /\ VaultHoldsSupply

(* The invariant, by the state it speaks of.                               *)
LEMMA InvParts ==
  IInv <=> /\ ClockType /\ EpochInv /\ BookInv /\ VoteInv /\ ConfigType
           /\ StreamType /\ AccrueType /\ TokenInv /\ RewardVaultType
  BY TypeParts DEF IInv, ListsSorted, EpochInv, BookInv, VoteInv, TokenInv

(* The same, after a step.                                                 *)
LEMMA NextInvParts ==
  ASSUME ClockType', EpochInv', BookInv', VoteInv', ConfigType', StreamType', AccrueType',
         TokenInv', RewardVaultType'
  PROVE  IInv'
  BY DEF IInv, TypeOK, ListsSorted, EpochInv, BookInv, VoteInv, TokenInv, ClockType, EpochType,
     EpochRecords, BookType, VoteType, ConfigType, StreamType, RewardRecords, PaidRecords, AccrueType,
     TokenType, RewardVaultType

(* What a step leaves alone stays true of what it is about.                *)
LEMMA EpochFrame ==
  ASSUME EpochInv, now' = now, epochs' = epochs
  PROVE  EpochInv'
  BY DEF EpochInv, EpochType, EpochsConsecutive, currentEpoch

(* Steps that leave the locks alone keep what holds of them.               *)
LEMMA BookFrame ==
  ASSUME BookInv, now' = now, UNCHANGED lockVars, isShutdown' = isShutdown
  PROVE  BookInv'
  BY DEF BookInv, BookType, LocksSorted, ProcessedAreOver, currentEpoch, lockVars

(* Steps that leave the votes alone keep what holds of them.               *)
LEMMA VoteFrame ==
  ASSUME VoteInv, now' = now, UNCHANGED voteVars
  PROVE  VoteInv'
  BY DEF VoteInv, VoteType, CheckpointsSorted, upcomingEpoch, voteVars

(* And so for every other part of the state.                               *)
LEMMA OtherFrames ==
  /\ ClockType /\ now' = now => ClockType'
  /\ ConfigType /\ UNCHANGED configVars => ConfigType'
  /\ StreamType /\ UNCHANGED streamVars => StreamType'
  /\ AccrueType /\ UNCHANGED accrueVars => AccrueType'
  /\ TokenInv /\ UNCHANGED <<tokenVars, lockedSupply>> => TokenInv'
  /\ RewardVaultType /\ UNCHANGED rewardVault => RewardVaultType'
  BY DEF ClockType, ConfigType, configVars, StreamType, streamVars, AccrueType, accrueVars,
     TokenInv, TokenType, VaultHoldsSupply, tokenVars, RewardVaultType

-----------------------------------------------------------------------------
(* What a step does to the lock book: lists grow at the end or in their    *)
(* last record, and indices move on over records that are over.            *)

ListsKept ==
  /\ userLocks' \in [Accounts -> Seq(LockRecords)]
  /\ \A x \in Accounts :
       /\ InOrder(userLocks'[x])
       /\ Len(userLocks[x]) <= Len(userLocks'[x])
       /\ \A i \in 1 .. Len(userLocks[x]) :
            isShutdown \/ userLocks[x][i].unlockTime < UnlockTime
              => userLocks'[x][i] = userLocks[x][i]

IndicesAdvance ==
  \A x \in Accounts :
    /\ balances[x].nextUnlockIndex <= balances'[x].nextUnlockIndex
    /\ balances'[x].nextUnlockIndex <= Len(userLocks[x])
    /\ ~isShutdown =>
         \A i \in (balances[x].nextUnlockIndex + 1) .. balances'[x].nextUnlockIndex :
           userLocks[x][i].unlockTime <= now + rewardsDuration

ProcessedStay ==
  \A a \in Accounts :
    /\ balances[a].nextUnlockIndex <= balances[a].nextUnlockIndex'
    /\ \A i \in 1 .. balances[a].nextUnlockIndex : userLocks'[a][i] = userLocks[a][i]

BalancesType == balances \in [Accounts -> [locked : Nat, nextUnlockIndex : Nat]]

(* Lists that stay as they are are kept.                                   *)
LEMMA UnchangedLists ==
  ASSUME BookInv, userLocks' = userLocks
  PROVE  ListsKept
  BY OrderParts DEF BookInv, BookType, ListsKept

(* Lists that are kept, with indices that only advance, keep the book in   *)
(* order and what was processed processed.                                 *)
LEMMA BookKeeps ==
  ASSUME ClockType, BookInv, now' = now, isShutdown' = isShutdown,
         BalancesType', lockedSupply' \in Nat, ListsKept, IndicesAdvance
  PROVE  BookInv' /\ ProcessedStay
<1>1. /\ now \in Nat /\ currentEpoch \in Nat /\ now < currentEpoch + rewardsDuration
      /\ UnlockTime = currentEpoch + lockDuration
      /\ rewardsDuration \in Nat /\ lockDuration \in Nat /\ 2 * rewardsDuration <= lockDuration
  BY Dates, Durations DEF ClockType, EpochDates
<1>2. now + rewardsDuration < UnlockTime
  BY <1>1
<1>3. BookType'
  BY DEF BookType, BalancesType, ListsKept
<1>4. ASSUME NEW x \in Accounts
      PROVE  /\ Len(userLocks[x]) \in Nat /\ Len(userLocks'[x]) \in Nat
             /\ balances[x].nextUnlockIndex \in Nat /\ balances'[x].nextUnlockIndex \in Nat
             /\ balances[x].nextUnlockIndex <= balances'[x].nextUnlockIndex
             /\ balances'[x].nextUnlockIndex <= Len(userLocks[x])
             /\ Len(userLocks[x]) <= Len(userLocks'[x])
             /\ \A i \in 1 .. Len(userLocks[x]) : userLocks[x][i].unlockTime \in Nat
  <2>1. userLocks[x] \in Seq(LockRecords) /\ userLocks'[x] \in Seq(LockRecords)
    BY DEF BookInv, BookType, ListsKept
  <2>2. /\ Len(userLocks[x]) \in Nat /\ Len(userLocks'[x]) \in Nat
        /\ \A i \in 1 .. Len(userLocks[x]) : userLocks[x][i].unlockTime \in Nat
    BY <2>1, RecordTypes
  <2>3. balances[x].nextUnlockIndex \in Nat /\ balances'[x].nextUnlockIndex \in Nat
    BY DEF BookInv, BookType, BalancesType
  <2> QED
    BY <2>2, <2>3 DEF ListsKept, IndicesAdvance
<1>5. ASSUME ~isShutdown, NEW x \in Accounts, NEW i \in 1 .. balances'[x].nextUnlockIndex
      PROVE  /\ i \in 1 .. Len(userLocks[x])
             /\ userLocks[x][i].unlockTime <= now + rewardsDuration
             /\ userLocks'[x][i] = userLocks[x][i]
  <2>1. i \in 1 .. Len(userLocks[x])
    BY <1>4
  <2>2. userLocks[x][i].unlockTime <= now + rewardsDuration
    <3>1. CASE i <= balances[x].nextUnlockIndex
      <4>1. i \in 1 .. balances[x].nextUnlockIndex
        BY <1>4, <3>1
      <4> QED
        BY <1>5, <4>1 DEF BookInv, ProcessedAreOver
    <3>2. CASE ~(i <= balances[x].nextUnlockIndex)
      <4>1. i \in (balances[x].nextUnlockIndex + 1) .. balances'[x].nextUnlockIndex
        BY <1>4, <3>2
      <4> QED
        BY <1>5, <4>1 DEF IndicesAdvance
    <3> QED
      BY <3>1, <3>2
  <2>3. userLocks[x][i].unlockTime < UnlockTime
    BY <1>1, <1>2, <1>4, <2>1, <2>2
  <2> QED
    BY <2>1, <2>2, <2>3 DEF ListsKept
<1>6. LocksSorted'
  <2>1. currentEpoch' = currentEpoch
    BY DEF currentEpoch
  <2>2. \A x \in Accounts : balances'[x].nextUnlockIndex <= Len(userLocks'[x])
    BY <1>4
  <2> QED
    BY <2>1, <2>2 DEF LocksSorted, ListsKept, InOrder
<1>7. ProcessedAreOver'
  BY <1>5 DEF ProcessedAreOver
<1>8. ProcessedStay
  <2> SUFFICES ASSUME NEW x \in Accounts
               PROVE  \A i \in 1 .. balances[x].nextUnlockIndex : userLocks'[x][i] = userLocks[x][i]
    BY <1>4 DEF ProcessedStay
  <2> SUFFICES ASSUME NEW i \in 1 .. balances[x].nextUnlockIndex
               PROVE  userLocks'[x][i] = userLocks[x][i]
    OBVIOUS
  <2>1. i \in 1 .. balances'[x].nextUnlockIndex /\ i \in 1 .. Len(userLocks[x])
    BY <1>4
  <2>2. CASE isShutdown
    BY <2>1, <2>2 DEF ListsKept
  <2>3. CASE ~isShutdown
    BY <1>5, <2>1, <2>3
  <2> QED
    BY <2>2, <2>3
<1> QED
  BY <1>3, <1>6, <1>7, <1>8 DEF BookInv

(* A book that stays as it is keeps what was processed.                    *)
LEMMA UnchangedBook ==
  ASSUME BookInv, userLocks' = userLocks, balances' = balances
  PROVE  ProcessedStay
  BY DEF BookInv, BookType, ProcessedStay

-----------------------------------------------------------------------------
(* The two writes handlers share.                                          *)

(* The checkpoint of a delegatee on release keeps its list in order        *)
(* (_checkpointDelegate).                                                  *)
LEMMA DelegateeKeeps ==
  ASSUME ClockType, VoteInv, NEW a \in Accounts, NEW relock, NEW delay,
         CanRelease(a, relock, delay)
  PROVE  /\ CheckpointedDelegatee(a) \in [Delegatees -> Seq(Checkpoints)]
         /\ \A d \in Delegatees : CheckpointsInOrder(CheckpointedDelegatee(a)[d])
<1>1. /\ checkpointedVotes \in [Delegatees -> Seq(Checkpoints)]
      /\ \A d \in Delegatees : CheckpointsInOrder(checkpointedVotes[d])
  BY OrderParts DEF VoteInv, VoteType
<1>2. CASE delegates[a] = NoOne
  BY <1>1, <1>2 DEF CheckpointedDelegatee
<1>3. CASE delegates[a] # NoOne
  <2> DEFINE d == delegates[a]
  <2> DEFINE new == Checkpoint(checkpointedVotes[d], delegateeUnlocks[d], 0, 0)
  <2>1. d \in Delegatees
    BY <1>3 DEF VoteInv, VoteType
  <2>2. CanCheckpoint(checkpointedVotes[d], delegateeUnlocks[d], 0, 0)
    BY <1>3 DEF CanRelease
  <2>3. new \in Seq(Checkpoints) /\ CheckpointsInOrder(new)
    BY <1>1, <2>1, <2>2, CheckpointKeeps
  <2>4. CheckpointedDelegatee(a) = [checkpointedVotes EXCEPT ![d] = new]
    BY <1>3 DEF CheckpointedDelegatee
  <2> HIDE DEF new
  <2> QED
    BY <1>1, <2>1, <2>3, <2>4
<1> QED
  BY <1>2, <1>3

(* Lists of checkpoints that are in order and not of the future stay so.   *)
LEMMA CheckpointsKept ==
  ASSUME now' = now, checkpointedVotes' \in [Delegatees -> Seq(Checkpoints)],
         \A d \in Delegatees : CheckpointsInOrder(checkpointedVotes'[d])
  PROVE  CheckpointsSorted'
<1>1. upcomingEpoch' = upcomingEpoch
  BY DEF upcomingEpoch
<1> QED
  BY <1>1 DEF CheckpointsSorted, CheckpointsInOrder

(* Epochs that follow each other stay so.                                  *)
LEMMA EpochsKept ==
  ASSUME now' = now, epochs' \in Seq(EpochRecords), epochs' # <<>>, Consecutive(epochs')
  PROVE  EpochInv'
<1>1. currentEpoch' = currentEpoch
  BY DEF currentEpoch
<1> QED
  BY <1>1 DEF EpochInv, EpochType, EpochsConsecutive, Consecutive, LastOf

(* Recording a lock keeps epochs, votes and lists in order (_lock).        *)
LEMMA RecordLockKeeps ==
  ASSUME ClockType, EpochInv, BookInv, VoteInv, NEW a \in Accounts, NEW amount \in Nat,
         NEW ckpts \in [Delegatees -> Seq(Checkpoints)],
         \A d \in Delegatees : CheckpointsInOrder(ckpts[d]),
         RecordLock(a, amount, ckpts), now' = now, delegates' = delegates
  PROVE  EpochInv' /\ VoteInv' /\ ListsKept
<1>1. EpochInv'
  <2>1. EpochType /\ Consecutive(epochs)
    BY DEF EpochInv, EpochsConsecutive, Consecutive
  <2>2. /\ CheckpointedEpochs \in Seq(EpochRecords) /\ CheckpointedEpochs # <<>>
        /\ Consecutive(CheckpointedEpochs)
    BY <2>1, EpochsFilled
  <2>3. epochs' = AddToLastEpoch(CheckpointedEpochs, amount)
    BY DEF RecordLock
  <2>4. epochs' \in Seq(EpochRecords) /\ epochs' # <<>> /\ Consecutive(epochs')
    BY <2>2, <2>3, AddToLastKeeps
  <2> QED
    BY <2>4, EpochsKept
<1>2. ListsKept
  <2> DEFINE new == AddLock(userLocks[a], amount, UnlockTime)
  <2>1. /\ userLocks \in [Accounts -> Seq(LockRecords)] /\ \A x \in Accounts : InOrder(userLocks[x])
        /\ ~isShutdown
    BY OrderParts DEF BookInv, BookType, RecordLock
  <2>2. userLocks' = [userLocks EXCEPT ![a] = new]
    BY DEF RecordLock
  <2>3. DOMAIN userLocks[a] = 1 .. Len(userLocks[a])
    BY <2>1, RecordTypes
  <2>4. /\ new \in Seq(LockRecords) /\ InOrder(new) /\ Len(userLocks[a]) <= Len(new)
        /\ \A i \in 1 .. Len(userLocks[a]) :
             userLocks[a][i].unlockTime < UnlockTime => new[i] = userLocks[a][i]
    BY <2>1, <2>3, AddLockKeeps
  <2> HIDE DEF new
  <2>5. userLocks' \in [Accounts -> Seq(LockRecords)]
    BY <2>1, <2>2, <2>4
  <2>6. ASSUME NEW x \in Accounts
        PROVE  /\ InOrder(userLocks'[x]) /\ Len(userLocks[x]) <= Len(userLocks'[x])
               /\ \A i \in 1 .. Len(userLocks[x]) :
                    isShutdown \/ userLocks[x][i].unlockTime < UnlockTime
                      => userLocks'[x][i] = userLocks[x][i]
    <3>1. CASE x = a
      BY <2>1, <2>2, <2>4, <3>1
    <3>2. CASE x # a
      <4>1. userLocks'[x] = userLocks[x] /\ Len(userLocks[x]) \in Nat
        BY <2>1, <2>2, <3>2, RecordTypes
      <4> QED
        BY <2>1, <4>1
    <3> QED
      BY <3>1, <3>2
  <2> QED
    BY <2>5, <2>6 DEF ListsKept
<1>3. VoteInv'
  <2>1. /\ delegates \in [Accounts -> Delegatees \cup {NoOne}]
        /\ delegateeUnlocks \in [Delegatees -> [EpochDates -> Nat]]
    BY DEF VoteInv, VoteType
  <2>2. CASE delegates[a] = NoOne
    <3>1. delegateeUnlocks' = delegateeUnlocks /\ checkpointedVotes' = ckpts
      BY <2>2 DEF RecordLock
    <3> QED
      BY <2>1, <3>1, CheckpointsKept DEF VoteInv, VoteType
  <2>3. CASE delegates[a] # NoOne
    <3> DEFINE d == delegates[a]
    <3> DEFINE unlocks == delegateeUnlocks'[d]
    <3> DEFINE new == Checkpoint(ckpts[d], unlocks, amount, 0)
    <3>1. d \in Delegatees
      BY <2>1, <2>3
    <3>2. /\ delegateeUnlocks' = [delegateeUnlocks EXCEPT ![d][UnlockTime] = @ + amount]
          /\ CanCheckpoint(ckpts[d], unlocks, amount, 0)
          /\ checkpointedVotes' = [ckpts EXCEPT ![d] = new]
      BY <2>3 DEF RecordLock
    <3>3. UnlockTime \in EpochDates
      BY Dates DEF ClockType
    <3>4. delegateeUnlocks' \in [Delegatees -> [EpochDates -> Nat]]
      BY <2>1, <3>1, <3>2, <3>3
    <3> HIDE DEF unlocks
    <3>5. new \in Seq(Checkpoints) /\ CheckpointsInOrder(new)
      BY <3>1, <3>2, CheckpointKeeps
    <3> HIDE DEF new
    <3>6. /\ checkpointedVotes' \in [Delegatees -> Seq(Checkpoints)]
          /\ \A x \in Delegatees : CheckpointsInOrder(checkpointedVotes'[x])
      BY <3>1, <3>2, <3>5
    <3> QED
      BY <2>1, <3>4, <3>6, CheckpointsKept DEF VoteInv, VoteType
  <2> QED
    BY <2>2, <2>3
<1> QED
  BY <1>1, <1>2, <1>3
-----------------------------------------------------------------------------
(* One lemma per handler.                                                  *)

(* lock keeps the invariant.                                               *)
LEMMA LockStep ==
  ASSUME IInv, NEW sender \in Accounts, NEW a \in Accounts, NEW amount \in LockAmounts,
         Lock(sender, a, amount)
  PROVE  IInv' /\ ProcessedStay
<1> USE InvParts
<1>1. /\ amount \in Nat /\ now' = now /\ delegates' = delegates /\ isShutdown' = isShutdown
      /\ UNCHANGED configVars /\ UNCHANGED streamVars /\ rewardVault' = rewardVault
      /\ amount <= wallet[sender]
      /\ UpdateReward(a) /\ RecordLock(a, amount, checkpointedVotes)
      /\ wallet' = [wallet EXCEPT ![sender] = @ - amount]
      /\ vault' = vault + amount
      /\ balances' = [balances EXCEPT ![a].locked = @ + amount]
      /\ lockedSupply' = lockedSupply + amount
  BY AmountAssumption DEF Lock, configVars
<1>2. /\ checkpointedVotes \in [Delegatees -> Seq(Checkpoints)]
      /\ \A d \in Delegatees : CheckpointsInOrder(checkpointedVotes[d])
  BY OrderParts DEF VoteInv, VoteType
<1>3. EpochInv' /\ VoteInv' /\ ListsKept
  BY <1>1, <1>2, RecordLockKeeps
<1>4. BookInv' /\ ProcessedStay
  <2>1. /\ balances \in [Accounts -> [locked : Nat, nextUnlockIndex : Nat]] /\ lockedSupply \in Nat
        /\ \A x \in Accounts : balances[x].nextUnlockIndex <= Len(userLocks[x])
    BY DEF BookInv, BookType, LocksSorted
  <2>2. BalancesType' /\ lockedSupply' \in Nat
    BY <1>1, <2>1 DEF BalancesType
  <2>3. \A x \in Accounts : /\ balances'[x].nextUnlockIndex = balances[x].nextUnlockIndex
                            /\ balances[x].nextUnlockIndex \in Nat
    BY <1>1, <2>1
  <2>4. IndicesAdvance
    BY <2>1, <2>3 DEF IndicesAdvance
  <2> QED
    BY <1>1, <1>3, <2>2, <2>4, BookKeeps
<1>5. AccrueType'
  BY <1>1, UpdateRewardType DEF BookInv
<1>6. TokenInv'
  <2>1. wallet \in [Accounts -> Nat] /\ vault \in Nat /\ vault = lockedSupply
    BY DEF TokenInv, TokenType, VaultHoldsSupply
  <2> QED
    BY <1>1, <2>1 DEF TokenInv, TokenType, VaultHoldsSupply
<1> QED
  BY <1>1, <1>3, <1>4, <1>5, <1>6, OtherFrames, NextInvParts

(* checkpointEpoch keeps the invariant.                                    *)
LEMMA CheckpointEpochStep ==
  ASSUME IInv, CheckpointEpoch
  PROVE  IInv' /\ ProcessedStay
<1> USE InvParts
<1>1. EpochInv'
  <2>1. EpochType /\ Consecutive(epochs)
    BY DEF EpochInv, EpochsConsecutive, Consecutive
  <2> QED
    BY <2>1, EpochsFilled, EpochsKept DEF CheckpointEpoch
<1>2. /\ now' = now /\ balances' = balances /\ userLocks' = userLocks
      /\ lockedSupply' = lockedSupply /\ isShutdown' = isShutdown
      /\ UNCHANGED voteVars /\ UNCHANGED configVars /\ UNCHANGED streamVars /\ UNCHANGED accrueVars
      /\ UNCHANGED tokenVars /\ rewardVault' = rewardVault
  BY DEF CheckpointEpoch, configVars
<1>3. BookInv' /\ ProcessedStay
  BY <1>2, UnchangedBook
     DEF BookInv, BookType, LocksSorted, ProcessedAreOver, currentEpoch
<1> QED
  BY <1>1, <1>2, <1>3, VoteFrame, OtherFrames, NextInvParts

(* The indices move over what Release says is done.                        *)
LEMMA ReleaseAdvances ==
  ASSUME ClockType, BookInv, NEW a \in Accounts, NEW relock \in BOOLEAN, NEW delay \in Nat,
         CanRelease(a, relock, delay), BalancesType',
         balances'[a].nextUnlockIndex = Release(a, relock, delay).last,
         \A x \in Accounts \ {a} : balances'[x] = balances[x]
  PROVE  IndicesAdvance
<1>1. /\ \A x \in Accounts : /\ balances[x].nextUnlockIndex \in Nat
                             /\ balances[x].nextUnlockIndex <= Len(userLocks[x])
  BY DEF BookInv, BookType, LocksSorted
<1>2. /\ balances[a].nextUnlockIndex <= balances'[a].nextUnlockIndex
      /\ balances'[a].nextUnlockIndex <= Len(userLocks[a])
      /\ ~isShutdown =>
           \A i \in (balances[a].nextUnlockIndex + 1) .. balances'[a].nextUnlockIndex :
             userLocks[a][i].unlockTime <= now + rewardsDuration
  BY ReleaseFacts DEF BookInv
<1> SUFFICES ASSUME NEW x \in Accounts
             PROVE  /\ balances[x].nextUnlockIndex <= balances'[x].nextUnlockIndex
                    /\ balances'[x].nextUnlockIndex <= Len(userLocks[x])
                    /\ ~isShutdown =>
                         \A i \in (balances[x].nextUnlockIndex + 1) .. balances'[x].nextUnlockIndex :
                           userLocks[x][i].unlockTime <= now + rewardsDuration
  BY DEF IndicesAdvance
<1>3. CASE x = a
  BY <1>2, <1>3
<1>4. CASE x # a
  BY <1>1, <1>4
<1> QED
  BY <1>3, <1>4

(* processExpiredLocks and kickExpiredLocks keep the invariant when they   *)
(* pay out.                                                                *)
LEMMA WithdrawStep ==
  ASSUME IInv, NEW a \in Accounts, NEW keeper \in Accounts, NEW delay \in Nat,
         Withdraw(a, keeper, delay)
  PROVE  IInv' /\ ProcessedStay
<1> USE InvParts
<1> DEFINE r == Release(a, FALSE, delay)
<1>1. /\ now' = now /\ epochs' = epochs /\ userLocks' = userLocks /\ isShutdown' = isShutdown
      /\ delegates' = delegates /\ delegateeUnlocks' = delegateeUnlocks
      /\ UNCHANGED configVars /\ UNCHANGED streamVars /\ rewardVault' = rewardVault
      /\ CanRelease(a, FALSE, delay) /\ UpdateReward(a)
      /\ balances' = [balances EXCEPT ![a] = [locked |-> balances[a].locked - r.amount,
                                              nextUnlockIndex |-> r.last]]
      /\ lockedSupply' = lockedSupply - r.amount
      /\ vault' = vault - r.amount
      /\ wallet' = [wallet EXCEPT ![keeper] = @ + r.reward, ![a] = @ + r.amount - r.reward]
      /\ checkpointedVotes' = CheckpointedDelegatee(a)
  BY DEF Withdraw, configVars
<1>2. /\ r.last \in Nat /\ r.amount \in Nat /\ r.amount <= balances[a].locked
      /\ r.amount <= lockedSupply /\ r.amount <= vault
      /\ r.reward \in Nat /\ r.reward <= r.amount
  BY <1>1, ReleaseFacts DEF BookInv
<1>3. /\ balances \in [Accounts -> [locked : Nat, nextUnlockIndex : Nat]] /\ lockedSupply \in Nat
      /\ wallet \in [Accounts -> Nat] /\ vault \in Nat /\ vault = lockedSupply
  BY DEF BookInv, BookType, TokenInv, TokenType, VaultHoldsSupply
<1> HIDE DEF r
<1>4. BookInv' /\ ProcessedStay
  <2>1. BalancesType' /\ lockedSupply' \in Nat
    BY <1>1, <1>2, <1>3 DEF BalancesType
  <2>2. balances'[a].nextUnlockIndex = r.last /\ \A x \in Accounts \ {a} : balances'[x] = balances[x]
    BY <1>1, <1>3
  <2>3. IndicesAdvance
    BY <1>1, <2>1, <2>2, ReleaseAdvances DEF r
  <2> QED
    BY <1>1, <2>1, <2>3, UnchangedLists, BookKeeps
<1>5. TokenInv'
  <2>1. wallet' \in [Accounts -> Nat]
    BY <1>1, <1>2, <1>3
  <2> QED
    BY <1>1, <1>2, <1>3, <2>1 DEF TokenInv, TokenType, VaultHoldsSupply
<1>6. VoteInv'
  <2>1. /\ checkpointedVotes' \in [Delegatees -> Seq(Checkpoints)]
        /\ \A d \in Delegatees : CheckpointsInOrder(checkpointedVotes'[d])
    BY <1>1, DelegateeKeeps
  <2> QED
    BY <1>1, <2>1, CheckpointsKept DEF VoteInv, VoteType
<1>7. AccrueType'
  BY <1>1, UpdateRewardType DEF BookInv
<1> QED
  BY <1>1, <1>4, <1>5, <1>6, <1>7, EpochFrame, OtherFrames, NextInvParts

(* processExpiredLocks keeps the invariant when it locks again.            *)
LEMMA RelockStep ==
  ASSUME IInv, NEW a \in Accounts, RelockExpiredLocks(a)
  PROVE  IInv' /\ ProcessedStay
<1> USE InvParts
<1> DEFINE r == Release(a, TRUE, 0)
<1>1. /\ now' = now /\ delegates' = delegates /\ isShutdown' = isShutdown
      /\ lockedSupply' = lockedSupply
      /\ UNCHANGED configVars /\ UNCHANGED streamVars /\ rewardVault' = rewardVault
      /\ UNCHANGED tokenVars
      /\ CanRelease(a, TRUE, 0) /\ UpdateReward(a)
      /\ balances' = [balances EXCEPT ![a].nextUnlockIndex = r.last]
      /\ RecordLock(a, r.amount, CheckpointedDelegatee(a))
  BY DEF RelockExpiredLocks, configVars
<1>2. r.last \in Nat /\ r.amount \in Nat
  BY <1>1, ReleaseFacts DEF BookInv
<1>3. /\ balances \in [Accounts -> [locked : Nat, nextUnlockIndex : Nat]] /\ lockedSupply \in Nat
  BY DEF BookInv, BookType
<1> HIDE DEF r
<1>4. EpochInv' /\ VoteInv' /\ ListsKept
  <2>1. /\ CheckpointedDelegatee(a) \in [Delegatees -> Seq(Checkpoints)]
        /\ \A d \in Delegatees : CheckpointsInOrder(CheckpointedDelegatee(a)[d])
    BY <1>1, DelegateeKeeps
  <2> QED
    BY <1>1, <1>2, <2>1, RecordLockKeeps
<1>5. BookInv' /\ ProcessedStay
  <2>1. BalancesType' /\ lockedSupply' \in Nat
    BY <1>1, <1>2, <1>3 DEF BalancesType
  <2>2. balances'[a].nextUnlockIndex = r.last /\ \A x \in Accounts \ {a} : balances'[x] = balances[x]
    BY <1>1, <1>3
  <2>3. IndicesAdvance
    BY <1>1, <2>1, <2>2, ReleaseAdvances DEF r
  <2> QED
    BY <1>1, <1>4, <2>1, <2>3, BookKeeps
<1>6. AccrueType'
  BY <1>1, UpdateRewardType DEF BookInv
<1> QED
  BY <1>1, <1>4, <1>5, <1>6, OtherFrames, NextInvParts

(* emergencyWithdraw keeps the invariant.                                  *)
LEMMA EmergencyWithdrawStep ==
  ASSUME IInv, NEW a \in Accounts, EmergencyWithdraw(a)
  PROVE  IInv' /\ ProcessedStay
<1> USE InvParts
<1>1. /\ now' = now /\ epochs' = epochs /\ userLocks' = userLocks /\ isShutdown' = isShutdown
      /\ UNCHANGED voteVars /\ UNCHANGED configVars /\ UNCHANGED streamVars /\ UNCHANGED accrueVars
      /\ rewardVault' = rewardVault
      /\ isShutdown /\ 0 < balances[a].locked
      /\ balances[a].locked <= lockedSupply /\ balances[a].locked <= vault
      /\ balances' = [balances EXCEPT ![a] = [locked |-> 0, nextUnlockIndex |-> Len(userLocks[a])]]
      /\ lockedSupply' = lockedSupply - balances[a].locked
      /\ vault' = vault - balances[a].locked
      /\ wallet' = [wallet EXCEPT ![a] = @ + balances[a].locked]
  BY DEF EmergencyWithdraw, configVars
<1>2. /\ balances \in [Accounts -> [locked : Nat, nextUnlockIndex : Nat]] /\ lockedSupply \in Nat
      /\ wallet \in [Accounts -> Nat] /\ vault \in Nat /\ vault = lockedSupply
      /\ \A x \in Accounts : balances[x].nextUnlockIndex <= Len(userLocks[x])
      /\ userLocks \in [Accounts -> Seq(LockRecords)]
  BY DEF BookInv, BookType, LocksSorted, TokenInv, TokenType, VaultHoldsSupply
<1>3. \A x \in Accounts : Len(userLocks[x]) \in Nat /\ balances[x].locked \in Nat
                          /\ balances[x].nextUnlockIndex \in Nat
  BY <1>2, RecordTypes
<1>4. BookInv' /\ ProcessedStay
  <2>1. BalancesType' /\ lockedSupply' \in Nat
    BY <1>1, <1>2, <1>3 DEF BalancesType
  <2>2. \A x \in Accounts : balances'[x].nextUnlockIndex =
          IF x = a THEN Len(userLocks[a]) ELSE balances[x].nextUnlockIndex
    BY <1>1, <1>2
  <2>3. IndicesAdvance
    BY <1>1, <1>2, <1>3, <2>2 DEF IndicesAdvance
  <2> QED
    BY <1>1, <2>1, <2>3, UnchangedLists, BookKeeps
<1>5. TokenInv'
  <2>1. wallet' \in [Accounts -> Nat]
    BY <1>1, <1>2, <1>3
  <2> QED
    BY <1>1, <1>2, <1>3, <2>1 DEF TokenInv, TokenType, VaultHoldsSupply
<1> QED
  BY <1>1, <1>4, <1>5, EpochFrame, VoteFrame, OtherFrames, NextInvParts
(* delegate keeps the invariant.                                           *)
LEMMA DelegateStep ==
  ASSUME IInv, NEW a \in Accounts, NEW d \in Delegatees, Delegate(a, d)
  PROVE  IInv' /\ ProcessedStay
<1> USE InvParts
<1> DEFINE old == delegates[a]
<1> DEFINE sum == AmountOf(userLocks[a], FutureLocks(a))
<1> DEFINE moved == [t \in EpochDates |-> FutureUnlockAt(a, t)]
<1> DEFINE gain(x) == IF x = d THEN sum ELSE 0
<1> DEFINE drop(x) == IF x = old THEN sum ELSE 0
<1> DEFINE new(x) == Checkpoint(checkpointedVotes[x], delegateeUnlocks'[x], gain(x), drop(x))
<1>1. /\ now' = now /\ UNCHANGED lockVars /\ isShutdown' = isShutdown
      /\ UNCHANGED configVars /\ UNCHANGED streamVars /\ UNCHANGED accrueVars
      /\ UNCHANGED tokenVars /\ rewardVault' = rewardVault
      /\ delegates' = [delegates EXCEPT ![a] = d]
      /\ old # NoOne => \A t \in EpochDates : moved[t] <= delegateeUnlocks[old][t]
      /\ delegateeUnlocks' =
           [x \in Delegatees |-> [t \in EpochDates |->
              delegateeUnlocks[x][t] - (IF x = old THEN moved[t] ELSE 0)
                                     + (IF x = d THEN moved[t] ELSE 0)]]
      /\ \A x \in {old, d} \ {NoOne} :
           CanCheckpoint(checkpointedVotes[x], delegateeUnlocks'[x], gain(x), drop(x))
      /\ checkpointedVotes' = [x \in Delegatees |->
           IF x \in {old, d} THEN new(x) ELSE checkpointedVotes[x]]
  BY DEF Delegate, configVars
<1>2. /\ delegates \in [Accounts -> Delegatees \cup {NoOne}]
      /\ delegateeUnlocks \in [Delegatees -> [EpochDates -> Nat]]
      /\ checkpointedVotes \in [Delegatees -> Seq(Checkpoints)]
      /\ \A x \in Delegatees : CheckpointsInOrder(checkpointedVotes[x])
  BY OrderParts DEF VoteInv, VoteType
<1>3. \A t \in EpochDates : moved[t] \in Nat
  <2> SUFFICES ASSUME NEW t \in EpochDates PROVE FutureUnlockAt(a, t) \in Nat
    OBVIOUS
  <2> DEFINE dated == {i \in FutureLocks(a) : userLocks[a][i].unlockTime = t}
  <2>1. CASE dated = {}
    BY <2>1 DEF FutureUnlockAt
  <2>2. CASE dated # {}
    <3> DEFINE i == CHOOSE j \in dated : TRUE
    <3>1. i \in dated
      BY <2>2
    <3>2. FutureUnlockAt(a, t) = userLocks[a][i].amount
      BY <2>2 DEF FutureUnlockAt
    <3> HIDE DEF i
    <3>3. userLocks[a] \in Seq(LockRecords) /\ i \in DOMAIN userLocks[a]
      BY <3>1 DEF FutureLocks, BookInv, BookType
    <3> QED
      BY <3>2, <3>3, RecordTypes
  <2> QED
    BY <2>1, <2>2
<1> HIDE DEF moved, sum
<1>4. delegateeUnlocks' \in [Delegatees -> [EpochDates -> Nat]]
  <2> SUFFICES ASSUME NEW x \in Delegatees, NEW t \in EpochDates
               PROVE  delegateeUnlocks[x][t] - (IF x = old THEN moved[t] ELSE 0)
                        + (IF x = d THEN moved[t] ELSE 0) \in Nat
    BY <1>1
  <2>1. delegateeUnlocks[x][t] \in Nat /\ moved[t] \in Nat
    BY <1>2, <1>3
  <2>2. x = old => moved[t] <= delegateeUnlocks[x][t]
    BY <1>1, AddressAssumption
  <2> QED
    BY <2>1, <2>2
<1>5. ASSUME NEW x \in Delegatees, x \in {old, d}
      PROVE  new(x) \in Seq(Checkpoints) /\ CheckpointsInOrder(new(x))
  <2>1. CanCheckpoint(checkpointedVotes[x], delegateeUnlocks'[x], gain(x), drop(x))
    BY <1>1, <1>5, AddressAssumption
  <2> QED
    BY <1>2, <2>1, CheckpointKeeps
<1> HIDE DEF new, gain, drop
<1>6. /\ checkpointedVotes' \in [Delegatees -> Seq(Checkpoints)]
      /\ \A x \in Delegatees : CheckpointsInOrder(checkpointedVotes'[x])
  BY <1>1, <1>2, <1>5
<1>7. VoteInv'
  BY <1>1, <1>2, <1>4, <1>6, CheckpointsKept DEF VoteInv, VoteType
<1>8. /\ epochs' = epochs /\ balances' = balances /\ userLocks' = userLocks
      /\ lockedSupply' = lockedSupply
  BY <1>1 DEF lockVars
<1>9. ProcessedStay
  BY <1>8, UnchangedBook
<1> QED
  BY <1>1, <1>7, <1>8, <1>9, EpochFrame, BookFrame, OtherFrames, NextInvParts

(* getReward keeps the invariant, whichever tokens are skipped.            *)
LEMMA GetRewardStep ==
  ASSUME IInv, NEW a \in Accounts, NEW skipped \in SUBSET rewardTokens, GetReward(a, skipped)
  PROVE  IInv' /\ ProcessedStay
<1> USE InvParts
<1> DEFINE paid == rewardTokens \ skipped
<1> DEFINE left == [t \in RewardTokens |->
                      [AccruedUserData(a)[t] EXCEPT !.rewards = IF t \in paid THEN 0 ELSE @]]
<1>1. /\ now' = now /\ UNCHANGED lockVars /\ UNCHANGED voteVars /\ isShutdown' = isShutdown
      /\ UNCHANGED configVars /\ UNCHANGED streamVars /\ UNCHANGED tokenVars
      /\ CanUpdateReward(a) /\ \A t \in paid : Earned(a, t) <= rewardVault[t]
      /\ rewardData' = AccruedRewardData
      /\ userData' = [userData EXCEPT ![a] = left]
      /\ rewardVault' = [t \in RewardTokens |-> rewardVault[t] - IF t \in paid THEN Earned(a, t) ELSE 0]
  BY DEF GetReward, configVars
<1>2. /\ epochs' = epochs /\ balances' = balances /\ userLocks' = userLocks
      /\ lockedSupply' = lockedSupply
  BY <1>1 DEF lockVars
<1>3. /\ AccruedRewardData \in [RewardTokens -> RewardRecords]
      /\ AccruedUserData(a) \in [RewardTokens -> PaidRecords]
      /\ \A t \in rewardTokens : Earned(a, t) \in Nat
  BY <1>1, AccrualType DEF BookInv
<1>4. left \in [RewardTokens -> PaidRecords]
  BY <1>3 DEF PaidRecords
<1> HIDE DEF left
<1>5. AccrueType'
  BY <1>1, <1>3, <1>4 DEF AccrueType
<1>6. RewardVaultType'
  BY <1>1, <1>3 DEF RewardVaultType
<1>7. ProcessedStay
  BY <1>2, UnchangedBook
<1> QED
  BY <1>1, <1>2, <1>5, <1>6, <1>7, EpochFrame, BookFrame, VoteFrame, OtherFrames, NextInvParts

(* A stream's rate is a natural number.                                    *)
LEMMA RateType ==
  ASSUME ClockType, AccrueType, NEW t \in RewardTokens, NEW reward \in Nat
  PROVE  NotifiedRate(t, reward) \in Nat
<1>1. now \in Nat /\ rewardData[t].periodFinish \in Nat /\ rewardData[t].rewardRate \in Nat
  BY Durations DEF ClockType, AccrueType, RewardRecords
<1>2. CASE now >= rewardData[t].periodFinish
  BY <1>2, Durations, DivIsFloor DEF NotifiedRate
<1>3. CASE ~(now >= rewardData[t].periodFinish)
  <2> DEFINE left == (rewardData[t].periodFinish - now) * rewardData[t].rewardRate
  <2>1. rewardData[t].periodFinish - now \in Nat
    BY <1>1, <1>3
  <2>2. left \in Nat
    BY <1>1, <2>1, ProductIsNat
  <2>3. NotifiedRate(t, reward) = (reward + left) \div rewardsDuration
    BY <1>3 DEF NotifiedRate
  <2> HIDE DEF left
  <2>4. reward + left \in Nat
    BY <2>2
  <2> QED
    BY <2>3, <2>4, Durations, DivIsFloor
<1> QED
  BY <1>2, <1>3

(* queueNewRewards keeps the invariant.                                    *)
LEMMA QueueNewRewardsStep ==
  ASSUME IInv, NEW dist, NEW t \in RewardTokens, NEW amount \in RewardAmounts,
         QueueNewRewards(dist, t, amount)
  PROVE  IInv' /\ ProcessedStay
<1> USE InvParts
<1> DEFINE total == amount + queuedRewards[t]
<1>1. /\ now' = now /\ UNCHANGED lockVars /\ UNCHANGED voteVars /\ isShutdown' = isShutdown
      /\ UNCHANGED configVars /\ UNCHANGED tokenVars
      /\ rewardTokens' = rewardTokens /\ rewardDistributors' = rewardDistributors
      /\ userData' = userData
      /\ amount <= funds[t]
      /\ funds' = [funds EXCEPT ![t] = @ - amount]
      /\ rewardVault' = [rewardVault EXCEPT ![t] = @ + amount]
      /\ \/ NotifyReward(t, total) /\ queuedRewards' = [queuedRewards EXCEPT ![t] = 0]
         \/ queuedRewards' = [queuedRewards EXCEPT ![t] = total] /\ rewardData' = rewardData
  BY DEF QueueNewRewards, configVars
<1>2. /\ epochs' = epochs /\ balances' = balances /\ userLocks' = userLocks
      /\ lockedSupply' = lockedSupply
  BY <1>1 DEF lockVars
<1>3. amount \in Nat /\ queuedRewards[t] \in Nat /\ total \in Nat
  BY AmountAssumption DEF StreamType
<1>4. StreamType'
  BY <1>1, <1>3 DEF StreamType
<1>5. RewardVaultType'
  BY <1>1, <1>3 DEF RewardVaultType
<1>6. AccrueType'
  <2>1. CASE NotifyReward(t, total)
    <3> DEFINE rec == [AccruedRewardData[t] EXCEPT !.rewardRate = NotifiedRate(t, total),
                                                   !.lastUpdateTime = now,
                                                   !.periodFinish = now + rewardsDuration]
    <3>1. AccruedRewardData \in [RewardTokens -> RewardRecords]
      <4>1. ASSUME NEW x \in rewardTokens
            PROVE  x \in RewardTokens /\ RewardPerToken(x) \in Nat /\ lastTimeRewardApplicable(x) \in Nat
        BY <2>1, AmountAssumption, Durations
           DEF NotifyReward, CanAccrue, lastTimeRewardApplicable, Least, StreamType, AccrueType,
               RewardRecords, ClockType
      <4>2. ASSUME NEW x \in RewardTokens
            PROVE  (IF x \in rewardTokens
                    THEN [rewardData[x] EXCEPT !.rewardPerTokenStored = RewardPerToken(x),
                                               !.lastUpdateTime = lastTimeRewardApplicable(x)]
                    ELSE rewardData[x]) \in RewardRecords
        BY <4>1 DEF AccrueType, RewardRecords
      <4> QED
        BY <4>2 DEF AccruedRewardData
    <3>2. rewardData' = [AccruedRewardData EXCEPT ![t] = rec]
      BY <2>1 DEF NotifyReward
    <3>3. rec \in RewardRecords
      <4>1. AccruedRewardData[t] \in RewardRecords
        BY <3>1
      <4>2. NotifiedRate(t, total) \in Nat
        BY <1>3, RateType
      <4>3. now \in Nat /\ now + rewardsDuration \in Nat
        BY Durations DEF ClockType
      <4> HIDE DEF total
      <4> QED
        BY <4>1, <4>2, <4>3 DEF RewardRecords
    <3> HIDE DEF rec
    <3> QED
      BY <1>1, <3>1, <3>2, <3>3 DEF AccrueType
  <2>2. CASE rewardData' = rewardData
    BY <1>1, <2>2 DEF AccrueType
  <2> QED
    BY <1>1, <2>1, <2>2
<1>7. ProcessedStay
  BY <1>2, UnchangedBook
<1> QED
  BY <1>1, <1>2, <1>4, <1>5, <1>6, <1>7, EpochFrame, BookFrame, VoteFrame, OtherFrames, NextInvParts

(* addReward and approveRewardDistributor.                                 *)
LEMMA RewardConfigStep ==
  ASSUME IInv, NEW t \in RewardTokens, NEW dist \in Distributors,
         AddReward(t, dist) \/ \E approved \in BOOLEAN : ApproveRewardDistributor(t, dist, approved)
  PROVE  IInv' /\ ProcessedStay
<1> USE InvParts
<1>1. /\ now' = now /\ UNCHANGED lockVars /\ UNCHANGED voteVars /\ isShutdown' = isShutdown
      /\ UNCHANGED configVars /\ UNCHANGED tokenVars /\ rewardVault' = rewardVault
      /\ queuedRewards' = queuedRewards /\ funds' = funds /\ userData' = userData
      /\ rewardTokens' \in {rewardTokens, rewardTokens \cup {t}}
      /\ \E s \in SUBSET Distributors : rewardDistributors' = [rewardDistributors EXCEPT ![t] = s]
      /\ \/ rewardData' = rewardData
         \/ rewardData' = [rewardData EXCEPT ![t].lastUpdateTime = now, ![t].periodFinish = now]
  <2>1. rewardDistributors[t] \in SUBSET Distributors
    BY DEF StreamType
  <2>2. CASE AddReward(t, dist)
    <3>1. rewardDistributors' = [rewardDistributors EXCEPT ![t] = rewardDistributors[t] \cup {dist}]
      BY <2>2 DEF AddReward
    <3> QED
      BY <2>1, <2>2, <3>1 DEF AddReward, configVars
  <2>3. CASE \E approved \in BOOLEAN : ApproveRewardDistributor(t, dist, approved)
    <3>1. PICK approved \in BOOLEAN : ApproveRewardDistributor(t, dist, approved)
      BY <2>3
    <3> DEFINE s == IF approved THEN rewardDistributors[t] \cup {dist}
                                ELSE rewardDistributors[t] \ {dist}
    <3>2. s \in SUBSET Distributors /\ rewardDistributors' = [rewardDistributors EXCEPT ![t] = s]
      BY <2>1, <3>1 DEF ApproveRewardDistributor
    <3> HIDE DEF s
    <3> QED
      BY <3>1, <3>2 DEF ApproveRewardDistributor, configVars, streamVars, accrueVars
  <2> QED
    BY <2>2, <2>3
<1>2. /\ epochs' = epochs /\ balances' = balances /\ userLocks' = userLocks
      /\ lockedSupply' = lockedSupply
  BY <1>1 DEF lockVars
<1>3. StreamType'
  BY <1>1 DEF StreamType
<1>4. AccrueType'
  <2>1. now \in Nat
    BY Durations DEF ClockType
  <2>2. rewardData' \in [RewardTokens -> RewardRecords]
    BY <1>1, <2>1 DEF AccrueType, RewardRecords
  <2> QED
    BY <1>1, <2>2 DEF AccrueType
<1>5. ProcessedStay
  BY <1>2, UnchangedBook
<1> QED
  BY <1>1, <1>2, <1>3, <1>4, <1>5, EpochFrame, BookFrame, VoteFrame, OtherFrames, NextInvParts

(* modifyBlacklist, setKickIncentive and shutdown.                         *)
LEMMA OwnerSteps ==
  ASSUME IInv, OwnerStep
  PROVE  IInv' /\ ProcessedStay
<1> USE InvParts
<1> DEFINE OnlyConfig ==
      /\ now' = now /\ UNCHANGED lockVars /\ UNCHANGED voteVars
      /\ UNCHANGED streamVars /\ UNCHANGED accrueVars
      /\ UNCHANGED tokenVars /\ rewardVault' = rewardVault
      /\ ConfigType'
      /\ ~isShutdown' => ~isShutdown
<1>1. OnlyConfig
  <2>1. ASSUME NEW a \in Contracts, NEW blacklisted \in BOOLEAN, ModifyBlacklist(a, blacklisted)
        PROVE  OnlyConfig
    BY <2>1 DEF ModifyBlacklist, ConfigType
  <2>2. ASSUME NEW s \in KickSettings, SetKickIncentive(s[1], s[2])
        PROVE  OnlyConfig
    <3>1. s[1] \in Nat /\ s[2] \in Nat
      BY KickAssumption
    <3> QED
      BY <2>2, <3>1 DEF SetKickIncentive, ConfigType
  <2>3. CASE Shutdown
    BY <2>3 DEF Shutdown, ConfigType
  <2> QED
    BY <2>1, <2>2, <2>3, Zenon DEF OwnerStep
<1>2. /\ epochs' = epochs /\ balances' = balances /\ userLocks' = userLocks
      /\ lockedSupply' = lockedSupply
  BY <1>1 DEF lockVars
<1>3. BookInv' /\ ProcessedStay
  BY <1>1, <1>2, UnchangedBook DEF BookInv, BookType, LocksSorted, ProcessedAreOver, currentEpoch
<1> QED
  BY <1>1, <1>2, <1>3, EpochFrame, VoteFrame, OtherFrames, NextInvParts

(* As time passes every bound on dates grows.                              *)
LEMMA TickStep ==
  ASSUME IInv, Tick
  PROVE  IInv' /\ ProcessedStay
<1> USE InvParts
<1>1. /\ now < MaxTime /\ now' = now + 1
      /\ UNCHANGED lockVars /\ UNCHANGED voteVars /\ UNCHANGED configVars /\ UNCHANGED streamVars
      /\ UNCHANGED accrueVars /\ UNCHANGED tokenVars /\ rewardVault' = rewardVault
  BY DEF Tick
<1>2. /\ epochs' = epochs /\ balances' = balances /\ userLocks' = userLocks
      /\ lockedSupply' = lockedSupply /\ isShutdown' = isShutdown
      /\ delegates' = delegates /\ checkpointedVotes' = checkpointedVotes
      /\ delegateeUnlocks' = delegateeUnlocks
  BY <1>1 DEF lockVars, configVars, voteVars
<1>3. /\ now \in Nat /\ rewardsDuration \in Nat /\ lockDuration \in Nat /\ MaxTime \in Nat
      /\ StartTime \in Nat /\ StartTime <= now
  BY Durations DEF ClockType
<1>4. ClockType'
  BY <1>1, <1>3 DEF ClockType
<1>5. /\ currentEpoch \in Nat /\ currentEpoch' \in Nat /\ currentEpoch <= currentEpoch'
      /\ upcomingEpoch \in Nat /\ upcomingEpoch' \in Nat /\ upcomingEpoch <= upcomingEpoch'
  <2>1. /\ now + 1 \in Nat /\ now + rewardsDuration \in Nat /\ (now + 1) + rewardsDuration \in Nat
        /\ now <= now + 1 /\ now + rewardsDuration <= (now + 1) + rewardsDuration
    BY <1>3
  <2>2. /\ EpochStart(now) \in Nat /\ EpochStart(now + 1) \in Nat
        /\ EpochStart(now) <= EpochStart(now + 1)
    BY <1>3, <2>1, EpochStarts, EpochsAdvance
  <2>3. /\ EpochStart(now + rewardsDuration) \in Nat
        /\ EpochStart((now + 1) + rewardsDuration) \in Nat
        /\ EpochStart(now + rewardsDuration) <= EpochStart((now + 1) + rewardsDuration)
    BY <2>1, EpochStarts, EpochsAdvance
  <2>4. /\ currentEpoch = EpochStart(now) /\ currentEpoch' = EpochStart(now + 1)
        /\ upcomingEpoch = EpochStart(now + rewardsDuration)
        /\ upcomingEpoch' = EpochStart((now + 1) + rewardsDuration)
    BY <1>1 DEF currentEpoch, upcomingEpoch, EpochStart
  <2> QED
    BY <2>2, <2>3, <2>4
<1>6. EpochInv'
  <2>1. LastOf(epochs).date \in Nat
    <3>1. Len(epochs) \in 1 .. Len(epochs) /\ epochs \in Seq(EpochRecords)
      BY EmptySeq, LenProperties DEF EpochInv, EpochType
    <3>2. LastOf(epochs) \in EpochRecords
      BY <3>1, ElementOfSeq DEF LastOf
    <3> QED
      BY <3>2 DEF EpochRecords, EpochDates
  <2> QED
    BY <1>2, <1>5, <2>1 DEF EpochInv, EpochType, EpochsConsecutive
<1>7. BookInv'
  <2>1. ASSUME NEW x \in Accounts, NEW i \in DOMAIN userLocks[x]
        PROVE  userLocks[x][i].unlockTime \in Nat
    BY RecordTypes DEF BookInv, BookType
  <2>2. BookType'
    BY <1>2 DEF BookInv, BookType
  <2>3. LocksSorted'
    <3>1. ASSUME NEW x \in Accounts, NEW i \in DOMAIN userLocks[x]
          PROVE  userLocks[x][i].unlockTime <= currentEpoch' + lockDuration
      BY <1>3, <1>5, <2>1 DEF BookInv, LocksSorted
    <3> QED
      BY <1>2, <3>1 DEF BookInv, LocksSorted
  <2>4. ProcessedAreOver'
    <3> SUFFICES ASSUME ~isShutdown, NEW x \in Accounts, NEW i \in 1 .. balances[x].nextUnlockIndex
                 PROVE  userLocks[x][i].unlockTime <= (now + 1) + rewardsDuration
      BY <1>1, <1>2 DEF ProcessedAreOver
    <3>1. userLocks[x][i].unlockTime <= now + rewardsDuration
      BY DEF BookInv, ProcessedAreOver
    <3>2. i \in DOMAIN userLocks[x]
      BY RecordTypes DEF BookInv, BookType, LocksSorted
    <3> QED
      BY <1>3, <2>1, <3>1, <3>2
  <2> QED
    BY <2>2, <2>3, <2>4 DEF BookInv
<1>8. VoteInv'
  <2>1. ASSUME NEW d \in Delegatees, NEW i \in DOMAIN checkpointedVotes[d]
        PROVE  checkpointedVotes[d][i].epochStart <= upcomingEpoch'
    <3>1. checkpointedVotes[d][i] \in Checkpoints
      BY LenProperties, ElementOfSeq DEF VoteInv, VoteType
    <3> QED
      BY <1>5, <3>1 DEF VoteInv, CheckpointsSorted, Checkpoints, EpochDates
  <2> QED
    BY <1>2, <2>1 DEF VoteInv, VoteType, CheckpointsSorted
<1>9. ProcessedStay
  BY <1>2, UnchangedBook
<1> QED
  BY <1>1, <1>2, <1>4, <1>6, <1>7, <1>8, <1>9, OtherFrames, NextInvParts
-----------------------------------------------------------------------------
(* The theorems.                                                           *)

(* The invariant holds after construction.                                 *)
LEMMA InitInv == Init => IInv
<1> SUFFICES ASSUME Init PROVE IInv
  OBVIOUS
<1>1. /\ StartTime \in Nat /\ MaxTime \in Nat /\ StartTime <= MaxTime /\ lockDuration \in Nat
      /\ now = StartTime
  BY Durations, TimeAssumption DEF Init
<1>2. /\ currentEpoch \in EpochDates /\ currentEpoch = EpochStart(StartTime)
      /\ EpochStart(StartTime) \in Nat
  BY <1>1, Dates DEF currentEpoch, EpochDates
<1> DEFINE e == [supply |-> 0, date |-> EpochStart(StartTime)]
<1>3. e \in EpochRecords /\ e.date = currentEpoch /\ epochs = <<e>>
  BY <1>2 DEF EpochRecords, Init
<1> HIDE DEF e
<1>4. ClockType
  BY <1>1 DEF ClockType
<1>5. EpochInv
  <2>1. /\ epochs \in Seq(EpochRecords) /\ epochs # <<>> /\ Len(epochs) = 1
        /\ DOMAIN epochs = {1} /\ epochs[1] = e
    BY <1>3
  <2>2. (1 - 1) * rewardsDuration = 0
    BY Durations
  <2> QED
    BY <1>2, <1>3, <2>1, <2>2 DEF EpochInv, EpochType, EpochsConsecutive, LastOf, EpochDates
<1>6. BookInv
  <2>1. \A a \in Accounts : userLocks[a] = <<>> /\ balances[a] = [locked |-> 0, nextUnlockIndex |-> 0]
    BY DEF Init
  <2>2. BookType
    BY DEF Init, BookType
  <2>3. LocksSorted
    BY <2>1 DEF LocksSorted
  <2>4. ProcessedAreOver
    BY <2>1 DEF ProcessedAreOver
  <2> QED
    BY <2>2, <2>3, <2>4 DEF BookInv
<1>7. VoteInv
  <2>1. \A d \in Delegatees : checkpointedVotes[d] = <<>>
    BY DEF Init
  <2> QED
    BY <2>1 DEF Init, VoteInv, VoteType, CheckpointsSorted
<1>8. ConfigType /\ StreamType
  BY AmountAssumption, KickAssumption DEF Init, ConfigType, StreamType
<1>9. AccrueType
  BY DEF Init, AccrueType, RewardRecords, PaidRecords
<1>10. TokenInv /\ RewardVaultType
  BY AmountAssumption DEF Init, TokenInv, TokenType, VaultHoldsSupply, RewardVaultType
<1> QED
  BY <1>4, <1>5, <1>6, <1>7, <1>8, <1>9, <1>10, InvParts

(* Every step keeps the invariant, and what was processed stays so.        *)
LEMMA StepInv == IInv /\ [Next]_vars => IInv' /\ ProcessedStay
<1> SUFFICES ASSUME IInv, [Next]_vars PROVE IInv' /\ ProcessedStay
  OBVIOUS
<1>1. CASE UserStep
  <2> PICK a \in Accounts :
        \/ \E s \in Accounts, amount \in LockAmounts : Lock(s, a, amount)
        \/ ProcessExpiredLocks(a)
        \/ RelockExpiredLocks(a)
        \/ \E k \in Accounts : KickExpiredLocks(k, a)
        \/ EmergencyWithdraw(a)
        \/ \E d \in Delegatees : Delegate(a, d)
        \/ \E skipped \in SUBSET rewardTokens : GetReward(a, skipped)
    BY <1>1 DEF UserStep
  <2>1. CASE \E s \in Accounts, amount \in LockAmounts : Lock(s, a, amount)
    BY <2>1, LockStep
  <2>2. CASE ProcessExpiredLocks(a)
    <3>1. Withdraw(a, a, 0)
      BY <2>2 DEF ProcessExpiredLocks
    <3> QED
      BY <3>1, WithdrawStep
  <2>3. CASE RelockExpiredLocks(a)
    BY <2>3, RelockStep
  <2>4. CASE \E k \in Accounts : KickExpiredLocks(k, a)
    <3> DEFINE delay == rewardsDuration * kickRewardEpochDelay
    <3>1. PICK k \in Accounts : Withdraw(a, k, delay)
      BY <2>4 DEF KickExpiredLocks
    <3>2. delay \in Nat
      BY Durations, ProductIsNat DEF IInv, TypeOK
    <3> HIDE DEF delay
    <3> QED
      BY <3>1, <3>2, WithdrawStep
  <2>5. CASE EmergencyWithdraw(a)
    BY <2>5, EmergencyWithdrawStep
  <2>6. CASE \E d \in Delegatees : Delegate(a, d)
    BY <2>6, DelegateStep
  <2>7. CASE \E skipped \in SUBSET rewardTokens : GetReward(a, skipped)
    BY <2>7, GetRewardStep
  <2> QED
    BY <2>1, <2>2, <2>3, <2>4, <2>5, <2>6, <2>7
<1>2. CASE RewardStep
  <2> PICK t \in RewardTokens, dist \in Distributors :
        \/ \E amount \in RewardAmounts : QueueNewRewards(dist, t, amount)
        \/ AddReward(t, dist)
        \/ \E approved \in BOOLEAN : ApproveRewardDistributor(t, dist, approved)
    BY <1>2 DEF RewardStep
  <2>1. CASE \E amount \in RewardAmounts : QueueNewRewards(dist, t, amount)
    BY <2>1, QueueNewRewardsStep
  <2>2. CASE AddReward(t, dist) \/ \E approved \in BOOLEAN : ApproveRewardDistributor(t, dist, approved)
    BY <2>2, RewardConfigStep
  <2> QED
    BY <2>1, <2>2
<1>3. CASE OwnerStep
  BY <1>3, OwnerSteps
<1>4. CASE CheckpointEpoch
  BY <1>4, CheckpointEpochStep
<1>5. CASE Tick
  BY <1>5, TickStep
<1>6. CASE UNCHANGED vars
  <2>1. /\ now' = now /\ UNCHANGED lockVars /\ UNCHANGED voteVars /\ UNCHANGED configVars
        /\ UNCHANGED streamVars /\ UNCHANGED accrueVars /\ UNCHANGED tokenVars
        /\ rewardVault' = rewardVault
    BY <1>6 DEF vars
  <2>2. /\ epochs' = epochs /\ balances' = balances /\ userLocks' = userLocks
        /\ lockedSupply' = lockedSupply /\ isShutdown' = isShutdown
    BY <2>1 DEF lockVars, configVars
  <2>3. ProcessedStay
    BY <2>2, InvParts, UnchangedBook
  <2> QED
    BY <2>1, <2>2, <2>3, InvParts, EpochFrame, BookFrame, VoteFrame, OtherFrames, NextInvParts
<1> QED
  BY <1>1, <1>2, <1>3, <1>4, <1>5, <1>6 DEF Next

(* The invariant holds in every state.                                     *)
LEMMA Invariant == Spec => []IInv
<1>1. Init => IInv
  BY InitInv
<1>2. IInv /\ [Next]_vars => IInv'
  BY StepInv
<1> QED
  BY <1>1, <1>2, PTL DEF Spec

(* Amounts are never negative and dates are always starts of epochs,       *)
(* whatever the handlers of AuraLocker.sol are called with.                *)
THEOREM LockerTypeCorrect == Spec => []TypeOK
<1>1. IInv => TypeOK
  BY DEF IInv
<1> QED
  BY <1>1, Invariant, PTL

(* The locker holds exactly the tokens of lockedSupply after lock,         *)
(* processExpiredLocks, kickExpiredLocks and emergencyWithdraw.            *)
THEOREM SupplyHeld == Spec => []VaultHoldsSupply
<1>1. IInv => VaultHoldsSupply
  BY DEF IInv
<1> QED
  BY <1>1, Invariant, PTL

(* epochs, userLocks and the checkpoints of every delegatee are strictly   *)
(* in order, and the epochs have no gap: what the scans from the end and   *)
(* the binary search of AuraLocker.sol rest on.                            *)
THEOREM ListsStaySorted == Spec => []ListsSorted
<1>1. IInv => ListsSorted
  BY DEF IInv
<1> QED
  BY <1>1, Invariant, PTL

(* _processExpiredLocks and emergencyWithdraw take each record once: the   *)
(* index never goes back, and no later lock or relock falls into a record  *)
(* it has passed.                                                          *)
THEOREM RecordsProcessedOnce == Spec => ProcessedOnce
<1>1. IInv /\ [Next]_vars => ProcessedStay
  BY StepInv
<1> QED
  BY <1>1, Invariant, PTL DEF Spec, ProcessedOnce, ProcessedStay

-----------------------------------------------------------------------------
(* Amounts in the lock book.                                               *)

(* The records of an account are finitely many natural numbers.            *)
LEMMA AmountIsNat ==
  ASSUME NEW locks \in Seq(LockRecords), NEW I \in SUBSET (DOMAIN locks)
  PROVE  AmountOf(locks, I) \in Nat /\ IsFiniteSet(I)
<1> DEFINE amounts == [i \in DOMAIN locks |-> locks[i].amount]
<1>1. /\ Len(locks) \in Nat /\ DOMAIN locks = 1 .. Len(locks)
      /\ \A i \in 1 .. Len(locks) : locks[i].amount \in Nat
  BY RecordTypes
<1>2. IsFiniteSet(I)
  <2>1. IsFiniteSet(1 .. Len(locks))
    BY <1>1, FS_Interval
  <2> QED
    BY <1>1, <2>1, FS_Subset
<1>3. \A i \in I : amounts[i] \in Nat
  BY <1>1
<1> HIDE DEF amounts
<1>4. SumFunctionOnSet(amounts, I) \in Nat
  BY <1>2, <1>3, SumIsNat
<1> QED
  BY <1>2, <1>4 DEF AmountOf, amounts

(* Two disjoint sets of records.                                           *)
LEMMA AmountOfUnion ==
  ASSUME NEW locks \in Seq(LockRecords), NEW I \in SUBSET (DOMAIN locks),
         NEW J \in SUBSET (DOMAIN locks), I \cap J = {}
  PROVE  AmountOf(locks, I \cup J) = AmountOf(locks, I) + AmountOf(locks, J)
<1> DEFINE amounts == [i \in DOMAIN locks |-> locks[i].amount]
<1>1. \A i \in I \cup J : amounts[i] \in Int
  BY RecordTypes
<1>2. IsFiniteSet(I) /\ IsFiniteSet(J)
  BY AmountIsNat
<1> HIDE DEF amounts
<1>3. SumFunctionOnSet(amounts, I \cup J) = SumFunctionOnSet(amounts, I) + SumFunctionOnSet(amounts, J)
  BY <1>1, <1>2, SumOfUnion
<1> QED
  BY <1>3 DEF AmountOf, amounts

(* A list whose record k is new or holds more than before.                 *)
LEMMA AmountAdded ==
  ASSUME NEW locks \in Seq(LockRecords), NEW new \in Seq(LockRecords), NEW amount \in Nat,
         NEW k \in DOMAIN new, DOMAIN new = DOMAIN locks \cup {k},
         \A i \in DOMAIN locks \ {k} : new[i].amount = locks[i].amount,
         k \in DOMAIN locks => new[k].amount = amount + locks[k].amount,
         k \notin DOMAIN locks => new[k].amount = amount,
         NEW I \in SUBSET (DOMAIN new)
  PROVE  /\ k \in I => AmountOf(new, I) = AmountOf(locks, I \cap DOMAIN locks) + amount
         /\ k \notin I => AmountOf(new, I) = AmountOf(locks, I \cap DOMAIN locks)
<1> DEFINE before == [i \in DOMAIN locks |-> locks[i].amount]
           after == [i \in DOMAIN new |-> new[i].amount]
           known == DOMAIN locks
<1>1. IsFiniteSet(I) /\ \A i \in DOMAIN locks : before[i] \in Nat /\ before[i] = locks[i].amount
  BY AmountIsNat, RecordTypes
<1>2. \A i \in I \ {k} : i \in DOMAIN locks /\ before[i] \in Nat /\ after[i] = before[i]
  BY <1>1
<1>3. k \in DOMAIN locks => before[k] \in Nat
  BY <1>1
<1>4. /\ k \in DOMAIN locks => after[k] = amount + before[k]
      /\ k \notin DOMAIN locks => after[k] = amount
  BY <1>1
<1> HIDE DEF before, after
<1>5. /\ k \in I => SumFunctionOnSet(after, I) = SumFunctionOnSet(before, I \cap DOMAIN locks) + amount
      /\ k \notin I => SumFunctionOnSet(after, I) = SumFunctionOnSet(before, I \cap DOMAIN locks)
  <2>1. IsFiniteSet(I) /\ amount \in Nat
    BY <1>1
  <2>2. /\ \A i \in I \ {k} : i \in known /\ before[i] \in Nat /\ after[i] = before[i]
        /\ k \in known => before[k] \in Nat
        /\ k \in known => after[k] = amount + before[k]
        /\ k \notin known => after[k] = amount
    BY <1>2, <1>3, <1>4
  <2> HIDE DEF known
  <2>3. k \in I => SumFunctionOnSet(after, I) = SumFunctionOnSet(before, I \cap known) + amount
    BY <2>1, <2>2, SumOfAdded
  <2>4. ASSUME k \notin I
        PROVE  SumFunctionOnSet(after, I) = SumFunctionOnSet(before, I \cap known)
    <3>1. I \cap known = I /\ \A i \in I : after[i] \in Int /\ after[i] = before[i]
      BY <2>2, <2>4
    <3>2. SumFunctionOnSet(after, I) = SumFunctionOnSet(before, I)
      BY <2>1, <3>1, SumOfSame
    <3> QED
      BY <3>1, <3>2, Zenon
  <2> QED
    BY <2>3, <2>4 DEF known
<1> QED
  BY <1>5 DEF AmountOf, before, after

(* What AddLock makes of a list: its last record is of this week and holds *)
(* the amount besides what it held.                                        *)
LEMMA AddLockAdds ==
  ASSUME ClockType, NEW locks \in Seq(LockRecords), NEW amount \in Nat, InOrder(locks)
  PROVE  LET new == AddLock(locks, amount, UnlockTime)
             k == Len(new)
         IN  /\ new \in Seq(LockRecords) /\ k \in DOMAIN new /\ k \in Nat
             /\ DOMAIN new = DOMAIN locks \cup {k} /\ DOMAIN new = 1 .. k
             /\ Len(locks) \in Nat /\ Len(locks) <= k /\ k <= Len(locks) + 1
             /\ new[k].unlockTime = UnlockTime
             /\ \A i \in DOMAIN locks \ {k} : new[i] = locks[i]
             /\ k \in DOMAIN locks => locks[k].unlockTime = UnlockTime
             /\ k \in DOMAIN locks => new[k].amount = amount + locks[k].amount
             /\ k \notin DOMAIN locks => new[k].amount = amount
<1> DEFINE rec == [amount |-> amount, unlockTime |-> UnlockTime]
           new == AddLock(locks, amount, UnlockTime)
           last == Len(locks)
<1>1. /\ UnlockTime \in EpochDates /\ UnlockTime = currentEpoch + lockDuration
      /\ rec \in LockRecords /\ EpochDates \subseteq Nat
  BY Dates DEF ClockType, LockRecords, EpochDates
<1>2. /\ last \in Nat /\ DOMAIN locks = 1 .. last
      /\ \A i \in DOMAIN locks : locks[i] \in LockRecords
      /\ \A i \in DOMAIN locks : locks[i].amount \in Nat /\ locks[i].unlockTime \in Nat
  BY RecordTypes
<1>3. CASE locks = <<>> \/ LastOf(locks).unlockTime < UnlockTime
  <2>1. new = Append(locks, rec)
    BY <1>3 DEF AddLock
  <2>2. /\ new \in Seq(LockRecords) /\ Len(new) = last + 1
        /\ \A i \in 1 .. last : new[i] = locks[i]
        /\ new[last + 1] = rec
    BY <1>1, <2>1, AppendProperties
  <2>3. DOMAIN new = 1 .. (last + 1)
    BY <2>2, LenProperties
  <2>4. last + 1 \notin DOMAIN locks
    BY <1>2
  <2> HIDE DEF new
  <2>5. rec.amount = amount + 0 /\ rec.unlockTime = UnlockTime
    OBVIOUS
  <2> HIDE DEF rec
  <2> QED
    BY <1>2, <2>2, <2>3, <2>4, <2>5 DEF new
<1>4. CASE ~(locks = <<>> \/ LastOf(locks).unlockTime < UnlockTime)
  <2> DEFINE e == [locks[last] EXCEPT !.amount = @ + amount]
  <2>1. new = [locks EXCEPT ![last] = e]
    BY <1>4 DEF AddLock
  <2>2. last \in 1 .. Len(locks)
    BY <1>2, <1>4, EmptySeq
  <2>3. locks[last].unlockTime = UnlockTime
    <3>1. locks[last].unlockTime <= currentEpoch + lockDuration
      BY <1>2, <2>2 DEF InOrder
    <3> QED
      BY <1>1, <1>2, <1>4, <2>2, <3>1 DEF LastOf
  <2>4. /\ e \in LockRecords /\ e.unlockTime = UnlockTime
        /\ e.amount = amount + locks[last].amount
    BY <1>2, <2>2, <2>3 DEF LockRecords
  <2> HIDE DEF e
  <2>5. /\ new \in Seq(LockRecords) /\ Len(new) = last
        /\ \A i \in 1 .. last : new[i] = IF i = last THEN e ELSE locks[i]
    BY <2>1, <2>2, <2>4, ExceptSeq
  <2>6. DOMAIN new = DOMAIN locks
    BY <1>2, <2>5, LenProperties
  <2> HIDE DEF new
  <2>7. /\ new \in Seq(LockRecords) /\ last \in DOMAIN new /\ last \in Nat
        /\ DOMAIN new = DOMAIN locks \cup {last} /\ DOMAIN new = 1 .. last
        /\ Len(locks) <= last /\ last <= Len(locks) + 1
        /\ new[last].unlockTime = UnlockTime
        /\ \A i \in DOMAIN locks \ {last} : new[i] = locks[i]
        /\ last \in DOMAIN locks /\ new[last].amount = amount + locks[last].amount
    <3>1. last \in DOMAIN locks /\ new[last] = e
      BY <1>2, <2>2, <2>5
    <3>2. \A i \in DOMAIN locks \ {last} : new[i] = locks[i]
      BY <1>2, <2>5
    <3>3. new[last].unlockTime = UnlockTime /\ new[last].amount = amount + locks[last].amount
      BY <2>4, <3>1
    <3>4. DOMAIN locks \cup {last} = DOMAIN locks /\ last <= last + 1 /\ last \in DOMAIN new
      BY <1>2, <2>6, <3>1
    <3>5. DOMAIN new = DOMAIN locks \cup {last} /\ DOMAIN new = 1 .. last
      BY <1>2, <2>6, <3>4
    <3>6. new \in Seq(LockRecords)
      BY <2>5
    <3> HIDE DEF e
    <3> QED
      BY <1>2, <3>1, <3>2, <3>3, <3>4, <3>5, <3>6
  <2> QED
    BY <1>2, <2>3, <2>5, <2>7 DEF new
<1> QED
  BY <1>3, <1>4

(* Hence what is on the book of an account grows by the amount, as long as *)
(* none of what has been processed is of this week.                        *)
LEMMA OpenAmountAdded ==
  ASSUME ClockType, NEW locks \in Seq(LockRecords), NEW amount \in Nat, InOrder(locks),
         NEW done \in Nat, done <= Len(locks),
         \A i \in 1 .. done : locks[i].unlockTime < UnlockTime
  PROVE  LET new == AddLock(locks, amount, UnlockTime)
         IN  AmountOf(new, (done + 1) .. Len(new))
               = AmountOf(locks, (done + 1) .. Len(locks)) + amount
<1> DEFINE new == AddLock(locks, amount, UnlockTime)
           k == Len(new)
           open == (done + 1) .. k
<1>1. /\ new \in Seq(LockRecords) /\ k \in DOMAIN new /\ k \in Nat
      /\ DOMAIN new = DOMAIN locks \cup {k} /\ DOMAIN new = 1 .. k
      /\ Len(locks) \in Nat /\ Len(locks) <= k /\ k <= Len(locks) + 1
      /\ \A i \in DOMAIN locks \ {k} : new[i] = locks[i]
      /\ k \in DOMAIN locks => locks[k].unlockTime = UnlockTime
      /\ k \in DOMAIN locks => new[k].amount = amount + locks[k].amount
      /\ k \notin DOMAIN locks => new[k].amount = amount
  BY AddLockAdds
<1>2. DOMAIN locks = 1 .. Len(locks) /\ UnlockTime \in Nat
  BY RecordTypes, Dates DEF ClockType, EpochDates
<1> HIDE DEF new
<1> HIDE DEF k
<1>3. done < k
  <2>1. CASE k \in DOMAIN locks
    <3>1. k \notin 1 .. done
      BY <1>1, <1>2, <2>1
    <3> QED
      BY <1>1, <1>2, <2>1, <3>1
  <2>2. CASE k \notin DOMAIN locks
    BY <1>1, <1>2, <2>2
  <2> QED
    BY <2>1, <2>2
<1>6. k \in open /\ open \subseteq 1 .. k /\ open \cap (1 .. Len(locks)) = (done + 1) .. Len(locks)
  BY <1>1, <1>3
<1>4. open \in SUBSET (DOMAIN new) /\ open \cap DOMAIN locks = (done + 1) .. Len(locks)
  BY <1>1, <1>2, <1>6
<1>5. k \in open => AmountOf(new, open) = AmountOf(locks, open \cap DOMAIN locks) + amount
  <2> HIDE DEF open
  <2> QED
    BY <1>1, <1>4, AmountAdded
<1> QED
  BY <1>4, <1>5, <1>6 DEF new, k

(* What Release takes off the book is what the records held that are done. *)
LEMMA ReleasedAmount ==
  ASSUME ClockType, BookType, LocksSorted, NEW a \in Accounts, NEW relock \in BOOLEAN,
         NEW delay \in Nat, CanRelease(a, relock, delay),
         balances[a].locked =
           AmountOf(userLocks[a], (balances[a].nextUnlockIndex + 1) .. Len(userLocks[a]))
  PROVE  LET r == Release(a, relock, delay)
         IN  balances[a].locked - r.amount
               = AmountOf(userLocks[a], (r.last + 1) .. Len(userLocks[a]))
<1> DEFINE r == Release(a, relock, delay)
           locks == userLocks[a]
           n == Len(locks)
           done == balances[a].nextUnlockIndex
           all == isShutdown \/ LastOf(locks).unlockTime <= ExpiryTime(relock, delay)
<1>1. /\ locks \in Seq(LockRecords) /\ done \in Nat /\ balances[a].locked \in Nat
      /\ n \in Nat /\ DOMAIN locks = 1 .. n
  BY LenProperties DEF BookType
<1>2. r.last \in Nat /\ done <= r.last /\ r.last <= n
  BY ReleaseFacts
<1>3. CASE all
  <2>1. r.last = n /\ r.amount = balances[a].locked
    BY <1>3 DEF Release
  <2>2. (n + 1) .. n = {}
    BY <1>1
  <2>3. AmountOf(locks, {}) = 0
    BY SumEmpty DEF AmountOf
  <2> QED
    BY <1>1, <2>1, <2>2, <2>3
<1>4. CASE ~all
  <2> DEFINE taken == (done + 1) .. r.last
             left == (r.last + 1) .. n
  <2>1. r.amount = AmountOf(locks, taken)
    BY <1>4 DEF Release
  <2> HIDE DEF r
  <2>2. /\ taken \in SUBSET (DOMAIN locks) /\ left \in SUBSET (DOMAIN locks)
        /\ taken \cap left = {} /\ taken \cup left = (done + 1) .. n
    BY <1>1, <1>2
  <2>3. balances[a].locked = AmountOf(locks, (done + 1) .. n)
    OBVIOUS
  <2> HIDE DEF taken, left, locks, n, done
  <2>4. AmountOf(locks, taken \cup left) = AmountOf(locks, taken) + AmountOf(locks, left)
    BY <1>1, <2>2, AmountOfUnion
  <2>5. AmountOf(locks, taken \cup left) = AmountOf(locks, (done + 1) .. n)
    BY <2>2, Zenon
  <2>6. AmountOf(locks, taken) \in Nat /\ AmountOf(locks, left) \in Nat
    BY <1>1, <2>2, AmountIsNat
  <2>7. balances[a].locked - r.amount = AmountOf(locks, left)
    BY <1>1, <2>1, <2>3, <2>4, <2>5, <2>6
  <2> QED
    BY <2>7 DEF left, locks, n, r
<1> QED
  BY <1>3, <1>4

(* A handler that works on one account, and accounts for it, accounts for  *)
(* all: the supply moves by as much as the account's balance.              *)
LEMMA BookMoves ==
  ASSUME BookType, BookType', LocksAccounted, NEW a \in Accounts,
         \A x \in Accounts \ {a} : balances'[x] = balances[x] /\ userLocks'[x] = userLocks[x],
         lockedSupply' = lockedSupply + (balances'[a].locked - balances[a].locked),
         balances'[a].locked =
           AmountOf(userLocks'[a], (balances'[a].nextUnlockIndex + 1) .. Len(userLocks'[a]))
  PROVE  LocksAccounted'
<1>1. \A x \in Accounts : balances'[x].locked =
        AmountOf(userLocks'[x], (balances'[x].nextUnlockIndex + 1) .. Len(userLocks'[x]))
  <2> SUFFICES ASSUME NEW x \in Accounts, x # a
               PROVE  balances'[x].locked =
                 AmountOf(userLocks'[x], (balances'[x].nextUnlockIndex + 1) .. Len(userLocks'[x]))
    OBVIOUS
  <2>1. balances'[x] = balances[x] /\ userLocks'[x] = userLocks[x]
    OBVIOUS
  <2>2. balances[x].locked =
          AmountOf(userLocks[x], (balances[x].nextUnlockIndex + 1) .. Len(userLocks[x]))
    BY DEF LocksAccounted
  <2> QED
    BY <2>1, <2>2, Zenon
<1>2. lockedSupply' = SumFunctionOnSet([x \in Accounts |-> balances'[x].locked], Accounts)
  <2> DEFINE before == [x \in Accounts |-> balances[x].locked]
             after == [x \in Accounts |-> balances'[x].locked]
  <2>1. \A x \in Accounts : balances[x].locked \in Nat /\ balances'[x].locked \in Nat
    BY DEF BookType
  <2>2. \A x \in Accounts : before[x] \in Int /\ after[x] \in Int /\ (x # a => before[x] = after[x])
    BY <2>1
  <2>3. before[a] = balances[a].locked /\ after[a] = balances'[a].locked
    OBVIOUS
  <2>4. lockedSupply = SumFunctionOnSet(before, Accounts) /\ IsFiniteSet(Accounts)
    BY AddressAssumption DEF LocksAccounted
  <2> HIDE DEF before, after
  <2>5. SumFunctionOnSet(after, Accounts) = SumFunctionOnSet(before, Accounts) + (after[a] - before[a])
    BY <2>2, <2>4, SumOfChanged
  <2>6. lockedSupply' = SumFunctionOnSet(after, Accounts)
    BY <2>3, <2>4, <2>5
  <2> QED
    BY <2>6 DEF after
<1> QED
  BY <1>1, <1>2 DEF LocksAccounted

(* What has been processed is never of this week.                          *)
LEMMA ProcessedAreOlder ==
  ASSUME ClockType, BookInv, ~isShutdown, NEW a \in Accounts, NEW done \in Nat,
         done <= Len(userLocks[a]),
         \A i \in (balances[a].nextUnlockIndex + 1) .. done :
           userLocks[a][i].unlockTime <= now + rewardsDuration
  PROVE  \A i \in 1 .. done : userLocks[a][i].unlockTime < UnlockTime
<1>1. now + rewardsDuration < UnlockTime /\ now + rewardsDuration \in Nat /\ UnlockTime \in Nat
  BY Dates, Durations DEF ClockType, EpochDates
<1> SUFFICES ASSUME NEW i \in 1 .. done PROVE userLocks[a][i].unlockTime < UnlockTime
  OBVIOUS
<1>2. balances[a].nextUnlockIndex \in Nat /\ userLocks[a] \in Seq(LockRecords)
  BY DEF BookInv, BookType
<1>3. userLocks[a][i].unlockTime \in Nat
  BY <1>2, RecordTypes
<1>4. userLocks[a][i].unlockTime <= now + rewardsDuration
  <2>1. i \in 1 .. balances[a].nextUnlockIndex \/ i \in (balances[a].nextUnlockIndex + 1) .. done
    BY <1>2
  <2> QED
    BY <2>1 DEF BookInv, ProcessedAreOver
<1> QED
  BY <1>1, <1>3, <1>4

(* The handlers that work on an account's book.                            *)
LEMMA LockAccounted ==
  ASSUME IInv, LocksAccounted, BookType', NEW sender \in Accounts, NEW a \in Accounts,
         NEW amount \in LockAmounts, Lock(sender, a, amount)
  PROVE  LocksAccounted'
<1>1. /\ amount \in Nat /\ ~isShutdown
      /\ balances' = [balances EXCEPT ![a].locked = @ + amount]
      /\ lockedSupply' = lockedSupply + amount
      /\ userLocks' = [userLocks EXCEPT ![a] = AddLock(userLocks[a], amount, UnlockTime)]
  BY AmountAssumption DEF Lock, RecordLock
<1>2. ClockType /\ BookInv /\ BookType
  BY InvParts DEF BookInv
<1> DEFINE done == balances[a].nextUnlockIndex
           new == AddLock(userLocks[a], amount, UnlockTime)
<1>3. /\ userLocks[a] \in Seq(LockRecords) /\ InOrder(userLocks[a])
      /\ done \in Nat /\ done <= Len(userLocks[a]) /\ balances[a].locked \in Nat
      /\ lockedSupply \in Nat
  BY <1>2, OrderParts DEF BookInv, BookType
<1>4. /\ balances'[a].locked = balances[a].locked + amount
      /\ balances'[a].nextUnlockIndex = done
      /\ userLocks'[a] = new
      /\ \A x \in Accounts \ {a} : balances'[x] = balances[x] /\ userLocks'[x] = userLocks[x]
  BY <1>1, <1>2 DEF BookType
<1>5. \A i \in 1 .. done : userLocks[a][i].unlockTime < UnlockTime
  <2>1. (done + 1) .. done = {}
    BY <1>3
  <2> QED
    BY <1>1, <1>2, <1>3, <2>1, ProcessedAreOlder
<1>6. AmountOf(new, (done + 1) .. Len(new))
        = AmountOf(userLocks[a], (done + 1) .. Len(userLocks[a])) + amount
  BY <1>1, <1>2, <1>3, <1>5, OpenAmountAdded
<1>7. balances[a].locked = AmountOf(userLocks[a], (done + 1) .. Len(userLocks[a]))
  BY DEF LocksAccounted
<1> HIDE DEF new
<1>8. balances'[a].locked =
        AmountOf(userLocks'[a], (balances'[a].nextUnlockIndex + 1) .. Len(userLocks'[a]))
  BY <1>4, <1>6, <1>7, Zenon
<1>9. lockedSupply' = lockedSupply + (balances'[a].locked - balances[a].locked)
  BY <1>1, <1>3, <1>4
<1> QED
  BY <1>2, <1>4, <1>8, <1>9, BookMoves

(* Paying out expired locks keeps each balance the sum of the open locks.  *)
LEMMA WithdrawAccounted ==
  ASSUME IInv, LocksAccounted, BookType', NEW a \in Accounts, NEW keeper, NEW delay \in Nat,
         Withdraw(a, keeper, delay)
  PROVE  LocksAccounted'
<1> DEFINE r == Release(a, FALSE, delay)
<1>1. /\ CanRelease(a, FALSE, delay) /\ userLocks' = userLocks
      /\ balances' = [balances EXCEPT ![a] = [locked |-> balances[a].locked - r.amount,
                                              nextUnlockIndex |-> r.last]]
      /\ lockedSupply' = lockedSupply - r.amount
  BY DEF Withdraw
<1>2. ClockType /\ BookType /\ LocksSorted
  BY InvParts DEF BookInv
<1>3. balances[a].locked \in Nat /\ lockedSupply \in Nat /\ r.amount \in Nat
  BY <1>1, <1>2, ReleaseFacts DEF BookType
<1>4. balances[a].locked - r.amount = AmountOf(userLocks[a], (r.last + 1) .. Len(userLocks[a]))
  BY <1>1, <1>2, ReleasedAmount DEF LocksAccounted
<1> HIDE DEF r
<1>5. /\ balances'[a].locked = balances[a].locked - r.amount
      /\ balances'[a].nextUnlockIndex = r.last
      /\ \A x \in Accounts \ {a} : balances'[x] = balances[x] /\ userLocks'[x] = userLocks[x]
  BY <1>1, <1>2 DEF BookType
<1>6. lockedSupply' = lockedSupply + (balances'[a].locked - balances[a].locked)
  BY <1>1, <1>3, <1>5
<1>7. balances'[a].locked =
        AmountOf(userLocks'[a], (balances'[a].nextUnlockIndex + 1) .. Len(userLocks'[a]))
  BY <1>1, <1>4, <1>5, Zenon
<1> QED
  BY <1>2, <1>5, <1>6, <1>7, BookMoves

(* So does locking them again.                                             *)
LEMMA RelockAccounted ==
  ASSUME IInv, LocksAccounted, BookType', NEW a \in Accounts, RelockExpiredLocks(a)
  PROVE  LocksAccounted'
<1> DEFINE r == Release(a, TRUE, 0)
           new == AddLock(userLocks[a], r.amount, UnlockTime)
<1>1. /\ CanRelease(a, TRUE, 0) /\ lockedSupply' = lockedSupply /\ ~isShutdown
      /\ balances' = [balances EXCEPT ![a].nextUnlockIndex = r.last]
      /\ userLocks' = [userLocks EXCEPT ![a] = new]
  BY DEF RelockExpiredLocks, RecordLock
<1>2. ClockType /\ BookInv /\ BookType /\ LocksSorted
  BY InvParts DEF BookInv
<1>3. /\ userLocks[a] \in Seq(LockRecords) /\ InOrder(userLocks[a])
      /\ balances[a].locked \in Nat /\ lockedSupply \in Nat
  BY <1>2, OrderParts DEF BookInv, BookType
<1>4. /\ r.last \in Nat /\ r.last <= Len(userLocks[a]) /\ r.amount \in Nat
      /\ \A i \in (balances[a].nextUnlockIndex + 1) .. r.last :
           userLocks[a][i].unlockTime <= now + rewardsDuration
  BY <1>1, <1>2, ReleaseFacts
<1>5. balances[a].locked - r.amount = AmountOf(userLocks[a], (r.last + 1) .. Len(userLocks[a]))
  BY <1>1, <1>2, ReleasedAmount DEF LocksAccounted
<1> HIDE DEF r
<1>6. \A i \in 1 .. r.last : userLocks[a][i].unlockTime < UnlockTime
  BY <1>1, <1>2, <1>4, ProcessedAreOlder
<1>7. AmountOf(new, (r.last + 1) .. Len(new))
        = AmountOf(userLocks[a], (r.last + 1) .. Len(userLocks[a])) + r.amount
  BY <1>2, <1>3, <1>4, <1>6, OpenAmountAdded
<1> HIDE DEF new
<1>8. /\ balances'[a].locked = balances[a].locked /\ balances'[a].nextUnlockIndex = r.last
      /\ userLocks'[a] = new
      /\ \A x \in Accounts \ {a} : balances'[x] = balances[x] /\ userLocks'[x] = userLocks[x]
  BY <1>1, <1>2 DEF BookType
<1>9. balances'[a].locked =
        AmountOf(userLocks'[a], (balances'[a].nextUnlockIndex + 1) .. Len(userLocks'[a]))
  <2>1. balances[a].locked = (balances[a].locked - r.amount) + r.amount
    BY <1>3, <1>4
  <2>2. balances[a].locked = AmountOf(new, (r.last + 1) .. Len(new))
    BY <1>5, <1>7, <2>1
  <2> QED
    BY <1>8, <2>2, Zenon
<1>10. lockedSupply' = lockedSupply + (balances'[a].locked - balances[a].locked)
  BY <1>1, <1>3, <1>8
<1> QED
  BY <1>2, <1>8, <1>9, <1>10, BookMoves

(* And so does withdrawing all of them after shutdown.                     *)
LEMMA EmergencyAccounted ==
  ASSUME IInv, LocksAccounted, BookType', NEW a \in Accounts, EmergencyWithdraw(a)
  PROVE  LocksAccounted'
<1> DEFINE n == Len(userLocks[a])
<1>1. /\ userLocks' = userLocks
      /\ balances' = [balances EXCEPT ![a] = [locked |-> 0, nextUnlockIndex |-> n]]
      /\ lockedSupply' = lockedSupply - balances[a].locked
  BY DEF EmergencyWithdraw
<1>2. ClockType /\ BookType
  BY InvParts DEF BookInv
<1>3. /\ balances[a].locked \in Nat /\ lockedSupply \in Nat
      /\ balances'[a].locked = 0 /\ balances'[a].nextUnlockIndex = n
      /\ \A x \in Accounts \ {a} : balances'[x] = balances[x] /\ userLocks'[x] = userLocks[x]
  BY <1>1, <1>2 DEF BookType
<1>4. AmountOf(userLocks[a], (n + 1) .. n) = 0
  <2>1. n \in Nat
    BY <1>2, RecordTypes DEF BookType
  <2>2. (n + 1) .. n = {}
    BY <2>1
  <2>3. AmountOf(userLocks[a], {}) = 0
    BY SumEmpty DEF AmountOf
  <2> QED
    BY <2>2, <2>3, Zenon
<1>5. balances'[a].locked =
        AmountOf(userLocks'[a], (balances'[a].nextUnlockIndex + 1) .. Len(userLocks'[a]))
  BY <1>1, <1>3, <1>4, Zenon
<1>6. lockedSupply' = lockedSupply + (balances'[a].locked - balances[a].locked)
  BY <1>1, <1>3
<1> QED
  BY <1>2, <1>3, <1>5, <1>6, BookMoves

(* Everything else leaves the book alone.                                  *)
BookStep(a) ==
  \/ \E s \in Accounts, amount \in LockAmounts : Lock(s, a, amount)
  \/ \E keeper \in Accounts, delay \in Nat : Withdraw(a, keeper, delay)
  \/ RelockExpiredLocks(a)
  \/ EmergencyWithdraw(a)

(* Every step that touches balances or locks is one of these four, for one *)
(* account.                                                                *)
LEMMA BookSteps ==
  ASSUME IInv, [Next]_vars
  PROVE  (\E a \in Accounts : BookStep(a)) \/ UNCHANGED <<balances, userLocks, lockedSupply>>
<1>1. CASE UserStep
  <2> PICK a \in Accounts :
        \/ \E s \in Accounts, amount \in LockAmounts : Lock(s, a, amount)
        \/ ProcessExpiredLocks(a)
        \/ RelockExpiredLocks(a)
        \/ \E k \in Accounts : KickExpiredLocks(k, a)
        \/ EmergencyWithdraw(a)
        \/ \E d \in Delegatees : Delegate(a, d)
        \/ \E skipped \in SUBSET rewardTokens : GetReward(a, skipped)
    BY <1>1 DEF UserStep
  <2>1. CASE ProcessExpiredLocks(a)
    <3>1. Withdraw(a, a, 0)
      BY <2>1 DEF ProcessExpiredLocks
    <3> QED
      BY <3>1, Zenon DEF BookStep
  <2>2. CASE \E k \in Accounts : KickExpiredLocks(k, a)
    <3> DEFINE delay == rewardsDuration * kickRewardEpochDelay
    <3>1. PICK k \in Accounts : Withdraw(a, k, delay)
      BY <2>2 DEF KickExpiredLocks
    <3>2. delay \in Nat
      BY Durations, ProductIsNat DEF IInv, TypeOK
    <3> HIDE DEF delay
    <3> QED
      BY <3>1, <3>2, Zenon DEF BookStep
  <2>3. CASE (\E d \in Delegatees : Delegate(a, d)) \/ (\E k \in SUBSET rewardTokens : GetReward(a, k))
    BY <2>3 DEF Delegate, GetReward, lockVars
  <2> QED
    BY <2>1, <2>2, <2>3, Zenon DEF BookStep
<1>2. CASE RewardStep
  BY <1>2 DEF RewardStep, QueueNewRewards, AddReward, ApproveRewardDistributor, lockVars
<1>3. CASE OwnerStep
  BY <1>3 DEF OwnerStep, ModifyBlacklist, SetKickIncentive, Shutdown, lockVars
<1>4. CASE CheckpointEpoch
  BY <1>4 DEF CheckpointEpoch
<1>5. CASE Tick \/ UNCHANGED vars
  BY <1>5 DEF Tick, lockVars, vars
<1> QED
  BY <1>1, <1>2, <1>3, <1>4, <1>5 DEF Next

(* No step separates a balance from its open locks.                        *)
LEMMA StepAccounted == IInv /\ LocksAccounted /\ [Next]_vars => LocksAccounted'
<1> SUFFICES ASSUME IInv, LocksAccounted, [Next]_vars PROVE LocksAccounted'
  OBVIOUS
<1>1. BookType'
  <2>1. IInv'
    BY StepInv
  <2> QED
    BY <2>1 DEF IInv, TypeOK, BookType
<1>2. CASE UNCHANGED <<balances, userLocks, lockedSupply>>
  BY <1>2 DEF LocksAccounted
<1>3. CASE \E a \in Accounts : BookStep(a)
  <2> PICK a \in Accounts : BookStep(a)
    BY <1>3
  <2> QED
    BY <1>1, LockAccounted, WithdrawAccounted, RelockAccounted, EmergencyAccounted DEF BookStep
<1> QED
  BY <1>2, <1>3, BookSteps

(* Nothing is locked after construction.                                   *)
LEMMA InitAccounted == Init => LocksAccounted
<1> SUFFICES ASSUME Init PROVE LocksAccounted
  OBVIOUS
<1>1. ASSUME NEW a \in Accounts
      PROVE  balances[a].locked =
               AmountOf(userLocks[a], (balances[a].nextUnlockIndex + 1) .. Len(userLocks[a]))
  <2>1. balances[a].locked = 0 /\ balances[a].nextUnlockIndex = 0 /\ userLocks[a] = <<>>
    BY DEF Init
  <2>2. (balances[a].nextUnlockIndex + 1) .. Len(userLocks[a]) = {}
    BY <2>1
  <2>3. AmountOf(userLocks[a], {}) = 0
    BY SumEmpty DEF AmountOf
  <2> QED
    BY <2>1, <2>2, <2>3, Zenon
<1>2. lockedSupply = SumFunctionOnSet([a \in Accounts |-> balances[a].locked], Accounts)
  <2> DEFINE held == [a \in Accounts |-> balances[a].locked]
  <2>1. lockedSupply = 0 /\ \A a \in Accounts : held[a] = 0
    BY DEF Init
  <2> HIDE DEF held
  <2>2. SumFunctionOnSet(held, Accounts) = 0
    BY <2>1, AddressAssumption, SumOfZeros
  <2> QED
    BY <2>1, <2>2 DEF held
<1> QED
  BY <1>1, <1>2 DEF LocksAccounted

(* No lock is counted twice and none is lost: what an account can still    *)
(* take out of the locker is exactly what its unprocessed records hold,    *)
(* and the locker's supply is the sum over the accounts.                   *)
THEOREM LocksStayAccounted == Spec => []LocksAccounted
<1> USE DEF Spec
<1>1. Init => LocksAccounted
  BY InitAccounted
<1>2. IInv /\ LocksAccounted /\ [Next]_vars => LocksAccounted'
  BY StepAccounted
<1> QED
  BY <1>1, <1>2, Invariant, PTL

-----------------------------------------------------------------------------
(* The rewards.                                                            *)

(* What an account is owed when a token has earned rpt, in units of        *)
(* 1 / Precision and before any rounding.                                  *)
OwedAt(a, t, rpt) ==
  balances[a].locked * (rpt - userData[a][t].rewardPerTokenPaid)
    + userData[a][t].rewards * Precision

AllOwedAt(t, rpt) == SumFunctionOnSet([a \in Accounts |-> OwedAt(a, t, rpt)], Accounts)

(* What the stream of a token gives after a time.                          *)
StreamFrom(t, time) == (rewardData[t].periodFinish - time) * rewardData[t].rewardRate

(* The locker backs what it owes as of the last update of a token, what    *)
(* waits in the queue and the stream since then; a token that was not      *)
(* added has given nobody anything.                                        *)
StreamInv(t) ==
  /\ rewardData[t].lastUpdateTime <= now
  /\ rewardData[t].lastUpdateTime <= rewardData[t].periodFinish
  /\ \A a \in Accounts : userData[a][t].rewardPerTokenPaid <= rewardData[t].rewardPerTokenStored
  /\ t \notin rewardTokens => rewardData[t].rewardPerTokenStored = 0
  /\ AllOwedAt(t, rewardData[t].rewardPerTokenStored)
       + (queuedRewards[t] + StreamFrom(t, rewardData[t].lastUpdateTime)) * Precision
       <= rewardVault[t] * Precision

RewardsInv == \A t \in RewardTokens : StreamInv(t)

(* The types that the proofs about a token need.                           *)
RewardTypes == ClockType /\ BookType /\ AccrueType /\ StreamType /\ RewardVaultType

(* The types that the arguments on rewards need.                           *)
LEMMA RewardTypesHold ==
  IInv => RewardTypes
  BY InvParts DEF BookInv, RewardTypes

(* The types of what one reward token counts, from its invariant.          *)
LEMMA StreamIsTyped ==
  ASSUME RewardTypes, NEW t \in RewardTokens, StreamInv(t)
  PROVE  /\ rewardData[t].periodFinish \in Nat /\ rewardData[t].rewardRate \in Nat
         /\ rewardData[t].lastUpdateTime \in Nat /\ rewardData[t].rewardPerTokenStored \in Nat
         /\ \A a \in Accounts : /\ balances[a].locked \in Nat
                                 /\ userData[a][t].rewardPerTokenPaid \in Nat
                                 /\ userData[a][t].rewards \in Nat
                                 /\ userData[a][t].rewardPerTokenPaid
                                      <= rewardData[t].rewardPerTokenStored
         /\ lastTimeRewardApplicable(t) \in Nat
         /\ rewardData[t].lastUpdateTime <= lastTimeRewardApplicable(t)
         /\ lastTimeRewardApplicable(t) <= now
         /\ lastTimeRewardApplicable(t) <= rewardData[t].periodFinish
         /\ rewardVault[t] \in Nat /\ queuedRewards[t] \in Nat /\ now \in Nat
         /\ Precision \in Nat \ {0} /\ lockedSupply \in Nat /\ IsFiniteSet(Accounts)
<1>1. /\ rewardData[t] \in RewardRecords /\ now \in Nat
      /\ rewardVault[t] \in Nat /\ queuedRewards[t] \in Nat /\ lockedSupply \in Nat
  BY Durations DEF RewardTypes, AccrueType, ClockType, RewardVaultType, StreamType, BookType
<1>2. /\ rewardData[t].periodFinish \in Nat /\ rewardData[t].rewardRate \in Nat
      /\ rewardData[t].lastUpdateTime \in Nat /\ rewardData[t].rewardPerTokenStored \in Nat
  BY <1>1 DEF RewardRecords
<1>3. ASSUME NEW a \in Accounts
      PROVE  /\ balances[a].locked \in Nat
             /\ userData[a][t].rewardPerTokenPaid \in Nat /\ userData[a][t].rewards \in Nat
  <2>1. userData[a][t] \in PaidRecords /\ balances[a].locked \in Nat
    BY DEF RewardTypes, AccrueType, BookType
  <2> QED
    BY <2>1 DEF PaidRecords
<1>4. /\ lastTimeRewardApplicable(t) \in Nat
      /\ rewardData[t].lastUpdateTime <= lastTimeRewardApplicable(t)
      /\ lastTimeRewardApplicable(t) <= now
      /\ lastTimeRewardApplicable(t) <= rewardData[t].periodFinish
  BY <1>1, <1>2 DEF StreamInv, lastTimeRewardApplicable, Least
<1>5. \A a \in Accounts :
        userData[a][t].rewardPerTokenPaid <= rewardData[t].rewardPerTokenStored
  BY DEF StreamInv
<1> QED
  BY <1>1, <1>2, <1>3, <1>4, <1>5, AmountAssumption, AddressAssumption

(* The reward per token never falls, and never gives more than the stream. *)
LEMMA RewardPerTokenGrows ==
  ASSUME RewardTypes, NEW t \in RewardTokens, StreamInv(t)
  PROVE  /\ RewardPerToken(t) \in Nat
         /\ rewardData[t].rewardPerTokenStored <= RewardPerToken(t)
         /\ lockedSupply * (RewardPerToken(t) - rewardData[t].rewardPerTokenStored)
              <= ((lastTimeRewardApplicable(t) - rewardData[t].lastUpdateTime)
                    * rewardData[t].rewardRate) * Precision
<1> DEFINE elapsed == lastTimeRewardApplicable(t) - rewardData[t].lastUpdateTime
           given == elapsed * rewardData[t].rewardRate
           stored == rewardData[t].rewardPerTokenStored
           added == (given * Precision) \div lockedSupply
<1>1. /\ elapsed \in Nat /\ rewardData[t].rewardRate \in Nat /\ lockedSupply \in Nat /\ stored \in Nat
      /\ Precision \in Nat
  BY StreamIsTyped
<1>2. given \in Nat
  BY <1>1, ProductIsNat
<1>3. given * Precision \in Nat
  <2> HIDE DEF given
  <2> QED
    BY <1>1, <1>2, ProductIsNat
<1>4. CASE lockedSupply = 0
  <2>1. RewardPerToken(t) = stored
    BY <1>4 DEF RewardPerToken
  <2>2. lockedSupply * (stored - stored) = 0
    BY <1>1
  <2> HIDE DEF given, stored
  <2>3. lockedSupply * (stored - stored) <= given * Precision
    BY <1>3, <2>2
  <2> QED
    BY <1>1, <2>1, <2>3 DEF given, stored
<1>5. CASE lockedSupply # 0
  <2>1. RewardPerToken(t) = stored + added
    BY <1>5 DEF RewardPerToken
  <2>2. added \in Nat /\ added * lockedSupply <= given * Precision
    <3> HIDE DEF given
    <3> QED
      BY <1>1, <1>3, <1>5, DivIsFloor
  <2>3. lockedSupply * ((stored + added) - stored) = added * lockedSupply
    <3> HIDE DEF stored, added
    <3> QED
      BY <1>1, <2>2, SMT
  <2> HIDE DEF given, stored, added
  <2> QED
    BY <1>1, <2>1, <2>2, <2>3 DEF given, stored
<1> QED
  BY <1>4, <1>5

(* What is owed is a natural number, and what can be claimed of it is      *)
(* rounded down.                                                           *)
LEMMA EarnedIsOwed ==
  ASSUME RewardTypes, NEW t \in RewardTokens, StreamInv(t), NEW a \in Accounts
  PROVE  /\ Earned(a, t) \in Nat /\ Earned(a, t) * Precision <= OwedAt(a, t, RewardPerToken(t))
         /\ OwedAt(a, t, RewardPerToken(t)) \in Nat
         /\ OwedAt(a, t, rewardData[t].rewardPerTokenStored) \in Nat
         /\ OwedAt(a, t, RewardPerToken(t)) = OwedAt(a, t, rewardData[t].rewardPerTokenStored)
              + balances[a].locked * (RewardPerToken(t) - rewardData[t].rewardPerTokenStored)
<1> DEFINE rpt == RewardPerToken(t)
           stored == rewardData[t].rewardPerTokenStored
           stake == balances[a].locked
           from == userData[a][t].rewardPerTokenPaid
           done == userData[a][t].rewards
<1>1. /\ stake \in Nat /\ from \in Nat /\ done \in Nat /\ Precision \in Nat \ {0}
      /\ rpt \in Nat /\ stored \in Nat /\ from <= stored /\ stored <= rpt
  BY StreamIsTyped, RewardPerTokenGrows
<1>2. /\ Earned(a, t) = (stake * (rpt - from)) \div Precision + done
      /\ OwedAt(a, t, rpt) = stake * (rpt - from) + done * Precision
      /\ OwedAt(a, t, stored) = stake * (stored - from) + done * Precision
  BY DEF Earned, OwedAt
<1> HIDE DEF rpt, stored, stake, from, done
<1>3. from <= rpt
  BY <1>1
<1>4. /\ (stake * (rpt - from)) \div Precision + done \in Nat
      /\ ((stake * (rpt - from)) \div Precision + done) * Precision
            <= stake * (rpt - from) + done * Precision
  BY <1>1, <1>3, ClaimIsRounded
<1>5. /\ stake * (stored - from) + done * Precision \in Nat
      /\ stake * (rpt - stored) \in Nat
      /\ stake * (rpt - from) + done * Precision
            = (stake * (stored - from) + done * Precision) + stake * (rpt - stored)
  BY <1>1, ClaimGrows
<1>6. /\ Earned(a, t) \in Nat /\ Earned(a, t) * Precision <= OwedAt(a, t, rpt)
      /\ OwedAt(a, t, rpt) = OwedAt(a, t, stored) + stake * (rpt - stored)
      /\ OwedAt(a, t, stored) \in Nat
  BY <1>2, <1>4, <1>5, Zenon
<1>7. OwedAt(a, t, rpt) \in Nat
  BY <1>5, <1>6
<1> QED
  BY <1>6, <1>7 DEF rpt, stored, stake

(* Until now the stream has given the accounts, rounded down, no more than *)
(* was held back for the time since the last update.                       *)
LEMMA AccrualIsBacked ==
  ASSUME RewardTypes, LocksAccounted, NEW t \in RewardTokens, StreamInv(t)
  PROVE  /\ AllOwedAt(t, RewardPerToken(t)) \in Nat
         /\ AllOwedAt(t, rewardData[t].rewardPerTokenStored) \in Nat
         /\ StreamFrom(t, lastTimeRewardApplicable(t)) \in Nat
         /\ StreamFrom(t, lastTimeRewardApplicable(t))
              <= StreamFrom(t, rewardData[t].lastUpdateTime)
         /\ StreamFrom(t, rewardData[t].lastUpdateTime) \in Nat
         /\ AllOwedAt(t, RewardPerToken(t))
              + (queuedRewards[t] + StreamFrom(t, lastTimeRewardApplicable(t))) * Precision
              <= rewardVault[t] * Precision
<1> DEFINE stored == rewardData[t].rewardPerTokenStored
           rpt == RewardPerToken(t)
           growth == rpt - stored
           owed == [a \in Accounts |-> OwedAt(a, t, stored)]
           owedNow == [a \in Accounts |-> OwedAt(a, t, rpt)]
           stakes == [a \in Accounts |-> balances[a].locked]
           last == lastTimeRewardApplicable(t)
           begin == rewardData[t].lastUpdateTime
           end == rewardData[t].periodFinish
           rate == rewardData[t].rewardRate
           given == (last - begin) * rate
           rest == (end - last) * rate
           held == (end - begin) * rate
           queue == queuedRewards[t]
<1>1. /\ IsFiniteSet(Accounts) /\ stored \in Nat /\ rpt \in Nat /\ growth \in Nat
      /\ Precision \in Nat /\ queue \in Nat /\ rewardVault[t] \in Nat
      /\ end \in Nat /\ begin \in Nat /\ rate \in Nat /\ last \in Nat /\ begin <= last /\ last <= end
  BY StreamIsTyped, RewardPerTokenGrows
<1>2. \A a \in Accounts : /\ owed[a] \in Nat /\ stakes[a] \in Nat
                          /\ owedNow[a] = owed[a] + stakes[a] * growth
  BY EarnedIsOwed, StreamIsTyped
<1>3. /\ AllOwedAt(t, rpt) = SumFunctionOnSet(owedNow, Accounts)
      /\ AllOwedAt(t, stored) = SumFunctionOnSet(owed, Accounts)
      /\ lockedSupply = SumFunctionOnSet(stakes, Accounts)
  BY DEF AllOwedAt, LocksAccounted
<1>4. lockedSupply * growth <= given * Precision
  BY RewardPerTokenGrows
<1>5. AllOwedAt(t, stored) + (queue + held) * Precision <= rewardVault[t] * Precision
  BY DEF StreamInv, StreamFrom
<1>6. StreamFrom(t, last) = rest /\ StreamFrom(t, begin) = held
  BY DEF StreamFrom
<1> HIDE DEF owed, owedNow, stakes, rpt, stored, growth, last, begin, end, rate, queue
<1>7. /\ SumFunctionOnSet(owed, Accounts) \in Nat /\ SumFunctionOnSet(owedNow, Accounts) \in Nat
      /\ SumFunctionOnSet(owedNow, Accounts)
            = SumFunctionOnSet(owed, Accounts) + SumFunctionOnSet(stakes, Accounts) * growth
  BY <1>1, <1>2, ClaimsGrow
<1>8. /\ given \in Nat /\ rest \in Nat /\ held = rest + given
  <2>1. last - begin \in Nat /\ end - last \in Nat
    BY <1>1
  <2>2. (end - begin) * rate = (end - last) * rate + (last - begin) * rate
    BY <1>1, SMT
  <2> QED
    BY <1>1, <2>1, <2>2, ProductIsNat
<1> HIDE DEF given, rest, held
<1>9. (queue + held) * Precision = (queue + rest) * Precision + given * Precision
  BY <1>1, <1>8, SMT
<1>10. /\ (queue + rest) * Precision \in Nat /\ given * Precision \in Nat
       /\ rewardVault[t] * Precision \in Nat
  BY <1>1, <1>8, ProductIsNat
<1>11. SumFunctionOnSet(owedNow, Accounts) + (queue + rest) * Precision <= rewardVault[t] * Precision
  <2>1. SumFunctionOnSet(owedNow, Accounts) = SumFunctionOnSet(owed, Accounts) + lockedSupply * growth
    BY <1>3, <1>7
  <2>2. lockedSupply * growth \in Int
    BY <1>7, <2>1, <1>1, StreamIsTyped, SMT
  <2> QED
    BY <1>3, <1>4, <1>5, <1>7, <1>9, <1>10, <2>1, <2>2
<1>12. rest <= held /\ held \in Nat
  BY <1>8
<1> QED
  BY <1>3, <1>6, <1>7, <1>8, <1>11, <1>12 DEF rpt, stored, last, begin, queue

(* Hence what is owed as of now is in the locker.                          *)
LEMMA TokenIsSolvent ==
  ASSUME RewardTypes, LocksAccounted, NEW t \in RewardTokens, StreamInv(t)
  PROVE  SumFunctionOnSet([a \in Accounts |-> Earned(a, t)], Accounts) + queuedRewards[t] + StreamLeft(t)
           <= rewardVault[t]
<1> DEFINE earned == [a \in Accounts |-> Earned(a, t)]
           owed == [a \in Accounts |-> OwedAt(a, t, RewardPerToken(t))]
           rest == queuedRewards[t] + StreamFrom(t, lastTimeRewardApplicable(t))
           held == rewardVault[t]
<1>1. /\ IsFiniteSet(Accounts) /\ Precision \in Nat \ {0} /\ queuedRewards[t] \in Nat
      /\ held \in Nat /\ now \in Nat /\ rewardData[t].periodFinish \in Nat
      /\ rewardData[t].rewardRate \in Nat
  BY StreamIsTyped
<1>2. \A a \in Accounts : earned[a] \in Nat /\ owed[a] \in Nat /\ earned[a] * Precision <= owed[a]
  BY EarnedIsOwed
<1>3. /\ StreamFrom(t, lastTimeRewardApplicable(t)) \in Nat
      /\ SumFunctionOnSet(owed, Accounts) + rest * Precision <= held * Precision
  BY AccrualIsBacked DEF AllOwedAt
<1>4. rest \in Nat
  BY <1>1, <1>3
<1>5. StreamLeft(t) = StreamFrom(t, lastTimeRewardApplicable(t))
  <2>1. CASE rewardData[t].periodFinish > now
    <3>1. lastTimeRewardApplicable(t) = now
      BY <1>1, <2>1 DEF lastTimeRewardApplicable, Least
    <3> QED
      BY <2>1, <3>1 DEF StreamLeft, StreamFrom
  <2>2. CASE ~(rewardData[t].periodFinish > now)
    <3>1. lastTimeRewardApplicable(t) = rewardData[t].periodFinish
      BY <1>1, <2>2 DEF lastTimeRewardApplicable, Least
    <3>2. StreamFrom(t, lastTimeRewardApplicable(t)) = 0
      BY <1>1, <3>1 DEF StreamFrom
    <3> QED
      BY <2>2, <3>2 DEF StreamLeft
  <2> QED
    BY <2>1, <2>2
<1> HIDE DEF earned, owed, rest, held
<1>6. SumFunctionOnSet(earned, Accounts) \in Nat /\ SumFunctionOnSet(earned, Accounts) + rest <= held
  BY <1>1, <1>2, <1>3, <1>4, ClaimsAreBacked
<1>7. SumFunctionOnSet(earned, Accounts) + queuedRewards[t] + StreamLeft(t) <= held
  BY <1>1, <1>3, <1>5, <1>6 DEF rest
<1> QED
  BY <1>7 DEF earned, held

(* A token that a step leaves alone: nobody's lock grows, or the token has *)
(* not given anything yet.                                                 *)
LEMMA StreamPassesOn ==
  ASSUME RewardTypes, RewardTypes', NEW t \in RewardTokens, StreamInv(t), now <= now',
         rewardData'[t] = rewardData[t], \A a \in Accounts : userData'[a][t] = userData[a][t],
         queuedRewards'[t] = queuedRewards[t], rewardVault'[t] = rewardVault[t],
         rewardTokens \subseteq rewardTokens',
         \/ \A a \in Accounts : balances'[a].locked <= balances[a].locked
         \/ rewardData[t].rewardPerTokenStored = 0
  PROVE  StreamInv(t)'
<1> DEFINE stored == rewardData[t].rewardPerTokenStored
           owed == [a \in Accounts |-> OwedAt(a, t, stored)]
           owedNext == [a \in Accounts |->
                          balances'[a].locked * (stored - userData[a][t].rewardPerTokenPaid)
                            + userData[a][t].rewards * Precision]
           held == (queuedRewards[t] + StreamFrom(t, rewardData[t].lastUpdateTime)) * Precision
<1>1. /\ IsFiniteSet(Accounts) /\ Precision \in Nat /\ stored \in Nat /\ now \in Nat
      /\ rewardVault[t] \in Nat /\ rewardData[t].lastUpdateTime \in Nat
      /\ queuedRewards[t] \in Nat /\ rewardData[t].rewardRate \in Nat
      /\ rewardData[t].periodFinish - rewardData[t].lastUpdateTime \in Nat
  BY StreamIsTyped DEF StreamInv
<1>2. held \in Nat
  <2>1. StreamFrom(t, rewardData[t].lastUpdateTime) \in Nat
    BY <1>1, ProductIsNat DEF StreamFrom
  <2>2. queuedRewards[t] + StreamFrom(t, rewardData[t].lastUpdateTime) \in Nat
    BY <1>1, <2>1
  <2> QED
    BY <1>1, <2>2, ProductIsNat
<1>3. \A a \in Accounts : owed[a] \in Int /\ owedNext[a] \in Int /\ owedNext[a] <= owed[a]
  <2> TAKE a \in Accounts
  <2> DEFINE growth == stored - userData[a][t].rewardPerTokenPaid
             lock == balances[a].locked
             lockNext == balances'[a].locked
             done == userData[a][t].rewards * Precision
  <2>1. /\ lock \in Nat /\ lockNext \in Nat /\ growth \in Nat /\ done \in Nat
        /\ lockNext <= lock \/ growth = 0
    <3>1. /\ lock \in Nat /\ userData[a][t].rewardPerTokenPaid \in Nat /\ userData[a][t].rewards \in Nat
          /\ userData[a][t].rewardPerTokenPaid <= stored
      BY StreamIsTyped
    <3>2. lockNext \in Nat
      BY DEF RewardTypes, BookType
    <3>3. done \in Nat
      BY <1>1, <3>1, ProductIsNat
    <3> QED
      BY <1>1, <3>1, <3>2, <3>3
  <2>2. owed[a] = lock * growth + done /\ owedNext[a] = lockNext * growth + done
    BY DEF OwedAt
  <2> HIDE DEF growth, lock, lockNext, done
  <2>3. lock * growth \in Nat /\ lockNext * growth \in Nat
    BY <2>1, ProductIsNat
  <2>4. lockNext * growth <= lock * growth
    <3>1. CASE lockNext <= lock
      BY <2>1, <3>1, ProductIsMonotone
    <3>2. CASE growth = 0
      BY <2>1, <3>2
    <3> QED
      BY <2>1, <3>1, <3>2
  <2> HIDE DEF owed, owedNext
  <2> QED
    BY <2>1, <2>2, <2>3, <2>4
<1>4. /\ AllOwedAt(t, stored) = SumFunctionOnSet(owed, Accounts)
      /\ AllOwedAt(t, rewardData[t].rewardPerTokenStored)' = SumFunctionOnSet(owedNext, Accounts)
      /\ (queuedRewards[t] + StreamFrom(t, rewardData[t].lastUpdateTime))' * Precision = held
  BY DEF AllOwedAt, OwedAt, StreamFrom
<1> HIDE DEF owed, owedNext
<1>5. /\ SumFunctionOnSet(owedNext, Accounts) <= SumFunctionOnSet(owed, Accounts)
      /\ SumFunctionOnSet(owedNext, Accounts) \in Int /\ SumFunctionOnSet(owed, Accounts) \in Int
  BY <1>1, <1>3, SumIsMonotone, SumIsInt
<1>6. rewardVault[t] * Precision \in Nat
  BY <1>1, ProductIsNat
<1>7. SumFunctionOnSet(owed, Accounts) + held <= rewardVault[t] * Precision
  BY <1>4 DEF StreamInv
<1>8. SumFunctionOnSet(owedNext, Accounts) + held <= rewardVault[t] * Precision
  <2> HIDE DEF held
  <2> QED
    BY <1>2, <1>5, <1>6, <1>7
<1>9. now' \in Nat /\ rewardData[t].lastUpdateTime <= now'
  BY <1>1, Durations DEF RewardTypes, ClockType, StreamInv
<1> HIDE DEF held, stored
<1> QED
  BY <1>4, <1>8, <1>9 DEF StreamInv

(* A token whose stream is brought up to date, restarted or topped up,     *)
(* with no account settled.                                                *)
LEMMA StreamRestarts ==
  ASSUME RewardTypes, RewardTypes', LocksAccounted, NEW t \in RewardTokens, StreamInv(t),
         \A a \in Accounts : userData'[a][t] = userData[a][t] /\ balances'[a].locked = balances[a].locked,
         rewardData'[t].lastUpdateTime <= now',
         rewardData'[t].lastUpdateTime <= rewardData'[t].periodFinish,
         rewardTokens \subseteq rewardTokens',
         t \notin rewardTokens =>
           rewardData'[t].rewardPerTokenStored = rewardData[t].rewardPerTokenStored,
         NEW begin \in {rewardData[t].lastUpdateTime, lastTimeRewardApplicable(t)},
         \/ rewardData'[t].rewardPerTokenStored = rewardData[t].rewardPerTokenStored
         \/ /\ rewardData'[t].rewardPerTokenStored = RewardPerToken(t)
            /\ begin = lastTimeRewardApplicable(t),
         queuedRewards'[t] + StreamFrom(t, rewardData[t].lastUpdateTime)' + rewardVault[t]
           <= rewardVault'[t] + queuedRewards[t] + StreamFrom(t, begin)
  PROVE  StreamInv(t)'
<1> DEFINE stored == rewardData'[t].rewardPerTokenStored
           holds == queuedRewards[t] + StreamFrom(t, begin)
           holdsNext == queuedRewards'[t] + StreamFrom(t, rewardData[t].lastUpdateTime)'
<1>1. /\ Precision \in Nat /\ rewardVault[t] \in Nat /\ queuedRewards[t] \in Nat
      /\ rewardData[t].rewardPerTokenStored \in Nat /\ RewardPerToken(t) \in Nat
      /\ rewardData[t].rewardPerTokenStored <= RewardPerToken(t)
      /\ \A a \in Accounts : /\ userData[a][t].rewardPerTokenPaid \in Nat
                              /\ userData[a][t].rewardPerTokenPaid <= rewardData[t].rewardPerTokenStored
  BY StreamIsTyped, RewardPerTokenGrows
<1>2. /\ rewardVault'[t] \in Nat /\ queuedRewards'[t] \in Nat
      /\ StreamFrom(t, rewardData[t].lastUpdateTime)' \in Nat
  <2>1. rewardData'[t] \in RewardRecords
    BY DEF RewardTypes, AccrueType
  <2>2. rewardData'[t].periodFinish - rewardData'[t].lastUpdateTime \in Nat /\ rewardData'[t].rewardRate \in Nat
    BY <2>1 DEF RewardRecords
  <2>3. (rewardData'[t].periodFinish - rewardData'[t].lastUpdateTime) * rewardData'[t].rewardRate \in Nat
    BY <2>2, ProductIsNat
  <2> QED
    BY <2>3 DEF StreamFrom, RewardTypes, RewardVaultType, StreamType
<1>3. /\ AllOwedAt(t, RewardPerToken(t)) \in Nat
      /\ AllOwedAt(t, rewardData[t].rewardPerTokenStored) \in Nat
      /\ StreamFrom(t, begin) \in Nat
  BY AccrualIsBacked
<1>4. /\ AllOwedAt(t, stored) \in Nat
      /\ AllOwedAt(t, stored) + holds * Precision <= rewardVault[t] * Precision
  <2>1. CASE begin = lastTimeRewardApplicable(t) /\ stored = RewardPerToken(t)
    BY <1>3, <2>1, AccrualIsBacked
  <2>2. CASE begin = rewardData[t].lastUpdateTime /\ stored = rewardData[t].rewardPerTokenStored
    BY <1>3, <2>2 DEF StreamInv
  <2>3. CASE begin = lastTimeRewardApplicable(t) /\ stored = rewardData[t].rewardPerTokenStored
    <3> DEFINE early == queuedRewards[t] + StreamFrom(t, rewardData[t].lastUpdateTime)
               all == AllOwedAt(t, rewardData[t].rewardPerTokenStored)
    <3>1. holds \in Nat /\ early \in Nat /\ holds <= early
      BY <1>1, <2>3, AccrualIsBacked
    <3>2. all + early * Precision <= rewardVault[t] * Precision
      BY DEF StreamInv
    <3> HIDE DEF holds, early
    <3>3. holds * Precision <= early * Precision
      BY <1>1, <3>1, ProductIsMonotone
    <3>4. holds * Precision \in Nat /\ early * Precision \in Nat /\ rewardVault[t] * Precision \in Nat
      BY <1>1, <3>1, ProductIsNat
    <3>5. all \in Nat
      BY <1>3
    <3>6. AllOwedAt(t, stored) = all
      BY <2>3, Zenon
    <3> HIDE DEF all
    <3> QED
      BY <3>2, <3>3, <3>4, <3>5, <3>6
  <2> QED
    BY <2>1, <2>2, <2>3
<1>5. holds \in Nat /\ holdsNext \in Nat /\ holdsNext + rewardVault[t] <= rewardVault'[t] + holds
  BY <1>1, <1>2, <1>3
<1>6. AllOwedAt(t, rewardData[t].rewardPerTokenStored)' = AllOwedAt(t, stored)
  BY DEF AllOwedAt, OwedAt
<1>7. \A a \in Accounts : userData'[a][t].rewardPerTokenPaid <= stored
  BY <1>1
<1> HIDE DEF holds, holdsNext, stored
<1>8. AllOwedAt(t, stored) + holdsNext * Precision <= rewardVault'[t] * Precision
  <2>1. (holdsNext + rewardVault[t]) * Precision <= (rewardVault'[t] + holds) * Precision
    <3>1. holdsNext + rewardVault[t] \in Nat /\ rewardVault'[t] + holds \in Nat
      BY <1>1, <1>2, <1>5
    <3> QED
      BY <1>1, <1>5, <3>1, ProductIsMonotone
  <2>2. /\ (holdsNext + rewardVault[t]) * Precision = holdsNext * Precision + rewardVault[t] * Precision
        /\ (rewardVault'[t] + holds) * Precision = rewardVault'[t] * Precision + holds * Precision
    BY <1>1, <1>2, <1>5, SMT
  <2>3. /\ holdsNext * Precision \in Nat /\ holds * Precision \in Nat
        /\ rewardVault[t] * Precision \in Nat /\ rewardVault'[t] * Precision \in Nat
    BY <1>1, <1>2, <1>5, ProductIsNat
  <2> QED
    BY <1>4, <2>1, <2>2, <2>3
<1>9. t \notin rewardTokens' => stored = 0
  BY DEF StreamInv, stored
<1> QED
  BY <1>6, <1>7, <1>8, <1>9 DEF StreamInv, holdsNext, stored

(* updateReward settles an account: it is paid some of what it has earned, *)
(* the rest is written down, and its lock changes.                         *)
LEMMA StreamSettles ==
  ASSUME RewardTypes, RewardTypes', LocksAccounted, NEW t \in RewardTokens, StreamInv(t),
         NEW a \in Accounts, NEW paidOut \in Nat, now' = now, t \in rewardTokens',
         rewardData'[t].periodFinish = rewardData[t].periodFinish,
         rewardData'[t].rewardRate = rewardData[t].rewardRate,
         rewardData'[t].rewardPerTokenStored = RewardPerToken(t),
         rewardData'[t].lastUpdateTime = lastTimeRewardApplicable(t),
         userData'[a][t].rewardPerTokenPaid = RewardPerToken(t),
         userData'[a][t].rewards + paidOut = Earned(a, t),
         \A b \in Accounts \ {a} :
           userData'[b][t] = userData[b][t] /\ balances'[b].locked = balances[b].locked,
         rewardVault'[t] = rewardVault[t] - paidOut, queuedRewards'[t] = queuedRewards[t]
  PROVE  StreamInv(t)'
<1> DEFINE rpt == RewardPerToken(t)
           last == lastTimeRewardApplicable(t)
           owedNow == [b \in Accounts |-> OwedAt(b, t, rpt)]
           owedNext == [b \in Accounts |->
                          balances'[b].locked * (rpt - userData'[b][t].rewardPerTokenPaid)
                            + userData'[b][t].rewards * Precision]
           rest == queuedRewards[t] + StreamFrom(t, last)
<1>1. /\ IsFiniteSet(Accounts) /\ Precision \in Nat /\ queuedRewards[t] \in Nat /\ rewardVault[t] \in Nat
      /\ now \in Nat /\ last \in Nat /\ last <= now /\ last <= rewardData[t].periodFinish
      /\ rpt \in Nat /\ rewardData[t].rewardPerTokenStored <= rpt
      /\ rewardData[t].rewardPerTokenStored \in Nat
  BY StreamIsTyped, RewardPerTokenGrows
<1>2. \A b \in Accounts : /\ userData[b][t].rewardPerTokenPaid \in Nat
                          /\ userData[b][t].rewardPerTokenPaid <= rewardData[t].rewardPerTokenStored
  BY StreamIsTyped
<1>3. balances'[a].locked \in Nat /\ userData'[a][t].rewards \in Nat
  <2>1. userData'[a][t] \in PaidRecords
    BY DEF RewardTypes, AccrueType
  <2> QED
    BY <2>1 DEF RewardTypes, BookType, PaidRecords
<1>4. Earned(a, t) \in Nat /\ Earned(a, t) * Precision <= owedNow[a]
  BY EarnedIsOwed
<1>5. \A b \in Accounts : owedNow[b] \in Nat
  BY EarnedIsOwed
<1>6. /\ AllOwedAt(t, rpt) + rest * Precision <= rewardVault[t] * Precision
      /\ rest \in Nat
  BY <1>1, AccrualIsBacked
<1>7. owedNext[a] = userData'[a][t].rewards * Precision /\ owedNext[a] \in Nat
  <2>1. balances'[a].locked * (rpt - rpt) = 0
    BY <1>1, <1>3
  <2>2. userData'[a][t].rewards * Precision \in Nat
    BY <1>1, <1>3, ProductIsNat
  <2>3. owedNext[a] = balances'[a].locked * (rpt - rpt) + userData'[a][t].rewards * Precision
    OBVIOUS
  <2> QED
    BY <2>1, <2>2, <2>3
<1>8. owedNext[a] + paidOut * Precision <= owedNow[a] /\ paidOut * Precision \in Nat
  <2>1. (userData'[a][t].rewards + paidOut) * Precision
          = userData'[a][t].rewards * Precision + paidOut * Precision
    BY <1>1, <1>3, SMT
  <2>2. paidOut * Precision \in Nat
    BY <1>1, ProductIsNat
  <2>3. Earned(a, t) * Precision = userData'[a][t].rewards * Precision + paidOut * Precision
    BY <2>1
  <2> QED
    BY <1>4, <1>7, <2>2, <2>3
<1>9. \A b \in Accounts : b # a => owedNext[b] = owedNow[b]
  BY DEF OwedAt
<1>10. AllOwedAt(t, rewardData[t].rewardPerTokenStored)' = SumFunctionOnSet(owedNext, Accounts)
  BY DEF AllOwedAt, OwedAt
<1>11. AllOwedAt(t, rpt) = SumFunctionOnSet(owedNow, Accounts)
  BY DEF AllOwedAt
<1>12. queuedRewards'[t] + StreamFrom(t, rewardData[t].lastUpdateTime)' = rest
  BY DEF StreamFrom
<1>13. \A b \in Accounts : userData'[b][t].rewardPerTokenPaid <= rpt
  BY <1>1, <1>2
<1> HIDE DEF owedNow, owedNext, rest, rpt, last
<1>14. SumFunctionOnSet(owedNext, Accounts) = SumFunctionOnSet(owedNow, Accounts) + (owedNext[a] - owedNow[a])
  BY <1>1, <1>5, <1>7, <1>9, SumOfChanged
<1>15. SumFunctionOnSet(owedNow, Accounts) \in Nat
  BY <1>1, <1>5, SumIsNat
<1>16. SumFunctionOnSet(owedNext, Accounts) + rest * Precision <= (rewardVault[t] - paidOut) * Precision
  <2>1. (rewardVault[t] - paidOut) * Precision = rewardVault[t] * Precision - paidOut * Precision
    BY <1>1, SMT
  <2>2. rest * Precision \in Nat /\ rewardVault[t] * Precision \in Nat
    BY <1>1, <1>6, ProductIsNat
  <2>3. SumFunctionOnSet(owedNow, Accounts) + rest * Precision <= rewardVault[t] * Precision
    BY <1>6, <1>11
  <2>4. SumFunctionOnSet(owedNext, Accounts) + paidOut * Precision <= SumFunctionOnSet(owedNow, Accounts)
    BY <1>5, <1>7, <1>8, <1>14, <1>15
  <2>5. SumFunctionOnSet(owedNext, Accounts) \in Int
    BY <1>5, <1>7, <1>14, <1>15
  <2> QED
    BY <1>8, <1>15, <2>1, <2>2, <2>3, <2>4, <2>5
<1> QED
  BY <1>1, <1>10, <1>12, <1>13, <1>16 DEF StreamInv, rpt, last

(* The rewards an account is paid by a handler that updates them: nothing, *)
(* but in getReward.                                                       *)
LEMMA UpdatesSettle ==
  ASSUME RewardTypes, RewardTypes', LocksAccounted, RewardsInv, NEW a \in Accounts,
         NEW paid \in SUBSET rewardTokens, now' = now,
         rewardData' = AccruedRewardData,
         userData' = [userData EXCEPT ![a] =
           [t \in RewardTokens |->
              [AccruedUserData(a)[t] EXCEPT !.rewards = IF t \in paid THEN 0 ELSE @]]],
         rewardVault' = [t \in RewardTokens |-> rewardVault[t] - IF t \in paid THEN Earned(a, t) ELSE 0],
         rewardTokens' = rewardTokens, queuedRewards' = queuedRewards,
         \A b \in Accounts \ {a} : balances'[b] = balances[b]
  PROVE  RewardsInv'
<1> SUFFICES ASSUME NEW t \in RewardTokens PROVE StreamInv(t)'
  BY DEF RewardsInv
<1>1. StreamInv(t) /\ now \in Nat /\ rewardVault[t] \in Nat
  BY StreamIsTyped DEF RewardsInv
<1>2. userData \in [Accounts -> [RewardTokens -> PaidRecords]] /\ rewardData[t] \in RewardRecords
  BY DEF RewardTypes, AccrueType
<1>3. \A b \in Accounts \ {a} : userData'[b][t] = userData[b][t] /\ balances'[b].locked = balances[b].locked
  BY <1>2
<1>4. CASE t \in rewardTokens
  <2> DEFINE paidOut == IF t \in paid THEN Earned(a, t) ELSE 0
  <2>1. Earned(a, t) \in Nat /\ RewardPerToken(t) \in Nat
    BY <1>1, EarnedIsOwed, RewardPerTokenGrows
  <2>2. AccruedUserData(a)[t] = [rewardPerTokenPaid |-> RewardPerToken(t), rewards |-> Earned(a, t)]
    BY <1>4 DEF AccruedUserData
  <2>3. userData'[a][t] = [AccruedUserData(a)[t] EXCEPT !.rewards = IF t \in paid THEN 0 ELSE @]
    BY <1>2
  <2>4. /\ userData'[a][t].rewardPerTokenPaid = RewardPerToken(t)
        /\ userData'[a][t].rewards = IF t \in paid THEN 0 ELSE Earned(a, t)
    BY <2>2, <2>3
  <2>5. rewardData'[t] = [rewardData[t] EXCEPT !.rewardPerTokenStored = RewardPerToken(t),
                                               !.lastUpdateTime = lastTimeRewardApplicable(t)]
    BY <1>4 DEF AccruedRewardData
  <2>6. /\ rewardData'[t].periodFinish = rewardData[t].periodFinish
        /\ rewardData'[t].rewardRate = rewardData[t].rewardRate
        /\ rewardData'[t].rewardPerTokenStored = RewardPerToken(t)
        /\ rewardData'[t].lastUpdateTime = lastTimeRewardApplicable(t)
    BY <1>2, <2>5 DEF RewardRecords
  <2>7. /\ paidOut \in Nat /\ userData'[a][t].rewards + paidOut = Earned(a, t)
        /\ rewardVault'[t] = rewardVault[t] - paidOut
    BY <1>1, <2>1, <2>4
  <2> HIDE DEF paidOut
  <2> QED
    BY <1>1, <1>3, <1>4, <2>4, <2>6, <2>7, StreamSettles
<1>5. CASE t \notin rewardTokens
  <2>1. rewardData'[t] = rewardData[t] /\ rewardData[t].rewardPerTokenStored = 0
    BY <1>1, <1>5 DEF AccruedRewardData, StreamInv
  <2>2. userData'[a][t] = userData[a][t]
    <3>1. userData'[a][t] = [AccruedUserData(a)[t] EXCEPT !.rewards = IF t \in paid THEN 0 ELSE @]
      BY <1>2
    <3>2. AccruedUserData(a)[t] = userData[a][t] /\ userData[a][t] \in PaidRecords /\ t \notin paid
      BY <1>2, <1>5 DEF AccruedUserData
    <3> QED
      BY <3>1, <3>2 DEF PaidRecords
  <2>3. rewardVault'[t] = rewardVault[t]
    BY <1>1, <1>5
  <2>4. \A b \in Accounts : userData'[b][t] = userData[b][t]
    BY <1>3, <2>2
  <2>5. now <= now'
    BY <1>1
  <2> QED
    BY <1>1, <2>1, <2>3, <2>4, <2>5, StreamPassesOn
<1> QED
  BY <1>4, <1>5

(* updateReward before a change of an account's lock.                      *)
LEMMA UpdateRewardSettles ==
  ASSUME RewardTypes, RewardTypes', LocksAccounted, RewardsInv, NEW a \in Accounts,
         UpdateReward(a), now' = now, rewardVault' = rewardVault,
         rewardTokens' = rewardTokens, queuedRewards' = queuedRewards,
         \A b \in Accounts \ {a} : balances'[b] = balances[b]
  PROVE  RewardsInv'
<1> DEFINE none == {}
           left == [t \in RewardTokens |->
                      [AccruedUserData(a)[t] EXCEPT !.rewards = IF t \in none THEN 0 ELSE @]]
<1>1. rewardData' = AccruedRewardData /\ userData' = [userData EXCEPT ![a] = AccruedUserData(a)]
  BY DEF UpdateReward
<1>2. left = AccruedUserData(a)
  <2>1. ASSUME NEW t \in RewardTokens
        PROVE  [AccruedUserData(a)[t] EXCEPT !.rewards = IF t \in none THEN 0 ELSE @] = AccruedUserData(a)[t]
    <3>1. AccruedUserData(a)[t] \in [rewardPerTokenPaid : {AccruedUserData(a)[t].rewardPerTokenPaid},
                                     rewards : {AccruedUserData(a)[t].rewards}]
      <4>1. userData[a][t] \in PaidRecords
        BY DEF RewardTypes, AccrueType
      <4> QED
        BY <4>1 DEF AccruedUserData, PaidRecords
    <3> QED
      BY <3>1
  <2>2. AccruedUserData(a) = [t \in RewardTokens |-> AccruedUserData(a)[t]]
    BY DEF AccruedUserData
  <2> QED
    BY <2>1, <2>2, Zenon
<1>3. rewardVault' = [t \in RewardTokens |-> rewardVault[t] - IF t \in none THEN Earned(a, t) ELSE 0]
  BY DEF RewardTypes, RewardVaultType
<1>4. userData' = [userData EXCEPT ![a] = left] /\ none \in SUBSET rewardTokens
  BY <1>1, <1>2
<1> HIDE DEF none
<1> QED
  BY <1>1, <1>3, <1>4, UpdatesSettle

(* A step that leaves the rewards alone, and in which no lock grows.       *)
LEMMA RewardsPassOn ==
  ASSUME RewardTypes, RewardTypes', RewardsInv, now <= now', rewardTokens' = rewardTokens,
         rewardData' = rewardData, userData' = userData, queuedRewards' = queuedRewards,
         rewardVault' = rewardVault,
         \A a \in Accounts : balances'[a].locked <= balances[a].locked
  PROVE  RewardsInv'
<1> SUFFICES ASSUME NEW t \in RewardTokens PROVE StreamInv(t)'
  BY DEF RewardsInv
<1>1. StreamInv(t)
  BY DEF RewardsInv
<1> QED
  BY <1>1, StreamPassesOn

(* A new stream gives no more than the rewards it is made of: the new      *)
(* ones, those that waited and what the old one had left.                  *)
LEMMA NotifiedStreamFits ==
  ASSUME RewardTypes, NEW t \in RewardTokens, StreamInv(t), NEW reward \in Nat
  PROVE  ((now + rewardsDuration) - now) * NotifiedRate(t, reward)
           <= reward + StreamFrom(t, lastTimeRewardApplicable(t))
<1> DEFINE end == rewardData[t].periodFinish
           left == StreamFrom(t, lastTimeRewardApplicable(t))
           total == reward + left
<1>1. /\ now \in Nat /\ end \in Nat /\ rewardData[t].rewardRate \in Nat
      /\ lastTimeRewardApplicable(t) \in Nat /\ lastTimeRewardApplicable(t) <= end
      /\ rewardsDuration \in Nat \ {0}
  BY StreamIsTyped, Durations
<1>2. left \in Nat
  <2>1. end - lastTimeRewardApplicable(t) \in Nat
    BY <1>1
  <2> QED
    BY <1>1, <2>1, ProductIsNat DEF StreamFrom
<1>3. NotifiedRate(t, reward) = total \div rewardsDuration
  <2>1. CASE now >= end
    <3>1. lastTimeRewardApplicable(t) = end
      BY <1>1, <2>1 DEF lastTimeRewardApplicable, Least
    <3>2. left = 0
      BY <1>1, <3>1 DEF StreamFrom
    <3>3. total = reward
      BY <3>2
    <3> HIDE DEF total
    <3> QED
      BY <2>1, <3>3 DEF NotifiedRate
  <2>2. CASE ~(now >= end)
    <3>1. lastTimeRewardApplicable(t) = now
      BY <1>1, <2>2 DEF lastTimeRewardApplicable, Least
    <3>2. total = reward + (end - now) * rewardData[t].rewardRate
      BY <3>1 DEF StreamFrom
    <3> HIDE DEF total
    <3> QED
      BY <2>2, <3>2 DEF NotifiedRate
  <2> QED
    BY <2>1, <2>2
<1>4. total \in Nat
  BY <1>2
<1> HIDE DEF total
<1>5. total \div rewardsDuration \in Nat /\ (total \div rewardsDuration) * rewardsDuration <= total
  BY <1>1, <1>4, DivIsFloor
<1>6. ((now + rewardsDuration) - now) * NotifiedRate(t, reward)
        = (total \div rewardsDuration) * rewardsDuration
  <2>1. (now + rewardsDuration) - now = rewardsDuration
    BY <1>1
  <2>2. \A k \in Nat : rewardsDuration * k = k * rewardsDuration
    BY <1>1, SMT
  <2> QED
    BY <1>3, <1>5, <2>1, <2>2
<1> QED
  BY <1>5, <1>6 DEF total

(* A queued or started stream is backed by what the distributor sends.     *)
LEMMA QueuedRewardsBacked ==
  ASSUME RewardTypes, RewardTypes', LocksAccounted, RewardsInv, NEW dist, NEW t \in RewardTokens,
         NEW amount \in RewardAmounts, QueueNewRewards(dist, t, amount)
  PROVE  RewardsInv'
<1> DEFINE total == amount + queuedRewards[t]
<1>1. /\ now' = now /\ balances' = balances /\ userData' = userData /\ rewardTokens' = rewardTokens
      /\ rewardVault' = [rewardVault EXCEPT ![t] = @ + amount]
  BY DEF QueueNewRewards, lockVars
<1>2. \/ /\ NotifyReward(t, total)
         /\ queuedRewards' = [queuedRewards EXCEPT ![t] = 0]
      \/ /\ rewardData' = rewardData
         /\ queuedRewards' = [queuedRewards EXCEPT ![t] = total]
  BY DEF QueueNewRewards
<1>3. /\ rewardVault \in [RewardTokens -> Nat] /\ queuedRewards \in [RewardTokens -> Nat]
      /\ rewardData \in [RewardTokens -> RewardRecords]
      /\ now \in Nat /\ amount \in Nat /\ total \in Nat
  BY Durations, AmountAssumption
     DEF RewardTypes, RewardVaultType, StreamType, AccrueType, ClockType
<1>4. rewardVault'[t] = rewardVault[t] + amount /\ rewardVault[t] \in Nat /\ queuedRewards[t] \in Nat
  BY <1>1, <1>3
<1>5. ASSUME NEW x \in RewardTokens
      PROVE  StreamInv(x) /\ (x # t => /\ rewardVault'[x] = rewardVault[x]
                                       /\ queuedRewards'[x] = queuedRewards[x])
  BY <1>1, <1>2, <1>3 DEF RewardsInv
<1>6. ASSUME NEW x \in RewardTokens, rewardData'[x] = rewardData[x], x # t
      PROVE  StreamInv(x)'
  <2>1. \A a \in Accounts : balances'[a].locked <= balances[a].locked
    BY <1>1 DEF RewardTypes, BookType
  <2> QED
    BY <1>1, <1>3, <1>5, <1>6, <2>1, StreamPassesOn
<1>7. CASE rewardData' = rewardData /\ queuedRewards' = [queuedRewards EXCEPT ![t] = total]
  <2>1. StreamInv(t)'
    <3>1. StreamInv(t) /\ queuedRewards'[t] = amount + queuedRewards[t]
      BY <1>3, <1>5, <1>7
    <3>2. StreamFrom(t, rewardData[t].lastUpdateTime)' = StreamFrom(t, rewardData[t].lastUpdateTime)
      BY <1>7 DEF StreamFrom
    <3>3. StreamFrom(t, rewardData[t].lastUpdateTime) \in Nat
      BY <3>1, AccrualIsBacked
    <3>4. queuedRewards'[t] + StreamFrom(t, rewardData[t].lastUpdateTime)' + rewardVault[t]
            <= rewardVault'[t] + queuedRewards[t] + StreamFrom(t, rewardData[t].lastUpdateTime)
      BY <1>3, <1>4, <3>1, <3>2, <3>3
    <3>5. /\ rewardData'[t].lastUpdateTime <= now'
          /\ rewardData'[t].lastUpdateTime <= rewardData'[t].periodFinish
          /\ rewardData'[t].rewardPerTokenStored = rewardData[t].rewardPerTokenStored
      BY <1>1, <1>7, <3>1 DEF StreamInv
    <3> HIDE DEF total
    <3> QED
      BY <1>1, <3>1, <3>4, <3>5, StreamRestarts
  <2>2. ASSUME NEW x \in RewardTokens PROVE StreamInv(x)'
    BY <1>6, <1>7, <2>1
  <2> QED
    BY <2>2 DEF RewardsInv
<1>8. CASE NotifyReward(t, total) /\ queuedRewards' = [queuedRewards EXCEPT ![t] = 0]
  <2> DEFINE rate == NotifiedRate(t, total)
             rec == [AccruedRewardData[t] EXCEPT !.rewardRate = rate, !.lastUpdateTime = now,
                                                 !.periodFinish = now + rewardsDuration]
  <2>1. rewardData' = [AccruedRewardData EXCEPT ![t] = rec]
    BY <1>8 DEF NotifyReward
  <2>2. \A x \in RewardTokens : AccruedRewardData[x] =
          IF x \in rewardTokens
          THEN [rewardData[x] EXCEPT !.rewardPerTokenStored = RewardPerToken(x),
                                     !.lastUpdateTime = lastTimeRewardApplicable(x)]
          ELSE rewardData[x]
    BY DEF AccruedRewardData
  <2>3. DOMAIN AccruedRewardData = RewardTokens
    BY DEF AccruedRewardData
  <2>4. ASSUME NEW x \in RewardTokens, x # t
        PROVE  StreamInv(x)'
    <3>1. rewardData'[x] = AccruedRewardData[x]
      BY <2>1, <2>3, <2>4
    <3>2. CASE x \notin rewardTokens
      BY <1>6, <2>2, <2>4, <3>1, <3>2
    <3>3. CASE x \in rewardTokens
      <4>1. rewardData'[x] = [rewardData[x] EXCEPT !.rewardPerTokenStored = RewardPerToken(x),
                                                  !.lastUpdateTime = lastTimeRewardApplicable(x)]
        BY <2>2, <3>1, <3>3
      <4>2. /\ rewardData'[x].periodFinish = rewardData[x].periodFinish
            /\ rewardData'[x].rewardRate = rewardData[x].rewardRate
            /\ rewardData'[x].rewardPerTokenStored = RewardPerToken(x)
            /\ rewardData'[x].lastUpdateTime = lastTimeRewardApplicable(x)
        BY <1>3, <4>1 DEF RewardRecords
      <4>3. /\ lastTimeRewardApplicable(x) <= now
            /\ lastTimeRewardApplicable(x) <= rewardData[x].periodFinish
            /\ rewardVault[x] \in Nat /\ queuedRewards[x] \in Nat
            /\ StreamFrom(x, lastTimeRewardApplicable(x)) \in Nat
        BY <1>5, StreamIsTyped, AccrualIsBacked
      <4>4. StreamFrom(x, rewardData[x].lastUpdateTime)' = StreamFrom(x, lastTimeRewardApplicable(x))
        BY <4>2 DEF StreamFrom
      <4>5. queuedRewards'[x] + StreamFrom(x, rewardData[x].lastUpdateTime)' + rewardVault[x]
              <= rewardVault'[x] + queuedRewards[x] + StreamFrom(x, lastTimeRewardApplicable(x))
        BY <1>5, <2>4, <4>3, <4>4
      <4>6. /\ rewardData'[x].lastUpdateTime <= now'
            /\ rewardData'[x].lastUpdateTime <= rewardData'[x].periodFinish
        BY <1>1, <4>2, <4>3
      <4> HIDE DEF rec, total
      <4> QED
        BY <1>1, <1>5, <3>3, <4>2, <4>5, <4>6, StreamRestarts
    <3> QED
      BY <3>2, <3>3
  <2>5. StreamInv(t)'
    <3>1. /\ AccruedRewardData[t] \in [periodFinish : {rewardData[t].periodFinish},
              lastUpdateTime : {AccruedRewardData[t].lastUpdateTime},
              rewardRate : {rewardData[t].rewardRate},
              rewardPerTokenStored : {AccruedRewardData[t].rewardPerTokenStored}]
          /\ AccruedRewardData[t].rewardPerTokenStored =
                IF t \in rewardTokens THEN RewardPerToken(t) ELSE rewardData[t].rewardPerTokenStored
      <4>1. rewardData[t] \in RewardRecords
        BY <1>3
      <4> QED
        BY <2>2, <4>1 DEF RewardRecords
    <3>2. rewardData'[t] = rec
      BY <2>1, <2>3
    <3>3. /\ rewardData'[t].periodFinish = now + rewardsDuration
          /\ rewardData'[t].rewardRate = rate
          /\ rewardData'[t].lastUpdateTime = now
          /\ rewardData'[t].rewardPerTokenStored = AccruedRewardData[t].rewardPerTokenStored
      BY <3>1, <3>2
    <3> HIDE DEF rec
    <3>4. StreamFrom(t, rewardData[t].lastUpdateTime)' = ((now + rewardsDuration) - now) * rate
      BY <3>3 DEF StreamFrom
    <3>5. ((now + rewardsDuration) - now) * rate <= total + StreamFrom(t, lastTimeRewardApplicable(t))
      <4> HIDE DEF total
      <4> QED
        BY <1>3, <1>5, NotifiedStreamFits
    <3>6. ((now + rewardsDuration) - now) * rate \in Nat /\ StreamFrom(t, lastTimeRewardApplicable(t)) \in Nat
      <4>1. rate \in Nat /\ (now + rewardsDuration) - now \in Nat
        <5> HIDE DEF total
        <5> QED
          BY <1>3, RateType, Durations DEF RewardTypes
      <4> HIDE DEF rate
      <4> QED
        BY <1>5, <4>1, ProductIsNat, AccrualIsBacked
    <3>7. queuedRewards'[t] = 0
      BY <1>3, <1>8
    <3> HIDE DEF rate
    <3>8. queuedRewards'[t] + StreamFrom(t, rewardData[t].lastUpdateTime)' + rewardVault[t]
            <= rewardVault'[t] + queuedRewards[t] + StreamFrom(t, lastTimeRewardApplicable(t))
      <4> DEFINE given == ((now + rewardsDuration) - now) * rate
                 left == StreamFrom(t, lastTimeRewardApplicable(t))
      <4>1. given <= amount + queuedRewards[t] + left /\ given \in Nat /\ left \in Nat
        BY <3>5, <3>6
      <4>2. StreamFrom(t, rewardData[t].lastUpdateTime)' = given
        BY <3>4
      <4> HIDE DEF given, left
      <4>3. queuedRewards'[t] + given + rewardVault[t] <= rewardVault'[t] + queuedRewards[t] + left
        BY <1>3, <1>4, <3>7, <4>1
      <4> QED
        BY <4>2, <4>3 DEF left
    <3>9. /\ rewardData'[t].lastUpdateTime <= now'
          /\ rewardData'[t].lastUpdateTime <= rewardData'[t].periodFinish
      BY <1>1, <1>3, <3>3, Durations
    <3>10. /\ rewardData'[t].rewardPerTokenStored = rewardData[t].rewardPerTokenStored
              \/ rewardData'[t].rewardPerTokenStored = RewardPerToken(t)
           /\ t \notin rewardTokens =>
                 rewardData'[t].rewardPerTokenStored = rewardData[t].rewardPerTokenStored
      BY <3>1, <3>3
    <3> HIDE DEF total
    <3> QED
      BY <1>1, <1>5, <3>8, <3>9, <3>10, StreamRestarts
  <2> QED
    BY <2>4, <2>5 DEF RewardsInv
<1> QED
  BY <1>2, <1>7, <1>8

(* A new reward token starts with nothing owed.                            *)
LEMMA AddedRewardBacked ==
  ASSUME RewardTypes, RewardTypes', LocksAccounted, RewardsInv, NEW dist, NEW t \in RewardTokens,
         AddReward(t, dist)
  PROVE  RewardsInv'
<1>1. /\ now' = now /\ balances' = balances /\ userData' = userData /\ rewardVault' = rewardVault
      /\ queuedRewards' = queuedRewards /\ rewardTokens' = rewardTokens \cup {t}
      /\ rewardData' = [rewardData EXCEPT ![t].lastUpdateTime = now, ![t].periodFinish = now]
  BY DEF AddReward, lockVars
<1>2. /\ rewardData \in [RewardTokens -> RewardRecords] /\ now \in Nat
      /\ rewardTokens \subseteq rewardTokens' /\ \A a \in Accounts : balances[a].locked \in Nat
  BY <1>1, Durations DEF RewardTypes, AccrueType, ClockType, BookType
<1> SUFFICES ASSUME NEW x \in RewardTokens PROVE StreamInv(x)'
  BY DEF RewardsInv
<1>3. StreamInv(x)
  BY DEF RewardsInv
<1>4. CASE x # t
  <2>1. rewardData'[x] = rewardData[x] /\ now <= now'
    BY <1>1, <1>2, <1>4
  <2>2. \A a \in Accounts : balances'[a].locked <= balances[a].locked
    BY <1>1, <1>2
  <2> QED
    BY <1>1, <1>2, <1>3, <2>1, <2>2, StreamPassesOn
<1>5. CASE x = t
  <2>1. /\ rewardData'[x].lastUpdateTime = now /\ rewardData'[x].periodFinish = now
        /\ rewardData'[x].rewardRate = rewardData[x].rewardRate
        /\ rewardData'[x].rewardPerTokenStored = rewardData[x].rewardPerTokenStored
        /\ rewardData[x].rewardRate \in Nat
    BY <1>1, <1>2, <1>5 DEF RewardRecords
  <2>2. StreamFrom(x, rewardData[x].lastUpdateTime)' = 0
    BY <1>2, <2>1 DEF StreamFrom
  <2>3. /\ rewardVault[x] \in Nat /\ queuedRewards[x] \in Nat
        /\ StreamFrom(x, rewardData[x].lastUpdateTime) \in Nat
    BY <1>3, StreamIsTyped, AccrualIsBacked
  <2>4. queuedRewards'[x] + StreamFrom(x, rewardData[x].lastUpdateTime)' + rewardVault[x]
          <= rewardVault'[x] + queuedRewards[x] + StreamFrom(x, rewardData[x].lastUpdateTime)
    BY <1>1, <2>2, <2>3
  <2>5. /\ rewardData'[x].lastUpdateTime <= now'
        /\ rewardData'[x].lastUpdateTime <= rewardData'[x].periodFinish
    BY <1>1, <1>2, <2>1
  <2> QED
    BY <1>1, <1>2, <1>3, <2>1, <2>4, <2>5, StreamRestarts
<1> QED
  BY <1>4, <1>5

(* A step that touches the rewards of an account, one that touches those  *)
(* of a token, and one that touches neither.                              *)
LEMMA AccountRewardsBacked ==
  ASSUME RewardTypes, RewardTypes', LocksAccounted, RewardsInv, NEW a \in Accounts,
         \/ \E s \in Accounts, amount \in LockAmounts : Lock(s, a, amount)
         \/ \E keeper \in Accounts, delay \in Nat : Withdraw(a, keeper, delay)
         \/ RelockExpiredLocks(a)
  PROVE  RewardsInv'
<1>1. \A b \in Accounts \ {a} : balances'[b] = balances[b]
  BY DEF Lock, Withdraw, RelockExpiredLocks, RewardTypes, BookType
<1>2. /\ UpdateReward(a) /\ now' = now /\ rewardVault' = rewardVault
      /\ rewardTokens' = rewardTokens /\ queuedRewards' = queuedRewards
  BY DEF Lock, Withdraw, RelockExpiredLocks, streamVars
<1> QED
  BY <1>1, <1>2, UpdateRewardSettles

(* What getReward pays was owed, and a skipped token pays nothing.         *)
LEMMA PaidRewardsBacked ==
  ASSUME RewardTypes, RewardTypes', LocksAccounted, RewardsInv, NEW a \in Accounts,
         NEW skipped \in SUBSET rewardTokens, GetReward(a, skipped)
  PROVE  RewardsInv'
<1> DEFINE paid == rewardTokens \ skipped
<1>1. /\ now' = now /\ rewardTokens' = rewardTokens /\ queuedRewards' = queuedRewards
      /\ balances' = balances /\ rewardData' = AccruedRewardData
      /\ userData' = [userData EXCEPT ![a] =
           [t \in RewardTokens |->
              [AccruedUserData(a)[t] EXCEPT !.rewards = IF t \in paid THEN 0 ELSE @]]]
      /\ rewardVault' = [t \in RewardTokens |-> rewardVault[t] - IF t \in paid THEN Earned(a, t) ELSE 0]
      /\ paid \in SUBSET rewardTokens
  BY DEF GetReward, streamVars, lockVars
<1> HIDE DEF paid
<1> QED
  BY <1>1, UpdatesSettle

(* The other steps touch no reward.                                        *)
LEMMA OtherStepsBacked ==
  ASSUME RewardTypes, RewardTypes', RewardsInv,
         \/ \E a \in Accounts : EmergencyWithdraw(a) \/ \E d \in Delegatees : Delegate(a, d)
         \/ \E t \in RewardTokens, dist \in Distributors, approved \in BOOLEAN :
               ApproveRewardDistributor(t, dist, approved)
         \/ OwnerStep \/ CheckpointEpoch \/ Tick \/ UNCHANGED vars
  PROVE  RewardsInv'
<1> DEFINE same == /\ now <= now' /\ rewardTokens' = rewardTokens /\ rewardData' = rewardData
                   /\ userData' = userData /\ queuedRewards' = queuedRewards
                   /\ rewardVault' = rewardVault
                   /\ \A a \in Accounts : balances'[a].locked <= balances[a].locked
<1>1. now \in Nat /\ \A a \in Accounts : balances[a].locked \in Nat /\ balances[a].locked <= balances[a].locked
  BY Durations DEF RewardTypes, ClockType, BookType
<1>2. CASE \E a \in Accounts : EmergencyWithdraw(a)
  <2>1. PICK a \in Accounts : EmergencyWithdraw(a)
    BY <1>2
  <2>2. balances' = [balances EXCEPT ![a] = [locked |-> 0, nextUnlockIndex |-> Len(userLocks[a])]]
    BY <2>1 DEF EmergencyWithdraw
  <2>3. balances'[a].locked = 0 /\ \A b \in Accounts \ {a} : balances'[b] = balances[b]
    BY <2>2 DEF RewardTypes, BookType
  <2>4. \A b \in Accounts : balances'[b].locked <= balances[b].locked
    BY <1>1, <2>3
  <2>5. same
    BY <1>1, <2>1, <2>4 DEF EmergencyWithdraw, streamVars, accrueVars
  <2> QED
    BY <2>5, RewardsPassOn
<1>3. CASE \E a \in Accounts : \E d \in Delegatees : Delegate(a, d)
  <2>1. same
    BY <1>1, <1>3 DEF Delegate, lockVars, streamVars, accrueVars
  <2> QED
    BY <2>1, RewardsPassOn
<1>4. CASE \E t \in RewardTokens, dist \in Distributors, approved \in BOOLEAN :
             ApproveRewardDistributor(t, dist, approved)
  <2>1. same
    BY <1>1, <1>4 DEF ApproveRewardDistributor, lockVars, accrueVars
  <2> QED
    BY <2>1, RewardsPassOn
<1>5. CASE OwnerStep
  <2>1. same
    BY <1>1, <1>5 DEF OwnerStep, ModifyBlacklist, SetKickIncentive, Shutdown, lockVars, streamVars, accrueVars
  <2> QED
    BY <2>1, RewardsPassOn
<1>6. CASE CheckpointEpoch \/ UNCHANGED vars
  <2>1. same
    BY <1>1, <1>6 DEF CheckpointEpoch, lockVars, streamVars, accrueVars, vars
  <2> QED
    BY <2>1, RewardsPassOn
<1>7. CASE Tick
  <2>1. same
    BY <1>1, <1>7 DEF Tick, lockVars, streamVars, accrueVars
  <2> QED
    BY <2>1, RewardsPassOn
<1> QED
  BY <1>2, <1>3, <1>4, <1>5, <1>6, <1>7

(* Every step leaves what the locker owes backed.                          *)
LEMMA StepRewards == IInv /\ LocksAccounted /\ RewardsInv /\ [Next]_vars => RewardsInv'
<1> SUFFICES ASSUME IInv, LocksAccounted, RewardsInv, [Next]_vars PROVE RewardsInv'
  OBVIOUS
<1>1. RewardTypes /\ RewardTypes'
  <2>1. IInv'
    BY StepInv
  <2>2. RewardTypes'
    BY <2>1 DEF IInv, TypeOK, RewardTypes, ClockType, BookType, AccrueType, StreamType,
       RewardVaultType, RewardRecords, PaidRecords
  <2> QED
    BY <2>2, RewardTypesHold
<1>2. ASSUME NEW a \in Accounts,
             \/ \E s \in Accounts, amount \in LockAmounts : Lock(s, a, amount)
             \/ \E keeper \in Accounts, delay \in Nat : Withdraw(a, keeper, delay)
             \/ RelockExpiredLocks(a)
      PROVE  RewardsInv'
  BY <1>1, <1>2, AccountRewardsBacked
<1>3. ASSUME NEW a \in Accounts, NEW skipped \in SUBSET rewardTokens, GetReward(a, skipped)
      PROVE  RewardsInv'
  BY <1>1, <1>3, PaidRewardsBacked
<1>4. CASE \E a \in Accounts : BookStep(a)
  <2>1. PICK a \in Accounts : BookStep(a)
    BY <1>4
  <2>2. CASE EmergencyWithdraw(a)
    BY <1>1, <2>2, OtherStepsBacked
  <2> QED
    BY <1>2, <2>1, <2>2 DEF BookStep
<1>5. CASE RewardStep
  <2>1. PICK t \in RewardTokens, dist \in Distributors :
          \/ \E amount \in RewardAmounts : QueueNewRewards(dist, t, amount)
          \/ AddReward(t, dist)
          \/ \E approved \in BOOLEAN : ApproveRewardDistributor(t, dist, approved)
    BY <1>5 DEF RewardStep
  <2>2. CASE \E amount \in RewardAmounts : QueueNewRewards(dist, t, amount)
    BY <1>1, <2>2, QueuedRewardsBacked
  <2>3. CASE AddReward(t, dist)
    BY <1>1, <2>3, AddedRewardBacked
  <2>4. CASE \E approved \in BOOLEAN : ApproveRewardDistributor(t, dist, approved)
    BY <1>1, <2>4, OtherStepsBacked
  <2> QED
    BY <2>1, <2>2, <2>3, <2>4
<1>6. CASE OwnerStep \/ CheckpointEpoch \/ Tick \/ UNCHANGED vars
  BY <1>1, <1>6, OtherStepsBacked
<1>7. CASE UserStep
  <2>1. PICK a \in Accounts :
        \/ \E s \in Accounts, amount \in LockAmounts : Lock(s, a, amount)
        \/ ProcessExpiredLocks(a)
        \/ RelockExpiredLocks(a)
        \/ \E k \in Accounts : KickExpiredLocks(k, a)
        \/ EmergencyWithdraw(a)
        \/ \E d \in Delegatees : Delegate(a, d)
        \/ \E skipped \in SUBSET rewardTokens : GetReward(a, skipped)
    BY <1>7 DEF UserStep
  <2>2. CASE ProcessExpiredLocks(a) \/ \E k \in Accounts : KickExpiredLocks(k, a)
    <3>1. rewardsDuration * kickRewardEpochDelay \in Nat
      BY Durations, ProductIsNat DEF IInv, TypeOK
    <3>2. \E keeper \in Accounts, delay \in Nat : Withdraw(a, keeper, delay)
      BY <2>2, <3>1 DEF ProcessExpiredLocks, KickExpiredLocks
    <3> QED
      BY <1>2, <3>2
  <2>3. CASE \/ \E s \in Accounts, amount \in LockAmounts : Lock(s, a, amount)
             \/ RelockExpiredLocks(a)
    BY <1>2, <2>3
  <2>4. CASE EmergencyWithdraw(a) \/ \E d \in Delegatees : Delegate(a, d)
    BY <1>1, <2>4, OtherStepsBacked
  <2>5. CASE \E skipped \in SUBSET rewardTokens : GetReward(a, skipped)
    BY <1>3, <2>5
  <2> QED
    BY <2>1, <2>2, <2>3, <2>4, <2>5
<1> QED
  BY <1>5, <1>6, <1>7 DEF Next

(* Nothing is owed after construction.                                     *)
LEMMA InitRewards == Init => RewardsInv
<1> SUFFICES ASSUME Init, NEW t \in RewardTokens PROVE StreamInv(t)
  BY DEF RewardsInv
<1>1. /\ rewardData[t].periodFinish = 0 /\ rewardData[t].lastUpdateTime = 0
      /\ rewardData[t].rewardRate = 0 /\ rewardData[t].rewardPerTokenStored = 0
      /\ queuedRewards[t] = 0 /\ rewardVault[t] = 0 /\ now = StartTime
  BY DEF Init
<1>2. \A a \in Accounts : /\ balances[a].locked = 0 /\ userData[a][t].rewards = 0
                          /\ userData[a][t].rewardPerTokenPaid = 0
  BY DEF Init
<1>3. AllOwedAt(t, rewardData[t].rewardPerTokenStored) = 0
  <2> DEFINE owed == [a \in Accounts |-> OwedAt(a, t, 0)]
  <2>1. \A a \in Accounts : owed[a] = 0
    BY <1>2, AmountAssumption DEF OwedAt
  <2> HIDE DEF owed
  <2>2. SumFunctionOnSet(owed, Accounts) = 0
    BY <2>1, AddressAssumption, SumOfZeros
  <2> QED
    BY <1>1, <2>2 DEF owed, AllOwedAt
<1>4. StreamFrom(t, rewardData[t].lastUpdateTime) = 0
  BY <1>1 DEF StreamFrom
<1> QED
  BY <1>1, <1>2, <1>3, <1>4, Durations, AmountAssumption DEF StreamInv

(* The locker can always pay what it owes: what the accounts have earned   *)
(* of a token, what waits in the queue and what the running stream will    *)
(* still release never exceed the balance, whatever the rounding of rate   *)
(* and shares did and though emergencyWithdraw accrues nothing.            *)
THEOREM RewardsStaySolvent == Spec => []RewardsSolvent
<1> USE DEF Spec
<1>1. Init => RewardsInv
  BY InitRewards
<1>2. IInv /\ LocksAccounted /\ RewardsInv /\ [Next]_vars => RewardsInv'
  BY StepRewards
<1>3. IInv /\ LocksAccounted /\ RewardsInv => RewardsSolvent
  <2> SUFFICES ASSUME IInv, LocksAccounted, RewardsInv, NEW t \in rewardTokens
               PROVE  SumFunctionOnSet([a \in Accounts |-> Earned(a, t)], Accounts)
                        + queuedRewards[t] + StreamLeft(t) <= rewardVault[t]
    BY DEF RewardsSolvent
  <2>1. RewardTypes
    BY RewardTypesHold
  <2>2. t \in RewardTokens
    BY <2>1 DEF RewardTypes, StreamType
  <2>3. StreamInv(t)
    BY <2>2 DEF RewardsInv
  <2> QED
    BY <2>1, <2>2, <2>3, TokenIsSolvent
<1> QED
  BY <1>1, <1>2, <1>3, Invariant, LocksStayAccounted, PTL

(* Less is shared out among no fewer: the shares do not grow.              *)
LEMMA SharesGrow ==
  ASSUME NEW a \in Nat, NEW b \in Nat, a <= b, NEW k \in Nat \ {0}, NEW m \in Nat \ {0}, m <= k
  PROVE  a \div k <= b \div m
<1>1. a \div k \in Nat /\ (a \div k) * k <= a
  BY DivIsFloor
<1> DEFINE q == a \div k
<1> HIDE DEF q
<1>2. q \in Nat /\ q * k <= a
  BY <1>1 DEF q
<1>3. m * q <= k * q
  BY <1>2, ProductIsMonotone
<1>4. m * q = q * m /\ k * q = q * k /\ q * m \in Nat /\ q * k \in Nat
  BY <1>2, SMT
<1>5. q * m <= b
  BY <1>2, <1>3, <1>4
<1>6. q <= b \div m
  BY <1>2, <1>5, DivIsLargest
<1> QED
  BY <1>6 DEF q

(* Out of nothing nobody gets a share.                                    *)
LEMMA NothingIsShared ==
  ASSUME NEW k \in Nat \ {0}
  PROVE  0 \div k = 0
<1>1. 0 \div k \in Nat /\ (0 \div k) * k <= 0
  BY DivIsFloor
<1> DEFINE q == 0 \div k
<1> HIDE DEF q
<1>2. q \in Nat /\ q * k <= 0
  BY <1>1 DEF q
<1>3. q = 0
  <2>1. CASE q = 0
    BY <2>1
  <2>2. CASE q # 0
    <3>1. 1 <= q /\ 1 * k <= q * k
      BY <1>2, <2>2, ProductIsMonotone
    <3> QED
      BY <1>2, <3>1, ProductIsNat
  <2> QED
    BY <2>1, <2>2
<1> QED
  BY <1>3 DEF q

(* A stream that nobody touches gives each share no less as time passes    *)
(* and as the supply shrinks, unless nobody is left.                       *)
LEMMA UntouchedStreamGrows ==
  ASSUME RewardTypes, RewardTypes', NEW t \in RewardTokens, StreamInv(t),
         now <= now', rewardData'[t] = rewardData[t], lockedSupply' <= lockedSupply
  PROVE  /\ RewardPerToken(t)' \in Nat
         /\ lockedSupply' # 0 \/ lockedSupply = 0 => RewardPerToken(t) <= RewardPerToken(t)'
<1> DEFINE rate == rewardData[t].rewardRate
           stored == rewardData[t].rewardPerTokenStored
           elapsed == lastTimeRewardApplicable(t) - rewardData[t].lastUpdateTime
           elapsedNext == lastTimeRewardApplicable(t)' - rewardData[t].lastUpdateTime
           given == elapsed * rate * Precision
           givenNext == elapsedNext * rate * Precision
<1>1. /\ rate \in Nat /\ stored \in Nat /\ Precision \in Nat /\ lockedSupply \in Nat
      /\ rewardData[t].periodFinish \in Nat /\ rewardData[t].lastUpdateTime \in Nat
      /\ now \in Nat /\ elapsed \in Nat
  BY StreamIsTyped
<1>2. now' \in Nat /\ lockedSupply' \in Nat
  BY Durations DEF RewardTypes, ClockType, BookType
<1>3. elapsedNext \in Nat /\ elapsed <= elapsedNext
  BY <1>1, <1>2 DEF lastTimeRewardApplicable, Least
<1>4. given \in Nat /\ givenNext \in Nat /\ given <= givenNext
  <2> HIDE DEF elapsed, elapsedNext, rate
  <2>1. elapsed * rate \in Nat /\ elapsedNext * rate \in Nat /\ elapsed * rate <= elapsedNext * rate
    BY <1>1, <1>3, ProductIsNat, ProductIsMonotone
  <2> DEFINE x == elapsed * rate
             y == elapsedNext * rate
  <2> HIDE DEF x, y
  <2>2. x \in Nat /\ y \in Nat /\ x <= y
    BY <2>1 DEF x, y
  <2>3. x * Precision \in Nat /\ y * Precision \in Nat /\ x * Precision <= y * Precision
    BY <1>1, <2>2, ProductIsNat, ProductIsMonotone
  <2> QED
    BY <2>3 DEF x, y
<1>5. /\ RewardPerToken(t) = IF lockedSupply = 0 THEN stored ELSE stored + given \div lockedSupply
      /\ RewardPerToken(t)' = IF lockedSupply' = 0 THEN stored ELSE stored + givenNext \div lockedSupply'
  BY DEF RewardPerToken
<1> HIDE DEF given, givenNext, stored
<1>6. CASE lockedSupply' = 0
  BY <1>1, <1>5, <1>6
<1>7. CASE lockedSupply' # 0 /\ lockedSupply = 0
  <2>1. FALSE
    BY <1>1, <1>2, <1>7
  <2> QED
    BY <2>1
<1>8. CASE lockedSupply' # 0 /\ lockedSupply # 0
  <2>1. given \div lockedSupply <= givenNext \div lockedSupply'
    BY <1>1, <1>2, <1>4, <1>8, SharesGrow
  <2>2. given \div lockedSupply \in Nat /\ givenNext \div lockedSupply' \in Nat
    BY <1>1, <1>2, <1>4, <1>8, DivIsFloor
  <2> QED
    BY <1>1, <1>5, <1>8, <2>1, <2>2
<1> QED
  BY <1>6, <1>7, <1>8

(* A stream that was brought up to date has nothing more to give yet.      *)
LEMMA UpdatedStreamStands ==
  ASSUME RewardTypes', NEW t \in RewardTokens,
         rewardData'[t].lastUpdateTime = lastTimeRewardApplicable(t)'
  PROVE  RewardPerToken(t)' = rewardData'[t].rewardPerTokenStored
<1>1. rewardData'[t] \in RewardRecords /\ now' \in Nat /\ lockedSupply' \in Nat
  BY Durations DEF RewardTypes, AccrueType, ClockType, BookType
<1>2. /\ rewardData'[t].lastUpdateTime \in Nat /\ rewardData'[t].rewardRate \in Nat
      /\ rewardData'[t].rewardPerTokenStored \in Nat
  BY <1>1 DEF RewardRecords
<1>3. (lastTimeRewardApplicable(t)' - rewardData'[t].lastUpdateTime) = 0
  BY <1>2
<1>4. (lastTimeRewardApplicable(t)' - rewardData'[t].lastUpdateTime)
         * rewardData'[t].rewardRate * Precision = 0
  BY <1>2, <1>3, AmountAssumption
<1>5. CASE lockedSupply' = 0
  BY <1>5 DEF RewardPerToken
<1>6. CASE lockedSupply' # 0
  <2>1. 0 \div lockedSupply' = 0
    <3>1. lockedSupply' \in Nat \ {0}
      BY <1>1, <1>6
    <3> QED
      BY <3>1, NothingIsShared
  <2>2. RewardPerToken(t)' = rewardData'[t].rewardPerTokenStored + 0 \div lockedSupply'
    BY <1>4, <1>6 DEF RewardPerToken
  <2> QED
    BY <1>2, <2>1, <2>2
<1> QED
  BY <1>5, <1>6

(* What an account has earned does not fall while its share is left alone  *)
(* and each share grows, or when it has no share.                          *)
LEMMA UntouchedClaimGrows ==
  ASSUME RewardTypes, RewardTypes', NEW t \in RewardTokens, StreamInv(t), NEW a \in Accounts,
         userData'[a][t] = userData[a][t], RewardPerToken(t)' \in Nat,
         balances'[a].locked = balances[a].locked,
         balances[a].locked = 0 \/ RewardPerToken(t) <= RewardPerToken(t)'
  PROVE  Earned(a, t) <= Earned(a, t)'
<1> DEFINE stake == balances[a].locked
           paid == userData[a][t].rewardPerTokenPaid
           done == userData[a][t].rewards
           growth == RewardPerToken(t) - paid
           growthNext == RewardPerToken(t)' - paid
<1>1. /\ stake \in Nat /\ paid \in Nat /\ done \in Nat /\ Precision \in Nat \ {0}
      /\ RewardPerToken(t) \in Nat /\ growth \in Nat
  BY StreamIsTyped, RewardPerTokenGrows
<1>2. growthNext \in Int /\ (stake = 0 \/ (growth <= growthNext /\ growthNext \in Nat))
  BY <1>1
<1>3. /\ Earned(a, t) = (stake * growth) \div Precision + done
      /\ Earned(a, t)' = (stake * growthNext) \div Precision + done
  BY DEF Earned
<1> HIDE DEF stake, paid, done, growth, growthNext
<1>4. /\ stake * growth \in Nat /\ stake * growthNext \in Nat
      /\ stake * growth <= stake * growthNext
  <2>1. CASE stake = 0
    <3>1. stake * growth = 0 /\ stake * growthNext = 0
      BY <1>1, <1>2, <2>1
    <3> QED
      BY <3>1
  <2>2. CASE growth <= growthNext /\ growthNext \in Nat
    <3>1. growth * stake <= growthNext * stake
      BY <1>1, <2>2, ProductIsMonotone
    <3>2. stake * growth \in Nat /\ stake * growthNext \in Nat
      BY <1>1, <2>2, ProductIsNat
    <3> QED
      BY <1>1, <2>2, <3>1, <3>2, SMT
  <2> QED
    BY <1>2, <2>1, <2>2
<1>5. (stake * growth) \div Precision <= (stake * growthNext) \div Precision
  <2> DEFINE x == stake * growth
             y == stake * growthNext
  <2>1. x \in Nat /\ y \in Nat /\ x <= y /\ Precision <= Precision
    BY <1>1, <1>4
  <2> HIDE DEF x, y
  <2>2. x \div Precision <= y \div Precision
    BY <1>1, <2>1, SharesGrow
  <2> QED
    BY <2>2 DEF x, y
<1>6. /\ (stake * growth) \div Precision \in Nat
      /\ (stake * growthNext) \div Precision \in Nat
  BY <1>1, <1>4, DivIsFloor
<1> QED
  BY <1>1, <1>3, <1>5, <1>6

(* An account that was settled has earned what was written down.           *)
LEMMA SettledClaimStands ==
  ASSUME RewardTypes', NEW t \in RewardTokens, NEW a \in Accounts,
         userData'[a][t].rewardPerTokenPaid = RewardPerToken(t)', RewardPerToken(t)' \in Nat
  PROVE  Earned(a, t)' = userData'[a][t].rewards
<1>1. userData'[a][t].rewards \in Nat /\ balances'[a].locked \in Nat
  BY DEF RewardTypes, AccrueType, PaidRecords, BookType
<1>2. RewardPerToken(t)' - userData'[a][t].rewardPerTokenPaid = 0
  OBVIOUS
<1>3. balances'[a].locked * (RewardPerToken(t)' - userData'[a][t].rewardPerTokenPaid) = 0
  BY <1>1, <1>2
<1>4. 0 \div Precision = 0
  BY AmountAssumption, NothingIsShared
<1>5. Earned(a, t)' = 0 \div Precision + userData'[a][t].rewards
  BY <1>3 DEF Earned
<1> QED
  BY <1>1, <1>4, <1>5

(* An accrual leaves the reward per token where it is.                     *)
LEMMA AccruedStreamStands ==
  ASSUME RewardTypes, RewardTypes', NEW t \in RewardTokens, t \in rewardTokens, StreamInv(t),
         now' = now, rewardData'[t] = AccruedRewardData[t]
  PROVE  RewardPerToken(t)' = RewardPerToken(t) /\ RewardPerToken(t)' \in Nat
<1>1. RewardPerToken(t) \in Nat /\ rewardData[t] \in RewardRecords
  BY RewardPerTokenGrows DEF RewardTypes, AccrueType
<1>2. rewardData'[t] = [rewardData[t] EXCEPT !.rewardPerTokenStored = RewardPerToken(t),
                                             !.lastUpdateTime = lastTimeRewardApplicable(t)]
  BY DEF AccruedRewardData
<1>3. /\ rewardData'[t].periodFinish = rewardData[t].periodFinish
      /\ rewardData'[t].rewardPerTokenStored = RewardPerToken(t)
      /\ rewardData'[t].lastUpdateTime = lastTimeRewardApplicable(t)
  BY <1>1, <1>2 DEF RewardRecords
<1>4. lastTimeRewardApplicable(t)' = lastTimeRewardApplicable(t)
  BY <1>3 DEF lastTimeRewardApplicable
<1> QED
  BY <1>1, <1>3, <1>4, UpdatedStreamStands

(* getReward pays an account all that it has earned of a token, or writes  *)
(* it down, and the others' claims do not move.                            *)
LEMMA PaidClaimsKept ==
  ASSUME RewardTypes, RewardTypes', RewardsInv, NEW a \in Accounts,
         NEW skipped \in SUBSET rewardTokens, GetReward(a, skipped),
         NEW t \in rewardTokens, NEW b \in Accounts
  PROVE  ClaimKept(b, t)
<1> DEFINE paid == rewardTokens \ skipped
<1>1. /\ now' = now /\ balances' = balances /\ rewardData' = AccruedRewardData
      /\ userData' = [userData EXCEPT ![a] =
           [x \in RewardTokens |->
              [AccruedUserData(a)[x] EXCEPT !.rewards = IF x \in paid THEN 0 ELSE @]]]
      /\ rewardVault' = [x \in RewardTokens |-> rewardVault[x] - IF x \in paid THEN Earned(a, x) ELSE 0]
  BY DEF GetReward, lockVars
<1> HIDE DEF paid
<1>2. t \in RewardTokens /\ StreamInv(t)
  BY DEF RewardTypes, StreamType, RewardsInv
<1>3. RewardPerToken(t)' = RewardPerToken(t) /\ RewardPerToken(t)' \in Nat
  BY <1>1, <1>2, AccruedStreamStands
<1>4. userData \in [Accounts -> [RewardTokens -> PaidRecords]]
  BY DEF RewardTypes, AccrueType
<1>5. CASE b # a
  <2>1. userData'[b][t] = userData[b][t] /\ balances'[b].locked = balances[b].locked
    BY <1>1, <1>4, <1>5
  <2>2. RewardPerToken(t) <= RewardPerToken(t)'
    BY <1>3
  <2>3. Earned(b, t) <= Earned(b, t)'
    BY <1>2, <1>3, <2>1, <2>2, UntouchedClaimGrows
  <2> QED
    BY <2>3 DEF ClaimKept
<1>6. CASE b = a
  <2>1. AccruedUserData(a)[t] = [rewardPerTokenPaid |-> RewardPerToken(t), rewards |-> Earned(a, t)]
    BY <1>2 DEF AccruedUserData
  <2>2. userData'[a][t] = [AccruedUserData(a)[t] EXCEPT !.rewards = IF t \in paid THEN 0 ELSE @]
    BY <1>1, <1>2, <1>4
  <2>3. /\ userData'[a][t].rewardPerTokenPaid = RewardPerToken(t)
        /\ userData'[a][t].rewards = IF t \in paid THEN 0 ELSE Earned(a, t)
    BY <2>1, <2>2
  <2>4. CASE t \in paid
    <3>1. userData'[a][t].rewards = 0 /\ rewardVault'[t] = rewardVault[t] - Earned(a, t)
      BY <1>1, <1>2, <2>3, <2>4
    <3> QED
      BY <1>6, <3>1 DEF ClaimKept
  <2>5. CASE t \notin paid
    <3>1. Earned(a, t)' = userData'[a][t].rewards
      BY <1>2, <1>3, <2>3, SettledClaimStands
    <3>2. Earned(a, t) \in Nat
      BY <1>2, EarnedIsOwed
    <3>3. Earned(a, t) <= Earned(a, t)'
      BY <2>3, <2>5, <3>1, <3>2
    <3> QED
      BY <1>6, <3>3 DEF ClaimKept
  <2> QED
    BY <2>4, <2>5
<1> QED
  BY <1>5, <1>6

(* The handlers that settle an account before its lock changes.            *)
LEMMA AccountClaimsKept ==
  ASSUME RewardTypes, RewardTypes', RewardsInv, NEW a \in Accounts,
         \/ \E s \in Accounts, amount \in LockAmounts : Lock(s, a, amount)
         \/ \E keeper \in Accounts, delay \in Nat : Withdraw(a, keeper, delay)
         \/ RelockExpiredLocks(a),
         NEW t \in rewardTokens, NEW b \in Accounts
  PROVE  ClaimKept(b, t)
<1>1. \A x \in Accounts \ {a} : balances'[x] = balances[x]
  BY DEF Lock, Withdraw, RelockExpiredLocks, RewardTypes, BookType
<1>2. UpdateReward(a) /\ now' = now
  BY DEF Lock, Withdraw, RelockExpiredLocks
<1>3. rewardData' = AccruedRewardData /\ userData' = [userData EXCEPT ![a] = AccruedUserData(a)]
  BY <1>2 DEF UpdateReward
<1>4. t \in RewardTokens /\ StreamInv(t)
  BY DEF RewardTypes, StreamType, RewardsInv
<1>5. RewardPerToken(t)' = RewardPerToken(t) /\ RewardPerToken(t)' \in Nat
  BY <1>2, <1>3, <1>4, AccruedStreamStands
<1>6. userData \in [Accounts -> [RewardTokens -> PaidRecords]]
  BY DEF RewardTypes, AccrueType
<1>7. CASE b # a
  <2>1. userData'[b][t] = userData[b][t] /\ balances'[b].locked = balances[b].locked
    BY <1>1, <1>3, <1>6, <1>7
  <2>2. RewardPerToken(t) <= RewardPerToken(t)'
    BY <1>5
  <2>3. Earned(b, t) <= Earned(b, t)'
    BY <1>4, <1>5, <2>1, <2>2, UntouchedClaimGrows
  <2> QED
    BY <2>3 DEF ClaimKept
<1>8. CASE b = a
  <2>1. AccruedUserData(a)[t] = [rewardPerTokenPaid |-> RewardPerToken(t), rewards |-> Earned(a, t)]
    BY <1>4 DEF AccruedUserData
  <2>2. userData'[a][t] = AccruedUserData(a)[t]
    BY <1>3, <1>6
  <2>3. userData'[a][t].rewardPerTokenPaid = RewardPerToken(t) /\ userData'[a][t].rewards = Earned(a, t)
    BY <2>1, <2>2
  <2>4. Earned(a, t)' = userData'[a][t].rewards
    BY <1>4, <1>5, <2>3, SettledClaimStands
  <2>5. Earned(a, t) \in Nat
    BY <1>4, EarnedIsOwed
  <2>6. Earned(a, t) <= Earned(a, t)'
    BY <2>3, <2>4, <2>5
  <2> QED
    BY <1>8, <2>6 DEF ClaimKept
<1> QED
  BY <1>7, <1>8

(* A step that leaves a token, the locks and the supply alone.             *)
LEMMA UntouchedClaimKept ==
  ASSUME RewardTypes, RewardTypes', RewardsInv, NEW t \in rewardTokens, NEW b \in Accounts,
         now <= now', rewardData'[t] = rewardData[t], userData' = userData,
         lockedSupply' = lockedSupply, balances' = balances
  PROVE  ClaimKept(b, t)
<1>1. t \in RewardTokens /\ StreamInv(t) /\ lockedSupply \in Nat
  BY DEF RewardTypes, StreamType, RewardsInv, BookType
<1>2. lockedSupply' <= lockedSupply
  BY <1>1
<1>3. lockedSupply' # 0 \/ lockedSupply = 0
  OBVIOUS
<1>4. RewardPerToken(t)' \in Nat /\ RewardPerToken(t) <= RewardPerToken(t)'
  BY <1>1, <1>2, <1>3, UntouchedStreamGrows
<1>5. Earned(b, t) <= Earned(b, t)'
  BY <1>1, <1>4, UntouchedClaimGrows
<1> QED
  BY <1>5 DEF ClaimKept

(* queueNewRewards: a restart counts what the old stream gave until now.   *)
LEMMA QueuedClaimsKept ==
  ASSUME RewardTypes, RewardTypes', RewardsInv, NEW x \in RewardTokens, NEW dist, NEW amount,
         QueueNewRewards(dist, x, amount), NEW t \in rewardTokens, NEW b \in Accounts
  PROVE  ClaimKept(b, t)
<1> DEFINE total == amount + queuedRewards[x]
<1>1. /\ now' = now /\ userData' = userData /\ balances' = balances /\ lockedSupply' = lockedSupply
      /\ NotifyReward(x, total) \/ rewardData' = rewardData
  BY DEF QueueNewRewards, lockVars
<1>2. t \in RewardTokens /\ StreamInv(t) /\ now \in Nat
  BY StreamIsTyped DEF RewardTypes, StreamType, RewardsInv
<1>3. rewardData \in [RewardTokens -> RewardRecords]
  BY DEF RewardTypes, AccrueType
<1> HIDE DEF total
<1>4. CASE rewardData' = rewardData
  <2>1. now <= now' /\ rewardData'[t] = rewardData[t]
    BY <1>1, <1>2, <1>4
  <2> QED
    BY <1>1, <2>1, UntouchedClaimKept
<1>5. CASE NotifyReward(x, total)
  <2>1. rewardData' = [AccruedRewardData EXCEPT ![x] =
          [@ EXCEPT !.rewardRate = NotifiedRate(x, total),
                    !.lastUpdateTime = now,
                    !.periodFinish = now + rewardsDuration]]
    BY <1>5 DEF NotifyReward
  <2>2. AccruedRewardData = [y \in RewardTokens |-> AccruedRewardData[y]]
    BY DEF AccruedRewardData
  <2>3. RewardPerToken(t)' = RewardPerToken(t) /\ RewardPerToken(t)' \in Nat
    <3>1. CASE t # x
      <4>1. rewardData'[t] = AccruedRewardData[t]
        BY <1>2, <2>1, <2>2, <3>1, Zenon
      <4> QED
        BY <1>1, <1>2, <4>1, AccruedStreamStands
    <3>2. CASE t = x
      <4>1. rewardData'[t] = [AccruedRewardData[t] EXCEPT !.rewardRate = NotifiedRate(x, total),
                                                          !.lastUpdateTime = now,
                                                          !.periodFinish = now + rewardsDuration]
        BY <1>2, <2>1, <2>2, <3>2, Zenon
      <4>2. AccruedRewardData[t] = [rewardData[t] EXCEPT !.rewardPerTokenStored = RewardPerToken(t),
                                                         !.lastUpdateTime = lastTimeRewardApplicable(t)]
        BY <1>2 DEF AccruedRewardData
      <4>3. /\ rewardData'[t].rewardPerTokenStored = RewardPerToken(t)
            /\ rewardData'[t].lastUpdateTime = now
            /\ rewardData'[t].periodFinish = now + rewardsDuration
        BY <1>2, <1>3, <4>1, <4>2 DEF RewardRecords
      <4>4. lastTimeRewardApplicable(t)' = now
        BY <1>1, <1>2, <4>3, Durations DEF lastTimeRewardApplicable, Least
      <4>5. RewardPerToken(t) \in Nat
        BY <1>2, RewardPerTokenGrows
      <4> QED
        BY <1>2, <4>3, <4>4, <4>5, UpdatedStreamStands
    <3> QED
      BY <3>1, <3>2
  <2>4. RewardPerToken(t) <= RewardPerToken(t)'
    BY <2>3
  <2>5. userData'[b][t] = userData[b][t] /\ balances'[b].locked = balances[b].locked
    BY <1>1
  <2>6. Earned(b, t) <= Earned(b, t)'
    BY <1>2, <2>3, <2>4, <2>5, UntouchedClaimGrows
  <2> QED
    BY <2>6 DEF ClaimKept
<1> QED
  BY <1>1, <1>4, <1>5

(* A token that was added has been updated since, so addReward refuses it. *)
StreamsStarted == \A t \in rewardTokens : 0 < rewardData[t].lastUpdateTime

(* addReward does not start a token again.                                 *)
LEMMA AddedClaimsKept ==
  ASSUME RewardTypes, RewardTypes', RewardsInv, StreamsStarted, NEW x \in RewardTokens, NEW dist,
         AddReward(x, dist), NEW t \in rewardTokens, NEW b \in Accounts
  PROVE  ClaimKept(b, t)
<1>1. /\ rewardData[x].lastUpdateTime = 0 /\ now' = now /\ userData' = userData
      /\ balances' = balances /\ lockedSupply' = lockedSupply
      /\ rewardData' = [rewardData EXCEPT ![x].lastUpdateTime = now, ![x].periodFinish = now]
  BY DEF AddReward, lockVars
<1>2. t # x
  BY <1>1 DEF StreamsStarted
<1>3. t \in RewardTokens /\ now \in Nat /\ rewardData \in [RewardTokens -> RewardRecords]
  BY Durations DEF RewardTypes, StreamType, AccrueType, ClockType
<1>4. rewardData'[t] = rewardData[t] /\ now <= now'
  BY <1>1, <1>2, <1>3
<1> QED
  BY <1>1, <1>4, UntouchedClaimKept

(* emergencyWithdraw: nothing is settled, and what the one who leaves has  *)
(* not settled is shared by those who stay.                                *)
LEMMA EmergencyClaimsKept ==
  ASSUME RewardTypes, RewardTypes', TokenType, LocksAccounted', RewardsInv, NEW a \in Accounts,
         EmergencyWithdraw(a), NEW t \in rewardTokens, NEW b \in Accounts
  PROVE  ClaimKept(b, t)
<1>1. /\ isShutdown /\ 0 < balances[a].locked /\ balances[a].locked <= lockedSupply
      /\ now' = now /\ userData' = userData /\ rewardData' = rewardData
      /\ balances' = [balances EXCEPT ![a] = [locked |-> 0, nextUnlockIndex |-> Len(userLocks[a])]]
      /\ lockedSupply' = lockedSupply - balances[a].locked
  BY DEF EmergencyWithdraw, accrueVars
<1>2. /\ t \in RewardTokens /\ StreamInv(t) /\ now \in Nat /\ lockedSupply \in Nat
      /\ lockedSupply' \in Nat /\ IsFiniteSet(Accounts)
      /\ \A x \in Accounts : balances[x].locked \in Nat /\ balances'[x].locked \in Nat
  <2>1. t \in RewardTokens /\ StreamInv(t)
    BY DEF RewardTypes, StreamType, RewardsInv
  <2>2. lockedSupply' \in Nat /\ \A x \in Accounts : balances'[x].locked \in Nat
    BY DEF RewardTypes, BookType
  <2> QED
    BY <2>1, <2>2, StreamIsTyped
<1>3. balances'[a].locked = 0 /\ \A x \in Accounts \ {a} : balances'[x] = balances[x]
  BY <1>1 DEF RewardTypes, BookType
<1>4. CASE b = a
  <2>1. wallet' = [wallet EXCEPT ![a] = @ + balances[a].locked]
    BY DEF EmergencyWithdraw
  <2>2. wallet'[a] = wallet[a] + balances[a].locked
    BY <2>1 DEF TokenType
  <2>3. userData'[b][t] = userData[b][t]
    BY <1>1
  <2> QED
    BY <1>1, <1>3, <1>4, <2>2, <2>3 DEF ClaimKept
<1>5. CASE b # a
  <2>1. now <= now' /\ rewardData'[t] = rewardData[t] /\ lockedSupply' <= lockedSupply
    BY <1>1, <1>2
  <2>2. /\ RewardPerToken(t)' \in Nat
        /\ lockedSupply' # 0 \/ lockedSupply = 0 => RewardPerToken(t) <= RewardPerToken(t)'
    BY <1>2, <2>1, UntouchedStreamGrows
  <2>3. userData'[b][t] = userData[b][t] /\ balances'[b].locked = balances[b].locked
    BY <1>1, <1>3, <1>5
  <2>4. balances[b].locked = 0 \/ RewardPerToken(t) <= RewardPerToken(t)'
    <3>1. CASE lockedSupply' # 0
      BY <2>2, <3>1
    <3>2. CASE lockedSupply' = 0
      <4> DEFINE stakes == [x \in Accounts |-> balances'[x].locked]
      <4>1. lockedSupply' = SumFunctionOnSet(stakes, Accounts)
        BY DEF LocksAccounted
      <4>2. \A x \in Accounts : stakes[x] \in Nat
        BY <1>2
      <4>3. stakes[b] = balances[b].locked
        BY <2>3
      <4> HIDE DEF stakes
      <4>4. stakes[b] <= SumFunctionOnSet(stakes, Accounts)
        BY <1>2, <4>2, SumCoversEach
      <4> QED
        BY <1>2, <3>2, <4>1, <4>2, <4>3, <4>4
    <3> QED
      BY <3>1, <3>2
  <2>5. Earned(b, t) <= Earned(b, t)'
    BY <1>2, <2>2, <2>3, <2>4, UntouchedClaimGrows
  <2> QED
    BY <2>5 DEF ClaimKept
<1> QED
  BY <1>4, <1>5

(* The other steps touch neither rewards nor locks.                        *)
LEMMA OtherClaimsKept ==
  ASSUME RewardTypes, RewardTypes', RewardsInv, NEW t \in rewardTokens, NEW b \in Accounts,
         \/ \E a \in Accounts, d \in Delegatees : Delegate(a, d)
         \/ \E x \in RewardTokens, dist \in Distributors, approved \in BOOLEAN :
               ApproveRewardDistributor(x, dist, approved)
         \/ OwnerStep \/ CheckpointEpoch \/ Tick \/ UNCHANGED vars
  PROVE  ClaimKept(b, t)
<1>1. now \in Nat
  BY Durations DEF RewardTypes, ClockType
<1>2. /\ rewardData' = rewardData /\ userData' = userData /\ balances' = balances
      /\ lockedSupply' = lockedSupply /\ now' \in {now, now + 1}
  BY DEF Delegate, ApproveRewardDistributor, OwnerStep, ModifyBlacklist, SetKickIncentive, Shutdown,
     CheckpointEpoch, Tick, lockVars, accrueVars, vars
<1>3. now <= now' /\ rewardData'[t] = rewardData[t]
  BY <1>1, <1>2
<1> QED
  BY <1>2, <1>3, UntouchedClaimKept

(* A step lowers what an account has earned only by paying all of it, or   *)
(* when the account leaves in an emergency.                                *)
LEMMA StepKeepsClaims ==
  IInv /\ LocksAccounted /\ RewardsInv /\ StreamsStarted /\ [Next]_vars
    => \A t \in rewardTokens, a \in Accounts : ClaimKept(a, t)
<1> SUFFICES ASSUME IInv, LocksAccounted, RewardsInv, StreamsStarted, [Next]_vars,
                    NEW t \in rewardTokens, NEW b \in Accounts
             PROVE  ClaimKept(b, t)
  OBVIOUS
<1>1. RewardTypes /\ RewardTypes' /\ TokenType /\ LocksAccounted'
  <2>1. IInv'
    BY StepInv
  <2>2. RewardTypes'
    BY <2>1 DEF IInv, TypeOK, RewardTypes, ClockType, BookType, AccrueType, StreamType,
       RewardVaultType, RewardRecords, PaidRecords
  <2> QED
    BY <2>2, RewardTypesHold, StepAccounted, InvParts DEF BookInv, TokenInv
<1>2. CASE UserStep
  <2>1. PICK a \in Accounts :
        \/ \E s \in Accounts, amount \in LockAmounts : Lock(s, a, amount)
        \/ ProcessExpiredLocks(a)
        \/ RelockExpiredLocks(a)
        \/ \E k \in Accounts : KickExpiredLocks(k, a)
        \/ EmergencyWithdraw(a)
        \/ \E d \in Delegatees : Delegate(a, d)
        \/ \E skipped \in SUBSET rewardTokens : GetReward(a, skipped)
    BY <1>2 DEF UserStep
  <2>2. CASE ProcessExpiredLocks(a) \/ \E k \in Accounts : KickExpiredLocks(k, a)
    <3>1. rewardsDuration * kickRewardEpochDelay \in Nat
      BY Durations, ProductIsNat DEF IInv, TypeOK
    <3>2. \E keeper \in Accounts, delay \in Nat : Withdraw(a, keeper, delay)
      BY <2>2, <3>1 DEF ProcessExpiredLocks, KickExpiredLocks
    <3> QED
      BY <1>1, <3>2, AccountClaimsKept
  <2>3. CASE \/ \E s \in Accounts, amount \in LockAmounts : Lock(s, a, amount)
             \/ RelockExpiredLocks(a)
    BY <1>1, <2>3, AccountClaimsKept
  <2>4. CASE EmergencyWithdraw(a)
    BY <1>1, <2>4, EmergencyClaimsKept
  <2>5. CASE \E d \in Delegatees : Delegate(a, d)
    BY <1>1, <2>5, OtherClaimsKept
  <2>6. CASE \E skipped \in SUBSET rewardTokens : GetReward(a, skipped)
    BY <1>1, <2>6, PaidClaimsKept
  <2> QED
    BY <2>1, <2>2, <2>3, <2>4, <2>5, <2>6
<1>3. CASE RewardStep
  <2>1. PICK x \in RewardTokens, dist \in Distributors :
          \/ \E amount \in RewardAmounts : QueueNewRewards(dist, x, amount)
          \/ AddReward(x, dist)
          \/ \E approved \in BOOLEAN : ApproveRewardDistributor(x, dist, approved)
    BY <1>3 DEF RewardStep
  <2>2. CASE \E amount \in RewardAmounts : QueueNewRewards(dist, x, amount)
    BY <1>1, <2>2, QueuedClaimsKept
  <2>3. CASE AddReward(x, dist)
    BY <1>1, <2>3, AddedClaimsKept
  <2>4. CASE \E approved \in BOOLEAN : ApproveRewardDistributor(x, dist, approved)
    BY <1>1, <2>4, OtherClaimsKept
  <2> QED
    BY <2>1, <2>2, <2>3, <2>4
<1>4. CASE OwnerStep \/ CheckpointEpoch \/ Tick \/ UNCHANGED vars
  BY <1>1, <1>4, OtherClaimsKept
<1> QED
  BY <1>2, <1>3, <1>4 DEF Next

(* The clock of a stream never goes back.                                  *)
LEMMA StepStarted ==
  IInv /\ RewardsInv /\ StreamsStarted /\ [Next]_vars => StreamsStarted'
<1> SUFFICES ASSUME IInv, RewardsInv, StreamsStarted, [Next]_vars, NEW t \in rewardTokens'
             PROVE  0 < rewardData'[t].lastUpdateTime
  BY DEF StreamsStarted
<1>1. RewardTypes /\ now \in Nat \ {0}
  BY RewardTypesHold, Durations, TimeAssumption DEF RewardTypes, ClockType, lockDuration
<1>2. rewardData \in [RewardTokens -> RewardRecords] /\ rewardTokens \subseteq RewardTokens
  BY <1>1 DEF RewardTypes, AccrueType, StreamType
<1>3. ASSUME t \in rewardTokens, rewardData'[t] = rewardData[t]
      PROVE  0 < rewardData'[t].lastUpdateTime
  BY <1>3 DEF StreamsStarted
<1>4. ASSUME t \in rewardTokens, rewardData'[t] = AccruedRewardData[t]
      PROVE  0 < rewardData'[t].lastUpdateTime
  <2>1. t \in RewardTokens /\ StreamInv(t) /\ rewardData[t] \in RewardRecords
    BY <1>2, <1>4 DEF RewardsInv
  <2>2. rewardData'[t].lastUpdateTime = lastTimeRewardApplicable(t)
    BY <1>4, <2>1 DEF AccruedRewardData, RewardRecords
  <2>3. /\ rewardData[t].lastUpdateTime <= lastTimeRewardApplicable(t)
        /\ rewardData[t].lastUpdateTime \in Nat /\ lastTimeRewardApplicable(t) \in Nat
    BY <1>1, <2>1, StreamIsTyped
  <2> QED
    BY <1>4, <2>2, <2>3 DEF StreamsStarted
<1>5. ASSUME NEW a \in Accounts,
             \/ \E s \in Accounts, amount \in LockAmounts : Lock(s, a, amount)
             \/ \E keeper \in Accounts, delay \in Nat : Withdraw(a, keeper, delay)
             \/ RelockExpiredLocks(a)
             \/ \E skipped \in SUBSET rewardTokens : GetReward(a, skipped)
      PROVE  0 < rewardData'[t].lastUpdateTime
  <2>1. rewardTokens' = rewardTokens /\ rewardData' = AccruedRewardData
    BY <1>5 DEF Lock, Withdraw, RelockExpiredLocks, GetReward, UpdateReward, streamVars
  <2> QED
    BY <1>4, <2>1
<1>6. ASSUME NEW x \in RewardTokens, NEW dist \in Distributors,
             \E amount \in RewardAmounts : QueueNewRewards(dist, x, amount)
      PROVE  0 < rewardData'[t].lastUpdateTime
  <2>1. PICK amount \in RewardAmounts : QueueNewRewards(dist, x, amount)
    BY <1>6
  <2> DEFINE total == amount + queuedRewards[x]
  <2>2. rewardTokens' = rewardTokens /\ (NotifyReward(x, total) \/ rewardData' = rewardData)
    BY <2>1 DEF QueueNewRewards
  <2> HIDE DEF total
  <2>3. CASE rewardData' = rewardData
    BY <1>3, <2>2, <2>3
  <2>4. CASE NotifyReward(x, total)
    <3>1. rewardData' = [AccruedRewardData EXCEPT ![x] =
            [@ EXCEPT !.rewardRate = NotifiedRate(x, total),
                      !.lastUpdateTime = now,
                      !.periodFinish = now + rewardsDuration]]
      BY <2>4 DEF NotifyReward
    <3>2. AccruedRewardData = [y \in RewardTokens |-> AccruedRewardData[y]]
      BY DEF AccruedRewardData
    <3>3. t \in rewardTokens /\ t \in RewardTokens
      BY <1>2, <2>2
    <3>4. CASE t # x
      <4>1. rewardData'[t] = AccruedRewardData[t]
        BY <3>1, <3>2, <3>3, <3>4, Zenon
      <4> QED
        BY <1>4, <3>3, <4>1
    <3>5. CASE t = x
      <4>1. rewardData'[t] = [AccruedRewardData[t] EXCEPT !.rewardRate = NotifiedRate(x, total),
                                                          !.lastUpdateTime = now,
                                                          !.periodFinish = now + rewardsDuration]
        BY <3>1, <3>2, <3>3, <3>5, Zenon
      <4>2. AccruedRewardData[t] = [rewardData[t] EXCEPT !.rewardPerTokenStored = RewardPerToken(t),
                                                         !.lastUpdateTime = lastTimeRewardApplicable(t)]
        BY <3>3 DEF AccruedRewardData
      <4>3. rewardData'[t].lastUpdateTime = now
        BY <1>2, <3>3, <4>1, <4>2 DEF RewardRecords
      <4> QED
        BY <1>1, <4>3
    <3> QED
      BY <3>4, <3>5
  <2> QED
    BY <2>2, <2>3, <2>4
<1>7. ASSUME NEW x \in RewardTokens, NEW dist \in Distributors, AddReward(x, dist)
      PROVE  0 < rewardData'[t].lastUpdateTime
  <2>1. /\ rewardTokens' = rewardTokens \cup {x}
        /\ rewardData' = [rewardData EXCEPT ![x].lastUpdateTime = now, ![x].periodFinish = now]
    BY <1>7 DEF AddReward
  <2>2. CASE t = x
    <3>1. rewardData'[t].lastUpdateTime = now
      BY <1>2, <2>1, <2>2 DEF RewardRecords
    <3> QED
      BY <1>1, <3>1
  <2>3. CASE t # x
    <3>1. t \in rewardTokens /\ rewardData'[t] = rewardData[t]
      BY <1>2, <2>1, <2>3
    <3> QED
      BY <1>3, <3>1
  <2> QED
    BY <2>2, <2>3
<1>8. CASE \/ \E a \in Accounts : EmergencyWithdraw(a) \/ \E d \in Delegatees : Delegate(a, d)
           \/ \E x \in RewardTokens, dist \in Distributors, approved \in BOOLEAN :
                 ApproveRewardDistributor(x, dist, approved)
           \/ OwnerStep \/ CheckpointEpoch \/ Tick \/ UNCHANGED vars
  <2>1. rewardTokens' = rewardTokens /\ rewardData' = rewardData
    BY <1>8 DEF EmergencyWithdraw, Delegate, ApproveRewardDistributor, OwnerStep, ModifyBlacklist,
       SetKickIncentive, Shutdown, CheckpointEpoch, Tick, streamVars, accrueVars, vars
  <2> QED
    BY <1>3, <2>1
<1>9. CASE UserStep
  <2>1. rewardsDuration * kickRewardEpochDelay \in Nat
    BY Durations, ProductIsNat DEF IInv, TypeOK
  <2>2. PICK a \in Accounts :
        \/ \E s \in Accounts, amount \in LockAmounts : Lock(s, a, amount)
        \/ ProcessExpiredLocks(a)
        \/ RelockExpiredLocks(a)
        \/ \E k \in Accounts : KickExpiredLocks(k, a)
        \/ EmergencyWithdraw(a)
        \/ \E d \in Delegatees : Delegate(a, d)
        \/ \E skipped \in SUBSET rewardTokens : GetReward(a, skipped)
    BY <1>9 DEF UserStep
  <2>3. CASE ProcessExpiredLocks(a) \/ \E k \in Accounts : KickExpiredLocks(k, a)
    <3>1. \E keeper \in Accounts, delay \in Nat : Withdraw(a, keeper, delay)
      BY <2>1, <2>3 DEF ProcessExpiredLocks, KickExpiredLocks
    <3> QED
      BY <1>5, <3>1
  <2> QED
    BY <1>5, <1>8, <2>2, <2>3
<1>10. CASE RewardStep
  BY <1>6, <1>7, <1>8, <1>10 DEF RewardStep
<1> QED
  BY <1>8, <1>9, <1>10 DEF Next

(* What an account has earned cannot be taken from it: for any rates,      *)
(* amounts and precision, no transaction of anybody lowers it, except a    *)
(* getReward that pays all of it and an emergencyWithdraw of its own.      *)
THEOREM EarningsStayKept == Spec => EarningsKept
<1> DEFINE Kept == \A t \in rewardTokens, a \in Accounts : ClaimKept(a, t)
<1>1. Init => RewardsInv /\ StreamsStarted
  BY InitRewards DEF Init, StreamsStarted
<1>2. IInv /\ LocksAccounted /\ RewardsInv /\ [Next]_vars => RewardsInv'
  BY StepRewards
<1>3. IInv /\ RewardsInv /\ StreamsStarted /\ [Next]_vars => StreamsStarted'
  BY StepStarted
<1>4. IInv /\ LocksAccounted /\ RewardsInv /\ StreamsStarted /\ [Next]_vars => Kept
  BY StepKeepsClaims
<1> HIDE DEF Kept
<1>5. Spec => [][Kept]_vars
  BY <1>1, <1>2, <1>3, <1>4, Invariant, LocksStayAccounted, PTL DEF Spec
<1> QED
  BY <1>5 DEF EarningsKept, Kept

-----------------------------------------------------------------------------
(* The supplies of the epochs.                                             *)

(* What an account's records, processed or not, hold until a date; what    *)
(* those of all accounts do.                                               *)
RecordsUntil(locks, t) == {i \in DOMAIN locks : locks[i].unlockTime = t}
LockedUntil(a, t) == AmountOf(userLocks[a], RecordsUntil(userLocks[a], t))
AllLockedUntil(t) == SumFunctionOnSet([a \in Accounts |-> LockedUntil(a, t)], Accounts)

(* The supply of an epoch is what was locked in it, and every lock was     *)
(* made in an epoch of the list.                                           *)
SuppliesInv ==
  /\ \A a \in Accounts : \A i \in DOMAIN userLocks[a] :
       /\ epochs[1].date + lockDuration <= userLocks[a][i].unlockTime
       /\ userLocks[a][i].unlockTime <= LastOf(epochs).date + lockDuration
  /\ \A i \in DOMAIN epochs : epochs[i].supply = AllLockedUntil(epochs[i].date + lockDuration)

(* A lock adds its amount to what is locked until the date of this week,   *)
(* and to nothing else.                                                    *)
LEMMA LockedUntilAdded ==
  ASSUME ClockType, NEW locks \in Seq(LockRecords), NEW amount \in Nat, InOrder(locks), NEW t
  PROVE  LET new == AddLock(locks, amount, UnlockTime)
         IN  AmountOf(new, RecordsUntil(new, t))
               = AmountOf(locks, RecordsUntil(locks, t)) + IF t = UnlockTime THEN amount ELSE 0
<1> DEFINE new == AddLock(locks, amount, UnlockTime)
           k == Len(new)
           I == RecordsUntil(new, t)
<1>1. /\ new \in Seq(LockRecords) /\ k \in DOMAIN new /\ DOMAIN new = DOMAIN locks \cup {k}
      /\ new[k].unlockTime = UnlockTime
      /\ \A i \in DOMAIN locks \ {k} : new[i] = locks[i]
      /\ k \in DOMAIN locks => locks[k].unlockTime = UnlockTime
      /\ k \in DOMAIN locks => new[k].amount = amount + locks[k].amount
      /\ k \notin DOMAIN locks => new[k].amount = amount
  BY AddLockAdds
<1> HIDE DEF new
<1> HIDE DEF k
<1>2. I \in SUBSET (DOMAIN new) /\ I \cap DOMAIN locks = RecordsUntil(locks, t)
  BY <1>1 DEF RecordsUntil
<1>3. k \in I <=> t = UnlockTime
  BY <1>1 DEF RecordsUntil
<1> HIDE DEF I
<1>4. /\ k \in I => AmountOf(new, I) = AmountOf(locks, I \cap DOMAIN locks) + amount
      /\ k \notin I => AmountOf(new, I) = AmountOf(locks, I \cap DOMAIN locks)
  BY <1>1, <1>2, AmountAdded
<1>5. AmountOf(locks, I \cap DOMAIN locks) = AmountOf(locks, RecordsUntil(locks, t))
  BY <1>2, Zenon
<1>6. AmountOf(locks, RecordsUntil(locks, t)) \in Nat
  BY AmountIsNat DEF RecordsUntil
<1> QED
  BY <1>3, <1>4, <1>5, <1>6 DEF new, I

(* What is locked is an amount, and nothing when no record has the date.   *)
LEMMA LockedIsNat ==
  ASSUME BookType, NEW t
  PROVE  AllLockedUntil(t) \in Nat /\ \A a \in Accounts : LockedUntil(a, t) \in Nat
<1>1. \A a \in Accounts : LockedUntil(a, t) \in Nat
  BY AmountIsNat DEF LockedUntil, RecordsUntil, BookType
<1> DEFINE locked == [a \in Accounts |-> LockedUntil(a, t)]
<1>2. \A a \in Accounts : locked[a] \in Nat
  BY <1>1
<1> HIDE DEF locked
<1>3. SumFunctionOnSet(locked, Accounts) \in Nat
  BY <1>2, AddressAssumption, SumIsNat
<1> QED
  BY <1>1, <1>3 DEF locked, AllLockedUntil

(* Where no lock ends nothing is locked.                                   *)
LEMMA NothingLockedUntil ==
  ASSUME NEW t, \A a \in Accounts : \A i \in DOMAIN userLocks[a] : userLocks[a][i].unlockTime # t
  PROVE  AllLockedUntil(t) = 0
<1> DEFINE locked == [a \in Accounts |-> LockedUntil(a, t)]
<1>1. ASSUME NEW a \in Accounts PROVE locked[a] = 0
  <2>1. RecordsUntil(userLocks[a], t) = {}
    BY DEF RecordsUntil
  <2>2. AmountOf(userLocks[a], {}) = 0
    BY SumEmpty DEF AmountOf
  <2>3. LockedUntil(a, t) = 0
    BY <2>1, <2>2, Zenon DEF LockedUntil
  <2> QED
    BY <2>3
<1> HIDE DEF locked
<1>2. SumFunctionOnSet(locked, Accounts) = 0
  BY <1>1, AddressAssumption, SumOfZeros
<1> QED
  BY <1>2 DEF locked, AllLockedUntil

(* A new lock adds its amount to those that end with it, and to no others. *)
LEMMA AllLockedUntilAdded ==
  ASSUME ClockType, BookType, BookType', LocksSorted, NEW a \in Accounts, NEW amount \in Nat, NEW t,
         userLocks' = [userLocks EXCEPT ![a] = AddLock(userLocks[a], amount, UnlockTime)]
  PROVE  AllLockedUntil(t)' = AllLockedUntil(t) + IF t = UnlockTime THEN amount ELSE 0
<1> DEFINE before == [x \in Accounts |-> LockedUntil(x, t)]
           after == [x \in Accounts |-> LockedUntil(x, t)']
           more == IF t = UnlockTime THEN amount ELSE 0
<1>1. /\ userLocks'[a] = AddLock(userLocks[a], amount, UnlockTime)
      /\ \A x \in Accounts \ {a} : userLocks'[x] = userLocks[x]
      /\ userLocks[a] \in Seq(LockRecords) /\ InOrder(userLocks[a])
  BY OrderParts DEF BookType
<1>2. after[a] = before[a] + more
  <2>1. AmountOf(userLocks'[a], RecordsUntil(userLocks'[a], t))
          = AmountOf(userLocks[a], RecordsUntil(userLocks[a], t)) + more
    BY <1>1, LockedUntilAdded
  <2> QED
    BY <2>1 DEF LockedUntil
<1>3. \A x \in Accounts : x # a => after[x] = before[x]
  BY <1>1 DEF LockedUntil
<1>4. \A x \in Accounts : before[x] \in Int /\ after[x] \in Int
  <2>1. \A x \in Accounts : LockedUntil(x, t) \in Nat
    BY LockedIsNat
  <2>2. \A x \in Accounts : before[x] \in Nat
    BY <2>1
  <2>3. more \in Nat
    OBVIOUS
  <2> HIDE DEF before, after, more
  <2> QED
    BY <1>2, <1>3, <2>2, <2>3
<1>5. /\ AllLockedUntil(t) = SumFunctionOnSet(before, Accounts)
      /\ AllLockedUntil(t)' = SumFunctionOnSet(after, Accounts)
  BY DEF AllLockedUntil
<1> HIDE DEF before, after
<1>6. SumFunctionOnSet(after, Accounts) = SumFunctionOnSet(before, Accounts) + (after[a] - before[a])
  BY <1>3, <1>4, AddressAssumption, SumOfChanged
<1> QED
  BY <1>2, <1>4, <1>5, <1>6

(* The epochs that _checkpointEpoch adds are later ones, of supply 0.      *)
LEMMA EpochsExtended ==
  ASSUME ClockType, EpochType, Consecutive(epochs)
  PROVE  LET new == CheckpointedEpochs
         IN  /\ DOMAIN epochs \subseteq DOMAIN new /\ 1 \in DOMAIN epochs
             /\ \A i \in DOMAIN epochs : new[i] = epochs[i]
             /\ \A i \in DOMAIN new \ DOMAIN epochs :
                  new[i].supply = 0 /\ LastOf(epochs).date < new[i].date
             /\ LastOf(epochs).date <= currentEpoch
<1> DEFINE n == Len(epochs)
           last == LastOf(epochs).date
           missing == (currentEpoch - last) \div rewardsDuration
           fill == [k \in 1 .. missing |-> [supply |-> 0, date |-> last + k * rewardsDuration]]
<1>1. /\ n \in Nat \ {0} /\ DOMAIN epochs = 1 .. n /\ last \in Nat
      /\ last % rewardsDuration = 0 /\ last <= currentEpoch
  <2>1. n \in Nat \ {0} /\ DOMAIN epochs = 1 .. n /\ epochs[n] \in EpochRecords
    BY EmptySeq, LenProperties, ElementOfSeq DEF EpochType
  <2> QED
    BY <2>1 DEF Consecutive, LastOf, EpochRecords, EpochDates
<1>2. currentEpoch \in Nat /\ currentEpoch % rewardsDuration = 0
  BY Dates DEF ClockType, EpochDates
<1>3. missing \in Nat
  BY <1>1, <1>2, EpochsBetween
<1> DEFINE entries == [supply : Nat, date : Nat]
<1>4. CheckpointedEpochs = epochs \o fill /\ fill \in Seq(entries)
  <2>1. CheckpointedEpochs = epochs \o fill
    BY DEF CheckpointedEpochs
  <2>2. \A k \in 1 .. missing : fill[k] \in entries
    <3> SUFFICES ASSUME NEW k \in 1 .. missing PROVE last + k * rewardsDuration \in Nat
      OBVIOUS
    <3> QED
      BY <1>1, <1>3, LaterIsDate
  <2> HIDE DEF entries, missing
  <2>3. fill \in Seq(entries)
    BY <1>3, <2>2, IsASeq
  <2> QED
    BY <2>1, <2>3 DEF entries, missing
<1>10. epochs \in Seq(entries)
  <2>1. \A i \in 1 .. n : epochs[i] \in entries
    <3>1. \A i \in 1 .. n : epochs[i] \in EpochRecords
      BY <1>1, ElementOfSeq DEF EpochType
    <3> QED
      BY <3>1 DEF EpochRecords, EpochDates
  <2>2. epochs = [i \in 1 .. n |-> epochs[i]]
    BY <1>1 DEF EpochType
  <2> HIDE DEF entries, n
  <2> QED
    BY <1>1, <2>1, <2>2, IsASeq
<1>5. Len(fill) = missing
  <2> HIDE DEF missing
  <2> QED
    BY <1>3
<1> HIDE DEF missing
<1> DEFINE new == epochs \o fill
<1>6. /\ DOMAIN new = 1 .. (n + missing)
      /\ \A i \in 1 .. n : new[i] = epochs[i]
      /\ \A i \in (n + 1) .. (n + missing) : new[i] = fill[i - n]
  <2> HIDE DEF fill, entries
  <2>1. /\ new \in Seq(entries) /\ Len(new) = n + missing
        /\ \A i \in 1 .. (n + missing) : new[i] = IF i <= n THEN epochs[i] ELSE fill[i - n]
    BY <1>4, <1>5, <1>10, ConcatProperties
  <2> HIDE DEF new
  <2>2. DOMAIN new = 1 .. (n + missing)
    BY <2>1, LenProperties
  <2> QED
    BY <1>1, <1>3, <2>1, <2>2
<1>7. ASSUME NEW i \in DOMAIN new \ DOMAIN epochs
      PROVE  new[i].supply = 0 /\ last < new[i].date
  <2>1. i - n \in 1 .. missing /\ i \in (n + 1) .. (n + missing)
    BY <1>1, <1>3, <1>6
  <2> DEFINE k == i - n
  <2>2. new[i] = [supply |-> 0, date |-> last + k * rewardsDuration]
    BY <1>6, <2>1
  <2>3. k \in Nat \ {0}
    BY <1>3, <2>1
  <2> HIDE DEF k, last
  <2>4. k * rewardsDuration \in Nat /\ k * rewardsDuration # 0
    BY <2>3, Durations, ProductIsNat, ProductIsMonotone, SMT
  <2> HIDE DEF new
  <2> DEFINE d == k * rewardsDuration
  <2>5. new[i].supply = 0 /\ new[i].date = last + d /\ d \in Nat /\ d # 0
    BY <2>2, <2>4
  <2> HIDE DEF d
  <2> QED
    BY <1>1, <2>5
<1> HIDE DEF fill
<1> QED
  BY <1>1, <1>3, <1>4, <1>6, <1>7

(* The invariant of a list of epochs of which the records are entered.     *)
Entered(es) ==
  /\ \A a \in Accounts : \A i \in DOMAIN userLocks[a] :
       /\ es[1].date + lockDuration <= userLocks[a][i].unlockTime
       /\ userLocks[a][i].unlockTime <= LastOf(es).date + lockDuration
  /\ \A i \in DOMAIN es : es[i].supply = AllLockedUntil(es[i].date + lockDuration)

(* _checkpointEpoch keeps it: nothing was locked in the epochs it adds.    *)
LEMMA CheckpointEnters ==
  ASSUME ClockType, EpochType, Consecutive(epochs), BookType, SuppliesInv
  PROVE  Entered(CheckpointedEpochs)
<1> DEFINE new == CheckpointedEpochs
<1>1. /\ new \in Seq(EpochRecords) /\ new # <<>> /\ LastOf(new).date = currentEpoch
      /\ DOMAIN epochs \subseteq DOMAIN new /\ 1 \in DOMAIN epochs
      /\ \A i \in DOMAIN epochs : new[i] = epochs[i]
      /\ \A i \in DOMAIN new \ DOMAIN epochs :
           new[i].supply = 0 /\ LastOf(epochs).date < new[i].date
      /\ LastOf(epochs).date <= currentEpoch
  BY EpochsFilled, EpochsExtended, Zenon
<1>2. \A i \in DOMAIN new : new[i].date \in Nat
  <2> HIDE DEF new
  <2>1. \A i \in DOMAIN new : new[i] \in EpochRecords
    BY <1>1, ElementOfSeq, LenProperties
  <2> QED
    BY <2>1 DEF EpochRecords, EpochDates
<1>3. LastOf(epochs).date \in Nat /\ currentEpoch \in Nat /\ lockDuration \in Nat
  <2>1. LastOf(epochs) \in EpochRecords
    BY EmptySeq, LenProperties, ElementOfSeq DEF EpochType, LastOf
  <2> QED
    BY <2>1, Dates, Durations DEF EpochRecords, EpochDates, ClockType
<1>4. \A a \in Accounts : \A i \in DOMAIN userLocks[a] : userLocks[a][i].unlockTime \in Nat
  BY RecordTypes DEF BookType
<1> HIDE DEF new
<1>5. ASSUME NEW a \in Accounts, NEW i \in DOMAIN userLocks[a]
      PROVE  /\ new[1].date + lockDuration <= userLocks[a][i].unlockTime
             /\ userLocks[a][i].unlockTime <= LastOf(new).date + lockDuration
  BY <1>1, <1>3, <1>4 DEF SuppliesInv
<1>6. ASSUME NEW i \in DOMAIN new
      PROVE  new[i].supply = AllLockedUntil(new[i].date + lockDuration)
  <2>1. CASE i \in DOMAIN epochs
    BY <1>1, <2>1 DEF SuppliesInv
  <2>2. CASE i \notin DOMAIN epochs
    <3>1. \A a \in Accounts : \A j \in DOMAIN userLocks[a] :
            userLocks[a][j].unlockTime # new[i].date + lockDuration
      <4>1. LastOf(epochs).date < new[i].date
        BY <1>1, <2>2
      <4>2. \A a \in Accounts : \A j \in DOMAIN userLocks[a] :
              userLocks[a][j].unlockTime <= LastOf(epochs).date + lockDuration
        BY DEF SuppliesInv
      <4> QED
        BY <1>2, <1>3, <1>4, <4>1, <4>2
    <3>2. AllLockedUntil(new[i].date + lockDuration) = 0
      BY <3>1, NothingLockedUntil
    <3> QED
      BY <1>1, <2>2, <3>2
  <2> QED
    BY <2>1, <2>2
<1> QED
  BY <1>5, <1>6 DEF Entered, new

(* A lock is entered in the running epoch.                                 *)
LEMMA LockEnters ==
  ASSUME ClockType, BookType, BookType', LocksSorted,
         NEW es \in Seq(EpochRecords), es # <<>>, Consecutive(es), LastOf(es).date = currentEpoch,
         Entered(es), NEW a \in Accounts, NEW amount \in Nat,
         userLocks' = [userLocks EXCEPT ![a] = AddLock(userLocks[a], amount, UnlockTime)],
         epochs' = AddToLastEpoch(es, amount)
  PROVE  SuppliesInv'
<1> DEFINE n == Len(es)
           e == [es[n] EXCEPT !.supply = @ + amount]
<1>1. /\ n \in Nat \ {0} /\ DOMAIN es = 1 .. n /\ \A i \in 1 .. n : es[i] \in EpochRecords
      /\ n \in 1 .. n /\ 1 \in 1 .. n
      /\ \A i \in 1 .. n : i - 1 \in Nat /\ (i # n => (i - 1) + 1 <= n - 1 /\ (i - 1) + 1 \in Nat)
  <2>1. n \in Nat \ {0} /\ DOMAIN es = 1 .. n /\ \A i \in 1 .. n : es[i] \in EpochRecords
    BY EmptySeq, LenProperties, ElementOfSeq
  <2> HIDE DEF n
  <2> QED
    BY <2>1
<1>2. epochs' = [es EXCEPT ![n] = e]
  BY DEF AddToLastEpoch
<1>3. /\ e.date = es[n].date /\ e.supply = es[n].supply + amount /\ es[n].supply \in Nat
      /\ e \in EpochRecords
  <2>1. es[n] \in EpochRecords
    BY <1>1, Zenon
  <2> HIDE DEF n
  <2> QED
    BY <2>1 DEF EpochRecords
<1>4. \A i \in 1 .. n : es[i].date \in Nat /\ (i # n => es[i].date < es[n].date)
  <2>1. \A i \in 1 .. n : es[i].date \in Nat
    <3> SUFFICES ASSUME NEW i \in 1 .. n PROVE es[i].date \in Nat
      OBVIOUS
    <3>1. es[i] \in EpochRecords
      BY <1>1, Zenon
    <3> QED
      BY <3>1 DEF EpochRecords, EpochDates
  <2>2. ASSUME NEW i \in 1 .. n, i # n PROVE es[i].date < es[n].date
    <3>1. es[i].date = es[1].date + (i - 1) * rewardsDuration
      BY <1>1 DEF Consecutive
    <3>2. es[n].date = es[1].date + (n - 1) * rewardsDuration
      BY <1>1 DEF Consecutive
    <3>3. (i - 1) * rewardsDuration < (n - 1) * rewardsDuration
      <4>1. (i - 1) + 1 <= n - 1 /\ i - 1 \in Nat /\ n - 1 \in Nat /\ (i - 1) + 1 \in Nat
        BY <1>1, <2>2, Zenon
      <4>2. ((i - 1) + 1) * rewardsDuration <= (n - 1) * rewardsDuration
        BY <4>1, Durations, ProductIsMonotone
      <4>3. ((i - 1) + 1) * rewardsDuration = (i - 1) * rewardsDuration + 1 * rewardsDuration
        BY <4>1, Durations, SumOfMultiples
      <4>4. (i - 1) * rewardsDuration \in Nat /\ (n - 1) * rewardsDuration \in Nat
        BY <4>1, Durations, ProductIsNat
      <4> QED
        BY <4>2, <4>3, <4>4, Durations
    <3>4. (i - 1) * rewardsDuration \in Nat /\ (n - 1) * rewardsDuration \in Nat
      <4>1. i - 1 \in Nat /\ n - 1 \in Nat
        BY <1>1
      <4> QED
        BY <4>1, Durations, ProductIsNat
    <3>5. 1 \in 1 .. n
      BY <1>1
    <3> QED
      BY <2>1, <3>1, <3>2, <3>3, <3>4, <3>5
  <2> QED
    BY <2>1, <2>2
<1> HIDE DEF e
<1>5. /\ epochs' \in Seq(EpochRecords) /\ DOMAIN epochs' = 1 .. n /\ Len(epochs') = n
      /\ \A i \in 1 .. n : epochs'[i] = IF i = n THEN e ELSE es[i]
  <2>1. n \in 1 .. Len(es) /\ e \in EpochRecords
    BY <1>1, <1>3, Zenon
  <2>2. /\ epochs' \in Seq(EpochRecords) /\ Len(epochs') = Len(es)
        /\ \A i \in 1 .. Len(es) : epochs'[i] = IF i = n THEN e ELSE es[i]
    <3> HIDE DEF n
    <3> QED
      BY <1>2, <2>1, ExceptSeq
  <2>3. DOMAIN epochs' = 1 .. Len(epochs')
    BY <2>2, LenProperties
  <2> QED
    BY <2>2, <2>3
<1>6. \A i \in 1 .. n : epochs'[i].date = es[i].date
  BY <1>3, <1>5
<1>7. LastOf(epochs') = epochs'[n] /\ LastOf(es) = es[n] /\ es[n].date = currentEpoch
  <2>1. LastOf(es) = es[n]
    BY DEF LastOf
  <2>2. LastOf(epochs') = epochs'[n]
    BY <1>5, Zenon DEF LastOf
  <2> QED
    BY <2>1, <2>2
<1> HIDE DEF n
<1>8. UnlockTime = currentEpoch + lockDuration /\ currentEpoch \in Nat /\ lockDuration \in Nat
  BY Dates, Durations DEF ClockType, EpochDates
<1>9. ASSUME NEW i \in 1 .. n
      PROVE  (epochs[i].supply = AllLockedUntil(epochs[i].date + lockDuration))'
  <2> DEFINE t == es[i].date + lockDuration
  <2>1. AllLockedUntil(t)' = AllLockedUntil(t) + IF t = UnlockTime THEN amount ELSE 0
    BY AllLockedUntilAdded
  <2>2. es[i].supply = AllLockedUntil(t) /\ es[i].supply \in Nat
    BY <1>1 DEF Entered, EpochRecords
  <2>3. t = UnlockTime <=> i = n
    BY <1>4, <1>7, <1>8
  <2>4. epochs'[i].supply = es[i].supply + IF i = n THEN amount ELSE 0
    BY <1>3, <1>5, <2>2
  <2>5. epochs'[i].date + lockDuration = t
    BY <1>6
  <2> HIDE DEF t
  <2>6. AllLockedUntil(epochs[i].date + lockDuration)' = AllLockedUntil(t)'
    <3>1. \A x \in Accounts : LockedUntil(x, epochs[i].date + lockDuration)' = LockedUntil(x, t)'
      BY <2>5, Zenon DEF LockedUntil
    <3>2. [x \in Accounts |-> LockedUntil(x, epochs[i].date + lockDuration)']
            = [x \in Accounts |-> LockedUntil(x, t)']
      BY <3>1, Zenon
    <3> QED
      BY <3>2, Zenon DEF AllLockedUntil
  <2>7. epochs'[i].supply = AllLockedUntil(t)'
    BY <2>1, <2>2, <2>3, <2>4
  <2> QED
    BY <2>6, <2>7
<1>10. ASSUME NEW b \in Accounts, NEW i \in DOMAIN userLocks'[b]
       PROVE  /\ epochs'[1].date + lockDuration <= userLocks'[b][i].unlockTime
              /\ userLocks'[b][i].unlockTime <= LastOf(epochs').date + lockDuration
  <2>1. /\ userLocks'[a] = AddLock(userLocks[a], amount, UnlockTime)
        /\ b # a => userLocks'[b] = userLocks[b]
        /\ userLocks[a] \in Seq(LockRecords) /\ InOrder(userLocks[a])
    BY OrderParts DEF BookType
  <2>2. userLocks'[b][i].unlockTime = UnlockTime
          \/ (i \in DOMAIN userLocks[b] /\ userLocks'[b][i] = userLocks[b][i])
    <3>1. CASE b = a
      <4> DEFINE k == Len(AddLock(userLocks[a], amount, UnlockTime))
                 new == AddLock(userLocks[a], amount, UnlockTime)
      <4>1. /\ DOMAIN new = DOMAIN userLocks[a] \cup {k} /\ new[k].unlockTime = UnlockTime
            /\ \A j \in DOMAIN userLocks[a] \ {k} : new[j] = userLocks[a][j]
        BY <2>1, AddLockAdds
      <4> HIDE DEF new, k
      <4>2. userLocks'[b] = new
        BY <2>1, <3>1 DEF new
      <4> QED
        BY <3>1, <4>1, <4>2
    <3>2. CASE b # a
      BY <2>1, <3>2
    <3> QED
      BY <3>1, <3>2
  <2>3. \A j \in DOMAIN userLocks[b] :
          /\ es[1].date + lockDuration <= userLocks[b][j].unlockTime
          /\ userLocks[b][j].unlockTime <= es[n].date + lockDuration
    BY <1>7 DEF Entered
  <2>4. es[1].date + lockDuration <= UnlockTime
    BY <1>1, <1>4, <1>7, <1>8
  <2>5. epochs'[1].date = es[1].date /\ LastOf(epochs').date = es[n].date
    BY <1>1, <1>6, <1>7
  <2> QED
    BY <1>7, <1>8, <2>2, <2>3, <2>4, <2>5
<1> QED
  BY <1>5, <1>9, <1>10 DEF SuppliesInv

(* A step enters a lock, or checkpoints the epochs, or does neither.       *)
Enters(a, amount) ==
  /\ userLocks' = [userLocks EXCEPT ![a] = AddLock(userLocks[a], amount, UnlockTime)]
  /\ epochs' = AddToLastEpoch(CheckpointedEpochs, amount)

(* Every step that adds to an epoch or a list is a lock, or adds epochs    *)
(* only.                                                                   *)
LEMMA EntrySteps ==
  ASSUME IInv, [Next]_vars
  PROVE  \/ \E a \in Accounts, amount \in Nat : Enters(a, amount)
         \/ epochs' = CheckpointedEpochs /\ userLocks' = userLocks
         \/ epochs' = epochs /\ userLocks' = userLocks
<1>1. ASSUME NEW a \in Accounts, NEW s \in Accounts, NEW amount \in LockAmounts, Lock(s, a, amount)
      PROVE  Enters(a, amount) /\ amount \in Nat
  BY <1>1, AmountAssumption DEF Lock, RecordLock, Enters
<1>2. ASSUME NEW a \in Accounts, RelockExpiredLocks(a)
      PROVE  \E amount \in Nat : Enters(a, amount)
  <2> DEFINE amount == Release(a, TRUE, 0).amount
  <2>1. RecordLock(a, amount, CheckpointedDelegatee(a))
    BY <1>2 DEF RelockExpiredLocks
  <2> HIDE DEF amount
  <2>2. amount \in Nat
    BY <2>1, AmountAssumption DEF RecordLock
  <2>3. Enters(a, amount)
    BY <2>1 DEF RecordLock, Enters
  <2> QED
    BY <2>2, <2>3
<1>3. CASE UserStep
  <2> PICK a \in Accounts :
        \/ \E s \in Accounts, amount \in LockAmounts : Lock(s, a, amount)
        \/ ProcessExpiredLocks(a)
        \/ RelockExpiredLocks(a)
        \/ \E k \in Accounts : KickExpiredLocks(k, a)
        \/ EmergencyWithdraw(a)
        \/ \E d \in Delegatees : Delegate(a, d)
        \/ \E skipped \in SUBSET rewardTokens : GetReward(a, skipped)
    BY <1>3 DEF UserStep
  <2>1. CASE \E s \in Accounts, amount \in LockAmounts : Lock(s, a, amount)
    BY <1>1, <2>1
  <2>2. CASE RelockExpiredLocks(a)
    BY <1>2, <2>2
  <2>3. CASE ProcessExpiredLocks(a) \/ \E k \in Accounts : KickExpiredLocks(k, a)
    BY <2>3 DEF ProcessExpiredLocks, KickExpiredLocks, Withdraw
  <2>4. CASE EmergencyWithdraw(a) \/ (\E d \in Delegatees : Delegate(a, d))
             \/ (\E skipped \in SUBSET rewardTokens : GetReward(a, skipped))
    BY <2>4 DEF EmergencyWithdraw, Delegate, GetReward, lockVars
  <2> QED
    BY <2>1, <2>2, <2>3, <2>4
<1>4. CASE RewardStep
  BY <1>4 DEF RewardStep, QueueNewRewards, AddReward, ApproveRewardDistributor, lockVars
<1>5. CASE OwnerStep
  BY <1>5 DEF OwnerStep, ModifyBlacklist, SetKickIncentive, Shutdown, lockVars
<1>6. CASE CheckpointEpoch
  BY <1>6 DEF CheckpointEpoch
<1>7. CASE Tick \/ UNCHANGED vars
  BY <1>7 DEF Tick, lockVars, vars
<1> QED
  BY <1>3, <1>4, <1>5, <1>6, <1>7 DEF Next

(* The epochs of the invariant.                                            *)
LEMMA EpochsOfInv ==
  IInv => ClockType /\ EpochType /\ Consecutive(epochs) /\ BookType /\ LocksSorted
  BY InvParts DEF EpochInv, EpochsConsecutive, Consecutive, BookInv

(* No step separates the supply of an epoch from its locks.                *)
LEMMA StepSupplies == IInv /\ SuppliesInv /\ [Next]_vars => SuppliesInv'
<1> SUFFICES ASSUME IInv, SuppliesInv, [Next]_vars PROVE SuppliesInv'
  OBVIOUS
<1>1. ClockType /\ EpochType /\ Consecutive(epochs) /\ BookType /\ LocksSorted
  BY EpochsOfInv
<1>2. BookType'
  <2>1. IInv'
    BY StepInv
  <2> QED
    BY <2>1 DEF IInv, TypeOK, BookType
<1>3. Entered(CheckpointedEpochs)
  BY <1>1, CheckpointEnters
<1>4. CASE epochs' = epochs /\ userLocks' = userLocks
  BY <1>4 DEF SuppliesInv, AllLockedUntil, LockedUntil
<1>5. CASE epochs' = CheckpointedEpochs /\ userLocks' = userLocks
  <2>1. Entered(epochs')
    BY <1>3, <1>5
  <2> QED
    BY <1>5, <2>1 DEF SuppliesInv, Entered, AllLockedUntil, LockedUntil
<1>6. CASE \E a \in Accounts, amount \in Nat : Enters(a, amount)
  <2>1. PICK a \in Accounts, amount \in Nat : Enters(a, amount)
    BY <1>6
  <2> DEFINE es == CheckpointedEpochs
  <2>2. /\ es \in Seq(EpochRecords) /\ es # <<>> /\ Consecutive(es)
        /\ LastOf(es).date = currentEpoch
    BY <1>1, EpochsFilled
  <2>3. /\ userLocks' = [userLocks EXCEPT ![a] = AddLock(userLocks[a], amount, UnlockTime)]
        /\ epochs' = AddToLastEpoch(es, amount)
    BY <2>1 DEF Enters
  <2>4. Entered(es)
    BY <1>3
  <2> HIDE DEF es
  <2> QED
    BY <1>1, <1>2, <2>2, <2>3, <2>4, LockEnters
<1> QED
  BY <1>4, <1>5, <1>6, EntrySteps

(* No epoch has a supply after construction.                               *)
LEMMA InitSupplies == Init => SuppliesInv
<1> SUFFICES ASSUME Init PROVE SuppliesInv
  OBVIOUS
<1>1. \A a \in Accounts : DOMAIN userLocks[a] = {}
  BY DEF Init
<1>2. DOMAIN epochs = {1} /\ epochs[1].supply = 0
  BY DEF Init
<1>3. \A t : AllLockedUntil(t) = 0
  BY <1>1, NothingLockedUntil
<1> QED
  BY <1>1, <1>2, <1>3 DEF SuppliesInv

(* The epochs that totalSupplyAtEpoch counts are those of the locks that   *)
(* count: the scan misses none and stops in time.                          *)
CountedEpochs(e) == {i \in DOMAIN epochs : e - lockDuration < epochs[i].date /\ epochs[i].date < e}
CountedLocks(a, e) ==
  {i \in DOMAIN userLocks[a] : /\ e - lockDuration < userLocks[a][i].unlockTime - lockDuration
                               /\ userLocks[a][i].unlockTime - lockDuration < e}

(* balanceAtEpochOf adds up the locks that count at the epoch.             *)
LEMMA BalanceIsCounted ==
  ASSUME BookType, LocksSorted, NEW a \in Accounts, NEW e \in Nat
  PROVE  BalanceAt(e, a) = AmountOf(userLocks[a], CountedLocks(a, e))
<1> DEFINE locks == userLocks[a]
           scanned == {i \in DOMAIN locks :
             /\ locks[i].unlockTime - lockDuration < e
             /\ \A j \in i .. Len(locks) : locks[j].unlockTime - lockDuration > e - lockDuration}
<1>1. /\ Len(locks) \in Nat /\ DOMAIN locks = 1 .. Len(locks)
      /\ \A i \in 1 .. Len(locks) : locks[i].unlockTime \in Nat
  BY RecordTypes DEF BookType
<1>2. \A i, j \in 1 .. Len(locks) : i < j => locks[i].unlockTime < locks[j].unlockTime
  BY <1>1 DEF LocksSorted
<1>3. BalanceAt(e, a) = AmountOf(locks, scanned)
  BY DEF BalanceAt
<1>4. scanned = CountedLocks(a, e)
  <2> DEFINE n == Len(locks)
             date(i) == locks[i].unlockTime
  <2>1. n \in Nat /\ DOMAIN locks = 1 .. n /\ lockDuration \in Nat
        /\ \A i \in 1 .. n : date(i) \in Nat
    BY <1>1, Durations
  <2>2. \A i, j \in 1 .. n : i < j => date(i) < date(j)
    BY <1>2
  <2>3. scanned = {i \in DOMAIN locks : /\ date(i) - lockDuration < e
                     /\ \A j \in i .. n : date(j) - lockDuration > e - lockDuration}
    OBVIOUS
  <2>4. CountedLocks(a, e) = {i \in DOMAIN locks : /\ e - lockDuration < date(i) - lockDuration
                                                   /\ date(i) - lockDuration < e}
    BY DEF CountedLocks
  <2> HIDE DEF n, date, scanned, locks
  <2>5. ASSUME NEW i \in 1 .. n, e - lockDuration < date(i) - lockDuration, NEW j \in i .. n
        PROVE  date(j) - lockDuration > e - lockDuration
    <3>1. j \in 1 .. n /\ (i < j \/ i = j)
      BY <2>1
    <3> QED
      BY <2>1, <2>2, <2>5, <3>1
  <2>6. \A i \in 1 .. n : i \in i .. n
    BY <2>1
  <2>7. \A i \in 1 .. n : (date(i) - lockDuration > e - lockDuration) <=> (e - lockDuration < date(i) - lockDuration)
    BY <2>1
  <2> QED
    BY <2>1, <2>3, <2>4, <2>5, <2>6, <2>7
<1> HIDE DEF scanned
<1> QED
  BY <1>3, <1>4

(* totalSupplyAtEpoch adds up the supplies of the epochs that count.       *)
LEMMA SupplyIsCounted ==
  ASSUME ClockType, EpochType, Consecutive(epochs), NEW e \in KnownEpochs
  PROVE  SupplyAt(e) = SumFunctionOnSet([i \in DOMAIN epochs |-> epochs[i].supply], CountedEpochs(e))
<1> DEFINE n == Len(epochs)
           first == epochs[1].date
           id == (e - first) \div rewardsDuration
           last == Least(id + 1, n)
           date(i) == epochs[i].date
           counted == {i \in 1 .. last :
             epochs[i].date # e /\ \A j \in i .. last : epochs[j].date > e - lockDuration}
<1>1. /\ n \in Nat \ {0} /\ DOMAIN epochs = 1 .. n /\ \A i \in 1 .. n : epochs[i] \in EpochRecords
  BY EmptySeq, LenProperties, ElementOfSeq DEF EpochType
<1>2. \A i \in 1 .. n : date(i) \in Nat /\ date(i) % rewardsDuration = 0
  <2> SUFFICES ASSUME NEW i \in 1 .. n PROVE date(i) \in Nat /\ date(i) % rewardsDuration = 0
    OBVIOUS
  <2>1. epochs[i] \in EpochRecords
    BY <1>1, Zenon
  <2> QED
    BY <2>1 DEF EpochRecords, EpochDates
<1>3. \A i \in 1 .. n : date(i) = first + (i - 1) * rewardsDuration
  BY <1>1 DEF Consecutive
<1>4. /\ e \in Nat /\ e % rewardsDuration = 0 /\ first <= e
      /\ first \in Nat /\ first % rewardsDuration = 0
  <2>1. 1 \in 1 .. n
    BY <1>1
  <2> QED
    BY <1>2, <2>1 DEF KnownEpochs, EpochDates
<1>5. id \in Nat /\ e = first + id * rewardsDuration
  BY <1>4, EpochsBetween
<1>6. SupplyAt(e) = SumFunctionOnSet([i \in DOMAIN epochs |-> epochs[i].supply], counted)
  BY DEF SupplyAt
<1>7. CountedEpochs(e) = {i \in 1 .. n : e - lockDuration < date(i) /\ date(i) < e}
  BY <1>1 DEF CountedEpochs
<1>8. counted = {i \in 1 .. last : date(i) # e /\ \A j \in i .. last : date(j) > e - lockDuration}
  OBVIOUS
<1>9. last \in Nat /\ last <= n /\ last <= id + 1 /\ (last = n \/ last = id + 1)
  BY <1>1, <1>5 DEF Least
<1> HIDE DEF counted, last, id, n, first
<1>10. ASSUME NEW i \in Nat \ {0}, NEW j \in Nat, i <= j
       PROVE  (i - 1) * rewardsDuration <= (j - 1) * rewardsDuration
  BY <1>10, Durations, ProductIsMonotone
<1>11. ASSUME NEW i \in 1 .. n, NEW j \in 1 .. n, i <= j
       PROVE  date(i) <= date(j)
  <2>1. (i - 1) * rewardsDuration <= (j - 1) * rewardsDuration
    BY <1>10, <1>11
  <2>2. (i - 1) * rewardsDuration \in Nat /\ (j - 1) * rewardsDuration \in Nat
    BY Durations, ProductIsNat
  <2> QED
    BY <1>3, <1>4, <2>1, <2>2
<1>12. ASSUME NEW i \in 1 .. n
       PROVE  /\ i <= id + 1 => date(i) <= e
              /\ id + 1 < i => e < date(i)
  <2>1. (i - 1) * rewardsDuration \in Nat /\ id * rewardsDuration \in Nat
    BY <1>5, Durations, ProductIsNat
  <2>2. ASSUME i <= id + 1 PROVE date(i) <= e
    <3>1. (i - 1) * rewardsDuration <= id * rewardsDuration
      <4>1. i - 1 <= id /\ i - 1 \in Nat
        BY <1>5, <2>2
      <4> QED
        BY <1>5, <4>1, Durations, ProductIsMonotone
    <3> QED
      BY <1>3, <1>4, <1>5, <2>1, <3>1
  <2>3. ASSUME id + 1 < i PROVE e < date(i)
    <3>1. id + 1 <= i - 1 /\ i - 1 \in Nat /\ id + 1 \in Nat
      BY <1>5, <2>3
    <3>2. (id + 1) * rewardsDuration <= (i - 1) * rewardsDuration
      BY <3>1, Durations, ProductIsMonotone
    <3>3. (id + 1) * rewardsDuration = id * rewardsDuration + 1 * rewardsDuration
      BY <1>5, Durations, SumOfMultiples
    <3> QED
      BY <1>3, <1>4, <1>5, <2>1, <3>2, <3>3, Durations
  <2> QED
    BY <2>2, <2>3
<1> HIDE DEF date
<1>13. counted = CountedEpochs(e)
  <2>1. ASSUME NEW i \in counted PROVE i \in CountedEpochs(e)
    <3>1. i \in 1 .. last /\ date(i) # e /\ i \in i .. last /\ \A j \in i .. last : date(j) > e - lockDuration
      BY <1>8, <1>9
    <3>2. i \in 1 .. n /\ i <= id + 1
      BY <1>1, <1>5, <1>9, <3>1
    <3> QED
      BY <1>2, <1>4, <1>7, <1>12, <3>1, <3>2, Durations
  <2>2. ASSUME NEW i \in CountedEpochs(e) PROVE i \in counted
    <3>1. i \in 1 .. n /\ e - lockDuration < date(i) /\ date(i) < e
      BY <1>7
    <3>2. i \in 1 .. last
      BY <1>1, <1>2, <1>4, <1>5, <1>9, <1>12, <3>1
    <3>3. ASSUME NEW j \in i .. last PROVE date(j) > e - lockDuration
      <4>1. j \in 1 .. n /\ i <= j
        BY <1>1, <1>9, <3>1
      <4> QED
        BY <1>2, <1>4, <1>11, <3>1, <4>1, Durations
    <3>4. date(i) # e
      BY <1>2, <1>4, <3>1
    <3> QED
      BY <1>8, <3>2, <3>3, <3>4
  <2> QED
    BY <2>1, <2>2
<1> QED
  BY <1>6, <1>13

(* What an account's locks hold is, epoch by epoch, what it locked until   *)
(* the end of each.                                                        *)
LEMMA BalanceByEpoch ==
  ASSUME EpochType, Consecutive(epochs), BookType, LocksSorted, SuppliesInv, NEW a \in Accounts,
         NEW e \in Nat
  PROVE  /\ IsFiniteSet(CountedEpochs(e))
         /\ BalanceAt(e, a)
              = SumFunctionOnSet([i \in CountedEpochs(e) |-> LockedUntil(a, epochs[i].date + lockDuration)],
                                 CountedEpochs(e))
<1> DEFINE C == CountedEpochs(e)
           D == DOMAIN userLocks[a]
           amounts == [k \in D |-> userLocks[a][k].amount]
           until(i) == epochs[i].date + lockDuration
           part == [i \in C |-> RecordsUntil(userLocks[a], until(i))]
           locked == [i \in C |-> LockedUntil(a, until(i))]
<1>1. /\ Len(epochs) \in Nat /\ DOMAIN epochs = 1 .. Len(epochs) /\ 1 \in DOMAIN epochs
      /\ Len(epochs) \in DOMAIN epochs /\ LastOf(epochs) = epochs[Len(epochs)]
      /\ \A i \in DOMAIN epochs : epochs[i] \in EpochRecords
  BY EmptySeq, LenProperties, ElementOfSeq DEF EpochType, LastOf
<1>2. \A i \in DOMAIN epochs : epochs[i].date \in Nat /\ epochs[i].date % rewardsDuration = 0
  BY <1>1 DEF EpochRecords, EpochDates
<1>3. /\ IsFiniteSet(C) /\ C \subseteq DOMAIN epochs
  <2>1. IsFiniteSet(1 .. Len(epochs))
    BY <1>1, FS_Interval
  <2> QED
    BY <1>1, <2>1, FS_Subset DEF CountedEpochs
<1>4. /\ IsFiniteSet(D) /\ userLocks[a] \in Seq(LockRecords)
      /\ \A k \in D : userLocks[a][k] \in LockRecords /\ userLocks[a][k].amount \in Nat
  BY RecordTypes, AmountIsNat DEF BookType
<1>5. \A k \in D : amounts[k] \in Int
  BY <1>4
<1>6. ASSUME NEW i \in C
      PROVE  part[i] \subseteq D /\ locked[i] = SumFunctionOnSet(amounts, part[i])
  BY DEF RecordsUntil, LockedUntil, AmountOf
<1>7. ASSUME NEW i \in C, NEW j \in C, i # j
      PROVE  part[i] \cap part[j] = {}
  <2>1. epochs[i].date # epochs[j].date
    <3>1. /\ epochs[i].date = epochs[1].date + (i - 1) * rewardsDuration
          /\ epochs[j].date = epochs[1].date + (j - 1) * rewardsDuration
      BY <1>3 DEF Consecutive
    <3>2. i - 1 \in Nat /\ j - 1 \in Nat /\ (i - 1 < j - 1 \/ j - 1 < i - 1)
      BY <1>1, <1>3, <1>7
    <3>3. ASSUME NEW p \in Nat, NEW q \in Nat, p < q
          PROVE  p * rewardsDuration < q * rewardsDuration
      <4>1. p + 1 \in Nat /\ p + 1 <= q
        BY <3>3
      <4>2. (p + 1) * rewardsDuration <= q * rewardsDuration
        BY <4>1, Durations, ProductIsMonotone
      <4>3. (p + 1) * rewardsDuration = p * rewardsDuration + 1 * rewardsDuration
        BY Durations, SumOfMultiples
      <4>4. p * rewardsDuration \in Nat /\ q * rewardsDuration \in Nat
        BY Durations, ProductIsNat
      <4> QED
        BY <4>2, <4>3, <4>4, Durations
    <3>4. (i - 1) * rewardsDuration \in Nat /\ (j - 1) * rewardsDuration \in Nat
      BY <3>2, Durations, ProductIsNat
    <3>5. (i - 1) * rewardsDuration # (j - 1) * rewardsDuration
      BY <3>2, <3>3, <3>4
    <3> QED
      BY <1>1, <1>2, <3>1, <3>4, <3>5
  <2>2. until(i) # until(j)
    BY <1>2, <1>3, <2>1, Durations
  <2> QED
    BY <2>2 DEF RecordsUntil
<1>8. CountedLocks(a, e) = {k \in D : \E i \in C : k \in part[i]}
  <2>1. ASSUME NEW k \in CountedLocks(a, e) PROVE \E i \in C : k \in part[i]
    <3> DEFINE t == userLocks[a][k].unlockTime
               d == t - lockDuration
               m == (d - epochs[1].date) \div rewardsDuration
    <3>1. k \in D /\ e - lockDuration < d /\ d < e
      BY DEF CountedLocks
    <3>2. t \in Nat /\ t % rewardsDuration = 0
      BY <1>4, <3>1 DEF LockRecords, EpochDates
    <3>3. epochs[1].date + lockDuration <= t /\ t <= LastOf(epochs).date + lockDuration
      BY <3>1 DEF SuppliesInv
    <3>4. /\ d \in Nat /\ epochs[1].date \in Nat /\ LastOf(epochs).date \in Nat
          /\ epochs[1].date <= d /\ d <= LastOf(epochs).date /\ t = d + lockDuration
      BY <1>1, <1>2, <3>2, <3>3, Durations
    <3> HIDE DEF t, d
    <3>5. d % rewardsDuration = 0
      <4> DEFINE q == t \div rewardsDuration
      <4>1. q \in Nat /\ t = q * rewardsDuration
        BY <3>2, Durations, WholeIsMultiple
      <4> HIDE DEF q
      <4>2. d = q * rewardsDuration - LockEpochs * rewardsDuration
        BY <3>2, <3>4, <4>1, Durations
      <4>3. LockEpochs \in Nat /\ LockEpochs * rewardsDuration <= q * rewardsDuration
        BY <3>2, <3>4, <4>1, Durations, TimeAssumption
      <4>4. q - LockEpochs \in Nat /\ d = (q - LockEpochs) * rewardsDuration
        BY <4>1, <4>2, <4>3, Durations, DifferenceOfMultiples
      <4> QED
        BY <4>4, Durations, MultipleIsWhole
    <3>6. m \in Nat /\ d = epochs[1].date + m * rewardsDuration
      BY <1>1, <1>2, <3>4, <3>5, EpochsBetween
    <3> HIDE DEF m
    <3> DEFINE n == Len(epochs)
    <3>7. m <= n - 1
      <4>1. LastOf(epochs).date = epochs[1].date + (n - 1) * rewardsDuration
        BY <1>1 DEF Consecutive
      <4>2. n - 1 \in Nat
        BY <1>1
      <4>3. (n - 1) * rewardsDuration \in Nat /\ m * rewardsDuration \in Nat
        BY <3>6, <4>2, Durations, ProductIsNat
      <4>4. m * rewardsDuration <= (n - 1) * rewardsDuration
        BY <3>4, <3>6, <4>1, <4>3
      <4> HIDE DEF n
      <4> SUFFICES ASSUME n - 1 < m PROVE FALSE
        BY <3>6, <4>2
      <4>5. (n - 1) + 1 \in Nat /\ (n - 1) + 1 <= m
        BY <3>6, <4>2
      <4>6. ((n - 1) + 1) * rewardsDuration <= m * rewardsDuration
        BY <3>6, <4>5, Durations, ProductIsMonotone
      <4>7. ((n - 1) + 1) * rewardsDuration = (n - 1) * rewardsDuration + 1 * rewardsDuration
        BY <4>2, Durations, SumOfMultiples
      <4> QED
        BY <4>3, <4>4, <4>6, <4>7, Durations
    <3>8. m + 1 \in DOMAIN epochs /\ (m + 1) - 1 = m
      BY <1>1, <3>6, <3>7
    <3>9. epochs[m + 1].date = d
      BY <3>6, <3>8 DEF Consecutive
    <3>10. m + 1 \in C
      BY <3>1, <3>8, <3>9 DEF CountedEpochs
    <3>11. k \in part[m + 1]
      BY <3>1, <3>4, <3>9, <3>10 DEF RecordsUntil, t
    <3> QED
      BY <3>10, <3>11
  <2>2. ASSUME NEW k \in D, NEW i \in C, k \in part[i] PROVE k \in CountedLocks(a, e)
    <3>1. /\ userLocks[a][k].unlockTime = epochs[i].date + lockDuration
          /\ epochs[i].date \in Nat
      BY <1>2, <1>3, <2>2 DEF RecordsUntil
    <3>2. e - lockDuration < epochs[i].date /\ epochs[i].date < e
      BY DEF CountedEpochs
    <3>3. userLocks[a][k].unlockTime - lockDuration = epochs[i].date
      BY <3>1, Durations
    <3> QED
      BY <3>2, <3>3 DEF CountedLocks
  <2>3. CountedLocks(a, e) \subseteq D
    BY DEF CountedLocks
  <2> HIDE DEF part, C, D
  <2> QED
    BY <2>1, <2>2, <2>3
<1>9. BalanceAt(e, a) = SumFunctionOnSet(amounts, CountedLocks(a, e))
  BY BalanceIsCounted DEF AmountOf
<1> HIDE DEF C, D, amounts, part, locked
<1>10. SumFunctionOnSet(locked, C) = SumFunctionOnSet(amounts, {k \in D : \E i \in C : k \in part[i]})
  <2>1. /\ \A i \in C : part[i] \subseteq D /\ locked[i] = SumFunctionOnSet(amounts, part[i])
        /\ \A i, j \in C : i # j => part[i] \cap part[j] = {}
    BY <1>6, <1>7, Zenon
  <2>2. IsFiniteSet(C) /\ IsFiniteSet(D)
    BY <1>3, <1>4
  <2> QED
    BY <1>5, <2>1, <2>2, SumOfClasses
<1>11. SumFunctionOnSet(locked, C) = BalanceAt(e, a)
  BY <1>8, <1>9, <1>10, Zenon
<1> QED
  BY <1>3, <1>11 DEF locked, C

(* The two ways to count agree.                                            *)
LEMMA SuppliesMatch ==
  ASSUME IInv, SuppliesInv, NEW e \in KnownEpochs
  PROVE  SupplyAt(e) = SumFunctionOnSet([a \in Accounts |-> BalanceAt(e, a)], Accounts)
<1> DEFINE C == CountedEpochs(e)
           table == [i \in C |-> [a \in Accounts |-> LockedUntil(a, epochs[i].date + lockDuration)]]
           columns == [a \in Accounts |-> [i \in C |-> table[i][a]]]
           supplies == [i \in DOMAIN epochs |-> epochs[i].supply]
           held == [a \in Accounts |-> BalanceAt(e, a)]
<1>1. ClockType /\ EpochType /\ Consecutive(epochs) /\ BookType /\ LocksSorted
  BY EpochsOfInv
<1>2. e \in Nat
  BY DEF KnownEpochs, EpochDates
<1>3. IsFiniteSet(C) /\ IsFiniteSet(Accounts) /\ C \subseteq DOMAIN epochs
  <2>1. IsFiniteSet(1 .. Len(epochs)) /\ DOMAIN epochs = 1 .. Len(epochs)
    BY <1>1, LenProperties, FS_Interval DEF EpochType
  <2> QED
    BY <2>1, AddressAssumption, FS_Subset DEF CountedEpochs
<1>4. \A i \in C : \A a \in Accounts : table[i][a] \in Int
  BY <1>1, LockedIsNat
<1>5. ASSUME NEW i \in C PROVE supplies[i] = SumFunctionOnSet(table[i], Accounts)
  BY <1>3 DEF SuppliesInv, AllLockedUntil
<1>6. ASSUME NEW a \in Accounts PROVE held[a] = SumFunctionOnSet(columns[a], C)
  <2>1. BalanceAt(e, a)
          = SumFunctionOnSet([i \in C |-> LockedUntil(a, epochs[i].date + lockDuration)], C)
    BY <1>1, <1>2, BalanceByEpoch
  <2>2. [i \in C |-> LockedUntil(a, epochs[i].date + lockDuration)] = columns[a]
    OBVIOUS
  <2> HIDE DEF table, columns, C
  <2> QED
    BY <2>1, <2>2, Zenon
<1>7. SupplyAt(e) = SumFunctionOnSet(supplies, C)
  BY <1>1, SupplyIsCounted
<1>9. \A a \in Accounts : \A i \in C : columns[a][i] = table[i][a]
  OBVIOUS
<1> HIDE DEF table, columns, supplies, held, C
<1>8. SumFunctionOnSet(supplies, C) = SumFunctionOnSet(held, Accounts)
  <2>1. AreSums(supplies, table, C, Accounts) /\ AreSums(held, columns, Accounts, C)
    BY <1>5, <1>6, Zenon DEF AreSums
  <2>3. IsTable(table, columns, C, Accounts)
    BY <1>4, <1>9 DEF IsTable
  <2>2. IsFiniteSet(C) /\ IsFiniteSet(Accounts)
    BY <1>3
  <2> QED
    BY <2>1, <2>2, <2>3, SumsExchange
<1> QED
  BY <1>7, <1>8 DEF held

(* The two bookkeepings of the locks agree: at every epoch that has begun, *)
(* however late it was checkpointed, and at the upcoming one, the total    *)
(* supply is the sum of the balances of the accounts.                      *)
THEOREM SupplyMatchesBalances == Spec => []SupplyIsSumOfBalances
<1> USE DEF Spec
<1>1. Init => SuppliesInv
  BY InitSupplies
<1>2. IInv /\ SuppliesInv /\ [Next]_vars => SuppliesInv'
  BY StepSupplies
<1>3. IInv /\ SuppliesInv => SupplyIsSumOfBalances
  BY SuppliesMatch DEF SupplyIsSumOfBalances
<1> QED
  BY <1>1, <1>2, <1>3, Invariant, PTL

-----------------------------------------------------------------------------
(* The binary search.                                                      *)

(* g is the function that _checkpointsLookup computes.                     *)
IsSearch(g, ckpts, epoch) ==
  g = [range \in (0 .. Len(ckpts)) \X (0 .. Len(ckpts)) |->
        LET low == range[1]
            high == range[2]
            mid == (low + high) \div 2
        IN  IF low >= high THEN high
            ELSE IF ckpts[mid + 1].epochStart > epoch THEN g[<<low, mid>>]
            ELSE g[<<mid + 1, high>>]]

(* The search is read off the recursive function that CHOOSE takes.        *)
LEMMA SearchIsChosen ==
  ASSUME NEW ckpts, NEW epoch
  PROVE CheckpointsLookup(ckpts, epoch) = (CHOOSE g : IsSearch(g, ckpts, epoch))[<<0, Len(ckpts)>>]
  BY DEF CheckpointsLookup, IsSearch

(* Such a function halves the interval (_checkpointsLookup).               *)
LEMMA SearchStep ==
  ASSUME NEW g, NEW ckpts, NEW epoch, IsSearch(g, ckpts, epoch),
         NEW low \in 0 .. Len(ckpts), NEW high \in 0 .. Len(ckpts)
  PROVE  g[<<low, high>>] =
           IF low >= high THEN high
           ELSE IF ckpts[((low + high) \div 2) + 1].epochStart > epoch
                THEN g[<<low, (low + high) \div 2>>]
                ELSE g[<<((low + high) \div 2) + 1, high>>]
  BY DEF IsSearch

(* Where the search of a range ends when the first p checkpoints, and no   *)
(* others, start by the epoch.                                             *)
Found(p, low, high) ==
  IF low >= high THEN high ELSE IF p <= low THEN low ELSE IF high <= p THEN high ELSE p

Divides(p, ckpts, epoch) ==
  /\ p \in 0 .. Len(ckpts)
  /\ \A i \in 1 .. p : ckpts[i].epochStart <= epoch
  /\ \A i \in (p + 1) .. Len(ckpts) : ckpts[i].epochStart > epoch

(* The middle of an interval lies in it.                                   *)
LEMMA MiddleIsBetween ==
  ASSUME NEW low \in Nat, NEW high \in Nat, low < high
  PROVE  /\ (low + high) \div 2 \in Nat /\ low <= (low + high) \div 2
         /\ (low + high) \div 2 < high
  BY SMT

(* Halving finds the same place.                                           *)
LEMMA FoundStep ==
  ASSUME NEW p \in Nat, NEW low \in Nat, NEW high \in Nat, low < high,
         NEW mid \in Nat, low <= mid, mid < high
  PROVE  /\ mid + 1 > p => Found(p, low, high) = Found(p, low, mid)
         /\ mid + 1 <= p => Found(p, low, high) = Found(p, mid + 1, high)
  BY SMT DEF Found

(* Every checkpoint a search looks at is on its side of the division.      *)
LEMMA DivisionDecides ==
  ASSUME NEW ckpts, Len(ckpts) \in Nat, NEW epoch \in Nat, NEW p, Divides(p, ckpts, epoch),
         \A i \in 1 .. Len(ckpts) : ckpts[i].epochStart \in Nat,
         NEW k \in 1 .. Len(ckpts)
  PROVE  ckpts[k].epochStart > epoch <=> k > p
<1>1. k \in 1 .. p \/ k \in (p + 1) .. Len(ckpts)
  BY DEF Divides
<1> QED
  BY <1>1 DEF Divides

(* There is such a function, so CHOOSE takes one.                          *)
LEMMA SearchExists ==
  ASSUME NEW ckpts, Len(ckpts) \in Nat, NEW epoch \in Nat, NEW p, Divides(p, ckpts, epoch),
         \A i \in 1 .. Len(ckpts) : ckpts[i].epochStart \in Nat
  PROVE  \E g : IsSearch(g, ckpts, epoch)
<1> DEFINE n == Len(ckpts)
           g == [range \in (0 .. n) \X (0 .. n) |-> Found(p, range[1], range[2])]
           step(range) ==
             LET low == range[1]
                 high == range[2]
                 mid == (low + high) \div 2
             IN  IF low >= high THEN high
                 ELSE IF ckpts[mid + 1].epochStart > epoch THEN g[<<low, mid>>]
                 ELSE g[<<mid + 1, high>>]
<1>1. ASSUME NEW range \in (0 .. n) \X (0 .. n)
      PROVE  g[range] = step(range)
  <2> DEFINE low == range[1]
             high == range[2]
             mid == (low + high) \div 2
  <2>1. low \in 0 .. n /\ high \in 0 .. n /\ n \in Nat /\ p \in 0 .. n
    BY DEF Divides
  <2>2. g[range] = Found(p, low, high)
    OBVIOUS
  <2>3. \A i, j \in 0 .. n : g[<<i, j>>] = Found(p, i, j)
    OBVIOUS
  <2>4. step(range) = IF low >= high THEN high
                      ELSE IF ckpts[mid + 1].epochStart > epoch THEN g[<<low, mid>>]
                      ELSE g[<<mid + 1, high>>]
    OBVIOUS
  <2> HIDE DEF g, step, low, high
  <2>5. CASE low >= high
    BY <2>1, <2>2, <2>4, <2>5 DEF Found
  <2>6. CASE low < high
    <3>1. mid \in Nat /\ low <= mid /\ mid < high
      BY <2>1, <2>6, MiddleIsBetween
    <3> HIDE DEF mid
    <3>2. /\ mid \in 0 .. n /\ mid + 1 \in 0 .. n
          /\ mid + 1 > p => Found(p, low, high) = Found(p, low, mid)
          /\ mid + 1 <= p => Found(p, low, high) = Found(p, mid + 1, high)
      <4>1. /\ mid \in 0 .. n /\ mid + 1 \in 0 .. n
            /\ p \in Nat /\ low \in Nat /\ high \in Nat
        BY <2>1, <3>1
      <4> QED
        BY <2>6, <3>1, <4>1, FoundStep
    <3>3. mid + 1 \in 1 .. n
      BY <2>1, <3>1, <3>2
    <3>4. ckpts[mid + 1].epochStart > epoch <=> mid + 1 > p
      BY <3>3, DivisionDecides
    <3>5. CASE mid + 1 > p
      BY <2>1, <2>2, <2>3, <2>4, <2>6, <3>2, <3>4, <3>5
    <3>6. CASE ~(mid + 1 > p)
      <4>1. mid + 1 <= p
        BY <2>1, <3>2, <3>6
      <4> QED
        BY <2>1, <2>2, <2>3, <2>4, <2>6, <3>2, <3>4, <3>6, <4>1
    <3> QED
      BY <3>5, <3>6
  <2> QED
    BY <2>1, <2>5, <2>6
<1>2. g = [range \in (0 .. n) \X (0 .. n) |-> g[range]]
  OBVIOUS
<1>3. [range \in (0 .. n) \X (0 .. n) |-> g[range]] = [range \in (0 .. n) \X (0 .. n) |-> step(range)]
  <2> HIDE DEF g, step
  <2> QED
    BY <1>1, Zenon
<1>4. IsSearch(g, ckpts, epoch)
  <2>1. g = [range \in (0 .. n) \X (0 .. n) |-> step(range)]
    <3> HIDE DEF g, step
    <3> QED
      BY <1>2, <1>3, Zenon
  <2> HIDE DEF g
  <2> QED
    BY <2>1, Zenon DEF IsSearch
<1> QED
  BY <1>4

(* Every such function finds the checkpoint that divides the list.         *)
LEMMA SearchFinds ==
  ASSUME NEW ckpts, Len(ckpts) \in Nat, NEW epoch \in Nat, NEW p, Divides(p, ckpts, epoch),
         \A i \in 1 .. Len(ckpts) : ckpts[i].epochStart \in Nat,
         NEW g, IsSearch(g, ckpts, epoch)
  PROVE  \A low, high \in 0 .. Len(ckpts) : g[<<low, high>>] = Found(p, low, high)
<1> DEFINE n == Len(ckpts)
           Bad == {T \in SUBSET (0 .. n) : \E low, high \in 0 .. n :
                     T = low .. high /\ g[<<low, high>>] # Found(p, low, high)}
<1>1. ASSUME NEW low \in 0 .. n, NEW high \in 0 .. n, g[<<low, high>>] # Found(p, low, high)
      PROVE  low .. high \in Bad
  BY <1>1
<1>2. SUFFICES ASSUME Bad # {} PROVE FALSE
  BY <1>1
<1>3. PICK T \in Bad : \A U \in SUBSET T : U # T => U \notin Bad
  <2>1. Bad \subseteq SUBSET (0 .. n) /\ IsFiniteSet(0 .. n)
    BY FS_Interval
  <2> HIDE DEF Bad
  <2> QED
    BY <1>2, <2>1, SmallestSubset
<1>4. PICK low \in 0 .. n, high \in 0 .. n : T = low .. high /\ g[<<low, high>>] # Found(p, low, high)
  BY <1>3
<1> DEFINE mid == (low + high) \div 2
<1>5. g[<<low, high>>] = IF low >= high THEN high
                         ELSE IF ckpts[mid + 1].epochStart > epoch THEN g[<<low, mid>>]
                         ELSE g[<<mid + 1, high>>]
  BY SearchStep
<1>6. low < high
  BY <1>4, <1>5 DEF Found
<1>7. mid \in Nat /\ low <= mid /\ mid < high
  BY <1>6, MiddleIsBetween
<1> HIDE DEF mid
<1>8. /\ mid \in 0 .. n /\ mid + 1 \in 0 .. n
      /\ mid + 1 > p => Found(p, low, high) = Found(p, low, mid)
      /\ mid + 1 <= p => Found(p, low, high) = Found(p, mid + 1, high)
  <2>1. p \in 0 .. n /\ n \in Nat
    BY DEF Divides
  <2> HIDE DEF n
  <2>2. /\ mid \in 0 .. n /\ mid + 1 \in 0 .. n
        /\ p \in Nat /\ low \in Nat /\ high \in Nat
    BY <1>7, <2>1
  <2> QED
    BY <1>6, <1>7, <2>2, FoundStep
<1>9. ckpts[mid + 1].epochStart > epoch <=> mid + 1 > p
  <2>1. mid + 1 \in 1 .. n
    BY <1>7, <1>8
  <2> QED
    BY <2>1, DivisionDecides
<1>10. g[<<low, mid>>] = Found(p, low, mid)
  <2>1. low .. mid \in SUBSET T /\ low .. mid # T
    <3>1. high \in T /\ high \notin low .. mid
      BY <1>4, <1>6, <1>7
    <3> QED
      BY <1>4, <1>6, <1>7, <3>1
  <2>2. low .. mid \notin Bad
    BY <1>3, <2>1
  <2> HIDE DEF Bad
  <2> QED
    BY <1>1, <1>8, <2>2
<1>11. g[<<mid + 1, high>>] = Found(p, mid + 1, high)
  <2>1. (mid + 1) .. high \in SUBSET T /\ (mid + 1) .. high # T
    <3>1. low \in T /\ low \notin (mid + 1) .. high
      BY <1>4, <1>6, <1>7
    <3> QED
      BY <1>4, <1>6, <1>7, <3>1
  <2>2. (mid + 1) .. high \notin Bad
    BY <1>3, <2>1
  <2> HIDE DEF Bad
  <2> QED
    BY <1>1, <1>8, <2>2
<1> HIDE DEF Bad
<1>12. mid + 1 > p \/ mid + 1 <= p
  BY <1>7 DEF Divides
<1> QED
  BY <1>4, <1>5, <1>6, <1>8, <1>9, <1>10, <1>11, <1>12

(* The search finds the number of checkpoints that start by the epoch.     *)
LEMMA LookupCounts ==
  ASSUME NEW ckpts \in Seq(Checkpoints), NEW epoch \in Nat, NEW p, Divides(p, ckpts, epoch)
  PROVE  CheckpointsLookup(ckpts, epoch) = p
<1>1. Len(ckpts) \in Nat /\ \A i \in 1 .. Len(ckpts) : ckpts[i].epochStart \in Nat
  <2>1. Len(ckpts) \in Nat /\ \A i \in 1 .. Len(ckpts) : ckpts[i] \in Checkpoints
    BY LenProperties, ElementOfSeq
  <2> QED
    BY <2>1 DEF Checkpoints, EpochDates
<1> DEFINE g == CHOOSE f : IsSearch(f, ckpts, epoch)
<1>2. IsSearch(g, ckpts, epoch)
  BY <1>1, SearchExists
<1>3. CheckpointsLookup(ckpts, epoch) = g[<<0, Len(ckpts)>>]
  BY SearchIsChosen
<1> HIDE DEF g
<1>4. 0 \in 0 .. Len(ckpts) /\ Len(ckpts) \in 0 .. Len(ckpts)
  BY <1>1
<1>5. g[<<0, Len(ckpts)>>] = Found(p, 0, Len(ckpts))
  BY <1>1, <1>2, <1>4, SearchFinds
<1>6. Found(p, 0, Len(ckpts)) = p
  BY <1>1 DEF Found, Divides
<1> QED
  BY <1>3, <1>5, <1>6

-----------------------------------------------------------------------------
(* The votes of the delegatees.                                            *)

(* What the delegators of d have locked until a date; the dates after one, *)
(* and what unlocks on them.                                               *)
DelegatedUntil(d, t) ==
  SumFunctionOnSet([a \in Accounts |-> LockedUntil(a, t)], {a \in Accounts : delegates[a] = d})
DatesAfter(t) == {u \in EpochDates : t < u}
VotesAfter(unlocks, t) == SumFunctionOnSet(unlocks, DatesAfter(t))

(* The last checkpoint of a delegatee has the votes that unlock after it,  *)
(* and all unlocks are within a lock's duration of it.                     *)
Voted(ckpts, unlocks) ==
  IF ckpts = <<>> THEN \A t \in EpochDates : unlocks[t] = 0
  ELSE /\ LastOf(ckpts).votes <= MaxUint224
       /\ LastOf(ckpts).votes = VotesAfter(unlocks, LastOf(ckpts).epochStart)
       /\ \A t \in EpochDates : unlocks[t] > 0 => t < LastOf(ckpts).epochStart + lockDuration

(* delegateeUnlocks is what the delegators have locked beyond the upcoming *)
(* epoch, date by date, and the checkpoints are up to it.                  *)
VotesInv ==
  \A d \in Delegatees :
    /\ \A t \in EpochDates : upcomingEpoch < t => delegateeUnlocks[d][t] = DelegatedUntil(d, t)
    /\ Voted(checkpointedVotes[d], delegateeUnlocks[d])

(* There are finitely many dates.                                          *)
LEMMA DatesAreFinite ==
  ASSUME NEW D, D \subseteq EpochDates
  PROVE  IsFiniteSet(D)
<1>1. 0 \in Int /\ MaxTime + lockDuration \in Int
  BY Durations
<1>2. IsFiniteSet(0 .. (MaxTime + lockDuration))
  BY <1>1, FS_Interval
<1>3. D \subseteq 0 .. (MaxTime + lockDuration)
  BY DEF EpochDates
<1> QED
  BY <1>2, <1>3, FS_Subset

(* The unlocks after a date fall into those until a later one and those    *)
(* after that.                                                             *)
LEMMA VotesSplit ==
  ASSUME NEW unlocks \in [EpochDates -> Nat], NEW s \in Nat, NEW t \in Nat, s <= t
  PROVE  /\ VotesAfter(unlocks, s) \in Nat /\ VotesAfter(unlocks, t) \in Nat
         /\ SumFunctionOnSet(unlocks, {u \in EpochDates : s < u /\ u <= t}) \in Nat
         /\ VotesAfter(unlocks, s)
              = SumFunctionOnSet(unlocks, {u \in EpochDates : s < u /\ u <= t}) + VotesAfter(unlocks, t)
<1> DEFINE between == {u \in EpochDates : s < u /\ u <= t}
<1>1. \A u \in EpochDates : u \in Nat
  BY DEF EpochDates
<1>2. /\ IsFiniteSet(between) /\ IsFiniteSet(DatesAfter(t)) /\ IsFiniteSet(DatesAfter(s))
      /\ between \subseteq EpochDates /\ DatesAfter(t) \subseteq EpochDates
      /\ DatesAfter(s) \subseteq EpochDates
  BY DatesAreFinite DEF DatesAfter
<1>3. between \cap DatesAfter(t) = {} /\ between \cup DatesAfter(t) = DatesAfter(s)
  BY <1>1 DEF DatesAfter
<1>4. \A D \in SUBSET EpochDates : \A u \in D : unlocks[u] \in Nat /\ unlocks[u] \in Int
  OBVIOUS
<1> HIDE DEF between
<1>5. /\ SumFunctionOnSet(unlocks, between) \in Nat
      /\ SumFunctionOnSet(unlocks, DatesAfter(t)) \in Nat
      /\ SumFunctionOnSet(unlocks, DatesAfter(s)) \in Nat
  BY <1>2, <1>4, SumIsNat
<1>6. \A u \in between \cup DatesAfter(t) : unlocks[u] \in Int
  BY <1>2, <1>4
<1>7. SumFunctionOnSet(unlocks, between \cup DatesAfter(t))
        = SumFunctionOnSet(unlocks, between) + SumFunctionOnSet(unlocks, DatesAfter(t))
  BY <1>2, <1>3, <1>6, SumOfUnion
<1>8. SumFunctionOnSet(unlocks, between \cup DatesAfter(t)) = SumFunctionOnSet(unlocks, DatesAfter(s))
  BY <1>3, Zenon
<1> QED
  BY <1>5, <1>7, <1>8 DEF VotesAfter, between

(* The votes that unlock after a time are a number.                        *)
LEMMA VotesAreNat ==
  ASSUME NEW unlocks \in [EpochDates -> Nat], NEW t \in Nat
  PROVE  VotesAfter(unlocks, t) \in Nat
<1>1. t <= t
  OBVIOUS
<1> QED
  BY <1>1, VotesSplit

(* The unlocks after a date depend on those alone.                         *)
LEMMA VotesAfterSame ==
  ASSUME NEW old \in [EpochDates -> Nat], NEW new, NEW D, D \subseteq EpochDates,
         \A u \in D : new[u] = old[u]
  PROVE  SumFunctionOnSet(new, D) = SumFunctionOnSet(old, D)
<1>1. \A u \in D : new[u] \in Int /\ new[u] = old[u]
  OBVIOUS
<1>2. IsFiniteSet(D)
  BY DatesAreFinite
<1> QED
  BY <1>1, <1>2, SumOfSame

(* Where nothing unlocks later there are no votes.                         *)
LEMMA NoVotesAfter ==
  ASSUME NEW unlocks, NEW t \in Nat, \A u \in EpochDates : t < u => unlocks[u] = 0
  PROVE  VotesAfter(unlocks, t) = 0
<1>1. IsFiniteSet(DatesAfter(t)) /\ \A u \in DatesAfter(t) : unlocks[u] = 0
  BY DatesAreFinite DEF DatesAfter
<1> QED
  BY <1>1, SumOfZeros DEF VotesAfter

(* What _checkpointDelegate carries over is what unlocks after the         *)
(* upcoming epoch, whichever of those unlocks the handler has changed.     *)
LEMMA CarriedVotes ==
  ASSUME ClockType, NEW ckpts \in Seq(Checkpoints), CheckpointsInOrder(ckpts),
         NEW old \in [EpochDates -> Nat], NEW new \in [EpochDates -> Nat], Voted(ckpts, old),
         \A t \in EpochDates : t <= upcomingEpoch => new[t] = old[t]
  PROVE  Carried(ckpts, new) = VotesAfter(old, upcomingEpoch)
<1> DEFINE prev == LastOf(ckpts)
           s == prev.epochStart
<1>1. upcomingEpoch \in Nat
  BY Dates DEF ClockType, EpochDates
<1>2. CASE ckpts = <<>>
  <2>1. Carried(ckpts, new) = 0
    BY <1>2 DEF Carried
  <2>2. VotesAfter(old, upcomingEpoch) = 0
    BY <1>1, <1>2, NoVotesAfter DEF Voted
  <2> QED
    BY <2>1, <2>2
<1>3. CASE ckpts # <<>>
  <2>1. /\ prev \in Checkpoints /\ s \in Nat /\ s <= upcomingEpoch /\ prev.votes \in Nat
    <3>1. /\ Len(ckpts) \in 1 .. Len(ckpts) /\ DOMAIN ckpts = 1 .. Len(ckpts)
          /\ \A i \in 1 .. Len(ckpts) : ckpts[i] \in Checkpoints
      BY <1>3, EmptySeq, LenProperties, ElementOfSeq
    <3> QED
      BY <3>1 DEF LastOf, CheckpointsInOrder, Checkpoints, EpochDates
  <2>2. /\ prev.votes = VotesAfter(old, s)
        /\ \A t \in EpochDates : old[t] > 0 => t < s + lockDuration
    BY <1>3 DEF Voted
  <2>3. Carried(ckpts, new) =
          IF s # upcomingEpoch /\ s + lockDuration <= upcomingEpoch THEN 0
          ELSE prev.votes - SumFunctionOnSet(new, {t \in EpochDates : s < t /\ t <= upcomingEpoch})
    BY <1>3 DEF Carried
  <2> HIDE DEF prev
  <2>4. CASE s # upcomingEpoch /\ s + lockDuration <= upcomingEpoch
    <3>1. \A t \in EpochDates : upcomingEpoch < t => old[t] = 0
      <4>1. \A t \in EpochDates : t \in Nat
        BY DEF EpochDates
      <4>2. \A t \in EpochDates : old[t] \in Nat
        OBVIOUS
      <4> QED
        BY <1>1, <2>1, <2>2, <2>4, <4>1, <4>2, Durations
    <3> QED
      BY <1>1, <2>3, <2>4, <3>1, NoVotesAfter
  <2>5. CASE ~(s # upcomingEpoch /\ s + lockDuration <= upcomingEpoch)
    <3> DEFINE between == {t \in EpochDates : s < t /\ t <= upcomingEpoch}
    <3>1. /\ VotesAfter(old, upcomingEpoch) \in Nat /\ SumFunctionOnSet(old, between) \in Nat
          /\ VotesAfter(old, s) = SumFunctionOnSet(old, between) + VotesAfter(old, upcomingEpoch)
      BY <1>1, <2>1, VotesSplit
    <3>2. between \subseteq EpochDates /\ \A t \in between : new[t] = old[t]
      OBVIOUS
    <3>3. Carried(ckpts, new) = prev.votes - SumFunctionOnSet(new, between)
      BY <2>3, <2>5
    <3> HIDE DEF between
    <3>4. SumFunctionOnSet(new, between) = SumFunctionOnSet(old, between)
      BY <3>2, VotesAfterSame
    <3> QED
      BY <2>2, <3>1, <3>3, <3>4
  <2> QED
    BY <2>4, <2>5
<1> QED
  BY <1>2, <1>3

(* The last checkpoint that _checkpointDelegate leaves.                    *)
LEMMA CheckpointIsLast ==
  ASSUME NEW ckpts \in Seq(Checkpoints), NEW unlocks, NEW addition, NEW deduction
  PROVE  LET new == Checkpoint(ckpts, unlocks, addition, deduction)
         IN  /\ new # <<>>
             /\ LastOf(new) = [votes |-> Carried(ckpts, unlocks) + addition - deduction,
                               epochStart |-> upcomingEpoch]
<1> DEFINE ckpt == [votes |-> Carried(ckpts, unlocks) + addition - deduction,
                    epochStart |-> upcomingEpoch]
           n == Len(ckpts)
           new == Checkpoint(ckpts, unlocks, addition, deduction)
<1>1. new = IF ckpts # <<>> /\ LastOf(ckpts).epochStart = upcomingEpoch
            THEN [ckpts EXCEPT ![n] = ckpt] ELSE Append(ckpts, ckpt)
  BY DEF Checkpoint
<1> HIDE DEF ckpt, new
<1>2. n \in Nat /\ DOMAIN ckpts = 1 .. n /\ (ckpts # <<>> => n \in 1 .. n)
  BY EmptySeq, LenProperties
<1>3. CASE ckpts # <<>> /\ LastOf(ckpts).epochStart = upcomingEpoch
  <2>1. new = [ckpts EXCEPT ![n] = ckpt]
    BY <1>1, <1>3
  <2>2. Len(new) = n /\ new[n] = ckpt /\ DOMAIN new = 1 .. n
    BY <1>2, <1>3, <2>1
  <2> QED
    BY <1>2, <1>3, <2>2 DEF LastOf, new, ckpt
<1>4. CASE ~(ckpts # <<>> /\ LastOf(ckpts).epochStart = upcomingEpoch)
  <2>1. new = Append(ckpts, ckpt)
    BY <1>1, <1>4
  <2>2. Len(new) = n + 1 /\ new[n + 1] = ckpt
    BY <1>2, <2>1
  <2>3. new # <<>>
    BY <1>2, <2>2
  <2> QED
    BY <2>2, <2>3 DEF LastOf, new, ckpt
<1> QED
  BY <1>3, <1>4

(* A checkpoint of a handler that moves votes beyond the upcoming epoch.   *)
LEMMA CheckpointVotes ==
  ASSUME ClockType, NEW ckpts \in Seq(Checkpoints), CheckpointsInOrder(ckpts),
         NEW old \in [EpochDates -> Nat], NEW new \in [EpochDates -> Nat], Voted(ckpts, old),
         \A t \in EpochDates : t <= upcomingEpoch => new[t] = old[t],
         \A t \in EpochDates : new[t] > 0 => old[t] > 0 \/ t < upcomingEpoch + lockDuration,
         NEW addition \in Nat, NEW deduction \in Nat,
         CanCheckpoint(ckpts, new, addition, deduction),
         VotesAfter(new, upcomingEpoch) = VotesAfter(old, upcomingEpoch) + addition - deduction
  PROVE  Voted(Checkpoint(ckpts, new, addition, deduction), new)
<1> DEFINE after == Checkpoint(ckpts, new, addition, deduction)
           votes == Carried(ckpts, new) + addition - deduction
<1>1. after # <<>> /\ LastOf(after) = [votes |-> votes, epochStart |-> upcomingEpoch]
  BY CheckpointIsLast
<1>2. Carried(ckpts, new) = VotesAfter(old, upcomingEpoch)
  BY CarriedVotes
<1>3. votes = VotesAfter(new, upcomingEpoch)
  BY <1>2
<1>4. votes <= MaxUint224
  BY AmountAssumption DEF CanCheckpoint
<1>5. ASSUME NEW t \in EpochDates, new[t] > 0
      PROVE  t < upcomingEpoch + lockDuration
  <2> SUFFICES ASSUME old[t] > 0 PROVE t < upcomingEpoch + lockDuration
    BY <1>5
  <2>1. ckpts # <<>>
    BY DEF Voted
  <2>2. LastOf(ckpts).epochStart \in Nat /\ LastOf(ckpts).epochStart <= upcomingEpoch
    <3>1. /\ Len(ckpts) \in 1 .. Len(ckpts) /\ DOMAIN ckpts = 1 .. Len(ckpts)
          /\ \A i \in 1 .. Len(ckpts) : ckpts[i] \in Checkpoints
      BY <2>1, EmptySeq, LenProperties, ElementOfSeq
    <3> QED
      BY <3>1 DEF LastOf, CheckpointsInOrder, Checkpoints, EpochDates
  <2>3. t < LastOf(ckpts).epochStart + lockDuration
    BY <2>1 DEF Voted
  <2>4. upcomingEpoch \in Nat /\ t \in Nat
    BY Dates DEF ClockType, EpochDates
  <2> QED
    BY <2>2, <2>3, <2>4, Durations
<1> HIDE DEF votes, after
<1>6. LastOf(after).votes = votes /\ LastOf(after).epochStart = upcomingEpoch
  BY <1>1
<1> QED
  BY <1>1, <1>3, <1>4, <1>5, <1>6 DEF Voted, after

(* The amounts of an account's records beyond a date, date by date.        *)
LEMMA LocksByDate ==
  ASSUME BookType, NEW a \in Accounts, NEW e \in Nat
  PROVE  AmountOf(userLocks[a], {i \in DOMAIN userLocks[a] : userLocks[a][i].unlockTime > e})
           = SumFunctionOnSet([t \in DatesAfter(e) |-> LockedUntil(a, t)], DatesAfter(e))
<1> DEFINE D == DOMAIN userLocks[a]
           C == DatesAfter(e)
           amounts == [k \in D |-> userLocks[a][k].amount]
           part == [t \in C |-> RecordsUntil(userLocks[a], t)]
           locked == [t \in C |-> LockedUntil(a, t)]
           later == {i \in D : userLocks[a][i].unlockTime > e}
<1>1. /\ userLocks[a] \in Seq(LockRecords) /\ IsFiniteSet(D)
      /\ \A k \in D : userLocks[a][k] \in LockRecords /\ userLocks[a][k].amount \in Nat
  BY RecordTypes, AmountIsNat DEF BookType
<1>2. IsFiniteSet(C)
  BY DatesAreFinite DEF DatesAfter
<1>3. \A k \in D : amounts[k] \in Int
  BY <1>1
<1>4. /\ \A t \in C : part[t] \subseteq D /\ locked[t] = SumFunctionOnSet(amounts, part[t])
      /\ \A t, u \in C : t # u => part[t] \cap part[u] = {}
  BY DEF RecordsUntil, LockedUntil, AmountOf
<1>5. {k \in D : \E t \in C : k \in part[t]} = later
  <2>1. ASSUME NEW k \in D
        PROVE  (\E t \in C : k \in part[t]) <=> userLocks[a][k].unlockTime > e
    <3>1. userLocks[a][k].unlockTime \in EpochDates
      BY <1>1 DEF LockRecords
    <3>2. userLocks[a][k].unlockTime \in Nat /\ \A t \in C : t \in Nat /\ e < t
      BY <3>1 DEF EpochDates, DatesAfter
    <3>3. ASSUME NEW t \in C, k \in part[t] PROVE userLocks[a][k].unlockTime > e
      BY <3>2, <3>3 DEF RecordsUntil
    <3>4. ASSUME userLocks[a][k].unlockTime > e PROVE \E t \in C : k \in part[t]
      <4>1. userLocks[a][k].unlockTime \in C
        BY <3>1, <3>2, <3>4 DEF DatesAfter
      <4>2. k \in part[userLocks[a][k].unlockTime]
        BY <4>1 DEF RecordsUntil
      <4> QED
        BY <4>1, <4>2
    <3> QED
      BY <3>3, <3>4
  <2> HIDE DEF part, C, D
  <2> QED
    BY <2>1
<1> HIDE DEF C, D, amounts, part, locked, later
<1>6. SumFunctionOnSet(locked, C) = SumFunctionOnSet(amounts, {k \in D : \E t \in C : k \in part[t]})
  BY <1>1, <1>2, <1>3, <1>4, SumOfClasses
<1>7. SumFunctionOnSet(locked, C) = SumFunctionOnSet(amounts, later)
  BY <1>5, <1>6, Zenon
<1> QED
  BY <1>7 DEF locked, amounts, later, C, D, AmountOf

(* There is at most one record per date, and delegate moves those beyond   *)
(* the upcoming epoch.                                                     *)
LEMMA FutureUnlocks ==
  ASSUME ClockType, BookType, NEW a \in Accounts, InOrder(userLocks[a])
  PROVE  /\ \A t \in Nat : FutureUnlockAt(a, t) = IF upcomingEpoch < t THEN LockedUntil(a, t) ELSE 0
         /\ FutureLocks(a) = {i \in DOMAIN userLocks[a] : userLocks[a][i].unlockTime > upcomingEpoch}
<1> DEFINE locks == userLocks[a]
<1>1. /\ locks \in Seq(LockRecords) /\ Len(locks) \in Nat /\ DOMAIN locks = 1 .. Len(locks)
      /\ \A i \in 1 .. Len(locks) : locks[i].amount \in Nat /\ locks[i].unlockTime \in Nat
  BY RecordTypes DEF BookType
<1>2. upcomingEpoch \in Nat
  BY Dates DEF ClockType, EpochDates
<1>3. ASSUME NEW i \in DOMAIN locks
      PROVE  i \in FutureLocks(a) <=> locks[i].unlockTime > upcomingEpoch
  <2>1. i \in Nat /\ i <= Len(locks) /\ i \in i .. Len(locks)
    BY <1>1
  <2>2. ASSUME locks[i].unlockTime > upcomingEpoch, NEW j \in i .. Len(locks)
        PROVE  locks[j].unlockTime > upcomingEpoch
    <3>1. j \in DOMAIN locks /\ (i = j \/ i < j)
      BY <1>1, <2>1
    <3>2. i < j => locks[i].unlockTime < locks[j].unlockTime
      BY <3>1 DEF InOrder
    <3> QED
      BY <1>1, <1>2, <2>2, <3>1, <3>2
  <2> QED
    BY <2>1, <2>2 DEF FutureLocks
<1>4. FutureLocks(a) = {i \in DOMAIN locks : locks[i].unlockTime > upcomingEpoch}
  <2>1. FutureLocks(a) \subseteq DOMAIN locks
    BY DEF FutureLocks
  <2> QED
    BY <1>3, <2>1
<1>5. ASSUME NEW t \in Nat
      PROVE  FutureUnlockAt(a, t) = IF upcomingEpoch < t THEN LockedUntil(a, t) ELSE 0
  <2> DEFINE dated == {i \in FutureLocks(a) : locks[i].unlockTime = t}
  <2>1. CASE ~(upcomingEpoch < t)
    <3>1. dated = {}
      BY <1>2, <1>4, <2>1
    <3> QED
      BY <2>1, <3>1 DEF FutureUnlockAt
  <2>2. CASE upcomingEpoch < t
    <3>1. dated = RecordsUntil(locks, t)
      BY <1>4, <2>2 DEF RecordsUntil
    <3>2. CASE dated = {}
      <4>1. FutureUnlockAt(a, t) = 0
        BY <3>2 DEF FutureUnlockAt
      <4>2. AmountOf(locks, {}) = 0
        BY SumEmpty DEF AmountOf
      <4>3. RecordsUntil(locks, t) = {}
        BY <3>1, <3>2
      <4>4. LockedUntil(a, t) = 0
        BY <4>2, <4>3, Zenon DEF LockedUntil
      <4> QED
        BY <2>2, <4>1, <4>4
    <3>3. CASE dated # {}
      <4> DEFINE i == CHOOSE j \in dated : TRUE
                 amounts == [k \in DOMAIN locks |-> locks[k].amount]
      <4>1. i \in dated
        BY <3>3
      <4>2. FutureUnlockAt(a, t) = locks[i].amount
        BY <3>3 DEF FutureUnlockAt
      <4> HIDE DEF i
      <4>3. i \in DOMAIN locks /\ locks[i].unlockTime = t
        BY <1>4, <4>1
      <4>4. RecordsUntil(locks, t) = {i}
        <5>1. ASSUME NEW j \in DOMAIN locks, locks[j].unlockTime = t PROVE j = i
          <6>1. ~(i < j) /\ ~(j < i)
            BY <1>1, <4>3, <5>1 DEF InOrder
          <6> QED
            BY <1>1, <4>3, <6>1
        <5> QED
          BY <4>3, <5>1 DEF RecordsUntil
      <4>5. amounts[i] = locks[i].amount /\ amounts[i] \in Nat
        BY <1>1, <4>3
      <4>6. LockedUntil(a, t) = SumFunctionOnSet(amounts, {i})
        <5>1. LockedUntil(a, t) = SumFunctionOnSet(amounts, RecordsUntil(locks, t))
          BY DEF LockedUntil, AmountOf
        <5> HIDE DEF amounts, locks
        <5> QED
          BY <4>4, <5>1, Zenon
      <4> HIDE DEF amounts
      <4>7. SumFunctionOnSet(amounts, {i}) = amounts[i]
        BY <4>5, SumOfOne
      <4> QED
        BY <2>2, <4>2, <4>5, <4>6, <4>7
    <3> QED
      BY <3>2, <3>3
  <2> QED
    BY <2>1, <2>2
<1> QED
  BY <1>4, <1>5

(* The upcoming epoch does not go back.                                    *)
LEMMA UpcomingAdvances ==
  ASSUME ClockType, ClockType', now <= now'
  PROVE  /\ upcomingEpoch \in Nat /\ (upcomingEpoch)' \in Nat /\ upcomingEpoch <= (upcomingEpoch)'
<1>4. now \in Nat /\ now' \in Nat
  <2>1. now \in StartTime .. MaxTime /\ now' \in StartTime .. MaxTime
    BY DEF ClockType
  <2> QED
    BY <2>1, Durations
<1>1. /\ now + rewardsDuration \in Nat /\ now' + rewardsDuration \in Nat
      /\ now + rewardsDuration <= now' + rewardsDuration
  <2>1. rewardsDuration \in Nat
    BY Durations
  <2>2. \A s, t, k \in Nat : s <= t => s + k \in Nat /\ t + k \in Nat /\ s + k <= t + k
    OBVIOUS
  <2> QED
    BY <1>4, <2>1, <2>2, Zenon
<1>2. EpochStart(now + rewardsDuration) <= EpochStart(now' + rewardsDuration)
  BY <1>1, EpochsAdvance
<1>3. EpochStart(now + rewardsDuration) \in Nat /\ EpochStart(now' + rewardsDuration) \in Nat
  BY <1>1, EpochStarts
<1> QED
  BY <1>2, <1>3 DEF upcomingEpoch

(* What leaves the locks and the votes alone keeps the invariant: as time  *)
(* passes it says less.                                                    *)
LEMMA VotesPassOn ==
  ASSUME ClockType, ClockType', VotesInv, now <= now', userLocks' = userLocks, UNCHANGED voteVars
  PROVE  VotesInv'
<1>1. /\ upcomingEpoch \in Nat /\ (upcomingEpoch)' \in Nat /\ upcomingEpoch <= (upcomingEpoch)'
  BY UpcomingAdvances
<1>2. /\ delegates' = delegates /\ checkpointedVotes' = checkpointedVotes
      /\ delegateeUnlocks' = delegateeUnlocks
  BY DEF voteVars
<1> SUFFICES ASSUME NEW d \in Delegatees
             PROVE  /\ \A t \in EpochDates :
                         (upcomingEpoch)' < t => delegateeUnlocks'[d][t] = DelegatedUntil(d, t)'
                    /\ Voted(checkpointedVotes'[d], delegateeUnlocks'[d])
  BY DEF VotesInv, Voted, VotesAfter, DatesAfter, lockDuration
<1>3. ASSUME NEW t \in EpochDates, (upcomingEpoch)' < t
      PROVE  delegateeUnlocks'[d][t] = DelegatedUntil(d, t)'
  <2>1. upcomingEpoch < t
    BY <1>1, <1>3 DEF EpochDates
  <2>2. delegateeUnlocks[d][t] = DelegatedUntil(d, t)
    BY <2>1 DEF VotesInv
  <2>3. DelegatedUntil(d, t)' = DelegatedUntil(d, t)
    BY <1>2 DEF DelegatedUntil, LockedUntil
  <2> QED
    BY <1>2, <2>2, <2>3
<1>4. Voted(checkpointedVotes'[d], delegateeUnlocks'[d])
  BY <1>2 DEF VotesInv
<1> QED
  BY <1>3, <1>4

(* A lock adds to what the delegators of one delegatee have locked.        *)
LEMMA DelegatedAdded ==
  ASSUME ClockType, BookType, BookType', LocksSorted, NEW a \in Accounts, NEW amount \in Nat,
         delegates' = delegates,
         userLocks' = [userLocks EXCEPT ![a] = AddLock(userLocks[a], amount, UnlockTime)]
  PROVE  \A d \in Delegatees, t \in EpochDates :
           DelegatedUntil(d, t)'
             = DelegatedUntil(d, t) + IF delegates[a] = d /\ t = UnlockTime THEN amount ELSE 0
<1> SUFFICES ASSUME NEW d \in Delegatees, NEW t \in EpochDates
             PROVE  DelegatedUntil(d, t)'
                      = DelegatedUntil(d, t) + IF delegates[a] = d /\ t = UnlockTime THEN amount ELSE 0
  BY DEF EpochDates
<1> DEFINE S == {x \in Accounts : delegates[x] = d}
           before == [x \in Accounts |-> LockedUntil(x, t)]
           after == [x \in Accounts |-> LockedUntil(x, t)']
           more == IF t = UnlockTime THEN amount ELSE 0
<1>1. /\ userLocks'[a] = AddLock(userLocks[a], amount, UnlockTime)
      /\ \A x \in Accounts \ {a} : userLocks'[x] = userLocks[x]
      /\ userLocks[a] \in Seq(LockRecords) /\ InOrder(userLocks[a])
  BY OrderParts DEF BookType
<1>2. after[a] = before[a] + more
  <2>1. AmountOf(userLocks'[a], RecordsUntil(userLocks'[a], t))
          = AmountOf(userLocks[a], RecordsUntil(userLocks[a], t)) + more
    BY <1>1, LockedUntilAdded
  <2> QED
    BY <2>1 DEF LockedUntil
<1>3. \A x \in Accounts : x # a => after[x] = before[x]
  BY <1>1 DEF LockedUntil
<1>4. more \in Nat /\ \A x \in Accounts : before[x] \in Int /\ after[x] \in Int
  <2>1. \A x \in Accounts : LockedUntil(x, t) \in Nat
    BY LockedIsNat
  <2>2. \A x \in Accounts : before[x] \in Nat
    BY <2>1
  <2>3. more \in Nat
    OBVIOUS
  <2> HIDE DEF before, after, more
  <2> QED
    BY <1>2, <1>3, <2>2, <2>3
<1>5. /\ DelegatedUntil(d, t) = SumFunctionOnSet(before, S)
      /\ DelegatedUntil(d, t)' = SumFunctionOnSet(after, S)
  BY DEF DelegatedUntil
<1>6. IsFiniteSet(S) /\ S \subseteq Accounts /\ (a \in S <=> delegates[a] = d)
  BY AddressAssumption, FS_Subset
<1> HIDE DEF before, after, S
<1>7. \A x \in S : before[x] \in Int /\ after[x] \in Int /\ (x # a => before[x] = after[x])
  BY <1>3, <1>4, <1>6
<1>8. CASE delegates[a] = d
  <2>1. SumFunctionOnSet(after, S) = SumFunctionOnSet(before, S) + (after[a] - before[a])
    BY <1>6, <1>7, <1>8, SumOfChanged
  <2>2. SumFunctionOnSet(before, S) \in Int
    BY <1>6, <1>7, SumIsInt
  <2> QED
    BY <1>2, <1>4, <1>5, <1>8, <2>1, <2>2
<1>9. CASE delegates[a] # d
  <2>1. \A x \in S : before[x] \in Int /\ before[x] = after[x]
    BY <1>6, <1>7, <1>9
  <2>2. SumFunctionOnSet(before, S) = SumFunctionOnSet(after, S) /\ SumFunctionOnSet(before, S) \in Int
    BY <1>6, <2>1, SumOfSame, SumIsInt
  <2> QED
    BY <1>5, <1>9, <2>2
<1> QED
  BY <1>8, <1>9

(* The delegatee's checkpoint is up to the lock that is recorded.          *)
LEMMA RecordVotes ==
  ASSUME ClockType, BookType, BookType', LocksSorted, VoteType, VotesInv,
         NEW a \in Accounts, NEW amount \in Nat,
         NEW ckpts \in [Delegatees -> Seq(Checkpoints)],
         \A d \in Delegatees : CheckpointsInOrder(ckpts[d]) /\ Voted(ckpts[d], delegateeUnlocks[d]),
         RecordLock(a, amount, ckpts), now' = now, delegates' = delegates
  PROVE  VotesInv'
<1> DEFINE d == delegates[a]
<1>1. /\ delegates \in [Accounts -> Delegatees \cup {NoOne}]
      /\ delegateeUnlocks \in [Delegatees -> [EpochDates -> Nat]]
  BY DEF VoteType
<1>2. /\ upcomingEpoch \in Nat /\ UnlockTime \in EpochDates /\ UnlockTime \in Nat
      /\ upcomingEpoch < UnlockTime /\ UnlockTime < upcomingEpoch + lockDuration
      /\ (upcomingEpoch)' = upcomingEpoch
  <2>1. (upcomingEpoch)' = upcomingEpoch
    BY DEF upcomingEpoch
  <2>2. /\ currentEpoch \in Nat /\ upcomingEpoch = currentEpoch + rewardsDuration
        /\ UnlockTime \in EpochDates /\ UnlockTime = currentEpoch + lockDuration
    BY Dates DEF ClockType, EpochDates
  <2>3. rewardsDuration \in Nat \ {0} /\ lockDuration \in Nat /\ 2 * rewardsDuration <= lockDuration
    BY Durations
  <2> QED
    BY <2>1, <2>2, <2>3
<1>3. /\ userLocks' = [userLocks EXCEPT ![a] = AddLock(userLocks[a], amount, UnlockTime)]
      /\ d = NoOne => delegateeUnlocks' = delegateeUnlocks /\ checkpointedVotes' = ckpts
      /\ d # NoOne =>
           /\ delegateeUnlocks' = [delegateeUnlocks EXCEPT ![d][UnlockTime] = @ + amount]
           /\ CanCheckpoint(ckpts[d], delegateeUnlocks'[d], amount, 0)
           /\ checkpointedVotes' = [ckpts EXCEPT ![d] = Checkpoint(ckpts[d], delegateeUnlocks'[d], amount, 0)]
  BY DEF RecordLock
<1> SUFFICES ASSUME NEW x \in Delegatees
             PROVE  /\ \A t \in EpochDates :
                         upcomingEpoch < t => delegateeUnlocks'[x][t] = DelegatedUntil(x, t)'
                    /\ Voted(checkpointedVotes'[x], delegateeUnlocks'[x])
  BY <1>2 DEF VotesInv, Voted, VotesAfter, DatesAfter, lockDuration
<1>4. ASSUME NEW t \in EpochDates
      PROVE  delegateeUnlocks'[x][t] =
               delegateeUnlocks[x][t] + IF d = x /\ t = UnlockTime THEN amount ELSE 0
  <2>1. delegateeUnlocks[x][t] \in Nat
    BY <1>1
  <2>2. CASE d = NoOne
    BY <1>3, <2>1, <2>2, AddressAssumption
  <2>3. CASE d # NoOne
    <3>1. delegateeUnlocks' = [delegateeUnlocks EXCEPT ![d][UnlockTime] = @ + amount]
      BY <1>3, <2>3
    <3>2. CASE x # d
      <4>1. delegateeUnlocks'[x] = delegateeUnlocks[x]
        BY <1>1, <3>1, <3>2
      <4> QED
        BY <2>1, <3>2, <4>1
    <3>3. CASE x = d
      <4>1. delegateeUnlocks'[x] = [delegateeUnlocks[x] EXCEPT ![UnlockTime] = @ + amount]
        BY <1>1, <3>1, <3>3
      <4>2. delegateeUnlocks[x] \in [EpochDates -> Nat]
        BY <1>1
      <4> QED
        BY <2>1, <3>3, <4>1, <4>2
    <3> QED
      BY <3>2, <3>3
  <2> QED
    BY <2>2, <2>3
<1>5. ASSUME NEW t \in EpochDates, upcomingEpoch < t
      PROVE  delegateeUnlocks'[x][t] = DelegatedUntil(x, t)'
  <2>1. delegateeUnlocks[x][t] = DelegatedUntil(x, t)
    BY <1>5 DEF VotesInv
  <2>2. DelegatedUntil(x, t)'
          = DelegatedUntil(x, t) + IF delegates[a] = x /\ t = UnlockTime THEN amount ELSE 0
    <3>1. userLocks' = [userLocks EXCEPT ![a] = AddLock(userLocks[a], amount, UnlockTime)]
      BY <1>3
    <3>2. \A z \in Delegatees, u \in EpochDates :
            DelegatedUntil(z, u)'
              = DelegatedUntil(z, u) + IF delegates[a] = z /\ u = UnlockTime THEN amount ELSE 0
      BY <3>1, DelegatedAdded
    <3> QED
      BY <3>2, Zenon
  <2> QED
    BY <1>4, <2>1, <2>2
<1>6. Voted(checkpointedVotes'[x], delegateeUnlocks'[x])
  <2>1. CASE x # d
    <3>1. delegateeUnlocks'[x] = delegateeUnlocks[x] /\ checkpointedVotes'[x] = ckpts[x]
      BY <1>1, <1>3, <2>1
    <3> QED
      BY <3>1
  <2>2. CASE x = d
    <3> DEFINE old == delegateeUnlocks[x]
               new == delegateeUnlocks'[x]
               after == DatesAfter(upcomingEpoch)
    <3>1. x # NoOne /\ old \in [EpochDates -> Nat]
      BY <1>1, AddressAssumption
    <3>2. new = [old EXCEPT ![UnlockTime] = @ + amount]
      BY <1>1, <1>3, <2>2, <3>1
    <3>3. /\ CanCheckpoint(ckpts[x], new, amount, 0)
          /\ checkpointedVotes'[x] = Checkpoint(ckpts[x], new, amount, 0)
          /\ ckpts[x] \in Seq(Checkpoints) /\ CheckpointsInOrder(ckpts[x]) /\ Voted(ckpts[x], old)
      BY <1>3, <2>2, <3>1
    <3>4. \A t \in EpochDates : new[t] = old[t] + IF t = UnlockTime THEN amount ELSE 0
      BY <1>4, <2>2
    <3> HIDE DEF old, new
    <3>5. /\ new \in [EpochDates -> Nat]
          /\ \A t \in EpochDates : old[t] \in Nat /\ new[t] \in Nat /\ (t # UnlockTime => old[t] = new[t])
      BY <1>2, <3>1, <3>2, <3>4
    <3>6. VotesAfter(new, upcomingEpoch) = VotesAfter(old, upcomingEpoch) + amount
      <4>1. /\ IsFiniteSet(after) /\ UnlockTime \in after
            /\ \A t \in after : old[t] \in Int /\ new[t] \in Int /\ (t # UnlockTime => old[t] = new[t])
        BY <1>2, <3>5, DatesAreFinite DEF DatesAfter
      <4>2. SumFunctionOnSet(new, after)
              = SumFunctionOnSet(old, after) + (new[UnlockTime] - old[UnlockTime])
        BY <4>1, SumOfChanged
      <4>3. new[UnlockTime] = old[UnlockTime] + amount /\ old[UnlockTime] \in Nat
        BY <1>2, <3>4, <3>5
      <4>4. SumFunctionOnSet(old, after) \in Int
        BY <4>1, SumIsInt
      <4> QED
        BY <4>2, <4>3, <4>4 DEF VotesAfter
    <3>7. VotesAfter(old, upcomingEpoch) \in Nat
      BY <1>2, <3>1, VotesAreNat
    <3>8. /\ \A t \in EpochDates : t <= upcomingEpoch => new[t] = old[t]
          /\ \A t \in EpochDates : new[t] > 0 => old[t] > 0 \/ t < upcomingEpoch + lockDuration
      BY <1>2, <3>5
    <3>9. 0 \in Nat /\ VotesAfter(new, upcomingEpoch) = VotesAfter(old, upcomingEpoch) + amount - 0
      BY <3>6, <3>7
    <3>10. Voted(Checkpoint(ckpts[x], new, amount, 0), new)
      BY <3>1, <3>3, <3>5, <3>8, <3>9, CheckpointVotes
    <3> QED
      BY <3>3, <3>10 DEF new
  <2> QED
    BY <2>1, <2>2
<1> QED
  BY <1>5, <1>6

(* So is the checkpoint taken when records leave the book.                 *)
LEMMA DelegateeVotes ==
  ASSUME ClockType, VoteInv, VotesInv, NEW a \in Accounts, NEW relock, NEW delay,
         CanRelease(a, relock, delay)
  PROVE  \A d \in Delegatees : Voted(CheckpointedDelegatee(a)[d], delegateeUnlocks[d])
<1>1. /\ checkpointedVotes \in [Delegatees -> Seq(Checkpoints)]
      /\ \A d \in Delegatees : CheckpointsInOrder(checkpointedVotes[d])
      /\ \A d \in Delegatees : Voted(checkpointedVotes[d], delegateeUnlocks[d])
  BY OrderParts DEF VoteInv, VoteType, VotesInv
<1>2. CASE delegates[a] = NoOne
  BY <1>1, <1>2 DEF CheckpointedDelegatee
<1>3. CASE delegates[a] # NoOne
  <2> DEFINE d == delegates[a]
             unlocks == delegateeUnlocks[d]
             new == Checkpoint(checkpointedVotes[d], unlocks, 0, 0)
  <2>1. d \in Delegatees /\ unlocks \in [EpochDates -> Nat]
    BY <1>3 DEF VoteInv, VoteType
  <2>2. CanCheckpoint(checkpointedVotes[d], unlocks, 0, 0)
    BY <1>3 DEF CanRelease
  <2>3. CheckpointedDelegatee(a) = [checkpointedVotes EXCEPT ![d] = new]
    BY <1>3 DEF CheckpointedDelegatee
  <2>4. /\ checkpointedVotes[d] \in Seq(Checkpoints) /\ CheckpointsInOrder(checkpointedVotes[d])
        /\ Voted(checkpointedVotes[d], unlocks)
    BY <1>1, <2>1
  <2> HIDE DEF unlocks
  <2>5. VotesAfter(unlocks, upcomingEpoch) = VotesAfter(unlocks, upcomingEpoch) + 0 - 0
    <3>1. upcomingEpoch \in Nat
      BY Dates DEF ClockType, EpochDates
    <3>2. VotesAfter(unlocks, upcomingEpoch) \in Nat
      BY <2>1, <3>1, VotesAreNat
    <3> QED
      BY <3>2
  <2>6. Voted(new, unlocks)
    BY <2>1, <2>2, <2>4, <2>5, CheckpointVotes
  <2> HIDE DEF new
  <2> QED
    BY <1>1, <2>1, <2>3, <2>6 DEF unlocks
<1> QED
  BY <1>2, <1>3

(* An account that delegates takes what it has locked with it.             *)
LEMMA DelegatedMoved ==
  ASSUME BookType, VoteType, NEW a \in Accounts, NEW d \in Delegatees, d # delegates[a],
         userLocks' = userLocks, delegates' = [delegates EXCEPT ![a] = d]
  PROVE  \A x \in Delegatees, t \in EpochDates :
           DelegatedUntil(x, t)' = DelegatedUntil(x, t)
             - (IF x = delegates[a] THEN LockedUntil(a, t) ELSE 0)
             + (IF x = d THEN LockedUntil(a, t) ELSE 0)
<1> SUFFICES ASSUME NEW x \in Delegatees, NEW t \in EpochDates
             PROVE  DelegatedUntil(x, t)' = DelegatedUntil(x, t)
                      - (IF x = delegates[a] THEN LockedUntil(a, t) ELSE 0)
                      + (IF x = d THEN LockedUntil(a, t) ELSE 0)
  BY DEF EpochDates
<1> DEFINE old == delegates[a]
           locked == [b \in Accounts |-> LockedUntil(b, t)]
           S == {b \in Accounts : delegates[b] = x}
           T == {b \in Accounts : delegates'[b] = x}
<1>1. delegates \in [Accounts -> Delegatees \cup {NoOne}]
  BY DEF VoteType
<1>2. \A b \in Accounts : delegates'[b] = IF b = a THEN d ELSE delegates[b]
  BY <1>1
<1>3. IsFiniteSet(S) /\ IsFiniteSet(T) /\ S \subseteq Accounts /\ T \subseteq Accounts
  BY AddressAssumption, FS_Subset
<1>4. \A b \in Accounts : locked[b] \in Nat /\ locked[b] = LockedUntil(b, t)
  BY LockedIsNat
<1>5. DelegatedUntil(x, t) = SumFunctionOnSet(locked, S)
  BY DEF DelegatedUntil
<1>6. DelegatedUntil(x, t)' = SumFunctionOnSet(locked, T)
  BY DEF DelegatedUntil, LockedUntil
<1>7. /\ a \in S <=> x = old
      /\ a \in T <=> x = d
      /\ S \ {a} = T \ {a}
  BY <1>2
<1> HIDE DEF locked, S, T
<1>8. /\ \A b \in S : locked[b] \in Int
      /\ \A b \in T : locked[b] \in Int
  BY <1>3, <1>4
<1>9. SumFunctionOnSet(locked, S) \in Int /\ SumFunctionOnSet(locked, T) \in Int
  BY <1>3, <1>8, SumIsInt
<1>10. CASE x = old
  <2>1. SumFunctionOnSet(locked, S) = locked[a] + SumFunctionOnSet(locked, S \ {a})
    BY <1>3, <1>7, <1>8, <1>10, SumRemove
  <2>2. S \ {a} = T
    BY <1>7, <1>10
  <2>3. SumFunctionOnSet(locked, S \ {a}) = SumFunctionOnSet(locked, T)
    BY <2>2, Zenon
  <2> QED
    BY <1>4, <1>5, <1>6, <1>9, <1>10, <2>1, <2>3
<1>11. CASE x = d
  <2>1. SumFunctionOnSet(locked, T) = locked[a] + SumFunctionOnSet(locked, T \ {a})
    BY <1>3, <1>7, <1>8, <1>11, SumRemove
  <2>2. T \ {a} = S
    BY <1>7, <1>11
  <2>3. SumFunctionOnSet(locked, T \ {a}) = SumFunctionOnSet(locked, S)
    BY <2>2, Zenon
  <2> QED
    BY <1>4, <1>5, <1>6, <1>9, <1>11, <2>1, <2>3
<1>12. CASE x # old /\ x # d
  <2>1. S = T
    BY <1>7, <1>12
  <2>2. SumFunctionOnSet(locked, S) = SumFunctionOnSet(locked, T)
    BY <2>1, Zenon
  <2> QED
    BY <1>5, <1>6, <1>9, <1>12, <2>2
<1> QED
  BY <1>10, <1>11, <1>12

(* Moving the votes of an account to another delegatee keeps them matched  *)
(* with its locks (delegate).                                              *)
LEMMA DelegateVotes ==
  ASSUME IInv, VotesInv, NEW a \in Accounts, NEW d \in Delegatees, Delegate(a, d)
  PROVE  VotesInv'
<1> DEFINE old == delegates[a]
           sum == AmountOf(userLocks[a], FutureLocks(a))
           moved == [t \in EpochDates |-> FutureUnlockAt(a, t)]
           gain(x) == IF x = d THEN sum ELSE 0
           drop(x) == IF x = old THEN sum ELSE 0
<1>1. /\ now' = now /\ userLocks' = userLocks /\ d # old
      /\ delegates' = [delegates EXCEPT ![a] = d]
      /\ delegateeUnlocks' =
           [x \in Delegatees |-> [t \in EpochDates |->
              delegateeUnlocks[x][t] - (IF x = old THEN moved[t] ELSE 0)
                                     + (IF x = d THEN moved[t] ELSE 0)]]
      /\ \A x \in {old, d} \ {NoOne} :
           CanCheckpoint(checkpointedVotes[x], delegateeUnlocks'[x], gain(x), drop(x))
      /\ checkpointedVotes' = [x \in Delegatees |->
           IF x \in {old, d}
           THEN Checkpoint(checkpointedVotes[x], delegateeUnlocks'[x], gain(x), drop(x))
           ELSE checkpointedVotes[x]]
  BY DEF Delegate, lockVars
<1>2. ClockType /\ BookType /\ InOrder(userLocks[a])
  BY InvParts, OrderParts DEF BookInv
<1>3. /\ delegateeUnlocks \in [Delegatees -> [EpochDates -> Nat]]
      /\ delegateeUnlocks' \in [Delegatees -> [EpochDates -> Nat]]
      /\ VoteType
      /\ checkpointedVotes \in [Delegatees -> Seq(Checkpoints)]
      /\ \A x \in Delegatees : CheckpointsInOrder(checkpointedVotes[x])
  <2>1. IInv'
    BY DelegateStep
  <2>2. delegateeUnlocks' \in [Delegatees -> [EpochDates -> Nat]]
    BY <2>1 DEF IInv, TypeOK
  <2>3. VoteInv
    BY InvParts
  <2> QED
    BY <2>2, <2>3, OrderParts DEF VoteInv, VoteType
<1>4. (upcomingEpoch)' = upcomingEpoch /\ upcomingEpoch \in Nat
  <2>1. (upcomingEpoch)' = upcomingEpoch
    BY <1>1 DEF upcomingEpoch
  <2> QED
    BY <1>2, <2>1, Dates DEF ClockType, EpochDates
<1>5. ASSUME NEW t \in EpochDates
      PROVE  /\ moved[t] = IF upcomingEpoch < t THEN LockedUntil(a, t) ELSE 0
             /\ LockedUntil(a, t) \in Nat
  <2>1. FutureUnlockAt(a, t) = IF upcomingEpoch < t THEN LockedUntil(a, t) ELSE 0
    BY <1>2, FutureUnlocks DEF EpochDates
  <2>2. LockedUntil(a, t) \in Nat
    BY <1>2, LockedIsNat
  <2> QED
    BY <2>1, <2>2
<1>6. sum \in Nat /\ sum = VotesAfter(moved, upcomingEpoch)
  <2> DEFINE locked == [t \in DatesAfter(upcomingEpoch) |-> LockedUntil(a, t)]
  <2>1. FutureLocks(a) = {i \in DOMAIN userLocks[a] : userLocks[a][i].unlockTime > upcomingEpoch}
    BY <1>2, FutureUnlocks
  <2>2. AmountOf(userLocks[a], {i \in DOMAIN userLocks[a] : userLocks[a][i].unlockTime > upcomingEpoch})
          = SumFunctionOnSet(locked, DatesAfter(upcomingEpoch))
    BY <1>2, <1>4, LocksByDate
  <2>3. sum = SumFunctionOnSet(locked, DatesAfter(upcomingEpoch))
    BY <2>1, <2>2, Zenon
  <2>4. sum \in Nat
    <3>1. FutureLocks(a) \in SUBSET (DOMAIN userLocks[a]) /\ userLocks[a] \in Seq(LockRecords)
      BY <1>2, <2>1 DEF BookType
    <3> QED
      BY <3>1, AmountIsNat
  <2>5. \A t \in DatesAfter(upcomingEpoch) : locked[t] \in Int /\ locked[t] = moved[t]
    BY <1>5 DEF DatesAfter
  <2>6. IsFiniteSet(DatesAfter(upcomingEpoch))
    BY DatesAreFinite DEF DatesAfter
  <2> HIDE DEF locked, moved, sum
  <2>7. SumFunctionOnSet(locked, DatesAfter(upcomingEpoch)) = SumFunctionOnSet(moved, DatesAfter(upcomingEpoch))
    BY <2>5, <2>6, SumOfSame
  <2> QED
    BY <2>3, <2>4, <2>7 DEF VotesAfter
<1> HIDE DEF sum
<1>7. \A t \in EpochDates : moved[t] \in Nat /\ (t <= upcomingEpoch => moved[t] = 0)
  <2>1. \A t \in EpochDates : t \in Nat
    BY DEF EpochDates
  <2> HIDE DEF moved
  <2> QED
    BY <1>4, <1>5, <2>1
<1>8. \A t \in EpochDates : moved[t] > 0 => t < upcomingEpoch + lockDuration
  <2> SUFFICES ASSUME NEW t \in EpochDates, moved[t] > 0 PROVE t < upcomingEpoch + lockDuration
    OBVIOUS
  <2>1. LockedUntil(a, t) > 0
    BY <1>5, <1>7
  <2>2. RecordsUntil(userLocks[a], t) # {}
    <3> SUFFICES ASSUME RecordsUntil(userLocks[a], t) = {} PROVE FALSE
      OBVIOUS
    <3>1. AmountOf(userLocks[a], {}) = 0
      BY SumEmpty DEF AmountOf
    <3>2. LockedUntil(a, t) = 0
      BY <3>1, Zenon DEF LockedUntil
    <3> QED
      BY <2>1, <3>2
  <2>3. PICK i \in DOMAIN userLocks[a] : userLocks[a][i].unlockTime = t
    BY <2>2 DEF RecordsUntil
  <2>4. t <= currentEpoch + lockDuration
    BY <1>2, <2>3 DEF InOrder
  <2>5. /\ currentEpoch \in Nat /\ upcomingEpoch = currentEpoch + rewardsDuration /\ t \in Nat
    BY <1>2, Dates DEF ClockType, EpochDates
  <2>6. rewardsDuration \in Nat \ {0} /\ lockDuration \in Nat
    BY Durations
  <2> QED
    BY <2>4, <2>5, <2>6
<1> SUFFICES ASSUME NEW x \in Delegatees
             PROVE  /\ \A t \in EpochDates :
                         upcomingEpoch < t => delegateeUnlocks'[x][t] = DelegatedUntil(x, t)'
                    /\ Voted(checkpointedVotes'[x], delegateeUnlocks'[x])
  BY <1>4 DEF VotesInv, Voted, VotesAfter, DatesAfter, lockDuration
<1> DEFINE before == delegateeUnlocks[x]
           after == delegateeUnlocks'[x]
<1>9. ASSUME NEW t \in EpochDates
      PROVE  /\ before[t] \in Nat /\ after[t] \in Nat
             /\ after[t] = before[t] - (IF x = old THEN moved[t] ELSE 0) + (IF x = d THEN moved[t] ELSE 0)
  BY <1>1, <1>3
<1>10. before \in [EpochDates -> Nat] /\ after \in [EpochDates -> Nat]
  BY <1>3
<1>11. ASSUME NEW t \in EpochDates, upcomingEpoch < t
       PROVE  after[t] = DelegatedUntil(x, t)'
  <2>1. before[t] = DelegatedUntil(x, t)
    BY <1>11 DEF VotesInv
  <2>2. moved[t] = LockedUntil(a, t)
    BY <1>5, <1>11
  <2> HIDE DEF moved, before, after
  <2>3. DelegatedUntil(x, t)' = DelegatedUntil(x, t)
          - (IF x = delegates[a] THEN LockedUntil(a, t) ELSE 0)
          + (IF x = d THEN LockedUntil(a, t) ELSE 0)
    BY <1>1, <1>2, <1>3, DelegatedMoved
  <2> QED
    BY <1>9, <2>1, <2>2, <2>3
<1>12. Voted(checkpointedVotes'[x], after)
  <2>1. CASE x \notin {old, d}
    <3>1. checkpointedVotes'[x] = checkpointedVotes[x]
      BY <1>1, <2>1
    <3>2. after = before
      <4>1. \A t \in EpochDates : after[t] = before[t]
        BY <1>9, <2>1
      <4> HIDE DEF after, before
      <4> QED
        BY <1>10, <4>1
    <3> QED
      BY <3>1, <3>2 DEF VotesInv
  <2>2. CASE x \in {old, d}
    <3>1. /\ CanCheckpoint(checkpointedVotes[x], after, gain(x), drop(x))
          /\ checkpointedVotes'[x] = Checkpoint(checkpointedVotes[x], after, gain(x), drop(x))
          /\ gain(x) \in Nat /\ drop(x) \in Nat
      BY <1>1, <1>6, <2>2, AddressAssumption
    <3>2. /\ checkpointedVotes[x] \in Seq(Checkpoints) /\ CheckpointsInOrder(checkpointedVotes[x])
          /\ Voted(checkpointedVotes[x], before)
      BY <1>3 DEF VotesInv
    <3>3. /\ \A t \in EpochDates : t <= upcomingEpoch => after[t] = before[t]
          /\ \A t \in EpochDates : after[t] > 0 => before[t] > 0 \/ t < upcomingEpoch + lockDuration
      <4> HIDE DEF after, before, moved
      <4> QED
        BY <1>7, <1>8, <1>9
    <3>4. VotesAfter(after, upcomingEpoch) = VotesAfter(before, upcomingEpoch) + gain(x) - drop(x)
      <4> DEFINE D == DatesAfter(upcomingEpoch)
      <4>1. IsFiniteSet(D) /\ D \subseteq EpochDates
        BY DatesAreFinite DEF DatesAfter
      <4> HIDE DEF D, after, before, moved
      <4>2. VotesAfter(after, upcomingEpoch) \in Nat /\ VotesAfter(before, upcomingEpoch) \in Nat
        BY <1>4, <1>10, VotesAreNat
      <4>3. CASE x = d
        <5>1. \A t \in D : before[t] \in Int /\ moved[t] \in Int /\ after[t] = before[t] + moved[t]
          BY <1>1, <1>7, <1>9, <4>1, <4>3
        <5>2. SumFunctionOnSet(after, D) = SumFunctionOnSet(before, D) + SumFunctionOnSet(moved, D)
          BY <4>1, <5>1, SumOfSums
        <5> QED
          BY <1>1, <1>6, <4>2, <4>3, <5>2 DEF VotesAfter, D
      <4>4. CASE x = old
        <5>1. \A t \in D : after[t] \in Int /\ moved[t] \in Int /\ before[t] = after[t] + moved[t]
          BY <1>1, <1>7, <1>9, <4>1, <4>4
        <5>2. SumFunctionOnSet(before, D) = SumFunctionOnSet(after, D) + SumFunctionOnSet(moved, D)
          BY <4>1, <5>1, SumOfSums
        <5> QED
          BY <1>1, <1>6, <4>2, <4>4, <5>2 DEF VotesAfter, D
      <4> QED
        BY <2>2, <4>3, <4>4
    <3> HIDE DEF after, before, moved, gain, drop
    <3>5. Voted(Checkpoint(checkpointedVotes[x], after, gain(x), drop(x)), after)
      BY <1>2, <1>10, <3>1, <3>2, <3>3, <3>4, CheckpointVotes
    <3> QED
      BY <3>1, <3>5
  <2> QED
    BY <2>1, <2>2
<1> QED
  BY <1>11, <1>12

(* No step separates the votes of a delegatee from the locks behind them.  *)
LEMMA StepVotes == IInv /\ VotesInv /\ [Next]_vars => VotesInv'
<1> SUFFICES ASSUME IInv, VotesInv, [Next]_vars PROVE VotesInv'
  OBVIOUS
<1>1. IInv'
  BY StepInv
<1>2. /\ ClockType /\ ClockType' /\ BookType /\ BookType' /\ LocksSorted /\ VoteType /\ VoteInv
  BY <1>1, InvParts DEF BookInv, VoteInv, IInv, TypeOK, ClockType, BookType
<1>3. ASSUME now <= now', userLocks' = userLocks, UNCHANGED voteVars
      PROVE  VotesInv'
  BY <1>2, <1>3, VotesPassOn
<1>4. now <= now
  BY <1>2, Durations DEF ClockType
<1>5. ASSUME NEW a \in Accounts, NEW s \in Accounts, NEW amount \in LockAmounts, Lock(s, a, amount)
      PROVE  VotesInv'
  <2>1. /\ RecordLock(a, amount, checkpointedVotes) /\ now' = now /\ delegates' = delegates
        /\ amount \in Nat
    BY <1>5, AmountAssumption DEF Lock
  <2>2. /\ checkpointedVotes \in [Delegatees -> Seq(Checkpoints)]
        /\ \A d \in Delegatees : CheckpointsInOrder(checkpointedVotes[d])
                                 /\ Voted(checkpointedVotes[d], delegateeUnlocks[d])
    BY <1>2, OrderParts DEF VoteInv, VoteType, VotesInv
  <2> QED
    BY <1>2, <2>1, <2>2, RecordVotes
<1>6. ASSUME NEW a \in Accounts, RelockExpiredLocks(a)
      PROVE  VotesInv'
  <2> DEFINE amount == Release(a, TRUE, 0).amount
  <2>1. /\ RecordLock(a, amount, CheckpointedDelegatee(a)) /\ now' = now /\ delegates' = delegates
        /\ CanRelease(a, TRUE, 0)
    BY <1>6 DEF RelockExpiredLocks
  <2> HIDE DEF amount
  <2>2. amount \in Nat
    BY <2>1, AmountAssumption DEF RecordLock
  <2>3. /\ CheckpointedDelegatee(a) \in [Delegatees -> Seq(Checkpoints)]
        /\ \A d \in Delegatees : CheckpointsInOrder(CheckpointedDelegatee(a)[d])
        /\ \A d \in Delegatees : Voted(CheckpointedDelegatee(a)[d], delegateeUnlocks[d])
    BY <1>2, <2>1, DelegateeKeeps, DelegateeVotes
  <2> QED
    BY <1>2, <2>1, <2>2, <2>3, RecordVotes
<1>7. ASSUME NEW a \in Accounts, NEW keeper \in Accounts, NEW delay, Withdraw(a, keeper, delay)
      PROVE  VotesInv'
  <2>1. /\ now' = now /\ userLocks' = userLocks /\ delegates' = delegates
        /\ delegateeUnlocks' = delegateeUnlocks /\ checkpointedVotes' = CheckpointedDelegatee(a)
        /\ CanRelease(a, FALSE, delay)
    BY <1>7 DEF Withdraw
  <2>2. \A d \in Delegatees : Voted(checkpointedVotes'[d], delegateeUnlocks'[d])
    BY <1>2, <2>1, DelegateeVotes
  <2>3. \A d \in Delegatees : \A t \in EpochDates :
          upcomingEpoch < t => delegateeUnlocks[d][t] = DelegatedUntil(d, t)
    BY DEF VotesInv
  <2>4. (upcomingEpoch)' = upcomingEpoch
    BY <2>1 DEF upcomingEpoch
  <2>5. \A d, t : DelegatedUntil(d, t)' = DelegatedUntil(d, t)
    BY <2>1 DEF DelegatedUntil, LockedUntil
  <2>6. \A d \in Delegatees : Voted(checkpointedVotes[d], delegateeUnlocks[d])'
    BY <2>2 DEF Voted, VotesAfter, DatesAfter, lockDuration
  <2>7. \A d \in Delegatees : \A t \in EpochDates :
          (upcomingEpoch)' < t => delegateeUnlocks'[d][t] = DelegatedUntil(d, t)'
    BY <2>1, <2>3, <2>4, <2>5, Zenon
  <2> QED
    BY <2>6, <2>7 DEF VotesInv
<1>8. CASE UserStep
  <2> PICK a \in Accounts :
        \/ \E s \in Accounts, amount \in LockAmounts : Lock(s, a, amount)
        \/ ProcessExpiredLocks(a)
        \/ RelockExpiredLocks(a)
        \/ \E k \in Accounts : KickExpiredLocks(k, a)
        \/ EmergencyWithdraw(a)
        \/ \E d \in Delegatees : Delegate(a, d)
        \/ \E skipped \in SUBSET rewardTokens : GetReward(a, skipped)
    BY <1>8 DEF UserStep
  <2>1. CASE \E s \in Accounts, amount \in LockAmounts : Lock(s, a, amount)
    BY <1>5, <2>1
  <2>2. CASE RelockExpiredLocks(a)
    BY <1>6, <2>2
  <2>3. CASE ProcessExpiredLocks(a) \/ \E k \in Accounts : KickExpiredLocks(k, a)
    BY <1>7, <2>3 DEF ProcessExpiredLocks, KickExpiredLocks
  <2>4. CASE \E d \in Delegatees : Delegate(a, d)
    BY <2>4, DelegateVotes
  <2>5. CASE EmergencyWithdraw(a) \/ (\E skipped \in SUBSET rewardTokens : GetReward(a, skipped))
    <3>1. now' = now /\ userLocks' = userLocks /\ UNCHANGED voteVars
      BY <2>5 DEF EmergencyWithdraw, GetReward, lockVars
    <3> QED
      BY <1>3, <1>4, <3>1
  <2> QED
    BY <2>1, <2>2, <2>3, <2>4, <2>5
<1>9. CASE RewardStep
  <2>1. now' = now /\ userLocks' = userLocks /\ UNCHANGED voteVars
    BY <1>9 DEF RewardStep, QueueNewRewards, AddReward, ApproveRewardDistributor, lockVars
  <2> QED
    BY <1>3, <1>4, <2>1
<1>10. CASE OwnerStep
  <2>1. now' = now /\ userLocks' = userLocks /\ UNCHANGED voteVars
    BY <1>10 DEF OwnerStep, ModifyBlacklist, SetKickIncentive, Shutdown, lockVars
  <2> QED
    BY <1>3, <1>4, <2>1
<1>11. CASE CheckpointEpoch \/ UNCHANGED vars
  <2>1. now' = now /\ userLocks' = userLocks /\ UNCHANGED voteVars
    BY <1>11 DEF CheckpointEpoch, vars, lockVars
  <2> QED
    BY <1>3, <1>4, <2>1
<1>12. CASE Tick
  <2>1. now' = now + 1 /\ userLocks' = userLocks /\ UNCHANGED voteVars
    BY <1>12 DEF Tick, lockVars
  <2>2. now \in Int
    BY <1>2, Durations DEF ClockType
  <2>3. now <= now'
    BY <2>1, <2>2
  <2> QED
    BY <1>3, <2>1, <2>3
<1> QED
  BY <1>8, <1>9, <1>10, <1>11, <1>12 DEF Next

(* Nobody has votes after construction.                                    *)
LEMMA InitVotes == Init => VotesInv
<1> SUFFICES ASSUME Init, NEW d \in Delegatees
             PROVE  /\ \A t \in EpochDates :
                         upcomingEpoch < t => delegateeUnlocks[d][t] = DelegatedUntil(d, t)
                    /\ Voted(checkpointedVotes[d], delegateeUnlocks[d])
  BY DEF VotesInv
<1>1. \A t \in EpochDates : delegateeUnlocks[d][t] = 0
  BY DEF Init
<1>2. checkpointedVotes[d] = <<>>
  BY DEF Init
<1>3. ASSUME NEW t \in EpochDates PROVE DelegatedUntil(d, t) = 0
  <2>1. {a \in Accounts : delegates[a] = d} = {}
    BY AddressAssumption DEF Init
  <2>2. \A f : SumFunctionOnSet(f, {}) = 0
    BY SumEmpty
  <2> QED
    BY <2>1, <2>2, Zenon DEF DelegatedUntil
<1> QED
  BY <1>1, <1>2, <1>3 DEF Voted

(* A lookup beyond the last checkpoint gives what unlocks later.           *)
LEMMA VotesAreCounted ==
  ASSUME IInv, VotesInv, NEW d \in Delegatees, NEW e \in EpochDates, upcomingEpoch <= e
  PROVE  VotesAt(d, e) = VotesAfter(delegateeUnlocks[d], e)
<1> DEFINE ckpts == checkpointedVotes[d]
           unlocks == delegateeUnlocks[d]
           n == Len(ckpts)
           pos == CheckpointsLookup(ckpts, e)
           ckpt == IF pos = 0 THEN [votes |-> 0, epochStart |-> 0] ELSE ckpts[pos]
           between(s) == {t \in EpochDates : s < t /\ t <= e}
<1>1. /\ ClockType /\ ckpts \in Seq(Checkpoints) /\ CheckpointsInOrder(ckpts)
      /\ unlocks \in [EpochDates -> Nat] /\ Voted(ckpts, unlocks)
  BY InvParts, OrderParts DEF VoteInv, VoteType, VotesInv
<1>2. e \in Nat /\ upcomingEpoch \in Nat
  BY <1>1, Dates DEF ClockType, EpochDates
<1>3. /\ n \in Nat /\ DOMAIN ckpts = 1 .. n
      /\ \A i \in 1 .. n : ckpts[i].votes \in Nat /\ ckpts[i].epochStart \in Nat
                           /\ ckpts[i].epochStart <= e
  <2>1. n \in Nat /\ DOMAIN ckpts = 1 .. n /\ \A i \in 1 .. n : ckpts[i] \in Checkpoints
    BY <1>1, LenProperties, ElementOfSeq
  <2>2. \A i \in 1 .. n : ckpts[i].votes \in Nat /\ ckpts[i].epochStart \in Nat
    BY <2>1 DEF Checkpoints, EpochDates
  <2>3. \A i \in 1 .. n : ckpts[i].epochStart <= upcomingEpoch
    BY <1>1, <2>1 DEF CheckpointsInOrder
  <2> QED
    BY <1>2, <2>1, <2>2, <2>3
<1>4. pos = n
  <2>1. Divides(n, ckpts, e)
    BY <1>3 DEF Divides
  <2> QED
    BY <1>1, <1>2, <2>1, LookupCounts
<1>5. VotesAt(d, e) =
        IF ckpt.votes = 0 \/ ckpt.epochStart + lockDuration <= e THEN 0
        ELSE ckpt.votes - SumFunctionOnSet(unlocks, between(ckpt.epochStart))
  BY DEF VotesAt
<1>6. VotesAfter(unlocks, e) \in Nat
  BY <1>1, <1>2, VotesAreNat
<1>7. CASE ckpts = <<>>
  <2>1. VotesAfter(unlocks, e) = 0
    BY <1>1, <1>2, <1>7, NoVotesAfter DEF Voted
  <2>2. ckpt = [votes |-> 0, epochStart |-> 0]
    BY <1>4, <1>7
  <2> HIDE DEF ckpt
  <2>3. ckpt.votes = 0
    BY <2>2
  <2> QED
    BY <1>5, <2>1, <2>3
<1>8. CASE ckpts # <<>>
  <2>1. n \in 1 .. n /\ n # 0
    BY <1>1, <1>3, <1>8, EmptySeq
  <2>2. ckpt = ckpts[n] /\ LastOf(ckpts) = ckpts[n]
    BY <1>4, <2>1 DEF LastOf
  <2>3. /\ ckpt.votes = VotesAfter(unlocks, ckpt.epochStart)
        /\ \A t \in EpochDates : unlocks[t] > 0 => t < ckpt.epochStart + lockDuration
        /\ ckpt.votes \in Nat /\ ckpt.epochStart \in Nat /\ ckpt.epochStart <= e
    BY <1>1, <1>3, <1>8, <2>1, <2>2 DEF Voted
  <2> SUFFICES VotesAt(d, e) = VotesAfter(unlocks, e)
    OBVIOUS
  <2> HIDE DEF ckpt, unlocks
  <2>4. /\ SumFunctionOnSet(unlocks, between(ckpt.epochStart)) \in Nat
        /\ VotesAfter(unlocks, ckpt.epochStart)
             = SumFunctionOnSet(unlocks, between(ckpt.epochStart)) + VotesAfter(unlocks, e)
    BY <1>1, <1>2, <2>3, VotesSplit
  <2> HIDE DEF between
  <2>5. CASE ckpt.epochStart + lockDuration <= e
    <3>1. \A t \in EpochDates : e < t => unlocks[t] = 0
      <4>1. \A t \in EpochDates : t \in Nat
        BY DEF EpochDates
      <4>2. \A t \in EpochDates : unlocks[t] \in Nat
        BY <1>1
      <4> QED
        BY <1>2, <2>3, <2>5, <4>1, <4>2, Durations
    <3>2. VotesAfter(unlocks, e) = 0
      BY <1>2, <3>1, NoVotesAfter
    <3> QED
      BY <1>5, <2>5, <3>2
  <2>6. CASE ckpt.votes = 0
    BY <1>5, <1>6, <2>3, <2>4, <2>6
  <2>7. CASE ~(ckpt.votes = 0 \/ ckpt.epochStart + lockDuration <= e)
    BY <1>5, <1>6, <2>3, <2>4, <2>7
  <2> QED
    BY <2>5, <2>6, <2>7
<1> QED
  BY <1>7, <1>8

(* What unlocks after a date is what the delegators' records beyond it     *)
(* hold.                                                                   *)
LEMMA VotesMatch ==
  ASSUME IInv, VotesInv, NEW d \in Delegatees, NEW e \in {t \in EpochDates : t >= upcomingEpoch}
  PROVE  VotesAt(d, e) =
           SumFunctionOnSet(
             [a \in Accounts |-> AmountOf(userLocks[a],
                {i \in DOMAIN userLocks[a] : userLocks[a][i].unlockTime > e})],
             {a \in Accounts : delegates[a] = d})
<1> DEFINE D == DatesAfter(e)
           S == {a \in Accounts : delegates[a] = d}
           unlocks == delegateeUnlocks[d]
           table == [a \in Accounts |-> [t \in D |-> LockedUntil(a, t)]]
           columns == [t \in D |-> [a \in Accounts |-> LockedUntil(a, t)]]
           held == [a \in Accounts |-> AmountOf(userLocks[a],
                      {i \in DOMAIN userLocks[a] : userLocks[a][i].unlockTime > e})]
<1>1. ClockType /\ BookType /\ VoteType
  BY InvParts DEF BookInv, VoteInv
<1>2. e \in EpochDates /\ e \in Nat /\ upcomingEpoch <= e /\ upcomingEpoch \in Nat
  BY <1>1, Dates DEF ClockType, EpochDates
<1>3. VotesAt(d, e) = SumFunctionOnSet(unlocks, D)
  BY <1>2, VotesAreCounted DEF VotesAfter
<1>4. IsFiniteSet(D) /\ IsFiniteSet(S) /\ S \subseteq Accounts
  BY DatesAreFinite, AddressAssumption, FS_Subset DEF DatesAfter
<1>5. ASSUME NEW t \in D PROVE unlocks[t] = SumFunctionOnSet(columns[t], S)
  <2>1. t \in EpochDates /\ upcomingEpoch < t
    BY <1>2 DEF DatesAfter, EpochDates
  <2>2. unlocks[t] = DelegatedUntil(d, t)
    BY <2>1 DEF VotesInv
  <2>3. columns[t] = [a \in Accounts |-> LockedUntil(a, t)]
    OBVIOUS
  <2> HIDE DEF columns, unlocks
  <2> QED
    BY <2>2, <2>3, Zenon DEF DelegatedUntil
<1>6. ASSUME NEW a \in S PROVE held[a] = SumFunctionOnSet(table[a], D)
  <2>1. a \in Accounts
    BY <1>4
  <2>2. AmountOf(userLocks[a], {i \in DOMAIN userLocks[a] : userLocks[a][i].unlockTime > e})
          = SumFunctionOnSet([t \in D |-> LockedUntil(a, t)], D)
    BY <1>1, <1>2, <2>1, LocksByDate
  <2>3. table[a] = [t \in D |-> LockedUntil(a, t)]
    BY <2>1
  <2>4. held[a] = AmountOf(userLocks[a], {i \in DOMAIN userLocks[a] : userLocks[a][i].unlockTime > e})
    BY <2>1
  <2> HIDE DEF table, held, D
  <2> QED
    BY <2>2, <2>3, <2>4, Zenon
<1>7. \A a \in S : \A t \in D : table[a][t] \in Int /\ columns[t][a] = table[a][t]
  BY <1>1, <1>4, LockedIsNat
<1> HIDE DEF table, columns, held, D, S, unlocks
<1>8. SumFunctionOnSet(held, S) = SumFunctionOnSet(unlocks, D)
  <2>1. AreSums(held, table, S, D) /\ AreSums(unlocks, columns, D, S)
    BY <1>5, <1>6, Zenon DEF AreSums
  <2>2. IsTable(table, columns, S, D)
    BY <1>7 DEF IsTable
  <2> QED
    BY <1>4, <2>1, <2>2, SumsExchange
<1> QED
  BY <1>3, <1>8 DEF held, S

(* The other two bookkeepings of the locks agree: the votes of a delegatee *)
(* at the upcoming epoch and at every later one, which getPastVotes finds  *)
(* in the checkpoints and delegateeUnlocks, are the amounts that its       *)
(* delegators hold in records that will not have expired.                  *)
THEOREM VotesMatchLocks == Spec => []FutureVotesMatchLocks
<1> USE DEF Spec
<1>1. Init => VotesInv
  BY InitVotes
<1>2. IInv /\ VotesInv /\ [Next]_vars => VotesInv'
  BY StepVotes
<1>3. IInv /\ VotesInv => FutureVotesMatchLocks
  BY VotesMatch DEF FutureVotesMatchLocks
<1> QED
  BY <1>1, <1>2, <1>3, Invariant, PTL

-----------------------------------------------------------------------------
(* What has been read of a past epoch stays true.                          *)

(* Time does not run backwards.                                            *)
LEMMA ClockAdvances ==
  ASSUME IInv, [Next]_vars
  PROVE  now <= now'
<1>1. now \in Int
  BY InvParts, Durations DEF ClockType
<1>2. now' = now \/ now' = now + 1
  BY DEF Next, UserStep, RewardStep, OwnerStep, Lock, ProcessExpiredLocks, KickExpiredLocks, Withdraw,
     RelockExpiredLocks, EmergencyWithdraw, Delegate, GetReward, QueueNewRewards, AddReward,
     ApproveRewardDistributor, ModifyBlacklist, SetKickIncentive, Shutdown, CheckpointEpoch, Tick, vars
<1> QED
  BY <1>1, <1>2

(* The first epoch of the list stays the first.                            *)
LEMMA FirstEpochStays ==
  ASSUME IInv, [Next]_vars
  PROVE  epochs'[1].date = epochs[1].date
<1>1. ClockType /\ EpochType /\ Consecutive(epochs)
  BY EpochsOfInv
<1> DEFINE es == CheckpointedEpochs
<1>2. /\ es \in Seq(EpochRecords) /\ es # <<>> /\ es[1] = epochs[1]
  <2>1. 1 \in DOMAIN epochs /\ \A i \in DOMAIN epochs : es[i] = epochs[i]
    BY <1>1, EpochsExtended
  <2> QED
    BY <1>1, <2>1, EpochsFilled
<1> HIDE DEF es
<1>3. ASSUME NEW amount \in Nat, epochs' = AddToLastEpoch(es, amount)
      PROVE  epochs'[1].date = es[1].date
  <2>1. Len(es) \in Nat /\ DOMAIN es = 1 .. Len(es) /\ 1 \in DOMAIN es /\ es[1] \in EpochRecords
    BY <1>2, EmptySeq, LenProperties, ElementOfSeq
  <2>2. epochs' = [es EXCEPT ![Len(es)] = [es[Len(es)] EXCEPT !.supply = @ + amount]]
    BY <1>3 DEF AddToLastEpoch
  <2>3. CASE Len(es) = 1
    <3>1. epochs'[1] = [es[1] EXCEPT !.supply = @ + amount]
      BY <2>1, <2>2, <2>3
    <3> QED
      BY <2>1, <3>1 DEF EpochRecords
  <2>4. CASE Len(es) # 1
    BY <2>1, <2>2, <2>4
  <2> QED
    BY <2>3, <2>4
<1>4. \/ \E a \in Accounts, amount \in Nat : Enters(a, amount)
      \/ epochs' = es
      \/ epochs' = epochs
  BY EntrySteps DEF es
<1>5. CASE \E a \in Accounts, amount \in Nat : Enters(a, amount)
  <2>1. PICK a \in Accounts, amount \in Nat : Enters(a, amount)
    BY <1>5
  <2>2. epochs' = AddToLastEpoch(es, amount)
    BY <2>1 DEF Enters, es
  <2> QED
    BY <1>2, <1>3, <2>2
<1> QED
  BY <1>2, <1>4, <1>5

(* A lock made now does not count at an epoch that has started.            *)
LEMMA LockIsLater ==
  ASSUME ClockType, BookType, LocksSorted, NEW a \in Accounts, NEW amount \in Nat,
         userLocks' = [userLocks EXCEPT ![a] = AddLock(userLocks[a], amount, UnlockTime)],
         NEW e \in Nat, e <= currentEpoch, NEW x \in Accounts
  PROVE  BalanceAt(e, x)' = BalanceAt(e, x)
<1>1. CASE x # a
  <2>1. userLocks'[x] = userLocks[x]
    BY <1>1 DEF BookType
  <2> QED
    BY <2>1 DEF BalanceAt
<1>2. CASE x = a
  <2> DEFINE locks == userLocks[a]
             new == AddLock(locks, amount, UnlockTime)
             k == Len(new)
             Counted(l) == {i \in DOMAIN l : /\ l[i].unlockTime - lockDuration < e
                                             /\ \A j \in i .. Len(l) :
                                                  l[j].unlockTime - lockDuration > e - lockDuration}
  <2>1. /\ locks \in Seq(LockRecords) /\ InOrder(locks) /\ userLocks'[a] = new
    BY OrderParts DEF BookType
  <2>2. BalanceAt(e, a) = AmountOf(locks, Counted(locks))
    BY DEF BalanceAt
  <2>3. BalanceAt(e, a)' = AmountOf(new, Counted(new))
    BY <2>1 DEF BalanceAt
  <2>4. /\ new \in Seq(LockRecords) /\ k \in DOMAIN new /\ DOMAIN new = DOMAIN locks \cup {k}
        /\ new[k].unlockTime = UnlockTime
        /\ \A i \in DOMAIN locks \ {k} : new[i] = locks[i]
        /\ k \in DOMAIN locks => locks[k].unlockTime = UnlockTime
        /\ k \in DOMAIN locks => new[k].amount = amount + locks[k].amount
        /\ k \notin DOMAIN locks => new[k].amount = amount
    BY <2>1, AddLockAdds
  <2> HIDE DEF new
  <2>5. /\ Len(locks) \in Nat /\ DOMAIN locks = 1 .. Len(locks)
        /\ k \in Nat /\ DOMAIN new = 1 .. k
        /\ \A i \in DOMAIN locks : locks[i].unlockTime \in Nat /\ locks[i].amount \in Nat
        /\ \A i \in DOMAIN new : new[i].unlockTime \in Nat /\ new[i].amount \in Nat
    BY <2>1, <2>4, RecordTypes
  <2>6. /\ UnlockTime \in Nat /\ lockDuration \in Nat \ {0}
        /\ UnlockTime - lockDuration >= e /\ UnlockTime - lockDuration > e - lockDuration
    <3>1. currentEpoch \in Nat /\ UnlockTime = currentEpoch + lockDuration
      BY Dates DEF ClockType, EpochDates
    <3>2. lockDuration \in Nat /\ rewardsDuration \in Nat \ {0} /\ 2 * rewardsDuration <= lockDuration
      BY Durations
    <3> QED
      BY <3>1, <3>2
  <2> HIDE DEF k, locks
  <2>7. k \notin Counted(new) /\ (k \in DOMAIN locks => k \notin Counted(locks))
    BY <2>4, <2>6
  <2>8. ASSUME NEW i \in DOMAIN locks \ {k}
        PROVE  i \in Counted(new) <=> i \in Counted(locks)
    <3>1. new[i] = locks[i] /\ i \in DOMAIN new /\ i \in 1 .. k /\ i \in 1 .. Len(locks)
      BY <2>4, <2>5
    <3>2. \A j \in 1 .. Len(locks) : new[j].unlockTime = locks[j].unlockTime /\ j \in 1 .. k
      BY <2>4, <2>5
    <3>3. \A j \in 1 .. k : j \in 1 .. Len(locks) \/ j = k
      BY <2>4, <2>5
    <3>4. (\A j \in i .. k : new[j].unlockTime - lockDuration > e - lockDuration)
            <=> \A j \in i .. Len(locks) : locks[j].unlockTime - lockDuration > e - lockDuration
      <4>1. ASSUME \A j \in i .. k : new[j].unlockTime - lockDuration > e - lockDuration,
                   NEW j \in i .. Len(locks)
            PROVE  locks[j].unlockTime - lockDuration > e - lockDuration
        <5>1. j \in 1 .. Len(locks) /\ j \in i .. k
          BY <2>5, <3>1, <3>2
        <5> QED
          BY <3>2, <4>1, <5>1
      <4>2. ASSUME \A j \in i .. Len(locks) : locks[j].unlockTime - lockDuration > e - lockDuration,
                   NEW j \in i .. k
            PROVE  new[j].unlockTime - lockDuration > e - lockDuration
        <5>1. CASE j = k
          BY <2>4, <2>6, <5>1
        <5>2. CASE j # k
          <6>1. j \in 1 .. Len(locks) /\ j \in i .. Len(locks)
            BY <2>5, <3>1, <3>3, <5>2
          <6> QED
            BY <3>2, <4>2, <6>1
        <5> QED
          BY <5>1, <5>2
      <4> QED
        BY <4>1, <4>2
    <3>5. k = Len(new)
      BY DEF k
    <3> QED
      BY <3>1, <3>4, <3>5
  <2> DEFINE I == Counted(new)
  <2>9. I \in SUBSET (DOMAIN new) /\ k \notin I /\ I \cap DOMAIN locks = Counted(locks)
    <3>1. I \subseteq DOMAIN new /\ Counted(locks) \subseteq DOMAIN locks
      OBVIOUS
    <3> HIDE DEF Counted
    <3> QED
      BY <2>4, <2>7, <2>8, <3>1
  <2> HIDE DEF Counted, I
  <2>10. AmountOf(new, I) = AmountOf(locks, I \cap DOMAIN locks)
    <3>1. /\ \A i \in DOMAIN locks \ {k} : new[i].amount = locks[i].amount
          /\ k \in DOMAIN locks => new[k].amount = amount + locks[k].amount
          /\ k \notin DOMAIN locks => new[k].amount = amount
      BY <2>4
    <3>2. /\ locks \in Seq(LockRecords) /\ new \in Seq(LockRecords) /\ I \in SUBSET (DOMAIN new)
          /\ k \in DOMAIN new /\ DOMAIN new = DOMAIN locks \cup {k} /\ k \notin I
      BY <2>1, <2>4, <2>9
    <3>3. k \notin I => AmountOf(new, I) = AmountOf(locks, I \cap DOMAIN locks)
      BY ONLY amount \in Nat, <3>1, <3>2, AmountAdded, SMTT(60)
    <3> QED
      BY <3>2, <3>3
  <2>11. AmountOf(new, I) = AmountOf(locks, Counted(locks))
    BY <2>9, <2>10, Zenon
  <2> QED
    BY <1>2, <2>2, <2>3, <2>11 DEF I
<1> QED
  BY <1>1, <1>2

(* Checkpoints change at the upcoming epoch only.                          *)
CheckpointsGrow(ckpts, new) ==
  /\ Len(ckpts) <= Len(new)
  /\ \A i \in 1 .. Len(new) :
       \/ i \in 1 .. Len(ckpts) /\ new[i] = ckpts[i]
       \/ /\ new[i].epochStart = upcomingEpoch
          /\ i \in 1 .. Len(ckpts) => ckpts[i].epochStart = upcomingEpoch

VotesGrow ==
  \A d \in Delegatees :
    /\ CheckpointsGrow(checkpointedVotes[d], checkpointedVotes'[d])
    /\ \A t \in EpochDates : t <= upcomingEpoch => delegateeUnlocks'[d][t] = delegateeUnlocks[d][t]

(* A list that stays as it is has grown by nothing.                        *)
LEMMA SameCheckpointsGrow ==
  ASSUME NEW ckpts \in Seq(Checkpoints)
  PROVE  CheckpointsGrow(ckpts, ckpts)
<1>1. Len(ckpts) \in Nat
  BY LenProperties
<1> QED
  BY <1>1 DEF CheckpointsGrow

(* Writing a checkpoint adds to the list or changes its last entry only.   *)
LEMMA CheckpointGrows ==
  ASSUME NEW base \in Seq(Checkpoints), NEW ckpts \in Seq(Checkpoints), CheckpointsGrow(base, ckpts),
         NEW unlocks, NEW addition, NEW deduction
  PROVE  CheckpointsGrow(base, Checkpoint(ckpts, unlocks, addition, deduction))
<1> DEFINE ckpt == [votes |-> Carried(ckpts, unlocks) + addition - deduction,
                    epochStart |-> upcomingEpoch]
           n == Len(ckpts)
           new == Checkpoint(ckpts, unlocks, addition, deduction)
<1>1. new = IF ckpts # <<>> /\ LastOf(ckpts).epochStart = upcomingEpoch
            THEN [ckpts EXCEPT ![n] = ckpt] ELSE Append(ckpts, ckpt)
  BY DEF Checkpoint
<1>2. ckpt.epochStart = upcomingEpoch
  OBVIOUS
<1> HIDE DEF ckpt, new
<1>3. n \in Nat /\ DOMAIN ckpts = 1 .. n /\ (ckpts # <<>> => n \in 1 .. n) /\ Len(base) \in Nat
  BY EmptySeq, LenProperties
<1>4. /\ Len(base) <= n
      /\ \A i \in 1 .. n :
           \/ i \in 1 .. Len(base) /\ ckpts[i] = base[i]
           \/ /\ ckpts[i].epochStart = upcomingEpoch
              /\ i \in 1 .. Len(base) => base[i].epochStart = upcomingEpoch
  BY DEF CheckpointsGrow
<1>5. CASE ckpts # <<>> /\ LastOf(ckpts).epochStart = upcomingEpoch
  <2>1. new = [ckpts EXCEPT ![n] = ckpt]
    BY <1>1, <1>5
  <2>2. Len(new) = n /\ \A i \in 1 .. n : new[i] = IF i = n THEN ckpt ELSE ckpts[i]
    BY <1>3, <1>5, <2>1
  <2>3. ckpts[n].epochStart = upcomingEpoch
    BY <1>5 DEF LastOf
  <2>4. ASSUME NEW i \in 1 .. n
        PROVE  \/ i \in 1 .. Len(base) /\ new[i] = base[i]
               \/ /\ new[i].epochStart = upcomingEpoch
                  /\ i \in 1 .. Len(base) => base[i].epochStart = upcomingEpoch
    <3>1. CASE i = n
      BY <1>2, <1>4, <2>2, <2>3, <3>1
    <3>2. CASE i # n
      BY <1>4, <2>2, <3>2
    <3> QED
      BY <3>1, <3>2
  <2> QED
    BY <1>4, <2>2, <2>4 DEF CheckpointsGrow, new
<1>6. CASE ~(ckpts # <<>> /\ LastOf(ckpts).epochStart = upcomingEpoch)
  <2>1. new = Append(ckpts, ckpt)
    BY <1>1, <1>6
  <2>2. /\ Len(new) = n + 1 /\ new[n + 1] = ckpt
        /\ \A i \in 1 .. n : new[i] = ckpts[i]
    BY <1>3, <2>1
  <2>3. ASSUME NEW i \in 1 .. (n + 1)
        PROVE  \/ i \in 1 .. Len(base) /\ new[i] = base[i]
               \/ /\ new[i].epochStart = upcomingEpoch
                  /\ i \in 1 .. Len(base) => base[i].epochStart = upcomingEpoch
    <3>1. CASE i = n + 1
      BY <1>2, <1>3, <1>4, <2>2, <3>1
    <3>2. CASE i # n + 1
      <4>1. i \in 1 .. n
        BY <1>3, <3>2
      <4> QED
        BY <1>4, <2>2, <4>1
    <3> QED
      BY <3>1, <3>2
  <2> QED
    BY <1>3, <1>4, <2>2, <2>3 DEF CheckpointsGrow, new
<1> QED
  BY <1>5, <1>6

(* The checkpoint on release only grows the lists.                         *)
LEMMA DelegateeGrows ==
  ASSUME VoteType, NEW a \in Accounts
  PROVE  \A d \in Delegatees : CheckpointsGrow(checkpointedVotes[d], CheckpointedDelegatee(a)[d])
<1>1. /\ checkpointedVotes \in [Delegatees -> Seq(Checkpoints)]
      /\ delegates[a] \in Delegatees \cup {NoOne}
      /\ \A d \in Delegatees : CheckpointsGrow(checkpointedVotes[d], checkpointedVotes[d])
  BY SameCheckpointsGrow DEF VoteType
<1>2. CASE delegates[a] = NoOne
  BY <1>1, <1>2 DEF CheckpointedDelegatee
<1>3. CASE delegates[a] # NoOne
  <2> DEFINE x == delegates[a]
             new == Checkpoint(checkpointedVotes[x], delegateeUnlocks[x], 0, 0)
  <2>1. x \in Delegatees
    BY <1>1, <1>3
  <2>2. CheckpointedDelegatee(a) = [checkpointedVotes EXCEPT ![x] = new]
    BY <1>3 DEF CheckpointedDelegatee
  <2>3. CheckpointsGrow(checkpointedVotes[x], new)
    BY <1>1, <2>1, CheckpointGrows
  <2> HIDE DEF new
  <2> QED
    BY <1>1, <2>1, <2>2, <2>3
<1> QED
  BY <1>2, <1>3

(* Recording a lock only grows the lists, and changes what unlocks in the  *)
(* future only.                                                            *)
LEMMA RecordGrows ==
  ASSUME ClockType, VoteType, NEW a \in Accounts, NEW amount \in Nat,
         NEW ckpts \in [Delegatees -> Seq(Checkpoints)],
         \A d \in Delegatees : CheckpointsGrow(checkpointedVotes[d], ckpts[d]),
         RecordLock(a, amount, ckpts)
  PROVE  VotesGrow
<1> DEFINE d == delegates[a]
<1>1. /\ checkpointedVotes \in [Delegatees -> Seq(Checkpoints)]
      /\ delegateeUnlocks \in [Delegatees -> [EpochDates -> Nat]]
      /\ d \in Delegatees \cup {NoOne}
  BY DEF VoteType
<1>2. CASE d = NoOne
  <2>1. delegateeUnlocks' = delegateeUnlocks /\ checkpointedVotes' = ckpts
    BY <1>2 DEF RecordLock
  <2> QED
    BY <2>1 DEF VotesGrow
<1>3. CASE d # NoOne
  <2> DEFINE unlocks == delegateeUnlocks'[d]
             new == Checkpoint(ckpts[d], unlocks, amount, 0)
  <2>1. d \in Delegatees
    BY <1>1, <1>3
  <2>2. /\ delegateeUnlocks' = [delegateeUnlocks EXCEPT ![d][UnlockTime] = @ + amount]
        /\ checkpointedVotes' = [ckpts EXCEPT ![d] = new]
    BY <1>3 DEF RecordLock
  <2> HIDE DEF unlocks
  <2>3. CheckpointsGrow(checkpointedVotes[d], new)
    BY <1>1, <2>1, CheckpointGrows
  <2> HIDE DEF new
  <2>4. upcomingEpoch < UnlockTime /\ upcomingEpoch \in Nat /\ UnlockTime \in Nat
    <3>1. /\ currentEpoch \in Nat /\ upcomingEpoch = currentEpoch + rewardsDuration
          /\ UnlockTime = currentEpoch + lockDuration
      BY Dates DEF ClockType, EpochDates
    <3>2. rewardsDuration \in Nat \ {0} /\ lockDuration \in Nat /\ 2 * rewardsDuration <= lockDuration
      BY Durations
    <3> QED
      BY <3>1, <3>2
  <2>5. \A x \in Delegatees : CheckpointsGrow(checkpointedVotes[x], checkpointedVotes'[x])
    BY <2>1, <2>2, <2>3
  <2>6. \A x \in Delegatees : \A t \in EpochDates :
          t # UnlockTime => delegateeUnlocks'[x][t] = delegateeUnlocks[x][t]
    BY <1>1, <2>1, <2>2
  <2>7. \A t \in EpochDates : t <= upcomingEpoch => t # UnlockTime
    BY <2>4
  <2> QED
    BY <2>5, <2>6, <2>7 DEF VotesGrow
<1> QED
  BY <1>2, <1>3

(* delegate only grows the lists, and changes what unlocks in the future   *)
(* only.                                                                   *)
LEMMA DelegateGrows ==
  ASSUME IInv, NEW a \in Accounts, NEW d \in Delegatees, Delegate(a, d)
  PROVE  VotesGrow
<1> DEFINE old == delegates[a]
           moved == [t \in EpochDates |-> FutureUnlockAt(a, t)]
<1>1. /\ delegateeUnlocks' =
           [x \in Delegatees |-> [t \in EpochDates |->
              delegateeUnlocks[x][t] - (IF x = old THEN moved[t] ELSE 0)
                                     + (IF x = d THEN moved[t] ELSE 0)]]
      /\ \A x \in Delegatees : checkpointedVotes'[x] = checkpointedVotes[x]
           \/ \E gain, drop : checkpointedVotes'[x]
                = Checkpoint(checkpointedVotes[x], delegateeUnlocks'[x], gain, drop)
  BY DEF Delegate
<1>2. /\ ClockType /\ BookType /\ InOrder(userLocks[a])
      /\ checkpointedVotes \in [Delegatees -> Seq(Checkpoints)]
      /\ delegateeUnlocks \in [Delegatees -> [EpochDates -> Nat]]
  BY InvParts, OrderParts DEF BookInv, VoteInv, VoteType
<1>3. ASSUME NEW t \in EpochDates, t <= upcomingEpoch
      PROVE  moved[t] = 0
  <2>1. t \in Nat /\ upcomingEpoch \in Nat
    BY <1>2, Dates DEF ClockType, EpochDates
  <2>2. FutureUnlockAt(a, t) = IF upcomingEpoch < t THEN LockedUntil(a, t) ELSE 0
    BY <1>2, <2>1, FutureUnlocks
  <2> QED
    BY <1>3, <2>1, <2>2
<1> HIDE DEF moved
<1>4. ASSUME NEW x \in Delegatees, NEW t \in EpochDates, t <= upcomingEpoch
      PROVE  delegateeUnlocks'[x][t] = delegateeUnlocks[x][t]
  <2>1. delegateeUnlocks[x][t] \in Nat /\ moved[t] = 0
    BY <1>2, <1>3, <1>4
  <2> QED
    BY <1>1, <2>1
<1>5. ASSUME NEW x \in Delegatees
      PROVE  CheckpointsGrow(checkpointedVotes[x], checkpointedVotes'[x])
  <2>1. checkpointedVotes[x] \in Seq(Checkpoints)
    BY <1>2
  <2>2. CheckpointsGrow(checkpointedVotes[x], checkpointedVotes[x])
    BY <2>1, SameCheckpointsGrow
  <2>3. CASE checkpointedVotes'[x] = checkpointedVotes[x]
    BY <2>2, <2>3
  <2>4. CASE checkpointedVotes'[x] # checkpointedVotes[x]
    <3>1. PICK gain, drop : checkpointedVotes'[x]
            = Checkpoint(checkpointedVotes[x], delegateeUnlocks'[x], gain, drop)
      BY <1>1, <2>4
    <3>2. CheckpointsGrow(checkpointedVotes[x],
            Checkpoint(checkpointedVotes[x], delegateeUnlocks'[x], gain, drop))
      BY <2>1, <2>2, CheckpointGrows
    <3> QED
      BY <3>1, <3>2
  <2> QED
    BY <2>3, <2>4
<1> QED
  BY <1>4, <1>5 DEF VotesGrow

(* So does every step.                                                     *)
LEMMA VotesOnlyGrow ==
  ASSUME IInv, [Next]_vars
  PROVE  VotesGrow
<1>1. ClockType /\ VoteType /\ VoteInv /\ checkpointedVotes \in [Delegatees -> Seq(Checkpoints)]
  BY InvParts DEF VoteInv, VoteType
<1>2. \A d \in Delegatees : CheckpointsGrow(checkpointedVotes[d], checkpointedVotes[d])
  BY <1>1, SameCheckpointsGrow
<1>3. ASSUME UNCHANGED voteVars PROVE VotesGrow
  BY <1>2, <1>3 DEF VotesGrow, voteVars
<1>4. ASSUME NEW a \in Accounts, NEW s \in Accounts, NEW amount \in LockAmounts, Lock(s, a, amount)
      PROVE  VotesGrow
  <2>1. RecordLock(a, amount, checkpointedVotes) /\ amount \in Nat
    BY <1>4, AmountAssumption DEF Lock
  <2> QED
    BY <1>1, <1>2, <2>1, RecordGrows
<1>5. ASSUME NEW a \in Accounts, RelockExpiredLocks(a)
      PROVE  VotesGrow
  <2> DEFINE amount == Release(a, TRUE, 0).amount
  <2>1. RecordLock(a, amount, CheckpointedDelegatee(a)) /\ CanRelease(a, TRUE, 0)
    BY <1>5 DEF RelockExpiredLocks
  <2> HIDE DEF amount
  <2>2. amount \in Nat
    BY <2>1, AmountAssumption DEF RecordLock
  <2>3. /\ CheckpointedDelegatee(a) \in [Delegatees -> Seq(Checkpoints)]
        /\ \A d \in Delegatees : CheckpointsGrow(checkpointedVotes[d], CheckpointedDelegatee(a)[d])
    BY <1>1, <2>1, DelegateeKeeps, DelegateeGrows
  <2> QED
    BY <1>1, <2>1, <2>2, <2>3, RecordGrows
<1>6. ASSUME NEW a \in Accounts, NEW keeper \in Accounts, NEW delay, Withdraw(a, keeper, delay)
      PROVE  VotesGrow
  <2>1. delegateeUnlocks' = delegateeUnlocks /\ checkpointedVotes' = CheckpointedDelegatee(a)
    BY <1>6 DEF Withdraw
  <2>2. \A d \in Delegatees : CheckpointsGrow(checkpointedVotes[d], CheckpointedDelegatee(a)[d])
    BY <1>1, DelegateeGrows
  <2> QED
    BY <2>1, <2>2 DEF VotesGrow
<1>7. CASE UserStep
  <2> PICK a \in Accounts :
        \/ \E s \in Accounts, amount \in LockAmounts : Lock(s, a, amount)
        \/ ProcessExpiredLocks(a)
        \/ RelockExpiredLocks(a)
        \/ \E k \in Accounts : KickExpiredLocks(k, a)
        \/ EmergencyWithdraw(a)
        \/ \E d \in Delegatees : Delegate(a, d)
        \/ \E skipped \in SUBSET rewardTokens : GetReward(a, skipped)
    BY <1>7 DEF UserStep
  <2>1. CASE \E s \in Accounts, amount \in LockAmounts : Lock(s, a, amount)
    BY <1>4, <2>1
  <2>2. CASE RelockExpiredLocks(a)
    BY <1>5, <2>2
  <2>3. CASE ProcessExpiredLocks(a) \/ \E k \in Accounts : KickExpiredLocks(k, a)
    BY <1>6, <2>3 DEF ProcessExpiredLocks, KickExpiredLocks
  <2>4. CASE \E d \in Delegatees : Delegate(a, d)
    BY <2>4, DelegateGrows
  <2>5. CASE EmergencyWithdraw(a) \/ (\E skipped \in SUBSET rewardTokens : GetReward(a, skipped))
    <3>1. UNCHANGED voteVars
      BY <2>5 DEF EmergencyWithdraw, GetReward
    <3> QED
      BY <1>3, <3>1
  <2> QED
    BY <2>1, <2>2, <2>3, <2>4, <2>5
<1>8. CASE RewardStep \/ OwnerStep
  <2>1. UNCHANGED voteVars
    BY <1>8 DEF RewardStep, QueueNewRewards, AddReward, ApproveRewardDistributor,
       OwnerStep, ModifyBlacklist, SetKickIncentive, Shutdown
  <2> QED
    BY <1>3, <2>1
<1>9. CASE CheckpointEpoch \/ Tick \/ UNCHANGED vars
  <2>1. UNCHANGED voteVars
    BY <1>9 DEF CheckpointEpoch, Tick, vars
  <2> QED
    BY <1>3, <2>1
<1> QED
  BY <1>7, <1>8, <1>9 DEF Next

(* getPastVotes, of the lists it reads.                                    *)
VotesOf(ckpts, unlocks, epoch) ==
  LET pos == CheckpointsLookup(ckpts, epoch)
      ckpt == IF pos = 0 THEN [votes |-> 0, epochStart |-> 0] ELSE ckpts[pos]
  IN  IF ckpt.votes = 0 \/ ckpt.epochStart + lockDuration <= epoch THEN 0
      ELSE ckpt.votes - SumFunctionOnSet(unlocks, {t \in EpochDates : ckpt.epochStart < t /\ t <= epoch})

(* Some number of checkpoints start by an epoch.                           *)
LEMMA DivisionExists ==
  ASSUME NEW ckpts \in Seq(Checkpoints), CheckpointsInOrder(ckpts), NEW e \in Nat
  PROVE  \E p : Divides(p, ckpts, e)
<1> DEFINE n == Len(ckpts)
           I == {i \in 1 .. n : ckpts[i].epochStart <= e}
<1>1. /\ n \in Nat /\ DOMAIN ckpts = 1 .. n
      /\ \A i \in 1 .. n : ckpts[i].epochStart \in Nat
  <2>1. n \in Nat /\ DOMAIN ckpts = 1 .. n /\ \A i \in 1 .. n : ckpts[i] \in Checkpoints
    BY LenProperties, ElementOfSeq
  <2> QED
    BY <2>1 DEF Checkpoints, EpochDates
<1>2. CASE I = {}
  <2>1. Divides(0, ckpts, e)
    <3>1. \A i \in 1 .. n : ckpts[i].epochStart > e
      BY <1>1, <1>2
    <3> QED
      BY <1>1, <3>1 DEF Divides
  <2> QED
    BY <2>1
<1>3. CASE I # {}
  <2>1. I \in SUBSET Int /\ IsFiniteSet(I)
    <3>1. 1 \in Int /\ n \in Int
      BY <1>1
    <3>2. IsFiniteSet(1 .. n)
      BY <3>1, FS_Interval
    <3>3. I \subseteq 1 .. n
      OBVIOUS
    <3>4. IsFiniteSet(I)
      BY <3>2, <3>3, FS_Subset
    <3> QED
      BY <3>1, <3>3, <3>4
  <2>2. PICK p \in I : \A i \in I : i <= p
    BY <1>3, <2>1, LargestExists
  <2>3. p \in 1 .. n /\ ckpts[p].epochStart <= e
    OBVIOUS
  <2>4. ASSUME NEW i \in 1 .. p PROVE ckpts[i].epochStart <= e
    <3>1. i \in 1 .. n /\ (i = p \/ i < p)
      BY <1>1, <2>3
    <3>2. i < p => ckpts[i].epochStart < ckpts[p].epochStart
      BY <1>1, <2>3, <3>1 DEF CheckpointsInOrder
    <3> QED
      BY <1>1, <2>3, <3>1, <3>2
  <2>5. ASSUME NEW i \in (p + 1) .. n PROVE ckpts[i].epochStart > e
    <3>1. i \in 1 .. n /\ ~(i <= p)
      BY <1>1, <2>3
    <3>2. i \notin I
      BY <2>2, <3>1
    <3> QED
      BY <1>1, <3>1, <3>2
  <2>6. Divides(p, ckpts, e)
    BY <1>1, <2>3, <2>4, <2>5 DEF Divides
  <2> QED
    BY <2>6
<1> QED
  BY <1>2, <1>3

(* Lists that have only grown give the same votes for past epochs.         *)
LEMMA PastVotesStay ==
  ASSUME ClockType, NEW ckpts \in Seq(Checkpoints), CheckpointsInOrder(ckpts),
         NEW new \in Seq(Checkpoints), CheckpointsGrow(ckpts, new),
         NEW unlocks \in [EpochDates -> Nat], NEW unlocksNow,
         \A t \in EpochDates : t <= upcomingEpoch => unlocksNow[t] = unlocks[t],
         NEW e \in Nat, e < upcomingEpoch
  PROVE  VotesOf(new, unlocksNow, e) = VotesOf(ckpts, unlocks, e)
<1> DEFINE n == Len(ckpts)
           m == Len(new)
           none == [votes |-> 0, epochStart |-> 0]
           between(s) == {t \in EpochDates : s < t /\ t <= e}
           At(c, u) == IF c.votes = 0 \/ c.epochStart + lockDuration <= e THEN 0
                       ELSE c.votes - SumFunctionOnSet(u, between(c.epochStart))
<1>1. PICK p : Divides(p, ckpts, e)
  BY DivisionExists
<1>2. /\ n \in Nat /\ m \in Nat /\ upcomingEpoch \in Nat /\ n <= m /\ p \in 0 .. n
      /\ \A i \in 1 .. p : ckpts[i].epochStart <= e
      /\ \A i \in (p + 1) .. n : ckpts[i].epochStart > e
      /\ \A i \in 1 .. n : ckpts[i].epochStart \in Nat
  <2>1. n \in Nat /\ m \in Nat /\ \A i \in 1 .. n : ckpts[i] \in Checkpoints
    BY LenProperties, ElementOfSeq
  <2>2. \A i \in 1 .. n : ckpts[i].epochStart \in Nat
    BY <2>1 DEF Checkpoints, EpochDates
  <2>3. upcomingEpoch \in Nat
    BY Dates DEF ClockType, EpochDates
  <2> QED
    BY <1>1, <2>1, <2>2, <2>3 DEF Divides, CheckpointsGrow
<1>3. ASSUME NEW i \in 1 .. m
      PROVE  \/ i \in 1 .. n /\ new[i] = ckpts[i]
             \/ /\ new[i].epochStart = upcomingEpoch
                /\ i \in 1 .. n => ckpts[i].epochStart = upcomingEpoch
  BY DEF CheckpointsGrow
<1>4. \A i \in 1 .. p : new[i] = ckpts[i] /\ new[i].epochStart <= e
  <2> SUFFICES ASSUME NEW i \in 1 .. p PROVE new[i] = ckpts[i] /\ new[i].epochStart <= e
    OBVIOUS
  <2>1. i \in 1 .. m /\ i \in 1 .. n /\ ckpts[i].epochStart <= e /\ ckpts[i].epochStart \in Nat
    BY <1>2
  <2>2. ckpts[i].epochStart # upcomingEpoch
    BY <1>2, <2>1
  <2> QED
    BY <1>3, <2>1, <2>2
<1>5. \A i \in (p + 1) .. m : new[i].epochStart > e
  <2> SUFFICES ASSUME NEW i \in (p + 1) .. m PROVE new[i].epochStart > e
    OBVIOUS
  <2>1. i \in 1 .. m /\ (i \in 1 .. n => i \in (p + 1) .. n)
    BY <1>2
  <2>2. CASE new[i].epochStart = upcomingEpoch
    BY <1>2, <2>2
  <2>3. CASE i \in 1 .. n /\ new[i] = ckpts[i]
    BY <1>2, <2>1, <2>3
  <2> QED
    BY <1>3, <2>1, <2>2, <2>3
<1>6. Divides(p, new, e)
  <2>1. p \in 0 .. m
    BY <1>2
  <2> QED
    BY <1>4, <1>5, <2>1 DEF Divides
<1>7. CheckpointsLookup(ckpts, e) = p /\ CheckpointsLookup(new, e) = p
  BY <1>1, <1>6, LookupCounts
<1> DEFINE c == IF p = 0 THEN none ELSE ckpts[p]
           d == IF p = 0 THEN none ELSE new[p]
<1>8. c = d
  BY <1>2, <1>4
<1>9. VotesOf(ckpts, unlocks, e) = At(c, unlocks) /\ VotesOf(new, unlocksNow, e) = At(d, unlocksNow)
  BY <1>7 DEF VotesOf
<1>10. SumFunctionOnSet(unlocksNow, between(c.epochStart)) = SumFunctionOnSet(unlocks, between(c.epochStart))
  <2> DEFINE D == between(c.epochStart)
  <2>1. D \subseteq EpochDates /\ \A t \in D : t <= e /\ t \in Nat
    BY DEF EpochDates
  <2>2. \A t \in D : unlocksNow[t] = unlocks[t]
    <3> HIDE DEF D
    <3> QED
      BY <1>2, <2>1
  <2> HIDE DEF D
  <2>3. SumFunctionOnSet(unlocksNow, D) = SumFunctionOnSet(unlocks, D)
    BY <2>1, <2>2, VotesAfterSame
  <2> QED
    BY <2>3 DEF D
<1> HIDE DEF c, d, between
<1>11. At(d, unlocksNow) = At(c, unlocks)
  BY <1>8, <1>10
<1> QED
  BY <1>9, <1>11

(* A step changes no balance at an epoch that has begun: what it adds to   *)
(* the lock book counts from the upcoming epoch on.                        *)
LEMMA PastBalancesStay ==
  ASSUME IInv, [Next]_vars, NEW e \in Nat, e <= currentEpoch, NEW a \in Accounts
  PROVE  BalanceAt(e, a)' = BalanceAt(e, a)
<1>1. ClockType /\ BookType /\ LocksSorted
  BY InvParts, OrderParts DEF BookInv
<1>2. CASE \E x \in Accounts, amount \in Nat : Enters(x, amount)
  <2> PICK x \in Accounts, amount \in Nat : Enters(x, amount)
    BY <1>2
  <2>1. userLocks' = [userLocks EXCEPT ![x] = AddLock(userLocks[x], amount, UnlockTime)]
    BY DEF Enters
  <2> QED
    BY <1>1, <2>1, LockIsLater
<1>3. CASE userLocks' = userLocks
  BY <1>3 DEF BalanceAt
<1> QED
  BY <1>2, <1>3, EntrySteps

(* The clock and the votes are typed after the step too.                   *)
LEMMA TypedAfterwards ==
  ASSUME IInv'
  PROVE  ClockType' /\ VoteType'
<1>1. TypeOK'
  BY DEF IInv
<1>2. ClockType'
  BY <1>1 DEF TypeOK, ClockType
<1>3. VoteType'
  BY <1>1 DEF TypeOK, VoteType, EpochDates
<1> QED
  BY <1>2, <1>3

(* Nor does it change what getPastVotes answers for such an epoch.         *)
LEMMA PastVotesOfAllStay ==
  ASSUME IInv, IInv', [Next]_vars, NEW e \in Nat, e <= currentEpoch, NEW d \in Delegatees
  PROVE  VotesAt(d, e)' = VotesAt(d, e)
<1> DEFINE old == checkpointedVotes[d]
           new == checkpointedVotes'[d]
           unlocks == delegateeUnlocks[d]
           unlocksNow == delegateeUnlocks'[d]
<1>1. /\ ClockType /\ old \in Seq(Checkpoints) /\ CheckpointsInOrder(old)
      /\ unlocks \in [EpochDates -> Nat]
  BY InvParts, OrderParts DEF VoteInv, VoteType
<1>2. new \in Seq(Checkpoints)
  BY TypedAfterwards DEF VoteType
<1>3. /\ CheckpointsGrow(old, new)
      /\ \A t \in EpochDates : t <= upcomingEpoch => unlocksNow[t] = unlocks[t]
  BY VotesOnlyGrow DEF VotesGrow
<1>4. e < upcomingEpoch
  <2>1. currentEpoch \in Nat /\ upcomingEpoch = currentEpoch + rewardsDuration
    BY <1>1, Dates DEF ClockType, EpochDates
  <2> QED
    BY <2>1, Durations
<1>5. /\ VotesAt(d, e) = VotesOf(old, unlocks, e)
      /\ VotesAt(d, e)' = VotesOf(new, unlocksNow, e)
  BY DEF VotesAt, VotesOf
<1> HIDE DEF old, new, unlocks, unlocksNow
<1>6. VotesOf(new, unlocksNow, e) = VotesOf(old, unlocks, e)
  BY <1>1, <1>2, <1>3, <1>4, PastVotesStay
<1> QED
  BY <1>5, <1>6

(* Nor the total supply, which is the sum of the balances before and after.*)
LEMMA PastSuppliesStay ==
  ASSUME IInv, IInv', [Next]_vars, SupplyIsSumOfBalances, SupplyIsSumOfBalances',
         NEW e \in PastEpochs
  PROVE  SupplyAt(e)' = SupplyAt(e)
<1>1. ClockType /\ ClockType'
  BY InvParts, TypedAfterwards
<1>2. e \in KnownEpochs /\ e \in EpochDates /\ e \in Nat /\ e <= currentEpoch
  BY DEF PastEpochs, KnownEpochs, EpochDates
<1>3. e \in KnownEpochs'
  <2>1. now <= now'
    BY ClockAdvances
  <2>2. upcomingEpoch \in Nat /\ (upcomingEpoch)' \in Nat /\ upcomingEpoch <= (upcomingEpoch)'
    BY <1>1, <2>1, UpcomingAdvances
  <2>3. epochs[1].date <= e /\ e <= upcomingEpoch
    BY <1>2 DEF KnownEpochs
  <2>4. epochs'[1].date <= e
    BY <2>3, FirstEpochStays
  <2>5. e <= (upcomingEpoch)'
    BY <1>2, <2>2, <2>3
  <2> QED
    BY <1>2, <2>4, <2>5 DEF KnownEpochs
<1>4. SupplyAt(e) = SumFunctionOnSet([a \in Accounts |-> BalanceAt(e, a)], Accounts)
  BY <1>2 DEF SupplyIsSumOfBalances
<1>5. SupplyAt(e)' = SumFunctionOnSet([a \in Accounts |-> BalanceAt(e, a)'], Accounts)
  BY <1>3 DEF SupplyIsSumOfBalances
<1>6. \A a \in Accounts : BalanceAt(e, a)' = BalanceAt(e, a)
  BY <1>2, PastBalancesStay
<1>7. [a \in Accounts |-> BalanceAt(e, a)'] = [a \in Accounts |-> BalanceAt(e, a)]
  BY <1>6
<1> QED
  BY <1>4, <1>5, <1>7

(* Governance reads balances, supplies and votes at an epoch that has      *)
(* begun: no later transaction of anybody, however late the epoch list was *)
(* filled up, changes what balanceAtEpochOf, totalSupplyAtEpoch or         *)
(* getPastVotes answers for it.                                            *)
THEOREM PastStaysFrozen == Spec => PastEpochsFrozen
<1> DEFINE Frozen == \A e \in PastEpochs :
                       /\ SupplyAt(e)' = SupplyAt(e)
                       /\ \A a \in Accounts : BalanceAt(e, a)' = BalanceAt(e, a)
                       /\ \A d \in Delegatees : VotesAt(d, e)' = VotesAt(d, e)
<1>1. /\ IInv /\ IInv' /\ SupplyIsSumOfBalances /\ SupplyIsSumOfBalances' /\ [Next]_vars
      => Frozen
  <2> SUFFICES ASSUME IInv, IInv', SupplyIsSumOfBalances, SupplyIsSumOfBalances', [Next]_vars,
                      NEW e \in PastEpochs
               PROVE  /\ SupplyAt(e)' = SupplyAt(e)
                      /\ \A a \in Accounts : BalanceAt(e, a)' = BalanceAt(e, a)
                      /\ \A d \in Delegatees : VotesAt(d, e)' = VotesAt(d, e)
    OBVIOUS
  <2>1. e \in Nat /\ e <= currentEpoch
    BY DEF PastEpochs, KnownEpochs, EpochDates
  <2>2. SupplyAt(e)' = SupplyAt(e)
    BY PastSuppliesStay
  <2>3. \A a \in Accounts : BalanceAt(e, a)' = BalanceAt(e, a)
    BY <2>1, PastBalancesStay
  <2>4. \A d \in Delegatees : VotesAt(d, e)' = VotesAt(d, e)
    BY <2>1, PastVotesOfAllStay
  <2> QED
    BY <2>2, <2>3, <2>4
<1>2. Frozen => [Frozen]_vars
  OBVIOUS
<1> HIDE DEF Frozen
<1>3. Spec => [][Frozen]_vars
  BY <1>1, Invariant, SupplyMatchesBalances, PTL DEF Spec
<1> QED
  BY <1>3 DEF PastEpochsFrozen, Frozen

-----------------------------------------------------------------------------
(* Expired locks can be withdrawn.                                         *)

(* A record holds something: _lock refuses nothing and a record once made  *)
(* is only added to.                                                       *)
RecordsHold ==
  \A a \in Accounts : \A i \in DOMAIN userLocks[a] : userLocks[a][i].amount > 0

(* Every step that adds to a list of locks adds one that ends when new     *)
(* locks do.                                                               *)
LEMMA LockSteps ==
  ASSUME IInv, [Next]_vars
  PROVE  \/ \E a \in Accounts, amount \in Nat \ {0} :
               userLocks' = [userLocks EXCEPT ![a] = AddLock(userLocks[a], amount, UnlockTime)]
         \/ userLocks' = userLocks
<1>1. ASSUME NEW a \in Accounts, NEW amount, NEW ckpts, RecordLock(a, amount, ckpts)
      PROVE  \E n \in Nat \ {0} :
               userLocks' = [userLocks EXCEPT ![a] = AddLock(userLocks[a], n, UnlockTime)]
  <2>1. amount \in Nat \ {0}
    BY <1>1, AmountAssumption DEF RecordLock
  <2>2. userLocks' = [userLocks EXCEPT ![a] = AddLock(userLocks[a], amount, UnlockTime)]
    BY <1>1 DEF RecordLock
  <2> QED
    BY <2>1, <2>2
<1>2. CASE \E a \in Accounts : BookStep(a)
  <2> PICK a \in Accounts : BookStep(a)
    BY <1>2
  <2>1. CASE \E s \in Accounts, amount \in LockAmounts : Lock(s, a, amount)
    <3>1. \E amount : RecordLock(a, amount, checkpointedVotes)
      BY <2>1 DEF Lock
    <3> QED
      BY <1>1, <3>1
  <2>2. CASE RelockExpiredLocks(a)
    <3>1. \E amount : RecordLock(a, amount, CheckpointedDelegatee(a))
      BY <2>2 DEF RelockExpiredLocks
    <3> QED
      BY <1>1, <3>1
  <2>3. CASE \E k \in Accounts, delay \in Nat : Withdraw(a, k, delay)
    BY <2>3 DEF Withdraw
  <2>4. CASE EmergencyWithdraw(a)
    BY <2>4 DEF EmergencyWithdraw
  <2> QED
    BY <2>1, <2>2, <2>3, <2>4, Zenon DEF BookStep
<1> QED
  BY <1>2, BookSteps

(* Every step keeps what the lists of locks record.                        *)
LEMMA StepRecords == IInv /\ RecordsHold /\ [Next]_vars => RecordsHold'
<1> SUFFICES ASSUME IInv, RecordsHold, [Next]_vars PROVE RecordsHold'
  OBVIOUS
<1>1. CASE userLocks' = userLocks
  BY <1>1 DEF RecordsHold
<1>2. CASE \E a \in Accounts, amount \in Nat \ {0} :
             userLocks' = [userLocks EXCEPT ![a] = AddLock(userLocks[a], amount, UnlockTime)]
  <2> PICK a \in Accounts, amount \in Nat \ {0} :
             userLocks' = [userLocks EXCEPT ![a] = AddLock(userLocks[a], amount, UnlockTime)]
    BY <1>2
  <2> DEFINE locks == userLocks[a]
             new == AddLock(locks, amount, UnlockTime)
             k == Len(new)
  <2>1. ClockType /\ BookType /\ locks \in Seq(LockRecords) /\ InOrder(locks) /\ amount \in Nat
    BY InvParts, OrderParts DEF BookInv, BookType
  <2>2. /\ DOMAIN new = DOMAIN locks \cup {k}
        /\ \A i \in DOMAIN locks \ {k} : new[i] = locks[i]
        /\ k \in DOMAIN locks => new[k].amount = amount + locks[k].amount
        /\ k \notin DOMAIN locks => new[k].amount = amount
    BY <2>1, AddLockAdds
  <2>3. userLocks'[a] = new /\ \A x \in Accounts \ {a} : userLocks'[x] = userLocks[x]
    BY <2>1 DEF BookType
  <2>4. \A i \in DOMAIN locks : locks[i].amount > 0 /\ locks[i].amount \in Nat
    <3>1. DOMAIN locks = 1 .. Len(locks)
      BY <2>1, LenProperties
    <3> QED
      BY <2>1, <3>1, RecordTypes DEF RecordsHold
  <2> HIDE DEF new, locks, k
  <2>5. \A i \in DOMAIN new : new[i].amount > 0
    BY <2>2, <2>4
  <2> QED
    BY <2>3, <2>5 DEF RecordsHold
<1> QED
  BY <1>1, <1>2, LockSteps

(* Nothing is recorded after construction.                                 *)
LEMMA InitRecords == Init => RecordsHold
  BY DEF Init, RecordsHold

(* _checkpointDelegate with nothing to add or to take always goes through: *)
(* what it carries over is at most what the last checkpoint had.           *)
LEMMA DelegateeCanCheckpoint ==
  ASSUME IInv, VotesInv, NEW d \in Delegatees
  PROVE  CanCheckpoint(checkpointedVotes[d], delegateeUnlocks[d], 0, 0)
<1> DEFINE ckpts == checkpointedVotes[d]
           unlocks == delegateeUnlocks[d]
           votes == VotesAfter(unlocks, upcomingEpoch)
<1>1. /\ ClockType /\ ckpts \in Seq(Checkpoints) /\ CheckpointsInOrder(ckpts)
      /\ unlocks \in [EpochDates -> Nat] /\ Voted(ckpts, unlocks)
  BY InvParts, OrderParts DEF VoteInv, VoteType, VotesInv
<1> HIDE DEF ckpts, unlocks
<1>2. upcomingEpoch \in Nat
  BY <1>1, Dates DEF ClockType, EpochDates
<1>3. Carried(ckpts, unlocks) = votes
  <2>1. \A t \in EpochDates : t <= upcomingEpoch => unlocks[t] = unlocks[t]
    OBVIOUS
  <2> QED
    BY <1>1, <2>1, CarriedVotes
<1>4. votes \in Nat
  BY <1>1, <1>2, VotesAreNat
<1>5. votes <= MaxUint224
  <2>1. CASE ckpts = <<>>
    <3>1. votes = 0
      BY <1>2, <2>1, <1>1, NoVotesAfter DEF Voted
    <3> QED
      BY <3>1, AmountAssumption
  <2>2. CASE ckpts # <<>>
    <3> DEFINE s == LastOf(ckpts).epochStart
    <3>1. s \in Nat /\ s <= upcomingEpoch
      <4>1. /\ Len(ckpts) \in 1 .. Len(ckpts) /\ DOMAIN ckpts = 1 .. Len(ckpts)
            /\ \A i \in 1 .. Len(ckpts) : ckpts[i] \in Checkpoints
        BY <1>1, <2>2, EmptySeq, LenProperties, ElementOfSeq
      <4> QED
        BY <1>1, <4>1 DEF LastOf, CheckpointsInOrder, Checkpoints, EpochDates
    <3>2. LastOf(ckpts).votes <= MaxUint224 /\ LastOf(ckpts).votes = VotesAfter(unlocks, s)
      BY <1>1, <2>2 DEF Voted
    <3> HIDE DEF s, votes
    <3>3. /\ VotesAfter(unlocks, s) \in Nat
          /\ SumFunctionOnSet(unlocks, {t \in EpochDates : s < t /\ t <= upcomingEpoch}) \in Nat
          /\ VotesAfter(unlocks, s)
               = SumFunctionOnSet(unlocks, {t \in EpochDates : s < t /\ t <= upcomingEpoch}) + votes
      BY <1>1, <1>2, <3>1, VotesSplit DEF votes
    <3> QED
      BY <1>4, <3>2, <3>3, AmountAssumption
  <2> QED
    BY <2>1, <2>2
<1> HIDE DEF votes
<1>6. Carried(ckpts, unlocks) + 0 - 0 \in 0 .. MaxUint224
  BY <1>3, <1>4, <1>5, AmountAssumption
<1> QED
  BY <1>3, <1>4, <1>6 DEF CanCheckpoint, ckpts, unlocks

(* An account whose next record has expired passes every check of          *)
(* _processExpiredLocks.                                                   *)
LEMMA ExpiredCanBeReleased ==
  ASSUME IInv, LocksAccounted, VotesInv, RecordsHold, NEW a \in Accounts,
         balances[a].nextUnlockIndex + 1 <= Len(userLocks[a]),
         userLocks[a][balances[a].nextUnlockIndex + 1].unlockTime <= now
  PROVE  CanRelease(a, FALSE, 0)
<1> DEFINE locks == userLocks[a]
           n == Len(locks)
           done == balances[a].nextUnlockIndex
           first == done + 1
           r == Release(a, FALSE, 0)
           expiry == ExpiryTime(FALSE, 0)
           all == isShutdown \/ LastOf(locks).unlockTime <= expiry
<1>1. /\ ClockType /\ BookType /\ locks \in Seq(LockRecords) /\ done \in Nat
      /\ balances[a].locked \in Nat /\ n \in Nat /\ DOMAIN locks = 1 .. n /\ now \in Nat
      /\ vault = lockedSupply /\ done + 1 <= n
  BY InvParts, LenProperties, Durations
     DEF BookInv, BookType, ClockType, TokenInv, VaultHoldsSupply
<1>2. balances[a].locked = AmountOf(locks, first .. n)
  BY DEF LocksAccounted
<1>3. locks # <<>> /\ first \in 1 .. n
  BY <1>1
<1>4. locks[first].amount > 0 /\ locks[first].amount \in Nat
  BY <1>1, <1>3, RecordTypes DEF RecordsHold
<1>5. ASSUME NEW I \in SUBSET (DOMAIN locks), first \in I, I \subseteq first .. n
      PROVE  AmountOf(locks, I) \in 1 .. balances[a].locked
  <2> DEFINE amounts == [i \in DOMAIN locks |-> locks[i].amount]
             open == first .. n
  <2>1. open \in SUBSET (DOMAIN locks)
    BY <1>1
  <2>2. AmountOf(locks, I) \in Nat /\ IsFiniteSet(I) /\ IsFiniteSet(open)
    BY <1>1, <2>1, AmountIsNat
  <2>3. (\A i \in open : amounts[i] \in Nat) /\ amounts[first] = locks[first].amount
    BY <1>1, <1>3, RecordTypes
  <2>4. I \in SUBSET open /\ first \in I
    BY <1>5
  <2> HIDE DEF amounts, open, first
  <2>5. \A i \in I : amounts[i] \in Nat
    BY <2>3, <2>4
  <2>6. amounts[first] <= SumFunctionOnSet(amounts, I)
    BY <2>2, <2>4, <2>5, SumCoversEach
  <2>7. SumFunctionOnSet(amounts, I) <= SumFunctionOnSet(amounts, open)
    BY <2>2, <2>3, <2>4, SumOfPart
  <2>8. AmountOf(locks, I) = SumFunctionOnSet(amounts, I)
    BY DEF AmountOf, amounts
  <2>9. balances[a].locked = SumFunctionOnSet(amounts, open)
    BY <1>2 DEF AmountOf, amounts, open, first
  <2> HIDE DEF locks
  <2>10. AmountOf(locks, I) >= 1 /\ AmountOf(locks, I) <= balances[a].locked
    BY <1>4, <2>2, <2>3, <2>6, <2>7, <2>8, <2>9
  <2> QED
    BY <1>1, <2>2, <2>10
<1>6. expiry = now
  BY <1>1 DEF ExpiryTime
<1>7. r.amount \in 1 .. balances[a].locked
  <2>1. CASE all
    <3>1. r.amount = balances[a].locked
      BY <2>1 DEF Release
    <3>2. first .. n \in SUBSET (DOMAIN locks) /\ first \in first .. n
      BY <1>1, <1>3
    <3>3. AmountOf(locks, first .. n) \in 1 .. balances[a].locked
      BY <1>5, <3>2
    <3> QED
      BY <1>2, <3>1, <3>3
  <2>2. CASE ~all
    <3> DEFINE last == LastExpired(locks, (done + 1) - 1, expiry)
    <3>1. r.amount = AmountOf(locks, first .. last)
      BY <2>2 DEF Release
    <3>2. (done + 1) - 1 = done
      BY <1>1
    <3>3. /\ last \in done .. n
          /\ last < n => locks[last + 1].unlockTime > expiry
      <4>1. locks \in Seq(LockRecords) /\ done \in Nat /\ done <= Len(locks) /\ expiry \in Int
        <5>1. now \in Int /\ n \in Nat /\ done \in Nat /\ done + 1 <= n /\ locks \in Seq(LockRecords)
          BY <1>1
        <5>2. expiry \in Int
          BY <1>6, <5>1
        <5> HIDE DEF expiry, done
        <5> QED
          BY <5>1, <5>2
      <4>2. last = LastExpired(locks, done, expiry)
        BY <3>2
      <4> HIDE DEF locks, done, expiry, last
      <4>3. LET k == LastExpired(locks, done, expiry)
            IN  k \in done .. Len(locks) /\ (k < Len(locks) => locks[k + 1].unlockTime > expiry)
        BY <4>1, ScanStops
      <4> QED
        BY <4>2, <4>3
    <3>4. last # done
      <4>1. locks[done + 1].unlockTime \in Nat /\ locks[done + 1].unlockTime <= now
        BY <1>1, <1>3, RecordTypes
      <4> HIDE DEF last, locks, done, expiry
      <4> SUFFICES ASSUME last = done PROVE FALSE
        OBVIOUS
      <4>2. done < n
        BY <1>1
      <4> HIDE DEF n
      <4>3. locks[done + 1].unlockTime > now
        BY <1>6, <3>3, <4>2
      <4> QED
        BY <1>1, <4>1, <4>3
    <3> HIDE DEF last
    <3>5. first .. last \in SUBSET (DOMAIN locks) /\ first \in first .. last
          /\ first .. last \subseteq first .. n
      BY <1>1, <3>3, <3>4
    <3>6. AmountOf(locks, first .. last) \in 1 .. balances[a].locked
      BY <1>5, <3>5
    <3> QED
      BY <3>1, <3>6
  <2> QED
    BY <2>1, <2>2
<1>8. r.reward = 0 /\ ~r.reverts
  <2> DEFINE whole == KickShare(r.amount, LastOf(locks).unlockTime, 0)
             share == [i \in DOMAIN locks |-> KickShare(locks[i].amount, locks[i].unlockTime, 0)]
             sum(last) == SumFunctionOnSet(share, first .. last)
  <2>1. r.reward = CASE 0 = 0 -> 0 [] 0 > 0 /\ all -> whole [] OTHER -> sum(r.last)
    BY DEF Release
  <2>2. r.reverts = (0 > 0 /\ all /\ EpochStart(now - 0) < LastOf(locks).unlockTime)
    BY DEF Release
  <2>3. ~(0 > 0)
    OBVIOUS
  <2> HIDE DEF r, whole, sum, all
  <2>4. r.reward = 0
    BY <2>1, <2>3
  <2> QED
    BY <2>2, <2>3, <2>4
<1>9. balances[a].locked <= lockedSupply /\ lockedSupply \in Nat
  <2> DEFINE held == [x \in Accounts |-> balances[x].locked]
  <2>1. lockedSupply = SumFunctionOnSet(held, Accounts) /\ IsFiniteSet(Accounts)
    BY AddressAssumption DEF LocksAccounted
  <2>2. (\A x \in Accounts : held[x] \in Nat) /\ held[a] = balances[a].locked
    BY <1>1 DEF BookType
  <2> HIDE DEF held
  <2>3. held[a] <= SumFunctionOnSet(held, Accounts) /\ SumFunctionOnSet(held, Accounts) \in Nat
    BY <2>1, <2>2, SumCoversEach, SumIsNat
  <2> QED
    BY <2>1, <2>2, <2>3
<1>10. delegates[a] # NoOne =>
         CanCheckpoint(checkpointedVotes[delegates[a]], delegateeUnlocks[delegates[a]], 0, 0)
  <2>1. delegates[a] \in Delegatees \cup {NoOne}
    BY InvParts DEF VoteInv, VoteType
  <2> QED
    BY <2>1, DelegateeCanCheckpoint
<1> HIDE DEF r
<1>11. /\ ~r.reverts
       /\ r.amount \in 1 .. balances[a].locked
       /\ r.reward \in 0 .. r.amount
       /\ r.amount <= lockedSupply
       /\ r.amount <= vault
  BY <1>1, <1>7, <1>8, <1>9
<1>12. userLocks[a] # <<>> /\ 0 <= now
  BY <1>1, <1>3
<1> QED
  BY <1>10, <1>11, <1>12, Zenon DEF CanRelease, r

(* A withdrawal never reverts: when the next record of an account has      *)
(* expired, none of the checked subtractions of _processExpiredLocks and   *)
(* of the checkpoint of its delegatee underflows, whoever delegated to     *)
(* whom and whenever.                                                      *)
THEOREM WithdrawalsGoThrough == Spec => []ExpiredLocksCanBeWithdrawn
<1> USE DEF Spec
<1>1. Init => VotesInv /\ RecordsHold
  BY InitVotes, InitRecords
<1>2. IInv /\ VotesInv /\ RecordsHold /\ [Next]_vars => VotesInv' /\ RecordsHold'
  BY StepVotes, StepRecords
<1>3. IInv /\ LocksAccounted /\ VotesInv /\ RecordsHold => ExpiredLocksCanBeWithdrawn
  BY ExpiredCanBeReleased DEF ExpiredLocksCanBeWithdrawn
<1> QED
  BY <1>1, <1>2, <1>3, Invariant, LocksStayAccounted, PTL

-----------------------------------------------------------------------------
(* Nothing leaves early.                                                   *)

(* setKickIncentive never goes below the grace period.                     *)
KicksAreLate == kickRewardEpochDelay >= minKickDelay

(* Every step keeps the delay of kicks at its least or above.              *)
LEMMA StepKicks == IInv /\ KicksAreLate /\ [Next]_vars => KicksAreLate'
<1> SUFFICES ASSUME KicksAreLate, [Next]_vars PROVE KicksAreLate'
  OBVIOUS
<1>1. CASE OwnerStep
  BY <1>1 DEF OwnerStep, ModifyBlacklist, SetKickIncentive, Shutdown, KicksAreLate
<1>2. CASE UserStep \/ RewardStep \/ CheckpointEpoch \/ Tick \/ UNCHANGED vars
  <2>1. kickRewardEpochDelay' = kickRewardEpochDelay
    BY <1>2 DEF UserStep, RewardStep, Lock, ProcessExpiredLocks, KickExpiredLocks, Withdraw,
       RelockExpiredLocks, EmergencyWithdraw, Delegate, GetReward, QueueNewRewards, AddReward,
       ApproveRewardDistributor, CheckpointEpoch, Tick, configVars, vars
  <2> QED
    BY <2>1 DEF KicksAreLate
<1> QED
  BY <1>1, <1>2 DEF Next

(* The delay after construction is not too short.                          *)
LEMMA InitKicks == Init => KicksAreLate
  BY KickAssumption DEF Init, KicksAreLate

(* Fewer records hold no more.                                             *)
LEMMA AmountOfPart ==
  ASSUME NEW locks \in Seq(LockRecords), NEW J \in SUBSET (DOMAIN locks), NEW I \in SUBSET J
  PROVE  AmountOf(locks, I) <= AmountOf(locks, J)
<1> DEFINE amounts == [i \in DOMAIN locks |-> locks[i].amount]
<1>1. IsFiniteSet(J)
  BY AmountIsNat
<1>2. \A i \in J : amounts[i] \in Nat
  <2>1. DOMAIN locks = 1 .. Len(locks)
    BY LenProperties
  <2> QED
    BY <2>1, RecordTypes
<1> HIDE DEF amounts
<1>3. SumFunctionOnSet(amounts, I) <= SumFunctionOnSet(amounts, J)
  BY <1>1, <1>2, SumOfPart
<1> QED
  BY <1>3 DEF AmountOf, amounts

(* The open records of an account that have expired by a time.             *)
ExpiredRecords(a, time) ==
  {i \in (balances[a].nextUnlockIndex + 1) .. Len(userLocks[a]) : userLocks[a][i].unlockTime <= time}

(* What has expired by a time has expired later too.                       *)
LEMMA ExpiredAmountGrows ==
  ASSUME BookType, LocksSorted, NEW a \in Accounts, NEW s \in Int, NEW t \in Int, s <= t
  PROVE  /\ ExpiredAmount(a, s) <= ExpiredAmount(a, t)
         /\ ExpiredAmount(a, s) \in Nat /\ ExpiredAmount(a, t) \in Nat
<1> DEFINE locks == userLocks[a]
           I == ExpiredRecords(a, s)
           J == ExpiredRecords(a, t)
<1>1. /\ locks \in Seq(LockRecords) /\ balances[a].nextUnlockIndex \in Nat
      /\ Len(locks) \in Nat /\ DOMAIN locks = 1 .. Len(locks)
  BY LenProperties DEF BookType
<1>2. \A i \in DOMAIN locks : locks[i].unlockTime \in Nat
  BY <1>1, RecordTypes
<1>3. I \in SUBSET (DOMAIN locks) /\ J \in SUBSET (DOMAIN locks)
  BY <1>1 DEF ExpiredRecords
<1>4. I \in SUBSET J
  BY <1>1, <1>2, <1>3 DEF ExpiredRecords
<1> HIDE DEF I, J
<1>5. /\ AmountOf(locks, I) <= AmountOf(locks, J)
      /\ AmountOf(locks, I) \in Nat /\ AmountOf(locks, J) \in Nat
  BY <1>1, <1>3, <1>4, AmountOfPart, AmountIsNat
<1> QED
  BY <1>5 DEF ExpiredAmount, ExpiredRecords, I, J

(* What _processExpiredLocks pays out had expired, for as long as the      *)
(* caller has to wait.                                                     *)
LEMMA OnlyExpiredLeave ==
  ASSUME ClockType, BookType, LocksSorted, NEW a \in Accounts, NEW delay \in Nat, ~isShutdown,
         CanRelease(a, FALSE, delay),
         balances[a].locked =
           AmountOf(userLocks[a], (balances[a].nextUnlockIndex + 1) .. Len(userLocks[a]))
  PROVE  Release(a, FALSE, delay).amount <= ExpiredAmount(a, now - delay)
<1> DEFINE locks == userLocks[a]
           n == Len(locks)
           done == balances[a].nextUnlockIndex
           expiry == ExpiryTime(FALSE, delay)
           all == isShutdown \/ LastOf(locks).unlockTime <= expiry
           E == ExpiredRecords(a, now - delay)
<1>1. /\ locks \in Seq(LockRecords) /\ done \in Nat /\ n \in Nat /\ DOMAIN locks = 1 .. n
      /\ done <= n /\ locks # <<>> /\ now \in Nat
  BY LenProperties, Durations DEF BookType, LocksSorted, CanRelease, ClockType
<1>2. /\ \A i \in 1 .. n : locks[i].unlockTime \in Nat
      /\ \A i, j \in 1 .. n : i < j => locks[i].unlockTime < locks[j].unlockTime
  BY <1>1, RecordTypes DEF LocksSorted
<1>3. expiry = now - delay /\ expiry \in Int
  BY <1>1 DEF ExpiryTime
<1>4. E = {i \in (done + 1) .. n : locks[i].unlockTime <= expiry}
  BY <1>3 DEF ExpiredRecords
<1>5. E \in SUBSET (DOMAIN locks)
  <2> HIDE DEF E, locks, done, expiry
  <2> QED
    BY <1>1, <1>4
<1>6. ASSUME NEW T, T \subseteq E PROVE AmountOf(locks, T) <= ExpiredAmount(a, now - delay)
  <2>1. ExpiredAmount(a, now - delay) = AmountOf(locks, E)
    BY DEF ExpiredAmount, ExpiredRecords
  <2> HIDE DEF E
  <2> QED
    BY <1>1, <1>5, <1>6, <2>1, AmountOfPart
<1>7. CASE all
  <2>1. Release(a, FALSE, delay).amount = balances[a].locked
    BY <1>7 DEF Release
  <2>2. locks[n].unlockTime <= expiry
    BY <1>7 DEF LastOf
  <2>3. (done + 1) .. n \subseteq E
    <3> SUFFICES ASSUME NEW i \in (done + 1) .. n PROVE i \in E
      OBVIOUS
    <3>1. i \in 1 .. n /\ n \in 1 .. n
      BY <1>1
    <3>2. i < n => locks[i].unlockTime < locks[n].unlockTime
      BY <1>2, <3>1
    <3>3. locks[i].unlockTime \in Nat /\ locks[n].unlockTime \in Nat
      BY <1>2, <3>1
    <3> HIDE DEF E, locks, expiry, done
    <3>4. locks[i].unlockTime <= expiry
      BY <1>1, <1>3, <2>2, <3>1, <3>2, <3>3
    <3> QED
      BY <1>4, <3>4
  <2> HIDE DEF E
  <2>4. AmountOf(locks, (done + 1) .. n) <= ExpiredAmount(a, now - delay)
    BY <1>6, <2>3
  <2> QED
    BY <2>1, <2>4
<1>8. CASE ~all
  <2> DEFINE last == LastExpired(locks, done, expiry)
  <2>1. (done + 1) - 1 = done
    BY <1>1
  <2>2. Release(a, FALSE, delay).amount = AmountOf(locks, (done + 1) .. last)
    BY <1>8, <2>1 DEF Release
  <2> HIDE DEF locks, done, expiry
  <2>3. last \in done .. Len(locks) /\ \A i \in (done + 1) .. last : locks[i].unlockTime <= expiry
    BY <1>1, <1>3, ScanStops
  <2> HIDE DEF last, E
  <2>4. (done + 1) .. last \subseteq E
    BY <1>1, <1>4, <2>3
  <2> QED
    BY <1>6, <2>2, <2>4
<1> QED
  BY <1>7, <1>8

(* Only a withdrawal, by the owner or by a keeper who waits, takes from an *)
(* account before shutdown.                                                *)
LEMMA OnlyWithdrawalsTake ==
  ASSUME IInv, [Next]_vars, NEW a \in Accounts, ~isShutdown, balances'[a].locked < balances[a].locked
  PROVE  \/ Withdraw(a, a, 0)
         \/ \E k \in Accounts : Withdraw(a, k, rewardsDuration * kickRewardEpochDelay)
<1>1. BookType /\ balances[a].locked \in Nat
  BY InvParts DEF BookInv, BookType
<1>2. balances' # balances
  BY <1>1
<1>3. ASSUME NEW x \in Accounts, x # a, NEW k \in Accounts, NEW delay, Withdraw(x, k, delay)
      PROVE  FALSE
  <2>1. balances'[a] = balances[a]
    BY <1>1, <1>3 DEF Withdraw, BookType
  <2> QED
    BY <1>1, <2>1
<1>4. CASE UserStep
  <2> PICK x \in Accounts :
        \/ \E s \in Accounts, amount \in LockAmounts : Lock(s, x, amount)
        \/ ProcessExpiredLocks(x)
        \/ RelockExpiredLocks(x)
        \/ \E k \in Accounts : KickExpiredLocks(k, x)
        \/ EmergencyWithdraw(x)
        \/ \E d \in Delegatees : Delegate(x, d)
        \/ \E skipped \in SUBSET rewardTokens : GetReward(x, skipped)
    BY <1>4 DEF UserStep
  <2>1. ASSUME NEW s \in Accounts, NEW amount \in LockAmounts, Lock(s, x, amount) PROVE FALSE
    <3>1. balances' = [balances EXCEPT ![x].locked = @ + amount] /\ amount \in Nat
      BY <2>1, AmountAssumption DEF Lock
    <3>2. balances'[a].locked = balances[a].locked \/ balances'[a].locked = balances[a].locked + amount
      BY <1>1, <3>1 DEF BookType
    <3> QED
      BY <1>1, <3>1, <3>2
  <2>2. ~RelockExpiredLocks(x)
    <3> SUFFICES ASSUME RelockExpiredLocks(x) PROVE FALSE
      OBVIOUS
    <3>1. \E last : balances' = [balances EXCEPT ![x].nextUnlockIndex = last]
      BY DEF RelockExpiredLocks
    <3>2. balances'[a].locked = balances[a].locked
      BY <1>1, <3>1 DEF BookType
    <3> QED
      BY <1>1, <3>2
  <2>3. ~EmergencyWithdraw(x)
    BY DEF EmergencyWithdraw
  <2>4. CASE (\E d \in Delegatees : Delegate(x, d)) \/ \E k \in SUBSET rewardTokens : GetReward(x, k)
    BY <1>2, <2>4 DEF Delegate, GetReward, lockVars
  <2>5. CASE ProcessExpiredLocks(x)
    BY <1>3, <2>5 DEF ProcessExpiredLocks
  <2>6. CASE \E k \in Accounts : KickExpiredLocks(k, x)
    BY <1>3, <2>6 DEF KickExpiredLocks
  <2> QED
    BY <2>1, <2>2, <2>3, <2>4, <2>5, <2>6, Zenon
<1>5. CASE RewardStep \/ OwnerStep \/ CheckpointEpoch \/ Tick \/ UNCHANGED vars
  <2>1. balances' = balances
    BY <1>5 DEF RewardStep, QueueNewRewards, AddReward, ApproveRewardDistributor, OwnerStep,
       ModifyBlacklist, SetKickIncentive, Shutdown, CheckpointEpoch, Tick, lockVars, vars
  <2> QED
    BY <1>2, <2>1
<1> QED
  BY <1>4, <1>5 DEF Next

(* What a withdrawal pays to others than the account.                      *)
LEMMA KeeperIsPaid ==
  ASSUME IInv, NEW a \in Accounts, NEW k \in Accounts, NEW delay \in Nat, Withdraw(a, k, delay)
  PROVE  SumFunctionOnSet([x \in Accounts |-> wallet'[x] - wallet[x]], Accounts \ {a})
           = IF k = a THEN 0 ELSE Release(a, FALSE, delay).reward
<1> DEFINE r == Release(a, FALSE, delay)
           gain == [x \in Accounts |-> wallet'[x] - wallet[x]]
           others == Accounts \ {a}
<1>1. /\ ClockType /\ BookType /\ LocksSorted /\ wallet \in [Accounts -> Nat]
      /\ CanRelease(a, FALSE, delay)
      /\ wallet' = [wallet EXCEPT ![k] = @ + r.reward, ![a] = @ + r.amount - r.reward]
  BY InvParts DEF BookInv, TokenInv, TokenType, Withdraw
<1>2. r.reward \in Nat
  BY <1>1, ReleaseFacts
<1> HIDE DEF r
<1>3. \A x \in others \ {k} : gain[x] = 0
  BY <1>1
<1>4. k # a => gain[k] = r.reward
  BY <1>1, <1>2
<1>5. IsFiniteSet(others)
  BY AddressAssumption, FS_RemoveElement
<1> HIDE DEF gain
<1>6. CASE k = a
  <2>1. \A x \in others : gain[x] = 0
    BY <1>3, <1>6
  <2> HIDE DEF others
  <2>2. SumFunctionOnSet(gain, others) = 0
    BY <1>5, <2>1, SumOfZeros
  <2> QED
    BY <1>6, <2>2 DEF gain, others
<1>7. CASE k # a
  <2>1. k \in others /\ gain[k] = r.reward
    BY <1>4, <1>7
  <2>2. \A x \in others : gain[x] \in Int
    BY <1>2, <1>3, <2>1
  <2> HIDE DEF others
  <2>3. SumFunctionOnSet(gain, others) = gain[k] + SumFunctionOnSet(gain, others \ {k})
    BY <1>5, <2>1, <2>2, SumRemove
  <2>4. IsFiniteSet(others \ {k})
    BY <1>5, FS_RemoveElement
  <2>5. SumFunctionOnSet(gain, others \ {k}) = 0
    BY <1>3, <2>4, SumOfZeros
  <2>6. SumFunctionOnSet(gain, others) = r.reward
    BY <1>2, <2>1, <2>3, <2>5
  <2> QED
    BY <1>7, <2>6 DEF gain, others, r
<1> QED
  BY <1>6, <1>7

(* What a withdrawal pays out had expired, and a keeper is paid out of it. *)
LEMMA WithdrawalIsDue ==
  ASSUME IInv, LocksAccounted, NEW a \in Accounts, NEW k \in Accounts, NEW delay \in Nat,
         ~isShutdown, Withdraw(a, k, delay)
  PROVE  LET out == balances[a].locked - balances'[a].locked
         IN  out \in Nat /\ out <= ExpiredAmount(a, now - delay) /\ Release(a, FALSE, delay).reward <= out
<1> DEFINE r == Release(a, FALSE, delay)
<1>1. /\ ClockType /\ BookType /\ LocksSorted /\ balances[a].locked \in Nat
      /\ CanRelease(a, FALSE, delay)
      /\ balances' = [balances EXCEPT ![a] =
                        [locked |-> @.locked - r.amount, nextUnlockIndex |-> r.last]]
  BY InvParts DEF BookInv, BookType, Withdraw
<1>2. /\ r.amount \in Nat /\ r.reward \in Nat /\ r.reward <= r.amount
      /\ r.amount <= balances[a].locked
  BY <1>1, ReleaseFacts
<1>3. r.amount <= ExpiredAmount(a, now - delay)
  <2>1. balances[a].locked =
          AmountOf(userLocks[a], (balances[a].nextUnlockIndex + 1) .. Len(userLocks[a]))
    BY DEF LocksAccounted
  <2> QED
    BY <1>1, <2>1, OnlyExpiredLeave
<1> HIDE DEF r
<1>4. balances'[a].locked = balances[a].locked - r.amount
  BY <1>1 DEF BookType
<1>5. balances[a].locked - balances'[a].locked = r.amount
  BY <1>1, <1>2, <1>4
<1> QED
  BY <1>2, <1>3, <1>5 DEF r

(* And so for every step that reduces a balance before shutdown.           *)
LEMMA ExitsAreDue ==
  ASSUME IInv, LocksAccounted, KicksAreLate, [Next]_vars, NEW a \in Accounts, ~isShutdown,
         balances[a].locked - balances'[a].locked > 0
  PROVE  LET out == balances[a].locked - balances'[a].locked
             keeperShare == SumFunctionOnSet([k \in Accounts |-> wallet'[k] - wallet[k]], Accounts \ {a})
         IN  /\ out <= ExpiredAmount(a, now)
             /\ keeperShare > 0 =>
                  /\ out <= ExpiredAmount(a, now - minKickDelay * rewardsDuration)
                  /\ keeperShare <= out
<1> DEFINE out == balances[a].locked - balances'[a].locked
           share == SumFunctionOnSet([k \in Accounts |-> wallet'[k] - wallet[k]], Accounts \ {a})
           kick == rewardsDuration * kickRewardEpochDelay
           grace == minKickDelay * rewardsDuration
<1>1. /\ ClockType /\ BookType /\ LocksSorted /\ now \in Nat /\ balances[a].locked \in Nat
      /\ kickRewardEpochDelay \in Nat /\ balances'[a].locked < balances[a].locked
  <2>1. /\ ClockType /\ BookType /\ LocksSorted /\ now \in Nat /\ balances[a].locked \in Nat
        /\ kickRewardEpochDelay \in Nat
    BY InvParts, Durations DEF BookInv, BookType, ConfigType, ClockType
  <2>2. IInv'
    BY StepInv
  <2>3. balances'[a].locked \in Nat
    BY <2>2 DEF IInv, TypeOK
  <2> QED
    BY <2>1, <2>3
<1>2. kick \in Nat /\ grace \in Nat /\ grace <= kick
  <2>1. rewardsDuration \in Nat /\ minKickDelay = 2 /\ 2 <= kickRewardEpochDelay
    BY Durations DEF minKickDelay, KicksAreLate
  <2>2. kick \in Nat
    BY <1>1, <2>1, ProductIsNat
  <2>3. kick = kickRewardEpochDelay * rewardsDuration
    BY <1>1, <2>1
  <2>4. 2 * rewardsDuration <= kickRewardEpochDelay * rewardsDuration
    BY <1>1, <2>1, ProductIsMonotone
  <2> QED
    BY <2>1, <2>2, <2>3, <2>4
<1> HIDE DEF kick, grace
<1>3. ASSUME NEW k \in Accounts, NEW delay \in Nat, Withdraw(a, k, delay)
      PROVE  /\ out \in Nat /\ out <= ExpiredAmount(a, now - delay)
             /\ share = IF k = a THEN 0 ELSE Release(a, FALSE, delay).reward
             /\ Release(a, FALSE, delay).reward <= out
  BY <1>3, WithdrawalIsDue, KeeperIsPaid
<1>4. CASE Withdraw(a, a, 0)
  <2>1. /\ out <= ExpiredAmount(a, now - 0) /\ share = 0
    BY <1>3, <1>4
  <2>2. now - 0 = now
    BY <1>1
  <2>3. ~(share > 0)
    BY <2>1
  <2>4. out <= ExpiredAmount(a, now)
    BY <2>1, <2>2
  <2> HIDE DEF out, share
  <2> QED
    BY <2>3, <2>4 DEF out, share
<1>5. CASE \E k \in Accounts : Withdraw(a, k, kick)
  <2> PICK k \in Accounts : Withdraw(a, k, kick)
    BY <1>5
  <2>1. /\ out \in Nat /\ out <= ExpiredAmount(a, now - kick)
        /\ share = IF k = a THEN 0 ELSE Release(a, FALSE, kick).reward
        /\ Release(a, FALSE, kick).reward <= out
    BY <1>2, <1>3
  <2> HIDE DEF out, share
  <2>2. /\ now - kick \in Int /\ now - grace \in Int /\ now \in Int
        /\ now - kick <= now - grace /\ now - kick <= now
    BY <1>1, <1>2
  <2>3. /\ ExpiredAmount(a, now - kick) <= ExpiredAmount(a, now - grace)
        /\ ExpiredAmount(a, now - kick) \in Nat /\ ExpiredAmount(a, now - grace) \in Nat
    BY <1>1, <2>2, ExpiredAmountGrows
  <2>4. ExpiredAmount(a, now - kick) <= ExpiredAmount(a, now) /\ ExpiredAmount(a, now) \in Nat
    BY <1>1, <2>2, ExpiredAmountGrows
  <2>5. out <= ExpiredAmount(a, now) /\ out <= ExpiredAmount(a, now - grace)
    BY <2>1, <2>3, <2>4
  <2>6. share > 0 => share <= out
    <3>1. CASE k = a
      <4>1. share = 0
        BY <2>1, <3>1
      <4> QED
        BY <4>1
    <3>2. CASE k # a
      <4>1. share = Release(a, FALSE, kick).reward
        BY <2>1, <3>2
      <4>2. share <= out
        BY <2>1, <4>1, Zenon
      <4> QED
        BY <4>2
    <3> QED
      BY <3>1, <3>2
  <2> QED
    BY <2>5, <2>6 DEF out, share, grace
<1> QED
  BY <1>1, <1>4, <1>5, OnlyWithdrawalsTake DEF kick

(* Before shutdown a lock leaves the locker only after it has expired, and *)
(* whatever setKickIncentive is set to nobody else is paid for processing  *)
(* it before it has been expired for the least grace period, nor more than *)
(* what was processed.                                                     *)
THEOREM NothingLeavesEarly == Spec => NoEarlyExit
<1> DEFINE Due ==
      \A a \in Accounts :
        LET out == balances[a].locked - balances[a].locked'
            keeperShare == SumFunctionOnSet([k \in Accounts |-> wallet'[k] - wallet[k]], Accounts \ {a})
        IN  (~isShutdown /\ out > 0) =>
              /\ out <= ExpiredAmount(a, now)
              /\ keeperShare > 0 =>
                   /\ out <= ExpiredAmount(a, now - minKickDelay * rewardsDuration)
                   /\ keeperShare <= out
<1>1. IInv /\ LocksAccounted /\ KicksAreLate /\ [Next]_vars => Due
  BY ExitsAreDue
<1>2. Init => KicksAreLate
  BY InitKicks
<1>3. IInv /\ KicksAreLate /\ [Next]_vars => KicksAreLate'
  BY StepKicks
<1> HIDE DEF Due
<1>4. Spec => [][Due]_vars
  BY <1>1, <1>2, <1>3, Invariant, LocksStayAccounted, PTL DEF Spec
<1> QED
  BY <1>4 DEF NoEarlyExit, Due
=============================================================================
