------------------------- MODULE AuraBalRewardPool -------------------------
(***************************************************************************)
(* rewards/AuraBalRewardPool.sol: stakers of auraBAL share one stream of   *)
(* the AURA the pool holds when the stream is started, once; a staker      *)
(* locks what it earned or takes it less a penalty.                        *)
(***************************************************************************)
EXTENDS AuraPayout

CONSTANTS
  Pools,               \* AuraBalRewardPools
  PoolFunds,           \* bound: AURA a pool is sent at a time
  poolDelay,           \* _startDelay of the constructor
  duration,            \* 14 days
  Precision,           \* 1e18
  StakeAmounts,        \* bound: stakes and withdrawals
  InitialStaking       \* account -> its auraBAL

ASSUME PoolAssumption ==
  /\ Pools \subseteq Releasers
  /\ PoolFunds \subseteq Nat /\ poolDelay \in Nat
  /\ duration \in Nat \ {0} /\ Precision \in Nat \ {0}
  /\ StakeAmounts \subseteq Nat /\ InitialStaking \in [Accounts -> Nat]

VARIABLES
  pool,                \* pool -> its stream and supply
  staker               \* pool -> account -> its stake and rewards

poolVars == <<pool, staker>>

poolStart == poolDelay

-----------------------------------------------------------------------------
(* The stream.                                                             *)
LastTimeRewardApplicable(p) == Least(now, pool[p].periodFinish)

RewardPerToken(p) ==
  IF pool[p].totalSupply = 0 THEN pool[p].rewardPerTokenStored
  ELSE pool[p].rewardPerTokenStored
       + ((LastTimeRewardApplicable(p) - pool[p].lastUpdateTime) * pool[p].rewardRate * Precision)
           \div pool[p].totalSupply

Earned(p, a) ==
  (staker[p][a].balance * (RewardPerToken(p) - staker[p][a].paid)) \div Precision + staker[p][a].rewards

(* updateReward(account), as the records that the handler goes on from.    *)
PoolUpdated(p) ==
  [pool[p] EXCEPT !.rewardPerTokenStored = RewardPerToken(p),
                  !.lastUpdateTime = LastTimeRewardApplicable(p)]

StakerUpdated(p, a) ==
  [staker[p][a] EXCEPT !.rewards = Earned(p, a), !.paid = RewardPerToken(p)]

-----------------------------------------------------------------------------
(* The deployment's transfer, or a later one.                              *)
FundPool(p, amount) ==
  /\ Transfer(deployer, p, amount)
  /\ UNCHANGED <<tokenRest, payoutVars, poolVars>>

(* stake, stakeAll and stakeFor: the supply is that of before in           *)
(* updateReward, and the auraBAL is the sender's.                          *)
Stake(p, sender, a, amount) ==
  /\ 0 < amount /\ amount <= staker[p][sender].wallet
  /\ pool' = [pool EXCEPT ![p] = [PoolUpdated(p) EXCEPT !.totalSupply = @ + amount]]
  /\ staker' = [staker EXCEPT
       ![p][a] = [StakerUpdated(p, a) EXCEPT !.balance = @ + amount],
       ![p][sender].wallet = @ - amount]
  /\ UNCHANGED <<tokenVars, payoutVars>>

Withdraw(p, a, amount) ==
  /\ 0 < amount /\ amount <= staker[p][a].balance
  /\ pool' = [pool EXCEPT ![p] = [PoolUpdated(p) EXCEPT !.totalSupply = @ - amount]]
  /\ staker' = [staker EXCEPT ![p][a] =
       [StakerUpdated(p, a) EXCEPT !.balance = @ - amount, !.wallet = @ + amount]]
  /\ UNCHANGED <<tokenVars, payoutVars>>

(* withdraw with a claim: its getReward updates again, finds the same and  *)
(* has nothing to do if that is zero.                                      *)
WithdrawAndClaim(p, a, amount, lock) ==
  LET reward == Earned(p, a)
  IN  /\ 0 < reward
      /\ 0 < amount /\ amount <= staker[p][a].balance
      /\ pool' = [pool EXCEPT ![p] = [PoolUpdated(p) EXCEPT !.totalSupply = @ - amount]]
      /\ staker' = [staker EXCEPT ![p][a] =
           [StakerUpdated(p, a) EXCEPT !.balance = @ - amount, !.wallet = @ + amount, !.rewards = 0]]
      /\ PayOrLock(p, a, reward, lock, PenaltyOf(reward))
      /\ UNCHANGED <<tokenRest, auraLocker, shutLockers, admin>>

(* getReward.  With nothing earned only the update is left of it.          *)
GetReward(p, a, lock) ==
  LET reward == Earned(p, a)
  IN  /\ pool' = [pool EXCEPT ![p] = PoolUpdated(p)]
      /\ staker' = [staker EXCEPT ![p][a] = [StakerUpdated(p, a) EXCEPT !.rewards = 0]]
      /\ \/ 0 < reward /\ PayOrLock(p, a, reward, lock, PenaltyOf(reward))
         \/ reward = 0 /\ UNCHANGED <<aura, pendingPenalty>>
      /\ UNCHANGED <<tokenRest, auraLocker, shutLockers, admin>>

ForwardPoolPenalty(p) ==
  /\ ForwardPenalty(p)
  /\ UNCHANGED poolVars

-----------------------------------------------------------------------------
(* rescueReward by the manager.                                            *)
RescueReward(p) ==
  /\ now < poolStart /\ pool[p].rewardRate = 0
  /\ Transfer(p, admin[p], aura[p])
  /\ UNCHANGED <<tokenRest, payoutVars, poolVars>>

(* Mutant: the rewards can be started again.                               *)
InitialiseRewards_Again(p, caller) ==
  /\ caller = admin[p] \/ now > poolStart
  /\ 0 < aura[p]
  /\ pool' = [pool EXCEPT ![p] = [@ EXCEPT !.rewardRate = aura[p] \div duration,
                                           !.lastUpdateTime = now,
                                           !.periodFinish = now + duration]]
  /\ UNCHANGED <<tokenVars, payoutVars, staker>>

(* initialiseRewards, by the manager or, after the start, by anybody.      *)
(* Nothing is accrued first: the rate was zero until now.                  *)
InitialiseRewards(p, caller) ==
  /\ caller = admin[p] \/ now > poolStart
  /\ pool[p].rewardRate = 0
  /\ 0 < aura[p]
  /\ pool' = [pool EXCEPT ![p] = [@ EXCEPT !.rewardRate = aura[p] \div duration,
                                           !.lastUpdateTime = now,
                                           !.periodFinish = now + duration]]
  /\ UNCHANGED <<tokenVars, payoutVars, staker>>

-----------------------------------------------------------------------------
PoolInit ==
  /\ pool = [p \in Pools |-> [periodFinish |-> 0, rewardRate |-> 0, lastUpdateTime |-> 0,
                              rewardPerTokenStored |-> 0, totalSupply |-> 0]]
  /\ staker = [p \in Pools |-> [a \in Accounts |->
       [balance |-> 0, paid |-> 0, rewards |-> 0, wallet |-> InitialStaking[a]]]]

PoolStep(p) ==
  \/ \E amount \in PoolFunds : FundPool(p, amount)
  \/ \E sender, a \in Accounts, amount \in StakeAmounts : Stake(p, sender, a, amount)
  \/ \E a \in Accounts, amount \in StakeAmounts :
       Withdraw(p, a, amount) \/ \E lock \in BOOLEAN : WithdrawAndClaim(p, a, amount, lock)
  \/ \E a \in Accounts, lock \in BOOLEAN : GetReward(p, a, lock)
  \/ ForwardPoolPenalty(p)
  \/ RescueReward(p)
  \/ \E caller \in Accounts \cup Admins : InitialiseRewards(p, caller)
=============================================================================
