----------------------------- MODULE MerkleDrop -----------------------------
(***************************************************************************)
(* rewards/AuraMerkleDrop.sol and AuraMerkleDropV2.sol, which has no       *)
(* penalty: each account of a Merkle tree claims its leaf once, between    *)
(* the start and the expiry; the dao may take everything back before the   *)
(* start, and what is left after the expiry.                               *)
(***************************************************************************)
EXTENDS AuraPayout

CONSTANTS
  Drops,
  PenaltyDrops,        \* those of AuraMerkleDrop, the others are V2
  Leaves,              \* drop -> the (account, amount) pairs of its tree
  DropFunds,           \* drop -> what the deployment gives it
  startDelay,
  expiresAfter,
  RescueWindow         \* one week: how long rescueReward works

(* An account with several leaves may claim any one of them.               *)
LargestLeaf(d, a) ==
  LET amounts == {0} \cup {leaf[2] : leaf \in {l \in Leaves[d] : l[1] = a}}
  IN  CHOOSE m \in amounts : \A n \in amounts : n <= m

ASSUME DropAssumption ==
  /\ PenaltyDrops \subseteq Drops /\ Drops \subseteq Releasers
  /\ Leaves \in [Drops -> SUBSET (Accounts \X Nat)]
  /\ \A d \in Drops : IsFiniteSet(Leaves[d])
  /\ DropFunds \in [Drops -> Nat]
  /\ \A d \in Drops :
       SumFunctionOnSet([a \in Accounts |-> LargestLeaf(d, a)], Accounts) <= DropFunds[d]
  /\ startDelay \in Nat /\ expiresAfter \in Nat \ {0} /\ RescueWindow \in Nat

VARIABLES
  rootSet,             \* drops whose merkleRoot is not zero
  startTime,           \* drop -> startTime
  hasClaimed,          \* drop -> accounts that have claimed
  funded               \* drops that were funded and not emptied by the dao

dropVars == <<rootSet, startTime, hasClaimed, funded>>

deployTime == 0
expiryTime == deployTime + startDelay + expiresAfter

-----------------------------------------------------------------------------
(* The deployment's transfer.                                              *)
FundDrop(d) ==
  /\ d \notin funded
  /\ Transfer(deployer, d, DropFunds[d])
  /\ funded' = funded \cup {d}
  /\ UNCHANGED <<tokenRest, payoutVars, rootSet, startTime, hasClaimed>>

SetRoot(d) ==
  /\ d \notin rootSet
  /\ rootSet' = rootSet \cup {d}
  /\ UNCHANGED <<tokenVars, payoutVars, startTime, hasClaimed, funded>>

StartEarly(d) ==
  /\ startTime' = [startTime EXCEPT ![d] = now]
  /\ UNCHANGED <<tokenVars, payoutVars, rootSet, hasClaimed, funded>>

(* Mutant: the pending penalties go as well.                               *)
WithdrawExpired_All(d) ==
  /\ now > expiryTime
  /\ Transfer(d, admin[d], aura[d])
  /\ funded' = funded \ {d}
  /\ UNCHANGED <<tokenRest, payoutVars, rootSet, startTime, hasClaimed>>

WithdrawExpired(d) ==
  /\ now > expiryTime
  /\ pendingPenalty[d] <= aura[d]
  /\ Transfer(d, admin[d], aura[d] - pendingPenalty[d])
  /\ funded' = funded \ {d}
  /\ UNCHANGED <<tokenRest, payoutVars, rootSet, startTime, hasClaimed>>

RescueDrop(d) ==
  /\ now < Least(deployTime + RescueWindow, startTime[d])
  /\ Transfer(d, admin[d], aura[d])
  /\ funded' = funded \ {d}
  /\ UNCHANGED <<tokenRest, payoutVars, rootSet, startTime, hasClaimed>>

-----------------------------------------------------------------------------
(* A drop without a locker takes no penalty.                               *)
PenaltyFor(d, amount) ==
  IF d \in PenaltyDrops /\ auraLocker[d] # NoLocker THEN PenaltyOf(amount) ELSE 0

(* Of the original drop an account claims itself; for V2 anybody claims    *)
(* for it, as long as nothing is locked.                                   *)
ClaimDrop(d, a, amount, lock) ==
  /\ d \in rootSet
  /\ startTime[d] < now /\ now < expiryTime
  /\ 0 < amount
  /\ a \notin hasClaimed[d]
  /\ <<a, amount>> \in Leaves[d]
  /\ hasClaimed' = [hasClaimed EXCEPT ![d] = @ \cup {a}]
  /\ PayOrLock(d, a, amount, lock, PenaltyFor(d, amount))
  /\ UNCHANGED <<tokenRest, auraLocker, shutLockers, admin, rootSet, startTime, funded>>

ForwardDropPenalty(d) ==
  /\ d \in PenaltyDrops
  /\ ForwardPenalty(d)
  /\ UNCHANGED dropVars

-----------------------------------------------------------------------------
(* The root is given at the deployment or left for later.                  *)
DropInit ==
  /\ rootSet \in SUBSET Drops
  /\ startTime = [d \in Drops |-> deployTime + startDelay]
  /\ hasClaimed = [d \in Drops |-> {}]
  /\ funded = {}

DropStep(d) ==
  \/ FundDrop(d)
  \/ SetRoot(d) \/ StartEarly(d) \/ WithdrawExpired(d) \/ RescueDrop(d)
  \/ \E leaf \in Leaves[d], lock \in BOOLEAN : ClaimDrop(d, leaf[1], leaf[2], lock)
  \/ ForwardDropPenalty(d)
=============================================================================
