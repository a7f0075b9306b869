----------------------------- MODULE AuraPayout -----------------------------
(***************************************************************************)
(* What the contracts that release AURA have in common: they lock it for   *)
(* the receiver in an AuraLocker, or pay it out, some of them less a       *)
(* penalty that waits until somebody forwards it.                          *)
(***************************************************************************)
EXTENDS AuraToken, FiniteSets, Functions

CONSTANTS
  Releasers,           \* the contracts that release AURA
  Lockers,             \* AuraLockers
  NoLocker,            \* address(0)
  Admins,              \* addresses that may command a releaser
  NoAdmin,             \* address(0): nobody does
  penaltyForwarder

ASSUME PayoutAssumption ==
  /\ Releasers \cup Lockers \cup Admins \cup {penaltyForwarder} \subseteq Contracts
  /\ NoLocker \notin Lockers /\ NoAdmin \notin Admins
  /\ IsFiniteSet(Accounts)

VARIABLES
  auraLocker,          \* releaser -> where it locks
  shutLockers,         \* AuraLockers that were shut down
  admin,               \* releaser -> dao, admin or rewardManager
  pendingPenalty       \* releaser -> penalties not yet forwarded

payoutVars == <<auraLocker, shutLockers, admin, pendingPenalty>>

-----------------------------------------------------------------------------
(* auraLocker.lock(account, amount)                                        *)
Lock(x, amount) ==
  /\ auraLocker[x] \in Lockers \ shutLockers
  /\ 0 < amount
  /\ Transfer(x, auraLocker[x], amount)

PenaltyOf(amount) == (amount * 3) \div 10

PayOrLock(x, a, amount, lock, penalty) ==
  \/ /\ lock
     /\ Lock(x, amount)
     /\ UNCHANGED pendingPenalty
  \/ /\ ~lock
     /\ Transfer(x, a, amount - penalty)
     /\ pendingPenalty' = [pendingPenalty EXCEPT ![x] = @ + penalty]

ForwardPenalty(x) ==
  /\ Transfer(x, penaltyForwarder, pendingPenalty[x])
  /\ pendingPenalty' = [pendingPenalty EXCEPT ![x] = 0]
  /\ UNCHANGED <<tokenRest, auraLocker, shutLockers, admin>>

SetLocker(x, locker) ==
  /\ admin[x] # NoAdmin
  /\ auraLocker' = [auraLocker EXCEPT ![x] = locker]
  /\ UNCHANGED <<tokenVars, shutLockers, admin, pendingPenalty>>

(* setDao, setAdmin                                                        *)
SetAdmin(x, new) ==
  /\ admin[x] # NoAdmin
  /\ admin' = [admin EXCEPT ![x] = new]
  /\ UNCHANGED <<tokenVars, auraLocker, shutLockers, pendingPenalty>>

(* AuraLocker.shutdown                                                     *)
ShutdownLocker(locker) ==
  /\ shutLockers' = shutLockers \cup {locker}
  /\ UNCHANGED <<tokenVars, auraLocker, admin, pendingPenalty>>
=============================================================================
