---------------------------- MODULE AuraReleases ----------------------------
(***************************************************************************)
(* AURA from its minting to its holders: the token, the airdrops, the      *)
(* vesting escrows and the auraBAL reward pool, each a contract of its own *)
(* that draws on the one ledger and on the AuraLocker it points at.        *)
(*                                                                         *)
(* The contracts call nobody but the token and the locker, so a situation  *)
(* with each of them alone, or a few, is as good as all at once: active is *)
(* what an instance looks at, and the rest is deployed and left alone.     *)
(***************************************************************************)
EXTENDS MerkleDrop, VestedEscrow, AuraBalRewardPool

CONSTANTS
  Situations           \* bound: sets of active contracts; the deployer stands for the token

ASSUME SituationsAssumption ==
  /\ Situations \subseteq SUBSET (Releasers \cup {deployer})
  /\ Releasers = Drops \cup Escrows \cup Pools

(* Each of the contracts has an address of its own.                        *)
ASSUME AddressAssumption ==
  /\ Drops \cap Escrows = {} /\ Drops \cap Pools = {} /\ Escrows \cap Pools = {}
  /\ Releasers \cap (Accounts \cup Lockers \cup Admins \cup {NoAdmin, penaltyForwarder, deployer}) = {}

VARIABLES active

vars == <<tokenVars, payoutVars, dropVars, escrowVars, poolVars, active>>

ReleasesInit ==
  /\ TokenInit /\ DropInit /\ EscrowInit /\ PoolInit
  /\ active \in Situations
  /\ auraLocker \in [Releasers -> Lockers]
  /\ shutLockers = {}
  /\ rootSet \subseteq active
  /\ \E a \in Admins, e \in SUBSET (Escrows \cap active) :
       admin = [x \in Releasers |-> IF x \in e THEN NoAdmin ELSE a]
  /\ pendingPenalty = [x \in Releasers |-> 0]

(* What the administrators of a contract may change at any time, and the   *)
(* shutdown of a locker.  Only the pool's manager is fixed.                *)
AdminStep(x) ==
  /\ \/ \E locker \in Lockers \cup {NoLocker} : SetLocker(x, locker)
     \/ x \notin Pools /\ \E new \in Admins : SetAdmin(x, new)
     \/ auraLocker[x] \in Lockers /\ ShutdownLocker(auraLocker[x])
  /\ UNCHANGED <<dropVars, escrowVars, poolVars, active>>

LedgerStep ==
  /\ \/ InitialiseToken
     \/ deployer \in active /\ EmissionStep
     \/ Tick
  /\ UNCHANGED <<payoutVars, dropVars, escrowVars, poolVars, active>>

ReleasesNext ==
  \/ LedgerStep
  \/ \E x \in Releasers \cap active : AdminStep(x)
  \/ \E d \in Drops \cap active : DropStep(d) /\ UNCHANGED <<escrowVars, poolVars, active>>
  \/ \E e \in Escrows \cap active : EscrowStep(e) /\ UNCHANGED <<dropVars, poolVars, active>>
  \/ \E p \in Pools \cap active : PoolStep(p) /\ UNCHANGED <<dropVars, escrowVars, active>>

ReleasesSpec == ReleasesInit /\ [][ReleasesNext]_vars
=============================================================================
