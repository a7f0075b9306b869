---------------------------- MODULE VestedEscrow ----------------------------
(***************************************************************************)
(* rewards/AuraVestedEscrow.sol and AuraVestedEscrowV2.sol, which names    *)
(* its funder: AURA vests linearly to the recipients it was funded for,    *)
(* once, and the admin, if there is one, may cancel what has not vested.   *)
(***************************************************************************)
EXTENDS AuraPayout

CONSTANTS
  Escrows,
  Vestings,            \* escrow -> recipient -> the sum of its amounts in the arrays of fund
  vestingStart, vestingEnd

ASSUME EscrowAssumption ==
  /\ Escrows \subseteq Releasers
  /\ Vestings \in [Escrows -> [Accounts -> Nat]]
  /\ vestingStart \in Nat /\ vestingEnd \in Nat /\ vestingStart < vestingEnd

VARIABLES
  initialised,         \* escrows that were funded
  totalLocked,         \* escrow -> recipient -> what vests
  totalClaimed         \* escrow -> recipient -> what was paid of it

escrowVars == <<initialised, totalLocked, totalClaimed>>

totalTime == vestingEnd - vestingStart

-----------------------------------------------------------------------------
Fund(e) ==
  /\ e \notin initialised
  /\ now < vestingStart
  /\ totalLocked' = [totalLocked EXCEPT ![e] = [r \in Accounts |-> @[r] + Vestings[e][r]]]
  /\ Transfer(deployer, e, SumFunctionOnSet(Vestings[e], Accounts))
  /\ initialised' = initialised \cup {e}
  /\ UNCHANGED <<tokenRest, payoutVars, totalClaimed>>

-----------------------------------------------------------------------------
(* _totalVestedOf                                                          *)
TotalVestedOf(e, r) ==
  IF now < vestingStart THEN 0
  ELSE Least((totalLocked[e][r] * (now - vestingStart)) \div totalTime, totalLocked[e][r])

Available(e, r) == TotalVestedOf(e, r) - totalClaimed[e][r]
Remaining(e, r) == totalLocked[e][r] - TotalVestedOf(e, r)

(* claim.  After a cancellation less has vested than was claimed, and the  *)
(* subtraction reverts.                                                    *)
ClaimVested(e, r, lock) ==
  /\ 0 <= Available(e, r)
  /\ totalClaimed' = [totalClaimed EXCEPT ![e][r] = @ + Available(e, r)]
  /\ PayOrLock(e, r, Available(e, r), lock, 0)
  /\ UNCHANGED <<tokenRest, auraLocker, shutLockers, admin, initialised, totalLocked>>

(* Mutant: what has vested and was not claimed goes to the admin as well   *)
(* and may still be claimed.                                               *)
Cancel_LeavesLocked(e, r) ==
  LET available == Available(e, r)
      delta == Remaining(e, r)
  IN  /\ admin[e] # NoAdmin
      /\ 0 < totalLocked[e][r]
      /\ 0 <= available /\ available + delta <= aura[e]
      /\ aura' = Transferred(Transferred(aura, e, r, available), e, admin[e], delta)
      /\ totalClaimed' = [totalClaimed EXCEPT ![e][r] = @ + available]
      /\ UNCHANGED <<tokenRest, payoutVars, initialised, totalLocked>>

(* cancel: the recipient is paid what has vested, the admin the rest.      *)
Cancel(e, r) ==
  LET available == Available(e, r)
      delta == Remaining(e, r)
  IN  /\ admin[e] # NoAdmin
      /\ 0 < totalLocked[e][r]
      /\ 0 <= available /\ available + delta <= aura[e]
      /\ aura' = Transferred(Transferred(aura, e, r, available), e, admin[e], delta)
      /\ totalClaimed' = [totalClaimed EXCEPT ![e][r] = @ + available]
      /\ totalLocked' = [totalLocked EXCEPT ![e][r] = 0]
      /\ UNCHANGED <<tokenRest, payoutVars, initialised>>

-----------------------------------------------------------------------------
EscrowInit ==
  /\ initialised = {}
  /\ totalLocked = [e \in Escrows |-> [r \in Accounts |-> 0]]
  /\ totalClaimed = [e \in Escrows |-> [r \in Accounts |-> 0]]

EscrowStep(e) ==
  \/ Fund(e)
  \/ \E r \in Accounts, lock \in BOOLEAN : ClaimVested(e, r, lock)
  \/ \E r \in Accounts : Cancel(e, r)
=============================================================================
