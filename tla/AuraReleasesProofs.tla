------------------------- MODULE AuraReleasesProofs -------------------------
(***************************************************************************)
(* Proofs about the release of AURA: the emissions stay within their cap,  *)
(* no recipient of an escrow is ever paid ahead of its vesting, and each   *)
(* drop, vesting and pool holds the AURA it may still have to pay.         *)
(***************************************************************************)
EXTENDS AuraReleasesProperties, Arithmetic, TLAPS

-----------------------------------------------------------------------------
(* The supply apart from what the minter added.                            *)
SupplyInv ==
  /\ now \in Nat /\ totalSupply \in Nat /\ minterMinted \in Int
  /\ totalSupply # 0 =>
       /\ minterMinted \in Nat
       /\ EmissionsMinted \in 0 .. EMISSIONS_MAX_SUPPLY
       /\ minterMinted > 0 => now > inflationProtectionTime

(* What an escrow has paid, of what was ever funded.                       *)
EscrowInv ==
  /\ now \in Nat
  /\ totalLocked \in [Escrows -> [Accounts -> Nat]]
  /\ totalClaimed \in [Escrows -> [Accounts -> Nat]]
  /\ \A e \in Escrows : e \notin initialised =>
       \A r \in Accounts : totalLocked[e][r] = 0 /\ totalClaimed[e][r] = 0
  /\ NotAheadOfVesting

-----------------------------------------------------------------------------
(* A mint gives no more than is left of the emissions, also when it        *)
(* crosses cliffs: the rate is never negative before the last one.         *)
LEMMA EmissionFits ==
  ASSUME NEW bal \in Nat, EmissionsMinted \in 0 .. EMISSIONS_MAX_SUPPLY, Cliff < totalCliffs
  PROVE  EmissionFor(bal) \in 0 .. (EMISSIONS_MAX_SUPPLY - EmissionsMinted)
<1>1. totalCliffs \in Nat \ {0} /\ EMISSIONS_MAX_SUPPLY \in Nat /\ BaseReduction \in Nat
      /\ totalCliffs <= EMISSIONS_MAX_SUPPLY
  BY TokenAssumption
<1>2. reductionPerCliff \in Nat \ {0}
  BY <1>1, DivIsLargest, DivIsFloor DEF reductionPerCliff
<1>3. Cliff \in Nat
  BY <1>2, DivIsFloor DEF Cliff
<1>4. Reduction \in Nat
  BY <1>1, <1>3 DEF Reduction
<1>5. (bal * Reduction) \div totalCliffs \in Nat
  BY <1>1, <1>4, ProductIsNat, DivIsFloor
<1> QED
  BY <1>1, <1>5 DEF EmissionFor, Least

(* Only the token's own handlers change the supply.                        *)
LEMMA LedgerKeepsSupply ==
  ASSUME SupplyInv, LedgerStep
  PROVE  SupplyInv'
<1>1. CASE InitialiseToken
  BY <1>1, TokenAssumption DEF SupplyInv, InitialiseToken, _mint, EmissionsMinted
<1>2. CASE \E booster \in Boosters : SetBoosterOperator(booster)
  BY <1>2 DEF SupplyInv, SetBoosterOperator, EmissionsMinted
<1>3. CASE UpdateOperator
  BY <1>3 DEF SupplyInv, UpdateOperator, EmissionsMinted
<1>4. ASSUME NEW booster \in Boosters, NEW a \in Accounts, NEW bal \in EmissionAmounts,
             Mint(booster, a, bal)
      PROVE  SupplyInv'
  <2>1. bal \in Nat /\ EMISSIONS_MAX_SUPPLY \in Nat /\ INIT_MINT_AMOUNT \in Nat
    BY TokenAssumption
  <2>2. /\ EmissionsMinted \in 0 .. EMISSIONS_MAX_SUPPLY /\ Cliff < totalCliffs
        /\ totalSupply # 0 /\ totalSupply' = totalSupply + EmissionFor(bal)
        /\ UNCHANGED <<now, minterMinted>>
    BY <1>4 DEF SupplyInv, Mint, _mint
  <2>3. EmissionFor(bal) \in 0 .. (EMISSIONS_MAX_SUPPLY - EmissionsMinted)
    BY <2>1, <2>2, EmissionFits
  <2>4. EmissionsMinted' = EmissionsMinted + EmissionFor(bal)
    BY <2>1, <2>2, <2>3 DEF EmissionsMinted, SupplyInv
  <2> QED
    BY <2>1, <2>2, <2>3, <2>4 DEF SupplyInv
<1>5. ASSUME NEW a \in Accounts, NEW amount \in InflationAmounts, MinterMint(a, amount)
      PROVE  SupplyInv'
  <2>1. amount \in Nat /\ INIT_MINT_AMOUNT \in Nat /\ inflationProtectionTime \in Nat
    BY TokenAssumption
  <2> QED
    BY <1>5, <2>1 DEF SupplyInv, MinterMint, _mint, EmissionsMinted
<1>6. CASE Tick
  BY <1>6, TokenAssumption DEF SupplyInv, Tick, EmissionsMinted
<1> QED
  BY <1>1, <1>2, <1>3, <1>4, <1>5, <1>6 DEF LedgerStep, EmissionStep

(* The releasers move AURA and never make any.                             *)
LEMMA ReleasersKeepToken ==
  /\ \A x \in Releasers : AdminStep(x) => UNCHANGED tokenRest
  /\ \A d \in Drops : DropStep(d) => UNCHANGED tokenRest
  /\ \A e \in Escrows : EscrowStep(e) => UNCHANGED tokenRest
  /\ \A p \in Pools : PoolStep(p) => UNCHANGED tokenRest
<1>1. ASSUME NEW x \in Releasers, AdminStep(x) PROVE UNCHANGED tokenRest
  BY <1>1 DEF AdminStep, SetLocker, SetAdmin, ShutdownLocker, tokenVars, tokenRest
<1>2. ASSUME NEW d \in Drops, DropStep(d) PROVE UNCHANGED tokenRest
  BY <1>2 DEF DropStep, FundDrop, SetRoot, StartEarly, WithdrawExpired, RescueDrop, ClaimDrop,
              ForwardDropPenalty, ForwardPenalty, tokenVars, tokenRest
<1>3. ASSUME NEW e \in Escrows, EscrowStep(e) PROVE UNCHANGED tokenRest
  BY <1>3 DEF EscrowStep, Fund, ClaimVested, Cancel, tokenRest
<1>4. ASSUME NEW p \in Pools, PoolStep(p) PROVE UNCHANGED tokenRest
  BY <1>4 DEF PoolStep, FundPool, Stake, Withdraw, WithdrawAndClaim, GetReward, ForwardPoolPenalty,
              ForwardPenalty, RescueReward, InitialiseRewards, tokenVars, tokenRest
<1> QED
  BY <1>1, <1>2, <1>3, <1>4

(* The clock and the supply of AURA hold in every state.                   *)
LEMMA SupplyIsKept == ReleasesSpec => []SupplyInv
<1>1. ReleasesInit => SupplyInv
  BY DEF ReleasesInit, TokenInit, SupplyInv
<1>2. SupplyInv /\ [ReleasesNext]_vars => SupplyInv'
  <2> SUFFICES ASSUME SupplyInv, [ReleasesNext]_vars
               PROVE  SupplyInv'
    OBVIOUS
  <2>1. CASE LedgerStep
    BY <2>1, LedgerKeepsSupply
  <2>2. CASE UNCHANGED tokenRest
    BY <2>2 DEF tokenRest, SupplyInv, EmissionsMinted
  <2>3. CASE UNCHANGED vars
    BY <2>2, <2>3 DEF vars, tokenVars, tokenRest
  <2> QED
    BY <2>1, <2>2, <2>3, ReleasersKeepToken DEF ReleasesNext
<1> QED
  BY <1>1, <1>2, PTL DEF ReleasesSpec

(* EmissionsCapped holds in every reachable state: the emissions, counted  *)
(* as Aura.mint does, stay between zero and their cap whatever the minter  *)
(* mints and whichever booster is the operator.                            *)
THEOREM EmissionsStayCapped == ReleasesSpec => []EmissionsCapped
<1>1. SupplyInv => EmissionsCapped
  BY DEF SupplyInv, EmissionsCapped
<1> QED
  BY <1>1, SupplyIsKept, PTL

-----------------------------------------------------------------------------
(* Vesting.                                                                *)

(* What has vested is a natural number, no more than is locked, and with   *)
(* time it only grows.                                                     *)
LEMMA VestedIsNat ==
  ASSUME EscrowInv, NEW e \in Escrows, NEW r \in Accounts
  PROVE  TotalVestedOf(e, r) \in 0 .. totalLocked[e][r]
<1>1. totalLocked[e][r] \in Nat /\ now \in Nat /\ vestingStart \in Nat /\ totalTime \in Nat \ {0}
  BY EscrowAssumption DEF EscrowInv, totalTime
<1>2. CASE now < vestingStart
  BY <1>1, <1>2 DEF TotalVestedOf
<1>3. CASE ~(now < vestingStart)
  <2>1. now - vestingStart \in Nat
    BY <1>1, <1>3
  <2>2. (totalLocked[e][r] * (now - vestingStart)) \div totalTime \in Nat
    BY <1>1, <2>1, ProductIsNat, DivIsFloor
  <2> QED
    BY <1>1, <1>3, <2>2 DEF TotalVestedOf, Least
<1> QED
  BY <1>2, <1>3

(* What has vested for a recipient never gets less as time passes          *)
(* (AuraVestedEscrow._totalVestedOf).                                      *)
LEMMA VestingGrows ==
  ASSUME EscrowInv, Tick, UNCHANGED escrowVars, NEW e \in Escrows, NEW r \in Accounts
  PROVE  TotalVestedOf(e, r)' \in Nat /\ TotalVestedOf(e, r) <= TotalVestedOf(e, r)'
<1> DEFINE locked == totalLocked[e][r]
           before == locked * (now - vestingStart)
           after == locked * (now + 1 - vestingStart)
<1>1. /\ locked \in Nat /\ now \in Nat /\ vestingStart \in Nat /\ totalTime \in Nat \ {0}
      /\ now' = now + 1 /\ totalLocked' = totalLocked
  BY EscrowAssumption DEF EscrowInv, totalTime, Tick, escrowVars
<1>2. TotalVestedOf(e, r) \in 0 .. locked
  BY VestedIsNat
<1>3. CASE now < vestingStart
  <2>1. TotalVestedOf(e, r) = 0
    BY <1>3 DEF TotalVestedOf
  <2>2. CASE now + 1 < vestingStart
    BY <1>1, <2>1, <2>2 DEF TotalVestedOf
  <2>3. CASE ~(now + 1 < vestingStart)
    <3>0. now + 1 - vestingStart \in Nat
      BY <1>1, <2>3
    <3>1. after \in Nat
      BY <1>1, <3>0, ProductIsNat
    <3>2. after \div totalTime \in Nat
      BY <1>1, <3>1, DivIsFloor
    <3>3. TotalVestedOf(e, r)' = Least(after \div totalTime, locked)
      BY <1>1, <2>3 DEF TotalVestedOf, totalTime
    <3> QED
      BY <1>1, <2>1, <3>2, <3>3 DEF Least
  <2> QED
    BY <2>2, <2>3
<1>4. CASE ~(now < vestingStart)
  <2>1. /\ now - vestingStart \in Nat /\ now + 1 - vestingStart \in Nat
        /\ now - vestingStart <= now + 1 - vestingStart
    BY <1>1, <1>4
  <2>2. before \in Nat /\ after \in Nat
    BY <1>1, <2>1, ProductIsNat
  <2>3. before <= after
    BY <1>1, <2>1, ProductIsMonotone, SMT
  <2>4. before \div totalTime \in Nat /\ (before \div totalTime) * totalTime <= before
    BY <1>1, <2>2, DivIsFloor
  <2>5. after \div totalTime \in Nat
    BY <1>1, <2>2, DivIsFloor
  <2>6. before \div totalTime <= after \div totalTime
    <3>1. (before \div totalTime) * totalTime <= after
      <4> HIDE DEF before, after
      <4>1. (before \div totalTime) * totalTime \in Nat
        BY <1>1, <2>4, ProductIsNat
      <4> QED
        BY <2>2, <2>3, <2>4, <4>1
    <3> HIDE DEF before, after
    <3> QED
      BY <1>1, <2>2, <2>4, <3>1, DivIsLargest
  <2>7. TotalVestedOf(e, r) = Least(before \div totalTime, locked)
    BY <1>1, <1>4 DEF TotalVestedOf
  <2>8. TotalVestedOf(e, r)' = Least(after \div totalTime, locked)
    BY <1>1, <1>4 DEF TotalVestedOf, totalTime
  <2> HIDE DEF before, after
  <2> QED
    BY <1>1, <2>4, <2>5, <2>6, <2>7, <2>8 DEF Least
<1> QED
  BY <1>3, <1>4

(* A transaction of the escrow: before it is funded nothing is claimed, a  *)
(* claim takes all that has vested, and a cancelled recipient holds none.  *)
LEMMA EscrowKeeps ==
  ASSUME EscrowInv, NEW e \in Escrows, EscrowStep(e)
  PROVE  EscrowInv'
<1> USE DEF EscrowInv
<1>0. now' = now
  BY ReleasersKeepToken DEF tokenRest
<1>1. CASE Fund(e)
  <2>1. /\ totalClaimed' = totalClaimed /\ initialised' = initialised \cup {e}
        /\ e \notin initialised /\ now < vestingStart
        /\ totalLocked' = [totalLocked EXCEPT ![e] = [r \in Accounts |-> @[r] + Vestings[e][r]]]
    BY <1>1 DEF Fund
  <2>2. totalLocked' \in [Escrows -> [Accounts -> Nat]]
    <3>1. \A r \in Accounts : totalLocked[e][r] + Vestings[e][r] \in Nat
      BY EscrowAssumption
    <3>2. [r \in Accounts |-> totalLocked[e][r] + Vestings[e][r]] \in [Accounts -> Nat]
      BY <3>1
    <3>3. totalLocked' = [totalLocked EXCEPT ![e] = [r \in Accounts |-> totalLocked[e][r] + Vestings[e][r]]]
      BY <2>1
    <3> QED
      BY <3>2, <3>3
  <2>3. ASSUME NEW f \in Escrows, NEW r \in Accounts, totalLocked'[f][r] # 0
        PROVE  totalClaimed'[f][r] <= TotalVestedOf(f, r)'
    <3>1. CASE f = e
      BY <1>0, <2>1, <3>1 DEF TotalVestedOf
    <3>2. CASE f # e
      <4>1. totalLocked'[f] = totalLocked[f]
        BY <2>1, <3>2
      <4> QED
        BY <1>0, <2>1, <2>3, <4>1 DEF TotalVestedOf, NotAheadOfVesting
    <3> QED
      BY <3>1, <3>2
  <2>4. \A f \in Escrows : f \notin initialised' =>
          \A r \in Accounts : totalLocked'[f][r] = 0 /\ totalClaimed'[f][r] = 0
    BY <2>1
  <2> QED
    BY <1>0, <2>1, <2>2, <2>3, <2>4 DEF NotAheadOfVesting
<1>2. ASSUME NEW q \in Accounts, NEW lock \in BOOLEAN, ClaimVested(e, q, lock)
      PROVE  EscrowInv'
  <2>1. /\ totalLocked' = totalLocked /\ initialised' = initialised /\ 0 <= Available(e, q)
        /\ totalClaimed' = [totalClaimed EXCEPT ![e][q] = @ + Available(e, q)]
    BY <1>2 DEF ClaimVested
  <2>2. /\ TotalVestedOf(e, q) \in 0 .. totalLocked[e][q]
        /\ totalLocked[e][q] \in Nat /\ totalClaimed[e][q] \in Nat
    BY VestedIsNat
  <2>3. totalClaimed[e][q] + Available(e, q) = TotalVestedOf(e, q)
    BY <2>2 DEF Available
  <2>4. totalClaimed' = [totalClaimed EXCEPT ![e][q] = TotalVestedOf(e, q)]
    BY <2>1, <2>3
  <2>5. totalClaimed' \in [Escrows -> [Accounts -> Nat]]
    BY <2>2, <2>4
  <2>6. \A f \in Escrows, r \in Accounts : TotalVestedOf(f, r)' = TotalVestedOf(f, r)
    BY <1>0, <2>1 DEF TotalVestedOf
  <2>7. e \notin initialised => TotalVestedOf(e, q) = 0
    BY <2>2
  <2>8. \A f \in Escrows : f \notin initialised' =>
          \A r \in Accounts : totalLocked'[f][r] = 0 /\ totalClaimed'[f][r] = 0
    BY <2>1, <2>4, <2>7
  <2>9. ASSUME NEW f \in Escrows, NEW r \in Accounts, totalLocked'[f][r] # 0
        PROVE  totalClaimed'[f][r] <= TotalVestedOf(f, r)'
    <3>1. CASE f = e /\ r = q
      BY <2>2, <2>4, <2>6, <3>1
    <3>2. CASE ~(f = e /\ r = q)
      BY <2>1, <2>4, <2>6, <2>9, <3>2 DEF NotAheadOfVesting
    <3> QED
      BY <3>1, <3>2
  <2> QED
    BY <1>0, <2>1, <2>5, <2>8, <2>9 DEF NotAheadOfVesting
<1>3. ASSUME NEW q \in Accounts, Cancel(e, q)
      PROVE  EscrowInv'
  <2>1. /\ totalLocked' = [totalLocked EXCEPT ![e][q] = 0] /\ initialised' = initialised
        /\ 0 <= Available(e, q) /\ 0 < totalLocked[e][q]
        /\ totalClaimed' = [totalClaimed EXCEPT ![e][q] = @ + Available(e, q)]
    BY <1>3 DEF Cancel
  <2>2. TotalVestedOf(e, q) \in Nat /\ totalLocked[e][q] \in Nat /\ totalClaimed[e][q] \in Nat
    BY VestedIsNat
  <2>3. Available(e, q) \in Nat
    BY <2>1, <2>2 DEF Available
  <2>4. totalLocked' \in [Escrows -> [Accounts -> Nat]] /\ totalClaimed' \in [Escrows -> [Accounts -> Nat]]
    BY <2>1, <2>2, <2>3
  <2>5. e \in initialised
    BY <2>1
  <2>6. \A f \in Escrows : f \notin initialised' =>
          \A r \in Accounts : totalLocked'[f][r] = 0 /\ totalClaimed'[f][r] = 0
    BY <2>1, <2>5
  <2>7. ASSUME NEW f \in Escrows, NEW r \in Accounts, totalLocked'[f][r] # 0
        PROVE  totalClaimed'[f][r] <= TotalVestedOf(f, r)'
    <3>1. ~(f = e /\ r = q)
      BY <2>1, <2>7
    <3>2. totalLocked'[f][r] = totalLocked[f][r] /\ totalClaimed'[f][r] = totalClaimed[f][r]
      BY <2>1, <3>1
    <3> QED
      BY <1>0, <2>7, <3>2 DEF TotalVestedOf, NotAheadOfVesting
  <2> QED
    BY <1>0, <2>4, <2>6, <2>7 DEF NotAheadOfVesting
<1> QED
  BY <1>1, <1>2, <1>3 DEF EscrowStep

(* What was claimed and locked of each vesting holds in every state.       *)
LEMMA EscrowIsKept == ReleasesSpec => []EscrowInv
<1>1. ReleasesInit => EscrowInv
  BY DEF ReleasesInit, TokenInit, EscrowInit, EscrowInv, NotAheadOfVesting
<1>2. EscrowInv /\ [ReleasesNext]_vars => EscrowInv'
  <2> SUFFICES ASSUME EscrowInv, [ReleasesNext]_vars
               PROVE  EscrowInv'
    OBVIOUS
  <2>1. CASE now' = now /\ UNCHANGED escrowVars
    BY <2>1 DEF EscrowInv, NotAheadOfVesting, TotalVestedOf, escrowVars
  <2>2. CASE LedgerStep
    <3>1. UNCHANGED escrowVars
      BY <2>2 DEF LedgerStep
    <3>2. CASE Tick
      <4>1. now' \in Nat /\ totalLocked' = totalLocked /\ totalClaimed' = totalClaimed
            /\ initialised' = initialised
        BY <3>1, <3>2 DEF EscrowInv, Tick, escrowVars
      <4>2. ASSUME NEW e \in Escrows, NEW r \in Accounts, totalLocked'[e][r] # 0
            PROVE  totalClaimed'[e][r] <= TotalVestedOf(e, r)'
        <5>1. totalClaimed[e][r] <= TotalVestedOf(e, r)
          BY <4>1, <4>2 DEF EscrowInv, NotAheadOfVesting
        <5>2. TotalVestedOf(e, r)' \in Nat /\ TotalVestedOf(e, r) <= TotalVestedOf(e, r)'
          BY <3>1, <3>2, VestingGrows
        <5>3. TotalVestedOf(e, r) \in 0 .. totalLocked[e][r] /\ totalLocked[e][r] \in Nat
              /\ totalClaimed[e][r] \in Nat
          BY VestedIsNat DEF EscrowInv
        <5> QED
          BY <4>1, <5>1, <5>2, <5>3
      <4> QED
        BY <4>1, <4>2 DEF EscrowInv, NotAheadOfVesting
    <3>3. CASE InitialiseToken \/ EmissionStep
      BY <2>1, <3>1, <3>3 DEF InitialiseToken, EmissionStep, SetBoosterOperator, UpdateOperator, Mint,
                              MinterMint
    <3> QED
      BY <2>2, <3>2, <3>3 DEF LedgerStep
  <2>3. ASSUME NEW x \in Releasers, AdminStep(x) PROVE EscrowInv'
    BY <2>1, <2>3, ReleasersKeepToken DEF AdminStep, tokenRest
  <2>4. ASSUME NEW d \in Drops, DropStep(d), UNCHANGED escrowVars PROVE EscrowInv'
    BY <2>1, <2>4, ReleasersKeepToken DEF tokenRest
  <2>5. ASSUME NEW p \in Pools, PoolStep(p), UNCHANGED escrowVars PROVE EscrowInv'
    BY <2>1, <2>5, ReleasersKeepToken DEF tokenRest
  <2>6. CASE UNCHANGED vars
    BY <2>1, <2>6 DEF vars, tokenVars
  <2> QED
    BY <2>2, <2>3, <2>4, <2>5, <2>6, EscrowKeeps DEF ReleasesNext
<1> QED
  BY <1>1, <1>2, PTL DEF ReleasesSpec

(* No recipient of an escrow has ever been paid more than had vested of    *)
(* what it was given, whatever was claimed, locked and cancelled when.     *)
THEOREM VestingNeverOverpaid == ReleasesSpec => []NotAheadOfVesting
<1>1. EscrowInv => NotAheadOfVesting
  BY DEF EscrowInv
<1> QED
  BY <1>1, EscrowIsKept, PTL

-----------------------------------------------------------------------------
(* The ledger.                                                             *)

LedgerInv ==
  /\ aura \in [Holders -> Nat]
  /\ pendingPenalty \in [Releasers -> Nat]

(* A transaction leaves what every releaser but x has, and owes, alone.    *)
OthersKeep(x) ==
  \A y \in Releasers \ {x} : aura'[y] = aura[y] /\ pendingPenalty'[y] = pendingPenalty[y]

(* The contracts that release AURA, the accounts and the deployer are all  *)
(* holders of it.                                                          *)
LEMMA ReleasersHold ==
  Releasers \subseteq Holders /\ Accounts \subseteq Holders /\ deployer \in Holders
  BY PayoutAssumption DEF Holders

(* What a transfer does.                                                   *)
LEMMA TransferMoves ==
  ASSUME NEW ledger \in [Holders -> Nat], NEW from \in Holders, NEW to, NEW amount \in Nat,
         amount <= ledger[from], to # from
  PROVE  /\ Transferred(ledger, from, to, amount) \in [Holders -> Nat]
         /\ Transferred(ledger, from, to, amount)[from] = ledger[from] - amount
         /\ \A h \in Holders \ {from, to} : Transferred(ledger, from, to, amount)[h] = ledger[h]
         /\ to \in Holders => Transferred(ledger, from, to, amount)[to] = ledger[to] + amount
<1>1. ledger[from] \in Nat /\ ledger[from] - amount \in Nat
  OBVIOUS
<1>2. to \in Holders => ledger[to] \in Nat /\ ledger[to] + amount \in Nat
  OBVIOUS
<1> QED
  BY <1>1, <1>2 DEF Transferred

(* A payment or a lock for an account takes from the paying contract what  *)
(* it pays, and keeps the penalty there (AuraMerkleDrop.claim,             *)
(* AuraBalRewardPool.getReward).                                           *)
LEMMA PaymentMoves ==
  ASSUME LedgerInv, NEW x \in Releasers, NEW a \in Accounts, NEW amount \in Nat,
         NEW penalty \in Nat, penalty <= amount, NEW lock \in BOOLEAN,
         PayOrLock(x, a, amount, lock, penalty)
  PROVE  /\ LedgerInv' /\ OthersKeep(x)
         /\ \E kept \in {0, penalty} :
              /\ amount - kept <= aura[x] /\ aura'[x] = aura[x] - (amount - kept)
              /\ pendingPenalty'[x] = pendingPenalty[x] + kept
              /\ lock => 0 < amount
<1>1. x \in Holders /\ a # x /\ a \notin Releasers /\ aura \in [Holders -> Nat]
      /\ pendingPenalty \in [Releasers -> Nat]
  BY ReleasersHold, AddressAssumption DEF LedgerInv
<1>2. CASE lock
  <2>1. /\ auraLocker[x] \in Lockers /\ 0 < amount /\ amount <= aura[x]
        /\ aura' = Transferred(aura, x, auraLocker[x], amount) /\ pendingPenalty' = pendingPenalty
    BY <1>2 DEF PayOrLock, Lock, Transfer
  <2>2. auraLocker[x] # x /\ auraLocker[x] \notin Releasers
    BY <2>1, AddressAssumption
  <2>3. /\ aura' \in [Holders -> Nat] /\ aura'[x] = aura[x] - amount
        /\ \A h \in Holders \ {x, auraLocker[x]} : aura'[h] = aura[h]
    BY <1>1, <2>1, <2>2, TransferMoves
  <2>4. OthersKeep(x)
    BY <2>1, <2>2, <2>3, ReleasersHold DEF OthersKeep
  <2> QED
    BY <1>1, <2>1, <2>3, <2>4 DEF LedgerInv
<1>3. CASE ~lock
  <2>1. /\ amount - penalty <= aura[x] /\ aura' = Transferred(aura, x, a, amount - penalty)
        /\ pendingPenalty' = [pendingPenalty EXCEPT ![x] = @ + penalty]
    BY <1>3 DEF PayOrLock, Transfer
  <2>2. amount - penalty \in Nat
    OBVIOUS
  <2>3. /\ aura' \in [Holders -> Nat] /\ aura'[x] = aura[x] - (amount - penalty)
        /\ \A h \in Holders \ {x, a} : aura'[h] = aura[h]
    BY <1>1, <2>1, <2>2, TransferMoves
  <2>4. pendingPenalty' \in [Releasers -> Nat] /\ pendingPenalty'[x] = pendingPenalty[x] + penalty
    BY <1>1, <2>1
  <2>5. OthersKeep(x)
    BY <1>1, <2>1, <2>3, ReleasersHold DEF OthersKeep
  <2> QED
    BY <1>3, <2>1, <2>3, <2>4, <2>5 DEF LedgerInv
<1> QED
  BY <1>2, <1>3

(* The penalty is a part of what is claimed, and less than all of it.      *)
LEMMA PenaltyIsPart ==
  ASSUME NEW amount \in Nat
  PROVE  PenaltyOf(amount) \in Nat /\ PenaltyOf(amount) <= amount
         /\ (0 < amount => PenaltyOf(amount) < amount)
  BY DEF PenaltyOf

(* Forwarding takes exactly the penalty out of the contract                *)
(* (forwardPenalty).                                                       *)
LEMMA ForwardMoves ==
  ASSUME LedgerInv, NEW x \in Releasers, ForwardPenalty(x)
  PROVE  /\ LedgerInv' /\ OthersKeep(x)
         /\ pendingPenalty[x] <= aura[x] /\ aura'[x] = aura[x] - pendingPenalty[x]
         /\ pendingPenalty'[x] = 0
<1>1. /\ x \in Holders /\ penaltyForwarder # x /\ penaltyForwarder \notin Releasers
      /\ aura \in [Holders -> Nat] /\ pendingPenalty \in [Releasers -> Nat]
  BY ReleasersHold, AddressAssumption DEF LedgerInv
<1>2. /\ pendingPenalty[x] <= aura[x]
      /\ aura' = Transferred(aura, x, penaltyForwarder, pendingPenalty[x])
      /\ pendingPenalty' = [pendingPenalty EXCEPT ![x] = 0]
  BY DEF ForwardPenalty, Transfer
<1>3. /\ aura' \in [Holders -> Nat] /\ aura'[x] = aura[x] - pendingPenalty[x]
      /\ \A h \in Holders \ {x, penaltyForwarder} : aura'[h] = aura[h]
  BY <1>1, <1>2, TransferMoves
<1>4. pendingPenalty' \in [Releasers -> Nat] /\ pendingPenalty'[x] = 0
  BY <1>1, <1>2
<1>5. OthersKeep(x)
  BY <1>1, <1>2, <1>3, ReleasersHold DEF OthersKeep
<1> QED
  BY <1>2, <1>3, <1>4, <1>5 DEF LedgerInv

(* The deployment's transfer to a releaser.                                *)
LEMMA FundingMoves ==
  ASSUME LedgerInv, NEW x \in Releasers, NEW amount \in Nat,
         Transfer(deployer, x, amount), UNCHANGED pendingPenalty
  PROVE  LedgerInv' /\ OthersKeep(x) /\ aura'[x] = aura[x] + amount
<1>1. /\ x \in Holders /\ deployer # x /\ deployer \notin Releasers /\ deployer \in Holders
      /\ aura \in [Holders -> Nat] /\ pendingPenalty \in [Releasers -> Nat]
  BY ReleasersHold, AddressAssumption DEF LedgerInv
<1>2. amount <= aura[deployer] /\ aura' = Transferred(aura, deployer, x, amount)
  BY DEF Transfer
<1>3. /\ aura' \in [Holders -> Nat] /\ aura'[x] = aura[x] + amount
      /\ \A h \in Holders \ {x, deployer} : aura'[h] = aura[h]
  BY <1>1, <1>2, TransferMoves
<1>4. OthersKeep(x)
  BY <1>1, <1>3, ReleasersHold DEF OthersKeep
<1> QED
  BY <1>1, <1>3, <1>4 DEF LedgerInv

(* Whatever the administrator takes.                                       *)
AdminInv == admin \in [Releasers -> Admins \cup {NoAdmin}]

(* What an admin takes leaves that contract only.                          *)
LEMMA TakingMoves ==
  ASSUME LedgerInv, AdminInv, NEW x \in Releasers, NEW amount \in Nat, amount <= aura[x],
         Transfer(x, admin[x], amount), UNCHANGED pendingPenalty
  PROVE  LedgerInv' /\ OthersKeep(x) /\ aura'[x] = aura[x] - amount
<1>1. /\ x \in Holders /\ admin[x] # x /\ admin[x] \notin Releasers
      /\ aura \in [Holders -> Nat] /\ pendingPenalty \in [Releasers -> Nat]
  BY ReleasersHold, AddressAssumption DEF LedgerInv, AdminInv
<1>2. aura' = Transferred(aura, x, admin[x], amount)
  BY DEF Transfer
<1>3. /\ aura' \in [Holders -> Nat] /\ aura'[x] = aura[x] - amount
      /\ \A h \in Holders \ {x, admin[x]} : aura'[h] = aura[h]
  BY <1>1, <1>2, TransferMoves
<1>4. OthersKeep(x)
  BY <1>1, <1>3, ReleasersHold DEF OthersKeep
<1> QED
  BY <1>1, <1>3, <1>4 DEF LedgerInv

(* The token's own handlers and the administrators leave what the          *)
(* releasers hold and owe alone.                                           *)
LEMMA LedgerStepMoves ==
  ASSUME SupplyInv, LedgerInv, LedgerStep
  PROVE  LedgerInv' /\ \A y \in Releasers : aura'[y] = aura[y] /\ pendingPenalty'[y] = pendingPenalty[y]
<1>1. /\ aura \in [Holders -> Nat] /\ pendingPenalty \in [Releasers -> Nat]
      /\ pendingPenalty' = pendingPenalty
  BY DEF LedgerInv, LedgerStep, payoutVars
<1>2. ASSUME NEW to \in Holders \ Releasers, NEW amount \in Nat, _mint(to, amount)
      PROVE  /\ aura' \in [Holders -> Nat] /\ \A y \in Releasers : aura'[y] = aura[y]
  BY <1>1, <1>2, ReleasersHold DEF _mint
<1>3. CASE UNCHANGED aura
  BY <1>1, <1>3 DEF LedgerInv
<1>4. CASE InitialiseToken
  <2>1. INIT_MINT_AMOUNT \in Nat /\ deployer \in Holders \ Releasers
    BY TokenAssumption, AddressAssumption, ReleasersHold
  <2> QED
    BY <1>1, <1>2, <1>4, <2>1 DEF InitialiseToken, LedgerInv
<1>5. ASSUME NEW booster \in Boosters, NEW a \in Accounts, NEW bal \in EmissionAmounts,
             Mint(booster, a, bal)
      PROVE  aura' \in [Holders -> Nat] /\ \A y \in Releasers : aura'[y] = aura[y]
  <2>1. bal \in Nat /\ a \in Holders \ Releasers /\ EMISSIONS_MAX_SUPPLY \in Nat
    BY TokenAssumption, AddressAssumption, ReleasersHold
  <2>2. EmissionsMinted \in 0 .. EMISSIONS_MAX_SUPPLY /\ Cliff < totalCliffs /\ _mint(a, EmissionFor(bal))
    BY <1>5 DEF SupplyInv, Mint
  <2>3. EmissionFor(bal) \in Nat
    BY <2>1, <2>2, EmissionFits
  <2> QED
    BY <1>2, <2>1, <2>2, <2>3
<1>6. ASSUME NEW a \in Accounts, NEW amount \in InflationAmounts, MinterMint(a, amount)
      PROVE  aura' \in [Holders -> Nat] /\ \A y \in Releasers : aura'[y] = aura[y]
  <2>1. amount \in Nat /\ a \in Holders \ Releasers
    BY TokenAssumption, AddressAssumption, ReleasersHold
  <2> QED
    BY <1>2, <1>6, <2>1 DEF MinterMint
<1>7. CASE EmissionStep
  <2>1. CASE UNCHANGED aura
    BY <1>3, <2>1
  <2>2. CASE (\E booster \in Boosters : SetBoosterOperator(booster)) \/ UpdateOperator
    BY <1>3, <2>2 DEF SetBoosterOperator, UpdateOperator
  <2> QED
    BY <1>1, <1>5, <1>6, <1>7, <2>2 DEF EmissionStep, LedgerInv
<1>8. CASE Tick
  BY <1>3, <1>8 DEF Tick
<1> QED
  BY <1>4, <1>7, <1>8 DEF LedgerStep

-----------------------------------------------------------------------------
(* Airdrops.                                                               *)

(* What a drop holds, owes and keeps.  Penalties exist only after the      *)
(* start, which is what rescueReward relies on, and a drop that nobody has *)
(* funded holds nothing that a claim could take.                           *)
DropInv ==
  /\ startTime \in [Drops -> Nat] /\ hasClaimed \in [Drops -> SUBSET Accounts]
  /\ \A d \in Drops :
       /\ pendingPenalty[d] # 0 => startTime[d] <= now
       /\ pendingPenalty[d] <= aura[d]
       /\ now < expiryTime =>
            IF d \in funded THEN pendingPenalty[d] + Unclaimed(d) <= aura[d] ELSE aura[d] = 0

(* The largest leaf of an account is no less than any leaf it can claim.   *)
LEMMA LargestLeafIsLargest ==
  ASSUME NEW d \in Drops, NEW a \in Accounts
  PROVE  /\ LargestLeaf(d, a) \in Nat
         /\ \A amount : <<a, amount>> \in Leaves[d] => amount \in Nat /\ amount <= LargestLeaf(d, a)
<1> DEFINE own == {l \in Leaves[d] : l[1] = a}
           amounts == {0} \cup {leaf[2] : leaf \in own}
<1>1. Leaves[d] \subseteq Accounts \X Nat /\ IsFiniteSet(Leaves[d])
  BY DropAssumption
<1>2. IsFiniteSet(own) /\ \A leaf \in own : leaf[2] \in Nat
  BY <1>1, FS_Subset
<1>3. IsFiniteSet({leaf[2] : leaf \in own})
  <2> DEFINE second == [leaf \in own |-> leaf[2]]
  <2>1. second \in Surjection(own, {leaf[2] : leaf \in own})
    BY DEF Surjection
  <2> QED
    BY <1>2, <2>1, FS_Surjection
<1>4. IsFiniteSet({0}) /\ IsFiniteSet(amounts)
  BY <1>3, FS_Singleton, FS_Union
<1>5. amounts \subseteq Nat /\ amounts # {}
  BY <1>2
<1>6. \E m \in amounts : \A n \in amounts : n <= m
  <2>1. amounts \in SUBSET Int
    BY <1>5
  <2> HIDE DEF amounts
  <2> QED
    BY <1>4, <1>5, <2>1, LargestExists
<1>7. LargestLeaf(d, a) = CHOOSE m \in amounts : \A n \in amounts : n <= m
  BY DEF LargestLeaf
<1>8. LargestLeaf(d, a) \in amounts /\ \A n \in amounts : n <= LargestLeaf(d, a)
  <2> HIDE DEF amounts
  <2> QED
    BY <1>6, <1>7
<1>9. ASSUME NEW amount, <<a, amount>> \in Leaves[d]
      PROVE  amount \in amounts
  BY <1>9
<1> QED
  BY <1>5, <1>8, <1>9

(* All leaves are worth no more than what the drop is funded with.         *)
LEMMA UnclaimedFits ==
  ASSUME DropInv, NEW d \in Drops
  PROVE  Unclaimed(d) \in Nat /\ Unclaimed(d) <= DropFunds[d]
<1> DEFINE leaf == [a \in Accounts |-> LargestLeaf(d, a)]
<1>1. IsFiniteSet(Accounts) /\ DropFunds[d] \in Nat /\ SumFunctionOnSet(leaf, Accounts) <= DropFunds[d]
  BY PayoutAssumption, DropAssumption
<1>2. \A a \in Accounts : leaf[a] \in Nat
  BY LargestLeafIsLargest
<1>3. Accounts \ hasClaimed[d] \in SUBSET Accounts /\ IsFiniteSet(Accounts \ hasClaimed[d])
  BY <1>1, FS_Subset
<1> HIDE DEF leaf
<1>4. /\ SumFunctionOnSet(leaf, Accounts \ hasClaimed[d]) \in Nat
      /\ SumFunctionOnSet(leaf, Accounts \ hasClaimed[d]) <= SumFunctionOnSet(leaf, Accounts)
      /\ SumFunctionOnSet(leaf, Accounts) \in Nat
  BY <1>1, <1>2, <1>3, SumIsNat, SumOfPart
<1>5. Unclaimed(d) = SumFunctionOnSet(leaf, Accounts \ hasClaimed[d])
  BY DEF Unclaimed, leaf
<1> QED
  BY <1>1, <1>4, <1>5

(* A step that touches neither the drops nor what they hold.               *)
LEMMA DropsUntouched ==
  ASSUME SupplyInv, LedgerInv, DropInv, now' \in Nat, now <= now', UNCHANGED dropVars,
         \A d \in Drops : aura'[d] = aura[d] /\ pendingPenalty'[d] = pendingPenalty[d]
  PROVE  DropInv'
<1>1. now \in Nat /\ startTime \in [Drops -> Nat] /\ expiryTime \in Nat
  BY DropAssumption DEF SupplyInv, DropInv, expiryTime, deployTime
<1>2. startTime' = startTime /\ hasClaimed' = hasClaimed /\ funded' = funded /\ expiryTime' = expiryTime
  BY DEF dropVars, expiryTime, deployTime
<1>3. \A d \in Drops : Unclaimed(d)' = Unclaimed(d)
  BY <1>2 DEF Unclaimed, LargestLeaf
<1> QED
  BY <1>1, <1>2, <1>3 DEF DropInv

(* No step of a drop leaves it, or what others hold, short.                *)
LEMMA DropKeeps ==
  ASSUME SupplyInv, LedgerInv, AdminInv, DropInv, NEW d \in Drops, DropStep(d)
  PROVE  LedgerInv' /\ DropInv' /\ OthersKeep(d)
<1>1. /\ d \in Releasers /\ Drops \subseteq Releasers /\ now' = now /\ now \in Nat
      /\ aura[d] \in Nat /\ pendingPenalty[d] \in Nat
      /\ pendingPenalty[d] <= aura[d] /\ expiryTime \in Nat /\ expiryTime' = expiryTime
      /\ startTime \in [Drops -> Nat] /\ hasClaimed \in [Drops -> SUBSET Accounts]
  BY ReleasersKeepToken, ReleasersHold, DropAssumption
     DEF tokenRest, LedgerInv, DropInv, SupplyInv, expiryTime, deployTime
<1>2. Unclaimed(d) \in Nat /\ Unclaimed(d) <= DropFunds[d] /\ DropFunds[d] \in Nat
  BY UnclaimedFits, DropAssumption
<1>3. ASSUME OthersKeep(d), LedgerInv',
             startTime' \in [Drops -> Nat], hasClaimed' \in [Drops -> SUBSET Accounts],
             \A e \in Drops \ {d} : startTime'[e] = startTime[e] /\ hasClaimed'[e] = hasClaimed[e],
             \A e \in Drops \ {d} : e \in funded' <=> e \in funded,
             pendingPenalty'[d] # 0 => startTime'[d] <= now,
             pendingPenalty'[d] <= aura'[d],
             now < expiryTime =>
               IF d \in funded' THEN pendingPenalty'[d] + Unclaimed(d)' <= aura'[d] ELSE aura'[d] = 0
      PROVE  LedgerInv' /\ DropInv' /\ OthersKeep(d)
  <2>1. ASSUME NEW e \in Drops \ {d}
        PROVE  /\ aura'[e] = aura[e] /\ pendingPenalty'[e] = pendingPenalty[e]
               /\ Unclaimed(e)' = Unclaimed(e)
    BY <1>1, <1>3 DEF OthersKeep, Unclaimed, LargestLeaf
  <2> QED
    BY <1>1, <1>3, <2>1 DEF DropInv
<1>4. ASSUME UNCHANGED hasClaimed
      PROVE  Unclaimed(d)' = Unclaimed(d)
  BY <1>4 DEF Unclaimed, LargestLeaf
<1>5. CASE FundDrop(d)
  <2>1. /\ d \notin funded /\ Transfer(deployer, d, DropFunds[d]) /\ funded' = funded \cup {d}
        /\ UNCHANGED <<startTime, hasClaimed, pendingPenalty>>
    BY <1>5 DEF FundDrop, payoutVars
  <2>2. LedgerInv' /\ OthersKeep(d) /\ aura'[d] = aura[d] + DropFunds[d]
    BY <1>1, <1>2, <2>1, FundingMoves
  <2>3. pendingPenalty'[d] # 0 => startTime'[d] <= now
    BY <2>1 DEF DropInv
  <2> QED
    BY <1>1, <1>2, <1>3, <1>4, <2>1, <2>2, <2>3
<1>6. CASE SetRoot(d)
  <2>1. UNCHANGED <<aura, pendingPenalty, startTime, hasClaimed, funded>>
    BY <1>6 DEF SetRoot, tokenVars, payoutVars
  <2>2. LedgerInv' /\ OthersKeep(d)
    BY <2>1 DEF LedgerInv, OthersKeep
  <2> QED
    BY <1>1, <1>3, <1>4, <2>1, <2>2 DEF DropInv
<1>7. CASE StartEarly(d)
  <2>1. UNCHANGED <<aura, pendingPenalty, hasClaimed, funded>> /\ startTime' = [startTime EXCEPT ![d] = now]
    BY <1>7 DEF StartEarly, tokenVars, payoutVars
  <2>2. LedgerInv' /\ OthersKeep(d)
    BY <2>1 DEF LedgerInv, OthersKeep
  <2> QED
    BY <1>1, <1>3, <1>4, <2>1, <2>2 DEF DropInv
<1>8. CASE WithdrawExpired(d)
  <2>1. /\ now > expiryTime /\ Transfer(d, admin[d], aura[d] - pendingPenalty[d])
        /\ funded' = funded \ {d} /\ UNCHANGED <<startTime, hasClaimed, pendingPenalty>>
    BY <1>8 DEF WithdrawExpired, payoutVars
  <2>2. LedgerInv' /\ OthersKeep(d) /\ aura'[d] = aura[d] - (aura[d] - pendingPenalty[d])
    <3>1. aura[d] - pendingPenalty[d] \in Nat /\ aura[d] - pendingPenalty[d] <= aura[d]
      BY <1>1
    <3> QED
      BY <1>1, <2>1, <3>1, TakingMoves
  <2>3. pendingPenalty'[d] # 0 => startTime'[d] <= now
    BY <2>1 DEF DropInv
  <2> QED
    BY <1>1, <1>3, <2>1, <2>2, <2>3
<1>9. CASE RescueDrop(d)
  <2>1. /\ now < Least(deployTime + RescueWindow, startTime[d]) /\ Transfer(d, admin[d], aura[d])
        /\ funded' = funded \ {d} /\ UNCHANGED <<startTime, hasClaimed, pendingPenalty>>
    BY <1>9 DEF RescueDrop, payoutVars
  <2>2. LedgerInv' /\ OthersKeep(d) /\ aura'[d] = aura[d] - aura[d]
    BY <1>1, <2>1, TakingMoves
  <2>3. now < startTime[d]
    BY <1>1, <2>1, DropAssumption DEF Least, deployTime
  <2>4. pendingPenalty[d] = 0
    BY <1>1, <2>3 DEF DropInv
  <2> QED
    BY <1>1, <1>3, <2>1, <2>2, <2>4
<1>10. ASSUME NEW leaf \in Leaves[d], NEW lock \in BOOLEAN, ClaimDrop(d, leaf[1], leaf[2], lock)
       PROVE  LedgerInv' /\ DropInv' /\ OthersKeep(d)
  <2> DEFINE a == leaf[1]
             amount == leaf[2]
             penalty == PenaltyFor(d, amount)
  <2>1. a \in Accounts /\ amount \in Nat /\ <<a, amount>> \in Leaves[d]
    BY <1>10, DropAssumption DEF ClaimDrop
  <2>2. penalty \in Nat /\ penalty <= amount /\ (0 < amount => penalty < amount)
    BY <2>1, PenaltyIsPart DEF PenaltyFor
  <2>3. /\ startTime[d] < now /\ now < expiryTime /\ 0 < amount /\ a \notin hasClaimed[d]
        /\ hasClaimed' = [hasClaimed EXCEPT ![d] = @ \cup {a}]
        /\ PayOrLock(d, a, amount, lock, penalty) /\ UNCHANGED <<startTime, funded>>
    BY <1>10 DEF ClaimDrop
  <2> HIDE DEF a, amount, penalty
  <2>4. LedgerInv' /\ OthersKeep(d)
    BY <1>1, <2>1, <2>2, <2>3, PaymentMoves
  <2>5. PICK kept \in {0, penalty} :
               /\ amount - kept <= aura[d] /\ aura'[d] = aura[d] - (amount - kept)
               /\ pendingPenalty'[d] = pendingPenalty[d] + kept
    BY <1>1, <2>1, <2>2, <2>3, PaymentMoves
  <2>6. d \in funded /\ pendingPenalty[d] + Unclaimed(d) <= aura[d]
    BY <1>1, <2>1, <2>2, <2>3, <2>5 DEF DropInv
  <2>7. LargestLeaf(d, a) \in Nat /\ amount <= LargestLeaf(d, a)
    BY <2>1, LargestLeafIsLargest
  <2>8. Unclaimed(d)' \in Nat /\ Unclaimed(d) = LargestLeaf(d, a) + Unclaimed(d)'
    <3> DEFINE worth == [b \in Accounts |-> LargestLeaf(d, b)]
               open == Accounts \ hasClaimed[d]
    <3>1. /\ IsFiniteSet(open) /\ IsFiniteSet(open \ {a}) /\ a \in open
          /\ Accounts \ hasClaimed'[d] = open \ {a}
      BY <1>1, <2>1, <2>3, PayoutAssumption, FS_Subset
    <3>2. \A b \in Accounts : worth[b] \in Nat
      BY LargestLeafIsLargest
    <3>3. /\ Unclaimed(d) = SumFunctionOnSet(worth, open)
          /\ Unclaimed(d)' = SumFunctionOnSet(worth, open \ {a})
      BY <3>1 DEF Unclaimed, LargestLeaf
    <3>4. worth[a] = LargestLeaf(d, a)
      BY <2>1
    <3>5. open \subseteq Accounts
      OBVIOUS
    <3> HIDE DEF worth, open
    <3>6. SumFunctionOnSet(worth, open) = worth[a] + SumFunctionOnSet(worth, open \ {a})
      BY <3>1, <3>2, <3>5, SumRemove
    <3>7. SumFunctionOnSet(worth, open \ {a}) \in Nat
      BY <3>1, <3>2, <3>5, SumIsNat
    <3> QED
      BY <3>3, <3>4, <3>6, <3>7
  <2>9. pendingPenalty'[d] + Unclaimed(d)' <= aura'[d] /\ pendingPenalty'[d] <= aura'[d]
    <3>1. kept \in Nat /\ kept <= amount
      BY <2>1, <2>2
    <3> QED
      BY <1>1, <2>1, <2>5, <2>6, <2>7, <2>8, <3>1
  <2> QED
    BY <1>1, <1>3, <2>1, <2>3, <2>4, <2>6, <2>9
<1>11. CASE ForwardDropPenalty(d)
  <2>1. ForwardPenalty(d) /\ UNCHANGED <<startTime, hasClaimed, funded>>
    BY <1>11 DEF ForwardDropPenalty, dropVars
  <2>2. /\ LedgerInv' /\ OthersKeep(d) /\ aura'[d] = aura[d] - pendingPenalty[d]
        /\ pendingPenalty'[d] = 0
    BY <1>1, <2>1, ForwardMoves
  <2>3. now < expiryTime =>
          IF d \in funded THEN pendingPenalty[d] + Unclaimed(d) <= aura[d] ELSE aura[d] = 0
    BY DEF DropInv
  <2> QED
    BY <1>1, <1>2, <1>3, <1>4, <2>1, <2>2, <2>3
<1> QED
  BY <1>5, <1>6, <1>7, <1>8, <1>9, <1>10, <1>11 DEF DropStep

-----------------------------------------------------------------------------
(* Escrows.                                                                *)

OwedByEscrow(e) == SumFunctionOnSet([r \in Accounts |-> Unpaid(e, r)], Accounts)

EscrowsHold == \A e \in Escrows : aura[e] = OwedByEscrow(e)

(* Nobody is owed less than nothing.                                       *)
LEMMA UnpaidIsNat ==
  ASSUME EscrowInv, NEW e \in Escrows, NEW r \in Accounts
  PROVE  Unpaid(e, r) \in Nat
<1>1. TotalVestedOf(e, r) \in 0 .. totalLocked[e][r]
  BY VestedIsNat
<1> QED
  BY <1>1 DEF EscrowInv, NotAheadOfVesting, Unpaid

(* A step that moves no AURA of the vestings and claims nothing keeps them *)
(* covered.                                                                *)
LEMMA EscrowsUntouched ==
  ASSUME EscrowsHold, UNCHANGED <<totalLocked, totalClaimed>>,
         \A e \in Escrows : aura'[e] = aura[e]
  PROVE  EscrowsHold'
<1>1. \A e \in Escrows : OwedByEscrow(e)' = OwedByEscrow(e)
  BY DEF OwedByEscrow, Unpaid
<1> QED
  BY <1>1 DEF EscrowsHold

(* When what one recipient of an escrow is owed changes, and what the      *)
(* escrow holds changes by as much, nobody else is owed more or less.      *)
LEMMA OneIsPaid ==
  ASSUME EscrowInv, EscrowsHold, NEW e \in Escrows, NEW r \in Accounts,
         NEW amount \in Nat, LedgerInv, OthersKeep(e), aura'[e] = aura[e] - amount,
         Unpaid(e, r)' = Unpaid(e, r) - amount,
         \A f \in Escrows, q \in Accounts : ~(f = e /\ q = r) =>
           totalLocked'[f][q] = totalLocked[f][q] /\ totalClaimed'[f][q] = totalClaimed[f][q]
  PROVE  EscrowsHold'
<1> DEFINE before(f) == [q \in Accounts |-> Unpaid(f, q)]
           after(f) == [q \in Accounts |-> Unpaid(f, q)']
<1>1. \A f \in Escrows : OwedByEscrow(f) = SumFunctionOnSet(before(f), Accounts)
                       /\ OwedByEscrow(f)' = SumFunctionOnSet(after(f), Accounts)
  BY DEF OwedByEscrow
<1>2. \A f \in Escrows \ {e} : after(f) = before(f)
  BY DEF Unpaid
<1>3. IsFiniteSet(Accounts) /\ Escrows \subseteq Releasers
  BY PayoutAssumption, EscrowAssumption
<1>4. \A q \in Accounts : before(e)[q] \in Int /\ after(e)[q] \in Int
  <2>1. \A q \in Accounts : Unpaid(e, q) \in Nat
    BY UnpaidIsNat
  <2>2. \A q \in Accounts : q # r => Unpaid(e, q)' = Unpaid(e, q)
    BY DEF Unpaid
  <2>3. Unpaid(e, r)' \in Int
    BY <2>1
  <2>4. \A q \in Accounts : Unpaid(e, q)' \in Int
    BY <2>1, <2>2, <2>3
  <2> QED
    BY <2>1, <2>4
<1>5. \A q \in Accounts : q # r => before(e)[q] = after(e)[q]
  BY DEF Unpaid
<1>6. after(e)[r] - before(e)[r] = 0 - amount
  BY UnpaidIsNat
<1> HIDE DEF before, after
<1>7. SumFunctionOnSet(after(e), Accounts)
        = SumFunctionOnSet(before(e), Accounts) + (after(e)[r] - before(e)[r])
  BY <1>3, <1>4, <1>5, SumOfChanged
<1>8. SumFunctionOnSet(before(e), Accounts) \in Int
  BY <1>3, <1>4, SumIsInt
<1> QED
  BY <1>1, <1>2, <1>3, <1>6, <1>7, <1>8 DEF EscrowsHold, OthersKeep

(* A claim pays what has vested, a cancellation that to the recipient and  *)
(* the rest to the administrator, and the funding gives what it locks.     *)
LEMMA EscrowKeepsHolding ==
  ASSUME LedgerInv, AdminInv, EscrowInv, EscrowsHold, NEW e \in Escrows, EscrowStep(e)
  PROVE  LedgerInv' /\ EscrowsHold' /\ OthersKeep(e)
<1>1. /\ e \in Releasers /\ Escrows \subseteq Releasers /\ IsFiniteSet(Accounts)
      /\ aura[e] \in Nat /\ aura[e] = OwedByEscrow(e)
      /\ \A f \in Escrows, r \in Accounts : totalLocked[f][r] \in Nat /\ totalClaimed[f][r] \in Nat
  BY EscrowAssumption, PayoutAssumption, ReleasersHold DEF LedgerInv, EscrowsHold, EscrowInv
<1>2. CASE Fund(e)
  <2>1. /\ totalClaimed' = totalClaimed /\ e \notin initialised /\ UNCHANGED pendingPenalty
        /\ totalLocked' = [totalLocked EXCEPT ![e] = [r \in Accounts |-> @[r] + Vestings[e][r]]]
        /\ Transfer(deployer, e, SumFunctionOnSet(Vestings[e], Accounts))
    BY <1>2 DEF Fund, payoutVars
  <2>2. \A r \in Accounts : totalLocked[e][r] = 0 /\ totalClaimed[e][r] = 0 /\ Vestings[e][r] \in Nat
    BY <2>1, EscrowAssumption DEF EscrowInv
  <2>3. SumFunctionOnSet(Vestings[e], Accounts) \in Nat
    BY <1>1, <2>2, SumIsNat
  <2>4. LedgerInv' /\ OthersKeep(e) /\ aura'[e] = aura[e] + SumFunctionOnSet(Vestings[e], Accounts)
    BY <1>1, <2>1, <2>3, FundingMoves
  <2>5. aura[e] = 0
    <3>1. \A r \in Accounts : Unpaid(e, r) = 0
      BY <2>2 DEF Unpaid
    <3>2. OwedByEscrow(e) = 0
      BY <1>1, <3>1, SumOfZeros DEF OwedByEscrow
    <3> QED
      BY <1>1, <3>2
  <2>6. \A r \in Accounts : Unpaid(e, r)' = Vestings[e][r]
    BY <2>1, <2>2 DEF Unpaid, EscrowInv
  <2>7. OwedByEscrow(e)' = SumFunctionOnSet(Vestings[e], Accounts)
    <3> DEFINE owed == [r \in Accounts |-> Unpaid(e, r)']
    <3>1. \A r \in Accounts : owed[r] \in Int /\ owed[r] = Vestings[e][r]
      BY <2>2, <2>6
    <3>2. OwedByEscrow(e)' = SumFunctionOnSet(owed, Accounts)
      BY DEF OwedByEscrow
    <3> HIDE DEF owed
    <3> QED
      BY <1>1, <3>1, <3>2, SumOfSame
  <2>8. \A f \in Escrows \ {e} : OwedByEscrow(f)' = OwedByEscrow(f)
    <3>1. \A f \in Escrows \ {e} : totalLocked'[f] = totalLocked[f]
      BY <2>1 DEF EscrowInv
    <3> QED
      BY <2>1, <3>1 DEF OwedByEscrow, Unpaid
  <2> QED
    BY <1>1, <2>3, <2>4, <2>5, <2>7, <2>8 DEF EscrowsHold, OthersKeep
<1>3. ASSUME NEW r \in Accounts, NEW lock \in BOOLEAN, ClaimVested(e, r, lock)
      PROVE  LedgerInv' /\ EscrowsHold' /\ OthersKeep(e)
  <2>1. /\ 0 <= Available(e, r) /\ totalLocked' = totalLocked
        /\ totalClaimed' = [totalClaimed EXCEPT ![e][r] = @ + Available(e, r)]
        /\ PayOrLock(e, r, Available(e, r), lock, 0)
    BY <1>3 DEF ClaimVested
  <2>2. TotalVestedOf(e, r) \in 0 .. totalLocked[e][r]
    BY VestedIsNat
  <2>3. Available(e, r) \in Nat
    BY <1>1, <2>1, <2>2 DEF Available
  <2>4. LedgerInv' /\ OthersKeep(e) /\ aura'[e] = aura[e] - Available(e, r)
    <3>1. 0 \in Nat /\ 0 <= Available(e, r)
      BY <2>1
    <3>2. LedgerInv' /\ OthersKeep(e)
      BY <1>1, <2>1, <2>3, <3>1, PaymentMoves
    <3>3. \E kept \in {0, 0} : aura'[e] = aura[e] - (Available(e, r) - kept)
      BY <1>1, <2>1, <2>3, <3>1, PaymentMoves
    <3> QED
      BY <2>3, <3>2, <3>3
  <2>5. totalClaimed'[e][r] = totalClaimed[e][r] + Available(e, r)
    BY <1>1, <2>1 DEF EscrowInv
  <2>6. Unpaid(e, r)' = Unpaid(e, r) - Available(e, r)
    <3>1. totalLocked[e][r] = 0 => Available(e, r) = 0
      BY <1>1, <2>2, <2>3 DEF Available
    <3> QED
      BY <1>1, <2>1, <2>3, <2>5, <3>1 DEF Unpaid
  <2>7. \A f \in Escrows, q \in Accounts : ~(f = e /\ q = r) =>
          totalLocked'[f][q] = totalLocked[f][q] /\ totalClaimed'[f][q] = totalClaimed[f][q]
    BY <1>1, <2>1 DEF EscrowInv
  <2> QED
    BY <2>3, <2>4, <2>6, <2>7, OneIsPaid
<1>4. ASSUME NEW r \in Accounts, Cancel(e, r)
      PROVE  LedgerInv' /\ EscrowsHold' /\ OthersKeep(e)
  <2> DEFINE available == Available(e, r)
             delta == Remaining(e, r)
             paid == Transferred(aura, e, r, available)
  <2>1. /\ 0 < totalLocked[e][r] /\ 0 <= available /\ available + delta <= aura[e]
        /\ aura' = Transferred(paid, e, admin[e], delta) /\ UNCHANGED pendingPenalty
        /\ totalClaimed' = [totalClaimed EXCEPT ![e][r] = @ + available]
        /\ totalLocked' = [totalLocked EXCEPT ![e][r] = 0]
    BY <1>4 DEF Cancel, payoutVars
  <2>2. TotalVestedOf(e, r) \in 0 .. totalLocked[e][r]
    BY VestedIsNat
  <2>3. available \in Nat /\ delta \in Nat
    BY <1>1, <2>1, <2>2 DEF Available, Remaining
  <2>4. available + delta = totalLocked[e][r] - totalClaimed[e][r]
    BY <1>1, <2>2 DEF Available, Remaining
  <2>5. /\ e \in Holders /\ r # e /\ r \notin Releasers /\ admin[e] # e /\ admin[e] \notin Releasers
        /\ aura \in [Holders -> Nat] /\ pendingPenalty \in [Releasers -> Nat]
    BY <1>1, ReleasersHold, AddressAssumption DEF LedgerInv, AdminInv
  <2> HIDE DEF available, delta
  <2>6. /\ paid \in [Holders -> Nat] /\ paid[e] = aura[e] - available
        /\ \A h \in Holders \ {e, r} : paid[h] = aura[h]
    BY <1>1, <2>1, <2>3, <2>5, TransferMoves
  <2> HIDE DEF paid
  <2>7. /\ aura' \in [Holders -> Nat] /\ aura'[e] = paid[e] - delta
        /\ \A h \in Holders \ {e, admin[e]} : aura'[h] = paid[h]
    BY <1>1, <2>1, <2>3, <2>5, <2>6, TransferMoves
  <2>8. LedgerInv' /\ OthersKeep(e)
    BY <2>1, <2>5, <2>6, <2>7, ReleasersHold DEF LedgerInv, OthersKeep
  <2>9. aura'[e] = aura[e] - (available + delta) /\ available + delta \in Nat
    BY <1>1, <2>3, <2>6, <2>7
  <2>10. Unpaid(e, r)' = Unpaid(e, r) - (available + delta)
    <3>1. totalLocked'[e][r] = 0
      BY <1>1, <2>1 DEF EscrowInv
    <3>2. Unpaid(e, r)' = 0
      BY <3>1 DEF Unpaid
    <3>3. Unpaid(e, r) = totalLocked[e][r] - totalClaimed[e][r]
      BY <2>1 DEF Unpaid
    <3> QED
      BY <1>1, <2>4, <3>2, <3>3
  <2>11. \A f \in Escrows, q \in Accounts : ~(f = e /\ q = r) =>
           totalLocked'[f][q] = totalLocked[f][q] /\ totalClaimed'[f][q] = totalClaimed[f][q]
    BY <1>1, <2>1 DEF EscrowInv
  <2> QED
    BY <2>8, <2>9, <2>10, <2>11, OneIsPaid
<1> QED
  BY <1>2, <1>3, <1>4 DEF EscrowStep

-----------------------------------------------------------------------------
(* The reward pools.                                                       *)

Stream == [periodFinish : Nat, rewardRate : Nat, lastUpdateTime : Nat,
           rewardPerTokenStored : Nat, totalSupply : Nat]
Staking == [balance : Nat, paid : Nat, rewards : Nat, wallet : Nat]

(* What a staker is owed when a token has earned rpt, in units of          *)
(* 1 / Precision and before any rounding.                                  *)
OwedAt(p, a, rpt) ==
  staker[p][a].balance * (rpt - staker[p][a].paid) + staker[p][a].rewards * Precision

AllOwedAt(p, rpt) == SumFunctionOnSet([a \in Accounts |-> OwedAt(p, a, rpt)], Accounts)

(* What the stream gives after t.                                          *)
StreamFrom(p, t) == (pool[p].periodFinish - t) * pool[p].rewardRate

StakesOf(p) == SumFunctionOnSet([a \in Accounts |-> staker[p][a].balance], Accounts)

(* The pool backs what it owes as of its last update, and the stream since *)
(* then; a pool whose stream was not started owes nothing.                 *)
PoolInv(p) ==
  /\ pool[p] \in Stream /\ staker[p] \in [Accounts -> Staking]
  /\ pool[p].lastUpdateTime <= now /\ pool[p].lastUpdateTime <= pool[p].periodFinish
  /\ \A a \in Accounts : staker[p][a].paid <= pool[p].rewardPerTokenStored
  /\ pool[p].totalSupply = StakesOf(p)
  /\ pool[p].rewardRate = 0 =>
       /\ pendingPenalty[p] = 0 /\ pool[p].rewardPerTokenStored = 0
       /\ \A a \in Accounts : staker[p][a].rewards = 0
  /\ AllOwedAt(p, pool[p].rewardPerTokenStored)
       + (pendingPenalty[p] + StreamFrom(p, pool[p].lastUpdateTime)) * Precision <= aura[p] * Precision

PoolsInv ==
  /\ pool \in [Pools -> Stream] /\ staker \in [Pools -> [Accounts -> Staking]]
  /\ \A p \in Pools : PoolInv(p)

(* The types of what one pool counts, from its invariant.                  *)
LEMMA PoolIsTyped ==
  ASSUME SupplyInv, LedgerInv, NEW p \in Pools, PoolInv(p)
  PROVE  /\ pool[p].periodFinish \in Nat /\ pool[p].rewardRate \in Nat
         /\ pool[p].lastUpdateTime \in Nat /\ pool[p].rewardPerTokenStored \in Nat
         /\ pool[p].totalSupply \in Nat
         /\ \A a \in Accounts : /\ staker[p][a].balance \in Nat /\ staker[p][a].paid \in Nat
                                 /\ staker[p][a].rewards \in Nat /\ staker[p][a].wallet \in Nat
                                 /\ staker[p][a] \in Staking
         /\ LastTimeRewardApplicable(p) \in Nat
         /\ pool[p].lastUpdateTime <= LastTimeRewardApplicable(p)
         /\ LastTimeRewardApplicable(p) <= now /\ LastTimeRewardApplicable(p) <= pool[p].periodFinish
         /\ p \in Releasers /\ aura[p] \in Nat /\ pendingPenalty[p] \in Nat /\ now \in Nat
         /\ Precision \in Nat \ {0} /\ duration \in Nat \ {0} /\ IsFiniteSet(Accounts)
<1>1. pool[p] \in Stream /\ staker[p] \in [Accounts -> Staking]
  BY DEF PoolInv
<1>2. /\ pool[p].periodFinish \in Nat /\ pool[p].rewardRate \in Nat
      /\ pool[p].lastUpdateTime \in Nat /\ pool[p].rewardPerTokenStored \in Nat
      /\ pool[p].totalSupply \in Nat
  BY <1>1 DEF Stream
<1>3. \A a \in Accounts : /\ staker[p][a].balance \in Nat /\ staker[p][a].paid \in Nat
                          /\ staker[p][a].rewards \in Nat /\ staker[p][a].wallet \in Nat
                          /\ staker[p][a] \in Staking
  BY <1>1 DEF Staking
<1>4. p \in Releasers /\ p \in Holders /\ now \in Nat
  BY PoolAssumption, ReleasersHold DEF SupplyInv
<1>5. aura[p] \in Nat /\ pendingPenalty[p] \in Nat
  BY <1>4 DEF LedgerInv
<1>6. /\ LastTimeRewardApplicable(p) \in Nat
      /\ pool[p].lastUpdateTime <= LastTimeRewardApplicable(p)
      /\ LastTimeRewardApplicable(p) <= now /\ LastTimeRewardApplicable(p) <= pool[p].periodFinish
  BY <1>2, <1>4 DEF PoolInv, LastTimeRewardApplicable, Least
<1> QED
  BY <1>2, <1>3, <1>4, <1>5, <1>6, PoolAssumption, PayoutAssumption

(* The reward per token never falls, and never gives more than the stream. *)
LEMMA RewardPerTokenGrows ==
  ASSUME SupplyInv, LedgerInv, NEW p \in Pools, PoolInv(p)
  PROVE  /\ RewardPerToken(p) \in Nat
         /\ pool[p].rewardPerTokenStored <= RewardPerToken(p)
         /\ pool[p].totalSupply * (RewardPerToken(p) - pool[p].rewardPerTokenStored)
              <= ((LastTimeRewardApplicable(p) - pool[p].lastUpdateTime) * pool[p].rewardRate) * Precision
         /\ pool[p].rewardRate = 0 => RewardPerToken(p) = 0
<1> DEFINE elapsed == LastTimeRewardApplicable(p) - pool[p].lastUpdateTime
           given == elapsed * pool[p].rewardRate
           supply == pool[p].totalSupply
           stored == pool[p].rewardPerTokenStored
           added == (given * Precision) \div supply
<1>1. /\ elapsed \in Nat /\ pool[p].rewardRate \in Nat /\ supply \in Nat /\ stored \in Nat
      /\ Precision \in Nat
  BY PoolIsTyped
<1>2. given \in Nat
  BY <1>1, ProductIsNat
<1>3. given * Precision \in Nat
  <2> HIDE DEF given
  <2> QED
    BY <1>1, <1>2, ProductIsNat
<1>4. CASE supply = 0
  <2>1. RewardPerToken(p) = stored
    BY <1>4 DEF RewardPerToken
  <2>2. supply * (stored - stored) = 0
    BY <1>1
  <2> HIDE DEF given, supply, stored
  <2> QED
    BY <1>1, <1>3, <2>1, <2>2 DEF PoolInv, stored, supply, given
<1>5. CASE supply # 0
  <2>1. RewardPerToken(p) = stored + added
    BY <1>5 DEF RewardPerToken
  <2>2. added \in Nat /\ added * supply <= given * Precision
    <3> HIDE DEF given, supply
    <3> QED
      BY <1>1, <1>3, <1>5, DivIsFloor
  <2>3. supply * ((stored + added) - stored) = added * supply
    <3> HIDE DEF supply, stored, added
    <3> QED
      BY <1>1, <2>2, SMT
  <2>4. pool[p].rewardRate = 0 => added = 0 /\ stored = 0
    <3>1. pool[p].rewardRate = 0 => given * Precision = 0
      BY <1>1
    <3>2. 0 \div supply = 0
      BY <1>1, <1>5, SMT
    <3> QED
      BY <3>1, <3>2 DEF PoolInv
  <2> HIDE DEF given, supply, stored, added
  <2> QED
    BY <1>1, <2>1, <2>2, <2>3, <2>4 DEF given, supply, stored
<1> QED
  BY <1>4, <1>5

(* What a staker is owed, in units of 1 / Precision, is a number.          *)
LEMMA OwedIsNat ==
  ASSUME SupplyInv, LedgerInv, NEW p \in Pools, PoolInv(p), NEW a \in Accounts,
         NEW rpt \in Nat, pool[p].rewardPerTokenStored <= rpt
  PROVE  OwedAt(p, a, rpt) \in Nat
<1>1. /\ staker[p][a].balance \in Nat /\ staker[p][a].paid \in Nat /\ staker[p][a].rewards \in Nat
      /\ Precision \in Nat /\ pool[p].rewardPerTokenStored \in Nat
  BY PoolIsTyped
<1>2. staker[p][a].paid <= pool[p].rewardPerTokenStored
  BY DEF PoolInv
<1>3. rpt - staker[p][a].paid \in Nat
  BY <1>1, <1>2
<1>4. /\ staker[p][a].balance * (rpt - staker[p][a].paid) \in Nat
      /\ staker[p][a].rewards * Precision \in Nat
  BY <1>1, <1>3, ProductIsNat
<1> QED
  BY <1>4 DEF OwedAt

(* What a staker can claim is rounded down from what it is owed.           *)
LEMMA EarnedIsOwed ==
  ASSUME SupplyInv, LedgerInv, NEW p \in Pools, PoolInv(p), NEW a \in Accounts
  PROVE  /\ Earned(p, a) \in Nat /\ Earned(p, a) * Precision <= OwedAt(p, a, RewardPerToken(p))
         /\ staker[p][a].rewards <= Earned(p, a)
         /\ pool[p].rewardRate = 0 => Earned(p, a) = 0
<1> DEFINE rpt == RewardPerToken(p)
           x == staker[p][a].balance * (rpt - staker[p][a].paid)
           y == staker[p][a].rewards
<1>1. /\ staker[p][a].balance \in Nat /\ staker[p][a].paid \in Nat /\ y \in Nat
      /\ Precision \in Nat \ {0} /\ pool[p].rewardPerTokenStored \in Nat
      /\ rpt \in Nat /\ pool[p].rewardPerTokenStored <= rpt
  BY PoolIsTyped, RewardPerTokenGrows
<1>2. staker[p][a].paid <= pool[p].rewardPerTokenStored
  BY DEF PoolInv
<1>3. rpt - staker[p][a].paid \in Nat
  BY <1>1, <1>2
<1>4. x \in Nat
  BY <1>1, <1>3, ProductIsNat
<1>5. Earned(p, a) = (x \div Precision) + y /\ OwedAt(p, a, rpt) = x + y * Precision
  BY DEF Earned, OwedAt
<1>6. pool[p].rewardRate = 0 => x = 0 /\ y = 0
  <2>1. pool[p].rewardRate = 0 => rpt = 0 /\ y = 0
    BY RewardPerTokenGrows DEF PoolInv
  <2>2. pool[p].rewardRate = 0 => rpt - staker[p][a].paid = 0
    BY <1>1, <1>2, <2>1
  <2>3. staker[p][a].balance * 0 = 0
    BY <1>1, SMT
  <2> HIDE DEF rpt, y
  <2>4. pool[p].rewardRate = 0 => x = 0
    BY <2>2, <2>3, Zenon
  <2> QED
    BY <2>1, <2>4
<1> HIDE DEF x, y, rpt
<1>7. (x \div Precision) \in Nat /\ (x \div Precision) * Precision <= x
  BY <1>1, <1>4, DivIsFloor
<1>8. ((x \div Precision) + y) * Precision = (x \div Precision) * Precision + y * Precision
  <2> DEFINE z == x \div Precision
  <2> HIDE DEF z
  <2>1. z \in Nat => (z + y) * Precision = z * Precision + y * Precision
    BY <1>1, SMT
  <2> QED
    BY <1>7, <2>1 DEF z
<1>9. /\ y * Precision \in Nat /\ (x \div Precision) * Precision \in Nat
  BY <1>1, <1>7, ProductIsNat
<1>10. pool[p].rewardRate = 0 => Earned(p, a) = 0
  <2>1. 0 \div Precision = 0
    BY <1>1, SMT
  <2> QED
    BY <1>5, <1>6, <2>1
<1>11. y = staker[p][a].rewards /\ rpt = RewardPerToken(p)
  BY DEF y, rpt
<1> QED
  BY <1>1, <1>4, <1>5, <1>7, <1>8, <1>9, <1>10, <1>11

(* Until now the stream has given the stakers, rounded down, no more than  *)
(* it held back for the time since the last update.                        *)
LEMMA AccrualIsBacked ==
  ASSUME SupplyInv, LedgerInv, NEW p \in Pools, PoolInv(p)
  PROVE  /\ AllOwedAt(p, RewardPerToken(p)) \in Nat
         /\ StreamFrom(p, LastTimeRewardApplicable(p)) \in Nat
         /\ AllOwedAt(p, RewardPerToken(p))
              + (pendingPenalty[p] + StreamFrom(p, LastTimeRewardApplicable(p))) * Precision
              <= aura[p] * Precision
<1> DEFINE stored == pool[p].rewardPerTokenStored
           rpt == RewardPerToken(p)
           owed == [a \in Accounts |-> OwedAt(p, a, stored)]
           owedNow == [a \in Accounts |-> OwedAt(p, a, rpt)]
           more == [a \in Accounts |-> staker[p][a].balance * (rpt - stored)]
           stakes == [a \in Accounts |-> staker[p][a].balance]
           last == LastTimeRewardApplicable(p)
           given == (last - pool[p].lastUpdateTime) * pool[p].rewardRate
           rest == StreamFrom(p, last)
           held == StreamFrom(p, pool[p].lastUpdateTime)
<1>1. /\ IsFiniteSet(Accounts) /\ stored \in Nat /\ rpt \in Nat /\ stored <= rpt
      /\ Precision \in Nat /\ pendingPenalty[p] \in Nat /\ aura[p] \in Nat
      /\ pool[p].totalSupply \in Nat
  BY PoolIsTyped, RewardPerTokenGrows
<1>2. \A a \in Accounts : owed[a] \in Nat /\ owedNow[a] \in Nat
  BY <1>1, OwedIsNat
<1>3. \A a \in Accounts : more[a] \in Nat /\ stakes[a] \in Nat /\ more[a] = stakes[a] * (rpt - stored)
  <2> TAKE a \in Accounts
  <2>1. staker[p][a].balance \in Nat /\ rpt - stored \in Nat
    BY <1>1, PoolIsTyped
  <2> QED
    BY <2>1, ProductIsNat
<1>4. \A a \in Accounts : owedNow[a] = owed[a] + more[a]
  <2> TAKE a \in Accounts
  <2> DEFINE b == staker[p][a].balance
             r == staker[p][a].rewards * Precision
             from == staker[p][a].paid
  <2>1. b \in Nat /\ from \in Nat /\ r \in Nat
    BY <1>1, PoolIsTyped, ProductIsNat
  <2>2. owedNow[a] = b * (rpt - from) + r /\ owed[a] = b * (stored - from) + r
        /\ more[a] = b * (rpt - stored)
    BY DEF OwedAt
  <2> HIDE DEF b, r, from, rpt, stored
  <2>3. b * (rpt - from) = b * (stored - from) + b * (rpt - stored)
    BY <1>1, <2>1, SMT
  <2>4. b * (stored - from) \in Int /\ b * (rpt - stored) \in Int
    BY <1>1, <2>1, SMT
  <2> HIDE DEF owed, owedNow, more
  <2> QED
    BY <2>1, <2>2, <2>3, <2>4
<1> HIDE DEF owed, owedNow, more, stakes
<1>5. SumFunctionOnSet(owedNow, Accounts)
        = SumFunctionOnSet(owed, Accounts) + SumFunctionOnSet(more, Accounts)
  BY <1>1, <1>2, <1>3, <1>4, SumOfSums
<1>6. SumFunctionOnSet(more, Accounts) = SumFunctionOnSet(stakes, Accounts) * (rpt - stored)
  <2>1. rpt - stored \in Int
    BY <1>1
  <2> HIDE DEF rpt, stored
  <2> QED
    BY <1>1, <1>3, <2>1, SumScales
<1>7. SumFunctionOnSet(stakes, Accounts) = pool[p].totalSupply
  BY DEF stakes, PoolInv, StakesOf
<1>8. SumFunctionOnSet(more, Accounts) <= given * Precision
  <2>1. pool[p].totalSupply * (rpt - stored) <= given * Precision
    BY RewardPerTokenGrows
  <2> QED
    BY <1>6, <1>7, <2>1
<1>9. /\ given \in Nat /\ rest \in Nat /\ held = rest + given
  <2> DEFINE end == pool[p].periodFinish
             begin == pool[p].lastUpdateTime
             rate == pool[p].rewardRate
  <2>1. end \in Nat /\ begin \in Nat /\ rate \in Nat /\ last \in Nat /\ begin <= last /\ last <= end
    BY PoolIsTyped
  <2>2. given = (last - begin) * rate /\ rest = (end - last) * rate /\ held = (end - begin) * rate
    BY DEF StreamFrom
  <2>3. last - begin \in Nat /\ end - last \in Nat
    BY <2>1
  <2> HIDE DEF last, end, begin, rate
  <2>4. (end - begin) * rate = (end - last) * rate + (last - begin) * rate
    BY <2>1, SMT
  <2>5. (last - begin) * rate \in Nat /\ (end - last) * rate \in Nat
    BY <2>1, <2>3, ProductIsNat
  <2> QED
    BY <2>2, <2>4, <2>5
<1>10. SumFunctionOnSet(owed, Accounts) + (pendingPenalty[p] + held) * Precision <= aura[p] * Precision
  BY DEF PoolInv, AllOwedAt, owed
<1>11. (pendingPenalty[p] + held) * Precision = (pendingPenalty[p] + rest) * Precision + given * Precision
  <2> HIDE DEF given, rest, held
  <2> QED
    BY <1>1, <1>9, SMT
<1>12. /\ SumFunctionOnSet(owedNow, Accounts) \in Nat /\ SumFunctionOnSet(owed, Accounts) \in Nat
       /\ SumFunctionOnSet(more, Accounts) \in Nat
  BY <1>1, <1>2, <1>3, SumIsNat
<1>13. /\ (pendingPenalty[p] + rest) * Precision \in Nat /\ given * Precision \in Nat
       /\ aura[p] * Precision \in Nat
  <2> HIDE DEF given, rest
  <2> QED
    BY <1>1, <1>9, ProductIsNat
<1>14. AllOwedAt(p, rpt) = SumFunctionOnSet(owedNow, Accounts)
  BY DEF AllOwedAt, owedNow
<1> HIDE DEF given, rest, held, rpt
<1> QED
  BY <1>5, <1>8, <1>9, <1>10, <1>11, <1>12, <1>13, <1>14 DEF rest, rpt

(* A pool that keeps its invariant holds what all stakers have earned, the *)
(* penalties and the rest of its stream.                                   *)
LEMMA PoolIsSolvent ==
  ASSUME SupplyInv, LedgerInv, NEW p \in Pools, PoolInv(p)
  PROVE  SumFunctionOnSet([a \in Accounts |-> Earned(p, a)], Accounts)
           + pendingPenalty[p] + RestOfStream(p) <= aura[p]
<1> DEFINE earned == [a \in Accounts |-> Earned(p, a)]
           scaled == [a \in Accounts |-> Earned(p, a) * Precision]
           owed == [a \in Accounts |-> OwedAt(p, a, RewardPerToken(p))]
           all == SumFunctionOnSet(earned, Accounts)
           rest == StreamFrom(p, LastTimeRewardApplicable(p))
<1>1. /\ IsFiniteSet(Accounts) /\ Precision \in Nat \ {0} /\ pendingPenalty[p] \in Nat /\ aura[p] \in Nat
      /\ now \in Nat /\ pool[p].periodFinish \in Nat /\ pool[p].rewardRate \in Nat
  BY PoolIsTyped
<1>2. \A a \in Accounts : /\ earned[a] \in Nat /\ scaled[a] = earned[a] * Precision
                          /\ scaled[a] \in Nat /\ owed[a] \in Nat /\ scaled[a] <= owed[a]
  <2> TAKE a \in Accounts
  <2>1. Earned(p, a) \in Nat /\ Earned(p, a) * Precision <= OwedAt(p, a, RewardPerToken(p))
    BY EarnedIsOwed
  <2>2. OwedAt(p, a, RewardPerToken(p)) \in Nat
    BY OwedIsNat, RewardPerTokenGrows
  <2>3. Earned(p, a) * Precision \in Nat
    BY <1>1, <2>1, ProductIsNat
  <2> QED
    BY <2>1, <2>2, <2>3
<1>3. /\ SumFunctionOnSet(owed, Accounts) \in Nat /\ rest \in Nat
      /\ SumFunctionOnSet(owed, Accounts) + (pendingPenalty[p] + rest) * Precision <= aura[p] * Precision
  BY AccrualIsBacked DEF AllOwedAt
<1> HIDE DEF earned, scaled, owed
<1>4. SumFunctionOnSet(scaled, Accounts) = all * Precision /\ all \in Nat
  BY <1>1, <1>2, SumScales, SumIsNat
<1>5. SumFunctionOnSet(scaled, Accounts) <= SumFunctionOnSet(owed, Accounts)
  BY <1>1, <1>2, SumIsMonotone
<1>6. (all + (pendingPenalty[p] + rest)) * Precision
        = all * Precision + (pendingPenalty[p] + rest) * Precision
  <2> HIDE DEF all, rest
  <2> QED
    BY <1>1, <1>3, <1>4, SMT
<1>7. /\ all * Precision \in Nat /\ (pendingPenalty[p] + rest) * Precision \in Nat
      /\ aura[p] * Precision \in Nat
  <2> HIDE DEF all, rest
  <2> QED
    BY <1>1, <1>3, <1>4, ProductIsNat
<1>8. (all + (pendingPenalty[p] + rest)) * Precision <= aura[p] * Precision
  <2> HIDE DEF all, rest
  <2> QED
    BY <1>3, <1>4, <1>5, <1>6, <1>7
<1>9. all + (pendingPenalty[p] + rest) <= aura[p]
  <2>1. all + (pendingPenalty[p] + rest) \in Nat
    BY <1>1, <1>3, <1>4
  <2> HIDE DEF all, rest
  <2> QED
    BY <1>1, <1>8, <2>1, ProductCancels
<1>10. RestOfStream(p) = rest
  <2>1. CASE pool[p].periodFinish > now
    <3>1. LastTimeRewardApplicable(p) = now
      BY <1>1, <2>1 DEF LastTimeRewardApplicable, Least
    <3> QED
      BY <2>1, <3>1 DEF RestOfStream, StreamFrom
  <2>2. CASE ~(pool[p].periodFinish > now)
    <3>1. LastTimeRewardApplicable(p) = pool[p].periodFinish
      BY <1>1, <2>2 DEF LastTimeRewardApplicable, Least
    <3>2. rest = 0
      BY <1>1, <3>1 DEF StreamFrom
    <3> QED
      BY <2>2, <3>2 DEF RestOfStream
  <2> QED
    BY <2>1, <2>2
<1>11. all = SumFunctionOnSet([a \in Accounts |-> Earned(p, a)], Accounts)
  BY DEF all, earned
<1> HIDE DEF all, rest
<1> QED
  BY <1>1, <1>3, <1>4, <1>9, <1>10, <1>11

(* A pool whose stakes a step leaves alone and that gives away no more    *)
(* than penalties.                                                         *)
LEMMA PoolPassesOn ==
  ASSUME SupplyInv, LedgerInv, NEW p \in Pools, PoolInv(p), now' \in Nat, now <= now',
         pool'[p] = pool[p], staker'[p] = staker[p], aura'[p] \in Nat, pendingPenalty'[p] \in Nat,
         pendingPenalty'[p] <= pendingPenalty[p],
         aura[p] - pendingPenalty[p] <= aura'[p] - pendingPenalty'[p]
  PROVE  PoolInv(p)'
<1> DEFINE held == StreamFrom(p, pool[p].lastUpdateTime)
           owed == AllOwedAt(p, pool[p].rewardPerTokenStored)
<1>1. /\ aura[p] \in Nat /\ Precision \in Nat /\ now \in Nat /\ pool[p].lastUpdateTime \in Nat
      /\ pendingPenalty[p] \in Nat
  BY PoolIsTyped
<1>2. owed' = owed /\ held' = held /\ StakesOf(p)' = StakesOf(p)
  BY DEF AllOwedAt, OwedAt, StreamFrom, StakesOf
<1>3. held \in Nat
  <2>1. pool[p].periodFinish - pool[p].lastUpdateTime \in Nat /\ pool[p].rewardRate \in Nat
    BY PoolIsTyped DEF PoolInv
  <2> QED
    BY <2>1, ProductIsNat DEF StreamFrom
<1>4. owed \in Nat
  <2>1. \A a \in Accounts : OwedAt(p, a, pool[p].rewardPerTokenStored) \in Nat
    BY PoolIsTyped, OwedIsNat
  <2> QED
    BY <2>1, PayoutAssumption, SumIsNat DEF AllOwedAt
<1>5. owed + (pendingPenalty[p] + held) * Precision <= aura[p] * Precision
  BY DEF PoolInv
<1>6. owed + (pendingPenalty'[p] + held) * Precision <= aura'[p] * Precision
  <2> DEFINE free == aura[p] - pendingPenalty[p]
             freeNext == aura'[p] - pendingPenalty'[p]
  <2>1. /\ free \in Int /\ freeNext \in Int /\ free <= freeNext
        /\ aura[p] = free + pendingPenalty[p] /\ aura'[p] = freeNext + pendingPenalty'[p]
    BY <1>1
  <2> HIDE DEF held, owed, free, freeNext
  <2>2. free * Precision <= freeNext * Precision
    <3>1. (freeNext - free) \in Nat
      BY <2>1
    <3>2. (freeNext - free) * Precision \in Nat
      BY <1>1, <3>1, ProductIsNat
    <3>3. freeNext * Precision = free * Precision + (freeNext - free) * Precision
      BY <1>1, <2>1, SMT
    <3>4. free * Precision \in Int
      BY <1>1, <2>1, SMT
    <3> QED
      BY <3>2, <3>3, <3>4
  <2>3. /\ (pendingPenalty[p] + held) * Precision = pendingPenalty[p] * Precision + held * Precision
        /\ (pendingPenalty'[p] + held) * Precision = pendingPenalty'[p] * Precision + held * Precision
    BY <1>1, <1>3, SMT
  <2>4. /\ (free + pendingPenalty[p]) * Precision = free * Precision + pendingPenalty[p] * Precision
        /\ (freeNext + pendingPenalty'[p]) * Precision
              = freeNext * Precision + pendingPenalty'[p] * Precision
    BY <1>1, <2>1, SMT
  <2>5. /\ pendingPenalty[p] * Precision \in Nat /\ pendingPenalty'[p] * Precision \in Nat
        /\ held * Precision \in Nat
    BY <1>1, <1>3, ProductIsNat
  <2>6. free * Precision \in Int /\ freeNext * Precision \in Int
    BY <1>1, <2>1, SMT
  <2>7. owed + (pendingPenalty[p] * Precision + held * Precision)
          <= free * Precision + pendingPenalty[p] * Precision
    BY <1>5, <2>1, <2>3, <2>4
  <2>8. owed + (pendingPenalty'[p] * Precision + held * Precision)
          <= freeNext * Precision + pendingPenalty'[p] * Precision
    BY <1>4, <2>2, <2>5, <2>6, <2>7
  <2> QED
    BY <2>1, <2>3, <2>4, <2>8
<1>7. pool[p].rewardRate = 0 => pendingPenalty'[p] = 0
  BY <1>1 DEF PoolInv
<1> HIDE DEF owed, held
<1> QED
  BY <1>1, <1>2, <1>6, <1>7 DEF PoolInv, owed, held

(* A pool that a step leaves alone.                                        *)
LEMMA PoolUntouched ==
  ASSUME SupplyInv, LedgerInv, NEW p \in Pools, PoolInv(p), now' \in Nat, now <= now',
         pool'[p] = pool[p], staker'[p] = staker[p], aura'[p] \in Nat, aura[p] <= aura'[p],
         pendingPenalty'[p] = pendingPenalty[p]
  PROVE  PoolInv(p)'
<1>1. aura[p] \in Nat /\ pendingPenalty[p] \in Nat
  BY PoolIsTyped
<1> QED
  BY <1>1, PoolPassesOn

(* A pool whose stream was not started owes nobody anything.               *)
LEMMA IdlePoolOwesNothing ==
  ASSUME SupplyInv, LedgerInv, NEW p \in Pools, PoolInv(p), pool[p].rewardRate = 0
  PROVE  /\ AllOwedAt(p, 0) = 0 /\ pool[p].rewardPerTokenStored = 0 /\ pendingPenalty[p] = 0
         /\ \A a \in Accounts : staker[p][a].rewards = 0
<1>1. /\ pool[p].rewardPerTokenStored = 0 /\ pendingPenalty[p] = 0
      /\ \A a \in Accounts : staker[p][a].rewards = 0 /\ staker[p][a].paid <= 0
  BY DEF PoolInv
<1>2. \A a \in Accounts : OwedAt(p, a, 0) = 0
  <2> TAKE a \in Accounts
  <2>1. staker[p][a].balance \in Nat /\ staker[p][a].paid = 0 /\ Precision \in Nat
    BY <1>1, PoolIsTyped
  <2> QED
    BY <1>1, <2>1 DEF OwedAt
<1>3. AllOwedAt(p, 0) = 0
  <2> DEFINE owed == [a \in Accounts |-> OwedAt(p, a, 0)]
  <2>1. \A a \in Accounts : owed[a] = 0
    BY <1>2
  <2>2. SumFunctionOnSet(owed, Accounts) = 0
    <3> HIDE DEF owed
    <3> QED
      BY <2>1, PayoutAssumption, SumOfZeros
  <2> QED
    BY <2>2 DEF AllOwedAt
<1> QED
  BY <1>1, <1>3

(* A handler settles one staker: it is paid some of what it has earned,    *)
(* less a penalty that is kept, the rest is written down, and its stake    *)
(* changes with the supply.                                                *)
LEMMA SettlingIsBacked ==
  ASSUME SupplyInv, LedgerInv, NEW p \in Pools, PoolInv(p), NEW a \in Accounts,
         NEW paidOut \in Nat, NEW kept \in Nat, kept <= paidOut, now' = now,
         pool'[p] \in Stream, staker'[p] \in [Accounts -> Staking],
         pool'[p].periodFinish = pool[p].periodFinish, pool'[p].rewardRate = pool[p].rewardRate,
         pool'[p].rewardPerTokenStored = RewardPerToken(p),
         pool'[p].lastUpdateTime = LastTimeRewardApplicable(p),
         staker'[p][a].paid = RewardPerToken(p), staker'[p][a].rewards + paidOut = Earned(p, a),
         \A b \in Accounts \ {a} : /\ staker'[p][b].balance = staker[p][b].balance
                                   /\ staker'[p][b].paid = staker[p][b].paid
                                   /\ staker'[p][b].rewards = staker[p][b].rewards,
         pool'[p].totalSupply - pool[p].totalSupply = staker'[p][a].balance - staker[p][a].balance,
         aura'[p] = aura[p] - (paidOut - kept), paidOut - kept <= aura[p],
         pendingPenalty'[p] = pendingPenalty[p] + kept
  PROVE  PoolInv(p)'
<1> DEFINE rpt == RewardPerToken(p)
           last == LastTimeRewardApplicable(p)
           owedNow == [b \in Accounts |-> OwedAt(p, b, rpt)]
           owedNext == [b \in Accounts |-> staker'[p][b].balance * (rpt - staker'[p][b].paid)
                                             + staker'[p][b].rewards * Precision]
           stakes == [b \in Accounts |-> staker[p][b].balance]
           stakesNext == [b \in Accounts |-> staker'[p][b].balance]
           rest == StreamFrom(p, last)
<1>1. /\ IsFiniteSet(Accounts) /\ Precision \in Nat /\ pendingPenalty[p] \in Nat /\ aura[p] \in Nat
      /\ now \in Nat /\ last \in Nat /\ last <= now /\ last <= pool[p].periodFinish
      /\ rpt \in Nat /\ pool[p].rewardPerTokenStored <= rpt /\ pool[p].rewardPerTokenStored \in Nat
      /\ pool[p].totalSupply \in Nat /\ pool[p].rewardRate \in Nat /\ pool[p].periodFinish \in Nat
  BY PoolIsTyped, RewardPerTokenGrows
<1>2. \A b \in Accounts : /\ staker[p][b].balance \in Nat /\ staker[p][b].paid \in Nat
                          /\ staker[p][b].rewards \in Nat /\ staker[p][b].paid <= rpt
  BY <1>1, PoolIsTyped DEF PoolInv
<1>3. \A b \in Accounts : /\ staker'[p][b].balance \in Nat /\ staker'[p][b].paid \in Nat
                          /\ staker'[p][b].rewards \in Nat
  BY DEF Staking
<1>4. /\ Earned(p, a) \in Nat /\ Earned(p, a) * Precision <= owedNow[a]
      /\ pool[p].rewardRate = 0 => Earned(p, a) = 0 /\ rpt = 0
  BY EarnedIsOwed, RewardPerTokenGrows
<1>5. /\ AllOwedAt(p, rpt) \in Nat /\ rest \in Nat
      /\ AllOwedAt(p, rpt) + (pendingPenalty[p] + rest) * Precision <= aura[p] * Precision
  BY AccrualIsBacked
<1>6. \A b \in Accounts : owedNow[b] \in Nat
  BY <1>1, OwedIsNat
<1>7. owedNext[a] = staker'[p][a].rewards * Precision /\ owedNext[a] \in Nat
  <2>1. staker'[p][a].balance * (rpt - rpt) = 0
    BY <1>1, <1>3
  <2>2. staker'[p][a].rewards * Precision \in Nat
    BY <1>1, <1>3, ProductIsNat
  <2>3. owedNext[a] = staker'[p][a].balance * (rpt - rpt) + staker'[p][a].rewards * Precision
    OBVIOUS
  <2> QED
    BY <2>1, <2>2, <2>3
<1>8. owedNext[a] + paidOut * Precision <= owedNow[a] /\ paidOut * Precision \in Nat
  <2>1. (staker'[p][a].rewards + paidOut) * Precision
          = staker'[p][a].rewards * Precision + paidOut * Precision
    BY <1>1, <1>3, SMT
  <2>2. paidOut * Precision \in Nat
    BY <1>1, ProductIsNat
  <2>3. Earned(p, a) * Precision = staker'[p][a].rewards * Precision + paidOut * Precision
    BY <2>1
  <2> QED
    BY <1>4, <1>7, <2>2, <2>3
<1>9. \A b \in Accounts : b # a => owedNext[b] = owedNow[b]
  BY DEF OwedAt
<1>10. AllOwedAt(p, pool[p].rewardPerTokenStored)' = SumFunctionOnSet(owedNext, Accounts)
  BY DEF AllOwedAt, OwedAt
<1>11. AllOwedAt(p, rpt) = SumFunctionOnSet(owedNow, Accounts)
  BY DEF AllOwedAt
<1>12. StakesOf(p) = SumFunctionOnSet(stakes, Accounts) /\ StakesOf(p)' = SumFunctionOnSet(stakesNext, Accounts)
  BY DEF StakesOf
<1>13. \A b \in Accounts : stakes[b] \in Int /\ stakesNext[b] \in Int /\ (b # a => stakes[b] = stakesNext[b])
  BY <1>2, <1>3
<1>14. stakes[a] = staker[p][a].balance /\ stakesNext[a] = staker'[p][a].balance
  OBVIOUS
<1> HIDE DEF owedNow, owedNext, stakes, stakesNext
<1>15. SumFunctionOnSet(owedNext, Accounts) = SumFunctionOnSet(owedNow, Accounts) + (owedNext[a] - owedNow[a])
  BY <1>1, <1>6, <1>7, <1>9, SumOfChanged
<1>16. SumFunctionOnSet(owedNow, Accounts) \in Nat /\ SumFunctionOnSet(owedNext, Accounts) \in Nat
  BY <1>1, <1>6, <1>7, <1>9, SumIsNat
<1>17. SumFunctionOnSet(stakesNext, Accounts)
         = SumFunctionOnSet(stakes, Accounts) + (stakesNext[a] - stakes[a])
  BY <1>1, <1>13, SumOfChanged
<1>18. pool'[p].totalSupply = StakesOf(p)'
  <2>1. pool[p].totalSupply = StakesOf(p) /\ pool'[p].totalSupply \in Nat
    BY DEF PoolInv, Stream
  <2> QED
    BY <1>1, <1>2, <1>3, <1>12, <1>14, <1>17, <2>1
<1>19. SumFunctionOnSet(owedNext, Accounts) + paidOut * Precision <= SumFunctionOnSet(owedNow, Accounts)
  BY <1>6, <1>7, <1>8, <1>15, <1>16
<1>20. StreamFrom(p, pool[p].lastUpdateTime)' = rest
  BY DEF StreamFrom
<1>21. SumFunctionOnSet(owedNext, Accounts) + (pendingPenalty'[p] + rest) * Precision <= aura'[p] * Precision
  <2> DEFINE pending == pendingPenalty[p]
             holds == aura[p]
             left == holds - (paidOut - kept)
  <2> HIDE DEF rest
  <2>1. /\ (pending + rest) * Precision \in Nat /\ holds * Precision \in Nat
        /\ paidOut * Precision \in Nat /\ kept * Precision \in Nat
    BY <1>1, <1>5, ProductIsNat
  <2>2. (pending + kept + rest) * Precision = (pending + rest) * Precision + kept * Precision
    BY <1>1, <1>5, SMT
  <2>3. left * Precision = (holds * Precision - paidOut * Precision) + kept * Precision
    BY <1>1, SMT
  <2>4. pendingPenalty'[p] + rest = pending + kept + rest /\ aura'[p] = left
    BY <1>1, <1>5
  <2>5. SumFunctionOnSet(owedNow, Accounts) + (pending + rest) * Precision <= holds * Precision
    BY <1>5, <1>11
  <2> HIDE DEF pending, holds, left
  <2>6. SumFunctionOnSet(owedNext, Accounts) + ((pending + rest) * Precision + kept * Precision)
          <= (holds * Precision - paidOut * Precision) + kept * Precision
    BY <1>16, <1>19, <2>1, <2>5
  <2> QED
    BY <2>2, <2>3, <2>4, <2>6
<1>22. pool'[p].rewardRate = 0 =>
         /\ pendingPenalty'[p] = 0 /\ pool'[p].rewardPerTokenStored = 0
         /\ \A b \in Accounts : staker'[p][b].rewards = 0
  <2> SUFFICES ASSUME pool'[p].rewardRate = 0
               PROVE  /\ pendingPenalty'[p] = 0 /\ rpt = 0
                      /\ \A b \in Accounts : staker'[p][b].rewards = 0
    OBVIOUS
  <2>1. pool[p].rewardRate = 0
    OBVIOUS
  <2>2. /\ pendingPenalty[p] = 0 /\ Earned(p, a) = 0 /\ rpt = 0
        /\ \A b \in Accounts : staker[p][b].rewards = 0
    BY <1>4, <2>1 DEF PoolInv
  <2>3. paidOut = 0 /\ kept = 0 /\ staker'[p][a].rewards = 0
    BY <1>3, <2>2
  <2> QED
    BY <2>2, <2>3
<1>23. \A b \in Accounts : staker'[p][b].paid <= pool'[p].rewardPerTokenStored
  BY <1>1, <1>2
<1> HIDE DEF rpt, last
<1> QED
  BY <1>1, <1>10, <1>18, <1>20, <1>21, <1>22, <1>23 DEF PoolInv, last

(* What updateReward makes of the pool and of a staker.                    *)
LEMMA UpdatesKeepTypes ==
  ASSUME SupplyInv, LedgerInv, NEW p \in Pools, PoolInv(p), NEW a \in Accounts
  PROVE  /\ PoolUpdated(p) \in Stream /\ StakerUpdated(p, a) \in Staking
         /\ PoolUpdated(p).totalSupply = pool[p].totalSupply
         /\ PoolUpdated(p).periodFinish = pool[p].periodFinish
         /\ PoolUpdated(p).rewardRate = pool[p].rewardRate
         /\ PoolUpdated(p).rewardPerTokenStored = RewardPerToken(p)
         /\ PoolUpdated(p).lastUpdateTime = LastTimeRewardApplicable(p)
         /\ StakerUpdated(p, a).balance = staker[p][a].balance
         /\ StakerUpdated(p, a).wallet = staker[p][a].wallet
         /\ StakerUpdated(p, a).paid = RewardPerToken(p)
         /\ StakerUpdated(p, a).rewards = Earned(p, a)
<1>1. /\ pool[p] \in Stream /\ staker[p][a] \in Staking
      /\ RewardPerToken(p) \in Nat /\ LastTimeRewardApplicable(p) \in Nat /\ Earned(p, a) \in Nat
  BY PoolIsTyped, RewardPerTokenGrows, EarnedIsOwed DEF PoolInv
<1> QED
  BY <1>1 DEF PoolUpdated, StakerUpdated, Stream, Staking

(* What a handler writes of the pool and of a staker it has updated.       *)
LEMMA UpdatedRecords ==
  ASSUME SupplyInv, LedgerInv, NEW p \in Pools, PoolInv(p), NEW a \in Accounts,
         NEW supply \in Nat, NEW balance \in Nat, NEW wallet \in Nat, NEW rewards \in Nat
  PROVE  /\ [PoolUpdated(p) EXCEPT !.totalSupply = supply] \in Stream
         /\ [StakerUpdated(p, a) EXCEPT !.balance = balance, !.wallet = wallet, !.rewards = rewards]
               \in Staking
<1>1. PoolUpdated(p) \in Stream /\ StakerUpdated(p, a) \in Staking
  BY UpdatesKeepTypes
<1> QED
  BY <1>1 DEF Stream, Staking

(* No step of a pool leaves it, or what others hold, short.                *)
LEMMA PoolKeeps ==
  ASSUME SupplyInv, LedgerInv, AdminInv, PoolsInv, NEW p \in Pools, PoolStep(p)
  PROVE  LedgerInv' /\ PoolsInv' /\ OthersKeep(p)
<1>1. /\ PoolInv(p) /\ pool \in [Pools -> Stream] /\ staker \in [Pools -> [Accounts -> Staking]]
      /\ p \in Releasers /\ Pools \subseteq Releasers /\ now' = now /\ now \in Nat
      /\ aura[p] \in Nat /\ pendingPenalty[p] \in Nat /\ StakeAmounts \subseteq Nat
      /\ duration \in Nat \ {0} /\ Precision \in Nat \ {0} /\ PoolFunds \subseteq Nat
  BY ReleasersKeepToken, PoolAssumption, PoolIsTyped DEF PoolsInv, tokenRest
<1>2. /\ pool[p] \in Stream /\ staker[p] \in [Accounts -> Staking]
      /\ RewardPerToken(p) \in Nat /\ LastTimeRewardApplicable(p) \in Nat
      /\ \A a \in Accounts : Earned(p, a) \in Nat /\ staker[p][a] \in Staking
  BY <1>1, PoolIsTyped, RewardPerTokenGrows, EarnedIsOwed
<1>3. ASSUME LedgerInv', OthersKeep(p), PoolInv(p)',
             pool' = [pool EXCEPT ![p] = pool'[p]], staker' = [staker EXCEPT ![p] = staker'[p]]
      PROVE  LedgerInv' /\ PoolsInv' /\ OthersKeep(p)
  <2>1. pool'[p] \in Stream /\ staker'[p] \in [Accounts -> Staking]
    BY <1>3 DEF PoolInv
  <2>2. pool' \in [Pools -> Stream] /\ staker' \in [Pools -> [Accounts -> Staking]]
    BY <1>1, <1>3, <2>1
  <2>3. ASSUME NEW q \in Pools, q # p
        PROVE  PoolInv(q)'
    <3>1. pool'[q] = pool[q] /\ staker'[q] = staker[q]
      BY <1>1, <1>3, <2>3
    <3>2. aura'[q] = aura[q] /\ pendingPenalty'[q] = pendingPenalty[q] /\ aura[q] \in Nat
      BY <1>1, <1>3, <2>3, PoolIsTyped DEF OthersKeep, PoolsInv
    <3> QED
      BY <1>1, <3>1, <3>2, PoolUntouched DEF PoolsInv
  <2> QED
    BY <1>3, <2>2, <2>3 DEF PoolsInv
<1>4. CASE \E amount \in PoolFunds : FundPool(p, amount)
  <2>1. PICK amount \in Nat : Transfer(deployer, p, amount) /\ UNCHANGED <<pendingPenalty, pool, staker>>
    BY <1>1, <1>4 DEF FundPool, payoutVars, poolVars
  <2>2. LedgerInv' /\ OthersKeep(p) /\ aura'[p] = aura[p] + amount
    BY <1>1, <2>1, FundingMoves
  <2>3. PoolInv(p)'
    BY <1>1, <2>1, <2>2, PoolUntouched
  <2> QED
    BY <1>1, <1>3, <2>1, <2>2, <2>3
<1>5. ASSUME NEW sender \in Accounts, NEW a \in Accounts, NEW amount \in StakeAmounts,
             Stake(p, sender, a, amount)
      PROVE  LedgerInv' /\ PoolsInv' /\ OthersKeep(p)
  <2> DEFINE staked == [StakerUpdated(p, a) EXCEPT !.balance = @ + amount]
             half == [staker EXCEPT ![p][a] = staked]
  <2>1. /\ amount \in Nat /\ amount <= staker[p][sender].wallet
        /\ pool' = [pool EXCEPT ![p] = [PoolUpdated(p) EXCEPT !.totalSupply = @ + amount]]
        /\ staker' = [staker EXCEPT ![p][a] = staked, ![p][sender].wallet = @ - amount]
        /\ UNCHANGED <<aura, pendingPenalty>>
    BY <1>1, <1>5 DEF Stake, tokenVars, payoutVars
  <2>15. staker' = [half EXCEPT ![p][sender].wallet = staker[p][sender].wallet - amount]
    BY <2>1
  <2>2. /\ staked \in Staking /\ staked.wallet = staker[p][a].wallet
        /\ staked.balance = staker[p][a].balance + amount
        /\ staked.paid = RewardPerToken(p) /\ staked.rewards = Earned(p, a)
    <3>1. staker[p][a].balance + amount \in Nat /\ StakerUpdated(p, a) \in Staking
      BY <1>1, <2>1, UpdatesKeepTypes, PoolIsTyped
    <3>2. staked = [StakerUpdated(p, a) EXCEPT !.balance = staker[p][a].balance + amount]
      BY <1>1, <2>1, UpdatesKeepTypes
    <3>3. /\ StakerUpdated(p, a).wallet = staker[p][a].wallet
          /\ StakerUpdated(p, a).paid = RewardPerToken(p) /\ StakerUpdated(p, a).rewards = Earned(p, a)
      BY <1>1, <2>1, UpdatesKeepTypes
    <3> HIDE DEF staked
    <3> QED
      BY <3>1, <3>2, <3>3 DEF Staking
  <2> HIDE DEF staked
  <2>3. /\ half \in [Pools -> [Accounts -> Staking]] /\ half[p][a] = staked
        /\ \A b \in Accounts \ {a} : half[p][b] = staker[p][b]
        /\ \A q \in Pools \ {p} : half[q] = staker[q]
    BY <1>1, <2>2
  <2> HIDE DEF half
  <2>4. half[p][sender] \in Staking /\ half[p][sender].wallet = staker[p][sender].wallet
    BY <2>2, <2>3
  <2>5. half[p][sender].wallet - amount \in Nat
    BY <2>1, <2>4 DEF Staking
  <2>6. [half[p][sender] EXCEPT !.wallet = @ - amount] \in Staking
    BY <2>4, <2>5 DEF Staking
  <2>7. /\ staker' \in [Pools -> [Accounts -> Staking]]
        /\ staker'[p][sender] = [half[p][sender] EXCEPT !.wallet = @ - amount]
        /\ \A b \in Accounts \ {sender} : staker'[p][b] = half[p][b]
        /\ \A q \in Pools \ {p} : staker'[q] = staker[q]
    BY <2>3, <2>4, <2>6, <2>15
  <2>8. \A b \in Accounts : /\ staker'[p][b].balance = half[p][b].balance
                            /\ staker'[p][b].paid = half[p][b].paid
                            /\ staker'[p][b].rewards = half[p][b].rewards
    BY <2>3, <2>4, <2>7 DEF Staking
  <2>9. /\ pool'[p] \in Stream /\ pool'[p].periodFinish = pool[p].periodFinish
        /\ pool'[p].rewardRate = pool[p].rewardRate /\ pool'[p].rewardPerTokenStored = RewardPerToken(p)
        /\ pool'[p].lastUpdateTime = LastTimeRewardApplicable(p)
        /\ pool'[p].totalSupply = pool[p].totalSupply + amount
        /\ pool' = [pool EXCEPT ![p] = pool'[p]]
    <3>1. pool[p].totalSupply + amount \in Nat /\ PoolUpdated(p).totalSupply = pool[p].totalSupply
      BY <1>1, <2>1, UpdatesKeepTypes, PoolIsTyped
    <3>2. pool'[p] = [PoolUpdated(p) EXCEPT !.totalSupply = pool[p].totalSupply + amount]
      BY <1>1, <2>1, <3>1
    <3>3. pool' = [pool EXCEPT ![p] = pool'[p]]
      BY <1>1, <2>1
    <3>4. /\ PoolUpdated(p) \in Stream
          /\ PoolUpdated(p).periodFinish = pool[p].periodFinish
          /\ PoolUpdated(p).rewardRate = pool[p].rewardRate
          /\ PoolUpdated(p).rewardPerTokenStored = RewardPerToken(p)
          /\ PoolUpdated(p).lastUpdateTime = LastTimeRewardApplicable(p)
      BY <1>1, <2>1, UpdatesKeepTypes
    <3> QED
      BY <3>1, <3>2, <3>3, <3>4 DEF Stream
  <2>10. /\ staker'[p] \in [Accounts -> Staking] /\ staker'[p][a].paid = RewardPerToken(p)
         /\ staker'[p][a].rewards + 0 = Earned(p, a)
         /\ \A b \in Accounts \ {a} : /\ staker'[p][b].balance = staker[p][b].balance
                                       /\ staker'[p][b].paid = staker[p][b].paid
                                       /\ staker'[p][b].rewards = staker[p][b].rewards
    BY <1>2, <2>2, <2>3, <2>7, <2>8
  <2>11. pool'[p].totalSupply - pool[p].totalSupply = staker'[p][a].balance - staker[p][a].balance
    <3>1. staker'[p][a].balance = staker[p][a].balance + amount
      BY <2>2, <2>3, <2>8
    <3>2. staker[p][a].balance \in Nat /\ pool[p].totalSupply \in Nat
      BY <1>1, PoolIsTyped
    <3> QED
      BY <2>1, <2>9, <3>1, <3>2
  <2>12. PoolInv(p)'
    <3>1. /\ aura'[p] = aura[p] - (0 - 0) /\ 0 - 0 <= aura[p] /\ 0 \in Nat /\ 0 <= 0
          /\ pendingPenalty'[p] = pendingPenalty[p] + 0
      BY <1>1, <2>1
    <3> QED
      BY <1>1, <2>9, <2>10, <2>11, <3>1, SettlingIsBacked
  <2>13. LedgerInv' /\ OthersKeep(p)
    BY <2>1 DEF LedgerInv, OthersKeep
  <2>14. staker' = [staker EXCEPT ![p] = staker'[p]]
    BY <1>1, <2>7
  <2> QED
    BY <1>3, <2>9, <2>12, <2>13, <2>14
<1>6. ASSUME NEW a \in Accounts, NEW paidOut \in Nat, NEW kept \in Nat, kept <= paidOut,
             NEW supply \in Nat, NEW balance \in Nat, NEW wallet \in Nat, NEW rewards \in Nat,
             pool' = [pool EXCEPT ![p] = [PoolUpdated(p) EXCEPT !.totalSupply = supply]],
             staker' = [staker EXCEPT ![p][a] =
               [StakerUpdated(p, a) EXCEPT !.balance = balance, !.wallet = wallet, !.rewards = rewards]],
             rewards + paidOut = Earned(p, a),
             supply - pool[p].totalSupply = balance - staker[p][a].balance,
             LedgerInv', OthersKeep(p), paidOut - kept <= aura[p],
             aura'[p] = aura[p] - (paidOut - kept), pendingPenalty'[p] = pendingPenalty[p] + kept
      PROVE  LedgerInv' /\ PoolsInv' /\ OthersKeep(p)
  <2> DEFINE settled == [StakerUpdated(p, a) EXCEPT !.balance = balance, !.wallet = wallet,
                                                    !.rewards = rewards]
  <2>1. settled \in Staking /\ [PoolUpdated(p) EXCEPT !.totalSupply = supply] \in Stream
    BY <1>1, UpdatedRecords
  <2>2. settled.balance = balance /\ settled.rewards = rewards /\ settled.paid = RewardPerToken(p)
    BY <1>2 DEF StakerUpdated, Staking
  <2>3. staker' = [staker EXCEPT ![p][a] = settled]
    BY <1>6
  <2> HIDE DEF settled
  <2>4. /\ staker'[p] \in [Accounts -> Staking] /\ staker'[p][a] = settled
        /\ \A b \in Accounts \ {a} : staker'[p][b] = staker[p][b]
        /\ staker' = [staker EXCEPT ![p] = staker'[p]]
    BY <1>1, <2>1, <2>3
  <2>5. /\ pool'[p] \in Stream /\ pool'[p].periodFinish = pool[p].periodFinish
        /\ pool'[p].rewardRate = pool[p].rewardRate /\ pool'[p].rewardPerTokenStored = RewardPerToken(p)
        /\ pool'[p].lastUpdateTime = LastTimeRewardApplicable(p)
        /\ pool'[p].totalSupply = supply /\ pool' = [pool EXCEPT ![p] = pool'[p]]
    BY <1>1, <1>2, <1>6, <2>1 DEF PoolUpdated, Stream
  <2>6. PoolInv(p)'
    BY <1>1, <1>6, <2>2, <2>4, <2>5, SettlingIsBacked
  <2> QED
    BY <1>3, <1>6, <2>4, <2>5, <2>6
<1>7. ASSUME NEW a \in Accounts, NEW amount \in StakeAmounts, amount <= staker[p][a].balance
      PROVE  /\ amount \in Nat /\ staker[p][a].balance - amount \in Nat
             /\ staker[p][a].wallet + amount \in Nat /\ pool[p].totalSupply - amount \in Nat
             /\ (pool[p].totalSupply - amount) - pool[p].totalSupply
                   = (staker[p][a].balance - amount) - staker[p][a].balance
  <2>1. amount \in Nat /\ staker[p][a].balance \in Nat /\ staker[p][a].wallet \in Nat
        /\ pool[p].totalSupply \in Nat
    BY <1>1, PoolIsTyped
  <2>2. staker[p][a].balance <= pool[p].totalSupply
    <3> DEFINE stakes == [b \in Accounts |-> staker[p][b].balance]
    <3>1. \A b \in Accounts : stakes[b] \in Nat
      BY <1>1, PoolIsTyped
    <3>2. stakes[a] <= SumFunctionOnSet(stakes, Accounts)
      <4> HIDE DEF stakes
      <4> QED
        BY <3>1, PayoutAssumption, SumCoversEach
    <3> QED
      BY <1>1, <3>2 DEF PoolInv, StakesOf
  <2> QED
    BY <1>7, <2>1, <2>2
<1>8. ASSUME NEW a \in Accounts, NEW amount \in StakeAmounts, Withdraw(p, a, amount)
      PROVE  LedgerInv' /\ PoolsInv' /\ OthersKeep(p)
  <2>1. /\ amount <= staker[p][a].balance /\ UNCHANGED <<aura, pendingPenalty>>
        /\ pool' = [pool EXCEPT ![p] = [PoolUpdated(p) EXCEPT !.totalSupply = @ - amount]]
        /\ staker' = [staker EXCEPT ![p][a] =
             [StakerUpdated(p, a) EXCEPT !.balance = @ - amount, !.wallet = @ + amount]]
    BY <1>8 DEF Withdraw, tokenVars, payoutVars
  <2>2. PoolUpdated(p).totalSupply = pool[p].totalSupply
    BY <1>2 DEF PoolUpdated, Stream
  <2>3. /\ StakerUpdated(p, a).balance = staker[p][a].balance
        /\ StakerUpdated(p, a).wallet = staker[p][a].wallet
        /\ StakerUpdated(p, a).rewards = Earned(p, a)
        /\ StakerUpdated(p, a) = [StakerUpdated(p, a) EXCEPT !.rewards = Earned(p, a)]
    BY <1>2 DEF StakerUpdated, Staking
  <2>4. pool' = [pool EXCEPT ![p] = [PoolUpdated(p) EXCEPT !.totalSupply = pool[p].totalSupply - amount]]
    BY <2>1, <2>2
  <2>5. staker' = [staker EXCEPT ![p][a] =
           [StakerUpdated(p, a) EXCEPT !.balance = staker[p][a].balance - amount,
                                       !.wallet = staker[p][a].wallet + amount,
                                       !.rewards = Earned(p, a)]]
    BY <2>1, <2>3 DEF StakerUpdated
  <2>6. LedgerInv' /\ OthersKeep(p)
    BY <2>1 DEF LedgerInv, OthersKeep
  <2>7. /\ aura'[p] = aura[p] - (0 - 0) /\ 0 - 0 <= aura[p] /\ 0 \in Nat /\ 0 <= 0
        /\ pendingPenalty'[p] = pendingPenalty[p] + 0 /\ Earned(p, a) + 0 = Earned(p, a)
        /\ Earned(p, a) \in Nat
    BY <1>1, <1>2, <2>1
  <2>8. /\ staker[p][a].balance - amount \in Nat
        /\ staker[p][a].wallet + amount \in Nat /\ pool[p].totalSupply - amount \in Nat
        /\ (pool[p].totalSupply - amount) - pool[p].totalSupply
              = (staker[p][a].balance - amount) - staker[p][a].balance
    BY <1>7, <2>1
  <2> QED
    BY <1>6, <2>4, <2>5, <2>6, <2>7, <2>8
<1>9. ASSUME NEW a \in Accounts, NEW amount \in StakeAmounts, NEW lock \in BOOLEAN,
             WithdrawAndClaim(p, a, amount, lock)
      PROVE  LedgerInv' /\ PoolsInv' /\ OthersKeep(p)
  <2> DEFINE reward == Earned(p, a)
  <2>1. /\ amount <= staker[p][a].balance
        /\ pool' = [pool EXCEPT ![p] = [PoolUpdated(p) EXCEPT !.totalSupply = @ - amount]]
        /\ staker' = [staker EXCEPT ![p][a] =
             [StakerUpdated(p, a) EXCEPT !.balance = @ - amount, !.wallet = @ + amount, !.rewards = 0]]
        /\ PayOrLock(p, a, reward, lock, PenaltyOf(reward))
    BY <1>9 DEF WithdrawAndClaim
  <2>2. /\ PoolUpdated(p).totalSupply = pool[p].totalSupply
        /\ StakerUpdated(p, a).balance = staker[p][a].balance
        /\ StakerUpdated(p, a).wallet = staker[p][a].wallet
    BY <1>1, UpdatesKeepTypes
  <2>3. pool' = [pool EXCEPT ![p] = [PoolUpdated(p) EXCEPT !.totalSupply = pool[p].totalSupply - amount]]
    BY <2>1, <2>2
  <2>4. staker' = [staker EXCEPT ![p][a] =
           [StakerUpdated(p, a) EXCEPT !.balance = staker[p][a].balance - amount,
                                       !.wallet = staker[p][a].wallet + amount,
                                       !.rewards = 0]]
    BY <2>1, <2>2
  <2>5. reward \in Nat /\ PenaltyOf(reward) \in Nat /\ PenaltyOf(reward) <= reward
    BY <1>2, PenaltyIsPart
  <2> HIDE DEF reward
  <2>6. PICK kept \in {0, PenaltyOf(reward)} :
          /\ LedgerInv' /\ OthersKeep(p)
          /\ reward - kept <= aura[p] /\ aura'[p] = aura[p] - (reward - kept)
          /\ pendingPenalty'[p] = pendingPenalty[p] + kept
    BY <1>1, <2>1, <2>5, PaymentMoves
  <2>7. kept \in Nat /\ kept <= reward /\ 0 + reward = Earned(p, a) /\ 0 \in Nat
    BY <2>5, <2>6 DEF reward
  <2>8. /\ staker[p][a].balance - amount \in Nat
        /\ staker[p][a].wallet + amount \in Nat /\ pool[p].totalSupply - amount \in Nat
        /\ (pool[p].totalSupply - amount) - pool[p].totalSupply
              = (staker[p][a].balance - amount) - staker[p][a].balance
    BY <1>7, <2>1
  <2> QED
    BY <1>6, <2>3, <2>4, <2>5, <2>6, <2>7, <2>8
<1>10. ASSUME NEW a \in Accounts, NEW lock \in BOOLEAN, GetReward(p, a, lock)
       PROVE  LedgerInv' /\ PoolsInv' /\ OthersKeep(p)
  <2> DEFINE reward == Earned(p, a)
  <2>1. /\ pool' = [pool EXCEPT ![p] = PoolUpdated(p)]
        /\ staker' = [staker EXCEPT ![p][a] = [StakerUpdated(p, a) EXCEPT !.rewards = 0]]
        /\ \/ 0 < reward /\ PayOrLock(p, a, reward, lock, PenaltyOf(reward))
           \/ reward = 0 /\ UNCHANGED <<aura, pendingPenalty>>
    BY <1>10 DEF GetReward
  <2>2. /\ pool[p].totalSupply \in Nat /\ staker[p][a].balance \in Nat /\ staker[p][a].wallet \in Nat
        /\ pool[p].totalSupply - pool[p].totalSupply = staker[p][a].balance - staker[p][a].balance
    BY <1>1, PoolIsTyped
  <2>3. /\ PoolUpdated(p) = [PoolUpdated(p) EXCEPT !.totalSupply = pool[p].totalSupply]
        /\ [StakerUpdated(p, a) EXCEPT !.rewards = 0]
              = [StakerUpdated(p, a) EXCEPT !.balance = staker[p][a].balance,
                                            !.wallet = staker[p][a].wallet, !.rewards = 0]
    <3>1. /\ PoolUpdated(p) \in Stream /\ StakerUpdated(p, a) \in Staking
          /\ PoolUpdated(p).totalSupply = pool[p].totalSupply
          /\ StakerUpdated(p, a).balance = staker[p][a].balance
          /\ StakerUpdated(p, a).wallet = staker[p][a].wallet
      BY <1>1, UpdatesKeepTypes
    <3> QED
      BY <3>1 DEF Stream, Staking
  <2>4. pool' = [pool EXCEPT ![p] = [PoolUpdated(p) EXCEPT !.totalSupply = pool[p].totalSupply]]
    BY <2>1, <2>3
  <2>5. staker' = [staker EXCEPT ![p][a] =
           [StakerUpdated(p, a) EXCEPT !.balance = staker[p][a].balance,
                                       !.wallet = staker[p][a].wallet, !.rewards = 0]]
    BY <2>1, <2>3
  <2>6. reward \in Nat /\ PenaltyOf(reward) \in Nat /\ PenaltyOf(reward) <= reward
    BY <1>2, PenaltyIsPart
  <2> HIDE DEF reward
  <2>7. PICK kept \in {0, PenaltyOf(reward)} :
          /\ LedgerInv' /\ OthersKeep(p)
          /\ reward - kept <= aura[p] /\ aura'[p] = aura[p] - (reward - kept)
          /\ pendingPenalty'[p] = pendingPenalty[p] + kept
    <3>1. CASE PayOrLock(p, a, reward, lock, PenaltyOf(reward))
      BY <1>1, <2>6, <3>1, PaymentMoves
    <3>2. CASE reward = 0 /\ UNCHANGED <<aura, pendingPenalty>>
      <4>1. /\ LedgerInv' /\ OthersKeep(p) /\ 0 \in {0, PenaltyOf(reward)}
            /\ reward - 0 <= aura[p] /\ aura'[p] = aura[p] - (reward - 0)
            /\ pendingPenalty'[p] = pendingPenalty[p] + 0
        BY <1>1, <3>2 DEF LedgerInv, OthersKeep
      <4> QED
        BY <4>1
    <3> QED
      BY <2>1, <3>1, <3>2
  <2>8. kept \in Nat /\ kept <= reward /\ 0 + reward = Earned(p, a) /\ 0 \in Nat
    BY <2>6, <2>7 DEF reward
  <2> QED
    BY <1>6, <2>2, <2>4, <2>5, <2>6, <2>7, <2>8
<1>11. CASE ForwardPoolPenalty(p)
  <2>1. ForwardPenalty(p) /\ UNCHANGED <<pool, staker>>
    BY <1>11 DEF ForwardPoolPenalty, poolVars
  <2>2. /\ LedgerInv' /\ OthersKeep(p) /\ pendingPenalty[p] <= aura[p]
        /\ aura'[p] = aura[p] - pendingPenalty[p] /\ pendingPenalty'[p] = 0
    BY <1>1, <2>1, ForwardMoves
  <2>3. /\ aura'[p] \in Nat /\ pendingPenalty'[p] \in Nat /\ pendingPenalty'[p] <= pendingPenalty[p]
        /\ aura[p] - pendingPenalty[p] <= aura'[p] - pendingPenalty'[p]
    BY <1>1, <2>2
  <2>4. PoolInv(p)'
    BY <1>1, <2>1, <2>3, PoolPassesOn
  <2> QED
    BY <1>1, <1>3, <2>1, <2>2, <2>4
<1>12. ASSUME pool[p].rewardRate = 0, now <= now', aura'[p] \in Nat, UNCHANGED <<pendingPenalty, staker>>,
              pool'[p] \in Stream, pool'[p].lastUpdateTime <= now',
              pool'[p].lastUpdateTime <= pool'[p].periodFinish,
              pool'[p].rewardPerTokenStored = pool[p].rewardPerTokenStored,
              pool'[p].totalSupply = pool[p].totalSupply,
              (pool'[p].periodFinish - pool'[p].lastUpdateTime) * pool'[p].rewardRate <= aura'[p]
       PROVE  PoolInv(p)'
  <2>1. /\ AllOwedAt(p, 0) = 0 /\ pool[p].rewardPerTokenStored = 0 /\ pendingPenalty[p] = 0
        /\ \A a \in Accounts : staker[p][a].rewards = 0
    BY <1>1, <1>12, IdlePoolOwesNothing
  <2>2. AllOwedAt(p, pool[p].rewardPerTokenStored)' = 0 /\ StakesOf(p)' = StakesOf(p)
    BY <1>12, <2>1 DEF AllOwedAt, OwedAt, StakesOf
  <2>3. StreamFrom(p, pool[p].lastUpdateTime)' \in Nat
    <3>1. pool'[p].periodFinish - pool'[p].lastUpdateTime \in Nat /\ pool'[p].rewardRate \in Nat
      BY <1>12 DEF Stream
    <3> QED
      BY <3>1, ProductIsNat DEF StreamFrom
  <2>4. StreamFrom(p, pool[p].lastUpdateTime)' * Precision <= aura'[p] * Precision
    BY <1>1, <1>12, <2>3, ProductIsMonotone DEF StreamFrom
  <2>5. AllOwedAt(p, pool[p].rewardPerTokenStored)'
          + (pendingPenalty'[p] + StreamFrom(p, pool[p].lastUpdateTime)') * Precision
          <= aura'[p] * Precision
    <3>1. /\ pendingPenalty'[p] + StreamFrom(p, pool[p].lastUpdateTime)'
                = StreamFrom(p, pool[p].lastUpdateTime)'
          /\ StreamFrom(p, pool[p].lastUpdateTime)' * Precision \in Nat
      BY <1>1, <1>12, <2>1, <2>3, ProductIsNat
    <3> QED
      BY <2>2, <2>4, <3>1
  <2>6. /\ \A a \in Accounts : staker'[p][a].paid <= pool'[p].rewardPerTokenStored
        /\ staker'[p] \in [Accounts -> Staking] /\ pool'[p].totalSupply = StakesOf(p)'
    BY <1>1, <1>12, <2>2 DEF PoolInv
  <2> QED
    BY <1>12, <2>1, <2>5, <2>6 DEF PoolInv
<1>13. CASE RescueReward(p)
  <2>1. /\ pool[p].rewardRate = 0 /\ Transfer(p, admin[p], aura[p])
        /\ UNCHANGED <<pendingPenalty, pool, staker>>
    BY <1>13 DEF RescueReward, payoutVars, poolVars
  <2>2. LedgerInv' /\ OthersKeep(p) /\ aura'[p] = 0
    BY <1>1, <2>1, TakingMoves
  <2>3. PoolInv(p)'
    <3>1. /\ pool[p].lastUpdateTime <= now /\ pool[p].lastUpdateTime <= pool[p].periodFinish
          /\ pool[p] \in Stream
      BY <1>1 DEF PoolInv
    <3>2. (pool[p].periodFinish - pool[p].lastUpdateTime) * 0 <= 0
      BY <3>1 DEF Stream
    <3> QED
      BY <1>1, <1>12, <2>1, <2>2, <3>1, <3>2
  <2> QED
    BY <1>1, <1>3, <2>1, <2>2, <2>3
<1>14. ASSUME NEW caller \in Accounts \cup Admins, InitialiseRewards(p, caller)
       PROVE  LedgerInv' /\ PoolsInv' /\ OthersKeep(p)
  <2> DEFINE rate == aura[p] \div duration
  <2>1. /\ pool[p].rewardRate = 0 /\ UNCHANGED <<aura, pendingPenalty, staker>>
        /\ pool' = [pool EXCEPT ![p] = [pool[p] EXCEPT !.rewardRate = rate, !.lastUpdateTime = now,
                                                       !.periodFinish = now + duration]]
    BY <1>14 DEF InitialiseRewards, tokenVars, payoutVars
  <2>2. rate \in Nat /\ rate * duration <= aura[p]
    BY <1>1, DivIsFloor
  <2> HIDE DEF rate
  <2>3. /\ pool'[p] \in Stream /\ pool'[p].lastUpdateTime = now /\ pool'[p].periodFinish = now + duration
        /\ pool'[p].rewardRate = rate /\ pool'[p].totalSupply = pool[p].totalSupply
        /\ pool'[p].rewardPerTokenStored = pool[p].rewardPerTokenStored
        /\ pool' = [pool EXCEPT ![p] = pool'[p]]
    <3> DEFINE started == [pool[p] EXCEPT !.rewardRate = rate, !.lastUpdateTime = now,
                                          !.periodFinish = now + duration]
    <3>1. now + duration \in Nat
      BY <1>1
    <3>2. /\ started \in Stream /\ started.lastUpdateTime = now /\ started.periodFinish = now + duration
          /\ started.rewardRate = rate /\ started.totalSupply = pool[p].totalSupply
          /\ started.rewardPerTokenStored = pool[p].rewardPerTokenStored
      <4> HIDE DEF rate
      <4> QED
        BY <1>1, <1>2, <2>2, <3>1 DEF Stream
    <3>3. pool' = [pool EXCEPT ![p] = started]
      BY <2>1
    <3> HIDE DEF started
    <3>4. pool'[p] = started
      BY <1>1, <3>3
    <3> QED
      BY <3>2, <3>3, <3>4
  <2>4. ((now + duration) - now) * rate <= aura[p]
    <3>1. (now + duration) - now = duration /\ duration * rate = rate * duration
      BY <1>1, <2>2, SMT
    <3> QED
      BY <2>2, <3>1
  <2>5. now <= now + duration
    BY <1>1
  <2>6. PoolInv(p)'
    BY <1>1, <1>12, <2>1, <2>3, <2>4, <2>5
  <2> QED
    BY <1>1, <1>3, <2>1, <2>3, <2>6 DEF LedgerInv, OthersKeep
<1> QED
  BY <1>1, <1>4, <1>5, <1>8, <1>9, <1>10, <1>11, <1>13, <1>14 DEF PoolStep

-----------------------------------------------------------------------------
(* All of them on the one ledger.                                          *)

HoldingsInv ==
  /\ LedgerInv /\ AdminInv
  /\ DropInv /\ EscrowsHold /\ PoolsInv

(* Nothing has been minted yet, and nobody is owed anything.               *)
LEMMA HoldingsStart == ReleasesInit => HoldingsInv
<1> SUFFICES ASSUME ReleasesInit PROVE HoldingsInv
  OBVIOUS
<1>1. /\ now = 0 /\ aura = [h \in Holders |-> 0] /\ pendingPenalty = [x \in Releasers |-> 0]
      /\ Drops \subseteq Releasers /\ Escrows \subseteq Releasers /\ Pools \subseteq Releasers
      /\ \A x \in Releasers : aura[x] = 0 /\ pendingPenalty[x] = 0
  BY ReleasersHold, DropAssumption, EscrowAssumption, PoolAssumption DEF ReleasesInit, TokenInit
<1>2. LedgerInv
  BY <1>1 DEF LedgerInv
<1>3. AdminInv
  BY DEF ReleasesInit, AdminInv
<1>4. DropInv
  <2>1. startTime = [d \in Drops |-> deployTime + startDelay] /\ deployTime + startDelay \in Nat
    <3>1. startTime = [d \in Drops |-> deployTime + startDelay]
      BY DEF ReleasesInit, DropInit
    <3>2. deployTime + startDelay \in Nat
      <4>1. startDelay \in Nat
        BY DropAssumption
      <4> QED
        BY <4>1 DEF deployTime
    <3> QED
      BY <3>1, <3>2
  <2>2. hasClaimed = [d \in Drops |-> {}] /\ funded = {}
    BY DEF ReleasesInit, DropInit
  <2> QED
    BY <1>1, <2>1, <2>2 DEF DropInv
<1>5. EscrowsHold
  <2> SUFFICES ASSUME NEW e \in Escrows PROVE aura[e] = OwedByEscrow(e)
    BY DEF EscrowsHold
  <2> DEFINE unpaid == [r \in Accounts |-> Unpaid(e, r)]
  <2>1. \A r \in Accounts : unpaid[r] = 0
    BY DEF ReleasesInit, EscrowInit, Unpaid
  <2>2. SumFunctionOnSet(unpaid, Accounts) = 0
    <3> HIDE DEF unpaid
    <3> QED
      BY <2>1, PayoutAssumption, SumOfZeros
  <2> QED
    BY <1>1, <2>2 DEF OwedByEscrow
<1>6. PoolsInv
  <2> DEFINE idle == [periodFinish |-> 0, rewardRate |-> 0, lastUpdateTime |-> 0,
                      rewardPerTokenStored |-> 0, totalSupply |-> 0]
             fresh(a) == [balance |-> 0, paid |-> 0, rewards |-> 0, wallet |-> InitialStaking[a]]
  <2>1. pool = [p \in Pools |-> idle] /\ staker = [p \in Pools |-> [a \in Accounts |-> fresh(a)]]
    BY DEF ReleasesInit, PoolInit
  <2>2. idle \in Stream /\ \A a \in Accounts : fresh(a) \in Staking
    BY PoolAssumption DEF Stream, Staking
  <2>3. ASSUME NEW p \in Pools PROVE PoolInv(p)
    <3>1. /\ pool[p] = idle /\ pendingPenalty[p] = 0 /\ aura[p] = 0 /\ Precision \in Nat
      BY <1>1, <2>1, PoolAssumption
    <3> HIDE DEF fresh
    <3>6. ASSUME NEW a \in Accounts
          PROVE  staker[p][a].balance = 0 /\ staker[p][a].paid = 0 /\ staker[p][a].rewards = 0
      <4>1. staker[p][a] = fresh(a)
        BY <2>1
      <4> QED
        BY <4>1 DEF fresh
    <3>2. StakesOf(p) = 0
      <4> DEFINE stakes == [a \in Accounts |-> staker[p][a].balance]
      <4>1. \A a \in Accounts : stakes[a] = 0
        BY <3>6
      <4> HIDE DEF stakes
      <4>2. SumFunctionOnSet(stakes, Accounts) = 0
        BY <4>1, PayoutAssumption, SumOfZeros
      <4> QED
        BY <4>2 DEF stakes, StakesOf
    <3>3. AllOwedAt(p, 0) = 0
      <4> DEFINE owed == [a \in Accounts |-> OwedAt(p, a, 0)]
      <4>1. \A a \in Accounts : owed[a] = 0
        <5> TAKE a \in Accounts
        <5>1. 0 * (0 - 0) + 0 * Precision = 0
          BY <3>1
        <5>2. OwedAt(p, a, 0) = 0 * (0 - 0) + 0 * Precision
          BY <3>6 DEF OwedAt
        <5> QED
          BY <5>1, <5>2
      <4> HIDE DEF owed
      <4>2. SumFunctionOnSet(owed, Accounts) = 0
        BY <4>1, PayoutAssumption, SumOfZeros
      <4> QED
        BY <4>2 DEF owed, AllOwedAt
    <3>4. StreamFrom(p, 0) = 0
      BY <3>1 DEF StreamFrom
    <3>5. pool[p] \in Stream /\ staker[p] \in [Accounts -> Staking]
      BY <2>1, <2>2
    <3>7. /\ pool[p].periodFinish = 0 /\ pool[p].rewardRate = 0 /\ pool[p].lastUpdateTime = 0
          /\ pool[p].rewardPerTokenStored = 0 /\ pool[p].totalSupply = 0
      BY <3>1
    <3>8. 0 + (0 + 0) * Precision <= 0 * Precision
      BY <3>1
    <3> HIDE DEF idle
    <3> QED
      BY <1>1, <3>1, <3>2, <3>3, <3>4, <3>5, <3>6, <3>7, <3>8 DEF PoolInv
  <2>4. pool \in [Pools -> Stream] /\ staker \in [Pools -> [Accounts -> Staking]]
    BY <2>1, <2>2
  <2> QED
    BY <2>3, <2>4 DEF PoolsInv
<1> QED
  BY <1>2, <1>3, <1>4, <1>5, <1>6 DEF HoldingsInv

(* A transaction of one contract leaves what the others are for alone.     *)
LEMMA PoolsUntouched ==
  ASSUME SupplyInv, LedgerInv, PoolsInv, now' \in Nat, now <= now', UNCHANGED poolVars,
         \A p \in Pools : aura'[p] = aura[p] /\ pendingPenalty'[p] = pendingPenalty[p]
  PROVE  PoolsInv'
<1>1. pool' = pool /\ staker' = staker
  BY DEF poolVars
<1>2. ASSUME NEW p \in Pools PROVE PoolInv(p)'
  <2>1. PoolInv(p) /\ aura'[p] = aura[p] /\ pendingPenalty'[p] = pendingPenalty[p]
        /\ aura[p] \in Nat
    BY PoolIsTyped DEF PoolsInv
  <2>2. pool'[p] = pool[p] /\ staker'[p] = staker[p] /\ aura'[p] \in Nat /\ aura[p] <= aura'[p]
    BY <1>1, <2>1
  <2> QED
    BY <2>1, <2>2, PoolUntouched
<1> QED
  BY <1>1, <1>2 DEF PoolsInv

(* No step of the system leaves a drop, a vesting or a pool short.         *)
LEMMA HoldingsAreKept == SupplyInv /\ EscrowInv /\ HoldingsInv /\ [ReleasesNext]_vars => HoldingsInv'
<1> SUFFICES ASSUME SupplyInv, EscrowInv, HoldingsInv, [ReleasesNext]_vars
             PROVE  HoldingsInv'
  OBVIOUS
<1>1. /\ LedgerInv /\ AdminInv /\ DropInv /\ EscrowsHold /\ PoolsInv /\ now \in Nat
      /\ Drops \subseteq Releasers /\ Escrows \subseteq Releasers /\ Pools \subseteq Releasers
      /\ Drops \cap Escrows = {} /\ Drops \cap Pools = {} /\ Escrows \cap Pools = {}
  BY DropAssumption, EscrowAssumption, PoolAssumption, AddressAssumption DEF HoldingsInv, SupplyInv
<1>2. ASSUME LedgerInv', AdminInv', now' \in Nat, now <= now', UNCHANGED <<dropVars, escrowVars, poolVars>>,
             \A y \in Releasers : aura'[y] = aura[y] /\ pendingPenalty'[y] = pendingPenalty[y]
      PROVE  HoldingsInv'
  <2>1. DropInv'
    BY <1>1, <1>2, DropsUntouched
  <2>2. EscrowsHold'
    BY <1>1, <1>2, EscrowsUntouched DEF escrowVars
  <2>3. PoolsInv'
    BY <1>1, <1>2, PoolsUntouched
  <2> QED
    BY <1>2, <2>1, <2>2, <2>3 DEF HoldingsInv
<1>3. CASE LedgerStep
  <2>1. LedgerInv' /\ \A y \in Releasers : aura'[y] = aura[y] /\ pendingPenalty'[y] = pendingPenalty[y]
    BY <1>1, <1>3, LedgerStepMoves
  <2>2. admin' = admin /\ UNCHANGED <<dropVars, escrowVars, poolVars>>
    BY <1>3 DEF LedgerStep, payoutVars
  <2>3. now' \in Nat /\ now <= now'
    BY <1>1, <1>3 DEF LedgerStep, InitialiseToken, EmissionStep, SetBoosterOperator, UpdateOperator,
                      Mint, MinterMint, Tick
  <2> QED
    BY <1>1, <1>2, <2>1, <2>2, <2>3 DEF AdminInv
<1>4. ASSUME NEW x \in Releasers, AdminStep(x) PROVE HoldingsInv'
  <2>1. UNCHANGED <<tokenVars, pendingPenalty, dropVars, escrowVars, poolVars>>
    BY <1>4 DEF AdminStep, SetLocker, SetAdmin, ShutdownLocker
  <2>2. AdminInv'
    BY <1>1, <1>4 DEF AdminInv, AdminStep, SetLocker, SetAdmin, ShutdownLocker
  <2>3. now' = now /\ aura' = aura /\ LedgerInv'
    BY <1>1, <2>1 DEF tokenVars, LedgerInv
  <2> QED
    BY <1>1, <1>2, <2>1, <2>2, <2>3
<1>5. ASSUME NEW d \in Drops, DropStep(d), UNCHANGED <<escrowVars, poolVars>> PROVE HoldingsInv'
  <2>1. LedgerInv' /\ DropInv' /\ OthersKeep(d)
    BY <1>1, <1>5, DropKeeps
  <2>2. now' = now /\ admin' = admin
    BY <1>5, ReleasersKeepToken
       DEF DropStep, FundDrop, SetRoot, StartEarly, WithdrawExpired, RescueDrop, ClaimDrop,
           ForwardDropPenalty, ForwardPenalty, payoutVars, tokenRest
  <2>3. /\ \A e \in Escrows : aura'[e] = aura[e]
        /\ \A p \in Pools : aura'[p] = aura[p] /\ pendingPenalty'[p] = pendingPenalty[p]
    BY <1>1, <2>1 DEF OthersKeep
  <2>4. EscrowsHold'
    BY <1>1, <1>5, <2>3, EscrowsUntouched DEF escrowVars
  <2>5. PoolsInv'
    BY <1>1, <1>5, <2>2, <2>3, PoolsUntouched
  <2> QED
    BY <1>1, <2>1, <2>2, <2>4, <2>5 DEF HoldingsInv, AdminInv
<1>6. ASSUME NEW e \in Escrows, EscrowStep(e), UNCHANGED <<dropVars, poolVars>> PROVE HoldingsInv'
  <2>1. LedgerInv' /\ EscrowsHold' /\ OthersKeep(e)
    BY <1>1, <1>6, EscrowKeepsHolding
  <2>2. now' = now /\ admin' = admin
    BY <1>6, ReleasersKeepToken DEF EscrowStep, Fund, ClaimVested, Cancel, payoutVars, tokenRest
  <2>3. \A y \in Drops \cup Pools : aura'[y] = aura[y] /\ pendingPenalty'[y] = pendingPenalty[y]
    BY <1>1, <2>1 DEF OthersKeep
  <2>4. DropInv'
    BY <1>1, <1>6, <2>2, <2>3, DropsUntouched
  <2>5. PoolsInv'
    BY <1>1, <1>6, <2>2, <2>3, PoolsUntouched
  <2> QED
    BY <1>1, <2>1, <2>2, <2>4, <2>5 DEF HoldingsInv, AdminInv
<1>7. ASSUME NEW p \in Pools, PoolStep(p), UNCHANGED <<dropVars, escrowVars>> PROVE HoldingsInv'
  <2>1. LedgerInv' /\ PoolsInv' /\ OthersKeep(p)
    BY <1>1, <1>7, PoolKeeps
  <2>2. now' = now /\ admin' = admin
    BY <1>7, ReleasersKeepToken
       DEF PoolStep, FundPool, Stake, Withdraw, WithdrawAndClaim, GetReward, ForwardPoolPenalty,
           ForwardPenalty, RescueReward, InitialiseRewards, payoutVars, tokenRest
  <2>3. \A y \in Drops \cup Escrows : aura'[y] = aura[y] /\ pendingPenalty'[y] = pendingPenalty[y]
    BY <1>1, <2>1 DEF OthersKeep
  <2>4. DropInv'
    BY <1>1, <1>7, <2>2, <2>3, DropsUntouched
  <2>5. EscrowsHold'
    BY <1>1, <1>7, <2>3, EscrowsUntouched DEF escrowVars
  <2> QED
    BY <1>1, <2>1, <2>2, <2>4, <2>5 DEF HoldingsInv, AdminInv
<1>8. CASE UNCHANGED vars
  <2>1. now' = now /\ UNCHANGED <<aura, pendingPenalty, admin, dropVars, escrowVars, poolVars>>
    BY <1>8 DEF vars, tokenVars, payoutVars
  <2> QED
    BY <1>1, <1>2, <2>1 DEF LedgerInv, AdminInv
<1> QED
  BY <1>3, <1>4, <1>5, <1>6, <1>7, <1>8 DEF ReleasesNext

(* The three invariants hold in every state.                               *)
LEMMA HoldingsHold == ReleasesSpec => [](SupplyInv /\ EscrowInv /\ HoldingsInv)
<1>1. SupplyInv /\ EscrowInv /\ HoldingsInv /\ [ReleasesNext]_vars => HoldingsInv'
  BY HoldingsAreKept
<1> QED
  BY <1>1, HoldingsStart, SupplyIsKept, EscrowIsKept, PTL DEF ReleasesSpec

(* DropsCovered holds in every reachable state: whoever claims, locks,     *)
(* forwards and takes back what when, a funded drop keeps the leaf of      *)
(* everybody who has not claimed until it expires, and the penalties of    *)
(* the others always.                                                      *)
THEOREM DropsStayCovered == ReleasesSpec => []DropsCovered
<1>1. HoldingsInv => DropsCovered
  BY DEF HoldingsInv, DropInv, DropsCovered
<1> QED
  BY <1>1, HoldingsHold, PTL

(* VestingsCovered holds in every reachable state: an escrow holds to the  *)
(* unit what its recipients have not been paid, after any claims and       *)
(* cancellations, and has paid nobody more than had vested.                *)
THEOREM VestingsStayCovered == ReleasesSpec => []VestingsCovered
<1>1. EscrowInv /\ HoldingsInv => VestingsCovered
  BY DEF HoldingsInv, EscrowInv, EscrowsHold, OwedByEscrow, VestingsCovered
<1> QED
  BY <1>1, HoldingsHold, PTL

(* PoolsSolvent holds in every reachable state: a pool can pay what every  *)
(* staker has earned, the penalties it kept and the rest of its stream,    *)
(* whatever is rounded where, and its supply is the sum of the stakes.     *)
THEOREM PoolsStaySolvent == ReleasesSpec => []PoolsSolvent
<1>1. SupplyInv /\ HoldingsInv => PoolsSolvent
  <2> SUFFICES ASSUME SupplyInv, HoldingsInv, NEW p \in Pools
               PROVE  /\ SumFunctionOnSet([a \in Accounts |-> Earned(p, a)], Accounts)
                            + pendingPenalty[p] + RestOfStream(p) <= aura[p]
                      /\ pool[p].totalSupply
                           = SumFunctionOnSet([a \in Accounts |-> staker[p][a].balance], Accounts)
    BY DEF PoolsSolvent
  <2>1. LedgerInv /\ PoolInv(p)
    BY DEF HoldingsInv, PoolsInv
  <2> QED
    BY <2>1, PoolIsSolvent DEF PoolInv, StakesOf
<1> QED
  BY <1>1, HoldingsHold, PTL
=============================================================================
