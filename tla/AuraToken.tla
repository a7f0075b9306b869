----------------------------- MODULE AuraToken -----------------------------
(***************************************************************************)
(* core/Aura.sol and core/AuraMinter.sol: the AURA ledger, the emissions   *)
(* that the booster mints along a curve of cliffs, and what the minter     *)
(* adds once it is allowed to inflate.                                     *)
(***************************************************************************)
EXTENDS Integers

CONSTANTS
  Accounts,                \* users
  Contracts,               \* contracts that hold AURA
  deployer,                \* the address of the deployment
  Boosters,                \* addresses the VoterProxy may have as operator
  NoBooster,               \* address(0)
  MaxTime,                 \* bound: the clock
  EmissionAmounts,         \* bound: BAL that a booster mints for
  InflationAmounts,        \* bound: what AuraMinter mints at a time
  MaxInflation,            \* bound: what AuraMinter mints in all
  inflationProtectionTime, \* of AuraMinter: 156 weeks after its deployment
  INIT_MINT_AMOUNT,
  EMISSIONS_MAX_SUPPLY,
  totalCliffs,             \* 500
  BaseReduction            \* 700

Holders == Accounts \cup Contracts \cup {deployer}

ASSUME TokenAssumption ==
  /\ MaxTime \in Nat /\ inflationProtectionTime \in Nat
  /\ EmissionAmounts \subseteq Nat /\ InflationAmounts \subseteq Nat /\ MaxInflation \in Nat
  /\ INIT_MINT_AMOUNT \in Nat \ {0}
  /\ totalCliffs \in Nat \ {0} /\ BaseReduction \in Nat
  /\ EMISSIONS_MAX_SUPPLY \in Nat /\ totalCliffs <= EMISSIONS_MAX_SUPPLY
  /\ deployer \notin Boosters /\ NoBooster \notin Boosters \cup {deployer}

VARIABLES
  now,
  aura,                    \* balanceOf
  totalSupply,
  minterMinted,            \* -1 stands for type(uint256).max, before init
  operator,
  boosterOperator          \* voterProxy.operator()

tokenVars == <<now, aura, totalSupply, minterMinted, operator, boosterOperator>>

(* What a transfer of AURA leaves alone.                                   *)
tokenRest == <<now, totalSupply, minterMinted, operator, boosterOperator>>

-----------------------------------------------------------------------------
Transferred(ledger, from, to, amount) ==
  [ledger EXCEPT ![from] = @ - amount, ![to] = @ + amount]

Transfer(from, to, amount) ==
  /\ amount <= aura[from]
  /\ aura' = Transferred(aura, from, to, amount)

_mint(to, amount) ==
  /\ aura' = [aura EXCEPT ![to] = @ + amount]
  /\ totalSupply' = totalSupply + amount

-----------------------------------------------------------------------------
(* updateOperator: the token follows the VoterProxy.                       *)
NewOperator ==
  /\ boosterOperator \notin {operator, NoBooster}
  /\ operator' = boosterOperator

InitialiseToken ==
  /\ operator = deployer /\ totalSupply = 0
  /\ _mint(deployer, INIT_MINT_AMOUNT)
  /\ NewOperator
  /\ minterMinted' = 0
  /\ UNCHANGED <<now, boosterOperator>>

UpdateOperator ==
  /\ totalSupply # 0
  /\ NewOperator
  /\ UNCHANGED <<now, aura, totalSupply, minterMinted, boosterOperator>>

(* VoterProxy.setOperator                                                  *)
SetBoosterOperator(booster) ==
  /\ boosterOperator' = booster
  /\ UNCHANGED <<now, aura, totalSupply, minterMinted, operator>>

-----------------------------------------------------------------------------
(* Emissions.                                                              *)
reductionPerCliff == EMISSIONS_MAX_SUPPLY \div totalCliffs

EmissionsMinted == totalSupply - INIT_MINT_AMOUNT - minterMinted

Cliff == EmissionsMinted \div reductionPerCliff

Reduction == ((totalCliffs - Cliff) * 5) \div 2 + BaseReduction

Least(m, n) == IF m <= n THEN m ELSE n

(* Mutant: the last mint is not cut at the cap.                            *)
EmissionFor_Uncut(bal) == (bal * Reduction) \div totalCliffs

EmissionFor(bal) ==
  Least((bal * Reduction) \div totalCliffs, EMISSIONS_MAX_SUPPLY - EmissionsMinted)

(* Another caller, an operator of before included, gets nothing.           *)
Mint(caller, to, bal) ==
  /\ totalSupply # 0
  /\ caller = operator
  /\ Cliff < totalCliffs
  /\ _mint(to, EmissionFor(bal))
  /\ UNCHANGED <<now, minterMinted, operator, boosterOperator>>

(* AuraMinter.mint by its owner.                                           *)
MinterMint(to, amount) ==
  /\ totalSupply # 0
  /\ now > inflationProtectionTime
  /\ minterMinted + amount <= MaxInflation
  /\ minterMinted' = minterMinted + amount
  /\ _mint(to, amount)
  /\ UNCHANGED <<now, operator, boosterOperator>>

-----------------------------------------------------------------------------
TokenInit ==
  /\ now = 0
  /\ aura = [h \in Holders |-> 0]
  /\ totalSupply = 0
  /\ minterMinted = -1
  /\ operator = deployer
  /\ boosterOperator \in Boosters

Tick ==
  /\ now < MaxTime
  /\ now' = now + 1
  /\ UNCHANGED <<aura, totalSupply, minterMinted, operator, boosterOperator>>

EmissionStep ==
  \/ \E booster \in Boosters : SetBoosterOperator(booster)
  \/ UpdateOperator
  \/ \E booster \in Boosters, a \in Accounts, bal \in EmissionAmounts : Mint(booster, a, bal)
  \/ \E a \in Accounts, amount \in InflationAmounts : MinterMint(a, amount)
=============================================================================
