---------------------------- MODULE AuraBalBridge ----------------------------
(***************************************************************************)
(* The auraBAL bridge.  AuraBalProxyOFT, the user Proxy of the vault,      *)
(* stakes what is sent to the sidechains in the compounder, pays what      *)
(* comes back out of it, and shares its yield and the vault's extra reward *)
(* (AURA) among the sidechains.                                            *)
(*                                                                         *)
(* That a message takes effect once, however it fails, is retried or       *)
(* queued, is what AuraBridge shows of the contracts that both bridges     *)
(* share.  So here auraBAL is abroad from when it is sent, and a message   *)
(* home waits, on the way, stored or queued, until it is credited.         *)
(***************************************************************************)
EXTENDS Bags, BagsExt, AuraBalVaultProperties

CONSTANTS
  Proxy,        \* AuraBalProxyOFT
  Chains,       \* harvestSrcChainIds
  Reports,      \* bound: underlying of each chain that a harvester reports
  ExtraGains,   \* bound: AURA a harvest of the bridge brings
  InitialExtra, \* bound: AURA that all of them bring
  MaxTaken,     \* bound: what sudo rescues and what is sent to the proxy itself
  MaxShares,    \* bound: shares that are taken from the proxy
  MaxSupply     \* bound: auraBAL on the sidechains

ASSUME AuraBalBridgeAssumption ==
  /\ Proxy \in Users /\ InitialWallet[Proxy] = 0
  /\ IsFiniteSet(Chains) /\ Reports \subseteq [Chains -> Nat]
  /\ ExtraGains \subseteq Nat
  /\ InitialExtra \in Nat /\ MaxTaken \in Nat /\ MaxShares \in Nat /\ MaxSupply \in Nat

Tokens == {"auraBAL", "AURA"}

VARIABLES
  internalTotalSupply,
  claimable,      \* token -> chain -> amount
  totalClaimable, \* token -> amount
  held,           \* AURA of the proxy
  extra,          \* AURA that harvests have still to bring
  abroad,         \* auraBAL of all accounts of the sidechains
  home,           \* bag of the amounts of messages to the proxy
  rescued,        \* token -> amount that sudo took; no code keeps it
  toItself,       \* auraBAL credited to the proxy; no code keeps it
  sharesTaken     \* shares that sudo and the owner took; no code keeps it

claimVars  == <<claimable, totalClaimable, held, extra>>
bridgeVars == <<internalTotalSupply, claimVars, abroad, home, rescued, toItself>>
vars       == <<vaultVars, bridgeVars, sharesTaken>>

(* bounded                                                                 *)
Taken == rescued["auraBAL"] + rescued["AURA"] + toItself

-----------------------------------------------------------------------------
(* Out of the vault and into it.                                           *)

(* Mutant: the vault's penalty is not set to zero.                         *)
PenaltyOfBridge_Kept == withdrawalPenalty

(* _withdraw sets the penalty to zero and back.                            *)
PenaltyOfBridge == 0

(* _withdraw of amount, which is then sent to account.                     *)
Pay(account, amount, gain) ==
  LET shares == PreviewWithdraw(amount, PenaltyOfBridge)
      withdrawn == PaidFor(shares, PenaltyOfBridge, gain)
  IN /\ totalSupply > 0 => totalUnderlying > 0
     /\ Unstake(Proxy, shares, PenaltyOfBridge, gain)
     /\ withdrawn >= amount
     /\ wallet' = [[wallet EXCEPT ![Proxy] = @ + withdrawn - amount] EXCEPT ![account] = @ + amount]

(* Mutant: the amount asked for is added, and not all that was staked.     *)
Debited_AsAsked(amount) == amount

(* _debitFrom: all auraBAL of the proxy is staked, and is what is sent.    *)
Debited(amount) == wallet[Proxy] + amount

SendFrom(account, amount) ==
  LET staked == wallet[Proxy] + amount IN
  /\ account # Proxy /\ amount <= wallet[account]
  /\ abroad + SumBag(home) + staked <= MaxSupply
  /\ wallet' = [wallet EXCEPT ![account] = @ - amount, ![Proxy] = 0]
  /\ Stake(staked, Proxy)
  /\ internalTotalSupply' = internalTotalSupply + Debited(amount)
  /\ abroad' = abroad + staked
  /\ UNCHANGED <<claimVars, home, rescued, toItself>>

(* sendFrom of AuraBalOFT burns.                                           *)
SendHome(amount) ==
  /\ amount > 0 /\ amount <= abroad
  /\ abroad' = abroad - amount
  /\ home' = BagAdd(home, amount)
  /\ UNCHANGED <<vaultVars, internalTotalSupply, claimVars, rescued, toItself>>

(* _creditTo, on receipt, as a retry or out of the queue.  What it takes   *)
(* from the supply is by how much the account's balance grew: nothing, if  *)
(* it is the proxy's own.                                                  *)
CreditTo(account, amount, gain) ==
  LET kept == IF account = Proxy THEN amount ELSE 0 IN
  /\ BagIn(amount, home)
  /\ Taken + kept <= MaxTaken
  /\ Pay(account, amount, gain)
  /\ internalTotalSupply >= amount - kept
  /\ internalTotalSupply' = internalTotalSupply - (amount - kept)
  /\ home' = BagRemove(home, amount)
  /\ toItself' = toItself + kept
  /\ UNCHANGED <<claimVars, abroad, rescued>>

-----------------------------------------------------------------------------
(* Rewards.                                                                *)

(* _processHarvestableTokens                                               *)
Harvestable(extraGain) ==
  [auraBAL |-> UnderlyingOf(balanceOf[Proxy]) - internalTotalSupply - totalClaimable["auraBAL"],
   AURA    |-> held + extraGain - totalClaimable["AURA"]]

(* Mutant: the parts are rounded up.                                       *)
Part_RoundsUp(amount, report, c) == RoundUpDiv(amount * report[c], SumFunction(report))

(* The part of each chain is rounded down.                                 *)
Part(amount, report, c) == (amount * report[c]) \div SumFunction(report)

HarvestBridge(report, extraGain) ==
  LET harvested == Harvestable(extraGain)
      part == [t \in Tokens |-> [c \in Chains |-> Part(harvested[t], report, c)]]
  IN /\ totalSupply > 0 /\ SumFunction(report) > 0 /\ extraGain <= extra
     /\ \A t \in Tokens : harvested[t] >= 0
     /\ claimable' = [t \in Tokens |-> [c \in Chains |-> claimable[t][c] + part[t][c]]]
     /\ totalClaimable' = [t \in Tokens |-> totalClaimable[t] + SumFunction(part[t])]
     /\ held' = held + extraGain
     /\ extra' = extra - extraGain
     /\ UNCHANGED <<vaultVars, internalTotalSupply, abroad, home, rescued, toItself>>

(* processClaimable: auraBAL is staked already, AURA leaves by its bridge. *)
ProcessClaimable(t, c) ==
  LET reward == claimable[t][c] IN
  /\ reward > 0
  /\ totalClaimable[t] >= reward
  /\ claimable' = [claimable EXCEPT ![t][c] = 0]
  /\ totalClaimable' = [totalClaimable EXCEPT ![t] = @ - reward]
  /\ \/ /\ t = "auraBAL"
        /\ abroad + SumBag(home) + reward <= MaxSupply
        /\ internalTotalSupply' = internalTotalSupply + reward
        /\ abroad' = abroad + reward
        /\ UNCHANGED held
     \/ /\ t = "AURA"
        /\ held >= reward
        /\ held' = held - reward
        /\ UNCHANGED <<internalTotalSupply, abroad>>
  /\ UNCHANGED <<vaultVars, extra, home, rescued, toItself>>

-----------------------------------------------------------------------------
(* sudo and the owner.  rescue sends any token that the proxy holds.       *)

(* auraBAL, which is withdrawn first.                                      *)
Rescue(account, amount, gain) ==
  /\ amount > 0 /\ Taken + amount <= MaxTaken
  /\ internalTotalSupply >= amount
  /\ internalTotalSupply' = internalTotalSupply - amount
  /\ Pay(account, amount, gain)
  /\ rescued' = [rescued EXCEPT !["auraBAL"] = @ + amount]
  /\ UNCHANGED <<claimVars, abroad, home, toItself>>

(* AURA                                                                    *)
RescueExtra(amount) ==
  /\ amount > 0 /\ amount <= held /\ Taken + amount <= MaxTaken
  /\ held' = held - amount
  /\ rescued' = [rescued EXCEPT !["AURA"] = @ + amount]
  /\ UNCHANGED <<vaultVars, internalTotalSupply, claimable, totalClaimable, extra, abroad, home, toItself>>

(* The proxy's shares of the vault may leave it, whatever is owed.         *)
SharesLeave ==
  LET left == balanceOf[Proxy] - balanceOf'[Proxy] IN
  /\ sharesTaken' = sharesTaken + (IF left > 0 THEN left ELSE 0)
  /\ sharesTaken' <= MaxShares
  /\ UNCHANGED bridgeVars

(* rescue of the shares: only auraBAL is subtracted from the supply.       *)
RescueShares(account, shares) == Transfer(Proxy, account, shares) /\ SharesLeave

(* The owner makes any call of the vault in the proxy's name, as any       *)
(* account may.                                                            *)
VaultExecute == UserStep(Proxy) /\ SharesLeave

-----------------------------------------------------------------------------
Init ==
  /\ VaultInit
  /\ internalTotalSupply = 0
  /\ claimable = [t \in Tokens |-> [c \in Chains |-> 0]]
  /\ totalClaimable = [t \in Tokens |-> 0]
  /\ held = 0 /\ extra = InitialExtra
  /\ abroad = 0 /\ home = EmptyBag
  /\ rescued = [t \in Tokens |-> 0] /\ toItself = 0 /\ sharesTaken = 0

BridgeStep ==
  \/ \E u \in Users, amount \in Amounts \cup {0} : SendFrom(u, amount)
  \/ \E amount \in Amounts : SendHome(amount)
  \/ \E u \in Users, amount \in DOMAIN home, gain \in Gains : CreditTo(u, amount, gain)
  \/ \E report \in Reports, extraGain \in ExtraGains : HarvestBridge(report, extraGain)
  \/ \E t \in Tokens, c \in Chains : ProcessClaimable(t, c)

SudoStep ==
  \/ \E u \in Users, amount \in Amounts, gain \in Gains : Rescue(u, amount, gain)
  \/ \E amount \in Amounts : RescueExtra(amount)

(* The vault is open to everybody else.  Its penalty is the bridge owner's *)
(* to set: the proxy owns the vault, and vaultExecute makes owner calls.   *)
Next ==
  \/ VaultStep(Users \ {Proxy}) /\ UNCHANGED <<bridgeVars, sharesTaken>>
  \/ BridgeStep /\ UNCHANGED sharesTaken
  \/ SudoStep /\ UNCHANGED sharesTaken
  \/ \E u \in Users, shares \in Amounts : RescueShares(u, shares)
  \/ VaultExecute

Spec == Init /\ [][Next]_vars
=============================================================================
