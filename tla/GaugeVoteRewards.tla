-------------------------- MODULE GaugeVoteRewards --------------------------
(***************************************************************************)
(* The contracts that a voting round goes through, in one voting epoch:    *)
(* GaugeVoteRewards on mainnet, ChildGaugeVoteRewards on a sidechain, and  *)
(* what they need of the boosters and stashes of their chain.              *)
(*                                                                         *)
(* The state of a chain is a record, main or side.  A transaction maps it  *)
(* to the set of states it may lead to, the empty set when it reverts, so  *)
(* that a batch of transactions, which is atomic, is the fold of them.     *)
(* Pool ids count from one here and from zero in the code.  The recipient  *)
(* of a root gauge on the sidechain goes by the name of the root gauge;    *)
(* the stash of a sidechain pool by the number of its clone: the proxy     *)
(* factory makes nothing but stashes, so clone n belongs to pool n.        *)
(***************************************************************************)
EXTENDS Integers, Sequences, FiniteSets, SequencesExt

CONSTANTS
  MainGauges,     \* gauges of mainnet
  BareGauges,     \* gauges of mainnet without a liquidity gauge
  SideGauges,     \* root gauges of the sidechain
  ForeignGauges,  \* root gauges of chains that Aura is not on
  TotalVotes,     \* TOTAL_WEIGHT_PER_EPOCH, 10000
  InitialAura     \* AURA that GaugeVoteRewards starts with

Gauges == MainGauges \cup BareGauges \cup SideGauges \cup ForeignGauges

ASSUME GaugeAssumption == TotalVotes \in Nat \ {0} /\ InitialAura \in Nat

When(allowed, state) == IF allowed THEN {state} ELSE {}

-----------------------------------------------------------------------------
(* Boosters and stashes (external).                                        *)

Has(chain, g) == g \in ToSet(chain.pools)
PidOf(chain, g) == CHOOSE p \in DOMAIN chain.pools : chain.pools[p] = g

(* A pool manager takes a gauge with weight that has no pool yet; the pool *)
(* comes with a stash.                                                     *)
AddPool(chain, g, weighted) ==
  When(~Has(chain, g) /\ g \in weighted, [chain EXCEPT !.pools = Append(@, g)])

(* ExtraRewardStashModule looks up the stash of a pool, BoosterOwnerLite   *)
(* is given it.  Naming the same token again changes nothing.              *)
SetStashExtraReward(chain, pid) ==
  When(pid \in DOMAIN chain.pools, [chain EXCEPT !.rewarded = @ \cup {pid}])

-----------------------------------------------------------------------------
(* GaugeVoteRewards: setters.                                              *)

Mapped(chain, from, to) == {chain.pools[p] : p \in from .. to - 1}

(* Mutant: the pool's id is the index of the call, not that of the pool.   *)
SetPoolIds_FromStart(chain, from, to) ==
  When(from .. to - 1 \subseteq DOMAIN chain.pools,
       [chain EXCEPT !.poolId = [g \in Gauges |-> IF g \in Mapped(chain, from, to)
                                                  THEN from ELSE chain.poolId[g]]])

SetPoolIds(chain, from, to) ==
  When(from .. to - 1 \subseteq DOMAIN chain.pools,
       [chain EXCEPT !.poolId = [g \in Gauges |-> IF g \in Mapped(chain, from, to)
                                                  THEN PidOf(chain, g) ELSE chain.poolId[g]]])

(* On mainnet the chain of the gauge is set along with its pool id.        *)
SetMainPoolIds(main, from, to) ==
  {[s EXCEPT !.dst = [g \in Gauges |-> IF g \in Mapped(main, from, to) /\ main.dst[g] = "none"
                                       THEN "main" ELSE main.dst[g]]]
   : s \in SetPoolIds(main, from, to)}

SetIsNoDepositGauge(main, g, isNoDeposit) ==
  {[main EXCEPT !.noDeposit = IF isNoDeposit THEN @ \cup {g} ELSE @ \ {g}]}

(* Never the local chain, which setPoolIds sets.                           *)
SetDstChainId(main, g) == {[main EXCEPT !.dst[g] = "side"]}

SetRewardPerEpoch(main, reward) == {[main EXCEPT !.rewardPerEpoch = reward]}

-----------------------------------------------------------------------------
(* Voting.                                                                 *)

(* booster.voteGaugeWeight and the gauge controller (external): votes are  *)
(* cast in order, and what is in use may at no point exceed TotalVotes.    *)
CastVotes(main, votes) ==
  FoldLeft(LAMBDA S, v :
             UNION {When(SumFunctionOnSet(s.power, Gauges) - s.power[v.gauge] + v.weight <= TotalVotes,
                         [s EXCEPT !.power[v.gauge] = v.weight]) : s \in S},
           {main}, votes)

(* A gauge that is voted for twice keeps the last of its weights.          *)
VoteGaugeWeight(main, votes) ==
  LET weight  == [k \in DOMAIN votes |-> votes[k].weight]
      deposit == {k \in DOMAIN votes : votes[k].gauge \notin main.noDeposit}
      of(g)   == {k \in deposit : votes[k].gauge = g}
  IN UNION {CastVotes(s, votes) : s \in
       When(/\ main.rewardPerEpoch > 0
            /\ main.totalWeight = 0
            /\ \A k \in deposit : main.dst[votes[k].gauge] # "none"
            /\ SumFunction(weight) = TotalVotes,
            [main EXCEPT
               !.weightOf = [g \in Gauges |-> IF of(g) = {} THEN 0 ELSE weight[Max(of(g))]],
               !.totalWeight = SumFunctionOnSet(weight, deposit)])}

-----------------------------------------------------------------------------
(* Rewards of the epoch.                                                   *)

AmountToSend(main, g) == (main.rewardPerEpoch * main.weightOf[g]) \div main.totalWeight

(* Each gauge once, and only if there is something to send.                *)
CanProcess(main, g) ==
  /\ main.totalWeight > 0
  /\ AmountToSend(main, g) # 0
  /\ g \notin main.processed

(* StashRewardDistro.fundPool: two weekly epochs, one wei of each kept for *)
(* idle rewards.                                                           *)
Periods == 2
FundPool(chain, pid, amount) ==
  When(amount >= Periods /\ amount <= chain.aura,
       [chain EXCEPT !.aura = @ - amount,
                     !.distroAura = @ + amount,
                     !.funds[pid] = @ + ((amount - Periods) \div Periods) * Periods])

(* Mutant: the gauge is not marked.                                        *)
ProcessGaugeRewards_NotMarked(main, g) ==
  LET amount == AmountToSend(main, g)
  IN IF CanProcess(main, g) /\ g \notin main.noDeposit /\ main.dst[g] = "main" /\ main.poolId[g] # 0
     THEN FundPool(main, main.poolId[g], amount) ELSE {}

ProcessGaugeRewards(main, g) ==
  LET amount == AmountToSend(main, g)
  IN IF CanProcess(main, g) /\ g \notin main.noDeposit /\ main.dst[g] = "main" /\ main.poolId[g] # 0
     THEN FundPool([main EXCEPT !.processed = @ \cup {g}], main.poolId[g], amount)
     ELSE {}

(* processSidechainGaugeRewards: the payload and the AURA leave in two     *)
(* messages.                                                               *)
ProcessSidechainGaugeRewards(main, g) ==
  LET amount == AmountToSend(main, g)
  IN IF CanProcess(main, g) /\ main.dst[g] = "side"
     THEN When(amount <= main.aura,
               [main EXCEPT !.processed = @ \cup {g}, !.aura = @ - amount])
     ELSE {}

(* ChildGaugeVoteRewards.                                                  *)
ReceiveAmount(side, g, amount) == {[side EXCEPT !.toSend[g] = amount]}
ReceiveAura(side, amount)      == {[side EXCEPT !.aura = @ + amount]}

(* Mutant: what was sent is not recorded.                                  *)
ProcessChildGaugeRewards_NotRecorded(side, g) ==
  IF side.toSend[g] # 0 /\ side.sent[g] = 0 /\ side.poolId[g] # 0
  THEN FundPool(side, side.poolId[g], side.toSend[g]) ELSE {}

ProcessChildGaugeRewards(side, g) ==
  IF side.toSend[g] # 0 /\ side.sent[g] = 0 /\ side.poolId[g] # 0
  THEN FundPool([side EXCEPT !.sent[g] = side.toSend[g]], side.poolId[g], side.toSend[g])
  ELSE {}
=============================================================================
