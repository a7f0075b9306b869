----------------------------- MODULE VotingRound -----------------------------
(***************************************************************************)
(* A round of gauge voting from end to end: the proposal and its result    *)
(* (SnapshotVotes), the batches that list new gauges and cast the votes    *)
(* (PoolListing), the contracts they reach (GaugeVoteRewards), and the     *)
(* AURA that the distributor sends to the pools of both chains afterwards. *)
(***************************************************************************)
EXTENDS PoolListing

CONSTANTS
  Rewards,  \* bound: values of rewardPerEpoch
  Starts    \* bound: situations that a round may start in

Bounded == {"generate", "status", "vote", "list", "keeper", "weight", "reward"}

(* Only gauges that were listed in a round before have weight.             *)
ASSUME RoundAssumption ==
  /\ Rewards \subseteq Nat \ {0} /\ IsFiniteSet(Rewards)
  /\ ListedGauges \subseteq Gauges
  /\ \A start \in Starts :
       /\ start.status \in [ListedGauges -> {"unlisted", "live", "killed"}]
       /\ start.power \in [Gauges -> 0 .. TotalVotes] /\ SumFunctionOnSet(start.power, Gauges) <= TotalVotes
       /\ \A g \in Gauges : start.power[g] > 0 => g \in ListedGauges /\ start.status[g] # "unlisted"
       /\ start.pools \in Seq(MainGauges) /\ IsInjective(start.pools)
       /\ start.weighted \subseteq Gauges /\ start.reward \in Rewards
       /\ start.budget \in [Bounded -> Nat]

VARIABLES
  amountsToSide,  \* payloads for ChildGaugeVoteRewards on their way
  auraToSide      \* AURA for it on its way

roundVars == <<amountsToSide, auraToSide>>
vars == <<snapshotVars, listingVars, roundVars, budget>>

(* What a chain looks like before the round: its pools, those of them with *)
(* the extra reward, and those that GaugeVoteRewards knows.                *)
Chain(pools, rewarded, mapped, power, reward, aura) ==
  [pools |-> pools, rewarded |-> rewarded, valid |-> {},
   poolId |-> [g \in Gauges |-> IF g \in mapped THEN SelectInSeq(pools, LAMBDA h : h = g) ELSE 0],
   dst |-> [g \in Gauges |-> IF g \in mapped THEN "main" ELSE "none"],
   noDeposit |-> {}, power |-> power,
   rewardPerEpoch |-> reward, weightOf |-> [g \in Gauges |-> 0], totalWeight |-> 0,
   processed |-> {}, toSend |-> [g \in Gauges |-> 0], sent |-> [g \in Gauges |-> 0],
   aura |-> aura, distroAura |-> 0, funds |-> [p \in 1 .. MaxPools |-> 0]]

Init ==
  /\ SnapshotInit
  /\ \E start \in Starts :
       \E rewarded \in SUBSET DOMAIN start.pools, mapped \in SUBSET ToSet(start.pools) :
         /\ status = start.status
         /\ weighted = start.weighted
         /\ budget = start.budget
         /\ main = Chain(start.pools, rewarded, mapped, start.power, start.reward, InitialAura)
  /\ side = Chain(<<>>, {}, {}, [g \in Gauges |-> 0], 0, 0)
  /\ toSide = {}
  /\ safeBatch = [c \in {"main", "side"} |-> NoBatch]
  /\ prepared = NotPrepared
  /\ amountsToSide = {} /\ auraToSide = {}

(* Snapshot: the result reads the votes that are cast from the controller. *)
Snapshot == SnapshotNext(main.power) /\ UNCHANGED <<listingVars, roundVars>>

(* The tasks, for what was voted for or for gauges of the operator's       *)
(* choice, and the Safes.                                                  *)
Listing ==
  /\ \/ \E fails \in BOOLEAN : VoteGaugeWeightsTask(fails)
     \/ \E gs \in (SUBSET Gauges) \ {{}}, fails \in BOOLEAN : AddPoolTask(InOrder(gs), fails)
     \/ ExecuteMain
     \/ ExecuteSide
     \/ \E c \in {"main", "side"} : DropBatch(c)
     \/ \E g \in BareGauges \cup ForeignGauges, flag \in BOOLEAN : SetIsNoDepositGaugeTask(g, flag)
     \/ \E gs \in (SUBSET MainGauges) \ {{}} : PrepareAddPools(InOrder(gs))
     \/ SendAddPools
     \/ \E p \in 1 .. MaxPools : L1SetStashExtraReward(p) \/ L2SetStashExtraReward(p)
     \/ \E gs \in (SUBSET SideGauges) \ {{}} : L1L2AddPool(gs)
     \/ \E gs \in toSide : ReceiveGauges(gs)
     \/ \E g \in SideGauges : L2L2AddPool(g)
     \/ L1SetPoolIds
     \/ L2SetPoolIds
     \/ \E g \in MainGauges : ChangeWeight(g)
  /\ UNCHANGED <<snapshotVars, roundVars>>

-----------------------------------------------------------------------------
(* The distributor.                                                        *)

SetReward(reward) ==
  /\ main' \in SetRewardPerEpoch(main, reward)
  /\ Spend("reward")
  /\ UNCHANGED <<side, roundVars>>

ProcessMain(g) ==
  /\ main' \in ProcessGaugeRewards(main, g)
  /\ UNCHANGED <<side, roundVars, budget>>

(* Two messages that nothing orders: LayerZero's own and the AURA bridge's.*)
ProcessSide(g) ==
  /\ main' \in ProcessSidechainGaugeRewards(main, g)
  /\ amountsToSide' = amountsToSide \cup {[gauge |-> g, amount |-> AmountToSend(main, g)]}
  /\ auraToSide' = auraToSide \cup {[gauge |-> g, amount |-> AmountToSend(main, g)]}
  /\ UNCHANGED <<side, budget>>

DeliverAmount(m) ==
  /\ side' \in ReceiveAmount(side, m.gauge, m.amount)
  /\ amountsToSide' = amountsToSide \ {m}
  /\ UNCHANGED <<main, auraToSide, budget>>

DeliverAura(m) ==
  /\ side' \in ReceiveAura(side, m.amount)
  /\ auraToSide' = auraToSide \ {m}
  /\ UNCHANGED <<main, amountsToSide, budget>>

ProcessChild(g) ==
  /\ side' \in ProcessChildGaugeRewards(side, g)
  /\ UNCHANGED <<main, roundVars, budget>>

Distribution ==
  /\ \/ \E reward \in Rewards : SetReward(reward)
     \/ \E g \in Gauges : ProcessMain(g) \/ ProcessSide(g) \/ ProcessChild(g)
     \/ \E m \in amountsToSide : DeliverAmount(m)
     \/ \E m \in auraToSide : DeliverAura(m)
  /\ UNCHANGED <<snapshotVars, weighted, toSide, safeBatch, prepared>>

Next == Snapshot \/ Listing \/ Distribution

Spec == Init /\ [][Next]_vars
=============================================================================
