------------------------ MODULE VotingRoundProperties ------------------------
(* What a round of gauge voting promises.                                  *)
EXTENDS VotingRound

(* gauge_choices.json is what the proposal was made from.                  *)
ChoicesAreMeant ==
  choices = [i \in DOMAIN proposal.labels |->
               [gauge |-> proposal.meant[i], label |-> proposal.labels[i]]]

WeightIn(vs, g) ==
  IF IndexOf(g, vs) = 0 THEN 0 ELSE vs[IndexOf(g, vs)].weight

(* If it still is when the votes are counted, then weight goes only to     *)
(* gauges that were put to the vote, and a gauge with a higher score does  *)
(* not get less.                                                           *)
VotesGoWhereMeant ==
  [][votes' # votes /\ ChoicesAreMeant =>
       /\ \A k \in DOMAIN votes' : votes'[k].weight > 0 => votes'[k].gauge \in ToSet(proposal.meant)
       /\ \A i, j \in DOMAIN proposal.meant :
            proposal.scores[i] > proposal.scores[j]
              => WeightIn(votes', proposal.meant[i]) >= WeightIn(votes', proposal.meant[j])]_vars

(* Cast in the order of snapshot:result, the votes never use more weight   *)
(* than there is, whatever was voted for in the round before.              *)
VotesFitPower ==
  votes # NoVotes /\ main.totalWeight = 0 => CastVotes(main, votes) # {}

-----------------------------------------------------------------------------

IsFresh(c) == safeBatch[c] # NoBatch
              /\ safeBatch[c].known = Len((IF c = "main" THEN main ELSE side).pools)

Adds(txs) == {g \in Gauges : \E k \in DOMAIN txs : txs[k] = AddPoolTx(g)}

(* A gauge that may be voted for once txs have been executed.              *)
Votable(g, txs) ==
  \/ g \in main.noDeposit
  \/ main.dst[g] # "none"
  \/ g \in Adds(txs)
  \/ \E k \in DOMAIN txs : txs[k] \in {NoDepositTx(g, TRUE), DstChainTx(g)}
  \/ Has(main, g) /\ \E k \in DOMAIN txs :
       txs[k].fn = "setPoolIds" /\ PidOf(main, g) \in txs[k].from .. txs[k].to - 1

(* No pool has been added since the batch was made, the gauges that it     *)
(* lists have kept their weight and those that it votes for can be voted   *)
(* for.                                                                    *)
StillValid(c) ==
  LET txs == safeBatch[c].txs IN
  /\ IsFresh(c)
  /\ c = "main" => Adds(txs) \subseteq weighted
  /\ \A k \in DOMAIN txs : txs[k].fn = "voteGaugeWeight" =>
       main.totalWeight = 0 /\ \A i \in DOMAIN txs[k].votes : Votable(txs[k].votes[i].gauge, txs)

Executes(c) == Execute(IF c = "main" THEN main ELSE side, safeBatch[c].txs, c = "main") # {}

(* Such a batch executes as a whole: the pool ids and the stashes that the *)
(* tasks predicted are right, for any mix of new, known and unlistable     *)
(* gauges.  (Batches with a list in them, see BatchesExecute, excepted.)   *)
FreshBatchExecutes ==
  \A c \in {"main", "side"} :
    StillValid(c) /\ (\A k \in DOMAIN safeBatch[c].txs : safeBatch[c].txs[k].fn # "list")
    => Executes(c)

(* protocol:add-pool makes a "tx builder file to add pools to contracts",  *)
(* and to set the extra rewards: it can be executed.  It cannot when a     *)
(* pool there is lacks its extra reward.                                   *)
BatchesExecute == \A c \in {"main", "side"} : StillValid(c) => Executes(c)

Complete(chain, g) ==
  Has(chain, g) /\ PidOf(chain, g) \in chain.rewarded /\ chain.poolId[g] = PidOf(chain, g)

(* When it does, each gauge that it lists has its extra reward and is      *)
(* known to the gauge vote rewards of its chain.                           *)
FreshBatchLists ==
  [][/\ IsFresh("main") /\ ExecuteMain
       => \A g \in Adds(safeBatch["main"].txs) : Complete(main', g)
     /\ IsFresh("side") /\ ExecuteSide
       => \A g \in Adds(safeBatch["side"].txs) : Complete(side', g)]_vars

-----------------------------------------------------------------------------

Largest(S) == CHOOSE n \in S : \A m \in S : m <= n

(* However often rewardPerEpoch is changed while the gauges are processed, *)
(* no more is sent for an epoch than the largest value would allow.        *)
RewardsWithinBudget == InitialAura - main.aura <= Largest(Rewards)

(* A pool has AURA only if its own gauge has been processed: what is sent  *)
(* for one gauge never ends up with another, on either chain.              *)
RewardsGoToOwnPool ==
  \A p \in 1 .. MaxPools :
    /\ main.funds[p] > 0 => p \in DOMAIN main.pools /\ main.pools[p] \in main.processed
    /\ side.funds[p] > 0 => p \in DOMAIN side.pools /\ side.sent[side.pools[p]] > 0

AmountIn(messages) == SumFunctionOnSet([m \in messages |-> m.amount], messages)

(* Whatever arrives first, the sidechain has or is about to get the AURA   *)
(* for every amount that was announced to it and not passed on.            *)
ChildIsBacked ==
  LET owed == {g \in Gauges : side.sent[g] = 0}
  IN SumFunctionOnSet(side.toSend, owed) + AmountIn(amountsToSide)
       <= side.aura + AmountIn(auraToSide)
=============================================================================
