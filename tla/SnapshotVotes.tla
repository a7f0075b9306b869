---------------------------- MODULE SnapshotVotes ----------------------------
(***************************************************************************)
(* The off-chain half of a voting round (tasks/snapshot).                  *)
(* snapshot:generate writes the gauges that may be voted for to            *)
(* gauge_choices.json, snapshot:create puts their labels to the vote, and  *)
(* snapshot:result turns the scores into the weights that the Safe casts   *)
(* through GaugeVoteRewards.  A proposal knows labels only: which gauge a  *)
(* label means is looked up in the file again when the votes are counted,  *)
(* and the file may have been generated anew by then.                      *)
(***************************************************************************)
EXTENDS GaugeVoteRewards

CONSTANTS
  VotingList,      \* the gauges Balancer lists, in the order of sortGaugeList
  LabelOf,         \* gauge -> what parseLabel makes of it
  PrefixOf,        \* gauge -> the first byte of its address
  MinShareDenominator,  \* 1000: a gauge needs more than this part of the score
  Scores           \* bound: scores of a choice

ListedGauges == ToSet(VotingList)

ASSUME SnapshotAssumption ==
  /\ VotingList \in Seq(ListedGauges) /\ IsInjective(VotingList)
  /\ MinShareDenominator \in Nat \ {0}
  /\ Scores \subseteq Nat

VARIABLES
  status,        \* gauge -> not listed yet, live, or killed
  choices,       \* gauge_choices.json: a sequence of gauges with their labels
  proposal,      \* the proposal on snapshot.org, or NoProposal
  votes,         \* what snapshot:result printed, or NoVotes
  budget         \* bound: how often steps of some kinds may still happen

snapshotVars == <<status, choices, proposal, votes>>

Spend(what) == budget[what] > 0 /\ budget' = [budget EXCEPT ![what] = @ - 1]

NoProposal == [state |-> "none"]
NoVotes    == <<>>

(* What s has of S, in the order of s.                                     *)
Kept(s, S) == FoldLeft(LAMBDA t, x : IF x \in S THEN Append(t, x) ELSE t, <<>>, s)

(* s with the smaller keys first; ties keep their order.                   *)
Inserted(t, x, key) ==
  Kept(t, {y \in ToSet(t) : key[y] <= key[x]}) \o <<x>> \o Kept(t, {y \in ToSet(t) : key[y] > key[x]})
Ranked(s, key) == FoldLeft(LAMBDA t, x : Inserted(t, x, key), <<>>, s)

(* The first of rs that is about g.                                        *)
IndexOf(g, rs) == SelectInSeq(rs, LAMBDA r : r.gauge = g)

-----------------------------------------------------------------------------
(* snapshot:generate                                                       *)

(* Labels that occur twice get the first byte of the address.              *)
DeduplicateLabels(gauges) ==
  [i \in DOMAIN gauges |->
     [gauge |-> gauges[i],
      label |-> IF \E j \in DOMAIN gauges \ {i} : LabelOf[gauges[j]] = LabelOf[gauges[i]]
                THEN <<LabelOf[gauges[i]], PrefixOf[gauges[i]]>>
                ELSE <<LabelOf[gauges[i]]>>]]

Generate ==
  /\ Spend("generate")
  /\ choices' = DeduplicateLabels(Kept(VotingList, {g \in ListedGauges : status[g] = "live"}))
  /\ UNCHANGED <<status, proposal, votes>>

(* A gauge is added to, or killed on, Balancer's list.                     *)
ChangeStatus(g) ==
  /\ \/ status[g] = "unlisted" /\ status' = [status EXCEPT ![g] = "live"]
     \/ status[g] = "live" /\ status' = [status EXCEPT ![g] = "killed"]
  /\ Spend("status")
  /\ UNCHANGED <<choices, proposal, votes>>

-----------------------------------------------------------------------------
(* snapshot:create                                                         *)

Labels(cs) == [i \in DOMAIN cs |-> cs[i].label]

(* Mutant: without the refusal.                                            *)
Create_EqualLabels ==
  /\ proposal = NoProposal
  /\ choices # <<>>
  /\ proposal' = [state |-> "open", labels |-> Labels(choices),
                  meant |-> [i \in DOMAIN choices |-> choices[i].gauge]]
  /\ UNCHANGED <<status, choices, votes, budget>>

(* Equal labels are refused.  meant is not part of the proposal: it        *)
(* records what it was made from.                                          *)
Create ==
  /\ proposal = NoProposal
  /\ choices # <<>>
  /\ IsInjective(Labels(choices))
  /\ proposal' = [state |-> "open", labels |-> Labels(choices),
                  meant |-> [i \in DOMAIN choices |-> choices[i].gauge]]
  /\ UNCHANGED <<status, choices, votes, budget>>

(* The vote ends and its scores become final (external: snapshot.org).     *)
Close(scores) ==
  /\ proposal.state = "open"
  /\ DOMAIN scores = DOMAIN proposal.labels
  /\ proposal' = [state |-> "final", labels |-> proposal.labels, meant |-> proposal.meant,
                  scores |-> scores]
  /\ UNCHANGED <<status, choices, votes, budget>>

-----------------------------------------------------------------------------
(* snapshot:result                                                         *)

NoGauge == "undefined"

(* gaugeList.find: the gauge that has this label now.                      *)
GaugeOfLabel(label) ==
  LET i == SelectInSeq(choices, LAMBDA c : c.label = label)
  IN IF i = 0 THEN NoGauge ELSE choices[i].gauge

(* The choices with enough of the score, best first.                       *)
SuccessfulGauges ==
  LET scored == [i \in DOMAIN proposal.labels |->
                   [gauge |-> GaugeOfLabel(proposal.labels[i]), score |-> proposal.scores[i]]]
      enough == {r \in ToSet(scored) : r.score * MinShareDenominator > SumFunction(proposal.scores)}
  IN Ranked(Kept(scored, enough), [r \in enough |-> -r.score])

(* Shares of TotalVotes, rounded down; the first takes what is left over.  *)
Weights(ranked) ==
  LET total   == SumFunction([i \in DOMAIN ranked |-> ranked[i].score])
      rounded == [i \in DOMAIN ranked |-> (TotalVotes * ranked[i].score) \div total]
  IN [i \in DOMAIN ranked |-> rounded[i] + IF i = 1 THEN TotalVotes - SumFunction(rounded) ELSE 0]

(* Every listed gauge that is voted for or was; the delta of one that gets *)
(* no votes now is, in the code, the weight it had.                        *)
VotesFor(ranked, weights, power) ==
  LET Index(g)  == IndexOf(g, ranked)
      concerned == {g \in ListedGauges : status[g] # "unlisted" /\ (Index(g) # 0 \/ power[g] > 0)}
      listed == Kept(VotingList, concerned)
  IN [k \in DOMAIN listed |->
        LET g == listed[k] IN
        IF Index(g) # 0
        THEN [gauge |-> g, delta |-> weights[Index(g)] - power[g], weight |-> weights[Index(g)]]
        ELSE [gauge |-> g, delta |-> power[g], weight |-> 0]]

(* Mutant: without the second sort, the gauges that lose all their votes   *)
(* come where their old weight puts them.                                  *)
Ordered_ByDelta(vs) == Ranked(vs, [v \in ToSet(vs) |-> v.delta])

(* Lowest delta first, then those with weight zero before all the others.  *)
(* (The comparator of the second sort looks at one side only; sorting by   *)
(* merging and by insertion both give this order, up to the order of the   *)
(* zeros.)                                                                 *)
Ordered(vs) ==
  LET byDelta == Ranked(vs, [v \in ToSet(vs) |-> v.delta])
      zero == {v \in ToSet(vs) : v.weight = 0}
  IN Kept(byDelta, zero) \o Kept(byDelta, ToSet(vs) \ zero)

(* The task fails, without votes, when no choice has enough of the score   *)
(* or the weights of the listed gauges do not add up.                      *)
Result(power) ==
  LET ranked == SuccessfulGauges
      weights == Weights(ranked)
      vs == Ordered(VotesFor(ranked, weights, power))
  IN /\ proposal.state = "final"
     /\ votes = NoVotes
     /\ ranked # <<>>
     /\ SumFunction(weights) = TotalVotes
     /\ SumFunction([k \in DOMAIN vs |-> vs[k].weight]) = TotalVotes
     /\ votes' = vs
     /\ UNCHANGED <<status, choices, proposal, budget>>

SnapshotInit ==
  /\ choices = <<>>
  /\ proposal = NoProposal
  /\ votes = NoVotes

SnapshotNext(power) ==
  \/ Generate
  \/ \E g \in ListedGauges : ChangeStatus(g)
  \/ Create
  \/ proposal.state = "open" /\ \E scores \in [DOMAIN proposal.labels -> Scores] : Close(scores)
  \/ Result(power)
=============================================================================
