--------------------------- MODULE MCVotingRound ---------------------------
(* Instances of VotingRound for TLC.                                       *)
EXTENDS VotingRoundProperties

CONSTANTS m1, m2, s1, s2, f1

MCOrder      == <<m1, s1, f1, m2, s2>>
MCVotingList == <<m1, s1, f1, s2>>
(* Two gauges have one label between them, also after one byte more.       *)
MCLabelOf    == [g \in ToSet(MCVotingList) |-> IF g \in {m1, s2} THEN "same" ELSE ToString(g)]
MCPrefixOf   == [g \in ToSet(MCVotingList) |-> "0xab"]

NoPower == [g \in Gauges |-> 0]
AllBut(gauge) == [g \in ToSet(MCVotingList) |-> IF g = gauge THEN "unlisted" ELSE "live"]

(* A whole round, the first or one after two gauges had votes; a listing   *)
(* with keepers at work, or with a gauge that gets or loses its weight.    *)
WholeRound == [generate |-> 1, status |-> 1, vote |-> 1, list |-> 0, keeper |-> 0, weight |-> 0, reward |-> 1]
JustAList  == [generate |-> 0, status |-> 0, vote |-> 0, list |-> 1, keeper |-> 2, weight |-> 0, reward |-> 0]
Weighing   == [JustAList EXCEPT !.keeper = 1, !.weight = 1]
MCStarts ==
  {[status |-> AllBut(m1), power |-> NoPower, pools |-> <<>>, weighted |-> Gauges,
    reward |-> 6, budget |-> WholeRound],
   [status |-> AllBut(s2), power |-> [g \in Gauges |-> IF g = m1 THEN 4 ELSE IF g = f1 THEN 3 ELSE 0],
    pools |-> <<m1>>, weighted |-> Gauges, reward |-> 4, budget |-> WholeRound],
   [status |-> AllBut(m1), power |-> NoPower, pools |-> <<>>, weighted |-> Gauges,
    reward |-> 4, budget |-> JustAList],
   [status |-> AllBut(m2), power |-> NoPower, pools |-> <<m1>>, weighted |-> {m1, s1},
    reward |-> 4, budget |-> Weighing]}
=============================================================================
