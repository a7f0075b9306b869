-------------------------- MODULE VotingRoundProofs --------------------------
(***************************************************************************)
(* What holds of a round of voting for any gauges, pools, votes and        *)
(* rewards.  Of the rewards, whatever transactions the batches of the      *)
(* Safes hold: what is sent stays within the reward of an epoch, a pool    *)
(* gets the rewards of its own gauge, and what was announced to the        *)
(* sidechain is backed.  Of the votes: they go to the gauges that were     *)
(* meant, by their scores, and can be cast whatever was voted for before.  *)
(* Of the batches that the tasks make: executed before another pool comes, *)
(* they revert nowhere, and what they list has its reward and its id.      *)
(*                                                                         *)
(* A batch is a fold of its transactions over sets of states, and a fold   *)
(* is a recursive function that CHOOSE takes.  So first: what stays in a   *)
(* set under every transaction stays in it under the batch (FoldStays).    *)
(* What depends on where a batch has got to is shown prefix by prefix, by  *)
(* the smallest prefix for which it would fail.                            *)
(***************************************************************************)
EXTENDS VotingRoundProperties, Arithmetic, TLAPS

-----------------------------------------------------------------------------
(* Folds over the indices of a sequence, the last of them first.           *)

(* fold takes a step for the largest index of s, from what it gives for    *)
(* the others.                                                             *)
IsFold(fold, next, base, S) ==
  fold = [s \in SUBSET S |-> IF s = {} THEN base ELSE next[Max(s)][fold[s \ {Max(s)}]]]

(* The largest index of a set is one of them.                              *)
LEMMA MaxIsIn ==
  ASSUME NEW s \in SUBSET Int, IsFiniteSet(s), s # {}
  PROVE  Max(s) \in s /\ \A i \in s : i <= Max(s)
<1>1. PICK m \in s : \A i \in s : i <= m
  BY LargestExists
<1>2. \A i \in s : m >= i
  BY <1>1
<1> QED
  BY <1>2 DEF Max

(* What such a function gives.                                             *)
LEMMA FoldStep ==
  ASSUME NEW fold, NEW next, NEW base, NEW S, IsFold(fold, next, base, S), NEW s \in SUBSET S
  PROVE  fold[s] = IF s = {} THEN base ELSE next[Max(s)][fold[s \ {Max(s)}]]
BY DEF IsFold

(* Two such functions agree where both are defined.                        *)
LEMMA FoldsAgree ==
  ASSUME NEW next, NEW base, NEW S \in SUBSET Int, IsFiniteSet(S), NEW T,
         NEW g, IsFold(g, next, base, S), NEW h, IsFold(h, next, base, T),
         NEW U \in SUBSET S, U \subseteq T
  PROVE  g[U] = h[U]
<1> DEFINE Bad == {V \in SUBSET S : V \subseteq T /\ g[V] # h[V]}
<1>1. SUFFICES ASSUME Bad # {} PROVE FALSE
  OBVIOUS
<1>2. PICK V \in Bad : \A W \in SUBSET V : W # V => W \notin Bad
  <2>1. Bad \subseteq SUBSET S
    OBVIOUS
  <2> HIDE DEF Bad
  <2> QED
    BY <1>1, <2>1, SmallestSubset
<1>3. V \in SUBSET S /\ V \in SUBSET T /\ g[V] # h[V]
  BY <1>2
<1>4. V # {}
  <2>1. V = {} => g[V] = base /\ h[V] = base
    BY <1>3, FoldStep
  <2> QED
    BY <1>3, <2>1
<1> DEFINE x == Max(V)
<1>5. x \in V
  <2>1. V \in SUBSET Int /\ IsFiniteSet(V)
    BY <1>3, FS_Subset
  <2> QED
    BY <1>4, <2>1, MaxIsIn
<1>6. g[V] = next[x][g[V \ {x}]] /\ h[V] = next[x][h[V \ {x}]]
  <2>1. g[V] = next[x][g[V \ {x}]]
    BY <1>3, <1>4, FoldStep
  <2>2. h[V] = next[x][h[V \ {x}]]
    <3>1. IsFold(h, next, base, T) /\ V \in SUBSET T
      BY <1>3
    <3>2. h[V] = IF V = {} THEN base ELSE next[Max(V)][h[V \ {Max(V)}]]
      BY <3>1 DEF IsFold
    <3> QED
      BY <1>4, <3>2
  <2> QED
    BY <2>1, <2>2
<1> HIDE DEF x
<1>7. V \ {x} \in SUBSET V /\ V \ {x} # V
  BY <1>5
<1>8. g[V \ {x}] = h[V \ {x}]
  BY <1>2, <1>7
<1> QED
  BY <1>3, <1>6, <1>8

(* There is such a function for every finite set of indices.               *)
LEMMA FoldExists ==
  ASSUME NEW next, NEW base, NEW S \in SUBSET Int, IsFiniteSet(S)
  PROVE  \E fold : IsFold(fold, next, base, S)
<1> DEFINE Bad == {T \in SUBSET S : ~\E fold : IsFold(fold, next, base, T)}
<1>1. SUFFICES ASSUME Bad # {} PROVE FALSE
  OBVIOUS
<1>2. PICK T \in Bad : \A U \in SUBSET T : U # T => U \notin Bad
  <2>1. Bad \subseteq SUBSET S
    OBVIOUS
  <2> HIDE DEF Bad
  <2> QED
    BY <1>1, <2>1, SmallestSubset
<1> DEFINE Part(U) == CHOOSE fold : IsFold(fold, next, base, U)
           whole == [s \in SUBSET T |->
                       IF s = {} THEN base ELSE next[Max(s)][Part(s \ {Max(s)})[s \ {Max(s)}]]]
<1>3. ASSUME NEW U \in SUBSET T, U # T
      PROVE  IsFold(Part(U), next, base, U) /\ IsFiniteSet(U) /\ U \in SUBSET Int
  <2>1. \E fold : IsFold(fold, next, base, U)
    BY <1>2, <1>3
  <2>2. IsFiniteSet(U) /\ U \in SUBSET Int
    BY <1>2, <1>3, FS_Subset
  <2> QED
    BY <2>1, <2>2
<1>4. ASSUME NEW s \in SUBSET T, s # {}
      PROVE  Max(s) \in s /\ s \ {Max(s)} \in SUBSET T /\ s \ {Max(s)} # T
  <2>1. s \in SUBSET Int /\ IsFiniteSet(s)
    BY <1>2, FS_Subset
  <2>2. Max(s) \in s
    BY <1>4, <2>1, MaxIsIn
  <2> QED
    BY <2>2
<1>5. ASSUME NEW U \in SUBSET T, U # T
      PROVE  whole[U] = Part(U)[U]
  <2> DEFINE x == Max(U)
  <2>1. IsFold(Part(U), next, base, U) /\ IsFiniteSet(U) /\ U \in SUBSET Int
    BY <1>3, <1>5
  <2>2. CASE U = {}
    <3>1. Part(U)[U] = base
      <4> HIDE DEF Part
      <4> QED
        BY <2>1, <2>2, FoldStep
    <3> QED
      BY <2>2, <3>1
  <2>3. CASE U # {}
    <3>1. x \in U /\ U \ {x} \in SUBSET T /\ U \ {x} # T /\ U \ {x} \in SUBSET U
      BY <1>4, <2>3
    <3>2. whole[U] = next[x][Part(U \ {x})[U \ {x}]]
      BY <2>3
    <3>3. Part(U)[U] = next[x][Part(U)[U \ {x}]]
      <4> HIDE DEF Part
      <4>1. U \in SUBSET U
        OBVIOUS
      <4> QED
        BY <2>1, <2>3, <4>1, FoldStep
    <3>4. IsFold(Part(U \ {x}), next, base, U \ {x}) /\ IsFiniteSet(U \ {x}) /\ U \ {x} \in SUBSET Int
      BY <1>3, <3>1
    <3> HIDE DEF Part, whole, x
    <3>5. Part(U \ {x})[U \ {x}] = Part(U)[U \ {x}]
      BY <2>1, <3>1, <3>4, FoldsAgree
    <3> QED
      BY <3>2, <3>3, <3>5
  <2> QED
    BY <2>2, <2>3
<1>6. \A s \in SUBSET T : s # {} =>
        Part(s \ {Max(s)})[s \ {Max(s)}] = whole[s \ {Max(s)}]
  <2> HIDE DEF Part, whole
  <2> QED
    BY <1>4, <1>5
<1>7. IsFold(whole, next, base, T)
  <2>1. whole = [s \in SUBSET T |->
                   IF s = {} THEN base ELSE next[Max(s)][whole[s \ {Max(s)}]]]
    <3> DEFINE other == [s \in SUBSET T |->
                           IF s = {} THEN base ELSE next[Max(s)][whole[s \ {Max(s)}]]]
    <3>1. \A s \in SUBSET T : whole[s] = other[s]
      <4>1. \A s \in SUBSET T : whole[s] = IF s = {} THEN base ELSE next[Max(s)][Part(s \ {Max(s)})[s \ {Max(s)}]]
        OBVIOUS
      <4>2. \A s \in SUBSET T : other[s] = IF s = {} THEN base ELSE next[Max(s)][whole[s \ {Max(s)}]]
        OBVIOUS
      <4> HIDE DEF Part, whole, other
      <4> QED
        BY <1>6, <4>1, <4>2
    <3> QED
      BY <3>1
  <2> HIDE DEF whole
  <2> QED
    BY <2>1 DEF IsFold
<1> QED
  BY <1>2, <1>7

(* What holds of the base and is kept by every step holds of the whole.    *)
LEMMA FoldStays ==
  ASSUME NEW S \in SUBSET Int, IsFiniteSet(S), NEW V, NEW fold, fold[{}] \in V,
         \A s \in (SUBSET S) \ {{}} : fold[s \ {Max(s)}] \in V => fold[s] \in V
  PROVE  \A s \in SUBSET S : fold[s] \in V
<1> DEFINE Bad == {s \in SUBSET S : fold[s] \notin V}
<1>1. SUFFICES ASSUME Bad # {} PROVE FALSE
  OBVIOUS
<1>2. PICK s \in Bad : \A t \in SUBSET s : t # s => t \notin Bad
  <2>1. Bad \subseteq SUBSET S
    OBVIOUS
  <2> HIDE DEF Bad
  <2> QED
    BY <1>1, <2>1, SmallestSubset
<1>3. s \in (SUBSET S) \ {{}} /\ fold[s] \notin V
  BY <1>2
<1>4. Max(s) \in s
  <2>1. s \in SUBSET Int /\ IsFiniteSet(s) /\ s # {}
    BY <1>3, FS_Subset
  <2> QED
    BY <2>1, MaxIsIn
<1>5. s \ {Max(s)} \in SUBSET s /\ s \ {Max(s)} # s
  BY <1>4
<1>6. fold[s \ {Max(s)}] \in V
  BY <1>2, <1>3, <1>5
<1> QED
  BY <1>3, <1>6

StaysInside(fold, next, base, V, I) ==
  /\ fold = [s \in SUBSET I |-> fold[s]]
  /\ fold[{}] = base
  /\ \A s \in SUBSET I : fold[s] \in V
  /\ \A s \in (SUBSET I) \ {{}} : Max(s) \in I /\ fold[s] = next[Max(s)][fold[s \ {Max(s)}]]

(* If the steps stay in V there is a fold that does.                       *)
LEMMA FoldInside ==
  ASSUME NEW I \in SUBSET Int, IsFiniteSet(I), NEW V, NEW base \in V, NEW next \in [I -> [V -> V]]
  PROVE  \E fold : StaysInside(fold, next, base, V, I)
<1>1. PICK fold : IsFold(fold, next, base, I)
  BY FoldExists
<1>2. fold = [s \in SUBSET I |-> fold[s]]
  BY <1>1 DEF IsFold
<1>3. \A s \in SUBSET I : fold[s] = IF s = {} THEN base ELSE next[Max(s)][fold[s \ {Max(s)}]]
  BY <1>1 DEF IsFold
<1>4. fold[{}] = base
  BY <1>3
<1>5. \A s \in (SUBSET I) \ {{}} : Max(s) \in I
  <2>1. \A s \in SUBSET I : s \in SUBSET Int /\ IsFiniteSet(s)
    BY FS_Subset
  <2> QED
    BY <2>1, MaxIsIn
<1>6. \A s \in (SUBSET I) \ {{}} : fold[s \ {Max(s)}] \in V => fold[s] \in V
  <2>1. ASSUME NEW s \in (SUBSET I) \ {{}}, fold[s \ {Max(s)}] \in V PROVE fold[s] \in V
    <3> DEFINE x == Max(s)
    <3>1. x \in I
      BY <1>5
    <3>2. fold[s] = next[x][fold[s \ {x}]]
      BY <1>3
    <3> QED
      BY <2>1, <3>1, <3>2
  <2> QED
    BY <2>1
<1>7. \A s \in SUBSET I : fold[s] \in V
  BY <1>4, <1>6, FoldStays
<1>8. \A s \in (SUBSET I) \ {{}} : Max(s) \in I /\ fold[s] = next[Max(s)][fold[s \ {Max(s)}]]
  BY <1>3, <1>5
<1> QED
  BY <1>2, <1>4, <1>7, <1>8 DEF StaysInside

(* The indices of a sequence.                                              *)
LEMMA IndicesAreFinite ==
  ASSUME NEW T, NEW seq \in Seq(T)
  PROVE  /\ DOMAIN seq \in SUBSET Int /\ DOMAIN seq \subseteq Nat /\ IsFiniteSet(DOMAIN seq)
         /\ \A i \in DOMAIN seq : seq[i] \in T
<1>1. PICK n \in Nat : DOMAIN seq = 1 .. n
  OBVIOUS
<1>2. IsFiniteSet(DOMAIN seq)
  BY <1>1, FS_Interval
<1> QED
  BY <1>1, <1>2

-----------------------------------------------------------------------------
(* Batches.                                                                *)

(* The states that tx leads to from states of S.                           *)
Effects(S, tx, isMain) == UNION {Effect(s, tx, isMain) : s \in S}

IsRun(run, chain, txs, isMain, I) ==
  run = [s \in SUBSET I |-> IF s = {} THEN {chain}
                            ELSE Effects(run[s \ {Max(s)}], txs[Max(s)], isMain)]

(* A batch is the whole of such a run.                                     *)
LEMMA ExecuteIsRun ==
  ASSUME NEW chain, NEW isMain, NEW txs \in Seq(Transactions)
  PROVE  Execute(chain, txs, isMain)
           = (CHOOSE run : IsRun(run, chain, txs, isMain, DOMAIN txs))[DOMAIN txs]
  BY DEF Execute, FoldLeft, MapThenFoldSet, IsRun, Effects

(* What each of its transactions keeps in C, a batch keeps in C.           *)
LEMMA BatchStays ==
  ASSUME NEW C, NEW chain \in C, NEW isMain, NEW txs,
         \A s \in C : \A i \in DOMAIN txs :
           txs[i] \in Transactions => Effect(s, txs[i], isMain) \subseteq C
  PROVE  Execute(chain, txs, isMain) \subseteq C
<1>1. CASE txs \notin Seq(Transactions)
  BY <1>1 DEF Execute
<1>2. CASE txs \in Seq(Transactions)
  <2> DEFINE I == DOMAIN txs
             V == SUBSET C
             next == [i \in I |-> [S \in V |-> Effects(S, txs[i], isMain)]]
             run == CHOOSE r : IsRun(r, chain, txs, isMain, I)
  <2>1. I \in SUBSET Int /\ IsFiniteSet(I) /\ \A i \in I : txs[i] \in Transactions
    BY <1>2, IndicesAreFinite
  <2>2. ASSUME NEW S \in V, NEW i \in I
        PROVE  Effects(S, txs[i], isMain) \in V
    BY <2>1, <2>2 DEF Effects
  <2>3. {chain} \in V /\ next \in [I -> [V -> V]]
    BY <2>2
  <2>4. PICK r : StaysInside(r, next, {chain}, V, I)
    <3> HIDE DEF I, V, next
    <3> QED
      BY <2>1, <2>3, FoldInside
  <2>5. \A s \in (SUBSET I) \ {{}} :
          Max(s) \in I /\ r[s] = Effects(r[s \ {Max(s)}], txs[Max(s)], isMain)
    <3>1. ASSUME NEW s \in (SUBSET I) \ {{}}
          PROVE  Max(s) \in I /\ r[s] = Effects(r[s \ {Max(s)}], txs[Max(s)], isMain)
      <4> DEFINE x == Max(s)
      <4>1. x \in I /\ r[s] = next[x][r[s \ {x}]] /\ r[s \ {x}] \in V
        <5> HIDE DEF I, V, next
        <5> QED
          BY <2>4 DEF StaysInside
      <4> HIDE DEF x
      <4>2. next[x][r[s \ {x}]] = Effects(r[s \ {x}], txs[x], isMain)
        BY <4>1
      <4> QED
        BY <4>1, <4>2 DEF x
    <3> QED
      BY <3>1
  <2>6. IsRun(r, chain, txs, isMain, I)
    <3> HIDE DEF I, V, next
    <3>1. r = [s \in SUBSET I |-> r[s]] /\ r[{}] = {chain}
      BY <2>4 DEF StaysInside
    <3>2. r = [s \in SUBSET I |-> IF s = {} THEN {chain}
                                   ELSE Effects(r[s \ {Max(s)}], txs[Max(s)], isMain)]
      BY <2>5, <3>1
    <3> QED
      BY <3>2 DEF IsRun
  <2>7. IsRun(run, chain, txs, isMain, I)
    <3> HIDE DEF I
    <3> QED
      BY <2>6
  <2> HIDE DEF run
  <2>8. \A s \in SUBSET I : run[s] = IF s = {} THEN {chain}
                                ELSE Effects(run[s \ {Max(s)}], txs[Max(s)], isMain)
    <3> HIDE DEF I
    <3> QED
      BY <2>7 DEF IsRun
  <2>9. run[{}] \in V
    BY <2>3, <2>8
  <2>10. \A s \in (SUBSET I) \ {{}} : run[s \ {Max(s)}] \in V => run[s] \in V
    BY <2>2, <2>5, <2>8
  <2>11. run[I] \in V
    <3> HIDE DEF I, V
    <3>1. I \in SUBSET I
      OBVIOUS
    <3> QED
      BY <2>1, <2>9, <2>10, <3>1, FoldStays
  <2>12. Execute(chain, txs, isMain) = run[I]
    BY <1>2, ExecuteIsRun DEF run
  <2> QED
    BY <2>11, <2>12
<1> QED
  BY <1>1, <1>2

-----------------------------------------------------------------------------
(* What a transaction of a Safe does to a chain.                           *)

ChainStates ==
  [pools : Seq(Gauges), rewarded : SUBSET Nat, valid : SUBSET Gauges,
   poolId : [Gauges -> Nat], dst : [Gauges -> {"none", "main", "side"}],
   noDeposit : SUBSET Gauges, power : [Gauges -> Nat],
   rewardPerEpoch : Nat, weightOf : [Gauges -> Nat], totalWeight : Nat,
   processed : SUBSET Gauges, toSend : [Gauges -> Nat], sent : [Gauges -> Nat],
   aura : Nat, distroAura : Nat, funds : [1 .. MaxPools -> Nat]]

(* The id of a pool is that of a pool of the gauge.                        *)
KnownPools(s) ==
  \A g \in Gauges : s.poolId[g] # 0 => s.poolId[g] \in DOMAIN s.pools /\ s.pools[s.poolId[g]] = g

(* Pools stay where they are, ...                                          *)
PoolsStay(s, t) == \A p \in DOMAIN s.pools : p \in DOMAIN t.pools /\ t.pools[p] = s.pools[p]

(* ... nothing is sent or received, ...                                    *)
NothingMoves(s, t) ==
  /\ t.rewardPerEpoch = s.rewardPerEpoch /\ t.processed = s.processed
  /\ t.toSend = s.toSend /\ t.sent = s.sent
  /\ t.aura = s.aura /\ t.distroAura = s.distroAura /\ t.funds = s.funds

(* ... and only the first vote of an epoch gives weights.                  *)
WeightsFollow(s, t) ==
  \/ t.weightOf = s.weightOf /\ t.totalWeight = s.totalWeight
  \/ s.totalWeight = 0 /\ SumFunctionOnSet(t.weightOf, Gauges) <= t.totalWeight

Follows(s, t) ==
  /\ t \in ChainStates /\ KnownPools(t)
  /\ PoolsStay(s, t) /\ NothingMoves(s, t) /\ WeightsFollow(s, t)

(* A pool is added after the others.                                       *)
LEMMA AddPoolFollows ==
  ASSUME NEW s \in ChainStates, KnownPools(s), NEW g \in Gauges, NEW from,
         NEW t \in AddPool(s, g, from)
  PROVE  Follows(s, t)
<1>1. t = [s EXCEPT !.pools = Append(@, g)]
  BY DEF AddPool, When
<1> DEFINE pools == s.pools
           more == Append(pools, g)
<1>2. pools \in Seq(Gauges)
  BY DEF ChainStates
<1>3. more \in Seq(Gauges) /\ \A p \in DOMAIN pools : p \in DOMAIN more /\ more[p] = pools[p]
  <2> HIDE DEF pools
  <2> QED
    BY <1>2
<1>4. /\ t \in ChainStates /\ t.pools = more /\ t.poolId = s.poolId
      /\ t.weightOf = s.weightOf /\ t.totalWeight = s.totalWeight /\ NothingMoves(s, t)
  BY <1>1, <1>3 DEF ChainStates, NothingMoves
<1> QED
  BY <1>3, <1>4 DEF Follows, KnownPools, PoolsStay, WeightsFollow

(* A token for a stash.                                                    *)
LEMMA StashFollows ==
  ASSUME NEW s \in ChainStates, KnownPools(s), NEW pid \in Nat,
         NEW t \in SetStashExtraReward(s, pid)
  PROVE  Follows(s, t)
<1>1. t = [s EXCEPT !.rewarded = @ \cup {pid}]
  BY DEF SetStashExtraReward, When
<1> QED
  BY <1>1 DEF ChainStates, Follows, KnownPools, PoolsStay, WeightsFollow, NothingMoves

(* Pool ids.                                                               *)
LEMMA PoolIdsFollow ==
  ASSUME NEW s \in ChainStates, KnownPools(s), NEW from \in Nat, NEW to \in Nat,
         NEW t \in SetPoolIds(s, from, to)
  PROVE  Follows(s, t)
<1> DEFINE ids == [g \in Gauges |-> IF g \in Mapped(s, from, to) THEN PidOf(s, g) ELSE s.poolId[g]]
<1>1. t = [s EXCEPT !.poolId = ids] /\ from .. to - 1 \subseteq DOMAIN s.pools
  BY DEF SetPoolIds, When
<1>2. \A g \in Mapped(s, from, to) : PidOf(s, g) \in DOMAIN s.pools /\ s.pools[PidOf(s, g)] = g
  BY <1>1 DEF Mapped, PidOf
<1>3. DOMAIN s.pools \subseteq Nat
  <2>1. s.pools \in Seq(Gauges)
    BY DEF ChainStates
  <2> QED
    BY <2>1, IndicesAreFinite
<1>4. ids \in [Gauges -> Nat]
  BY <1>2, <1>3 DEF ChainStates
<1>5. \A g \in Gauges : ids[g] # 0 => ids[g] \in DOMAIN s.pools /\ s.pools[ids[g]] = g
  BY <1>2 DEF KnownPools
<1> HIDE DEF ids
<1>6. /\ t \in ChainStates /\ t.pools = s.pools /\ t.poolId = ids
      /\ t.weightOf = s.weightOf /\ t.totalWeight = s.totalWeight /\ NothingMoves(s, t)
  BY <1>1, <1>4 DEF ChainStates, NothingMoves
<1> QED
  BY <1>5, <1>6 DEF Follows, KnownPools, PoolsStay, WeightsFollow

(* On mainnet, with the chain of the gauge.                                *)
LEMMA MainPoolIdsFollow ==
  ASSUME NEW s \in ChainStates, KnownPools(s), NEW from \in Nat, NEW to \in Nat,
         NEW t \in SetMainPoolIds(s, from, to)
  PROVE  Follows(s, t)
<1> DEFINE dst == [g \in Gauges |-> IF g \in Mapped(s, from, to) /\ s.dst[g] = "none"
                                    THEN "main" ELSE s.dst[g]]
<1>1. PICK u \in SetPoolIds(s, from, to) : t = [u EXCEPT !.dst = dst]
  BY DEF SetMainPoolIds
<1>2. dst \in [Gauges -> {"none", "main", "side"}]
  BY DEF ChainStates
<1> HIDE DEF dst
<1>3. Follows(s, u)
  BY PoolIdsFollow
<1> QED
  BY <1>1, <1>2, <1>3 DEF ChainStates, Follows, KnownPools, PoolsStay, WeightsFollow, NothingMoves

(* What only says which gauges get a deposit, and where a gauge is.        *)
LEMMA DepositFollows ==
  ASSUME NEW s \in ChainStates, KnownPools(s), NEW g \in Gauges, NEW isNoDeposit,
         NEW t \in SetIsNoDepositGauge(s, g, isNoDeposit)
  PROVE  Follows(s, t)
<1>1. t = [s EXCEPT !.noDeposit = IF isNoDeposit THEN @ \cup {g} ELSE @ \ {g}]
  BY DEF SetIsNoDepositGauge
<1> QED
  BY <1>1 DEF ChainStates, Follows, KnownPools, PoolsStay, WeightsFollow, NothingMoves

LEMMA DstChainFollows ==
  ASSUME NEW s \in ChainStates, KnownPools(s), NEW g \in Gauges, NEW t \in SetDstChainId(s, g)
  PROVE  Follows(s, t)
<1> DEFINE dst == [s.dst EXCEPT ![g] = "side"]
<1>1. t = [s EXCEPT !.dst = dst]
  BY DEF SetDstChainId
<1>2. dst \in [Gauges -> {"none", "main", "side"}]
  BY DEF ChainStates
<1> HIDE DEF dst
<1> QED
  BY <1>1, <1>2 DEF ChainStates, Follows, KnownPools, PoolsStay, WeightsFollow, NothingMoves

-----------------------------------------------------------------------------
(* Votes.                                                                  *)

VoteSeqs == Seq([gauge : Gauges, delta : Int, weight : Nat])

(* The states after v has been cast in those of S.                         *)
Casts(S, v) ==
  UNION {When(SumFunctionOnSet(s.power, Gauges) - s.power[v.gauge] + v.weight <= TotalVotes,
              [s EXCEPT !.power[v.gauge] = v.weight]) : s \in S}

IsCasting(run, chain, cast, I) ==
  run = [s \in SUBSET I |-> IF s = {} THEN {chain} ELSE Casts(run[s \ {Max(s)}], cast[Max(s)])]

LEMMA CastVotesIsCasting ==
  ASSUME NEW chain, NEW cast
  PROVE  CastVotes(chain, cast)
           = (CHOOSE run : IsCasting(run, chain, cast, DOMAIN cast))[DOMAIN cast]
  BY DEF CastVotes, FoldLeft, MapThenFoldSet, IsCasting, Casts

(* What differs from s in the power of gauges only.                        *)
SameButPower(s, t) ==
  /\ t \in ChainStates /\ NothingMoves(s, t)
  /\ t.pools = s.pools /\ t.rewarded = s.rewarded /\ t.poolId = s.poolId
  /\ t.weightOf = s.weightOf /\ t.totalWeight = s.totalWeight

(* Casting votes changes nothing but the power of gauges.                  *)
LEMMA CastingStays ==
  ASSUME NEW chain \in ChainStates, NEW cast \in VoteSeqs, NEW t \in CastVotes(chain, cast)
  PROVE  SameButPower(chain, t)
<1> DEFINE C == {u \in ChainStates : SameButPower(chain, u)}
           I == DOMAIN cast
           V == SUBSET C
           next == [i \in I |-> [S \in V |-> Casts(S, cast[i])]]
           run == CHOOSE r : IsCasting(r, chain, cast, I)
<1>1. I \in SUBSET Int /\ IsFiniteSet(I) /\ \A i \in I : cast[i] \in [gauge : Gauges, delta : Int, weight : Nat]
  BY IndicesAreFinite DEF VoteSeqs
<1>2. ASSUME NEW S \in V, NEW i \in I
      PROVE  Casts(S, cast[i]) \in V
  <2>1. ASSUME NEW u \in Casts(S, cast[i]) PROVE u \in C
    <3>1. PICK w \in S : u = [w EXCEPT !.power[cast[i].gauge] = cast[i].weight]
      BY <2>1 DEF Casts, When
    <3>2. w \in ChainStates /\ SameButPower(chain, w)
      BY <3>1
    <3> DEFINE power == [w.power EXCEPT ![cast[i].gauge] = cast[i].weight]
    <3>3. power \in [Gauges -> Nat] /\ u = [w EXCEPT !.power = power]
      BY <1>1, <3>1, <3>2 DEF ChainStates
    <3> HIDE DEF power
    <3>4. SameButPower(chain, u)
      BY <3>2, <3>3 DEF SameButPower, ChainStates, NothingMoves
    <3> QED
      BY <3>4 DEF SameButPower
  <2> QED
    BY <2>1
<1>3. {chain} \in V /\ next \in [I -> [V -> V]]
  BY <1>2 DEF SameButPower, NothingMoves
<1>4. PICK r : StaysInside(r, next, {chain}, V, I)
  <2> HIDE DEF I, V, next
  <2> QED
    BY <1>1, <1>3, FoldInside
<1>5. \A s \in (SUBSET I) \ {{}} :
        Max(s) \in I /\ r[s] = Casts(r[s \ {Max(s)}], cast[Max(s)])
  <2>1. ASSUME NEW s \in (SUBSET I) \ {{}}
        PROVE  Max(s) \in I /\ r[s] = Casts(r[s \ {Max(s)}], cast[Max(s)])
    <3> DEFINE x == Max(s)
    <3>1. x \in I /\ r[s] = next[x][r[s \ {x}]] /\ r[s \ {x}] \in V
      <4> HIDE DEF I, V, next
      <4> QED
        BY <1>4 DEF StaysInside
    <3> HIDE DEF x
    <3>2. next[x][r[s \ {x}]] = Casts(r[s \ {x}], cast[x])
      BY <3>1
    <3> QED
      BY <3>1, <3>2 DEF x
  <2> QED
    BY <2>1
<1>6. IsCasting(r, chain, cast, I)
  <2> HIDE DEF I, V, next
  <2>1. r = [s \in SUBSET I |-> r[s]] /\ r[{}] = {chain}
    BY <1>4 DEF StaysInside
  <2>2. r = [s \in SUBSET I |-> IF s = {} THEN {chain} ELSE Casts(r[s \ {Max(s)}], cast[Max(s)])]
    BY <1>5, <2>1
  <2> QED
    BY <2>2 DEF IsCasting
<1>7. IsCasting(run, chain, cast, I)
  <2> HIDE DEF I
  <2> QED
    BY <1>6
<1> HIDE DEF run
<1>8. \A s \in SUBSET I : run[s] = IF s = {} THEN {chain}
                                   ELSE Casts(run[s \ {Max(s)}], cast[Max(s)])
  <2> HIDE DEF I
  <2> QED
    BY <1>7 DEF IsCasting
<1>9. run[{}] \in V
  BY <1>3, <1>8
<1>10. \A s \in (SUBSET I) \ {{}} : run[s \ {Max(s)}] \in V => run[s] \in V
  BY <1>2, <1>5, <1>8
<1>11. run[I] \in V
  <2> HIDE DEF I, V
  <2>1. I \in SUBSET I
    OBVIOUS
  <2> QED
    BY <1>1, <1>9, <1>10, <2>1, FoldStays
<1>12. CastVotes(chain, cast) = run[I]
  BY CastVotesIsCasting DEF run
<1> QED
  BY <1>11, <1>12

(* There are finitely many gauges.                                         *)
LEMMA GaugesAreFinite == IsFiniteSet(Gauges)
<1>1. GaugeOrder \in Seq(Gauges) /\ ToSet(GaugeOrder) = Gauges
  BY ListingAssumption
<1>2. GaugeOrder \in Surjection(DOMAIN GaugeOrder, Gauges)
  BY <1>1 DEF Surjection, ToSet
<1>3. IsFiniteSet(DOMAIN GaugeOrder)
  BY <1>1, IndicesAreFinite
<1> QED
  BY <1>2, <1>3, FS_Surjection

(* The last vote for each gauge, of the votes in deposit.                  *)
LastWeights(cast, deposit) ==
  LET weight == [k \in DOMAIN cast |-> cast[k].weight]
      of(g)  == {k \in deposit : cast[k].gauge = g}
  IN [g \in Gauges |-> IF of(g) = {} THEN 0 ELSE weight[Max(of(g))]]

(* A gauge that is voted for twice counts once, the total both times.      *)
LEMMA LastWeightsFit ==
  ASSUME NEW cast \in VoteSeqs, NEW deposit \in SUBSET DOMAIN cast
  PROVE  LET weight == [k \in DOMAIN cast |-> cast[k].weight]
         IN  /\ LastWeights(cast, deposit) \in [Gauges -> Nat]
             /\ SumFunctionOnSet(weight, deposit) \in Nat
             /\ SumFunctionOnSet(LastWeights(cast, deposit), Gauges) <= SumFunctionOnSet(weight, deposit)
<1> DEFINE I == DOMAIN cast
           weight == [k \in I |-> cast[k].weight]
           part == [g \in Gauges |-> {k \in deposit : cast[k].gauge = g}]
           all == [g \in Gauges |-> SumFunctionOnSet(weight, part[g])]
           last == LastWeights(cast, deposit)
<1>1. /\ I \in SUBSET Int /\ IsFiniteSet(I)
      /\ \A k \in I : weight[k] \in Nat /\ weight[k] = cast[k].weight /\ cast[k].gauge \in Gauges
  <2>1. I \in SUBSET Int /\ IsFiniteSet(I) /\ \A k \in I : cast[k] \in [gauge : Gauges, delta : Int, weight : Nat]
    BY IndicesAreFinite DEF VoteSeqs
  <2> QED
    BY <2>1
<1>2. deposit \in SUBSET Int /\ IsFiniteSet(deposit)
  <2> HIDE DEF I
  <2>1. deposit \in SUBSET I
    BY DEF I
  <2> QED
    BY <1>1, <2>1, FS_Subset
<1>3. \A g \in Gauges : part[g] \in SUBSET deposit /\ part[g] \in SUBSET Int /\ IsFiniteSet(part[g])
  <2>1. \A g \in Gauges : part[g] \in SUBSET deposit
    OBVIOUS
  <2> HIDE DEF part
  <2> QED
    BY <1>2, <2>1, FS_Subset
<1>4. \A g \in Gauges : part[g] # {} => Max(part[g]) \in part[g]
  <2> HIDE DEF part
  <2> QED
    BY <1>3, MaxIsIn
<1>5. last = [g \in Gauges |-> IF part[g] = {} THEN 0 ELSE weight[Max(part[g])]]
  BY DEF LastWeights
<1>6. \A k \in deposit : weight[k] \in Nat
  BY <1>1
<1> HIDE DEF weight, part, last, I
<1>7. \A g \in Gauges : last[g] = IF part[g] = {} THEN 0 ELSE weight[Max(part[g])]
  BY <1>5
<1>8. ASSUME NEW g \in Gauges
      PROVE  all[g] \in Nat /\ last[g] \in Nat /\ last[g] <= all[g]
  <2> DEFINE P == part[g]
  <2>1. P \in SUBSET deposit /\ IsFiniteSet(P) /\ \A k \in P : weight[k] \in Nat
    BY <1>3, <1>6
  <2>2. all[g] = SumFunctionOnSet(weight, P)
    OBVIOUS
  <2>3. P # {} => Max(P) \in P
    BY <1>4
  <2>4. last[g] = IF P = {} THEN 0 ELSE weight[Max(P)]
    BY <1>7
  <2> HIDE DEF P, all
  <2>5. all[g] \in Nat
    BY <2>1, <2>2, SumIsNat
  <2>6. CASE P = {}
    BY <2>4, <2>5, <2>6
  <2>7. CASE P # {}
    <3>1. weight[Max(P)] <= SumFunctionOnSet(weight, P)
      BY <2>1, <2>3, <2>7, SumCoversEach
    <3> QED
      BY <2>1, <2>2, <2>3, <2>4, <2>5, <2>7, <3>1
  <2> QED
    BY <2>6, <2>7
<1>9. last \in [Gauges -> Nat]
  BY <1>5, <1>8
<1>10. SumFunctionOnSet(weight, deposit) \in Nat
  BY <1>2, <1>6, SumIsNat
<1>11. SumFunctionOnSet(last, Gauges) <= SumFunctionOnSet(all, Gauges)
  <2>1. \A g \in Gauges : last[g] \in Int /\ all[g] \in Int /\ last[g] <= all[g]
    BY <1>8
  <2> HIDE DEF all
  <2> QED
    BY <2>1, GaugesAreFinite, SumIsMonotone
<1> DEFINE members == {k \in deposit : \E g \in Gauges : k \in part[g]}
<1>12. SumFunctionOnSet(all, Gauges) = SumFunctionOnSet(weight, members)
  <2>1. \A g \in Gauges : part[g] \subseteq deposit /\ all[g] = SumFunctionOnSet(weight, part[g])
    BY <1>3
  <2>2. \A g, h \in Gauges : g # h => part[g] \cap part[h] = {}
    BY DEF part
  <2>3. \A k \in deposit : weight[k] \in Int
    BY <1>6
  <2> HIDE DEF all
  <2> QED
    BY <1>2, <2>1, <2>2, <2>3, GaugesAreFinite, SumOfClasses
<1>13. SumFunctionOnSet(weight, members) <= SumFunctionOnSet(weight, deposit)
  <2>1. members \in SUBSET deposit
    OBVIOUS
  <2> HIDE DEF members
  <2> QED
    BY <1>2, <1>6, <2>1, SumOfPart
<1>14. SumFunctionOnSet(last, Gauges) \in Nat /\ SumFunctionOnSet(all, Gauges) \in Nat
  <2>1. \A g \in Gauges : last[g] \in Nat /\ all[g] \in Nat
    BY <1>8
  <2> HIDE DEF all
  <2> QED
    BY <2>1, GaugesAreFinite, SumIsNat
<1>15. SumFunctionOnSet(last, Gauges) <= SumFunctionOnSet(weight, deposit)
  <2> HIDE DEF all, members
  <2> QED
    BY <1>10, <1>11, <1>12, <1>13, <1>14
<1> QED
  BY <1>9, <1>10, <1>15 DEF last, weight, I

(* Votes.                                                                  *)
LEMMA VotesFollow ==
  ASSUME NEW s \in ChainStates, KnownPools(s), NEW cast \in VoteSeqs,
         NEW t \in VoteGaugeWeight(s, cast)
  PROVE  Follows(s, t)
<1> DEFINE weight == [k \in DOMAIN cast |-> cast[k].weight]
           deposit == {k \in DOMAIN cast : cast[k].gauge \notin s.noDeposit}
           last == LastWeights(cast, deposit)
           total == SumFunctionOnSet(weight, deposit)
           voted == [s EXCEPT !.weightOf = last, !.totalWeight = total]
<1>1. s.totalWeight = 0 /\ t \in CastVotes(voted, cast)
  BY DEF VoteGaugeWeight, When, LastWeights
<1>2. last \in [Gauges -> Nat] /\ total \in Nat /\ SumFunctionOnSet(last, Gauges) <= total
  BY LastWeightsFit
<1> HIDE DEF last, total
<1>3. /\ voted \in ChainStates /\ NothingMoves(s, voted)
      /\ voted.pools = s.pools /\ voted.poolId = s.poolId
      /\ voted.weightOf = last /\ voted.totalWeight = total
  BY <1>2 DEF ChainStates, NothingMoves
<1> HIDE DEF voted
<1>4. SameButPower(voted, t)
  BY <1>1, <1>3, CastingStays
<1>5. t \in ChainStates /\ t.pools = s.pools /\ t.poolId = s.poolId /\ NothingMoves(s, t)
      /\ t.weightOf = last /\ t.totalWeight = total
  BY <1>3, <1>4 DEF SameButPower, NothingMoves
<1>6. SumFunctionOnSet(t.weightOf, Gauges) <= t.totalWeight
  BY <1>2, <1>5
<1> QED
  BY <1>1, <1>5, <1>6 DEF Follows, KnownPools, PoolsStay, WeightsFollow

-----------------------------------------------------------------------------
(* Every transaction of a Safe.                                            *)
LEMMA EffectFollows ==
  ASSUME NEW s \in ChainStates, KnownPools(s), NEW tx \in Transactions, NEW isMain \in BOOLEAN,
         NEW t \in Effect(s, tx, isMain)
  PROVE  Follows(s, t)
<1>1. CASE tx \in [fn : {"addPool", "setDstChainId"}, gauge : Gauges]
  <2>1. CASE tx.fn = "addPool"
    <3>1. tx.gauge \in Gauges /\ t \in AddPool(s, tx.gauge, IF isMain THEN weighted ELSE SideGauges)
      BY <1>1, <2>1 DEF Effect
    <3> QED
      BY <3>1, AddPoolFollows
  <2>2. CASE tx.fn = "setDstChainId"
    <3>1. tx.gauge \in Gauges /\ t \in SetDstChainId(s, tx.gauge)
      BY <1>1, <2>2 DEF Effect
    <3> QED
      BY <3>1, DstChainFollows
  <2> QED
    BY <1>1, <2>1, <2>2
<1>2. CASE tx \in [fn : {"setStashExtraReward"}, pid : Nat]
  <2>1. tx.pid \in Nat /\ t \in SetStashExtraReward(s, tx.pid)
    BY <1>2 DEF Effect
  <2> QED
    BY <2>1, StashFollows
<1>3. CASE tx \in [fn : {"setPoolIds"}, from : Nat, to : Nat]
  <2>1. CASE isMain
    <3>1. tx.from \in Nat /\ tx.to \in Nat /\ t \in SetMainPoolIds(s, tx.from, tx.to)
      BY <1>3, <2>1 DEF Effect
    <3> QED
      BY <3>1, MainPoolIdsFollow
  <2>2. CASE ~isMain
    <3>1. tx.from \in Nat /\ tx.to \in Nat /\ t \in SetPoolIds(s, tx.from, tx.to)
      BY <1>3, <2>2 DEF Effect
    <3> QED
      BY <3>1, PoolIdsFollow
  <2> QED
    BY <2>1, <2>2
<1>4. CASE tx \in [fn : {"setIsNoDepositGauge"}, gauge : Gauges, flag : BOOLEAN]
  <2>1. tx.gauge \in Gauges /\ t \in SetIsNoDepositGauge(s, tx.gauge, tx.flag)
    BY <1>4 DEF Effect
  <2> QED
    BY <2>1, DepositFollows
<1>5. CASE tx \in [fn : {"voteGaugeWeight"}, votes : VoteSeqs]
  <2>1. tx.votes \in VoteSeqs /\ t \in VoteGaugeWeight(s, tx.votes)
    BY <1>5 DEF Effect
  <2> QED
    BY <2>1, VotesFollow
<1> QED
  BY <1>1, <1>2, <1>3, <1>4, <1>5 DEF Transactions, VoteSeqs

-----------------------------------------------------------------------------
(* What holds of mainnet.                                                  *)

(* What a gauge has been sent never exceeds its share of the largest       *)
(* reward there was.                                                       *)
WithinShares(s) ==
  (InitialAura - s.aura) * s.totalWeight <= Largest(Rewards) * SumFunctionOnSet(s.weightOf, s.processed)

BudgetKept(s) ==
  /\ s.rewardPerEpoch \in Rewards
  /\ SumFunctionOnSet(s.weightOf, Gauges) <= s.totalWeight
  /\ s.aura <= InitialAura
  /\ s.totalWeight = 0 => s.processed = {} /\ s.aura = InitialAura
  /\ WithinShares(s)

MainFunds(s) ==
  \A p \in 1 .. MaxPools :
    s.funds[p] > 0 => p \in DOMAIN s.pools /\ s.pools[p] \in s.processed

MainOK(s) == s \in ChainStates /\ KnownPools(s) /\ BudgetKept(s) /\ MainFunds(s)

(* The largest of the rewards.                                             *)
LEMMA RewardsAreNat ==
  ASSUME NEW reward \in Rewards
  PROVE  Largest(Rewards) \in Nat /\ reward \in Nat /\ reward <= Largest(Rewards)
<1>1. Rewards \in SUBSET Int /\ Rewards \in SUBSET Nat /\ IsFiniteSet(Rewards) /\ Rewards # {}
  BY RoundAssumption
<1>2. \E m \in Rewards : \A n \in Rewards : n <= m
  BY <1>1, LargestExists
<1>3. Largest(Rewards) \in Rewards /\ \A n \in Rewards : n <= Largest(Rewards)
  BY <1>2 DEF Largest
<1> QED
  BY <1>1, <1>3

(* Sums of weights.                                                        *)
LEMMA WeightsHaveSum ==
  ASSUME NEW w \in [Gauges -> Nat], NEW T \in SUBSET Gauges
  PROVE  /\ IsFiniteSet(T) /\ SumFunctionOnSet(w, T) \in Nat
         /\ SumFunctionOnSet(w, T) <= SumFunctionOnSet(w, Gauges)
         /\ SumFunctionOnSet(w, Gauges) \in Nat
<1>1. IsFiniteSet(T)
  BY GaugesAreFinite, FS_Subset
<1>2. \A g \in Gauges : w[g] \in Nat
  OBVIOUS
<1> QED
  BY <1>1, <1>2, GaugesAreFinite, SumIsNat, SumOfPart

(* A transaction of the Safe leaves that as it was.                        *)
LEMMA MainFollows ==
  ASSUME NEW s, MainOK(s), NEW t, Follows(s, t)
  PROVE  MainOK(t) /\ t.processed = s.processed
<1>1. t \in ChainStates /\ KnownPools(t) /\ NothingMoves(s, t) /\ PoolsStay(s, t) /\ WeightsFollow(s, t)
  BY DEF Follows
<1>2. MainFunds(t)
  BY <1>1 DEF MainOK, MainFunds, NothingMoves, PoolsStay
<1>3. BudgetKept(t)
  <2>1. CASE t.weightOf = s.weightOf /\ t.totalWeight = s.totalWeight
    BY <1>1, <2>1 DEF MainOK, BudgetKept, WithinShares, NothingMoves
  <2>2. CASE s.totalWeight = 0 /\ SumFunctionOnSet(t.weightOf, Gauges) <= t.totalWeight
    <3>1. t.processed = {} /\ t.aura = InitialAura /\ t.rewardPerEpoch \in Rewards
      BY <1>1, <2>2 DEF MainOK, BudgetKept, NothingMoves
    <3>2. WithinShares(t)
      <4>1. SumFunctionOnSet(t.weightOf, t.processed) = 0
        BY <3>1, SumEmpty
      <4>2. Largest(Rewards) \in Nat /\ InitialAura \in Nat /\ t.totalWeight \in Nat
        BY <1>1, <3>1, RewardsAreNat, GaugeAssumption DEF ChainStates
      <4> QED
        BY <3>1, <4>1, <4>2 DEF WithinShares
    <3>3. t.aura <= InitialAura
      BY <3>1, GaugeAssumption
    <3> QED
      BY <2>2, <3>1, <3>2, <3>3 DEF BudgetKept
  <2> QED
    BY <1>1, <2>1, <2>2 DEF WeightsFollow
<1> QED
  BY <1>1, <1>2, <1>3 DEF MainOK, NothingMoves

(* So does a batch of them, and the pools stay where they are.             *)
LEMMA MainBatch ==
  ASSUME NEW s, MainOK(s), NEW txs, NEW t \in Execute(s, txs, TRUE)
  PROVE  MainOK(t) /\ t.processed = s.processed /\ PoolsStay(s, t)
<1> DEFINE C == {u \in ChainStates : MainOK(u) /\ u.processed = s.processed /\ PoolsStay(s, u)}
<1>1. s \in C
  BY DEF MainOK, PoolsStay
<1>2. \A u \in C, tx \in Transactions : Effect(u, tx, TRUE) \subseteq C
  <2>1. ASSUME NEW u \in C, NEW tx \in Transactions, NEW v \in Effect(u, tx, TRUE)
        PROVE  v \in C
    <3>1. u \in ChainStates /\ KnownPools(u) /\ MainOK(u) /\ PoolsStay(s, u) /\ TRUE \in BOOLEAN
      BY DEF MainOK
    <3>2. Follows(u, v)
      BY <3>1, EffectFollows
    <3>3. MainOK(v) /\ v.processed = u.processed
      BY <3>1, <3>2, MainFollows
    <3>4. PoolsStay(s, v)
      BY <3>1, <3>2 DEF Follows, PoolsStay
    <3> QED
      BY <3>3, <3>4 DEF MainOK
  <2> QED
    BY <2>1
<1> HIDE DEF C
<1>3. Execute(s, txs, TRUE) \subseteq C
  BY <1>1, <1>2, BatchStays
<1> QED
  BY <1>3 DEF C

(* A reward that is set is one of the rewards.                             *)
LEMMA MainReward ==
  ASSUME NEW s, MainOK(s), NEW reward \in Rewards, NEW t \in SetRewardPerEpoch(s, reward)
  PROVE  MainOK(t) /\ t.processed = s.processed
<1>1. t = [s EXCEPT !.rewardPerEpoch = reward] /\ reward \in Nat /\ s \in ChainStates
  BY RewardsAreNat DEF SetRewardPerEpoch, MainOK
<1> QED
  BY <1>1 DEF MainOK, ChainStates, KnownPools, BudgetKept, WithinShares, MainFunds

(* What is sent for a gauge.                                               *)
LEMMA AmountFitsShare ==
  ASSUME NEW s, MainOK(s), NEW g \in Gauges, CanProcess(s, g)
  PROVE  /\ AmountToSend(s, g) \in Nat /\ s.totalWeight \in Nat \ {0}
         /\ AmountToSend(s, g) * s.totalWeight <= Largest(Rewards) * s.weightOf[g]
<1> DEFINE reward == s.rewardPerEpoch
           weight == s.weightOf[g]
           total == s.totalWeight
           amount == (reward * weight) \div total
           largest == Largest(Rewards)
<1>1. total \in Nat \ {0} /\ weight \in Nat
  BY DEF MainOK, ChainStates, CanProcess
<1>2. reward \in Nat /\ largest \in Nat /\ reward <= largest
  BY RewardsAreNat DEF MainOK, BudgetKept
<1>3. amount = AmountToSend(s, g)
  BY DEF AmountToSend
<1> HIDE DEF reward, weight, total, largest
<1>4. reward * weight \in Nat
  BY <1>1, <1>2, ProductIsNat
<1>5. amount \in Nat /\ amount * total <= reward * weight
  BY <1>1, <1>4, DivIsFloor
<1>6. reward * weight <= largest * weight
  BY <1>1, <1>2, ProductIsMonotone
<1>7. largest * weight \in Nat /\ amount * total \in Nat
  BY <1>1, <1>2, <1>5, ProductIsNat
<1> HIDE DEF amount
<1>8. amount * total <= largest * weight
  BY <1>4, <1>5, <1>6, <1>7
<1> QED
  BY <1>1, <1>3, <1>5, <1>8 DEF total, weight, largest

(* A gauge that has been sent its share is one more of the processed.      *)
SendsShare(s, t, g) ==
  /\ t.rewardPerEpoch = s.rewardPerEpoch /\ t.weightOf = s.weightOf /\ t.totalWeight = s.totalWeight
  /\ t.processed = s.processed \cup {g}
  /\ AmountToSend(s, g) <= s.aura /\ t.aura = s.aura - AmountToSend(s, g)

LEMMA ShareIsSent ==
  ASSUME NEW s, MainOK(s), NEW g \in Gauges, CanProcess(s, g), NEW t, SendsShare(s, t, g)
  PROVE  BudgetKept(t)
<1> DEFINE sent == InitialAura - s.aura
           amount == AmountToSend(s, g)
           total == s.totalWeight
           largest == Largest(Rewards)
           before == SumFunctionOnSet(s.weightOf, s.processed)
           after == SumFunctionOnSet(s.weightOf, s.processed \cup {g})
           weight == s.weightOf[g]
<1>1. s \in ChainStates /\ g \notin s.processed
  BY DEF MainOK, CanProcess
<1>2. s.weightOf \in [Gauges -> Nat] /\ s.processed \in SUBSET Gauges /\ s.aura \in Nat
  BY <1>1 DEF ChainStates
<1>3. sent \in Nat /\ s.aura <= InitialAura
  BY <1>2, GaugeAssumption DEF MainOK, BudgetKept
<1>4. amount \in Nat /\ total \in Nat \ {0} /\ amount * total <= largest * weight
  BY AmountFitsShare
<1>5. largest \in Nat
  BY RewardsAreNat DEF MainOK, BudgetKept
<1>6. weight \in Nat
  BY <1>2
<1>7. before \in Nat
  BY <1>2, WeightsHaveSum
<1>8. after = weight + before
  <2> DEFINE w == s.weightOf
             more == s.processed \cup {g}
  <2>1. more \in SUBSET Gauges /\ g \in more /\ more \ {g} = s.processed /\ w \in [Gauges -> Nat]
    BY <1>1, <1>2
  <2>2. IsFiniteSet(more)
    BY <2>1, GaugesAreFinite, FS_Subset
  <2>3. \A x \in more : w[x] \in Int
    BY <2>1
  <2> HIDE DEF w, more
  <2>4. SumFunctionOnSet(w, more) = w[g] + SumFunctionOnSet(w, more \ {g})
    BY <2>1, <2>2, <2>3, SumRemove
  <2>5. SumFunctionOnSet(w, more \ {g}) = SumFunctionOnSet(w, s.processed)
    BY <2>1, Zenon
  <2> QED
    BY <2>4, <2>5 DEF w, more
<1>9. sent * total <= largest * before
  BY DEF MainOK, BudgetKept, WithinShares
<1>10. InitialAura - t.aura = sent + amount
  BY <1>2, <1>3, <1>4, GaugeAssumption DEF SendsShare
<1>11. t.aura <= InitialAura
  BY <1>2, <1>3, <1>4, GaugeAssumption DEF SendsShare
<1>12. (InitialAura - t.aura) * t.totalWeight = (sent + amount) * total
  BY <1>10 DEF SendsShare
<1>13. SumFunctionOnSet(t.weightOf, t.processed) = after
  BY DEF SendsShare
<1> HIDE DEF sent, amount, total, largest, before, after, weight
<1>14. (sent + amount) * total = sent * total + amount * total
  BY <1>3, <1>4
<1>15. largest * (weight + before) = largest * weight + largest * before
  BY <1>5, <1>6, <1>7
<1>16. /\ sent * total \in Nat /\ amount * total \in Nat
       /\ largest * weight \in Nat /\ largest * before \in Nat
  BY <1>3, <1>4, <1>5, <1>6, <1>7, ProductIsNat
<1>17. sent * total + amount * total <= largest * weight + largest * before
  BY <1>4, <1>9, <1>16
<1>18. WithinShares(t)
  <2>1. (InitialAura - t.aura) * t.totalWeight <= largest * after
    BY <1>8, <1>12, <1>14, <1>15, <1>17
  <2> QED
    BY <1>13, <2>1 DEF WithinShares, largest
<1>19. t.totalWeight # 0
  BY <1>4 DEF SendsShare, total
<1> QED
  BY <1>11, <1>18, <1>19 DEF BudgetKept, SendsShare, MainOK

(* AURA for a pool.                                                        *)
LEMMA PoolIsFunded ==
  ASSUME NEW s \in ChainStates, NEW pid, NEW amount \in Nat, NEW t \in FundPool(s, pid, amount)
  PROVE  /\ t \in ChainStates
         /\ amount <= s.aura /\ t.aura = s.aura - amount
         /\ t.pools = s.pools /\ t.poolId = s.poolId /\ t.processed = s.processed
         /\ t.rewardPerEpoch = s.rewardPerEpoch /\ t.weightOf = s.weightOf
         /\ t.totalWeight = s.totalWeight /\ t.toSend = s.toSend /\ t.sent = s.sent
         /\ \A p \in 1 .. MaxPools : p # pid => t.funds[p] = s.funds[p]
<1> DEFINE funds == [s.funds EXCEPT ![pid] = @ + ((amount - Periods) \div Periods) * Periods]
           aura == s.aura - amount
           distroAura == s.distroAura + amount
<1>1. /\ amount >= Periods /\ amount <= s.aura
      /\ t = [s EXCEPT !.aura = aura, !.distroAura = distroAura, !.funds = funds]
  BY DEF FundPool, When
<1>2. ((amount - Periods) \div Periods) * Periods \in Nat
  BY <1>1 DEF Periods
<1>3. s.funds \in [1 .. MaxPools -> Nat] /\ s.aura \in Nat /\ s.distroAura \in Nat
  BY DEF ChainStates
<1>4. funds \in [1 .. MaxPools -> Nat]
  <2> DEFINE more == ((amount - Periods) \div Periods) * Periods
  <2>1. more \in Nat /\ funds = [s.funds EXCEPT ![pid] = @ + more]
    BY <1>2
  <2> HIDE DEF more, funds
  <2>2. \A p \in 1 .. MaxPools : funds[p] = IF p = pid THEN s.funds[p] + more ELSE s.funds[p]
    BY <1>3, <2>1
  <2>3. \A p \in 1 .. MaxPools : funds[p] \in Nat
    <3>1. \A p \in 1 .. MaxPools : s.funds[p] \in Nat
      BY <1>3
    <3>2. \A n \in Nat : n + more \in Nat
      BY <2>1
    <3> QED
      BY <2>2, <3>1, <3>2, Zenon
  <2>4. funds = [p \in 1 .. MaxPools |-> funds[p]]
    BY <1>3, <2>1
  <2> QED
    BY <2>3, <2>4
<1>5. aura \in Nat /\ distroAura \in Nat
  BY <1>1, <1>3
<1>6. \A p \in 1 .. MaxPools : p # pid => funds[p] = s.funds[p]
  BY <1>3
<1> HIDE DEF funds, distroAura
<1> QED
  BY <1>1, <1>4, <1>5, <1>6 DEF ChainStates

(* A pool of mainnet is sent what its own gauge has earned.                *)
LEMMA MainProcesses ==
  ASSUME NEW s, MainOK(s), NEW g \in Gauges, NEW t \in ProcessGaugeRewards(s, g)
  PROVE  MainOK(t) /\ t.processed = s.processed \cup {g}
<1> DEFINE marked == [s EXCEPT !.processed = @ \cup {g}]
           amount == AmountToSend(s, g)
           pid == s.poolId[g]
<1>1. CanProcess(s, g) /\ pid # 0 /\ t \in FundPool(marked, pid, amount)
  BY DEF ProcessGaugeRewards
<1>2. /\ marked \in ChainStates /\ marked.processed = s.processed \cup {g}
      /\ marked.aura = s.aura /\ marked.pools = s.pools /\ marked.poolId = s.poolId
      /\ marked.funds = s.funds /\ marked.weightOf = s.weightOf /\ marked.totalWeight = s.totalWeight
      /\ marked.rewardPerEpoch = s.rewardPerEpoch
  BY DEF MainOK, ChainStates
<1>3. amount \in Nat
  BY <1>1, AmountFitsShare
<1>4. pid \in DOMAIN s.pools /\ s.pools[pid] = g
  BY <1>1 DEF MainOK, KnownPools
<1> HIDE DEF marked, amount, pid
<1>5. /\ t \in ChainStates /\ amount <= s.aura /\ t.aura = s.aura - amount
      /\ t.pools = s.pools /\ t.poolId = s.poolId /\ t.processed = s.processed \cup {g}
      /\ t.rewardPerEpoch = s.rewardPerEpoch /\ t.weightOf = s.weightOf
      /\ t.totalWeight = s.totalWeight
      /\ \A p \in 1 .. MaxPools : p # pid => t.funds[p] = s.funds[p]
  BY <1>1, <1>2, <1>3, PoolIsFunded
<1>6. SendsShare(s, t, g)
  BY <1>5 DEF SendsShare, amount
<1>7. BudgetKept(t)
  BY <1>1, <1>6, ShareIsSent
<1>8. KnownPools(t)
  BY <1>5 DEF MainOK, KnownPools
<1>9. MainFunds(t)
  BY <1>4, <1>5 DEF MainOK, MainFunds
<1> QED
  BY <1>5, <1>7, <1>8, <1>9 DEF MainOK

(* What goes to the sidechain leaves mainnet.                              *)
LEMMA MainSendsAbroad ==
  ASSUME NEW s, MainOK(s), NEW g \in Gauges, NEW t \in ProcessSidechainGaugeRewards(s, g)
  PROVE  /\ MainOK(t) /\ t.processed = s.processed \cup {g}
         /\ AmountToSend(s, g) \in Nat /\ g \notin s.processed
<1> DEFINE amount == AmountToSend(s, g)
           aura == s.aura - amount
<1>1. CanProcess(s, g) /\ amount <= s.aura
      /\ t = [s EXCEPT !.processed = @ \cup {g}, !.aura = aura]
  BY DEF ProcessSidechainGaugeRewards, When
<1>2. amount \in Nat
  BY <1>1, AmountFitsShare
<1>3. s.aura \in Nat /\ s \in ChainStates
  BY DEF MainOK, ChainStates
<1>4. aura \in Nat
  BY <1>1, <1>2, <1>3
<1> HIDE DEF amount, aura
<1>5. /\ t \in ChainStates /\ t.aura = aura
      /\ t.pools = s.pools /\ t.poolId = s.poolId /\ t.processed = s.processed \cup {g}
      /\ t.rewardPerEpoch = s.rewardPerEpoch /\ t.weightOf = s.weightOf
      /\ t.totalWeight = s.totalWeight /\ t.funds = s.funds
  BY <1>1, <1>3, <1>4 DEF ChainStates
<1>6. SendsShare(s, t, g)
  BY <1>1, <1>5 DEF SendsShare, amount, aura
<1>7. BudgetKept(t)
  BY <1>1, <1>6, ShareIsSent
<1>8. KnownPools(t) /\ MainFunds(t)
  BY <1>5 DEF MainOK, KnownPools, MainFunds
<1>9. g \notin s.processed
  BY <1>1 DEF CanProcess
<1> QED
  BY <1>2, <1>5, <1>7, <1>8, <1>9 DEF MainOK, amount

-----------------------------------------------------------------------------
(* What holds of the sidechain.                                            *)

SideFunds(s) ==
  \A p \in 1 .. MaxPools :
    s.funds[p] > 0 => p \in DOMAIN s.pools /\ s.sent[s.pools[p]] > 0

SideOK(s) == s \in ChainStates /\ KnownPools(s) /\ SideFunds(s)

SameAccounts(s, t) == t.toSend = s.toSend /\ t.sent = s.sent /\ t.aura = s.aura

(* What was announced and not passed on.                                   *)
Unsent(s) == {g \in Gauges : s.sent[g] = 0}
Owed(s)   == SumFunctionOnSet(s.toSend, Unsent(s))

(* A transaction of the Safe leaves the accounts as they were, ...         *)
LEMMA SideFollows ==
  ASSUME NEW s, SideOK(s), NEW t, Follows(s, t)
  PROVE  SideOK(t) /\ SameAccounts(s, t)
<1>1. t \in ChainStates /\ KnownPools(t) /\ NothingMoves(s, t) /\ PoolsStay(s, t)
  BY DEF Follows
<1>2. SideFunds(t)
  BY <1>1 DEF SideOK, SideFunds, NothingMoves, PoolsStay
<1> QED
  BY <1>1, <1>2 DEF SideOK, SameAccounts, NothingMoves

(* ... and so does a batch of them.                                        *)
LEMMA SideBatch ==
  ASSUME NEW s, SideOK(s), NEW txs, NEW t \in Execute(s, txs, FALSE)
  PROVE  SideOK(t) /\ SameAccounts(s, t) /\ PoolsStay(s, t)
<1> DEFINE C == {u \in ChainStates : SideOK(u) /\ SameAccounts(s, u) /\ PoolsStay(s, u)}
<1>1. s \in C
  BY DEF SideOK, SameAccounts, PoolsStay
<1>2. \A u \in C, tx \in Transactions : Effect(u, tx, FALSE) \subseteq C
  <2>1. ASSUME NEW u \in C, NEW tx \in Transactions, NEW v \in Effect(u, tx, FALSE)
        PROVE  v \in C
    <3>1. u \in ChainStates /\ KnownPools(u) /\ SideOK(u) /\ SameAccounts(s, u) /\ PoolsStay(s, u)
          /\ FALSE \in BOOLEAN
      BY DEF SideOK
    <3>2. Follows(u, v)
      BY <3>1, EffectFollows
    <3>3. SideOK(v) /\ SameAccounts(u, v)
      BY <3>1, <3>2, SideFollows
    <3>4. PoolsStay(s, v)
      BY <3>1, <3>2 DEF Follows, PoolsStay
    <3> QED
      BY <3>1, <3>3, <3>4 DEF SideOK, SameAccounts
  <2> QED
    BY <2>1
<1> HIDE DEF C
<1>3. Execute(s, txs, FALSE) \subseteq C
  BY <1>1, <1>2, BatchStays
<1> QED
  BY <1>3 DEF C

(* What is owed.                                                           *)
LEMMA OwedIsNat ==
  ASSUME NEW s \in ChainStates
  PROVE  Owed(s) \in Nat /\ IsFiniteSet(Unsent(s)) /\ \A g \in Unsent(s) : s.toSend[g] \in Nat
<1>1. Unsent(s) \in SUBSET Gauges
  BY DEF Unsent
<1>2. IsFiniteSet(Unsent(s))
  BY <1>1, GaugesAreFinite, FS_Subset
<1>3. \A g \in Unsent(s) : s.toSend[g] \in Nat
  BY <1>1 DEF ChainStates
<1> QED
  BY <1>2, <1>3, SumIsNat DEF Owed

(* The amount for a gauge replaces the one before.                         *)
LEMMA SideReceivesAmount ==
  ASSUME NEW s, SideOK(s), NEW g \in Gauges, NEW amount \in Nat, NEW t \in ReceiveAmount(s, g, amount)
  PROVE  SideOK(t) /\ t.aura = s.aura /\ Owed(t) <= Owed(s) + amount
<1> DEFINE toSend == [s.toSend EXCEPT ![g] = amount]
           unsent == Unsent(s)
<1>1. s \in ChainStates /\ t = [s EXCEPT !.toSend = toSend] /\ s.toSend \in [Gauges -> Nat]
  BY DEF SideOK, ReceiveAmount, ChainStates
<1>2. toSend \in [Gauges -> Nat]
  BY <1>1
<1>3. \A h \in Gauges : toSend[h] = IF h = g THEN amount ELSE s.toSend[h]
  BY <1>1
<1> HIDE DEF toSend
<1>4. /\ t \in ChainStates /\ t.toSend = toSend /\ t.sent = s.sent /\ t.aura = s.aura
      /\ t.pools = s.pools /\ t.poolId = s.poolId /\ t.funds = s.funds
  BY <1>1, <1>2 DEF ChainStates
<1>5. Unsent(t) = unsent
  BY <1>4 DEF Unsent
<1>6. Owed(t) = SumFunctionOnSet(toSend, unsent) /\ Owed(s) = SumFunctionOnSet(s.toSend, unsent)
  BY <1>4, <1>5, Zenon DEF Owed
<1>7. Owed(s) \in Nat /\ IsFiniteSet(unsent) /\ unsent \subseteq Gauges
  BY <1>1, OwedIsNat DEF Unsent
<1> HIDE DEF unsent
<1>8. Owed(t) <= Owed(s) + amount
  <2>1. \A h \in unsent : /\ s.toSend[h] \in Nat /\ toSend[h] \in Nat
                          /\ s.toSend[h] \in Int /\ toSend[h] \in Int /\ (h # g => s.toSend[h] = toSend[h])
    BY <1>1, <1>2, <1>3, <1>7
  <2>2. CASE g \in unsent
    <3>1. SumFunctionOnSet(toSend, unsent) = SumFunctionOnSet(s.toSend, unsent) + (toSend[g] - s.toSend[g])
      BY <1>7, <2>1, <2>2, SumOfChanged
    <3>2. toSend[g] = amount /\ s.toSend[g] \in Nat
      BY <1>1, <1>3
    <3> QED
      BY <1>6, <1>7, <3>1, <3>2
  <2>3. CASE g \notin unsent
    <3>1. \A h \in unsent : s.toSend[h] \in Int /\ s.toSend[h] = toSend[h]
      BY <2>1, <2>3
    <3>2. SumFunctionOnSet(s.toSend, unsent) = SumFunctionOnSet(toSend, unsent)
      BY <1>7, <3>1, SumOfSame
    <3> QED
      BY <1>6, <1>7, <3>2
  <2> QED
    BY <2>2, <2>3
<1>9. KnownPools(t) /\ SideFunds(t)
  BY <1>4 DEF SideOK, KnownPools, SideFunds
<1> QED
  BY <1>4, <1>8, <1>9 DEF SideOK

(* AURA that arrives.                                                      *)
LEMMA SideReceivesAura ==
  ASSUME NEW s, SideOK(s), NEW amount \in Nat, NEW t \in ReceiveAura(s, amount)
  PROVE  SideOK(t) /\ t.aura = s.aura + amount /\ Owed(t) = Owed(s)
<1> DEFINE aura == s.aura + amount
<1>1. s \in ChainStates /\ t = [s EXCEPT !.aura = aura] /\ aura \in Nat
  BY DEF SideOK, ReceiveAura, ChainStates
<1> HIDE DEF aura
<1>2. /\ t \in ChainStates /\ t.toSend = s.toSend /\ t.sent = s.sent /\ t.aura = aura
      /\ t.pools = s.pools /\ t.poolId = s.poolId /\ t.funds = s.funds
  BY <1>1 DEF ChainStates
<1>3. Owed(t) = Owed(s)
  BY <1>2 DEF Owed, Unsent
<1> QED
  BY <1>2, <1>3 DEF SideOK, KnownPools, SideFunds, aura

(* What was announced is passed on once, to the pool of the gauge.         *)
LEMMA SideProcesses ==
  ASSUME NEW s, SideOK(s), NEW g \in Gauges, NEW t \in ProcessChildGaugeRewards(s, g)
  PROVE  /\ SideOK(t)
         /\ \E n \in Nat : n <= s.aura /\ t.aura = s.aura - n /\ Owed(s) = n + Owed(t)
<1> DEFINE amount == s.toSend[g]
           marked == [s EXCEPT !.sent[g] = amount]
           sent == [s.sent EXCEPT ![g] = amount]
           pid == s.poolId[g]
<1>1. /\ s.sent[g] = 0 /\ amount # 0 /\ pid # 0 /\ t \in FundPool(marked, pid, amount)
      /\ s \in ChainStates /\ s.sent \in [Gauges -> Nat] /\ s.toSend \in [Gauges -> Nat]
  BY DEF SideOK, ProcessChildGaugeRewards, ChainStates
<1>2. amount \in Nat /\ amount > 0
  BY <1>1
<1>3. sent \in [Gauges -> Nat] /\ marked = [s EXCEPT !.sent = sent]
  BY <1>1, <1>2
<1>4. \A h \in Gauges : sent[h] = IF h = g THEN amount ELSE s.sent[h]
  BY <1>1
<1>5. pid \in DOMAIN s.pools /\ s.pools[pid] = g
  BY <1>1 DEF SideOK, KnownPools
<1>6. \A p \in DOMAIN s.pools : s.pools[p] \in Gauges
  <2>1. s.pools \in Seq(Gauges)
    BY <1>1 DEF ChainStates
  <2> QED
    BY <2>1, IndicesAreFinite
<1> HIDE DEF sent, marked
<1>7. /\ marked \in ChainStates /\ marked.sent = sent /\ marked.toSend = s.toSend
      /\ marked.aura = s.aura /\ marked.pools = s.pools /\ marked.poolId = s.poolId
      /\ marked.funds = s.funds
  BY <1>1, <1>3 DEF ChainStates
<1> HIDE DEF amount, pid
<1>8. /\ t \in ChainStates /\ amount <= s.aura /\ t.aura = s.aura - amount
      /\ t.pools = s.pools /\ t.poolId = s.poolId /\ t.toSend = s.toSend /\ t.sent = sent
      /\ \A p \in 1 .. MaxPools : p # pid => t.funds[p] = s.funds[p]
  BY <1>1, <1>2, <1>7, PoolIsFunded
<1>9. KnownPools(t)
  BY <1>8 DEF SideOK, KnownPools
<1>10. SideFunds(t)
  <2>1. ASSUME NEW p \in 1 .. MaxPools, t.funds[p] > 0
        PROVE  p \in DOMAIN t.pools /\ t.sent[t.pools[p]] > 0
    <3>1. CASE p = pid
      BY <1>2, <1>4, <1>5, <1>8, <3>1
    <3>2. CASE p # pid
      <4>1. p \in DOMAIN s.pools /\ s.sent[s.pools[p]] > 0
        BY <1>8, <2>1, <3>2 DEF SideOK, SideFunds
      <4>2. s.pools[p] \in Gauges
        BY <1>6, <4>1
      <4> QED
        BY <1>2, <1>4, <1>8, <4>1, <4>2
    <3> QED
      BY <3>1, <3>2
  <2> QED
    BY <2>1 DEF SideFunds
<1>11. Owed(s) = amount + Owed(t)
  <2> DEFINE unsent == Unsent(s)
  <2>1. g \in unsent
    BY <1>1 DEF Unsent
  <2>2. Unsent(t) = unsent \ {g}
    BY <1>2, <1>4, <1>8 DEF Unsent
  <2>3. IsFiniteSet(unsent) /\ \A h \in unsent : s.toSend[h] \in Int
    BY <1>1, OwedIsNat
  <2>4. Owed(s) = SumFunctionOnSet(s.toSend, unsent)
    BY DEF Owed
  <2>5. Owed(t) = SumFunctionOnSet(s.toSend, unsent \ {g})
    BY <1>8, <2>2, Zenon DEF Owed
  <2> HIDE DEF unsent
  <2>6. SumFunctionOnSet(s.toSend, unsent) = s.toSend[g] + SumFunctionOnSet(s.toSend, unsent \ {g})
    BY <2>1, <2>3, SumRemove
  <2> QED
    BY <2>4, <2>5, <2>6 DEF amount
<1>12. SideOK(t)
  BY <1>8, <1>9, <1>10 DEF SideOK
<1> QED
  BY <1>2, <1>8, <1>11, <1>12

-----------------------------------------------------------------------------
(* The round.                                                              *)

(* Every message is about a gauge that has been processed.                 *)
Announced(messages, s) ==
  IsFiniteSet(messages) /\ \A m \in messages : m.gauge \in s.processed /\ m.amount \in Nat

Backed(s, amounts, aura) == Owed(s) + AmountsOf(amounts) <= s.aura + AmountsOf(aura)

RInv ==
  /\ MainOK(main) /\ SideOK(side)
  /\ toSide \subseteq SUBSET SideGauges
  /\ Announced(amountsToSide, main) /\ Announced(auraToSide, main)
  /\ Backed(side, amountsToSide, auraToSide)

(* A chain on which nothing has been sent.                                 *)
Untouched(s, reward, aura) ==
  /\ s \in ChainStates /\ KnownPools(s)
  /\ s.rewardPerEpoch = reward /\ s.totalWeight = 0 /\ s.processed = {}
  /\ s.aura = aura
  /\ \A g \in Gauges : s.weightOf[g] = 0 /\ s.toSend[g] = 0
  /\ \A p \in 1 .. MaxPools : s.funds[p] = 0

(* It may have pools already, and the contracts know some of them.         *)
LEMMA ChainIsUntouched ==
  ASSUME NEW pools \in Seq(Gauges), NEW rewarded \in SUBSET DOMAIN pools,
         NEW mapped \in SUBSET ToSet(pools), NEW power \in [Gauges -> Nat],
         NEW reward \in Nat, NEW aura \in Nat
  PROVE  Untouched(Chain(pools, rewarded, mapped, power, reward, aura), reward, aura)
<1> DEFINE s == Chain(pools, rewarded, mapped, power, reward, aura)
           at(g) == {i \in 1 .. Len(pools) : pools[i] = g}
           ids == [g \in Gauges |-> IF g \in mapped THEN SelectInSeq(pools, LAMBDA h : h = g) ELSE 0]
<1>1. DOMAIN pools = 1 .. Len(pools) /\ Len(pools) \in Nat
  OBVIOUS
<1>2. ASSUME NEW g \in mapped
      PROVE  /\ SelectInSeq(pools, LAMBDA h : h = g) \in DOMAIN pools
             /\ pools[SelectInSeq(pools, LAMBDA h : h = g)] = g
  <2>1. at(g) # {} /\ at(g) \in SUBSET Nat
    BY <1>1 DEF ToSet
  <2>2. \E m \in at(g) : \A n \in at(g) : m <= n
    <3> HIDE DEF at
    <3> QED
      BY <2>1, SmallestExists
  <2>3. Min(at(g)) \in at(g)
    <3> HIDE DEF at
    <3> QED
      BY <2>2 DEF Min
  <2>4. SelectInSeq(pools, LAMBDA h : h = g) = Min(at(g))
    BY <2>1 DEF SelectInSeq
  <2> QED
    BY <1>1, <2>3, <2>4
<1>3. \A g \in Gauges : /\ ids[g] \in Nat
                        /\ ids[g] # 0 => ids[g] \in DOMAIN pools /\ pools[ids[g]] = g
  <2> DEFINE find(g) == SelectInSeq(pools, LAMBDA h : h = g)
  <2>1. \A g \in mapped : find(g) \in DOMAIN pools /\ find(g) \in Nat /\ pools[find(g)] = g
    BY <1>1, <1>2
  <2>2. ids = [g \in Gauges |-> IF g \in mapped THEN find(g) ELSE 0]
    OBVIOUS
  <2> HIDE DEF find, ids
  <2> QED
    BY <2>1, <2>2
<1>4. ids \in [Gauges -> Nat]
  <2>1. ids = [g \in Gauges |-> ids[g]]
    OBVIOUS
  <2> HIDE DEF ids
  <2> QED
    BY <1>3, <2>1
<1>5. rewarded \in SUBSET Nat
  BY <1>1
<1>6. s = [pools |-> pools, rewarded |-> rewarded, valid |-> {}, poolId |-> ids,
           dst |-> [g \in Gauges |-> IF g \in mapped THEN "main" ELSE "none"],
           noDeposit |-> {}, power |-> power,
           rewardPerEpoch |-> reward, weightOf |-> [g \in Gauges |-> 0], totalWeight |-> 0,
           processed |-> {}, toSend |-> [g \in Gauges |-> 0], sent |-> [g \in Gauges |-> 0],
           aura |-> aura, distroAura |-> 0, funds |-> [p \in 1 .. MaxPools |-> 0]]
  BY DEF Chain
<1> HIDE DEF ids, s
<1>7. s \in ChainStates
  BY <1>4, <1>5, <1>6 DEF ChainStates
<1>8. KnownPools(s)
  BY <1>3, <1>6 DEF KnownPools
<1>9. /\ s.rewardPerEpoch = reward /\ s.totalWeight = 0 /\ s.processed = {}
      /\ s.aura = aura
      /\ \A g \in Gauges : s.weightOf[g] = 0 /\ s.toSend[g] = 0
      /\ \A p \in 1 .. MaxPools : s.funds[p] = 0
  BY <1>6
<1> QED
  BY <1>7, <1>8, <1>9 DEF s, Untouched

(* A round starts with all the AURA on mainnet and nothing announced.      *)
LEMMA RoundStarts == Init => RInv
<1> SUFFICES ASSUME Init PROVE RInv
  OBVIOUS
<1>1. MainOK(main)
  <2>0. PICK start \in Starts :
          \E rewarded \in SUBSET DOMAIN start.pools, mapped \in SUBSET ToSet(start.pools) :
            main = Chain(start.pools, rewarded, mapped, start.power, start.reward, InitialAura)
    BY DEF Init
  <2>1. PICK rewarded \in SUBSET DOMAIN start.pools, mapped \in SUBSET ToSet(start.pools) :
          main = Chain(start.pools, rewarded, mapped, start.power, start.reward, InitialAura)
    BY <2>0
  <2>2. /\ start.pools \in Seq(MainGauges) /\ start.reward \in Rewards
        /\ start.power \in [Gauges -> 0 .. TotalVotes]
    BY RoundAssumption
  <2>3. start.reward \in Nat /\ Largest(Rewards) \in Nat
    BY <2>2, RewardsAreNat
  <2>4. start.pools \in Seq(Gauges)
    BY <2>2 DEF Gauges
  <2>5. start.power \in [Gauges -> Nat]
    BY <2>2, GaugeAssumption
  <2> DEFINE pools == start.pools
             power == start.power
             reward == start.reward
  <2>6. pools \in Seq(Gauges) /\ power \in [Gauges -> Nat] /\ reward \in Nat
        /\ rewarded \in SUBSET DOMAIN pools /\ mapped \in SUBSET ToSet(pools)
        /\ main = Chain(pools, rewarded, mapped, power, reward, InitialAura)
    BY <2>1, <2>3, <2>4, <2>5
  <2> HIDE DEF pools, power, reward
  <2>7. /\ main \in ChainStates /\ KnownPools(main)
        /\ main.rewardPerEpoch = reward /\ main.totalWeight = 0 /\ main.processed = {}
        /\ main.aura = InitialAura
        /\ \A g \in Gauges : main.weightOf[g] = 0
        /\ \A p \in 1 .. MaxPools : main.funds[p] = 0
    <3>1. Untouched(Chain(pools, rewarded, mapped, power, reward, InitialAura), reward, InitialAura)
      BY <2>6, GaugeAssumption, ChainIsUntouched
    <3> QED
      BY <2>6, <3>1 DEF Untouched
  <2>8. SumFunctionOnSet(main.weightOf, Gauges) = 0 /\ SumFunctionOnSet(main.weightOf, main.processed) = 0
    BY <2>7, GaugesAreFinite, SumOfZeros, SumEmpty
  <2>9. BudgetKept(main)
    <3>1. (InitialAura - main.aura) * main.totalWeight = 0
      BY <2>7, GaugeAssumption
    <3>2. Largest(Rewards) * SumFunctionOnSet(main.weightOf, main.processed) = 0
      BY <2>3, <2>8
    <3>3. WithinShares(main)
      BY <3>1, <3>2 DEF WithinShares
    <3> QED
      BY <2>2, <2>7, <2>8, <3>3, GaugeAssumption DEF BudgetKept, reward
  <2>10. MainFunds(main)
    BY <2>7 DEF MainFunds
  <2> QED
    BY <2>7, <2>9, <2>10 DEF MainOK
<1>2. SideOK(side) /\ Owed(side) = 0 /\ side.aura = 0
  <2> DEFINE empty == <<>>
             power == [g \in Gauges |-> 0]
  <2>1. side = Chain(empty, {}, {}, power, 0, 0)
    BY DEF Init
  <2>2. /\ empty \in Seq(Gauges) /\ {} \in SUBSET DOMAIN empty /\ {} \in SUBSET ToSet(empty)
        /\ power \in [Gauges -> Nat] /\ 0 \in Nat
    OBVIOUS
  <2> HIDE DEF empty, power
  <2>3. /\ side \in ChainStates /\ KnownPools(side) /\ side.aura = 0
        /\ \A g \in Gauges : side.toSend[g] = 0
        /\ \A p \in 1 .. MaxPools : side.funds[p] = 0
    <3>1. Untouched(Chain(empty, {}, {}, power, 0, 0), 0, 0)
      BY <2>2, ChainIsUntouched
    <3> QED
      BY <2>1, <3>1 DEF Untouched
  <2>4. IsFiniteSet(Unsent(side)) /\ \A g \in Unsent(side) : side.toSend[g] = 0
    BY <2>3, OwedIsNat DEF Unsent
  <2>5. Owed(side) = 0
    BY <2>4, SumOfZeros DEF Owed
  <2> QED
    BY <2>3, <2>5 DEF SideOK, SideFunds
<1>3. toSide = {} /\ amountsToSide = {} /\ auraToSide = {}
  BY DEF Init
<1>4. Announced(amountsToSide, main) /\ Announced(auraToSide, main)
  BY <1>3, FS_EmptySet DEF Announced
<1>5. Backed(side, amountsToSide, auraToSide)
  <2>1. AmountsOf({}) = 0
    BY SumEmpty DEF AmountsOf
  <2> QED
    BY <1>2, <1>3, <2>1 DEF Backed
<1> QED
  BY <1>1, <1>2, <1>3, <1>4, <1>5 DEF RInv

(* What the tasks, the Safes and the keepers do moves no rewards and no    *)
(* pools.                                                                  *)
NoRewardsMove ==
  /\ PoolsStay(main, main') /\ PoolsStay(side, side')
  /\ MainOK(main') /\ main'.processed = main.processed
  /\ SideOK(side') /\ SameAccounts(side, side')
  /\ toSide' \subseteq SUBSET SideGauges

LEMMA ListingMovesNoRewards == RInv /\ Listing => NoRewardsMove
<1> SUFFICES ASSUME RInv, Listing PROVE NoRewardsMove
  OBVIOUS
<1> USE DEF NoRewardsMove
<1>1. MainOK(main) /\ SideOK(side) /\ toSide \subseteq SUBSET SideGauges
  BY DEF RInv
<1>2. main \in ChainStates /\ KnownPools(main) /\ side \in ChainStates /\ KnownPools(side)
  BY <1>1 DEF MainOK, SideOK
<1>3. SameAccounts(side, side) /\ PoolsStay(main, main) /\ PoolsStay(side, side)
  BY DEF SameAccounts, PoolsStay
<1>4. ASSUME Follows(main, main')
      PROVE  MainOK(main') /\ main'.processed = main.processed /\ PoolsStay(main, main')
  BY <1>1, <1>4, MainFollows DEF Follows
<1>5. ASSUME Follows(side, side')
      PROVE  SideOK(side') /\ SameAccounts(side, side') /\ PoolsStay(side, side')
  BY <1>1, <1>5, SideFollows DEF Follows
<1>6. DOMAIN main.pools \subseteq Nat /\ Len(main.pools) \in Nat
      /\ DOMAIN side.pools \subseteq Nat /\ Len(side.pools) \in Nat
  <2>1. main.pools \in Seq(Gauges) /\ side.pools \in Seq(Gauges)
    BY <1>2 DEF ChainStates
  <2> QED
    BY <2>1, IndicesAreFinite
<1>7. CASE UNCHANGED chainVars
  BY <1>1, <1>3, <1>7 DEF chainVars
<1> DEFINE mainMoves == MainOK(main') /\ main'.processed = main.processed /\ PoolsStay(main, main')
           sideMoves == SideOK(side') /\ SameAccounts(side, side') /\ PoolsStay(side, side')
<1>8. ASSUME mainMoves, side' = side, toSide' \subseteq SUBSET SideGauges PROVE NoRewardsMove
  BY <1>1, <1>3, <1>8
<1>9. ASSUME sideMoves, main' = main, toSide' \subseteq SUBSET SideGauges PROVE NoRewardsMove
  BY <1>1, <1>3, <1>9
<1> HIDE DEF NoRewardsMove
<1>10. CASE ExecuteMain
  <2>1. main' \in Execute(main, safeBatch["main"].txs, TRUE) /\ side' = side /\ toSide' = toSide
    BY <1>10 DEF ExecuteMain
  <2>2. MainOK(main') /\ main'.processed = main.processed /\ PoolsStay(main, main')
    BY <1>1, <1>3, <2>1, MainBatch
  <2> QED
    BY <1>1, <1>8, <2>1, <2>2
<1>11. CASE ExecuteSide
  <2>1. side' \in Execute(side, safeBatch["side"].txs, FALSE) /\ main' = main /\ toSide' = toSide
    BY <1>11 DEF ExecuteSide
  <2>2. SideOK(side') /\ SameAccounts(side, side') /\ PoolsStay(side, side')
    BY <1>1, <2>1, SideBatch
  <2> QED
    BY <1>1, <1>9, <2>1, <2>2
<1>12. ASSUME NEW g \in BareGauges \cup ForeignGauges, NEW flag \in BOOLEAN, SetIsNoDepositGaugeTask(g, flag)
       PROVE  NoRewardsMove
  <2>1. main' \in Execute(main, <<NoDepositTx(g, flag)>>, TRUE) /\ side' = side /\ toSide' = toSide
    BY <1>12 DEF SetIsNoDepositGaugeTask
  <2>2. MainOK(main') /\ main'.processed = main.processed /\ PoolsStay(main, main')
    BY <1>1, <1>3, <2>1, MainBatch
  <2> QED
    BY <1>1, <1>8, <2>1, <2>2
<1>13. CASE SendAddPools
  <2>1. PICK txs : main' \in Execute(main, txs, TRUE) \cup {main}
    BY <1>13 DEF SendAddPools
  <2>2. side' = side /\ toSide' = toSide
    BY <1>13 DEF SendAddPools
  <2>3. MainOK(main') /\ main'.processed = main.processed /\ PoolsStay(main, main')
    BY <1>1, <1>3, <2>1, MainBatch
  <2> QED
    BY <1>1, <1>8, <2>2, <2>3
<1>14. ASSUME NEW p \in 1 .. MaxPools, L1SetStashExtraReward(p) PROVE NoRewardsMove
  <2>1. main' \in SetStashExtraReward(main, p) /\ side' = side /\ toSide' = toSide /\ p \in Nat
    BY <1>14, ListingAssumption DEF L1SetStashExtraReward
  <2>2. Follows(main, main')
    BY <1>2, <2>1, StashFollows
  <2> QED
    BY <1>1, <1>8, <1>4, <2>1, <2>2
<1>15. ASSUME NEW p \in 1 .. MaxPools, L2SetStashExtraReward(p) PROVE NoRewardsMove
  <2>1. side' \in SetStashExtraReward(side, p) /\ main' = main /\ toSide' = toSide /\ p \in Nat
    BY <1>15, ListingAssumption DEF L2SetStashExtraReward
  <2>2. Follows(side, side')
    BY <1>2, <2>1, StashFollows
  <2> QED
    BY <1>1, <1>9, <1>5, <2>1, <2>2
<1>16. ASSUME NEW gs \in SUBSET SideGauges, L1L2AddPool(gs) PROVE NoRewardsMove
  <2>1. main' = main /\ side' = side /\ toSide' = toSide \cup {gs}
    BY <1>16 DEF L1L2AddPool
  <2>2. toSide' \subseteq SUBSET SideGauges
    BY <1>1, <2>1
  <2> QED
    BY <1>1, <1>3, <1>8, <2>1, <2>2
<1>17. ASSUME NEW gs \in toSide, ReceiveGauges(gs) PROVE NoRewardsMove
  <2>1. gs \subseteq Gauges
    BY <1>1 DEF Gauges
  <2>2. side' = [side EXCEPT !.valid = @ \cup gs] /\ main' = main /\ toSide' = toSide \ {gs}
    BY <1>17 DEF ReceiveGauges
  <2>3. Follows(side, side')
    BY <1>2, <2>1, <2>2 DEF Follows, ChainStates, KnownPools, PoolsStay, NothingMoves, WeightsFollow
  <2> QED
    BY <1>1, <1>9, <1>5, <2>2, <2>3
<1>18. ASSUME NEW g \in SideGauges, L2L2AddPool(g) PROVE NoRewardsMove
  <2>1. side' \in AddPool(side, g, SideGauges) /\ main' = main /\ toSide' = toSide /\ g \in Gauges
    BY <1>18 DEF L2L2AddPool, Gauges
  <2>2. Follows(side, side')
    BY <1>2, <2>1, AddPoolFollows
  <2> QED
    BY <1>1, <1>9, <1>5, <2>1, <2>2
<1>19. CASE L1SetPoolIds
  <2>1. PICK p \in LatestPid(main) : main' \in SetMainPoolIds(main, p, Len(main.pools) + 1)
    BY <1>19 DEF L1SetPoolIds
  <2>2. p \in Nat /\ Len(main.pools) + 1 \in Nat /\ side' = side /\ toSide' = toSide
    BY <1>6, <1>19, <2>1 DEF LatestPid, L1SetPoolIds
  <2>3. Follows(main, main')
    BY <1>2, <2>1, <2>2, MainPoolIdsFollow
  <2> QED
    BY <1>1, <1>8, <1>4, <2>2, <2>3
<1>20. CASE L2SetPoolIds
  <2>1. PICK p \in LatestPid(side) : side' \in SetPoolIds(side, p, Len(side.pools) + 1)
    BY <1>20 DEF L2SetPoolIds
  <2>2. p \in Nat /\ Len(side.pools) + 1 \in Nat /\ main' = main /\ toSide' = toSide
    BY <1>6, <1>20, <2>1 DEF LatestPid, L2SetPoolIds
  <2>3. Follows(side, side')
    BY <1>2, <2>1, <2>2, PoolIdsFollow
  <2> QED
    BY <1>1, <1>9, <1>5, <2>2, <2>3
<1>21. ASSUME NEW fails \in BOOLEAN, VoteGaugeWeightsTask(fails) PROVE NoRewardsMove
  BY <1>7, <1>21 DEF VoteGaugeWeightsTask
<1>22. ASSUME NEW gs, NEW fails \in BOOLEAN, AddPoolTask(gs, fails) PROVE NoRewardsMove
  BY <1>7, <1>22 DEF AddPoolTask
<1>23. ASSUME NEW c, DropBatch(c) PROVE NoRewardsMove
  BY <1>7, <1>23 DEF DropBatch
<1>24. ASSUME NEW gs, PrepareAddPools(gs) PROVE NoRewardsMove
  BY <1>7, <1>24 DEF PrepareAddPools, Prepare
<1>25. ASSUME NEW g, ChangeWeight(g) PROVE NoRewardsMove
  BY <1>7, <1>25 DEF ChangeWeight
<1>26. CASE \E fails \in BOOLEAN : VoteGaugeWeightsTask(fails)
  BY <1>21, <1>26
<1>27. CASE \E gs \in (SUBSET Gauges) \ {{}}, fails \in BOOLEAN : AddPoolTask(InOrder(gs), fails)
  BY <1>22, <1>27
<1>28. CASE \E c \in {"main", "side"} : DropBatch(c)
  BY <1>23, <1>28
<1>29. CASE \E g \in BareGauges \cup ForeignGauges, flag \in BOOLEAN : SetIsNoDepositGaugeTask(g, flag)
  BY <1>12, <1>29
<1>30. CASE \E gs \in (SUBSET MainGauges) \ {{}} : PrepareAddPools(InOrder(gs))
  BY <1>24, <1>30
<1>31. CASE \E p \in 1 .. MaxPools : L1SetStashExtraReward(p) \/ L2SetStashExtraReward(p)
  BY <1>14, <1>15, <1>31
<1>32. CASE \E gs \in (SUBSET SideGauges) \ {{}} : L1L2AddPool(gs)
  BY <1>16, <1>32
<1>33. CASE \E gs \in toSide : ReceiveGauges(gs)
  BY <1>17, <1>33
<1>34. CASE \E g \in SideGauges : L2L2AddPool(g)
  BY <1>18, <1>34
<1>35. CASE \E g \in MainGauges : ChangeWeight(g)
  BY <1>25, <1>35
<1> QED
  BY <1>10, <1>11, <1>13, <1>19, <1>20, <1>26, <1>27, <1>28, <1>29, <1>30, <1>31, <1>32, <1>33,
     <1>34, <1>35, Zenon DEF Listing

(* Hence the round stays as it is.                                         *)
LEMMA RoundStays == RInv /\ NoRewardsMove /\ UNCHANGED roundVars => RInv'
<1> SUFFICES ASSUME RInv, NoRewardsMove, UNCHANGED roundVars PROVE RInv'
  OBVIOUS
<1>1. Owed(side') = Owed(side) /\ side'.aura = side.aura
  BY DEF NoRewardsMove, SameAccounts, Owed, Unsent
<1>2. amountsToSide' = amountsToSide /\ auraToSide' = auraToSide
  BY DEF roundVars
<1>3. Backed(side', amountsToSide', auraToSide')
  BY <1>1, <1>2 DEF RInv, Backed
<1>4. Announced(amountsToSide', main') /\ Announced(auraToSide', main')
  BY <1>2 DEF RInv, NoRewardsMove, Announced
<1> QED
  BY <1>3, <1>4 DEF RInv, NoRewardsMove

(* Messages.                                                               *)
LEMMA MessagesOf ==
  ASSUME NEW s \in ChainStates, NEW M, Announced(M, s)
  PROVE  /\ IsFiniteSet(M) /\ AmountsOf(M) \in Nat
         /\ \A m \in M : m.gauge \in Gauges /\ m.amount \in Nat
<1>1. IsFiniteSet(M) /\ \A m \in M : m.gauge \in Gauges /\ m.amount \in Nat
  BY DEF Announced, ChainStates
<1> QED
  BY <1>1, AmountsHaveSum

(* More gauges processed, the same messages or fewer.                      *)
LEMMA StillAnnounced ==
  ASSUME NEW s, NEW t, NEW M, Announced(M, s), NEW R \in SUBSET M, s.processed \subseteq t.processed
  PROVE  Announced(R, t)
<1>1. IsFiniteSet(R)
  BY FS_Subset DEF Announced
<1> QED
  BY <1>1 DEF Announced

(* Every step of the distributor.                                          *)
LEMMA DistributionKeepsRound == RInv /\ Distribution => RInv'
<1> SUFFICES ASSUME RInv, Distribution PROVE RInv'
  OBVIOUS
<1>1. /\ MainOK(main) /\ SideOK(side) /\ toSide \subseteq SUBSET SideGauges
      /\ Announced(amountsToSide, main) /\ Announced(auraToSide, main)
      /\ Backed(side, amountsToSide, auraToSide)
      /\ main \in ChainStates /\ side \in ChainStates
  BY DEF RInv, MainOK, SideOK
<1>2. /\ IsFiniteSet(amountsToSide) /\ AmountsOf(amountsToSide) \in Nat
      /\ IsFiniteSet(auraToSide) /\ AmountsOf(auraToSide) \in Nat
      /\ \A m \in amountsToSide \cup auraToSide : m.gauge \in Gauges /\ m.amount \in Nat
  BY <1>1, MessagesOf
<1>3. Owed(side) \in Nat /\ side.aura \in Nat
  BY <1>1, OwedIsNat DEF ChainStates
<1>4. toSide' = toSide
  BY DEF Distribution
<1>5. ASSUME MainOK(main'), main.processed \subseteq main'.processed, side' = side, UNCHANGED roundVars
      PROVE  RInv'
  <2>1. amountsToSide' = amountsToSide /\ auraToSide' = auraToSide
    BY <1>5 DEF roundVars
  <2>2. Announced(amountsToSide', main') /\ Announced(auraToSide', main')
    BY <1>1, <1>5, <2>1, StillAnnounced
  <2> QED
    BY <1>1, <1>4, <1>5, <2>1, <2>2 DEF RInv
<1>6. ASSUME NEW reward \in Rewards, SetReward(reward) PROVE RInv'
  <2>1. main' \in SetRewardPerEpoch(main, reward) /\ side' = side /\ UNCHANGED roundVars
    BY <1>6 DEF SetReward
  <2>2. MainOK(main') /\ main'.processed = main.processed
    BY <1>1, <2>1, MainReward
  <2> QED
    BY <1>5, <2>1, <2>2
<1>7. ASSUME NEW g \in Gauges, ProcessMain(g) PROVE RInv'
  <2>1. main' \in ProcessGaugeRewards(main, g) /\ side' = side /\ UNCHANGED roundVars
    BY <1>7 DEF ProcessMain
  <2>2. MainOK(main') /\ main'.processed = main.processed \cup {g}
    BY <1>1, <2>1, MainProcesses
  <2> QED
    BY <1>5, <2>1, <2>2
<1>8. ASSUME NEW g \in Gauges, ProcessSide(g) PROVE RInv'
  <2> DEFINE m == [gauge |-> g, amount |-> AmountToSend(main, g)]
  <2>1. /\ main' \in ProcessSidechainGaugeRewards(main, g) /\ side' = side
        /\ amountsToSide' = amountsToSide \cup {m} /\ auraToSide' = auraToSide \cup {m}
    BY <1>8 DEF ProcessSide
  <2>2. /\ MainOK(main') /\ main'.processed = main.processed \cup {g}
        /\ AmountToSend(main, g) \in Nat /\ g \notin main.processed
    BY <1>1, <2>1, MainSendsAbroad
  <2>3. m.gauge = g /\ m.amount \in Nat
    BY <2>2
  <2> HIDE DEF m
  <2>4. m \notin amountsToSide /\ m \notin auraToSide
    BY <1>1, <2>2, <2>3 DEF Announced
  <2>5. Announced(amountsToSide', main') /\ Announced(auraToSide', main')
    <3>1. IsFiniteSet(amountsToSide') /\ IsFiniteSet(auraToSide')
      BY <1>2, <2>1, FS_AddElement
    <3> QED
      BY <1>1, <2>1, <2>2, <2>3, <3>1 DEF Announced
  <2>6. /\ AmountsOf(amountsToSide \cup {m}) = AmountsOf(amountsToSide) + m.amount
        /\ AmountsOf(auraToSide \cup {m}) = AmountsOf(auraToSide) + m.amount
    BY <1>2, <2>3, <2>4, AmountsOfMore
  <2>7. /\ AmountsOf(amountsToSide') = AmountsOf(amountsToSide) + m.amount
        /\ AmountsOf(auraToSide') = AmountsOf(auraToSide) + m.amount
    BY <2>1, <2>6, Zenon
  <2>8. Backed(side', amountsToSide', auraToSide')
    BY <1>1, <1>2, <1>3, <2>1, <2>3, <2>7 DEF Backed
  <2> QED
    BY <1>1, <1>4, <2>1, <2>2, <2>5, <2>8 DEF RInv
<1>9. ASSUME NEW g \in Gauges, ProcessChild(g) PROVE RInv'
  <2>1. side' \in ProcessChildGaugeRewards(side, g) /\ main' = main
        /\ amountsToSide' = amountsToSide /\ auraToSide' = auraToSide
    BY <1>9 DEF ProcessChild, roundVars
  <2>2. SideOK(side') /\ \E n \in Nat : n <= side.aura /\ side'.aura = side.aura - n /\ Owed(side) = n + Owed(side')
    BY <1>1, <2>1, SideProcesses
  <2>3. Owed(side') \in Nat
    BY <2>2, OwedIsNat DEF SideOK
  <2>4. Backed(side', amountsToSide', auraToSide')
    BY <1>1, <1>2, <1>3, <2>1, <2>2, <2>3 DEF Backed
  <2> QED
    BY <1>1, <1>4, <2>1, <2>2, <2>4 DEF RInv
<1>10. ASSUME NEW m \in amountsToSide, DeliverAmount(m) PROVE RInv'
  <2>1. /\ side' \in ReceiveAmount(side, m.gauge, m.amount) /\ main' = main
        /\ amountsToSide' = amountsToSide \ {m} /\ auraToSide' = auraToSide
    BY <1>10 DEF DeliverAmount
  <2>2. m.gauge \in Gauges /\ m.amount \in Nat
    BY <1>2
  <2>3. SideOK(side') /\ side'.aura = side.aura /\ Owed(side') <= Owed(side) + m.amount
    BY <1>1, <2>1, <2>2, SideReceivesAmount
  <2>4. Owed(side') \in Nat
    BY <2>3, OwedIsNat DEF SideOK
  <2>5. Announced(amountsToSide \ {m}, main) /\ amountsToSide \ {m} \in SUBSET amountsToSide
    BY <1>1, StillAnnounced
  <2>6. AmountsOf(amountsToSide \ {m}) \in Nat
    BY <1>1, <2>5, MessagesOf
  <2>7. AmountsOf(amountsToSide) = AmountsOf(amountsToSide \ {m}) + m.amount
    BY <1>2, AmountsOfLess
  <2>8. Backed(side', amountsToSide', auraToSide')
    BY <1>1, <1>2, <1>3, <2>1, <2>2, <2>3, <2>4, <2>6, <2>7 DEF Backed
  <2> QED
    BY <1>1, <1>4, <2>1, <2>3, <2>5, <2>8 DEF RInv
<1>11. ASSUME NEW m \in auraToSide, DeliverAura(m) PROVE RInv'
  <2>1. /\ side' \in ReceiveAura(side, m.amount) /\ main' = main
        /\ auraToSide' = auraToSide \ {m} /\ amountsToSide' = amountsToSide
    BY <1>11 DEF DeliverAura
  <2>2. m.amount \in Nat
    BY <1>2
  <2>3. SideOK(side') /\ side'.aura = side.aura + m.amount /\ Owed(side') = Owed(side)
    BY <1>1, <2>1, <2>2, SideReceivesAura
  <2>4. Announced(auraToSide \ {m}, main) /\ auraToSide \ {m} \in SUBSET auraToSide
    BY <1>1, StillAnnounced
  <2>5. AmountsOf(auraToSide \ {m}) \in Nat
    BY <1>1, <2>4, MessagesOf
  <2>6. AmountsOf(auraToSide) = AmountsOf(auraToSide \ {m}) + m.amount
    BY <1>2, AmountsOfLess
  <2>7. Backed(side', amountsToSide', auraToSide')
    BY <1>1, <1>2, <1>3, <2>1, <2>2, <2>3, <2>5, <2>6 DEF Backed
  <2> QED
    BY <1>1, <1>4, <2>1, <2>3, <2>4, <2>7 DEF RInv
<1> QED
  BY <1>6, <1>7, <1>8, <1>9, <1>10, <1>11 DEF Distribution

(* Every step of a round.                                                  *)
LEMMA RoundKept == RInv /\ [Next]_vars => RInv'
<1> SUFFICES ASSUME RInv, [Next]_vars PROVE RInv'
  OBVIOUS
<1>1. CASE UNCHANGED <<chainVars, roundVars>>
  <2>1. NoRewardsMove
    BY <1>1 DEF RInv, NoRewardsMove, SameAccounts, PoolsStay, chainVars
  <2> QED
    BY <1>1, <2>1, RoundStays
<1>2. CASE Snapshot
  BY <1>1, <1>2 DEF Snapshot, listingVars
<1>3. CASE Listing
  BY <1>3, ListingMovesNoRewards, RoundStays DEF Listing
<1>4. CASE Distribution
  BY <1>4, DistributionKeepsRound
<1>5. CASE UNCHANGED vars
  BY <1>1, <1>5 DEF vars, listingVars
<1> QED
  BY <1>2, <1>3, <1>4, <1>5 DEF Next

LEMMA RoundAlways == Spec => []RInv
  BY RoundStarts, RoundKept, PTL DEF Spec

-----------------------------------------------------------------------------
(* However often the reward of an epoch is changed while its gauges are    *)
(* processed (setRewardPerEpoch between calls of processGaugeRewards), and *)
(* whatever the votes and the weights are, no more AURA leaves             *)
(* GaugeVoteRewards for an epoch than the largest of those rewards.        *)
THEOREM RewardsStayWithinBudget == Spec => []RewardsWithinBudget
<1>1. RInv => RewardsWithinBudget
  <2> SUFFICES ASSUME RInv PROVE RewardsWithinBudget
    OBVIOUS
  <2> DEFINE sent == InitialAura - main.aura
             total == main.totalWeight
             largest == Largest(Rewards)
             done == SumFunctionOnSet(main.weightOf, main.processed)
             all == SumFunctionOnSet(main.weightOf, Gauges)
  <2>1. main \in ChainStates /\ BudgetKept(main)
    BY DEF RInv, MainOK
  <2>2. total \in Nat /\ main.aura \in Nat /\ main.weightOf \in [Gauges -> Nat] /\ main.processed \in SUBSET Gauges
    BY <2>1 DEF ChainStates
  <2>3. sent \in Nat
    BY <2>1, <2>2, GaugeAssumption DEF BudgetKept
  <2>4. largest \in Nat
    BY <2>1, RewardsAreNat DEF BudgetKept
  <2>5. done \in Nat /\ all \in Nat /\ done <= all
    BY <2>2, WeightsHaveSum
  <2>6. all <= total /\ sent * total <= largest * done
    BY <2>1 DEF BudgetKept, WithinShares
  <2>7. total = 0 => sent = 0
    BY <2>1, GaugeAssumption DEF BudgetKept
  <2> HIDE DEF sent, total, largest, done, all
  <2>8. CASE total = 0
    BY <2>4, <2>7, <2>8 DEF RewardsWithinBudget, sent, largest
  <2>9. CASE total # 0
    <3>1. done <= total
      BY <2>2, <2>5, <2>6
    <3>2. largest * done <= largest * total
      <4>1. done * largest <= total * largest
        BY <2>2, <2>4, <2>5, <3>1, ProductIsMonotone
      <4>2. largest * done = done * largest /\ largest * total = total * largest
        BY <2>2, <2>4, <2>5
      <4> QED
        BY <4>1, <4>2
    <3>3. sent * total \in Nat /\ largest * done \in Nat /\ largest * total \in Nat
      BY <2>2, <2>3, <2>4, <2>5, ProductIsNat
    <3>4. sent * total <= largest * total
      BY <2>6, <3>2, <3>3
    <3>5. sent <= largest
      BY <2>2, <2>3, <2>4, <2>9, <3>4, ProductCancels
    <3> QED
      BY <3>5 DEF RewardsWithinBudget, sent, largest
  <2> QED
    BY <2>8, <2>9
<1> QED
  BY <1>1, RoundAlways, PTL

(* A pool that has been funded belongs to a gauge that has been processed, *)
(* on mainnet and on the sidechain: whichever transactions the Safes have  *)
(* executed, a pool id that setPoolIds wrote keeps naming the pool of its  *)
(* gauge, so that nothing that is sent for one gauge reaches another.      *)
THEOREM RewardsReachOwnPool == Spec => []RewardsGoToOwnPool
<1>1. RInv => RewardsGoToOwnPool
  BY DEF RInv, MainOK, SideOK, MainFunds, SideFunds, RewardsGoToOwnPool
<1> QED
  BY <1>1, RoundAlways, PTL

(* processSidechainGaugeRewards announces an amount in one message and     *)
(* sends the AURA in another.  Whichever arrives first, and whatever else  *)
(* has arrived, ChildGaugeVoteRewards has or will get all it was told of.  *)
THEOREM ChildStaysBacked == Spec => []ChildIsBacked
<1>1. RInv => ChildIsBacked
  BY DEF RInv, Backed, Owed, Unsent, AmountsOf, AmountIn, ChildIsBacked
<1> QED
  BY <1>1, RoundAlways, PTL


-----------------------------------------------------------------------------
(* Folds over sequences, prefix by prefix.                                 *)

(* The fold of a prefix is a step from that of the one before it.          *)
StepsAlong(fold, next, base, V, n) ==
  /\ fold[1 .. 0] = base
  /\ \A k \in 0 .. n : fold[1 .. k] \in V
  /\ \A k \in 1 .. n : fold[1 .. k] = next[k][fold[1 .. (k - 1)]]

(* The largest of the first k indices is k.                                *)
LEMMA PrefixMax ==
  ASSUME NEW k \in Nat \ {0}
  PROVE  Max(1 .. k) = k /\ (1 .. k) \ {k} = 1 .. (k - 1)
<1>1. (1 .. k) \in SUBSET Int /\ IsFiniteSet(1 .. k) /\ k \in 1 .. k
  BY FS_Interval
<1>2. Max(1 .. k) \in 1 .. k /\ \A i \in 1 .. k : i <= Max(1 .. k)
  BY <1>1, MaxIsIn
<1> QED
  BY <1>1, <1>2

(* What a fold that is given by its steps, as FoldLeft is, gives.          *)
LEMMA StepsFromFold ==
  ASSUME NEW n \in Nat, NEW V, NEW base \in V, NEW next \in [1 .. n -> [V -> V]], NEW fold,
         \A s \in SUBSET (1 .. n) :
           s = {} => fold[s] = base,
         \A s \in SUBSET (1 .. n) :
           s # {} /\ fold[s \ {Max(s)}] \in V => fold[s] = next[Max(s)][fold[s \ {Max(s)}]]
  PROVE  StepsAlong(fold, next, base, V, n)
<1>1. (1 .. n) \in SUBSET Int /\ IsFiniteSet(1 .. n)
  BY FS_Interval
<1>2. \A s \in (SUBSET (1 .. n)) \ {{}} : Max(s) \in 1 .. n
  <2>1. \A s \in SUBSET (1 .. n) : s \in SUBSET Int /\ IsFiniteSet(s)
    BY <1>1, FS_Subset
  <2> QED
    BY <2>1, MaxIsIn
<1>3. fold[{}] \in V
  OBVIOUS
<1>4. \A s \in (SUBSET (1 .. n)) \ {{}} : fold[s \ {Max(s)}] \in V => fold[s] \in V
  <2>1. ASSUME NEW s \in (SUBSET (1 .. n)) \ {{}}, fold[s \ {Max(s)}] \in V PROVE fold[s] \in V
    <3>1. fold[s] = next[Max(s)][fold[s \ {Max(s)}]]
      BY <2>1
    <3> QED
      BY <1>2, <2>1, <3>1
  <2> QED
    BY <2>1
<1>5. \A s \in SUBSET (1 .. n) : fold[s] \in V
  BY <1>1, <1>3, <1>4, FoldStays
<1>6. \A k \in 0 .. n : (1 .. k) \in SUBSET (1 .. n)
  OBVIOUS
<1>7. ASSUME NEW k \in 1 .. n
      PROVE  fold[1 .. k] = next[k][fold[1 .. (k - 1)]]
  <2>0. k \in Nat \ {0}
    OBVIOUS
  <2>1. Max(1 .. k) = k /\ (1 .. k) \ {k} = 1 .. (k - 1) /\ (1 .. k) # {}
    BY <2>0, PrefixMax
  <2>2. (1 .. k) \in SUBSET (1 .. n) /\ (1 .. (k - 1)) \in SUBSET (1 .. n)
    OBVIOUS
  <2>3. fold[1 .. k] = next[Max(1 .. k)][fold[(1 .. k) \ {Max(1 .. k)}]]
    BY <1>5, <2>1, <2>2
  <2> QED
    BY <2>1, <2>3
<1>8. fold[1 .. 0] = base
  <2>1. 1 .. 0 = {}
    OBVIOUS
  <2> QED
    BY <2>1
<1> QED
  BY <1>5, <1>6, <1>7, <1>8 DEF StepsAlong

-----------------------------------------------------------------------------
(* Filters.                                                                *)

IsKeeping(kept, s, S, I) ==
  kept = [t \in SUBSET I |->
            IF t = {} THEN <<>>
            ELSE IF s[Max(t)] \in S THEN Append(kept[t \ {Max(t)}], s[Max(t)])
                 ELSE kept[t \ {Max(t)}]]

LEMMA KeptIsKeeping ==
  ASSUME NEW s, NEW S
  PROVE  Kept(s, S) = (CHOOSE kept : IsKeeping(kept, s, S, DOMAIN s))[DOMAIN s]
  BY DEF Kept, FoldLeft, MapThenFoldSet, IsKeeping

KeepStep(x, S, T) == [t \in Seq(T) |-> IF x \in S THEN Append(t, x) ELSE t]

LEMMA KeptSteps ==
  ASSUME NEW T, NEW s \in Seq(T), NEW S
  PROVE  \E kept : /\ StepsAlong(kept, [i \in 1 .. Len(s) |-> KeepStep(s[i], S, T)], <<>>, Seq(T), Len(s))
                   /\ Kept(s, S) = kept[1 .. Len(s)]
<1> DEFINE n == Len(s)
           I == 1 .. n
           V == Seq(T)
           next == [i \in I |-> KeepStep(s[i], S, T)]
           kept == CHOOSE r : IsKeeping(r, s, S, I)
<1>1. n \in Nat /\ DOMAIN s = I /\ \A i \in I : s[i] \in T
  OBVIOUS
<1>2. I \in SUBSET Int /\ IsFiniteSet(I)
  BY <1>1, FS_Interval
<1>3. <<>> \in V /\ next \in [I -> [V -> V]]
  BY <1>1 DEF KeepStep
<1>4. ASSUME NEW i \in I, NEW t \in V
      PROVE  next[i][t] = IF s[i] \in S THEN Append(t, s[i]) ELSE t
  BY <1>4 DEF KeepStep
<1> HIDE DEF V, next, n
<1>5. PICK r : StaysInside(r, next, <<>>, V, I)
  BY <1>2, <1>3, FoldInside
<1>6. \A t \in (SUBSET I) \ {{}} : Max(t) \in I
  BY <1>5 DEF StaysInside
<1>7. ASSUME NEW t \in SUBSET I
      PROVE  r[t] = IF t = {} THEN <<>>
                    ELSE IF s[Max(t)] \in S THEN Append(r[t \ {Max(t)}], s[Max(t)]) ELSE r[t \ {Max(t)}]
  <2>1. CASE t = {}
    BY <1>5, <2>1 DEF StaysInside
  <2>2. CASE t # {}
    <3>1. Max(t) \in I /\ r[t] = next[Max(t)][r[t \ {Max(t)}]] /\ r[t \ {Max(t)}] \in V
      BY <1>5, <2>2 DEF StaysInside
    <3> QED
      BY <1>4, <2>2, <3>1
  <2> QED
    BY <2>1, <2>2
<1>8. IsKeeping(r, s, S, I)
  <2>1. r = [t \in SUBSET I |-> r[t]]
    BY <1>5 DEF StaysInside
  <2>2. r = [t \in SUBSET I |->
               IF t = {} THEN <<>>
               ELSE IF s[Max(t)] \in S THEN Append(r[t \ {Max(t)}], s[Max(t)]) ELSE r[t \ {Max(t)}]]
    BY <1>7, <2>1
  <2> QED
    BY <2>2, Zenon DEF IsKeeping
<1>9. IsKeeping(kept, s, S, I)
  BY <1>8
<1> HIDE DEF kept
<1>10. \A t \in SUBSET I :
         kept[t] = IF t = {} THEN <<>>
                   ELSE IF s[Max(t)] \in S THEN Append(kept[t \ {Max(t)}], s[Max(t)]) ELSE kept[t \ {Max(t)}]
  <2> HIDE DEF I
  <2> QED
    BY <1>9 DEF IsKeeping
<1>11. \A t \in SUBSET I : t = {} => kept[t] = <<>>
  BY <1>10
<1>12. \A t \in SUBSET I :
         t # {} /\ kept[t \ {Max(t)}] \in V => kept[t] = next[Max(t)][kept[t \ {Max(t)}]]
  BY <1>4, <1>6, <1>10
<1>13. n \in Nat
  BY <1>1
<1>14. StepsAlong(kept, next, <<>>, V, n)
  BY <1>3, <1>11, <1>12, <1>13, StepsFromFold
<1>15. Kept(s, S) = kept[I]
  BY <1>1, KeptIsKeeping DEF kept
<1> QED
  BY <1>14, <1>15 DEF next, V, n

(* t is what the first m of s have of S: at says from where.               *)
IsPicked(t, s, S, at, m) ==
  /\ at \in [1 .. Len(t) -> 1 .. m]
  /\ \A i \in 1 .. Len(t) : t[i] = s[at[i]] /\ s[at[i]] \in S
  /\ \A i, j \in 1 .. Len(t) : i < j => at[i] < at[j]
  /\ \A p \in 1 .. m : s[p] \in S => \E i \in 1 .. Len(t) : at[i] = p

LEMMA KeptIsPicked ==
  ASSUME NEW T, NEW s \in Seq(T), NEW S
  PROVE  Kept(s, S) \in Seq(T) /\ \E at : IsPicked(Kept(s, S), s, S, at, Len(s))
<1> DEFINE n == Len(s)
           next == [i \in 1 .. n |-> KeepStep(s[i], S, T)]
<1>1. n \in Nat /\ DOMAIN s = 1 .. n /\ \A i \in 1 .. n : s[i] \in T
  OBVIOUS
<1>2. PICK kept : StepsAlong(kept, next, <<>>, Seq(T), n) /\ Kept(s, S) = kept[1 .. n]
  BY KeptSteps
<1>3. \A k \in 0 .. n : kept[1 .. k] \in Seq(T)
  BY <1>2 DEF StepsAlong
<1>4. ASSUME NEW k \in 1 .. n
      PROVE  kept[1 .. k] = IF s[k] \in S THEN Append(kept[1 .. (k - 1)], s[k]) ELSE kept[1 .. (k - 1)]
  <2>1. kept[1 .. k] = next[k][kept[1 .. (k - 1)]]
    <3> HIDE DEF next
    <3> QED
      BY <1>2 DEF StepsAlong
  <2>2. kept[1 .. (k - 1)] \in Seq(T)
    BY <1>1, <1>3
  <2> QED
    BY <2>1, <2>2 DEF KeepStep
<1> DEFINE Bad == {k \in 0 .. n : ~\E at : IsPicked(kept[1 .. k], s, S, at, k)}
<1>5. Bad = {}
  <2> SUFFICES ASSUME Bad # {} PROVE FALSE
    OBVIOUS
  <2>1. PICK k \in Bad : \A m \in Bad : k <= m
    <3>1. Bad \in SUBSET Nat
      BY <1>1
    <3> HIDE DEF Bad
    <3> QED
      BY <3>1, SmallestExists
  <2>2. k \in 0 .. n /\ ~\E at : IsPicked(kept[1 .. k], s, S, at, k)
    BY <2>1
  <2>3. k # 0
    <3>1. IsPicked(<<>>, s, S, <<>>, 0)
      BY DEF IsPicked
    <3>2. kept[1 .. 0] = <<>>
      BY <1>2 DEF StepsAlong
    <3> QED
      BY <2>2, <3>1, <3>2
  <2> DEFINE t == kept[1 .. (k - 1)]
             u == kept[1 .. k]
  <2>4. k \in 1 .. n /\ k - 1 \in 0 .. n /\ k - 1 \in Nat
    BY <1>1, <2>2, <2>3
  <2>5. k - 1 \notin Bad
    BY <1>1, <2>1, <2>4
  <2>6. PICK at : IsPicked(t, s, S, at, k - 1)
    BY <2>4, <2>5
  <2>7. t \in Seq(T) /\ s[k] \in T
    BY <1>1, <1>3, <2>4
  <2>8. u = IF s[k] \in S THEN Append(t, s[k]) ELSE t
    BY <1>4, <2>4
  <2> HIDE DEF t, u, Bad
  <2>9. CASE s[k] \notin S
    <3>1. IsPicked(u, s, S, at, k)
      BY <2>4, <2>6, <2>7, <2>8, <2>9 DEF IsPicked
    <3> QED
      BY <2>2, <3>1 DEF u
  <2>10. CASE s[k] \in S
    <3> DEFINE new == [i \in 1 .. Len(u) |-> IF i = Len(u) THEN k ELSE at[i]]
    <3>1. /\ Len(t) \in Nat /\ Len(u) = Len(t) + 1 /\ u[Len(u)] = s[k]
          /\ \A i \in 1 .. Len(t) : u[i] = t[i]
      BY <2>7, <2>8, <2>10
    <3>2. \A i \in 1 .. Len(t) : new[i] = at[i] /\ at[i] \in 1 .. (k - 1)
      BY <2>6, <3>1 DEF IsPicked
    <3>3. new[Len(u)] = k /\ Len(u) \in 1 .. Len(u)
      BY <3>1
    <3>4. \A i \in 1 .. Len(u) : i = Len(u) \/ i \in 1 .. Len(t)
      BY <3>1
    <3>5. new \in [1 .. Len(u) -> 1 .. k]
      <4>1. \A i \in 1 .. Len(u) : new[i] \in 1 .. k
        <5> HIDE DEF new
        <5> QED
          BY <2>4, <3>2, <3>3, <3>4
      <4> QED
        BY <4>1
    <3> HIDE DEF new
    <3>6. \A i \in 1 .. Len(u) : u[i] = s[new[i]] /\ s[new[i]] \in S
      BY <2>6, <2>10, <3>1, <3>2, <3>3, <3>4 DEF IsPicked
    <3>7. \A i, j \in 1 .. Len(u) : i < j => new[i] < new[j]
      BY <2>4, <2>6, <3>1, <3>2, <3>3, <3>4 DEF IsPicked
    <3>8. \A p \in 1 .. k : s[p] \in S => \E i \in 1 .. Len(u) : new[i] = p
      <4>1. ASSUME NEW p \in 1 .. k, s[p] \in S, p # k
            PROVE  \E i \in 1 .. Len(u) : new[i] = p
        <5>1. p \in 1 .. (k - 1)
          BY <2>4, <4>1
        <5>2. PICK i \in 1 .. Len(t) : at[i] = p
          BY <2>6, <4>1, <5>1 DEF IsPicked
        <5> QED
          BY <3>1, <3>2, <5>2
      <4> QED
        BY <3>3, <4>1
    <3>9. IsPicked(u, s, S, new, k)
      BY <3>5, <3>6, <3>7, <3>8 DEF IsPicked
    <3> QED
      BY <2>2, <3>9 DEF u
  <2> QED
    BY <2>9, <2>10
<1> QED
  BY <1>1, <1>2, <1>3, <1>5

Ascending(s, key) == \A i, j \in DOMAIN s : i < j => key[s[i]] <= key[s[j]]

(* What a filter keeps.                                                    *)
LEMMA KeptKeeps ==
  ASSUME NEW T, NEW s \in Seq(T), NEW S
  PROVE  /\ Kept(s, S) \in Seq(T)
         /\ ToSet(Kept(s, S)) = ToSet(s) \cap S
         /\ IsInjective(s) => IsInjective(Kept(s, S))
         /\ \A key : Ascending(s, key) => Ascending(Kept(s, S), key)
<1> DEFINE t == Kept(s, S)
<1>1. PICK at : IsPicked(t, s, S, at, Len(s))
  BY KeptIsPicked
<1>2. t \in Seq(T)
  BY KeptIsPicked
<1> HIDE DEF t
<1>3. DOMAIN t = 1 .. Len(t) /\ DOMAIN s = 1 .. Len(s) /\ Len(t) \in Nat /\ Len(s) \in Nat
  BY <1>2
<1>4. ToSet(t) = ToSet(s) \cap S
  BY <1>1, <1>3 DEF IsPicked, ToSet
<1>5. ASSUME IsInjective(s) PROVE IsInjective(t)
  <2>1. ASSUME NEW i \in DOMAIN t, NEW j \in DOMAIN t, t[i] = t[j] PROVE i = j
    <3>1. at[i] = at[j] /\ at[i] \in Int
      BY <1>1, <1>3, <1>5, <2>1 DEF IsPicked, IsInjective
    <3> QED
      BY <1>1, <1>3, <3>1 DEF IsPicked
  <2> QED
    BY <2>1 DEF IsInjective
<1>6. ASSUME NEW key, Ascending(s, key) PROVE Ascending(t, key)
  BY <1>1, <1>3, <1>6 DEF IsPicked, Ascending
<1> QED
  BY <1>2, <1>4, <1>5, <1>6 DEF t

-----------------------------------------------------------------------------
(* Sorting.                                                                *)

(* One sequence after another.                                             *)
LEMMA Joined ==
  ASSUME NEW T, NEW a \in Seq(T), NEW b \in Seq(T)
  PROVE  /\ a \o b \in Seq(T)
         /\ ToSet(a \o b) = ToSet(a) \cup ToSet(b)
         /\ IsInjective(a) /\ IsInjective(b) /\ ToSet(a) \cap ToSet(b) = {} => IsInjective(a \o b)
         /\ \A key : /\ Ascending(a, key) /\ Ascending(b, key)
                     /\ \A x \in ToSet(a), y \in ToSet(b) : key[x] <= key[y]
                     => Ascending(a \o b, key)
<1> DEFINE c == a \o b
           m == Len(a)
           n == Len(b)
<1>1. m \in Nat /\ n \in Nat /\ DOMAIN a = 1 .. m /\ DOMAIN b = 1 .. n
  OBVIOUS
<1>2. c \in Seq(T) /\ DOMAIN c = 1 .. (m + n)
  OBVIOUS
<1>3. \A i \in 1 .. m : c[i] = a[i]
  OBVIOUS
<1>4. \A i \in (m + 1) .. (m + n) : c[i] = b[i - m] /\ i - m \in 1 .. n
  OBVIOUS
<1>5. \A i \in 1 .. n : c[m + i] = b[i] /\ m + i \in (m + 1) .. (m + n)
  OBVIOUS
<1>6. \A i \in DOMAIN c : i \in 1 .. m \/ i \in (m + 1) .. (m + n)
  BY <1>1, <1>2
<1> HIDE DEF c, m, n
<1>7. ToSet(c) = ToSet(a) \cup ToSet(b)
  <2>1. \A i \in DOMAIN c : c[i] \in ToSet(a) \cup ToSet(b)
    BY <1>1, <1>3, <1>4, <1>6 DEF ToSet
  <2>2. \A i \in DOMAIN a : i \in DOMAIN c /\ c[i] = a[i]
    BY <1>1, <1>2, <1>3
  <2>3. \A i \in DOMAIN b : m + i \in DOMAIN c /\ c[m + i] = b[i]
    BY <1>1, <1>2, <1>5
  <2> QED
    BY <2>1, <2>2, <2>3 DEF ToSet
<1>8. ASSUME IsInjective(a), IsInjective(b), ToSet(a) \cap ToSet(b) = {} PROVE IsInjective(c)
  <2>1. ASSUME NEW i \in DOMAIN c, NEW j \in DOMAIN c, c[i] = c[j] PROVE i = j
    <3>1. CASE i \in 1 .. m /\ j \in 1 .. m
      BY <1>1, <1>3, <1>8, <2>1, <3>1 DEF IsInjective
    <3>2. CASE i \in (m + 1) .. (m + n) /\ j \in (m + 1) .. (m + n)
      <4>1. i - m = j - m
        BY <1>1, <1>4, <1>8, <2>1, <3>2 DEF IsInjective
      <4> QED
        BY <1>1, <3>2, <4>1
    <3>3. CASE i \in 1 .. m /\ j \in (m + 1) .. (m + n)
      <4>1. c[i] \in ToSet(a) /\ c[j] \in ToSet(b)
        BY <1>1, <1>3, <1>4, <3>3 DEF ToSet
      <4> QED
        BY <1>8, <2>1, <4>1
    <3>4. CASE j \in 1 .. m /\ i \in (m + 1) .. (m + n)
      <4>1. c[j] \in ToSet(a) /\ c[i] \in ToSet(b)
        BY <1>1, <1>3, <1>4, <3>4 DEF ToSet
      <4> QED
        BY <1>8, <2>1, <4>1
    <3> QED
      BY <1>6, <3>1, <3>2, <3>3, <3>4
  <2> QED
    BY <2>1 DEF IsInjective
<1>9. ASSUME NEW key, Ascending(a, key), Ascending(b, key),
             \A x \in ToSet(a), y \in ToSet(b) : key[x] <= key[y]
      PROVE  Ascending(c, key)
  <2>1. ASSUME NEW i \in DOMAIN c, NEW j \in DOMAIN c, i < j PROVE key[c[i]] <= key[c[j]]
    <3>1. CASE i \in 1 .. m /\ j \in 1 .. m
      BY <1>1, <1>3, <1>9, <2>1, <3>1 DEF Ascending
    <3>2. CASE i \in (m + 1) .. (m + n) /\ j \in (m + 1) .. (m + n)
      <4>1. i - m < j - m
        BY <1>1, <2>1, <3>2
      <4> QED
        BY <1>1, <1>4, <1>9, <3>2, <4>1 DEF Ascending
    <3>3. CASE i \in 1 .. m /\ j \in (m + 1) .. (m + n)
      <4>1. c[i] \in ToSet(a) /\ c[j] \in ToSet(b)
        BY <1>1, <1>3, <1>4, <3>3 DEF ToSet
      <4> QED
        BY <1>9, <4>1
    <3>4. ~(j \in 1 .. m /\ i \in (m + 1) .. (m + n))
      BY <1>1, <2>1
    <3> QED
      BY <1>6, <3>1, <3>2, <3>3, <3>4
  <2> QED
    BY <2>1 DEF Ascending
<1> QED
  BY <1>2, <1>7, <1>8, <1>9 DEF c

(* An element finds its place.                                             *)
LEMMA InsertedStaysAscending ==
  ASSUME NEW T, NEW t \in Seq(T), NEW x \in T, NEW key, \A y \in T : key[y] \in Int
  PROVE  /\ Inserted(t, x, key) \in Seq(T)
         /\ ToSet(Inserted(t, x, key)) = ToSet(t) \cup {x}
         /\ Ascending(t, key) => Ascending(Inserted(t, x, key), key)
         /\ IsInjective(t) /\ x \notin ToSet(t) => IsInjective(Inserted(t, x, key))
<1> DEFINE low == {y \in ToSet(t) : key[y] <= key[x]}
           high == {y \in ToSet(t) : key[y] > key[x]}
           a == Kept(t, low)
           b == Kept(t, high)
           c == a \o <<x>>
<1>1. \A y \in ToSet(t) : y \in T
  BY DEF ToSet
<1>2. low \subseteq ToSet(t) /\ high \subseteq ToSet(t) /\ low \cap high = {} /\ low \cup high = ToSet(t)
  <2>1. \A y \in ToSet(t) : key[y] \in Int /\ key[x] \in Int
    BY <1>1
  <2> QED
    BY <2>1
<1>3. \A y \in low, z \in high : key[y] <= key[x] /\ key[x] <= key[z] /\ key[y] <= key[z]
  <2>1. \A y \in ToSet(t) : key[y] \in Int /\ key[x] \in Int
    BY <1>1
  <2> QED
    BY <2>1
<1>4. \A y \in low : key[y] <= key[x]
  OBVIOUS
<1>5. \A z \in high : key[x] <= key[z]
  <2>1. \A y \in ToSet(t) : key[y] \in Int /\ key[x] \in Int
    BY <1>1
  <2> QED
    BY <2>1
<1>6. x \notin ToSet(t) => x \notin low /\ x \notin high
  OBVIOUS
<1>7. Inserted(t, x, key) = c \o b
  BY DEF Inserted
<1> HIDE DEF low, high
<1>8. /\ a \in Seq(T) /\ ToSet(a) = low
      /\ IsInjective(t) => IsInjective(a)
      /\ Ascending(t, key) => Ascending(a, key)
  <2>1. /\ a \in Seq(T) /\ ToSet(a) = ToSet(t) \cap low
        /\ IsInjective(t) => IsInjective(a)
        /\ \A k : Ascending(t, k) => Ascending(a, k)
    BY KeptKeeps
  <2>2. ToSet(t) \cap low = low
    BY <1>2
  <2> HIDE DEF a, b
  <2> QED
    BY <2>1, <2>2
<1>9. /\ b \in Seq(T) /\ ToSet(b) = high
      /\ IsInjective(t) => IsInjective(b)
      /\ Ascending(t, key) => Ascending(b, key)
  <2>1. /\ b \in Seq(T) /\ ToSet(b) = ToSet(t) \cap high
        /\ IsInjective(t) => IsInjective(b)
        /\ \A k : Ascending(t, k) => Ascending(b, k)
    BY KeptKeeps
  <2>2. ToSet(t) \cap high = high
    BY <1>2
  <2> HIDE DEF a, b
  <2> QED
    BY <2>1, <2>2
<1>10. <<x>> \in Seq(T) /\ ToSet(<<x>>) = {x} /\ IsInjective(<<x>>) /\ Ascending(<<x>>, key)
  <2>1. <<x>> \in Seq(T) /\ DOMAIN <<x>> = {1} /\ <<x>>[1] = x
    OBVIOUS
  <2>2. ToSet(<<x>>) = {x}
    BY <2>1 DEF ToSet
  <2> QED
    BY <2>1, <2>2 DEF IsInjective, Ascending
<1> HIDE DEF a, b
<1>11. /\ c \in Seq(T) /\ ToSet(c) = low \cup {x}
       /\ IsInjective(t) /\ x \notin ToSet(t) => IsInjective(c)
       /\ Ascending(t, key) => Ascending(c, key)
  <2> DEFINE one == <<x>>
  <2>1. one \in Seq(T) /\ ToSet(one) = {x} /\ IsInjective(one) /\ Ascending(one, key) /\ c = a \o one
    BY <1>10
  <2> HIDE DEF one, c
  <2>2. /\ a \o one \in Seq(T) /\ ToSet(a \o one) = ToSet(a) \cup ToSet(one)
        /\ IsInjective(a) /\ IsInjective(one) /\ ToSet(a) \cap ToSet(one) = {} => IsInjective(a \o one)
        /\ Ascending(a, key) /\ Ascending(one, key)
           /\ (\A y \in ToSet(a), z \in ToSet(one) : key[y] <= key[z]) => Ascending(a \o one, key)
    BY <1>8, <2>1, Joined
  <2>3. \A y \in ToSet(a), z \in ToSet(one) : key[y] <= key[z]
    BY <1>4, <1>8, <2>1
  <2>4. x \notin ToSet(t) => ToSet(a) \cap ToSet(one) = {}
    BY <1>6, <1>8, <2>1
  <2> QED
    BY <1>8, <2>1, <2>2, <2>3, <2>4
<1> HIDE DEF c
<1>12. /\ c \o b \in Seq(T) /\ ToSet(c \o b) = ToSet(c) \cup ToSet(b)
       /\ IsInjective(c) /\ IsInjective(b) /\ ToSet(c) \cap ToSet(b) = {} => IsInjective(c \o b)
       /\ Ascending(c, key) /\ Ascending(b, key)
          /\ (\A y \in ToSet(c), z \in ToSet(b) : key[y] <= key[z]) => Ascending(c \o b, key)
  BY <1>9, <1>11, Joined
<1>13. \A y \in ToSet(c), z \in ToSet(b) : key[y] <= key[z]
  BY <1>3, <1>5, <1>9, <1>11
<1>14. x \notin ToSet(t) => ToSet(c) \cap ToSet(b) = {}
  BY <1>2, <1>6, <1>9, <1>11
<1>15. ToSet(c) \cup ToSet(b) = ToSet(t) \cup {x}
  BY <1>2, <1>9, <1>11
<1> QED
  BY <1>7, <1>9, <1>11, <1>12, <1>13, <1>14, <1>15

IsRanking(ranked, s, key, I) ==
  ranked = [t \in SUBSET I |->
              IF t = {} THEN <<>> ELSE Inserted(ranked[t \ {Max(t)}], s[Max(t)], key)]

LEMMA RankedIsRanking ==
  ASSUME NEW s, NEW key
  PROVE  Ranked(s, key) = (CHOOSE ranked : IsRanking(ranked, s, key, DOMAIN s))[DOMAIN s]
  BY DEF Ranked, FoldLeft, MapThenFoldSet, IsRanking

InsertStep(x, key, T) == [t \in Seq(T) |-> Inserted(t, x, key)]

LEMMA RankedSteps ==
  ASSUME NEW T, NEW s \in Seq(T), NEW key, \A y \in T : key[y] \in Int
  PROVE  \E ranked : /\ StepsAlong(ranked, [i \in 1 .. Len(s) |-> InsertStep(s[i], key, T)], <<>>, Seq(T), Len(s))
                     /\ Ranked(s, key) = ranked[1 .. Len(s)]
<1> DEFINE n == Len(s)
           I == 1 .. n
           V == Seq(T)
           next == [i \in I |-> InsertStep(s[i], key, T)]
           ranked == CHOOSE r : IsRanking(r, s, key, I)
<1>1. n \in Nat /\ DOMAIN s = I /\ \A i \in I : s[i] \in T
  OBVIOUS
<1>2. I \in SUBSET Int /\ IsFiniteSet(I)
  BY <1>1, FS_Interval
<1>3. \A i \in I, t \in V : Inserted(t, s[i], key) \in V
  <2> HIDE DEF I
  <2> QED
    BY <1>1, InsertedStaysAscending
<1>4. <<>> \in V /\ next \in [I -> [V -> V]]
  BY <1>3 DEF InsertStep
<1>5. \A i \in I, t \in V : next[i][t] = Inserted(t, s[i], key)
  BY DEF InsertStep
<1> HIDE DEF V, next, n
<1>6. PICK r : StaysInside(r, next, <<>>, V, I)
  BY <1>2, <1>4, FoldInside
<1>7. \A t \in (SUBSET I) \ {{}} : Max(t) \in I
  BY <1>6 DEF StaysInside
<1>8. ASSUME NEW t \in SUBSET I
      PROVE  r[t] = IF t = {} THEN <<>> ELSE Inserted(r[t \ {Max(t)}], s[Max(t)], key)
  <2>1. CASE t = {}
    BY <1>6, <2>1 DEF StaysInside
  <2>2. CASE t # {}
    <3>1. Max(t) \in I /\ r[t] = next[Max(t)][r[t \ {Max(t)}]] /\ r[t \ {Max(t)}] \in V
      BY <1>6, <2>2 DEF StaysInside
    <3> QED
      BY <1>5, <2>2, <3>1
  <2> QED
    BY <2>1, <2>2
<1>9. IsRanking(r, s, key, I)
  <2>1. r = [t \in SUBSET I |-> r[t]]
    BY <1>6 DEF StaysInside
  <2>2. r = [t \in SUBSET I |-> IF t = {} THEN <<>> ELSE Inserted(r[t \ {Max(t)}], s[Max(t)], key)]
    BY <1>8, <2>1
  <2> QED
    BY <2>2, Zenon DEF IsRanking
<1>10. IsRanking(ranked, s, key, I)
  BY <1>9
<1> HIDE DEF ranked
<1>11. \A t \in SUBSET I :
         ranked[t] = IF t = {} THEN <<>> ELSE Inserted(ranked[t \ {Max(t)}], s[Max(t)], key)
  <2> HIDE DEF I
  <2> QED
    BY <1>10 DEF IsRanking
<1>12. \A t \in SUBSET I : t = {} => ranked[t] = <<>>
  BY <1>11
<1>13. \A t \in SUBSET I :
         t # {} /\ ranked[t \ {Max(t)}] \in V => ranked[t] = next[Max(t)][ranked[t \ {Max(t)}]]
  BY <1>5, <1>7, <1>11
<1>14. n \in Nat
  BY <1>1
<1>15. StepsAlong(ranked, next, <<>>, V, n)
  BY <1>4, <1>12, <1>13, <1>14, StepsFromFold
<1>16. Ranked(s, key) = ranked[I]
  BY <1>1, RankedIsRanking DEF ranked
<1> QED
  BY <1>15, <1>16 DEF next, V, n

(* What was put in order: the same elements, the smaller keys first.       *)
LEMMA RankedIsAscending ==
  ASSUME NEW T, NEW s \in Seq(T), NEW key, \A y \in T : key[y] \in Int
  PROVE  /\ Ranked(s, key) \in Seq(T)
         /\ ToSet(Ranked(s, key)) = ToSet(s)
         /\ Ascending(Ranked(s, key), key)
         /\ IsInjective(s) => IsInjective(Ranked(s, key))
<1> DEFINE n == Len(s)
           next == [i \in 1 .. n |-> InsertStep(s[i], key, T)]
           firsts(k) == {s[i] : i \in 1 .. k}
           Good(t, k) == /\ ToSet(t) = firsts(k) /\ Ascending(t, key)
                         /\ IsInjective(s) => IsInjective(t)
<1>1. n \in Nat /\ DOMAIN s = 1 .. n /\ \A i \in 1 .. n : s[i] \in T
  OBVIOUS
<1>2. PICK ranked : StepsAlong(ranked, next, <<>>, Seq(T), n) /\ Ranked(s, key) = ranked[1 .. n]
  BY RankedSteps
<1>3. \A k \in 0 .. n : ranked[1 .. k] \in Seq(T)
  BY <1>2 DEF StepsAlong
<1>4. ASSUME NEW k \in 1 .. n
      PROVE  ranked[1 .. k] = Inserted(ranked[1 .. (k - 1)], s[k], key)
  <2>1. ranked[1 .. k] = next[k][ranked[1 .. (k - 1)]]
    <3> HIDE DEF next
    <3> QED
      BY <1>2 DEF StepsAlong
  <2>2. ranked[1 .. (k - 1)] \in Seq(T)
    BY <1>1, <1>3
  <2> QED
    BY <2>1, <2>2 DEF InsertStep
<1>5. Good(<<>>, 0)
  BY DEF ToSet, Ascending, IsInjective
<1>6. ASSUME NEW k \in 1 .. n, NEW t \in Seq(T), Good(t, k - 1)
      PROVE  Good(Inserted(t, s[k], key), k)
  <2> DEFINE u == Inserted(t, s[k], key)
  <2>1. s[k] \in T
    BY <1>1
  <2>2. /\ ToSet(u) = ToSet(t) \cup {s[k]}
        /\ Ascending(t, key) => Ascending(u, key)
        /\ IsInjective(t) /\ s[k] \notin ToSet(t) => IsInjective(u)
    BY <2>1, InsertedStaysAscending
  <2> HIDE DEF u
  <2>3. firsts(k) = firsts(k - 1) \cup {s[k]}
    <3>1. 1 .. k = (1 .. (k - 1)) \cup {k}
      BY <1>1
    <3> QED
      BY <3>1
  <2>4. IsInjective(s) => s[k] \notin firsts(k - 1)
    BY <1>1 DEF IsInjective
  <2> HIDE DEF firsts
  <2> QED
    BY <1>6, <2>2, <2>3, <2>4 DEF u
<1> HIDE DEF Good
<1> DEFINE Bad == {k \in 0 .. n : ~Good(ranked[1 .. k], k)}
<1>7. Bad = {}
  <2> SUFFICES ASSUME Bad # {} PROVE FALSE
    OBVIOUS
  <2>1. PICK k \in Bad : \A m \in Bad : k <= m
    <3>1. Bad \in SUBSET Nat
      BY <1>1
    <3> HIDE DEF Bad
    <3> QED
      BY <3>1, SmallestExists
  <2>2. k \in 0 .. n /\ ~Good(ranked[1 .. k], k)
    BY <2>1
  <2>3. k # 0
    <3>1. ranked[1 .. 0] = <<>>
      BY <1>2 DEF StepsAlong
    <3> QED
      BY <1>5, <2>2, <3>1
  <2>4. k \in 1 .. n /\ k - 1 \in 0 .. n
    BY <1>1, <2>2, <2>3
  <2>5. k - 1 \notin Bad
    BY <1>1, <2>1, <2>4
  <2>6. Good(ranked[1 .. (k - 1)], k - 1) /\ ranked[1 .. (k - 1)] \in Seq(T)
    BY <1>3, <2>4, <2>5
  <2>7. Good(ranked[1 .. k], k)
    BY <1>4, <1>6, <2>4, <2>6
  <2> QED
    BY <2>2, <2>7
<1>8. Good(ranked[1 .. n], n)
  BY <1>1, <1>7
<1>9. firsts(n) = ToSet(s)
  BY <1>1 DEF ToSet
<1> HIDE DEF firsts
<1> QED
  BY <1>1, <1>2, <1>3, <1>8, <1>9 DEF Good

-----------------------------------------------------------------------------
(* The votes of a result.                                                  *)

(* Where a gauge is found, if it is.                                       *)
LEMMA IndexIsFirst ==
  ASSUME NEW T, NEW rs \in Seq(T), NEW g
  PROVE  /\ IndexOf(g, rs) \in 0 .. Len(rs)
         /\ IndexOf(g, rs) = 0 => \A i \in DOMAIN rs : rs[i].gauge # g
         /\ IndexOf(g, rs) # 0 => /\ IndexOf(g, rs) \in DOMAIN rs
                                  /\ rs[IndexOf(g, rs)].gauge = g
<1> DEFINE I == {i \in 1 .. Len(rs) : rs[i].gauge = g}
<1>1. IndexOf(g, rs) = IF I # {} THEN Min(I) ELSE 0
  BY DEF IndexOf, SelectInSeq
<1>2. DOMAIN rs = 1 .. Len(rs) /\ Len(rs) \in Nat
  OBVIOUS
<1>3. I \in SUBSET Nat
  BY <1>2
<1>4. I # {} => Min(I) \in I
  <2> HIDE DEF I
  <2> SUFFICES ASSUME I # {} PROVE Min(I) \in I
    OBVIOUS
  <2>1. \E m \in I : \A n \in I : m <= n
    BY <1>3, SmallestExists
  <2> QED
    BY <2>1 DEF Min
<1>5. CASE I = {}
  <2>1. IndexOf(g, rs) = 0
    BY <1>1, <1>5
  <2>2. \A i \in DOMAIN rs : rs[i].gauge # g
    BY <1>2, <1>5
  <2> QED
    BY <1>2, <2>1, <2>2
<1>6. CASE I # {}
  <2>1. IndexOf(g, rs) \in I
    BY <1>1, <1>4, <1>6
  <2>2. IndexOf(g, rs) \in 1 .. Len(rs) /\ rs[IndexOf(g, rs)].gauge = g
    BY <2>1
  <2> QED
    BY <1>2, <2>2
<1> QED
  BY <1>5, <1>6

(* The weights share out TotalVotes: none is negative, and a better choice *)
(* gets no less.                                                           *)
LEMMA WeightsAreShares ==
  ASSUME NEW R, \A r \in R : r.score \in Nat \ {0}, NEW ranked \in Seq(R), ranked # <<>>
  PROVE  /\ Weights(ranked) \in [DOMAIN ranked -> Nat]
         /\ \A i, j \in DOMAIN ranked :
              i < j /\ ranked[i].score >= ranked[j].score => Weights(ranked)[j] <= Weights(ranked)[i]
<1> DEFINE I == DOMAIN ranked
           score == [i \in I |-> ranked[i].score]
           total == SumFunction(score)
           rounded == [i \in I |-> (TotalVotes * ranked[i].score) \div total]
           scaled == [i \in I |-> ranked[i].score * TotalVotes]
           given == SumFunction(rounded)
<1>1. /\ I = 1 .. Len(ranked) /\ Len(ranked) \in Nat \ {0} /\ 1 \in I
      /\ \A i \in I : ranked[i].score \in Nat \ {0}
  <2>1. Len(ranked) \in Nat /\ I = 1 .. Len(ranked) /\ \A i \in I : ranked[i] \in R
    OBVIOUS
  <2>2. Len(ranked) # 0
    OBVIOUS
  <2> QED
    BY <2>1, <2>2
<1>2. IsFiniteSet(I)
  BY <1>1, FS_Interval
<1>3. TotalVotes \in Nat \ {0}
  BY GaugeAssumption
<1>4. \A i \in I : score[i] \in Nat /\ score[i] = ranked[i].score
  BY <1>1
<1>5. total = SumFunctionOnSet(score, I) /\ given = SumFunctionOnSet(rounded, I)
  BY DEF SumFunction
<1> HIDE DEF score, given
<1>6. total \in Nat \ {0}
  <2>1. SumFunctionOnSet(score, I) \in Nat
    BY <1>2, <1>4, SumIsNat
  <2>2. score[1] <= SumFunctionOnSet(score, I)
    BY <1>1, <1>2, <1>4, SumCoversEach
  <2> QED
    BY <1>1, <1>4, <1>5, <2>1, <2>2
<1> HIDE DEF total
<1>7. ASSUME NEW i \in I
      PROVE  /\ rounded[i] \in Nat /\ rounded[i] * total <= TotalVotes * ranked[i].score
             /\ TotalVotes * ranked[i].score = scaled[i] /\ scaled[i] \in Nat
             /\ scaled[i] = score[i] * TotalVotes
  <2> DEFINE a == TotalVotes * ranked[i].score
  <2>1. ranked[i].score \in Nat
    BY <1>1
  <2>2. a \in Nat /\ rounded[i] = a \div total
    BY <1>3, <2>1, ProductIsNat
  <2>3. a = ranked[i].score * TotalVotes
    BY <1>3, <2>1
  <2> HIDE DEF a
  <2>4. a \div total \in Nat /\ (a \div total) * total <= a
    BY <1>6, <2>2, DivIsFloor
  <2>5. scaled[i] = ranked[i].score * TotalVotes /\ score[i] = ranked[i].score
    BY <1>4
  <2> QED
    BY <2>2, <2>3, <2>4, <2>5 DEF a
<1> HIDE DEF rounded, scaled
<1>8. given \in Nat /\ given <= TotalVotes
  <2>1. SumFunctionOnSet(scaled, I) = SumFunctionOnSet(score, I) * TotalVotes
    BY <1>2, <1>3, <1>4, <1>7, SumScales
  <2>2. \A i \in I : rounded[i] \in Nat /\ scaled[i] \in Nat /\ rounded[i] * total <= scaled[i]
    BY <1>7
  <2>3. /\ SumFunctionOnSet(rounded, I) \in Nat
        /\ SumFunctionOnSet(rounded, I) * total <= SumFunctionOnSet(scaled, I)
    BY <1>2, <1>6, <2>2, SumOfFloors
  <2>4. given * total <= TotalVotes * total
    BY <1>3, <1>5, <1>6, <2>1, <2>3
  <2>5. given \in Nat
    BY <1>5, <2>3
  <2> QED
    BY <1>3, <1>6, <2>4, <2>5, ProductCancels
<1>9. Weights(ranked) = [i \in I |-> rounded[i] + IF i = 1 THEN TotalVotes - given ELSE 0]
  BY DEF Weights, rounded, given, total, score
<1> DEFINE w == Weights(ranked)
<1>10. \A i \in I : w[i] = rounded[i] + (IF i = 1 THEN TotalVotes - given ELSE 0)
  BY <1>9
<1>11. \A i \in I : w[i] \in Nat /\ rounded[i] <= w[i]
  BY <1>3, <1>7, <1>8, <1>10
<1>12. w \in [I -> Nat]
  <2>1. w = [i \in I |-> w[i]]
    BY <1>9
  <2> HIDE DEF w
  <2> QED
    BY <1>11, <2>1
<1>13. ASSUME NEW i \in I, NEW j \in I, i < j, ranked[i].score >= ranked[j].score
       PROVE  w[j] <= w[i]
  <2>1. w[j] = rounded[j] /\ rounded[i] <= w[i] /\ w[i] \in Nat
    BY <1>1, <1>7, <1>10, <1>11, <1>13
  <2>2. rounded[j] <= rounded[i]
    <3> DEFINE a == TotalVotes * ranked[i].score
               b == TotalVotes * ranked[j].score
    <3>1. ranked[i].score \in Nat /\ ranked[j].score \in Nat
      BY <1>1
    <3>2. b <= a
      <4>1. ranked[j].score * TotalVotes <= ranked[i].score * TotalVotes
        BY <1>3, <1>13, <3>1, ProductIsMonotone
      <4> QED
        BY <1>7, <4>1, <3>1, <1>3
    <3>3. a \in Nat /\ b \in Nat
      BY <1>3, <3>1, ProductIsNat
    <3>4. rounded[i] = a \div total /\ rounded[j] = b \div total
      BY DEF rounded
    <3>5. rounded[j] \in Nat /\ rounded[j] * total <= b
      BY <1>7
    <3> HIDE DEF a, b
    <3>6. rounded[j] * total \in Nat
      BY <1>6, <3>5, ProductIsNat
    <3>7. rounded[j] * total <= a
      BY <3>2, <3>3, <3>5, <3>6
    <3> QED
      BY <1>6, <3>3, <3>4, <3>5, <3>7, DivIsLargest
  <2>3. rounded[i] \in Nat /\ rounded[j] \in Nat
    BY <1>7
  <2> QED
    BY <2>1, <2>2, <2>3
<1> HIDE DEF w
<1>14. \A i, j \in I : i < j /\ ranked[i].score >= ranked[j].score => w[j] <= w[i]
  BY <1>13
<1> QED
  BY <1>12, <1>14 DEF w

Votes == [gauge : Gauges, delta : Int, weight : Nat]

(* Each gauge is voted for once.                                           *)
EachOnce(cast) == \A i, j \in DOMAIN cast : cast[i].gauge = cast[j].gauge => i = j

(* What VotesFor makes of the choices: a vote for each gauge that is       *)
(* listed and has, or had, votes; a weight is that of a choice.            *)
AreVotesFor(vs, ranked, weights, power) ==
  /\ vs \in Seq(Votes) /\ EachOnce(vs)
  /\ \A v \in ToSet(vs) :
       /\ v.gauge \in ListedGauges /\ status[v.gauge] # "unlisted"
       /\ v.weight # 0 => v.delta = v.weight - power[v.gauge]
       /\ v.weight # 0 => \E i \in DOMAIN ranked : v.gauge = ranked[i].gauge /\ v.weight = weights[i]
  /\ \A g \in ListedGauges : status[g] # "unlisted" =>
       /\ power[g] > 0 => \E v \in ToSet(vs) : v.gauge = g
       /\ \A i \in DOMAIN ranked : ranked[i].gauge = g =>
            \E v \in ToSet(vs) : \E j \in DOMAIN ranked :
              v.gauge = g /\ ranked[j].gauge = g /\ v.weight = weights[j]

LEMMA VotesForAre ==
  ASSUME NEW R, NEW ranked \in Seq(R), NEW weights \in [DOMAIN ranked -> Nat], NEW power \in [Gauges -> Nat]
  PROVE  AreVotesFor(VotesFor(ranked, weights, power), ranked, weights, power)
<1> DEFINE Index(g) == IndexOf(g, ranked)
           concerned == {g \in ListedGauges : status[g] # "unlisted" /\ (Index(g) # 0 \/ power[g] > 0)}
           listed == Kept(VotingList, concerned)
           vote(g) == IF Index(g) # 0
                      THEN [gauge |-> g, delta |-> weights[Index(g)] - power[g], weight |-> weights[Index(g)]]
                      ELSE [gauge |-> g, delta |-> power[g], weight |-> 0]
           vs == VotesFor(ranked, weights, power)
<1>1. ListedGauges \subseteq Gauges /\ IsInjective(VotingList) /\ ToSet(VotingList) = ListedGauges
  BY RoundAssumption, SnapshotAssumption DEF ListedGauges
<1>2. VotingList \in Seq(ListedGauges)
  BY SnapshotAssumption
<1>3. /\ listed \in Seq(ListedGauges) /\ ToSet(listed) = ListedGauges \cap concerned
      /\ IsInjective(listed)
  BY <1>1, <1>2, KeptKeeps
<1>4. \A g : /\ Index(g) # 0 => Index(g) \in DOMAIN ranked /\ ranked[Index(g)].gauge = g
             /\ Index(g) = 0 => \A i \in DOMAIN ranked : ranked[i].gauge # g
  BY IndexIsFirst
<1>5. vs = [k \in DOMAIN listed |-> vote(listed[k])]
  BY DEF VotesFor
<1>6. \A g \in ToSet(listed) : g \in ListedGauges /\ status[g] # "unlisted" /\ (Index(g) # 0 \/ power[g] > 0)
  BY <1>3
<1>7. \A g \in ListedGauges : status[g] # "unlisted" /\ (Index(g) # 0 \/ power[g] > 0) => g \in ToSet(listed)
  BY <1>3
<1> HIDE DEF Index, listed, concerned, vs
<1>8. ASSUME NEW g \in Gauges
      PROVE  /\ vote(g) \in Votes /\ vote(g).gauge = g
             /\ Index(g) # 0 => vote(g).weight = weights[Index(g)] /\ vote(g).delta = vote(g).weight - power[g]
             /\ Index(g) = 0 => vote(g).weight = 0
  BY <1>4 DEF Votes
<1> HIDE DEF vote
<1>9. DOMAIN listed = 1 .. Len(listed) /\ Len(listed) \in Nat
  BY <1>3
<1>10. \A k \in DOMAIN listed : vs[k] = vote(listed[k]) /\ listed[k] \in ToSet(listed) /\ listed[k] \in Gauges
  BY <1>1, <1>3, <1>5 DEF ToSet
<1>11. vs \in Seq(Votes) /\ DOMAIN vs = DOMAIN listed
  <2>1. vs \in [1 .. Len(listed) -> Votes]
    BY <1>5, <1>8, <1>9, <1>10
  <2> QED
    BY <1>9, <2>1
<1>12. EachOnce(vs)
  BY <1>3, <1>8, <1>10, <1>11 DEF EachOnce, IsInjective
<1>13. \A v \in ToSet(vs) : \E g \in ToSet(listed) : v = vote(g)
  BY <1>10, <1>11 DEF ToSet
<1>14. \A g \in ToSet(listed) : vote(g) \in ToSet(vs)
  BY <1>10, <1>11 DEF ToSet
<1>15. ASSUME NEW v \in ToSet(vs)
       PROVE  /\ v.gauge \in ListedGauges /\ status[v.gauge] # "unlisted"
              /\ v.weight # 0 => v.delta = v.weight - power[v.gauge]
              /\ v.weight # 0 => \E i \in DOMAIN ranked : v.gauge = ranked[i].gauge /\ v.weight = weights[i]
  <2>1. PICK g \in ToSet(listed) : v = vote(g)
    BY <1>13
  <2>2. g \in ListedGauges /\ g \in Gauges /\ status[g] # "unlisted"
    BY <1>1, <1>6, <2>1
  <2>3. v.gauge = g
    BY <1>8, <2>1, <2>2
  <2>4. ASSUME v.weight # 0
        PROVE  /\ v.delta = v.weight - power[g]
               /\ \E i \in DOMAIN ranked : g = ranked[i].gauge /\ v.weight = weights[i]
    <3>1. Index(g) # 0 /\ v.weight = weights[Index(g)] /\ v.delta = v.weight - power[g]
      BY <1>8, <2>1, <2>2, <2>4
    <3> QED
      BY <1>4, <3>1
  <2> QED
    BY <2>2, <2>3, <2>4
<1>16. ASSUME NEW g \in ListedGauges, status[g] # "unlisted"
       PROVE  /\ power[g] > 0 => \E v \in ToSet(vs) : v.gauge = g
              /\ \A i \in DOMAIN ranked : ranked[i].gauge = g =>
                   \E v \in ToSet(vs) : \E j \in DOMAIN ranked :
                     v.gauge = g /\ ranked[j].gauge = g /\ v.weight = weights[j]
  <2>1. g \in Gauges
    BY <1>1
  <2>2. ASSUME power[g] > 0 PROVE \E v \in ToSet(vs) : v.gauge = g
    BY <1>7, <1>8, <1>14, <1>16, <2>1, <2>2
  <2>3. ASSUME NEW i \in DOMAIN ranked, ranked[i].gauge = g
        PROVE  \E v \in ToSet(vs) : \E j \in DOMAIN ranked :
                 v.gauge = g /\ ranked[j].gauge = g /\ v.weight = weights[j]
    <3>1. Index(g) # 0 /\ Index(g) \in DOMAIN ranked /\ ranked[Index(g)].gauge = g
      BY <1>4, <2>3
    <3>2. vote(g) \in ToSet(vs) /\ vote(g).gauge = g /\ vote(g).weight = weights[Index(g)]
      BY <1>7, <1>8, <1>14, <1>16, <2>1, <3>1
    <3> QED
      BY <3>1, <3>2
  <2> QED
    BY <2>2, <2>3
<1> QED
  BY <1>11, <1>12, <1>15, <1>16 DEF AreVotesFor, vs

(* The order of the result: the same votes, first those without weight,    *)
(* then by delta.                                                          *)
ByDelta(cast) ==
  \A i, j \in DOMAIN cast :
    i < j /\ cast[i].weight # 0 => cast[j].weight # 0 /\ cast[i].delta <= cast[j].delta

LEMMA OrderedIsByDelta ==
  ASSUME NEW vs \in Seq(Votes), EachOnce(vs)
  PROVE  /\ Ordered(vs) \in Seq(Votes) /\ ToSet(Ordered(vs)) = ToSet(vs)
         /\ EachOnce(Ordered(vs)) /\ ByDelta(Ordered(vs))
<1> DEFINE T == ToSet(vs)
           key == [v \in T |-> v.delta]
           zero == {v \in T : v.weight = 0}
           sorted == Ranked(vs, key)
           a == Kept(sorted, zero)
           b == Kept(sorted, T \ zero)
           o == a \o b
<1>1. /\ DOMAIN vs = 1 .. Len(vs) /\ Len(vs) \in Nat
      /\ \A i \in DOMAIN vs : vs[i] \in Votes
  OBVIOUS
<1>2. T \subseteq Votes /\ vs \in Seq(T)
  BY <1>1 DEF ToSet
<1>3. \A v \in T : key[v] = v.delta /\ key[v] \in Int
  BY <1>2 DEF Votes
<1>4. IsInjective(vs)
  BY DEF EachOnce, IsInjective
<1>5. \A v, w \in T : v.gauge = w.gauge => v = w
  BY DEF EachOnce, ToSet
<1>6. Ordered(vs) = o
  BY DEF Ordered
<1>7. zero \subseteq T
  OBVIOUS
<1> HIDE DEF T, key, zero
<1>8. sorted \in Seq(T) /\ ToSet(sorted) = T /\ Ascending(sorted, key) /\ IsInjective(sorted)
  <2>1. /\ sorted \in Seq(T) /\ ToSet(sorted) = ToSet(vs) /\ Ascending(sorted, key)
        /\ IsInjective(vs) => IsInjective(sorted)
    BY <1>2, <1>3, RankedIsAscending
  <2> QED
    BY <1>4, <2>1 DEF T
<1> HIDE DEF sorted
<1>9. a \in Seq(T) /\ ToSet(a) = zero /\ Ascending(a, key) /\ IsInjective(a)
  <2>1. /\ a \in Seq(T) /\ ToSet(a) = ToSet(sorted) \cap zero
        /\ IsInjective(sorted) => IsInjective(a)
        /\ \A k : Ascending(sorted, k) => Ascending(a, k)
    BY <1>8, KeptKeeps
  <2>2. ToSet(sorted) \cap zero = zero
    BY <1>7, <1>8
  <2> HIDE DEF a
  <2> QED
    BY <1>8, <2>1, <2>2
<1>10. b \in Seq(T) /\ ToSet(b) = T \ zero /\ Ascending(b, key) /\ IsInjective(b)
  <2>1. /\ b \in Seq(T) /\ ToSet(b) = ToSet(sorted) \cap (T \ zero)
        /\ IsInjective(sorted) => IsInjective(b)
        /\ \A k : Ascending(sorted, k) => Ascending(b, k)
    BY <1>8, KeptKeeps
  <2>2. ToSet(sorted) \cap (T \ zero) = T \ zero
    BY <1>8
  <2> HIDE DEF b
  <2> QED
    BY <1>8, <2>1, <2>2
<1> HIDE DEF a, b
<1>11. o \in Seq(T) /\ ToSet(o) = T /\ IsInjective(o)
  <2>1. /\ o \in Seq(T) /\ ToSet(o) = ToSet(a) \cup ToSet(b)
        /\ IsInjective(a) /\ IsInjective(b) /\ ToSet(a) \cap ToSet(b) = {} => IsInjective(o)
    BY <1>9, <1>10, Joined
  <2>2. ToSet(a) \cup ToSet(b) = T /\ ToSet(a) \cap ToSet(b) = {}
    BY <1>7, <1>9, <1>10
  <2> HIDE DEF o
  <2> QED
    BY <1>9, <1>10, <2>1, <2>2
<1>12. /\ Len(a) \in Nat /\ DOMAIN a = 1 .. Len(a) /\ Len(b) \in Nat /\ DOMAIN b = 1 .. Len(b)
       /\ DOMAIN o = 1 .. (Len(a) + Len(b))
       /\ \A i \in 1 .. Len(a) : o[i] = a[i]
       /\ \A i \in (Len(a) + 1) .. (Len(a) + Len(b)) : o[i] = b[i - Len(a)] /\ i - Len(a) \in 1 .. Len(b)
  BY <1>9, <1>10
<1>13. \A i \in DOMAIN a : a[i] \in T /\ a[i].weight = 0
  BY <1>7, <1>9 DEF ToSet, zero
<1>14. \A i \in DOMAIN b : b[i] \in T /\ b[i].weight # 0 /\ key[b[i]] = b[i].delta
  BY <1>3, <1>10 DEF ToSet, zero
<1>15. ByDelta(o)
  <2>1. ASSUME NEW i \in DOMAIN o, NEW j \in DOMAIN o, i < j, o[i].weight # 0
        PROVE  o[j].weight # 0 /\ o[i].delta <= o[j].delta
    <3>1. i \notin 1 .. Len(a)
      BY <1>12, <1>13, <2>1
    <3>2. i \in (Len(a) + 1) .. (Len(a) + Len(b)) /\ j \in (Len(a) + 1) .. (Len(a) + Len(b))
      BY <1>12, <2>1, <3>1
    <3>3. /\ o[i] = b[i - Len(a)] /\ o[j] = b[j - Len(a)]
          /\ i - Len(a) \in DOMAIN b /\ j - Len(a) \in DOMAIN b /\ i - Len(a) < j - Len(a)
      BY <1>12, <2>1, <3>2
    <3>4. key[b[i - Len(a)]] <= key[b[j - Len(a)]]
      BY <1>10, <3>3 DEF Ascending
    <3> QED
      BY <1>14, <3>3, <3>4
  <2> HIDE DEF o
  <2> QED
    BY <2>1 DEF ByDelta
<1> HIDE DEF o
<1>16. DOMAIN o = 1 .. Len(o) /\ \A i \in DOMAIN o : o[i] \in T
  BY <1>11
<1>17. EachOnce(o)
  BY <1>5, <1>11, <1>16 DEF EachOnce, IsInjective
<1>18. o \in Seq(Votes)
  BY <1>2, <1>11, <1>16
<1> QED
  BY <1>6, <1>11, <1>15, <1>17, <1>18 DEF T

-----------------------------------------------------------------------------
(* Casting the votes of a result.                                          *)

(* The power of the gauges once the first k votes have been cast.          *)
After(cast, power, k) ==
  [g \in Gauges |-> IF \E i \in 1 .. k : cast[i].gauge = g
                    THEN cast[CHOOSE i \in 1 .. k : cast[i].gauge = g].weight
                    ELSE power[g]]

(* At no point more power is in use than there is.                         *)
Fits(cast, power) ==
  \A k \in 0 .. Len(cast) : SumFunctionOnSet(After(cast, power, k), Gauges) <= TotalVotes

Castable(cast, power) ==
  /\ cast \in Seq(Votes) /\ EachOnce(cast) /\ power \in [Gauges -> Nat]
  /\ Fits(cast, power)

LEMMA AfterIs ==
  ASSUME NEW cast \in Seq(Votes), EachOnce(cast), NEW power \in [Gauges -> Nat], NEW k \in 0 .. Len(cast)
  PROVE  /\ After(cast, power, k) \in [Gauges -> Nat]
         /\ \A i \in 1 .. k : cast[i].gauge \in Gauges /\ After(cast, power, k)[cast[i].gauge] = cast[i].weight
         /\ \A g \in Gauges : (\A i \in 1 .. k : cast[i].gauge # g) => After(cast, power, k)[g] = power[g]
<1> DEFINE p == After(cast, power, k)
<1>1. \A i \in 1 .. k : i \in DOMAIN cast /\ cast[i].gauge \in Gauges /\ cast[i].weight \in Nat
  <2>1. \A i \in 1 .. k : i \in DOMAIN cast /\ cast[i] \in Votes
    OBVIOUS
  <2> QED
    BY <2>1 DEF Votes
<1>2. ASSUME NEW i \in 1 .. k
      PROVE  p[cast[i].gauge] = cast[i].weight
  <2> DEFINE g == cast[i].gauge
             j == CHOOSE m \in 1 .. k : cast[m].gauge = g
  <2>1. g \in Gauges /\ i \in DOMAIN cast
    BY <1>1
  <2>2. p[g] = cast[j].weight
    BY <2>1 DEF After
  <2>3. j \in 1 .. k /\ cast[j].gauge = g
    OBVIOUS
  <2> HIDE DEF j
  <2>4. j = i
    BY <1>1, <2>1, <2>3 DEF EachOnce
  <2> QED
    BY <2>2, <2>4
<1>3. \A g \in Gauges : (\A i \in 1 .. k : cast[i].gauge # g) => p[g] = power[g]
  BY DEF After
<1>4. p = [g \in Gauges |-> p[g]]
  BY DEF After
<1> HIDE DEF p
<1>5. \A g \in Gauges : p[g] \in Nat
  BY <1>1, <1>2, <1>3
<1>6. p \in [Gauges -> Nat]
  BY <1>4, <1>5
<1> QED
  BY <1>1, <1>2, <1>3, <1>6 DEF p

(* One vote more.                                                          *)
LEMMA AfterOneMore ==
  ASSUME NEW cast \in Seq(Votes), EachOnce(cast), NEW power \in [Gauges -> Nat]
  PROVE  /\ After(cast, power, 0) = power
         /\ \A k \in 1 .. Len(cast) :
              After(cast, power, k) = [After(cast, power, k - 1) EXCEPT ![cast[k].gauge] = cast[k].weight]
<1> DEFINE p(k) == After(cast, power, k)
<1>1. Len(cast) \in Nat /\ DOMAIN cast = 1 .. Len(cast)
  OBVIOUS
<1>2. \A k \in 0 .. Len(cast) :
        /\ p(k) \in [Gauges -> Nat]
        /\ \A i \in 1 .. k : cast[i].gauge \in Gauges /\ p(k)[cast[i].gauge] = cast[i].weight
        /\ \A g \in Gauges : (\A i \in 1 .. k : cast[i].gauge # g) => p(k)[g] = power[g]
  BY AfterIs
<1> HIDE DEF p
<1>3. p(0) = power
  BY <1>1, <1>2
<1>4. ASSUME NEW k \in 1 .. Len(cast)
      PROVE  p(k) = [p(k - 1) EXCEPT ![cast[k].gauge] = cast[k].weight]
  <2> DEFINE q == [p(k - 1) EXCEPT ![cast[k].gauge] = cast[k].weight]
             c == cast[k].gauge
  <2>1. k - 1 \in 0 .. Len(cast) /\ k \in 0 .. Len(cast) /\ \A i \in 1 .. (k - 1) : i \in 1 .. k
    BY <1>1
  <2>2. p(k) \in [Gauges -> Nat] /\ p(k - 1) \in [Gauges -> Nat] /\ c \in Gauges /\ p(k)[c] = cast[k].weight
    BY <1>2, <2>1
  <2>3. ASSUME NEW g \in Gauges, g # c PROVE p(k)[g] = p(k - 1)[g]
    <3>1. CASE \E i \in 1 .. (k - 1) : cast[i].gauge = g
      BY <1>2, <2>1, <3>1
    <3>2. CASE \A i \in 1 .. (k - 1) : cast[i].gauge # g
      <4>1. \A i \in 1 .. k : i = k \/ i \in 1 .. (k - 1)
        BY <1>1
      <4>2. \A i \in 1 .. k : cast[i].gauge # g
        BY <2>3, <3>2, <4>1
      <4> QED
        BY <1>2, <2>1, <3>2, <4>2
    <3> QED
      BY <3>1, <3>2
  <2>4. \A g \in Gauges : p(k)[g] = q[g]
    BY <2>2, <2>3
  <2> QED
    BY <2>2, <2>4
<1> QED
  BY <1>3, <1>4 DEF p

(* The votes that fit can be cast, to the last one.                        *)
LEMMA CastSteps ==
  ASSUME NEW chain \in ChainStates, NEW cast \in Seq(Votes)
  PROVE  \E run : /\ run[1 .. 0] = {chain} /\ CastVotes(chain, cast) = run[1 .. Len(cast)]
                  /\ \A k \in 1 .. Len(cast) : run[1 .. k] = Casts(run[1 .. (k - 1)], cast[k])
<1> DEFINE n == Len(cast)
           I == 1 .. n
           V == SUBSET ChainStates
           next == [i \in I |-> [S \in V |-> Casts(S, cast[i])]]
           run == CHOOSE r : IsCasting(r, chain, cast, I)
<1>1. n \in Nat /\ DOMAIN cast = I /\ \A i \in I : cast[i] \in Votes
  OBVIOUS
<1>2. I \in SUBSET Int /\ IsFiniteSet(I)
  BY <1>1, FS_Interval
<1>3. ASSUME NEW S \in V, NEW i \in I PROVE Casts(S, cast[i]) \in V
  <2>1. ASSUME NEW u \in Casts(S, cast[i]) PROVE u \in ChainStates
    <3>1. PICK w \in S : u = [w EXCEPT !.power[cast[i].gauge] = cast[i].weight]
      BY <2>1 DEF Casts, When
    <3> DEFINE power == [w.power EXCEPT ![cast[i].gauge] = cast[i].weight]
    <3>2. w \in ChainStates
      OBVIOUS
    <3>3. power \in [Gauges -> Nat] /\ u = [w EXCEPT !.power = power]
      BY <1>1, <3>1, <3>2 DEF ChainStates, Votes
    <3> HIDE DEF power
    <3> QED
      BY <3>2, <3>3 DEF ChainStates
  <2> QED
    BY <2>1
<1>4. {chain} \in V /\ next \in [I -> [V -> V]]
  BY <1>3
<1>5. \A i \in I, S \in V : next[i][S] = Casts(S, cast[i])
  OBVIOUS
<1> HIDE DEF V, next, n
<1>6. PICK r : StaysInside(r, next, {chain}, V, I)
  BY <1>2, <1>4, FoldInside
<1>7. \A s \in (SUBSET I) \ {{}} : Max(s) \in I
  BY <1>6 DEF StaysInside
<1>8. ASSUME NEW s \in SUBSET I
      PROVE  r[s] = IF s = {} THEN {chain} ELSE Casts(r[s \ {Max(s)}], cast[Max(s)])
  <2>1. CASE s = {}
    BY <1>6, <2>1 DEF StaysInside
  <2>2. CASE s # {}
    <3>1. Max(s) \in I /\ r[s] = next[Max(s)][r[s \ {Max(s)}]] /\ r[s \ {Max(s)}] \in V
      BY <1>6, <2>2 DEF StaysInside
    <3> QED
      BY <1>5, <2>2, <3>1
  <2> QED
    BY <2>1, <2>2
<1>9. IsCasting(r, chain, cast, I)
  <2>1. r = [s \in SUBSET I |-> r[s]]
    BY <1>6 DEF StaysInside
  <2>2. r = [s \in SUBSET I |-> IF s = {} THEN {chain} ELSE Casts(r[s \ {Max(s)}], cast[Max(s)])]
    BY <1>8, <2>1
  <2> QED
    BY <2>2, Zenon DEF IsCasting
<1>10. IsCasting(run, chain, cast, I)
  BY <1>9
<1> HIDE DEF run
<1>11. \A s \in SUBSET I : run[s] = IF s = {} THEN {chain} ELSE Casts(run[s \ {Max(s)}], cast[Max(s)])
  <2> HIDE DEF I
  <2> QED
    BY <1>10 DEF IsCasting
<1>12. \A s \in SUBSET I : s = {} => run[s] = {chain}
  BY <1>11
<1>13. \A s \in SUBSET I :
         s # {} /\ run[s \ {Max(s)}] \in V => run[s] = next[Max(s)][run[s \ {Max(s)}]]
  BY <1>5, <1>7, <1>11
<1>14. n \in Nat
  BY <1>1
<1>15. StepsAlong(run, next, {chain}, V, n)
  BY <1>4, <1>12, <1>13, <1>14, StepsFromFold
<1>16. CastVotes(chain, cast) = run[I]
  BY <1>1, CastVotesIsCasting DEF run
<1>17. ASSUME NEW k \in 1 .. n PROVE run[1 .. k] = Casts(run[1 .. (k - 1)], cast[k])
  <2>1. run[1 .. k] = next[k][run[1 .. (k - 1)]] /\ k - 1 \in 0 .. n
    BY <1>14, <1>15 DEF StepsAlong
  <2>2. run[1 .. (k - 1)] \in V
    BY <1>15, <2>1 DEF StepsAlong
  <2> QED
    BY <1>5, <2>1, <2>2
<1>18. run[1 .. 0] = {chain}
  BY <1>15 DEF StepsAlong
<1> QED
  BY <1>16, <1>17, <1>18 DEF n

LEMMA CastsWhenFits ==
  ASSUME NEW chain \in ChainStates, NEW cast, Castable(cast, chain.power)
  PROVE  CastVotes(chain, cast) = {[chain EXCEPT !.power = After(cast, chain.power, Len(cast))]}
<1> DEFINE n == Len(cast)
           p(k) == After(cast, chain.power, k)
           at(k) == [chain EXCEPT !.power = p(k)]
<1>1. /\ cast \in Seq(Votes) /\ EachOnce(cast) /\ chain.power \in [Gauges -> Nat]
      /\ n \in Nat /\ \A k \in 1 .. n : cast[k] \in Votes
  BY DEF Castable
<1>2. \A k \in 0 .. n : p(k) \in [Gauges -> Nat] /\ SumFunctionOnSet(p(k), Gauges) <= TotalVotes
  BY <1>1, AfterIs DEF Castable, Fits
<1>3. p(0) = chain.power /\ \A k \in 1 .. n : p(k) = [p(k - 1) EXCEPT ![cast[k].gauge] = cast[k].weight]
  BY <1>1, AfterOneMore
<1>4. PICK run : /\ run[1 .. 0] = {chain} /\ CastVotes(chain, cast) = run[1 .. n]
                 /\ \A k \in 1 .. n : run[1 .. k] = Casts(run[1 .. (k - 1)], cast[k])
  BY <1>1, CastSteps
<1> HIDE DEF p, n
<1>5. ASSUME NEW k \in 1 .. n PROVE Casts({at(k - 1)}, cast[k]) = {at(k)}
  <2> DEFINE g == cast[k].gauge
             w == cast[k].weight
             s == at(k - 1)
             old == p(k - 1)
             new == p(k)
  <2>1. g \in Gauges /\ w \in Nat /\ k - 1 \in 0 .. n /\ k \in 0 .. n
    BY <1>1 DEF Votes
  <2>2. old \in [Gauges -> Nat] /\ new \in [Gauges -> Nat] /\ new = [old EXCEPT ![g] = w]
    BY <1>2, <1>3, <2>1
  <2>3. SumFunctionOnSet(new, Gauges) <= TotalVotes
    BY <1>2, <2>1
  <2>4. s.power = old /\ [s EXCEPT !.power[g] = w] = at(k)
    BY <2>2 DEF ChainStates
  <2> HIDE DEF old, new, g, w, s
  <2>5. SumFunctionOnSet(new, Gauges) = SumFunctionOnSet(old, Gauges) + (new[g] - old[g])
    <3>1. \A x \in Gauges : old[x] \in Int /\ new[x] \in Int /\ (x # g => old[x] = new[x])
      BY <2>2
    <3> QED
      BY <2>1, <3>1, GaugesAreFinite, SumOfChanged
  <2>6. SumFunctionOnSet(old, Gauges) \in Nat /\ new[g] = w /\ old[g] \in Nat
    <3>1. \A x \in Gauges : old[x] \in Nat
      BY <2>2
    <3> QED
      BY <2>1, <2>2, <3>1, GaugesAreFinite, SumIsNat
  <2>7. SumFunctionOnSet(s.power, Gauges) - s.power[g] + w <= TotalVotes
    <3> DEFINE a == SumFunctionOnSet(old, Gauges)
               b == SumFunctionOnSet(new, Gauges)
    <3>1. a - old[g] + w <= TotalVotes
      <4>1. b = a + (new[g] - old[g]) /\ a \in Nat /\ b <= TotalVotes
        BY <2>3, <2>5, <2>6
      <4> HIDE DEF a, b
      <4> QED
        BY <2>1, <2>6, <4>1
    <3> QED
      BY <2>4, <3>1, Zenon
  <2>8. Casts({s}, cast[k])
          = UNION {When(SumFunctionOnSet(t.power, Gauges) - t.power[g] + w <= TotalVotes,
                        [t EXCEPT !.power[g] = w]) : t \in {s}}
    BY DEF Casts, g, w
  <2>9. Casts({s}, cast[k]) = When(SumFunctionOnSet(s.power, Gauges) - s.power[g] + w <= TotalVotes,
                                   [s EXCEPT !.power[g] = w])
    BY <2>8
  <2>10. Casts({s}, cast[k]) = {[s EXCEPT !.power[g] = w]}
    BY <2>7, <2>9 DEF When
  <2> QED
    BY <2>4, <2>10 DEF s
<1>6. at(0) = chain
  BY <1>3 DEF ChainStates
<1> HIDE DEF at
<1> DEFINE Bad == {k \in 0 .. n : run[1 .. k] # {at(k)}}
<1>7. Bad = {}
  <2> SUFFICES ASSUME Bad # {} PROVE FALSE
    OBVIOUS
  <2>0. n \in Nat
    BY <1>1
  <2>1. PICK k \in Bad : \A m \in Bad : k <= m
    <3>1. Bad \in SUBSET Nat
      BY <2>0
    <3> HIDE DEF Bad
    <3> QED
      BY <3>1, SmallestExists
  <2>2. k \in 0 .. n /\ run[1 .. k] # {at(k)}
    BY <2>1
  <2>3. k # 0
    BY <1>4, <1>6, <2>2
  <2>4. k \in 1 .. n /\ k - 1 \in 0 .. n
    BY <2>0, <2>2, <2>3
  <2>5. k - 1 \notin Bad
    BY <2>0, <2>1, <2>4
  <2>6. run[1 .. (k - 1)] = {at(k - 1)}
    BY <2>4, <2>5
  <2>7. run[1 .. k] = Casts(run[1 .. (k - 1)], cast[k])
    BY <1>4, <2>4
  <2>8. run[1 .. k] = {at(k)}
    BY <1>5, <2>4, <2>6, <2>7
  <2> QED
    BY <2>2, <2>8
<1>8. n \in 0 .. n
  BY <1>1
<1>9. run[1 .. n] = {at(n)}
  BY <1>7, <1>8
<1> QED
  BY <1>4, <1>9 DEF at, p, n

(* Votes that have been cast can be cast again.                            *)
LEMMA FitsAgain ==
  ASSUME NEW cast, NEW power, Castable(cast, power)
  PROVE  Castable(cast, After(cast, power, Len(cast)))
<1> DEFINE n == Len(cast)
           q == After(cast, power, n)
           r(k) == After(cast, q, k)
<1>1. /\ cast \in Seq(Votes) /\ EachOnce(cast) /\ power \in [Gauges -> Nat] /\ n \in Nat
      /\ SumFunctionOnSet(q, Gauges) <= TotalVotes
  BY DEF Castable, Fits
<1>2. q \in [Gauges -> Nat] /\ \A i \in 1 .. n : q[cast[i].gauge] = cast[i].weight
  <2>1. n \in 0 .. Len(cast)
    BY <1>1
  <2> QED
    BY <1>1, <2>1, AfterIs
<1> HIDE DEF q
<1>3. ASSUME NEW k \in 0 .. n PROVE r(k) = q
  <2>1. /\ r(k) \in [Gauges -> Nat]
        /\ \A i \in 1 .. k : cast[i].gauge \in Gauges /\ r(k)[cast[i].gauge] = cast[i].weight
        /\ \A g \in Gauges : (\A i \in 1 .. k : cast[i].gauge # g) => r(k)[g] = q[g]
    BY <1>1, <1>2, AfterIs
  <2> HIDE DEF r
  <2>2. \A i \in 1 .. k : i \in 1 .. n
    BY <1>1
  <2>3. \A g \in Gauges : r(k)[g] = q[g]
    BY <1>2, <2>1, <2>2
  <2> QED
    BY <1>2, <2>1, <2>3
<1> HIDE DEF r
<1>4. \A k \in 0 .. n : SumFunctionOnSet(r(k), Gauges) <= TotalVotes
  BY <1>1, <1>3
<1>5. Fits(cast, q)
  BY <1>4 DEF Fits, r, n
<1> QED
  BY <1>1, <1>2, <1>5 DEF Castable, q, n

(* Gauges that are not voted for had no votes: in the end the power is     *)
(* that of the votes.                                                      *)
LEMMA PowerInTheEnd ==
  ASSUME NEW cast \in Seq(Votes), EachOnce(cast), NEW power \in [Gauges -> Nat],
         \A g \in Gauges : power[g] > 0 => \E k \in DOMAIN cast : cast[k].gauge = g
  PROVE  SumFunctionOnSet(After(cast, power, Len(cast)), Gauges)
           = SumFunction([k \in DOMAIN cast |-> cast[k].weight])
<1> DEFINE I == DOMAIN cast
           n == Len(cast)
           weight == [k \in I |-> cast[k].weight]
           end == After(cast, power, n)
           part == [g \in Gauges |-> {k \in I : cast[k].gauge = g}]
           members == {k \in I : \E g \in Gauges : k \in part[g]}
<1>1. n \in Nat /\ I = 1 .. n /\ n \in 0 .. n
  OBVIOUS
<1>2. IsFiniteSet(I)
  BY <1>1, FS_Interval
<1>3. \A k \in I : cast[k].gauge \in Gauges /\ weight[k] = cast[k].weight /\ weight[k] \in Nat
  <2>1. \A k \in I : cast[k] \in Votes
    OBVIOUS
  <2> QED
    BY <2>1 DEF Votes
<1>4. /\ end \in [Gauges -> Nat]
      /\ \A k \in I : end[cast[k].gauge] = cast[k].weight
      /\ \A g \in Gauges : (\A k \in I : cast[k].gauge # g) => end[g] = power[g]
  <2>1. /\ end \in [Gauges -> Nat]
        /\ \A k \in 1 .. n : cast[k].gauge \in Gauges /\ end[cast[k].gauge] = cast[k].weight
        /\ \A g \in Gauges : (\A k \in 1 .. n : cast[k].gauge # g) => end[g] = power[g]
    BY <1>1, AfterIs
  <2> QED
    BY <1>1, <2>1
<1>5. \A g \in Gauges : \A k \in part[g] : k \in I /\ cast[k].gauge = g
  OBVIOUS
<1>6. \A g \in Gauges : \A k \in I : cast[k].gauge = g => k \in part[g]
  OBVIOUS
<1>7. \A g \in Gauges : part[g] \subseteq I
  OBVIOUS
<1> HIDE DEF I, n, weight, end, part
<1>8. ASSUME NEW g \in Gauges PROVE end[g] = SumFunctionOnSet(weight, part[g])
  <2>1. CASE part[g] = {}
    <3>1. \A k \in I : cast[k].gauge # g
      BY <1>6, <2>1
    <3>2. power[g] \in Nat /\ ~(power[g] > 0)
      BY <3>1 DEF I
    <3>3. end[g] = 0
      BY <1>4, <3>1, <3>2
    <3> QED
      BY <2>1, <3>3, SumEmpty
  <2>2. CASE part[g] # {}
    <3>1. PICK k \in part[g] : TRUE
      BY <2>2
    <3>2. k \in I /\ cast[k].gauge = g
      BY <1>5
    <3>3. part[g] = {k}
      BY <1>5, <3>2 DEF EachOnce, I
    <3>4. SumFunctionOnSet(weight, {k}) = weight[k]
      <4>1. weight[k] \in Int
        BY <1>3, <3>2
      <4> QED
        BY <4>1, SumOfOne
    <3>5. end[g] = weight[k]
      BY <1>3, <1>4, <3>2
    <3> QED
      BY <3>3, <3>4, <3>5
  <2> QED
    BY <2>1, <2>2
<1>9. SumFunctionOnSet(end, Gauges) = SumFunctionOnSet(weight, members)
  <2>1. \A k \in I : weight[k] \in Int
    BY <1>3
  <2>2. \A g \in Gauges : part[g] \subseteq I /\ end[g] = SumFunctionOnSet(weight, part[g])
    BY <1>7, <1>8
  <2>3. \A g, h \in Gauges : g # h => part[g] \cap part[h] = {}
    BY <1>5
  <2> QED
    BY <1>2, <2>1, <2>2, <2>3, GaugesAreFinite, SumOfClasses
<1>10. members = I
  BY <1>3, <1>6
<1>11. SumFunction(weight) = SumFunctionOnSet(weight, I)
  BY DEF SumFunction, weight
<1> HIDE DEF members
<1> QED
  BY <1>9, <1>10, <1>11 DEF end, weight, n, I

(* Lowest delta first, the gauges that lose all they had before all the    *)
(* others: power is given up before it is used.                            *)
LEMMA OrderedFits ==
  ASSUME NEW cast \in Seq(Votes), EachOnce(cast), ByDelta(cast), NEW power \in [Gauges -> Nat],
         \A k \in DOMAIN cast : cast[k].weight # 0 => cast[k].delta = cast[k].weight - power[cast[k].gauge],
         \A g \in Gauges : power[g] > 0 => \E k \in DOMAIN cast : cast[k].gauge = g,
         SumFunction([k \in DOMAIN cast |-> cast[k].weight]) <= TotalVotes,
         SumFunctionOnSet(power, Gauges) <= TotalVotes
  PROVE  Castable(cast, power)
<1> DEFINE n == Len(cast)
           p(k) == After(cast, power, k)
<1>1. n \in Nat /\ DOMAIN cast = 1 .. n
  OBVIOUS
<1>2. ASSUME NEW k \in 1 .. n
      PROVE  cast[k].gauge \in Gauges /\ cast[k].weight \in Nat /\ cast[k].delta \in Int
             /\ power[cast[k].gauge] \in Nat
  <2>1. cast[k] \in Votes
    OBVIOUS
  <2> QED
    BY <2>1 DEF Votes
<1>3. \A k \in 0 .. n :
        /\ p(k) \in [Gauges -> Nat]
        /\ \A i \in 1 .. k : p(k)[cast[i].gauge] = cast[i].weight
        /\ \A g \in Gauges : (\A i \in 1 .. k : cast[i].gauge # g) => p(k)[g] = power[g]
  BY AfterIs
<1>4. SumFunctionOnSet(p(n), Gauges) <= TotalVotes
  BY PowerInTheEnd
<1> HIDE DEF p, n
<1>5. \A k \in 0 .. n : SumFunctionOnSet(p(k), Gauges) \in Nat
  <2>1. \A k \in 0 .. n : \A g \in Gauges : p(k)[g] \in Nat
    BY <1>3
  <2> QED
    BY <2>1, GaugesAreFinite, SumIsNat
<1>6. TotalVotes \in Nat /\ SumFunctionOnSet(power, Gauges) \in Nat
  BY GaugeAssumption, GaugesAreFinite, SumIsNat
<1>7. ASSUME NEW k \in 0 .. n PROVE SumFunctionOnSet(p(k), Gauges) <= TotalVotes
  <2>0. \A i \in 1 .. k : i \in 1 .. n
    BY <1>1
  <2>1. CASE \A i \in 1 .. k : cast[i].weight <= power[cast[i].gauge]
    <3>1. ASSUME NEW g \in Gauges PROVE p(k)[g] \in Int /\ power[g] \in Int /\ p(k)[g] <= power[g]
      <4>1. p(k)[g] \in Nat /\ power[g] \in Nat
        BY <1>3
      <4>2. CASE \E i \in 1 .. k : cast[i].gauge = g
        BY <1>3, <2>1, <4>1, <4>2
      <4>3. CASE \A i \in 1 .. k : cast[i].gauge # g
        BY <1>3, <4>1, <4>3
      <4> QED
        BY <4>2, <4>3
    <3>2. SumFunctionOnSet(p(k), Gauges) <= SumFunctionOnSet(power, Gauges)
      BY <3>1, GaugesAreFinite, SumIsMonotone
    <3> QED
      BY <1>5, <1>6, <3>2
  <2>2. CASE \E i \in 1 .. k : ~(cast[i].weight <= power[cast[i].gauge])
    <3>1. PICK i \in 1 .. k : ~(cast[i].weight <= power[cast[i].gauge])
      BY <2>2
    <3>0. \A j \in 1 .. n : cast[j].weight # 0 => cast[j].delta = cast[j].weight - power[cast[j].gauge]
      BY <1>1
    <3>2. i \in 1 .. n /\ cast[i].weight # 0 /\ cast[i].delta > 0
      BY <1>2, <2>0, <3>0, <3>1
    <3>3. \A j \in 1 .. n : j > k => i < j /\ cast[j].weight # 0 /\ cast[i].delta <= cast[j].delta
      BY <1>1, <3>2 DEF ByDelta
    <3>4. ASSUME NEW j \in 1 .. n, j > k PROVE power[cast[j].gauge] <= cast[j].weight
      <4>1. cast[j].delta = cast[j].weight - power[cast[j].gauge] /\ cast[i].delta <= cast[j].delta
        BY <3>0, <3>3, <3>4
      <4> QED
        BY <1>2, <3>2, <4>1
    <3>5. n \in 0 .. n
      BY <1>1
    <3>6. ASSUME NEW g \in Gauges PROVE p(k)[g] \in Int /\ p(n)[g] \in Int /\ p(k)[g] <= p(n)[g]
      <4>1. p(k)[g] \in Nat /\ p(n)[g] \in Nat /\ power[g] \in Nat
        BY <1>3, <3>5
      <4>2. CASE \E j \in 1 .. k : cast[j].gauge = g
        BY <1>3, <2>0, <3>5, <4>1, <4>2
      <4>3. CASE \A j \in 1 .. k : cast[j].gauge # g
        <5>1. p(k)[g] = power[g]
          BY <1>3, <4>3
        <5>2. CASE \A j \in 1 .. n : cast[j].gauge # g
          BY <1>3, <3>5, <4>1, <5>1, <5>2
        <5>3. CASE \E j \in 1 .. n : cast[j].gauge = g
          <6>1. PICK j \in 1 .. n : cast[j].gauge = g
            BY <5>3
          <6>2. j > k
            BY <1>1, <4>3, <6>1
          <6>3. power[g] <= cast[j].weight /\ p(n)[g] = cast[j].weight
            BY <1>3, <3>4, <3>5, <6>1, <6>2
          <6> QED
            BY <4>1, <5>1, <6>3
        <5> QED
          BY <5>2, <5>3
      <4> QED
        BY <4>2, <4>3
    <3>7. SumFunctionOnSet(p(k), Gauges) <= SumFunctionOnSet(p(n), Gauges)
      BY <3>6, GaugesAreFinite, SumIsMonotone
    <3> QED
      BY <1>4, <1>5, <1>6, <3>5, <3>7
  <2> QED
    BY <2>1, <2>2
<1>8. Fits(cast, power)
  BY <1>7 DEF Fits, p, n
<1> QED
  BY <1>8 DEF Castable

-----------------------------------------------------------------------------
(* The votes of a round, from the choices to the Safe.                     *)

(* The power from the round before belongs to gauges that are listed.      *)
OldPower(power) ==
  /\ power \in [Gauges -> Nat] /\ SumFunctionOnSet(power, Gauges) <= TotalVotes
  /\ \A g \in Gauges : power[g] > 0 => g \in ListedGauges /\ status[g] # "unlisted"

(* Until there is a result; from then on the votes of the result fit.      *)
PowerKept(power) == IF votes = NoVotes THEN OldPower(power) ELSE Castable(votes, power)

(* A batch casts no votes but those of the result.                         *)
CarriesVotes(txs) ==
  \A k \in DOMAIN txs : txs[k].fn = "voteGaugeWeight" => votes # NoVotes /\ txs[k].votes = votes

(* Each choice is a gauge of its own that is, or was, listed.              *)
ChoicesListed ==
  /\ choices \in Seq(ToSet(choices))
  /\ \A i \in DOMAIN choices : choices[i].gauge \in ListedGauges /\ status[choices[i].gauge] # "unlisted"
  /\ \A i, j \in DOMAIN choices : choices[i].gauge = choices[j].gauge => i = j

(* A proposal tells its choices apart.                                     *)
ProposalKept ==
  proposal.state \in {"open", "final"} =>
    /\ proposal.labels \in Seq(ToSet(proposal.labels))
    /\ IsInjective(proposal.labels) /\ DOMAIN proposal.meant = DOMAIN proposal.labels
    /\ proposal.state = "final" => proposal.scores \in [DOMAIN proposal.labels -> Nat]

VInv ==
  /\ status \in [ListedGauges -> {"unlisted", "live", "killed"}]
  /\ ChoicesListed /\ ProposalKept
  /\ PowerKept(main.power)
  /\ safeBatch = [c \in {"main", "side"} |-> safeBatch[c]]
  /\ CarriesVotes(safeBatch["main"].txs)
  /\ prepared.task = "l1:addPool" => prepared.gauges \in Seq(Gauges)

(* What does not vote leaves the power of the gauges alone.                *)
LEMMA PowerStays ==
  ASSUME NEW s \in ChainStates, NEW tx \in Transactions, tx.fn # "voteGaugeWeight",
         NEW isMain \in BOOLEAN, NEW t \in Effect(s, tx, isMain)
  PROVE  t.power = s.power
<1>1. CASE tx.fn = "addPool"
  BY <1>1 DEF Effect, AddPool, When, ChainStates
<1>2. CASE tx.fn = "setStashExtraReward"
  BY <1>2 DEF Effect, SetStashExtraReward, When, ChainStates
<1>3. CASE tx.fn = "setPoolIds"
  <2>1. ASSUME NEW from, NEW to, NEW u \in SetPoolIds(s, from, to)
        PROVE  u.power = s.power /\ \A dst : [u EXCEPT !.dst = dst].power = s.power
    <3> DEFINE ids == [g \in Gauges |-> IF g \in Mapped(s, from, to) THEN PidOf(s, g) ELSE s.poolId[g]]
    <3>1. u = [s EXCEPT !.poolId = ids]
      BY <2>1 DEF SetPoolIds, When
    <3> HIDE DEF ids
    <3> QED
      BY <3>1 DEF ChainStates
  <2>2. CASE isMain
    <3> DEFINE dst == [g \in Gauges |-> IF g \in Mapped(s, tx.from, tx.to) /\ s.dst[g] = "none"
                                        THEN "main" ELSE s.dst[g]]
    <3>1. PICK u \in SetPoolIds(s, tx.from, tx.to) : t = [u EXCEPT !.dst = dst]
      BY <1>3, <2>2 DEF Effect, SetMainPoolIds
    <3> HIDE DEF dst
    <3> QED
      BY <2>1, <3>1
  <2>3. CASE ~isMain
    <3>1. t \in SetPoolIds(s, tx.from, tx.to)
      BY <1>3, <2>3 DEF Effect
    <3> QED
      BY <2>1, <3>1
  <2> QED
    BY <2>2, <2>3
<1>4. CASE tx.fn = "setIsNoDepositGauge"
  BY <1>4 DEF Effect, SetIsNoDepositGauge, ChainStates
<1>5. CASE tx.fn = "setDstChainId"
  BY <1>5 DEF Effect, SetDstChainId, ChainStates
<1>6. tx.fn \in {"addPool", "setDstChainId", "setStashExtraReward", "setPoolIds", "setIsNoDepositGauge"}
  BY DEF Transactions
<1> QED
  BY <1>1, <1>2, <1>3, <1>4, <1>5, <1>6

(* Voting leaves the power with which the same votes fit again.            *)
LEMMA VotingKeepsFit ==
  ASSUME NEW s \in ChainStates, NEW cast, Castable(cast, s.power), NEW t \in VoteGaugeWeight(s, cast)
  PROVE  Castable(cast, t.power)
<1> DEFINE deposit == {k \in DOMAIN cast : cast[k].gauge \notin s.noDeposit}
           weight == [k \in DOMAIN cast |-> cast[k].weight]
           last == LastWeights(cast, deposit)
           total == SumFunctionOnSet(weight, deposit)
           voted == [s EXCEPT !.weightOf = last, !.totalWeight = total]
<1>1. t \in CastVotes(voted, cast)
  BY DEF VoteGaugeWeight, When, LastWeights
<1>2. last \in [Gauges -> Nat] /\ total \in Nat
  BY LastWeightsFit DEF Castable, Votes, VoteSeqs
<1> HIDE DEF last, total
<1>3. voted \in ChainStates /\ voted.power = s.power
  BY <1>2 DEF ChainStates
<1> HIDE DEF voted
<1>4. CastVotes(voted, cast) = {[voted EXCEPT !.power = After(cast, s.power, Len(cast))]}
  BY <1>3, CastsWhenFits
<1>5. t.power = After(cast, s.power, Len(cast))
  BY <1>1, <1>3, <1>4 DEF ChainStates
<1> QED
  BY <1>5, FitsAgain

(* A batch of the tasks keeps what holds of the power.                     *)
LEMMA BatchKeepsPower ==
  ASSUME NEW chain \in ChainStates, KnownPools(chain), PowerKept(chain.power),
         NEW txs, CarriesVotes(txs), NEW t \in Execute(chain, txs, TRUE)
  PROVE  PowerKept(t.power)
<1> DEFINE C == {s \in ChainStates : KnownPools(s) /\ PowerKept(s.power)}
<1>1. ASSUME NEW s \in C, NEW i \in DOMAIN txs, txs[i] \in Transactions, NEW u \in Effect(s, txs[i], TRUE)
      PROVE  u \in C
  <2>1. s \in ChainStates /\ KnownPools(s) /\ PowerKept(s.power)
    OBVIOUS
  <2>2. u \in ChainStates /\ KnownPools(u)
    BY <1>1, <2>1, EffectFollows DEF Follows
  <2>3. CASE txs[i].fn # "voteGaugeWeight"
    <3>1. u.power = s.power
      BY <1>1, <2>1, <2>3, PowerStays
    <3> QED
      BY <2>1, <2>2, <3>1
  <2>4. CASE txs[i].fn = "voteGaugeWeight"
    <3>1. votes # NoVotes /\ txs[i].votes = votes
      BY <2>4 DEF CarriesVotes
    <3>2. u \in VoteGaugeWeight(s, votes)
      BY <1>1, <2>4, <3>1 DEF Effect
    <3>3. Castable(votes, u.power)
      BY <2>1, <3>1, <3>2, VotingKeepsFit DEF PowerKept
    <3> QED
      BY <2>2, <3>1, <3>3 DEF PowerKept
  <2> QED
    BY <2>3, <2>4
<1>2. \A s \in C : \A i \in DOMAIN txs : txs[i] \in Transactions => Effect(s, txs[i], TRUE) \subseteq C
  BY <1>1
<1>3. chain \in C
  OBVIOUS
<1> HIDE DEF C
<1>4. Execute(chain, txs, TRUE) \subseteq C
  BY <1>2, <1>3, BatchStays
<1> QED
  BY <1>4 DEF C

(* One sequence after another, of the same things.                         *)
IsFlattening(flat, seqs, I) ==
  flat = [t \in SUBSET I |-> IF t = {} THEN <<>> ELSE flat[t \ {Max(t)}] \o seqs[Max(t)]]

LEMMA FlatIsFlattening ==
  ASSUME NEW seqs
  PROVE  Flat(seqs) = (CHOOSE flat : IsFlattening(flat, seqs, DOMAIN seqs))[DOMAIN seqs]
  BY DEF Flat, FoldLeft, MapThenFoldSet, IsFlattening

LEMMA FlatIsSeq ==
  ASSUME NEW T, NEW n \in Nat, NEW seqs \in [1 .. n -> Seq(T)]
  PROVE  Flat(seqs) \in Seq(T)
<1> DEFINE I == 1 .. n
           V == Seq(T)
           next == [i \in I |-> [t \in V |-> t \o seqs[i]]]
           flat == CHOOSE r : IsFlattening(r, seqs, I)
<1>1. DOMAIN seqs = I /\ I \in SUBSET Int /\ IsFiniteSet(I)
  BY FS_Interval
<1>2. \A i \in I, t \in V : t \o seqs[i] \in V
  OBVIOUS
<1>3. <<>> \in V /\ next \in [I -> [V -> V]]
  BY <1>2
<1>4. \A i \in I, t \in V : next[i][t] = t \o seqs[i]
  OBVIOUS
<1> HIDE DEF V, next, I
<1>5. PICK r : StaysInside(r, next, <<>>, V, I)
  BY <1>1, <1>3, FoldInside
<1>6. \A t \in (SUBSET I) \ {{}} : Max(t) \in I
  BY <1>5 DEF StaysInside
<1>7. ASSUME NEW t \in SUBSET I
      PROVE  r[t] = IF t = {} THEN <<>> ELSE r[t \ {Max(t)}] \o seqs[Max(t)]
  <2>1. CASE t = {}
    BY <1>5, <2>1 DEF StaysInside
  <2>2. CASE t # {}
    <3>1. Max(t) \in I /\ r[t] = next[Max(t)][r[t \ {Max(t)}]] /\ r[t \ {Max(t)}] \in V
      BY <1>5, <2>2 DEF StaysInside
    <3> QED
      BY <1>4, <2>2, <3>1
  <2> QED
    BY <2>1, <2>2
<1>8. IsFlattening(r, seqs, I)
  <2>1. r = [t \in SUBSET I |-> r[t]]
    BY <1>5 DEF StaysInside
  <2>2. r = [t \in SUBSET I |-> IF t = {} THEN <<>> ELSE r[t \ {Max(t)}] \o seqs[Max(t)]]
    BY <1>7, <2>1
  <2> QED
    BY <2>2, Zenon DEF IsFlattening
<1>9. IsFlattening(flat, seqs, I)
  BY <1>8
<1> HIDE DEF flat
<1>10. \A t \in SUBSET I : flat[t] = IF t = {} THEN <<>> ELSE flat[t \ {Max(t)}] \o seqs[Max(t)]
  BY <1>9 DEF IsFlattening
<1>11. flat[{}] \in V
  BY <1>3, <1>10
<1>12. \A t \in (SUBSET I) \ {{}} : flat[t \ {Max(t)}] \in V => flat[t] \in V
  BY <1>2, <1>6, <1>10
<1>13. flat[I] \in V
  <2>1. I \in SUBSET I
    OBVIOUS
  <2> QED
    BY <1>1, <1>11, <1>12, <2>1, FoldStays
<1>14. Flat(seqs) = flat[I]
  BY <1>1, FlatIsFlattening DEF flat
<1> QED
  BY <1>13, <1>14 DEF V

LEMMA InOrderIsSeq ==
  ASSUME NEW gs
  PROVE  InOrder(gs) \in Seq(Gauges)
  BY ListingAssumption, KeptKeeps DEF InOrder

(* Listing gauges casts no votes.                                          *)
LEMMA ListingCastsNoVotes ==
  ASSUME NEW gauges \in Seq(Gauges)
  PROVE  \E T : AddPoolToMainnet(gauges) \in Seq(T) /\ \A tx \in T : tx.fn # "voteGaugeWeight"
<1> DEFINE known == {g \in MainGauges : ~IsKilled(g) /\ Has(main, g)}
           perPool(g) ==
             IF g \in known
             THEN IF LacksReward(main, g) THEN <<ListTx(<<StashTx(PidOf(main, g))>>)>> ELSE <<>>
             ELSE IF g \in Listable THEN <<AddPoolTx(g), StashTx(NewPid(g, gauges))>> ELSE <<>>
           initialPid == Len(main.pools) + 1
           finalPid   == initialPid + Len(Kept(gauges, Listable))
           unmapped   == Kept(gauges, {g \in known : main.dst[g] = "none"})
           fromPid    == FoldLeft(LAMBDA p, g : Min2(p, PidOf(main, g)), initialPid, unmapped)
           poolIds    == IF fromPid < finalPid THEN <<PoolIdsTx(fromPid, finalPid)>> ELSE <<>>
           noDeposit  == Kept(gauges, ForeignGauges \ main.noDeposit)
           dstChains  == Kept(gauges, {g \in SideGauges : main.dst[g] = "none"})
           pools == [i \in DOMAIN gauges |-> perPool(gauges[i])]
           deposits == [i \in DOMAIN noDeposit |-> NoDepositTx(noDeposit[i], TRUE)]
           chains == [i \in DOMAIN dstChains |-> DstChainTx(dstChains[i])]
           T == {ListTx(<<StashTx(PidOf(main, g))>>) : g \in Gauges}
                \cup {AddPoolTx(g) : g \in Gauges} \cup {StashTx(NewPid(g, gauges)) : g \in Gauges}
                \cup {PoolIdsTx(fromPid, finalPid)}
                \cup {NoDepositTx(g, TRUE) : g \in Gauges} \cup {DstChainTx(g) : g \in Gauges}
<1>1. AddPoolToMainnet(gauges) = Flat(pools) \o poolIds \o deposits \o chains
  BY DEF AddPoolToMainnet
<1>2. noDeposit \in Seq(Gauges) /\ dstChains \in Seq(Gauges)
  <2>1. noDeposit \in Seq(Gauges)
    BY KeptKeeps
  <2>2. dstChains \in Seq(Gauges)
    BY KeptKeeps
  <2> QED
    BY <2>1, <2>2
<1> HIDE DEF noDeposit, dstChains, fromPid, finalPid, known
<1>3. \A g \in Gauges : perPool(g) \in Seq(T)
  <2>1. ASSUME NEW g \in Gauges
        PROVE  /\ ListTx(<<StashTx(PidOf(main, g))>>) \in T /\ AddPoolTx(g) \in T
               /\ StashTx(NewPid(g, gauges)) \in T
    OBVIOUS
  <2> HIDE DEF T
  <2>2. \A x \in T : <<x>> \in Seq(T)
    OBVIOUS
  <2>3. \A x, y \in T : <<x, y>> \in Seq(T)
    OBVIOUS
  <2>4. <<>> \in Seq(T)
    OBVIOUS
  <2> QED
    BY <2>1, <2>2, <2>3, <2>4
<1>4. poolIds \in Seq(T)
  <2>1. PoolIdsTx(fromPid, finalPid) \in T
    OBVIOUS
  <2> HIDE DEF T
  <2> QED
    BY <2>1
<1>5. deposits \in Seq(T)
  <2>1. \A g \in Gauges : NoDepositTx(g, TRUE) \in T
    OBVIOUS
  <2> HIDE DEF T
  <2>2. DOMAIN noDeposit = 1 .. Len(noDeposit) /\ Len(noDeposit) \in Nat /\ \A i \in DOMAIN noDeposit : noDeposit[i] \in Gauges
    BY <1>2
  <2>3. deposits \in [1 .. Len(noDeposit) -> T]
    BY <2>1, <2>2
  <2> HIDE DEF deposits
  <2> QED
    BY <2>2, <2>3
<1>6. chains \in Seq(T)
  <2>1. \A g \in Gauges : DstChainTx(g) \in T
    OBVIOUS
  <2> HIDE DEF T
  <2>2. DOMAIN dstChains = 1 .. Len(dstChains) /\ Len(dstChains) \in Nat /\ \A i \in DOMAIN dstChains : dstChains[i] \in Gauges
    BY <1>2
  <2>3. chains \in [1 .. Len(dstChains) -> T]
    BY <2>1, <2>2
  <2> HIDE DEF chains
  <2> QED
    BY <2>2, <2>3
<1>7. \A tx \in T : tx.fn # "voteGaugeWeight"
  BY DEF ListTx, StashTx, AddPoolTx, PoolIdsTx, NoDepositTx, DstChainTx
<1> HIDE DEF T, perPool, poolIds, deposits, chains
<1>8. Flat(pools) \in Seq(T)
  <2>1. DOMAIN gauges = 1 .. Len(gauges) /\ Len(gauges) \in Nat /\ \A i \in DOMAIN gauges : gauges[i] \in Gauges
    OBVIOUS
  <2>2. pools \in [1 .. Len(gauges) -> Seq(T)]
    BY <1>3, <2>1
  <2> HIDE DEF pools
  <2> QED
    BY <2>1, <2>2, FlatIsSeq
<1> HIDE DEF pools
<1>9. AddPoolToMainnet(gauges) \in Seq(T)
  BY <1>1, <1>4, <1>5, <1>6, <1>8
<1> QED
  BY <1>7, <1>9

(* What the tasks give to the Safe of mainnet.                             *)
LEMMA BatchesCarryVotes ==
  ASSUME NEW gauges \in Seq(Gauges), NEW voting \in BOOLEAN, NEW fails \in BOOLEAN
  PROVE  /\ CarriesVotes(AddPoolTxs(gauges, voting, fails).main)
         /\ voting /\ votes # NoVotes => CarriesVotes(AddPoolTxs(gauges, voting, fails).main \o <<VoteTx(votes)>>)
<1> DEFINE listing == AddPoolToMainnet(gauges)
           txs == AddPoolTxs(gauges, voting, fails).main
<1>1. PICK T : listing \in Seq(T) /\ \A tx \in T : tx.fn # "voteGaugeWeight"
  BY ListingCastsNoVotes
<1>2. txs = IF voting \/ ToSet(gauges) \cap MainGauges # {} THEN listing ELSE <<>>
  BY DEF AddPoolTxs
<1> HIDE DEF txs, listing
<1>3. txs \in Seq(T) /\ (voting => txs = listing)
  BY <1>1, <1>2
<1>4. \A k \in DOMAIN txs : txs[k].fn # "voteGaugeWeight"
  BY <1>1, <1>3
<1>5. ASSUME votes # NoVotes PROVE CarriesVotes(txs \o <<VoteTx(votes)>>)
  <2> DEFINE more == Append(txs, VoteTx(votes))
  <2>1. txs \o <<VoteTx(votes)>> = more
    BY <1>3
  <2>2. \A k \in DOMAIN more : more[k] = VoteTx(votes) \/ (k \in DOMAIN txs /\ more[k] = txs[k])
    BY <1>3
  <2>3. VoteTx(votes).votes = votes
    BY DEF VoteTx
  <2> HIDE DEF more
  <2>4. CarriesVotes(more)
    BY <1>4, <1>5, <2>2, <2>3 DEF CarriesVotes
  <2> QED
    BY <2>1, <2>4
<1> QED
  BY <1>4, <1>5 DEF CarriesVotes, txs

(* What snapshot:result makes of choice i.                                 *)
Scored(i) == [gauge |-> GaugeOfLabel(proposal.labels[i]), score |-> proposal.scores[i]]

(* The choices with enough of the score, best first: with one of them      *)
(* come all that have a higher score.                                      *)
AreSuccessful(ranked, R) ==
  /\ ranked \in Seq(R)
  /\ \A r \in R : r.score \in Nat \ {0} /\ \E i \in DOMAIN proposal.labels : r = Scored(i)
  /\ \A a, b \in DOMAIN ranked : a < b => ranked[b].score <= ranked[a].score
  /\ \A i, j \in DOMAIN proposal.labels :
       Scored(j) \in R /\ proposal.scores[i] > proposal.scores[j] => \E a \in DOMAIN ranked : ranked[a] = Scored(i)

LEMMA GaugesAreSuccessful ==
  ASSUME ProposalKept, proposal.state = "final"
  PROVE  \E R : AreSuccessful(SuccessfulGauges, R)
<1> DEFINE I == DOMAIN proposal.labels
           D == MinShareDenominator
           scored == [i \in I |-> Scored(i)]
           total == SumFunction(proposal.scores)
           R == {r \in ToSet(scored) : r.score * D > total}
           key == [r \in R |-> -r.score]
           kept == Kept(scored, R)
           ranked == Ranked(kept, key)
<1>1. /\ proposal.labels \in Seq(ToSet(proposal.labels))
      /\ proposal.scores \in [I -> Nat] /\ D \in Nat \ {0}
  BY SnapshotAssumption DEF ProposalKept
<1>2. PICK n \in Nat : I = 1 .. n
  BY <1>1
<1>3. total \in Nat
  <2>0. IsFiniteSet(I)
    <3> HIDE DEF I
    <3> QED
      BY <1>2, FS_Interval
  <2>1. IsFiniteSet(I) /\ \A i \in I : proposal.scores[i] \in Nat
    BY <1>1, <2>0
  <2>2. SumFunctionOnSet(proposal.scores, I) \in Nat
    BY <2>1, SumIsNat
  <2>3. DOMAIN proposal.scores = I
    BY <1>1
  <2> QED
    BY <2>2, <2>3 DEF SumFunction
<1>4. SuccessfulGauges = ranked
  BY DEF SuccessfulGauges, Scored
<1>5. ToSet(scored) = {Scored(i) : i \in I}
  BY DEF ToSet
<1>6. scored \in Seq(ToSet(scored))
  <2> HIDE DEF I
  <2>1. DOMAIN scored = 1 .. n /\ \A i \in 1 .. n : scored[i] \in ToSet(scored)
    BY <1>2 DEF ToSet
  <2>2. scored \in [1 .. n -> ToSet(scored)]
    BY <1>2, <2>1
  <2> HIDE DEF scored
  <2> QED
    BY <2>2
<1>7. R \subseteq ToSet(scored)
  OBVIOUS
<1>8. \A i \in I : Scored(i).score = proposal.scores[i] /\ Scored(i).score \in Nat
  BY <1>1 DEF Scored
<1>9. \A i \in I : Scored(i) \in R <=> proposal.scores[i] * D > total
  BY <1>5, <1>8
<1>10. \A r \in R : \E i \in I : r = Scored(i)
  BY <1>5
<1> HIDE DEF I, D, scored, total, R
<1>11. \A r \in R : r.score \in Nat \ {0}
  <2>1. ASSUME NEW r \in R PROVE r.score \in Nat \ {0}
    <3>1. PICK i \in I : r = Scored(i)
      BY <1>10
    <3>2. r.score \in Nat /\ r.score = proposal.scores[i] /\ proposal.scores[i] * D > total
      BY <1>8, <1>9, <3>1
    <3>3. r.score # 0
      <4>1. r.score = 0 => proposal.scores[i] * D = 0
        BY <1>1, <3>2
      <4> QED
        BY <1>3, <3>2, <4>1
    <3> QED
      BY <3>2, <3>3
  <2> QED
    BY <2>1
<1>12. kept \in Seq(R) /\ ToSet(kept) = R
  <2>1. kept \in Seq(ToSet(scored)) /\ ToSet(kept) = ToSet(scored) \cap R
    BY <1>6, KeptKeeps
  <2>2. ToSet(scored) \cap R = R
    BY <1>7
  <2> HIDE DEF kept
  <2>3. ToSet(kept) = R
    BY <2>1, <2>2
  <2>4. \A i \in DOMAIN kept : kept[i] \in R
    BY <2>3 DEF ToSet
  <2> QED
    BY <2>1, <2>3, <2>4
<1>13. \A r \in R : key[r] = -r.score /\ key[r] \in Int
  BY <1>11
<1> HIDE DEF kept, key
<1>14. ranked \in Seq(R) /\ ToSet(ranked) = R /\ Ascending(ranked, key)
  BY <1>12, <1>13, RankedIsAscending
<1> HIDE DEF ranked
<1>15. ASSUME NEW a \in DOMAIN ranked, NEW b \in DOMAIN ranked, a < b
       PROVE  ranked[b].score <= ranked[a].score
  <2>1. ranked[a] \in R /\ ranked[b] \in R /\ key[ranked[a]] <= key[ranked[b]]
    BY <1>14, <1>15 DEF Ascending
  <2>2. ranked[a].score \in Nat /\ ranked[b].score \in Nat /\ -ranked[a].score <= -ranked[b].score
    BY <1>11, <1>13, <2>1
  <2> QED
    BY <2>2
<1>16. ASSUME NEW i \in I, NEW j \in I, Scored(j) \in R, proposal.scores[i] > proposal.scores[j]
       PROVE  \E a \in DOMAIN ranked : ranked[a] = Scored(i)
  <2> DEFINE p == proposal.scores[i]
             q == proposal.scores[j]
  <2>1. p \in Nat /\ q \in Nat /\ q <= p /\ q * D > total
    BY <1>1, <1>9, <1>16
  <2>2. Scored(i) \in R <=> p * D > total
    BY <1>9
  <2> HIDE DEF p, q
  <2>3. q * D <= p * D /\ q * D \in Nat /\ p * D \in Nat
    BY <1>1, <2>1, ProductIsMonotone, ProductIsNat
  <2>4. p * D > total
    BY <1>3, <2>1, <2>3
  <2>5. Scored(i) \in ToSet(ranked)
    BY <1>14, <2>2, <2>4
  <2> QED
    BY <2>5 DEF ToSet
<1>17. AreSuccessful(ranked, R)
  BY <1>10, <1>11, <1>14, <1>15, <1>16 DEF AreSuccessful, I
<1> QED
  BY <1>4, <1>17

(* The votes of a result: ranked is what was successful.                   *)
AreVotesOf(vs, ranked, R) ==
  /\ AreSuccessful(ranked, R)
  /\ Weights(ranked) \in [DOMAIN ranked -> Nat]
  /\ \A a, b \in DOMAIN ranked : a < b => Weights(ranked)[b] <= Weights(ranked)[a]
  /\ EachOnce(vs) /\ AreVotesFor(vs, ranked, Weights(ranked), main.power)
  /\ ByDelta(vs)

LEMMA ResultVotes ==
  ASSUME ProposalKept, main.power \in [Gauges -> Nat], Result(main.power)
  PROVE  \E ranked, R : AreVotesOf(votes', ranked, R)
<1> DEFINE ranked == SuccessfulGauges
           weights == Weights(ranked)
           vs == VotesFor(ranked, weights, main.power)
<1>1. votes' = Ordered(vs) /\ ranked # <<>> /\ proposal.state = "final"
  BY DEF Result
<1>2. PICK R : AreSuccessful(ranked, R)
  BY <1>1, GaugesAreSuccessful
<1> HIDE DEF ranked
<1>3. ranked \in Seq(R) /\ \A r \in R : r.score \in Nat \ {0}
  BY <1>2 DEF AreSuccessful
<1>4. /\ weights \in [DOMAIN ranked -> Nat]
      /\ \A i, j \in DOMAIN ranked :
           i < j /\ ranked[i].score >= ranked[j].score => weights[j] <= weights[i]
  BY <1>1, <1>3, WeightsAreShares
<1>5. ASSUME NEW a \in DOMAIN ranked, NEW b \in DOMAIN ranked, a < b PROVE weights[b] <= weights[a]
  <2>1. ranked[b].score <= ranked[a].score
    BY <1>2, <1>5 DEF AreSuccessful
  <2>2. ranked[a].score >= ranked[b].score
    BY <2>1
  <2> HIDE DEF weights
  <2> QED
    BY <1>4, <1>5, <2>2
<1> HIDE DEF weights
<1>6. AreVotesFor(vs, ranked, weights, main.power)
  BY <1>3, <1>4, VotesForAre
<1> HIDE DEF vs
<1>7. vs \in Seq(Votes) /\ EachOnce(vs)
  BY <1>6 DEF AreVotesFor
<1>8. /\ votes' \in Seq(Votes) /\ ToSet(votes') = ToSet(vs) /\ EachOnce(votes') /\ ByDelta(votes')
  BY <1>1, <1>7, OrderedIsByDelta
<1>9. AreVotesFor(votes', ranked, weights, main.power)
  BY <1>6, <1>8 DEF AreVotesFor
<1>10. AreVotesOf(votes', ranked, R)
  BY <1>2, <1>4, <1>5, <1>8, <1>9 DEF AreVotesOf, weights
<1> QED
  BY <1>10

(* They fit what the gauges have from the round before.                    *)
LEMMA ResultFits ==
  ASSUME ProposalKept, OldPower(main.power), Result(main.power)
  PROVE  votes' # NoVotes /\ Castable(votes', main.power)
<1> DEFINE power == main.power
           vs == votes'
<1>1. power \in [Gauges -> Nat] /\ SumFunctionOnSet(power, Gauges) <= TotalVotes
      /\ \A g \in Gauges : power[g] > 0 => g \in ListedGauges /\ status[g] # "unlisted"
  BY DEF OldPower
<1>2. PICK ranked, R : AreVotesOf(vs, ranked, R)
  BY <1>1, ResultVotes
<1>3. /\ vs \in Seq(Votes) /\ EachOnce(vs) /\ ByDelta(vs)
      /\ \A v \in ToSet(vs) : v.weight # 0 => v.delta = v.weight - power[v.gauge]
      /\ \A g \in ListedGauges : status[g] # "unlisted" => (power[g] > 0 => \E v \in ToSet(vs) : v.gauge = g)
  BY <1>2 DEF AreVotesOf, AreVotesFor
<1>4. SumFunction([k \in DOMAIN vs |-> vs[k].weight]) = TotalVotes
  BY DEF Result
<1>5. \A k \in DOMAIN vs : vs[k].weight # 0 => vs[k].delta = vs[k].weight - power[vs[k].gauge]
  BY <1>3 DEF ToSet
<1>6. \A g \in Gauges : power[g] > 0 => \E k \in DOMAIN vs : vs[k].gauge = g
  BY <1>1, <1>3 DEF ToSet
<1>7. SumFunction([k \in DOMAIN vs |-> vs[k].weight]) <= TotalVotes
  BY <1>4, GaugeAssumption
<1>8. vs # NoVotes
  <2>1. ASSUME vs = <<>> PROVE FALSE
    <3> DEFINE weight == [k \in DOMAIN vs |-> vs[k].weight]
    <3>1. DOMAIN weight = {}
      BY <2>1
    <3>2. SumFunction(weight) = 0
      BY <3>1, SumEmpty DEF SumFunction
    <3> QED
      BY <1>4, <3>2, GaugeAssumption
  <2> QED
    BY <2>1 DEF NoVotes
<1> HIDE DEF power, vs
<1>9. Castable(vs, power)
  BY <1>1, <1>3, <1>5, <1>6, <1>7, OrderedFits
<1> QED
  BY <1>8, <1>9 DEF vs, power

(* A round starts without votes.                                           *)
LEMMA VotesStart == Init => VInv
<1> SUFFICES ASSUME Init PROVE VInv
  OBVIOUS
<1>1. PICK start \in Starts :
        /\ status = start.status
        /\ \E rewarded \in SUBSET DOMAIN start.pools, mapped \in SUBSET ToSet(start.pools) :
             main = Chain(start.pools, rewarded, mapped, start.power, start.reward, InitialAura)
  BY DEF Init
<1>2. /\ start.status \in [ListedGauges -> {"unlisted", "live", "killed"}]
      /\ start.power \in [Gauges -> 0 .. TotalVotes] /\ SumFunctionOnSet(start.power, Gauges) <= TotalVotes
      /\ \A g \in Gauges : start.power[g] > 0 => g \in ListedGauges /\ start.status[g] # "unlisted"
  BY RoundAssumption
<1>3. main.power = start.power
  BY <1>1 DEF Chain
<1>4. choices = <<>> /\ proposal.state = "none" /\ votes = NoVotes
      /\ safeBatch = [c \in {"main", "side"} |-> NoBatch] /\ prepared.task = "none"
  BY DEF Init, SnapshotInit, NoProposal, NotPrepared
<1>5. OldPower(main.power)
  BY <1>1, <1>2, <1>3, GaugeAssumption DEF OldPower
<1>6. ChoicesListed
  BY <1>4 DEF ChoicesListed, ToSet
<1>7. CarriesVotes(safeBatch["main"].txs)
  BY <1>4 DEF CarriesVotes, NoBatch
<1> QED
  BY <1>1, <1>2, <1>4, <1>5, <1>6, <1>7 DEF VInv, ProposalKept, PowerKept

(* Labels do not change which gauges there are.                            *)
LEMMA LabelledGauges ==
  ASSUME NEW gauges \in Seq(ListedGauges), IsInjective(gauges)
  PROVE  /\ DeduplicateLabels(gauges) \in Seq(ToSet(DeduplicateLabels(gauges)))
         /\ DOMAIN DeduplicateLabels(gauges) = DOMAIN gauges
         /\ \A i \in DOMAIN gauges : DeduplicateLabels(gauges)[i].gauge = gauges[i]
<1> DEFINE cs == DeduplicateLabels(gauges)
<1>1. DOMAIN cs = DOMAIN gauges /\ \A i \in DOMAIN gauges : cs[i].gauge = gauges[i]
  BY DEF DeduplicateLabels
<1>2. cs = [i \in DOMAIN gauges |-> cs[i]]
  BY DEF DeduplicateLabels
<1> HIDE DEF cs
<1>3. DOMAIN gauges = 1 .. Len(gauges) /\ Len(gauges) \in Nat
  OBVIOUS
<1>4. cs \in [1 .. Len(gauges) -> ToSet(cs)]
  BY <1>1, <1>2, <1>3 DEF ToSet
<1>5. cs \in Seq(ToSet(cs))
  BY <1>3, <1>4
<1> QED
  BY <1>1, <1>5 DEF cs

(* The tasks of a proposal.                                                *)
LEMMA SnapshotKeepsVotes == VInv /\ Snapshot => VInv'
<1> SUFFICES ASSUME VInv, Snapshot PROVE VInv'
  OBVIOUS
<1>1. main' = main /\ safeBatch' = safeBatch /\ prepared' = prepared
  BY DEF Snapshot, listingVars, chainVars
<1>2. /\ status \in [ListedGauges -> {"unlisted", "live", "killed"}]
      /\ ChoicesListed /\ ProposalKept /\ PowerKept(main.power)
      /\ safeBatch = [c \in {"main", "side"} |-> safeBatch[c]]
      /\ CarriesVotes(safeBatch["main"].txs)
      /\ prepared.task = "l1:addPool" => prepared.gauges \in Seq(Gauges)
  BY DEF VInv
<1>3. CASE Generate
  <2> DEFINE live == {g \in ListedGauges : status[g] = "live"}
             gauges == Kept(VotingList, live)
  <2>1. status' = status /\ proposal' = proposal /\ votes' = votes /\ choices' = DeduplicateLabels(gauges)
    BY <1>3 DEF Generate
  <2>2. VotingList \in Seq(ListedGauges) /\ IsInjective(VotingList)
    BY SnapshotAssumption
  <2>3. gauges \in Seq(ListedGauges) /\ ToSet(gauges) = ToSet(VotingList) \cap live /\ IsInjective(gauges)
    BY <2>2, KeptKeeps
  <2>4. \A g \in ToSet(gauges) : g \in ListedGauges /\ status[g] # "unlisted"
    BY <2>3
  <2> HIDE DEF gauges
  <2>5. /\ choices' \in Seq(ToSet(choices')) /\ DOMAIN choices' = DOMAIN gauges
        /\ \A i \in DOMAIN gauges : choices'[i].gauge = gauges[i]
    BY <2>1, <2>3, LabelledGauges
  <2>6. \A i \in DOMAIN gauges : gauges[i] \in ToSet(gauges)
    BY DEF ToSet
  <2>7. \A i, j \in DOMAIN gauges : gauges[i] = gauges[j] => i = j
    BY <2>3 DEF IsInjective
  <2>8. ChoicesListed'
    BY <2>1, <2>4, <2>5, <2>6, <2>7 DEF ChoicesListed
  <2> QED
    BY <1>1, <1>2, <2>1, <2>8 DEF VInv, ProposalKept, PowerKept, OldPower, CarriesVotes
<1>4. ASSUME NEW g \in ListedGauges, ChangeStatus(g) PROVE VInv'
  <2>1. choices' = choices /\ proposal' = proposal /\ votes' = votes
    BY <1>4 DEF ChangeStatus
  <2>2. /\ status' \in [ListedGauges -> {"unlisted", "live", "killed"}]
        /\ \A h \in ListedGauges : status[h] # "unlisted" => status'[h] # "unlisted"
    BY <1>2, <1>4 DEF ChangeStatus
  <2>3. ChoicesListed'
    BY <1>2, <2>1, <2>2 DEF ChoicesListed
  <2>4. PowerKept(main.power)'
    BY <1>1, <1>2, <2>1, <2>2 DEF PowerKept, OldPower
  <2> QED
    BY <1>1, <1>2, <2>1, <2>2, <2>3, <2>4 DEF VInv, ProposalKept, CarriesVotes
<1>5. CASE Create
  <2>1. /\ status' = status /\ choices' = choices /\ votes' = votes
        /\ IsInjective(Labels(choices))
        /\ proposal' = [state |-> "open", labels |-> Labels(choices),
                        meant |-> [i \in DOMAIN choices |-> choices[i].gauge]]
    BY <1>5 DEF Create
  <2> DEFINE ls == Labels(choices)
  <2>2. DOMAIN ls = DOMAIN choices
    BY DEF Labels
  <2>3. ls \in Seq(ToSet(ls))
    <3>1. choices \in Seq(ToSet(choices))
      BY <1>2 DEF ChoicesListed
    <3>2. DOMAIN choices = 1 .. Len(choices) /\ Len(choices) \in Nat
      BY <3>1
    <3>3. ls = [i \in DOMAIN choices |-> ls[i]]
      BY DEF Labels
    <3> HIDE DEF ls
    <3>4. ls \in [1 .. Len(choices) -> ToSet(ls)]
      BY <2>2, <3>2, <3>3 DEF ToSet
    <3> QED
      BY <3>2, <3>4
  <2> HIDE DEF ls
  <2>4. proposal'.state = "open" /\ proposal'.labels = ls /\ DOMAIN proposal'.meant = DOMAIN ls
    BY <2>1, <2>2 DEF ls
  <2>5. ProposalKept'
    BY <2>1, <2>3, <2>4 DEF ProposalKept, ls
  <2> QED
    BY <1>1, <1>2, <2>1, <2>5 DEF VInv, ChoicesListed, PowerKept, OldPower, CarriesVotes
<1>6. ASSUME proposal.state = "open", NEW scores \in [DOMAIN proposal.labels -> Scores], Close(scores)
      PROVE  VInv'
  <2>1. /\ status' = status /\ choices' = choices /\ votes' = votes
        /\ proposal' = [state |-> "final", labels |-> proposal.labels, meant |-> proposal.meant,
                        scores |-> scores]
    BY <1>6 DEF Close
  <2>2. scores \in [DOMAIN proposal.labels -> Nat]
    BY SnapshotAssumption
  <2>3. ProposalKept'
    BY <1>2, <1>6, <2>1, <2>2 DEF ProposalKept
  <2> QED
    BY <1>1, <1>2, <2>1, <2>3 DEF VInv, ChoicesListed, PowerKept, OldPower, CarriesVotes
<1>7. CASE Result(main.power)
  <2>1. status' = status /\ choices' = choices /\ proposal' = proposal /\ votes = NoVotes
    BY <1>7 DEF Result
  <2>2. OldPower(main.power)
    BY <1>2, <2>1 DEF PowerKept
  <2>3. votes' # NoVotes /\ Castable(votes', main.power)
    BY <1>2, <1>7, <2>2, ResultFits
  <2>4. PowerKept(main.power)'
    BY <1>1, <2>3 DEF PowerKept, Castable, Fits, EachOnce
  <2>5. CarriesVotes(safeBatch["main"].txs)'
    BY <1>1, <1>2, <2>1 DEF CarriesVotes
  <2> QED
    BY <1>1, <1>2, <2>1, <2>4, <2>5 DEF VInv, ChoicesListed, ProposalKept
<1> QED
  BY <1>3, <1>4, <1>5, <1>6, <1>7 DEF Snapshot, SnapshotNext

(* The tasks that list gauges and vote, the Safes and the keepers.         *)
LEMMA ListingKeepsVotes == RInv /\ VInv /\ Listing => VInv'
<1> SUFFICES ASSUME RInv, VInv, Listing PROVE VInv'
  OBVIOUS
<1> DEFINE batchKept == /\ safeBatch' = [c \in {"main", "side"} |-> safeBatch'[c]]
                        /\ CarriesVotes(safeBatch'["main"].txs)
           preparedKept == prepared'.task = "l1:addPool" => prepared'.gauges \in Seq(Gauges)
           powerKept == PowerKept(main'.power)
<1>1. main \in ChainStates /\ KnownPools(main)
  BY DEF RInv, MainOK
<1>2. /\ status \in [ListedGauges -> {"unlisted", "live", "killed"}]
      /\ ChoicesListed /\ ProposalKept /\ PowerKept(main.power)
      /\ safeBatch = [c \in {"main", "side"} |-> safeBatch[c]]
      /\ CarriesVotes(safeBatch["main"].txs)
      /\ prepared.task = "l1:addPool" => prepared.gauges \in Seq(Gauges)
  BY DEF VInv
<1>3. status' = status /\ choices' = choices /\ proposal' = proposal /\ votes' = votes
  BY DEF Listing, snapshotVars
<1>4. ASSUME batchKept, preparedKept, powerKept PROVE VInv'
  <2>1. ChoicesListed' /\ ProposalKept'
    BY <1>2, <1>3 DEF ChoicesListed, ProposalKept
  <2>2. PowerKept(main.power)' /\ CarriesVotes(safeBatch["main"].txs)'
    BY <1>3, <1>4 DEF PowerKept, OldPower, CarriesVotes
  <2> QED
    BY <1>2, <1>3, <1>4, <2>1, <2>2 DEF VInv
<1>5. safeBatch' = safeBatch => batchKept
  BY <1>2
<1>6. prepared' = prepared => preparedKept
  BY <1>2
<1>7. main'.power = main.power => powerKept
  BY <1>2
<1>8. ASSUME NEW txs, CarriesVotes(txs), main' \in Execute(main, txs, TRUE) PROVE powerKept
  BY <1>1, <1>2, <1>8, BatchKeepsPower
<1>9. ASSUME NEW tx \in Transactions, tx.fn # "voteGaugeWeight", main' \in Effect(main, tx, TRUE)
      PROVE  powerKept
  BY <1>1, <1>7, <1>9, PowerStays
<1>10. ASSUME NEW txs, CarriesVotes(txs), NEW mainPools, NEW other,
              safeBatch' = [c \in {"main", "side"} |-> IF c = "main" THEN mainPools ELSE other],
              mainPools.txs = txs
       PROVE  batchKept
  BY <1>10
<1>11. CarriesVotes(<<>>)
  BY DEF CarriesVotes
<1>12. Len(main.pools) \in Nat /\ DOMAIN main.pools \subseteq Nat
  <2>1. main.pools \in Seq(Gauges)
    BY <1>1 DEF ChainStates
  <2> QED
    BY <2>1, IndicesAreFinite
<1> HIDE DEF batchKept, preparedKept, powerKept
<1>13. ASSUME NEW fails \in BOOLEAN, VoteGaugeWeightsTask(fails) PROVE VInv'
  <2> DEFINE gauges == InOrder({votes[k].gauge : k \in DOMAIN votes})
             txs == AddPoolTxs(gauges, TRUE, fails)
             all == txs.main \o <<VoteTx(votes)>>
  <2>1. /\ votes # NoVotes /\ main' = main /\ prepared' = prepared
        /\ safeBatch' = [c \in {"main", "side"} |->
             IF c = "main" THEN Batch(all, main)
             ELSE IF txs.side = <<>> THEN NoBatch ELSE Batch(txs.side, side)]
    BY <1>13 DEF VoteGaugeWeightsTask, chainVars
  <2>2. gauges \in Seq(Gauges)
    BY InOrderIsSeq
  <2> HIDE DEF gauges
  <2>3. CarriesVotes(all)
    BY <2>1, <2>2, BatchesCarryVotes
  <2> DEFINE b == Batch(all, main)
  <2>4. b.txs = all
    BY DEF Batch
  <2> HIDE DEF all, txs, b
  <2>5. batchKept
    BY <1>10, <2>1, <2>3, <2>4 DEF b
  <2> QED
    BY <1>4, <1>6, <1>7, <2>1, <2>5
<1>14. ASSUME NEW gs \in SUBSET Gauges, NEW fails \in BOOLEAN, AddPoolTask(InOrder(gs), fails) PROVE VInv'
  <2> DEFINE gauges == InOrder(gs)
             txs == AddPoolTxs(gauges, FALSE, fails)
             b == IF txs.main = <<>> THEN NoBatch ELSE Batch(txs.main, main)
             other == IF txs.side = <<>> THEN NoBatch ELSE Batch(txs.side, side)
  <2>1. /\ main' = main /\ prepared' = prepared
        /\ safeBatch' = [c \in {"main", "side"} |-> IF txs[c] = <<>> THEN NoBatch
                                                    ELSE Batch(txs[c], IF c = "main" THEN main ELSE side)]
    BY <1>14 DEF AddPoolTask, chainVars
  <2>2. gauges \in Seq(Gauges)
    BY InOrderIsSeq
  <2> HIDE DEF gauges
  <2>3. CarriesVotes(txs.main)
    BY <2>2, BatchesCarryVotes
  <2>4. txs["main"] = txs.main /\ txs["side"] = txs.side
    OBVIOUS
  <2> HIDE DEF txs
  <2>5. b.txs = txs.main
    BY DEF Batch, NoBatch
  <2>6. safeBatch' = [c \in {"main", "side"} |-> IF c = "main" THEN b ELSE other]
    BY <2>1, <2>4
  <2> HIDE DEF b, other
  <2>7. batchKept
    BY <1>10, <2>3, <2>5, <2>6
  <2> QED
    BY <1>4, <1>6, <1>7, <2>1, <2>7
<1>15. CASE ExecuteMain
  <2>1. /\ main' \in Execute(main, safeBatch["main"].txs, TRUE) /\ prepared' = prepared
        /\ safeBatch' = [safeBatch EXCEPT !["main"] = NoBatch]
    BY <1>15 DEF ExecuteMain
  <2>2. safeBatch' = [c \in {"main", "side"} |-> IF c = "main" THEN NoBatch ELSE safeBatch[c]]
    BY <1>2, <2>1
  <2>3. batchKept
    BY <1>11, <2>2 DEF batchKept, NoBatch
  <2> QED
    BY <1>2, <1>4, <1>6, <1>8, <2>1, <2>3
<1>16. CASE ExecuteSide
  <2>1. main' = main /\ prepared' = prepared /\ safeBatch' = [safeBatch EXCEPT !["side"] = NoBatch]
    BY <1>16 DEF ExecuteSide
  <2>2. batchKept
    BY <1>2, <2>1 DEF batchKept
  <2> QED
    BY <1>4, <1>6, <1>7, <2>1, <2>2
<1>17. ASSUME NEW c \in {"main", "side"}, DropBatch(c) PROVE VInv'
  <2>1. main' = main /\ prepared' = prepared /\ safeBatch' = [safeBatch EXCEPT ![c] = NoBatch]
    BY <1>17 DEF DropBatch, chainVars
  <2>2. batchKept
    BY <1>2, <1>11, <2>1 DEF batchKept, NoBatch
  <2> QED
    BY <1>4, <1>6, <1>7, <2>1, <2>2
<1>18. ASSUME NEW g \in BareGauges \cup ForeignGauges, NEW flag \in BOOLEAN, SetIsNoDepositGaugeTask(g, flag)
       PROVE  VInv'
  <2> DEFINE tx == NoDepositTx(g, flag)
  <2>1. main' \in Execute(main, <<tx>>, TRUE) /\ prepared' = prepared /\ safeBatch' = safeBatch
    BY <1>18 DEF SetIsNoDepositGaugeTask
  <2>2. tx.fn # "voteGaugeWeight"
    BY DEF NoDepositTx
  <2> HIDE DEF tx
  <2>3. CarriesVotes(<<tx>>)
    BY <2>2 DEF CarriesVotes
  <2> QED
    BY <1>4, <1>5, <1>6, <1>8, <2>1, <2>3
<1>19. ASSUME NEW gs \in SUBSET MainGauges, PrepareAddPools(InOrder(gs)) PROVE VInv'
  <2>1. /\ main' = main /\ safeBatch' = safeBatch
        /\ prepared' = [task |-> "l1:addPool", gauges |-> InOrder(gs), from |-> Len(main.pools) + 1]
    BY <1>19 DEF PrepareAddPools, Prepare, chainVars
  <2>2. preparedKept
    BY <2>1, InOrderIsSeq DEF preparedKept
  <2> QED
    BY <1>4, <1>5, <1>7, <2>1, <2>2
<1>20. CASE SendAddPools
  <2> DEFINE gs == prepared.gauges
             adds == [i \in DOMAIN gs |-> AddPoolTx(gs[i])]
             last == PoolIdsTx(prepared.from, prepared.from + Len(gs))
             txs == adds \o <<last>>
             T == {AddPoolTx(g) : g \in Gauges} \cup {last}
  <2>1. /\ prepared.task = "l1:addPool" /\ main' \in Execute(main, txs, TRUE) \cup {main}
        /\ prepared' = NotPrepared /\ safeBatch' = safeBatch
    BY <1>20 DEF SendAddPools
  <2>2. gs \in Seq(Gauges)
    BY <1>2, <2>1
  <2>3. \A tx \in T : tx.fn # "voteGaugeWeight"
    BY DEF AddPoolTx, PoolIdsTx
  <2>4. DOMAIN gs = 1 .. Len(gs) /\ Len(gs) \in Nat /\ \A i \in DOMAIN gs : gs[i] \in Gauges
    BY <2>2
  <2>5. adds \in [1 .. Len(gs) -> T] /\ last \in T
    BY <2>4
  <2> HIDE DEF gs, adds, last, T
  <2>6. adds \in Seq(T) /\ <<last>> \in Seq(T)
    BY <2>4, <2>5
  <2>7. txs \in Seq(T)
    BY <2>6
  <2> HIDE DEF txs
  <2>8. CarriesVotes(txs)
    BY <2>3, <2>7 DEF CarriesVotes
  <2>9. powerKept
    BY <1>7, <1>8, <2>1, <2>8
  <2>10. preparedKept
    BY <2>1 DEF preparedKept, NotPrepared
  <2> QED
    BY <1>4, <1>5, <2>1, <2>9, <2>10
<1>21. ASSUME NEW p \in 1 .. MaxPools, L1SetStashExtraReward(p) PROVE VInv'
  <2> DEFINE tx == StashTx(p)
  <2>1. main' \in SetStashExtraReward(main, p) /\ prepared' = prepared /\ safeBatch' = safeBatch /\ p \in Nat
    BY <1>21, ListingAssumption DEF L1SetStashExtraReward
  <2>2. tx \in Transactions /\ tx.fn = "setStashExtraReward" /\ tx.pid = p
    BY <2>1 DEF StashTx, Transactions
  <2> HIDE DEF tx
  <2>3. main' \in Effect(main, tx, TRUE)
    BY <2>1, <2>2 DEF Effect
  <2> QED
    BY <1>4, <1>5, <1>6, <1>9, <2>1, <2>2, <2>3
<1>22. CASE L1SetPoolIds
  <2> DEFINE last == Len(main.pools) + 1
  <2>1. PICK p \in LatestPid(main) : main' \in SetMainPoolIds(main, p, last)
    BY <1>22 DEF L1SetPoolIds
  <2>2. p \in DOMAIN main.pools /\ prepared' = prepared /\ safeBatch' = safeBatch
    BY <1>22 DEF LatestPid, L1SetPoolIds
  <2>3. p \in Nat /\ last \in Nat
    BY <1>12, <2>2
  <2> DEFINE tx == PoolIdsTx(p, last)
  <2> HIDE DEF last
  <2>4. tx \in Transactions /\ tx.fn = "setPoolIds" /\ tx.from = p /\ tx.to = last
    BY <2>3 DEF PoolIdsTx, Transactions
  <2> HIDE DEF tx
  <2>5. main' \in Effect(main, tx, TRUE)
    BY <2>1, <2>4 DEF Effect
  <2> QED
    BY <1>4, <1>5, <1>6, <1>9, <2>2, <2>4, <2>5
<1>23. ASSUME main' = main, safeBatch' = safeBatch, prepared' = prepared PROVE VInv'
  BY <1>4, <1>5, <1>6, <1>7, <1>23
<1>24. CASE \E p \in 1 .. MaxPools : L2SetStashExtraReward(p)
  BY <1>23, <1>24 DEF L2SetStashExtraReward
<1>25. CASE \E gs \in SUBSET SideGauges : L1L2AddPool(gs)
  BY <1>23, <1>25 DEF L1L2AddPool
<1>26. CASE \E gs \in toSide : ReceiveGauges(gs)
  BY <1>23, <1>26 DEF ReceiveGauges
<1>27. CASE \E g \in SideGauges : L2L2AddPool(g)
  BY <1>23, <1>27 DEF L2L2AddPool
<1>28. CASE L2SetPoolIds
  BY <1>23, <1>28 DEF L2SetPoolIds
<1>29. CASE \E g \in MainGauges : ChangeWeight(g)
  BY <1>23, <1>29 DEF ChangeWeight, chainVars
<1>30. \A gs \in (SUBSET Gauges) \ {{}} : gs \in SUBSET Gauges
  OBVIOUS
<1>31. CASE \E fails \in BOOLEAN : VoteGaugeWeightsTask(fails)
  BY <1>13, <1>31
<1>32. CASE \E gs \in (SUBSET Gauges) \ {{}}, fails \in BOOLEAN : AddPoolTask(InOrder(gs), fails)
  BY <1>14, <1>30, <1>32
<1>33. CASE \E c \in {"main", "side"} : DropBatch(c)
  BY <1>17, <1>33
<1>34. CASE \E g \in BareGauges \cup ForeignGauges, flag \in BOOLEAN : SetIsNoDepositGaugeTask(g, flag)
  BY <1>18, <1>34
<1>35. CASE \E gs \in (SUBSET MainGauges) \ {{}} : PrepareAddPools(InOrder(gs))
  BY <1>19, <1>35
<1>36. CASE \E p \in 1 .. MaxPools : L1SetStashExtraReward(p) \/ L2SetStashExtraReward(p)
  BY <1>21, <1>24, <1>36
<1>37. CASE \E gs \in (SUBSET SideGauges) \ {{}} : L1L2AddPool(gs)
  BY <1>25, <1>37
<1> QED
  BY <1>15, <1>16, <1>20, <1>22, <1>26, <1>27, <1>28, <1>29, <1>31, <1>32, <1>33, <1>34, <1>35,
     <1>36, <1>37, Zenon DEF Listing

(* The distributor.                                                        *)
LEMMA DistributionKeepsVotes == RInv /\ VInv /\ Distribution => VInv'
<1> SUFFICES ASSUME RInv, VInv, Distribution PROVE VInv'
  OBVIOUS
<1>1. main \in ChainStates
  BY DEF RInv, MainOK
<1>2. /\ status' = status /\ choices' = choices /\ proposal' = proposal /\ votes' = votes
      /\ safeBatch' = safeBatch /\ prepared' = prepared
  BY DEF Distribution, snapshotVars
<1>3. ASSUME NEW g \in Gauges, ProcessMain(g) PROVE main'.power = main.power
  <2>1. main' \in ProcessGaugeRewards(main, g)
    BY <1>3 DEF ProcessMain
  <2> DEFINE marked == [main EXCEPT !.processed = @ \cup {g}]
             amount == AmountToSend(main, g)
             pid == main.poolId[g]
  <2>2. main' \in FundPool(marked, pid, amount)
    BY <2>1 DEF ProcessGaugeRewards
  <2>3. marked.power = main.power /\ marked = [marked EXCEPT !.aura = marked.aura]
        /\ "power" \in DOMAIN marked
    BY <1>1 DEF ChainStates
  <2> HIDE DEF marked, amount, pid
  <2>4. main'.power = marked.power
    BY <2>2, <2>3 DEF FundPool, When
  <2> QED
    BY <2>3, <2>4
<1>4. ASSUME NEW g \in Gauges, ProcessSide(g) PROVE main'.power = main.power
  <2>1. main' \in ProcessSidechainGaugeRewards(main, g)
    BY <1>4 DEF ProcessSide
  <2> DEFINE amount == AmountToSend(main, g)
  <2> HIDE DEF amount
  <2>2. main' = [main EXCEPT !.processed = @ \cup {g}, !.aura = @ - amount]
    BY <2>1 DEF ProcessSidechainGaugeRewards, When, amount
  <2> QED
    BY <1>1, <2>2 DEF ChainStates
<1>5. ASSUME \E reward \in Rewards : SetReward(reward) PROVE main'.power = main.power
  <2>1. PICK reward \in Rewards : main' = [main EXCEPT !.rewardPerEpoch = reward]
    BY <1>5 DEF SetReward, SetRewardPerEpoch
  <2> QED
    BY <1>1, <2>1 DEF ChainStates
<1>6. main'.power = main.power
  <2>1. ASSUME main' = main PROVE main'.power = main.power
    BY <2>1
  <2>2. CASE \E g \in Gauges : ProcessMain(g) \/ ProcessSide(g) \/ ProcessChild(g)
    BY <1>3, <1>4, <2>1, <2>2 DEF ProcessChild
  <2>3. CASE \E m \in amountsToSide : DeliverAmount(m)
    BY <2>3 DEF DeliverAmount
  <2>4. CASE \E m \in auraToSide : DeliverAura(m)
    BY <2>4 DEF DeliverAura
  <2> QED
    BY <1>5, <2>2, <2>3, <2>4 DEF Distribution
<1> QED
  BY <1>2, <1>6 DEF VInv, ChoicesListed, ProposalKept, PowerKept, OldPower, CarriesVotes

LEMMA VotesKept == RInv /\ VInv /\ [Next]_vars => VInv'
<1> SUFFICES ASSUME RInv, VInv, [Next]_vars PROVE VInv'
  OBVIOUS
<1>1. CASE Snapshot
  BY <1>1, SnapshotKeepsVotes
<1>2. CASE Listing
  BY <1>2, ListingKeepsVotes
<1>3. CASE Distribution
  BY <1>3, DistributionKeepsVotes
<1>4. CASE UNCHANGED vars
  BY <1>4 DEF vars, snapshotVars, listingVars, chainVars, VInv, ChoicesListed, ProposalKept, PowerKept,
              OldPower, CarriesVotes
<1> QED
  BY <1>1, <1>2, <1>3, <1>4 DEF Next

LEMMA VotesAlways == Spec => [](RInv /\ VInv)
<1>1. Init => RInv /\ VInv
  BY RoundStarts, VotesStart
<1>2. RInv /\ VInv /\ [Next]_vars => (RInv /\ VInv)'
  BY RoundKept, VotesKept
<1> QED
  BY <1>1, <1>2, PTL DEF Spec

(* Where a gauge is voted for.                                             *)
LEMMA WeightOfVote ==
  ASSUME NEW vs \in Seq(Votes), EachOnce(vs), NEW g
  PROVE  /\ WeightIn(vs, g) \in Nat
         /\ \A v \in ToSet(vs) : v.gauge = g => WeightIn(vs, g) = v.weight
         /\ WeightIn(vs, g) # 0 => \E v \in ToSet(vs) : v.gauge = g /\ v.weight = WeightIn(vs, g)
<1> DEFINE k == IndexOf(g, vs)
<1>1. /\ k = 0 => \A i \in DOMAIN vs : vs[i].gauge # g
      /\ k # 0 => k \in DOMAIN vs /\ vs[k].gauge = g
  BY IndexIsFirst
<1>2. WeightIn(vs, g) = IF k = 0 THEN 0 ELSE vs[k].weight
  BY DEF WeightIn
<1>3. \A i \in DOMAIN vs : vs[i].weight \in Nat /\ vs[i] \in ToSet(vs)
  <2>1. \A i \in DOMAIN vs : vs[i] \in Votes
    OBVIOUS
  <2> QED
    BY <2>1 DEF Votes, ToSet
<1> HIDE DEF k
<1>4. \A v \in ToSet(vs) : \E i \in DOMAIN vs : v = vs[i]
  BY DEF ToSet
<1>5. \A i \in DOMAIN vs : vs[i].gauge = g => k # 0 /\ i = k
  BY <1>1 DEF EachOnce
<1> QED
  BY <1>1, <1>2, <1>3, <1>4, <1>5

(* If the choices are still those of the proposal, a label is found where  *)
(* it was.                                                                 *)
LEMMA LabelsFindGauges ==
  ASSUME ProposalKept, ChoicesListed, ChoicesAreMeant, proposal.state = "final"
  PROVE  /\ \A i \in DOMAIN proposal.labels :
              /\ Scored(i).gauge = proposal.meant[i] /\ Scored(i).score = proposal.scores[i]
              /\ proposal.meant[i] \in ListedGauges /\ status[proposal.meant[i]] # "unlisted"
         /\ \A i, j \in DOMAIN proposal.labels : proposal.meant[i] = proposal.meant[j] => i = j
<1> DEFINE I == DOMAIN proposal.labels
           at(label) == {i \in 1 .. Len(choices) : choices[i].label = label}
<1>1. /\ choices \in Seq(ToSet(choices)) /\ IsInjective(proposal.labels)
      /\ \A i \in DOMAIN choices : choices[i].gauge \in ListedGauges /\ status[choices[i].gauge] # "unlisted"
      /\ \A i, j \in DOMAIN choices : choices[i].gauge = choices[j].gauge => i = j
  BY DEF ProposalKept, ChoicesListed
<1>2. /\ DOMAIN choices = I /\ DOMAIN choices = 1 .. Len(choices) /\ Len(choices) \in Nat
      /\ \A i \in I : choices[i].gauge = proposal.meant[i] /\ choices[i].label = proposal.labels[i]
  BY <1>1 DEF ChoicesAreMeant
<1>3. ASSUME NEW i \in I PROVE GaugeOfLabel(proposal.labels[i]) = proposal.meant[i]
  <2> DEFINE label == proposal.labels[i]
             k == SelectInSeq(choices, LAMBDA c : c.label = label)
  <2>1. k = IF at(label) # {} THEN Min(at(label)) ELSE 0
    BY DEF SelectInSeq
  <2>2. at(label) = {i}
    BY <1>1, <1>2, <1>3 DEF IsInjective
  <2>3. GaugeOfLabel(label) = IF k = 0 THEN NoGauge ELSE choices[k].gauge
    BY DEF GaugeOfLabel
  <2>4. i \in Nat \ {0}
    BY <1>2
  <2> HIDE DEF at, label, k
  <2>5. Min({i}) = i
    BY <2>4 DEF Min
  <2>6. k = i
    BY <2>1, <2>2, <2>5
  <2> QED
    BY <1>2, <2>3, <2>4, <2>6 DEF label
<1> QED
  BY <1>1, <1>2, <1>3 DEF Scored

-----------------------------------------------------------------------------
(* Whatever was voted for in the round before, and whatever the Safe and   *)
(* the keepers have done since snapshot:result: the votes, cast in the     *)
(* order it gives them, never need more weight than is free, so that       *)
(* booster.voteGaugeWeight takes them all.                                 *)
THEOREM VotesStayCastable == Spec => []VotesFitPower
<1>1. RInv /\ VInv => VotesFitPower
  <2> SUFFICES ASSUME RInv, VInv, votes # NoVotes PROVE CastVotes(main, votes) # {}
    BY DEF VotesFitPower
  <2>1. main \in ChainStates /\ Castable(votes, main.power)
    BY DEF RInv, MainOK, VInv, PowerKept
  <2>2. CastVotes(main, votes) = {[main EXCEPT !.power = After(votes, main.power, Len(votes))]}
    BY <2>1, CastsWhenFits
  <2> QED
    BY <2>2
<1> QED
  BY <1>1, VotesAlways, PTL

(* What VotesGoWhereMeant says of a step that has a result.                *)
LEMMA ResultGoesWhereMeant ==
  ASSUME VInv, main.power \in [Gauges -> Nat], Result(main.power), ChoicesAreMeant
  PROVE  /\ \A k \in DOMAIN votes' : votes'[k].weight > 0 => votes'[k].gauge \in ToSet(proposal.meant)
         /\ \A i, j \in DOMAIN proposal.meant :
              proposal.scores[i] > proposal.scores[j]
                => WeightIn(votes', proposal.meant[i]) >= WeightIn(votes', proposal.meant[j])
<1> DEFINE I == DOMAIN proposal.labels
           vs == votes'
           meant == proposal.meant
           scores == proposal.scores
<1>1. ProposalKept /\ ChoicesListed /\ proposal.state = "final"
  BY DEF VInv, Result
<1>2. PICK ranked, R : AreVotesOf(vs, ranked, R)
  BY <1>1, ResultVotes
<1> DEFINE w == Weights(ranked)
<1>3. /\ vs \in Seq(Votes) /\ EachOnce(vs)
      /\ w \in [DOMAIN ranked -> Nat]
      /\ \A a, b \in DOMAIN ranked : a < b => w[b] <= w[a]
      /\ \A v \in ToSet(vs) : v.weight # 0 => \E a \in DOMAIN ranked : v.gauge = ranked[a].gauge /\ v.weight = w[a]
      /\ \A g \in ListedGauges : status[g] # "unlisted" =>
           \A a \in DOMAIN ranked : ranked[a].gauge = g =>
             \E v \in ToSet(vs) : \E b \in DOMAIN ranked : v.gauge = g /\ ranked[b].gauge = g /\ v.weight = w[b]
  BY <1>2 DEF AreVotesOf, AreVotesFor
<1>4. /\ ranked \in Seq(R)
      /\ \A r \in R : \E i \in I : r = Scored(i)
      /\ \A a, b \in DOMAIN ranked : a < b => ranked[b].score <= ranked[a].score
      /\ \A i, j \in I : Scored(j) \in R /\ scores[i] > scores[j] => \E a \in DOMAIN ranked : ranked[a] = Scored(i)
  BY <1>2 DEF AreVotesOf, AreSuccessful
<1>5. /\ \A i \in I : /\ Scored(i).gauge = meant[i] /\ Scored(i).score = scores[i]
                      /\ meant[i] \in ListedGauges /\ status[meant[i]] # "unlisted"
      /\ \A i, j \in I : meant[i] = meant[j] => i = j
  BY <1>1, LabelsFindGauges
<1>6. DOMAIN meant = I /\ scores \in [I -> Nat]
  BY <1>1 DEF ProposalKept
<1>7. DOMAIN ranked = 1 .. Len(ranked) /\ Len(ranked) \in Nat /\ \A a \in DOMAIN ranked : ranked[a] \in R
  BY <1>4
<1> HIDE DEF I, vs, meant, scores, w
<1>8. \A a \in DOMAIN ranked : \E i \in I : ranked[a] = Scored(i)
  BY <1>4, <1>7
<1>9. ASSUME NEW k \in DOMAIN vs, vs[k].weight > 0 PROVE vs[k].gauge \in ToSet(meant)
  <2>1. vs[k] \in ToSet(vs) /\ vs[k].weight # 0
    BY <1>9 DEF ToSet
  <2>2. PICK a \in DOMAIN ranked : vs[k].gauge = ranked[a].gauge
    BY <1>3, <2>1
  <2>3. PICK i \in I : ranked[a] = Scored(i)
    BY <1>8
  <2> QED
    BY <1>5, <1>6, <2>2, <2>3 DEF ToSet
<1>10. ASSUME NEW i \in I, NEW j \in I, scores[i] > scores[j]
       PROVE  WeightIn(vs, meant[i]) >= WeightIn(vs, meant[j])
  <2> DEFINE wi == WeightIn(vs, meant[i])
             wj == WeightIn(vs, meant[j])
  <2>1. /\ wi \in Nat /\ \A v \in ToSet(vs) : v.gauge = meant[i] => wi = v.weight
        /\ wj \in Nat /\ (wj # 0 => \E v \in ToSet(vs) : v.gauge = meant[j] /\ v.weight = wj)
    BY <1>3, WeightOfVote
  <2> HIDE DEF wi, wj
  <2>2. CASE wj = 0
    BY <2>1, <2>2 DEF wi, wj
  <2>3. CASE wj # 0
    <3>1. PICK v \in ToSet(vs) : v.gauge = meant[j] /\ v.weight = wj
      BY <2>1, <2>3
    <3>2. PICK b \in DOMAIN ranked : v.gauge = ranked[b].gauge /\ v.weight = w[b]
      BY <1>3, <2>3, <3>1
    <3>3. ranked[b] = Scored(j)
      <4>1. PICK m \in I : ranked[b] = Scored(m)
        BY <1>8
      <4>2. meant[m] = meant[j]
        BY <1>5, <3>1, <3>2, <4>1
      <4> QED
        BY <1>5, <4>1, <4>2
    <3>4. PICK a \in DOMAIN ranked : ranked[a] = Scored(i)
      BY <1>4, <1>7, <1>10, <3>3
    <3>5. ranked[a].gauge = meant[i]
      BY <1>5, <3>4
    <3>6. PICK u \in ToSet(vs), c \in DOMAIN ranked : u.gauge = meant[i] /\ ranked[c].gauge = meant[i] /\ u.weight = w[c]
      BY <1>3, <1>5, <3>5
    <3>7. ranked[c] = Scored(i)
      <4>1. PICK m \in I : ranked[c] = Scored(m)
        BY <1>8
      <4>2. meant[m] = meant[i]
        BY <1>5, <3>6, <4>1
      <4> QED
        BY <1>5, <4>1, <4>2
    <3>8. ranked[c].score = scores[i] /\ ranked[b].score = scores[j]
      BY <1>5, <3>3, <3>7
    <3>9. ~(b <= c)
      <4>1. scores[i] \in Nat /\ scores[j] \in Nat
        BY <1>6
      <4>2. b < c => ranked[c].score <= ranked[b].score
        BY <1>4
      <4>3. b = c => ranked[b].score = ranked[c].score
        OBVIOUS
      <4> QED
        BY <1>7, <1>10, <3>8, <4>1, <4>2, <4>3
    <3>10. c < b
      BY <1>7, <3>9
    <3>11. w[b] <= w[c]
      BY <1>3, <3>10
    <3>12. wi = w[c] /\ wj = w[b]
      BY <2>1, <3>1, <3>2, <3>6
    <3> QED
      BY <2>1, <3>11, <3>12 DEF wi, wj
  <2> QED
    BY <2>2, <2>3
<1> QED
  BY <1>6, <1>9, <1>10 DEF vs, meant, scores

(* A proposal knows labels only, and gauge_choices.json may be generated   *)
(* anew before snapshot:result looks them up.  If it is what it was: the   *)
(* votes are those that were meant, the more the higher the score.         *)
THEOREM VotesFollowScores == Spec => VotesGoWhereMeant
<1> DEFINE meantStep ==
      votes' # votes /\ ChoicesAreMeant =>
        /\ \A k \in DOMAIN votes' : votes'[k].weight > 0 => votes'[k].gauge \in ToSet(proposal.meant)
        /\ \A i, j \in DOMAIN proposal.meant :
             proposal.scores[i] > proposal.scores[j]
               => WeightIn(votes', proposal.meant[i]) >= WeightIn(votes', proposal.meant[j])
<1>1. RInv /\ VInv /\ [Next]_vars => [meantStep]_vars
  <2> SUFFICES ASSUME RInv, VInv, [Next]_vars, votes' # votes, ChoicesAreMeant PROVE meantStep
    OBVIOUS
  <2>1. main.power \in [Gauges -> Nat]
    BY DEF RInv, MainOK, ChainStates
  <2>2. Result(main.power)
    <3>1. CASE UNCHANGED vars
      BY <3>1 DEF vars, snapshotVars
    <3>2. CASE Listing \/ Distribution
      BY <3>2 DEF Listing, Distribution, snapshotVars
    <3>3. CASE Snapshot
      BY <3>3 DEF Snapshot, SnapshotNext, Generate, ChangeStatus, Create, Close
    <3> QED
      BY <3>1, <3>2, <3>3 DEF Next
  <2> QED
    BY <2>1, <2>2, ResultGoesWhereMeant
<1>2. Spec => [][meantStep]_vars
  BY <1>1, VotesAlways, PTL DEF Spec
<1> QED
  BY <1>2 DEF VotesGoWhereMeant

-----------------------------------------------------------------------------
(* A batch, transaction by transaction.                                    *)

(* The states that a chain can be in.                                      *)
Chains == {s \in ChainStates : KnownPools(s)}

LEMMA BatchSteps ==
  ASSUME NEW chain \in Chains, NEW txs \in Seq(Transactions), NEW isMain \in BOOLEAN
  PROVE  \E run : /\ run[1 .. 0] = {chain} /\ Execute(chain, txs, isMain) = run[1 .. Len(txs)]
                  /\ \A k \in 0 .. Len(txs) : run[1 .. k] \subseteq Chains
                  /\ \A k \in 1 .. Len(txs) : run[1 .. k] = Effects(run[1 .. (k - 1)], txs[k], isMain)
<1> DEFINE n == Len(txs)
           I == 1 .. n
           V == SUBSET Chains
           next == [i \in I |-> [S \in V |-> Effects(S, txs[i], isMain)]]
           run == CHOOSE r : IsRun(r, chain, txs, isMain, I)
<1>1. n \in Nat /\ DOMAIN txs = I /\ \A i \in I : txs[i] \in Transactions
  OBVIOUS
<1>2. I \in SUBSET Int /\ IsFiniteSet(I)
  BY <1>1, FS_Interval
<1>3. ASSUME NEW S \in V, NEW i \in I PROVE Effects(S, txs[i], isMain) \in V
  <2>1. ASSUME NEW s \in S, NEW t \in Effect(s, txs[i], isMain) PROVE t \in Chains
    <3>1. s \in ChainStates /\ KnownPools(s)
      BY DEF Chains
    <3>2. Follows(s, t)
      BY <1>1, <3>1, EffectFollows
    <3> QED
      BY <3>2 DEF Follows, Chains
  <2> QED
    BY <2>1 DEF Effects
<1>4. {chain} \in V /\ next \in [I -> [V -> V]]
  BY <1>3
<1>5. \A i \in I, S \in V : next[i][S] = Effects(S, txs[i], isMain)
  OBVIOUS
<1> HIDE DEF V, next, n
<1>6. PICK r : StaysInside(r, next, {chain}, V, I)
  BY <1>2, <1>4, FoldInside
<1>7. \A s \in (SUBSET I) \ {{}} : Max(s) \in I
  BY <1>6 DEF StaysInside
<1>8. ASSUME NEW s \in SUBSET I
      PROVE  r[s] = IF s = {} THEN {chain} ELSE Effects(r[s \ {Max(s)}], txs[Max(s)], isMain)
  <2>1. CASE s = {}
    BY <1>6, <2>1 DEF StaysInside
  <2>2. CASE s # {}
    <3>1. Max(s) \in I /\ r[s] = next[Max(s)][r[s \ {Max(s)}]] /\ r[s \ {Max(s)}] \in V
      BY <1>6, <2>2 DEF StaysInside
    <3> QED
      BY <1>5, <2>2, <3>1
  <2> QED
    BY <2>1, <2>2
<1>9. IsRun(r, chain, txs, isMain, I)
  <2>1. r = [s \in SUBSET I |-> r[s]]
    BY <1>6 DEF StaysInside
  <2>2. r = [s \in SUBSET I |-> IF s = {} THEN {chain} ELSE Effects(r[s \ {Max(s)}], txs[Max(s)], isMain)]
    BY <1>8, <2>1
  <2> QED
    BY <2>2, Zenon DEF IsRun
<1>10. IsRun(run, chain, txs, isMain, I)
  BY <1>9
<1> HIDE DEF run
<1>11. \A s \in SUBSET I : run[s] = IF s = {} THEN {chain}
                                    ELSE Effects(run[s \ {Max(s)}], txs[Max(s)], isMain)
  <2> HIDE DEF I
  <2> QED
    BY <1>10 DEF IsRun
<1>12. \A s \in SUBSET I : s = {} => run[s] = {chain}
  BY <1>11
<1>13. \A s \in SUBSET I :
         s # {} /\ run[s \ {Max(s)}] \in V => run[s] = next[Max(s)][run[s \ {Max(s)}]]
  BY <1>5, <1>7, <1>11
<1>14. n \in Nat
  BY <1>1
<1>15. StepsAlong(run, next, {chain}, V, n)
  BY <1>4, <1>12, <1>13, <1>14, StepsFromFold
<1>16. Execute(chain, txs, isMain) = run[I]
  BY <1>1, ExecuteIsRun DEF run
<1>17. ASSUME NEW k \in 1 .. n PROVE run[1 .. k] = Effects(run[1 .. (k - 1)], txs[k], isMain)
  <2>1. run[1 .. k] = next[k][run[1 .. (k - 1)]] /\ k - 1 \in 0 .. n
    BY <1>14, <1>15 DEF StepsAlong
  <2>2. run[1 .. (k - 1)] \in V
    BY <1>15, <2>1 DEF StepsAlong
  <2> QED
    BY <1>5, <2>1, <2>2
<1>18. run[1 .. 0] = {chain} /\ \A k \in 0 .. n : run[1 .. k] \in V
  BY <1>15 DEF StepsAlong
<1> QED
  BY <1>16, <1>17, <1>18 DEF n, V

(* What t may not have changed of s: what the contracts know of gauges ... *)
SamePools(s, t) == t.pools = s.pools /\ t.rewarded = s.rewarded /\ t.poolId = s.poolId
(* ... and what matters to a vote.                                         *)
SamePlaces(s, t) == t.dst = s.dst /\ t.noDeposit = s.noDeposit
SameVote(s, t) ==
  t.power = s.power /\ t.totalWeight = s.totalWeight /\ t.rewardPerEpoch = s.rewardPerEpoch

(* What each transaction changes.                                          *)
LEMMA AddPoolChanges ==
  ASSUME NEW s \in ChainStates, NEW tx, tx.fn = "addPool", NEW isMain \in BOOLEAN, NEW t \in Effect(s, tx, isMain)
  PROVE  /\ t.pools = Append(s.pools, tx.gauge) /\ ~Has(s, tx.gauge)
         /\ t.rewarded = s.rewarded /\ t.poolId = s.poolId /\ SamePlaces(s, t) /\ SameVote(s, t)
<1>1. t \in AddPool(s, tx.gauge, IF isMain THEN weighted ELSE SideGauges)
  BY DEF Effect
<1>2. t = [s EXCEPT !.pools = Append(@, tx.gauge)] /\ ~Has(s, tx.gauge)
  BY <1>1 DEF AddPool, When
<1> QED
  BY <1>2 DEF ChainStates, SamePlaces, SameVote

LEMMA StashChanges ==
  ASSUME NEW s \in ChainStates, NEW tx, tx.fn = "setStashExtraReward", NEW isMain \in BOOLEAN,
         NEW t \in Effect(s, tx, isMain)
  PROVE  /\ t.rewarded = s.rewarded \cup {tx.pid}
         /\ t.pools = s.pools /\ t.poolId = s.poolId /\ SamePlaces(s, t) /\ SameVote(s, t)
<1>1. t = [s EXCEPT !.rewarded = @ \cup {tx.pid}]
  BY DEF Effect, SetStashExtraReward, When
<1> QED
  BY <1>1 DEF ChainStates, SamePlaces, SameVote

LEMMA PoolIdsChange ==
  ASSUME NEW s \in ChainStates, NEW tx, tx.fn = "setPoolIds", NEW isMain \in BOOLEAN, NEW t \in Effect(s, tx, isMain)
  PROVE  /\ tx.from .. tx.to - 1 \subseteq DOMAIN s.pools
         /\ \A g \in Gauges : t.poolId[g] = IF g \in Mapped(s, tx.from, tx.to) THEN PidOf(s, g) ELSE s.poolId[g]
         /\ isMain => \A g \in Gauges :
              t.dst[g] = IF g \in Mapped(s, tx.from, tx.to) /\ s.dst[g] = "none" THEN "main" ELSE s.dst[g]
         /\ t.pools = s.pools /\ t.rewarded = s.rewarded /\ t.noDeposit = s.noDeposit /\ SameVote(s, t)
<1> DEFINE ids == [g \in Gauges |-> IF g \in Mapped(s, tx.from, tx.to) THEN PidOf(s, g) ELSE s.poolId[g]]
           dst == [g \in Gauges |-> IF g \in Mapped(s, tx.from, tx.to) /\ s.dst[g] = "none"
                                    THEN "main" ELSE s.dst[g]]
           mapped == [s EXCEPT !.poolId = ids]
<1>1. ASSUME NEW u \in SetPoolIds(s, tx.from, tx.to) PROVE u = mapped /\ tx.from .. tx.to - 1 \subseteq DOMAIN s.pools
  BY DEF SetPoolIds, When
<1>2. CASE isMain
  <2>1. PICK u \in SetPoolIds(s, tx.from, tx.to) : t = [u EXCEPT !.dst = dst]
    BY <1>2 DEF Effect, SetMainPoolIds
  <2>2. u = mapped /\ tx.from .. tx.to - 1 \subseteq DOMAIN s.pools
    BY <1>1
  <2> HIDE DEF dst, ids
  <2>3. t.poolId = ids /\ t.dst = dst /\ t.pools = s.pools /\ t.rewarded = s.rewarded
        /\ t.noDeposit = s.noDeposit /\ SameVote(s, t)
    BY <2>1, <2>2 DEF ChainStates, SameVote
  <2> QED
    BY <2>2, <2>3 DEF dst, ids
<1>3. CASE ~isMain
  <2>1. t \in SetPoolIds(s, tx.from, tx.to)
    BY <1>3 DEF Effect
  <2>2. t = mapped /\ tx.from .. tx.to - 1 \subseteq DOMAIN s.pools
    BY <1>1, <2>1
  <2> HIDE DEF ids, dst
  <2>3. t.poolId = ids /\ t.pools = s.pools /\ t.rewarded = s.rewarded
        /\ t.noDeposit = s.noDeposit /\ SameVote(s, t)
    BY <2>2 DEF ChainStates, SameVote
  <2> QED
    BY <1>3, <2>2, <2>3 DEF ids
<1> QED
  BY <1>2, <1>3

LEMMA DepositChanges ==
  ASSUME NEW s \in ChainStates, NEW tx, tx.fn = "setIsNoDepositGauge", tx.flag = TRUE, NEW isMain \in BOOLEAN,
         NEW t \in Effect(s, tx, isMain)
  PROVE  /\ t.noDeposit = s.noDeposit \cup {tx.gauge}
         /\ t.dst = s.dst /\ SamePools(s, t) /\ SameVote(s, t)
<1>1. t = [s EXCEPT !.noDeposit = @ \cup {tx.gauge}]
  BY DEF Effect, SetIsNoDepositGauge
<1> QED
  BY <1>1 DEF ChainStates, SamePools, SameVote

LEMMA DstChainChanges ==
  ASSUME NEW s \in ChainStates, NEW tx, tx.fn = "setDstChainId", NEW isMain \in BOOLEAN, NEW t \in Effect(s, tx, isMain)
  PROVE  /\ t.dst = [s.dst EXCEPT ![tx.gauge] = "side"]
         /\ t.noDeposit = s.noDeposit /\ SamePools(s, t) /\ SameVote(s, t)
<1> DEFINE dst == [s.dst EXCEPT ![tx.gauge] = "side"]
<1>1. t = [s EXCEPT !.dst = dst]
  BY DEF Effect, SetDstChainId
<1> HIDE DEF dst
<1>2. t.dst = dst /\ t.noDeposit = s.noDeposit /\ SamePools(s, t) /\ SameVote(s, t)
  BY <1>1 DEF ChainStates, SamePools, SameVote
<1> QED
  BY <1>2 DEF dst

LEMMA VotingChanges ==
  ASSUME NEW s \in ChainStates, NEW tx, tx.fn = "voteGaugeWeight", tx.votes \in VoteSeqs, NEW isMain \in BOOLEAN,
         NEW t \in Effect(s, tx, isMain)
  PROVE  SamePools(s, t)
<1> DEFINE cast == tx.votes
           weight == [k \in DOMAIN cast |-> cast[k].weight]
           deposit == {k \in DOMAIN cast : cast[k].gauge \notin s.noDeposit}
           last == LastWeights(cast, deposit)
           total == SumFunctionOnSet(weight, deposit)
           voted == [s EXCEPT !.weightOf = last, !.totalWeight = total]
<1>1. t \in CastVotes(voted, cast)
  BY DEF Effect, VoteGaugeWeight, When, LastWeights
<1>2. last \in [Gauges -> Nat] /\ total \in Nat
  BY LastWeightsFit
<1> HIDE DEF last, total
<1>3. voted \in ChainStates /\ SamePools(s, voted)
  BY <1>2 DEF ChainStates, SamePools
<1> HIDE DEF voted
<1>4. SameButPower(voted, t)
  BY <1>1, <1>3, CastingStays
<1> QED
  BY <1>3, <1>4 DEF SameButPower, SamePools

-----------------------------------------------------------------------------
(* What the tasks make.                                                    *)

(* What comes after the listing of n gauges on a chain that had known      *)
(* pools: ids for the pools up to the last new one, and where gauges are.  *)
Closing(known, n) ==
  {PoolIdsTx(from, known + n + 1) : from \in 1 .. known + 1}
  \cup {NoDepositTx(g, TRUE) : g \in Gauges} \cup {DstChainTx(g) : g \in Gauges}

(* at says where the gauges of added are added, each with its stash.       *)
Adding(txs, known, added, at) ==
  /\ at \in [DOMAIN added -> Nat]
  /\ \A i, j \in DOMAIN added : i < j => at[i] < at[j]
  /\ \A i \in DOMAIN added :
       /\ at[i] \in DOMAIN txs /\ at[i] + 1 \in DOMAIN txs
       /\ txs[at[i]] = AddPoolTx(added[i]) /\ txs[at[i] + 1] = StashTx(known + i)

(* A batch: gauges are added, then their ids are set and, on mainnet, their*)
(* places and votes.                                                       *)
Made(txs, known, added, at, isMain) ==
  /\ DOMAIN txs = 1 .. Len(txs) /\ Len(txs) \in Nat
  /\ Adding(txs, known, added, at)
  /\ \A k \in DOMAIN txs :
       \/ txs[k].fn = "list"
       \/ \E i \in DOMAIN added : k = at[i] \/ k = at[i] + 1
       \/ /\ \A i \in DOMAIN added : at[i] + 1 < k
          /\ \/ txs[k] \in Closing(known, Len(added)) /\ (isMain \/ txs[k].fn = "setPoolIds")
             \/ isMain /\ k = Len(txs) /\ txs[k] = VoteTx(txs[k].votes)
  /\ added # <<>> => \E k \in DOMAIN txs : txs[k].fn = "setPoolIds"

(* Made for a chain that has none of the gauges.                           *)
MadeFor(txs, chain, added, at, isMain) ==
  /\ added \in Seq(Gauges) /\ IsInjective(added) /\ ToSet(added) \cap ToSet(chain.pools) = {}
  /\ Made(txs, Len(chain.pools), added, at, isMain)

(* The first k transactions have led to s.                                 *)
Reached(s, chain, txs, added, at, k) ==
  LET known == Len(chain.pools) IN
  /\ PoolsStay(chain, s)
  /\ Len(s.pools) <= known + Len(added)
  /\ \A i \in DOMAIN added : at[i] <= k <=> known + i \in DOMAIN s.pools
  /\ \A i \in DOMAIN added : at[i] <= k => s.pools[known + i] = added[i]
  /\ \A j \in 1 .. k : txs[j].fn = "setStashExtraReward" => txs[j].pid \in s.rewarded
  /\ \A j \in 1 .. k : txs[j].fn = "setPoolIds" => \A i \in DOMAIN added : s.poolId[added[i]] = known + i

(* What a transaction of such a batch is like, by where it is.             *)
Kind(tx, k, last, known, added, at, isMain) ==
  /\ tx.fn = "addPool" => \E i \in DOMAIN added : k = at[i] /\ tx.gauge = added[i]
  /\ tx.fn = "setStashExtraReward" => \E i \in DOMAIN added : k = at[i] + 1 /\ tx.pid = known + i
  /\ tx.fn \notin {"addPool", "setStashExtraReward"} => \A i \in DOMAIN added : at[i] + 1 < k
  /\ tx.fn = "setPoolIds" => tx.from \in 1 .. known + 1 /\ tx.to = known + Len(added) + 1
  /\ tx.fn = "setIsNoDepositGauge" => isMain /\ tx.flag = TRUE /\ tx.gauge \in Gauges
  /\ tx.fn = "setDstChainId" => isMain /\ tx.gauge \in Gauges
  /\ tx.fn = "voteGaugeWeight" => isMain /\ k = last
  /\ tx.fn # "addPool" => \A i \in DOMAIN added : at[i] # k

LEMMA KindOf ==
  ASSUME NEW txs, NEW known \in Nat, NEW added, NEW at, NEW isMain \in BOOLEAN, Made(txs, known, added, at, isMain),
         NEW k \in DOMAIN txs, txs[k] \in Transactions
  PROVE  Kind(txs[k], k, Len(txs), known, added, at, isMain)
<1> USE DEF Kind
<1>1. txs[k].fn # "list"
  BY DEF Transactions
<1>2. \A i \in DOMAIN added : txs[at[i]] = AddPoolTx(added[i]) /\ txs[at[i] + 1] = StashTx(known + i)
  BY DEF Made, Adding
<1>3. \A g : AddPoolTx(g).fn = "addPool" /\ AddPoolTx(g).gauge = g
  BY DEF AddPoolTx
<1>4. \A p : StashTx(p).fn = "setStashExtraReward" /\ StashTx(p).pid = p
  BY DEF StashTx
<1>5. \A tx \in Closing(known, Len(added)) :
        /\ tx.fn \in {"setPoolIds", "setIsNoDepositGauge", "setDstChainId"}
        /\ tx.fn = "setPoolIds" => tx.from \in 1 .. known + 1 /\ tx.to = known + Len(added) + 1
        /\ tx.fn = "setIsNoDepositGauge" => tx.flag = TRUE /\ tx.gauge \in Gauges
        /\ tx.fn = "setDstChainId" => tx.gauge \in Gauges
  BY DEF Closing, PoolIdsTx, NoDepositTx, DstChainTx
<1>6. \/ \E i \in DOMAIN added : k = at[i] \/ k = at[i] + 1
      \/ /\ \A i \in DOMAIN added : at[i] + 1 < k
         /\ \/ txs[k] \in Closing(known, Len(added)) /\ (isMain \/ txs[k].fn = "setPoolIds")
            \/ isMain /\ k = Len(txs) /\ txs[k] = VoteTx(txs[k].votes)
  BY <1>1 DEF Made
<1>7. txs[k].fn # "addPool" => \A i \in DOMAIN added : at[i] # k
  BY <1>2, <1>3
<1>8. CASE \E i \in DOMAIN added : k = at[i] \/ k = at[i] + 1
  BY <1>2, <1>3, <1>4, <1>7, <1>8
<1>9. CASE /\ \A i \in DOMAIN added : at[i] + 1 < k
           /\ \/ txs[k] \in Closing(known, Len(added)) /\ (isMain \/ txs[k].fn = "setPoolIds")
              \/ isMain /\ k = Len(txs) /\ txs[k] = VoteTx(txs[k].votes)
  <2>1. txs[k] = VoteTx(txs[k].votes) => txs[k].fn = "voteGaugeWeight"
    BY DEF VoteTx
  <2> QED
    BY <1>5, <1>7, <1>9, <2>1
<1> QED
  BY <1>6, <1>8, <1>9

(* The pool of a gauge that was added is the one after those before it.    *)
LEMMA PidOfAdded ==
  ASSUME NEW chain \in Chains, NEW txs, NEW added, NEW at, NEW isMain \in BOOLEAN,
         MadeFor(txs, chain, added, at, isMain),
         NEW k \in Nat, NEW s \in Chains, Reached(s, chain, txs, added, at, k),
         NEW i \in DOMAIN added, at[i] <= k
  PROVE  Has(s, added[i]) /\ PidOf(s, added[i]) = Len(chain.pools) + i
<1> DEFINE known == Len(chain.pools)
           pools == s.pools
           g == added[i]
<1>1. pools \in Seq(Gauges) /\ chain.pools \in Seq(Gauges) /\ added \in Seq(Gauges)
  BY DEF Chains, ChainStates, MadeFor
<1>2. /\ DOMAIN pools = 1 .. Len(pools) /\ Len(pools) \in Nat /\ known \in Nat
      /\ DOMAIN chain.pools = 1 .. known /\ DOMAIN added = 1 .. Len(added) /\ Len(added) \in Nat
  BY <1>1
<1>3. /\ known + i \in DOMAIN pools /\ pools[known + i] = g /\ Len(pools) <= known + Len(added)
      /\ \A p \in DOMAIN chain.pools : p \in DOMAIN pools /\ pools[p] = chain.pools[p]
      /\ \A j \in DOMAIN added : known + j \in DOMAIN pools => pools[known + j] = added[j]
  BY DEF Reached, PoolsStay
<1>4. \A p \in DOMAIN chain.pools : chain.pools[p] # g
  BY DEF MadeFor, ToSet
<1>5. \A j \in DOMAIN added : added[j] = g => j = i
  BY DEF MadeFor, IsInjective
<1> HIDE DEF known, pools, g
<1>6. ASSUME NEW p \in DOMAIN pools, pools[p] = g PROVE p = known + i
  <2>1. p \notin DOMAIN chain.pools
    BY <1>3, <1>4, <1>6
  <2>2. p - known \in DOMAIN added /\ p = known + (p - known)
    BY <1>2, <1>3, <2>1
  <2> QED
    BY <1>3, <1>5, <1>6, <2>2
<1>7. (CHOOSE p \in DOMAIN pools : pools[p] = g) = known + i
  BY <1>3, <1>6
<1>8. \E p \in DOMAIN pools : pools[p] = g
  BY <1>3
<1> QED
  BY <1>7, <1>8 DEF Has, PidOf, ToSet, pools, g, known

(* One transaction more.                                                   *)
LEMMA ReachedNext ==
  ASSUME NEW chain \in Chains, NEW txs, NEW added, NEW at, NEW isMain \in BOOLEAN,
         MadeFor(txs, chain, added, at, isMain),
         NEW k \in 1 .. Len(txs), txs[k] \in Transactions,
         NEW s \in Chains, Reached(s, chain, txs, added, at, k - 1),
         NEW t \in Effect(s, txs[k], isMain)
  PROVE  t \in Chains /\ Reached(t, chain, txs, added, at, k)
<1> DEFINE known == Len(chain.pools)
           tx == txs[k]
           stashes(u, m) == \A j \in 1 .. m : txs[j].fn = "setStashExtraReward" => txs[j].pid \in u.rewarded
           ids(u, m) == \A j \in 1 .. m : txs[j].fn = "setPoolIds" => \A i \in DOMAIN added : u.poolId[added[i]] = known + i
<1>1. /\ s.pools \in Seq(Gauges) /\ chain.pools \in Seq(Gauges) /\ added \in Seq(Gauges)
      /\ s \in ChainStates /\ KnownPools(s)
  BY DEF Chains, ChainStates, MadeFor
<1>2. /\ DOMAIN s.pools = 1 .. Len(s.pools) /\ Len(s.pools) \in Nat /\ known \in Nat
      /\ DOMAIN chain.pools = 1 .. known /\ DOMAIN added = 1 .. Len(added) /\ Len(added) \in Nat
  BY <1>1
<1>3. Made(txs, known, added, at, isMain) /\ DOMAIN txs = 1 .. Len(txs) /\ Len(txs) \in Nat
  BY DEF MadeFor, Made
<1>4. Adding(txs, known, added, at)
  BY <1>3 DEF Made
<1>5. /\ PoolsStay(chain, s) /\ Len(s.pools) <= known + Len(added)
      /\ \A i \in DOMAIN added : at[i] <= k - 1 <=> known + i \in DOMAIN s.pools
      /\ \A i \in DOMAIN added : at[i] <= k - 1 => s.pools[known + i] = added[i]
      /\ stashes(s, k - 1) /\ ids(s, k - 1)
  BY DEF Reached
<1>6. Follows(s, t)
  BY <1>1, EffectFollows
<1>7. t \in Chains /\ PoolsStay(chain, t)
  BY <1>5, <1>6 DEF Follows, Chains, PoolsStay
<1>8. Kind(tx, k, Len(txs), known, added, at, isMain)
  <2>1. k \in DOMAIN txs /\ Len(chain.pools) \in Nat
    BY <1>2, <1>3
  <2> QED
    BY <1>3, <2>1, KindOf
<1>9. /\ \A i \in DOMAIN added : at[i] \in Nat
      /\ \A i, j \in DOMAIN added : i < j => at[i] < at[j]
  BY <1>4 DEF Adding
<1>10. \A j \in 1 .. k : j = k \/ j \in 1 .. (k - 1)
  BY <1>3
<1>11. k \in Nat /\ k - 1 \in Nat
  BY <1>3
<1> HIDE DEF known, stashes, ids
<1>12. CASE tx.fn = "addPool"
  <2>1. PICK i \in DOMAIN added : k = at[i] /\ tx.gauge = added[i]
    BY <1>8, <1>12 DEF Kind
  <2>2. /\ t.pools = Append(s.pools, tx.gauge) /\ t.rewarded = s.rewarded /\ t.poolId = s.poolId
    BY <1>1, <1>12, AddPoolChanges
  <2>3. Len(s.pools) = known + i - 1
    <3>1. known + i \notin DOMAIN s.pools
      BY <1>5, <1>11, <2>1
    <3>2. Len(s.pools) < known + i
      BY <1>2, <3>1
    <3>3. Len(s.pools) >= known
      <4>1. known = 0 \/ known \in DOMAIN s.pools
        BY <1>2, <1>5 DEF PoolsStay
      <4> QED
        BY <1>2, <4>1
    <3>4. i # 1 => known + i - 1 \in DOMAIN s.pools
      <4>1. ASSUME i # 1 PROVE known + (i - 1) \in DOMAIN s.pools
        <5>1. i - 1 \in DOMAIN added /\ i - 1 < i
          BY <1>2, <4>1
        <5>2. at[i - 1] < at[i]
          BY <1>9, <5>1
        <5>3. at[i - 1] <= k - 1
          BY <1>9, <1>11, <2>1, <5>1, <5>2
        <5> QED
          BY <1>5, <5>1, <5>3
      <4>2. known + (i - 1) = known + i - 1
        BY <1>2
      <4> QED
        BY <4>1, <4>2
    <3> QED
      BY <1>2, <3>2, <3>3, <3>4
  <2>4. /\ DOMAIN t.pools = 1 .. known + i /\ Len(t.pools) = known + i
        /\ t.pools[known + i] = added[i] /\ \A p \in DOMAIN s.pools : t.pools[p] = s.pools[p]
    BY <1>1, <1>2, <2>1, <2>2, <2>3
  <2>5. ASSUME NEW j \in DOMAIN added
        PROVE  at[j] <= k <=> known + j \in DOMAIN t.pools
    <3>1. at[j] <= k <=> j <= i
      BY <1>2, <1>9, <2>1
    <3> QED
      BY <1>2, <2>4, <3>1
  <2>6. ASSUME NEW j \in DOMAIN added, at[j] <= k
        PROVE  t.pools[known + j] = added[j]
    <3>1. CASE j = i
      BY <2>4, <3>1
    <3>2. CASE j # i
      <4>1. at[j] <= k - 1
        BY <1>2, <1>9, <1>11, <2>1, <2>6, <3>2
      <4> QED
        BY <1>5, <2>4, <4>1
    <3> QED
      BY <3>1, <3>2
  <2>7. stashes(t, k) /\ ids(t, k)
    BY <1>5, <1>10, <1>12, <2>2 DEF stashes, ids
  <2>8. Len(t.pools) <= known + Len(added)
    BY <1>2, <2>4
  <2> QED
    BY <1>7, <2>5, <2>6, <2>7, <2>8 DEF Reached, stashes, ids, known
<1>13. CASE tx.fn # "addPool"
  <2>1. \A i \in DOMAIN added : at[i] <= k <=> at[i] <= k - 1
    BY <1>8, <1>9, <1>11, <1>13 DEF Kind
  <2>2. ASSUME t.pools = s.pools, stashes(t, k), ids(t, k)
        PROVE  Reached(t, chain, txs, added, at, k)
    BY <1>5, <1>7, <2>1, <2>2 DEF Reached, stashes, ids, known
  <2>3. CASE tx.fn = "setStashExtraReward"
    <3>1. t.rewarded = s.rewarded \cup {tx.pid} /\ t.pools = s.pools /\ t.poolId = s.poolId
      BY <1>1, <2>3, StashChanges
    <3>2. stashes(t, k) /\ ids(t, k)
      BY <1>5, <1>10, <2>3, <3>1 DEF stashes, ids
    <3> QED
      BY <1>7, <2>2, <3>1, <3>2
  <2>4. CASE tx.fn = "setPoolIds"
    <3>1. /\ \A g \in Gauges : t.poolId[g] = IF g \in Mapped(s, tx.from, tx.to) THEN PidOf(s, g) ELSE s.poolId[g]
          /\ t.pools = s.pools /\ t.rewarded = s.rewarded
      <4>1. s \in ChainStates /\ txs[k].fn = "setPoolIds" /\ t \in Effect(s, txs[k], isMain)
        BY <1>1, <2>4
      <4> QED
        BY <4>1, PoolIdsChange
    <3>2. ASSUME NEW i \in DOMAIN added PROVE t.poolId[added[i]] = known + i
      <4>1. at[i] <= k - 1
        BY <1>8, <1>9, <1>11, <2>4 DEF Kind
      <4>2. PidOf(s, added[i]) = known + i
        BY <1>11, <4>1, PidOfAdded DEF known
      <4>3. s.pools[known + i] = added[i] /\ known + i \in tx.from .. tx.to - 1
        <5>1. tx.from \in 1 .. known + 1 /\ tx.to = known + Len(added) + 1
          BY <1>8, <2>4 DEF Kind
        <5>2. known + i \in tx.from .. tx.to - 1
          BY <1>2, <5>1
        <5> QED
          BY <1>5, <4>1, <5>2
      <4>4. added[i] \in Mapped(s, tx.from, tx.to) /\ added[i] \in Gauges
        BY <1>1, <4>3 DEF Mapped
      <4> QED
        BY <3>1, <4>2, <4>4
    <3>3. stashes(t, k)
      BY <1>5, <1>10, <2>4, <3>1 DEF stashes
    <3>4. ids(t, k)
      BY <3>2 DEF ids
    <3> QED
      BY <1>7, <2>2, <3>1, <3>3, <3>4
  <2>5. CASE tx.fn \notin {"setStashExtraReward", "setPoolIds"}
    <3>1. SamePools(s, t)
      <4>1. CASE tx.fn = "setIsNoDepositGauge"
        BY <1>1, <1>8, <4>1, DepositChanges DEF Kind
      <4>2. CASE tx.fn = "setDstChainId"
        BY <1>1, <4>2, DstChainChanges
      <4>3. CASE tx.fn = "voteGaugeWeight"
        <5>1. tx.votes \in VoteSeqs
          BY <4>3 DEF Transactions, VoteSeqs
        <5> QED
          BY <1>1, <4>3, <5>1, VotingChanges
      <4>4. tx.fn \in {"addPool", "setDstChainId", "setStashExtraReward", "setPoolIds", "setIsNoDepositGauge",
                       "voteGaugeWeight"}
        BY DEF Transactions
      <4> QED
        BY <1>13, <2>5, <4>1, <4>2, <4>3, <4>4
    <3>2. stashes(t, k) /\ ids(t, k)
      BY <1>5, <1>10, <2>5, <3>1 DEF stashes, ids, SamePools
    <3> QED
      BY <1>7, <2>2, <3>1, <3>2 DEF SamePools
  <2> QED
    BY <2>3, <2>4, <2>5
<1> QED
  BY <1>12, <1>13

LEMMA ReachedFirst ==
  ASSUME NEW chain \in Chains, NEW txs, NEW added, NEW at, NEW isMain \in BOOLEAN,
         MadeFor(txs, chain, added, at, isMain)
  PROVE  Reached(chain, chain, txs, added, at, 0)
<1>1. chain.pools \in Seq(Gauges) /\ added \in Seq(Gauges)
  BY DEF Chains, ChainStates, MadeFor
<1>2. /\ DOMAIN chain.pools = 1 .. Len(chain.pools) /\ Len(chain.pools) \in Nat
      /\ DOMAIN added = 1 .. Len(added) /\ Len(added) \in Nat
  BY <1>1
<1>3. \A i \in DOMAIN added : at[i] \in 1 .. Len(txs)
  BY DEF MadeFor, Made, Adding
<1>4. Len(txs) \in Nat
  BY DEF MadeFor, Made
<1>5. \A i \in DOMAIN added : ~(at[i] <= 0) /\ Len(chain.pools) + i \notin DOMAIN chain.pools
  BY <1>2, <1>3, <1>4
<1>6. PoolsStay(chain, chain) /\ 1 .. 0 = {}
  BY DEF PoolsStay
<1> QED
  BY <1>2, <1>5, <1>6 DEF Reached

(* As far as it gets.                                                      *)
LEMMA BatchReaches ==
  ASSUME NEW chain \in Chains, NEW txs \in Seq(Transactions), NEW added, NEW at, NEW isMain \in BOOLEAN,
         MadeFor(txs, chain, added, at, isMain), NEW run, run[1 .. 0] = {chain},
         \A k \in 0 .. Len(txs) : run[1 .. k] \subseteq Chains,
         \A k \in 1 .. Len(txs) : run[1 .. k] = Effects(run[1 .. (k - 1)], txs[k], isMain)
  PROVE  \A k \in 0 .. Len(txs) : \A s \in run[1 .. k] : Reached(s, chain, txs, added, at, k)
<1> DEFINE n == Len(txs)
           Bad == {k \in 0 .. n : \E s \in run[1 .. k] : ~Reached(s, chain, txs, added, at, k)}
<1>1. n \in Nat /\ DOMAIN txs = 1 .. n
  OBVIOUS
<1> SUFFICES ASSUME Bad # {} PROVE FALSE
  OBVIOUS
<1>2. PICK k \in Bad : \A m \in Bad : k <= m
  <2>1. Bad \in SUBSET Nat
    BY <1>1
  <2> HIDE DEF Bad
  <2> QED
    BY <2>1, SmallestExists
<1>3. PICK t \in run[1 .. k] : ~Reached(t, chain, txs, added, at, k)
  BY <1>2
<1>4. k # 0
  BY <1>3, ReachedFirst
<1>5. k \in 1 .. n /\ k - 1 \in 0 .. n
  BY <1>1, <1>2, <1>4
<1>6. PICK s \in run[1 .. (k - 1)] : t \in Effect(s, txs[k], isMain)
  <2>1. t \in Effects(run[1 .. (k - 1)], txs[k], isMain)
    BY <1>3, <1>5
  <2> QED
    BY <2>1 DEF Effects
<1>7. Reached(s, chain, txs, added, at, k - 1)
  <2>1. k - 1 \notin Bad
    BY <1>1, <1>2, <1>5
  <2> QED
    BY <1>5, <2>1
<1>8. s \in Chains /\ txs[k] \in Transactions
  BY <1>1, <1>5
<1> HIDE DEF Bad
<1> QED
  BY <1>3, <1>5, <1>6, <1>7, <1>8, ReachedNext

(* What a batch adds are the gauges that it was made for.                  *)
LEMMA AddsAreMade ==
  ASSUME NEW chain \in Chains, NEW txs \in Seq(Transactions), NEW added, NEW at, NEW isMain \in BOOLEAN,
         MadeFor(txs, chain, added, at, isMain), NEW g
  PROVE  g \in Adds(txs) <=> \E i \in DOMAIN added : added[i] = g
<1>1. chain.pools \in Seq(Gauges) /\ added \in Seq(Gauges) /\ Made(txs, Len(chain.pools), added, at, isMain)
  BY DEF Chains, ChainStates, MadeFor
<1>2. Len(chain.pools) \in Nat /\ \A i \in DOMAIN added : added[i] \in Gauges
  BY <1>1
<1>3. \A k \in DOMAIN txs : txs[k] \in Transactions
  OBVIOUS
<1>4. ASSUME g \in Adds(txs) PROVE \E i \in DOMAIN added : added[i] = g
  <2>1. PICK k \in DOMAIN txs : txs[k] = AddPoolTx(g)
    BY <1>4 DEF Adds
  <2>2. txs[k].fn = "addPool" /\ txs[k].gauge = g
    BY <2>1 DEF AddPoolTx
  <2>3. Kind(txs[k], k, Len(txs), Len(chain.pools), added, at, isMain)
    BY <1>1, <1>2, <1>3, KindOf
  <2> QED
    BY <2>2, <2>3 DEF Kind
<1>5. ASSUME NEW i \in DOMAIN added, added[i] = g PROVE g \in Adds(txs)
  <2>1. at[i] \in DOMAIN txs /\ txs[at[i]] = AddPoolTx(g) /\ g \in Gauges
    BY <1>1, <1>2, <1>5 DEF Made, Adding
  <2> QED
    BY <2>1 DEF Adds
<1> QED
  BY <1>4, <1>5

(* When it has been executed, those have all they need.                    *)
LEMMA BatchCompletes ==
  ASSUME NEW chain \in Chains, NEW txs, NEW added, NEW at, NEW isMain \in BOOLEAN,
         MadeFor(txs, chain, added, at, isMain), NEW s \in Execute(chain, txs, isMain)
  PROVE  \A g \in Adds(txs) : Complete(s, g)
<1>1. txs \in Seq(Transactions)
  BY DEF Execute
<1>2. PICK run : /\ run[1 .. 0] = {chain} /\ Execute(chain, txs, isMain) = run[1 .. Len(txs)]
                 /\ \A k \in 0 .. Len(txs) : run[1 .. k] \subseteq Chains
                 /\ \A k \in 1 .. Len(txs) : run[1 .. k] = Effects(run[1 .. (k - 1)], txs[k], isMain)
  BY <1>1, BatchSteps
<1> DEFINE n == Len(txs)
           known == Len(chain.pools)
<1>3. n \in Nat /\ n \in 0 .. n /\ DOMAIN txs = 1 .. n
  BY <1>1
<1>4. \A k \in 0 .. n : \A t \in run[1 .. k] : Reached(t, chain, txs, added, at, k)
  BY <1>1, <1>2, BatchReaches
<1>5. s \in Chains /\ Reached(s, chain, txs, added, at, n)
  BY <1>2, <1>3, <1>4
<1>6. ASSUME NEW g \in Adds(txs) PROVE Complete(s, g)
  <2>1. PICK i \in DOMAIN added : added[i] = g
    BY <1>1, AddsAreMade
  <2>2. /\ at[i] \in 1 .. n /\ at[i] + 1 \in 1 .. n /\ txs[at[i] + 1] = StashTx(known + i)
        /\ \E k \in 1 .. n : txs[k].fn = "setPoolIds"
    <3>1. added # <<>>
      BY <2>1
    <3> QED
      BY <1>3, <3>1 DEF MadeFor, Made, Adding
  <2>3. Has(s, g) /\ PidOf(s, g) = known + i
    <3>1. at[i] <= n
      BY <1>3, <2>2
    <3> QED
      BY <1>3, <1>5, <2>1, <3>1, PidOfAdded
  <2>4. known + i \in s.rewarded
    <3>1. txs[at[i] + 1].fn = "setStashExtraReward" /\ txs[at[i] + 1].pid = known + i
      BY <2>2 DEF StashTx
    <3>2. \A j \in 1 .. n : txs[j].fn = "setStashExtraReward" => txs[j].pid \in s.rewarded
      BY <1>5 DEF Reached
    <3> QED
      BY <2>2, <3>1, <3>2
  <2>5. s.poolId[g] = known + i
    BY <1>5, <2>1, <2>2 DEF Reached
  <2> HIDE DEF known
  <2> QED
    BY <2>3, <2>4, <2>5 DEF Complete
<1> QED
  BY <1>6

-----------------------------------------------------------------------------
(* What a task makes of the gauges, one after the other.                   *)

JoinStep(t, T) == [s \in Seq(T) |-> s \o t]

LEMMA FlatSteps ==
  ASSUME NEW T, NEW n \in Nat, NEW seqs \in [1 .. n -> Seq(T)]
  PROVE  \E flat : /\ StepsAlong(flat, [i \in 1 .. n |-> JoinStep(seqs[i], T)], <<>>, Seq(T), n)
                   /\ Flat(seqs) = flat[1 .. n]
<1> DEFINE I == 1 .. n
           V == Seq(T)
           next == [i \in I |-> JoinStep(seqs[i], T)]
           flat == CHOOSE r : IsFlattening(r, seqs, I)
<1>1. DOMAIN seqs = I /\ I \in SUBSET Int /\ IsFiniteSet(I)
  BY FS_Interval
<1>2. \A i \in I, t \in V : t \o seqs[i] \in V
  OBVIOUS
<1>3. <<>> \in V /\ next \in [I -> [V -> V]]
  BY <1>2 DEF JoinStep
<1>4. \A i \in I, t \in V : next[i][t] = t \o seqs[i]
  BY DEF JoinStep
<1> HIDE DEF V, next, I
<1>5. PICK r : StaysInside(r, next, <<>>, V, I)
  BY <1>1, <1>3, FoldInside
<1>6. \A t \in (SUBSET I) \ {{}} : Max(t) \in I
  BY <1>5 DEF StaysInside
<1>7. ASSUME NEW t \in SUBSET I
      PROVE  r[t] = IF t = {} THEN <<>> ELSE r[t \ {Max(t)}] \o seqs[Max(t)]
  <2>1. CASE t = {}
    BY <1>5, <2>1 DEF StaysInside
  <2>2. CASE t # {}
    <3>1. Max(t) \in I /\ r[t] = next[Max(t)][r[t \ {Max(t)}]] /\ r[t \ {Max(t)}] \in V
      BY <1>5, <2>2 DEF StaysInside
    <3> QED
      BY <1>4, <2>2, <3>1
  <2> QED
    BY <2>1, <2>2
<1>8. IsFlattening(r, seqs, I)
  <2>1. r = [t \in SUBSET I |-> r[t]]
    BY <1>5 DEF StaysInside
  <2>2. r = [t \in SUBSET I |-> IF t = {} THEN <<>> ELSE r[t \ {Max(t)}] \o seqs[Max(t)]]
    BY <1>7, <2>1
  <2> QED
    BY <2>2, Zenon DEF IsFlattening
<1>9. IsFlattening(flat, seqs, I)
  BY <1>8
<1> HIDE DEF flat
<1>10. \A t \in SUBSET I : flat[t] = IF t = {} THEN <<>> ELSE flat[t \ {Max(t)}] \o seqs[Max(t)]
  BY <1>9 DEF IsFlattening
<1>11. \A t \in SUBSET I : t = {} => flat[t] = <<>>
  BY <1>10
<1>12. \A t \in SUBSET I :
         t # {} /\ flat[t \ {Max(t)}] \in V => flat[t] = next[Max(t)][flat[t \ {Max(t)}]]
  BY <1>4, <1>6, <1>10
<1>13. StepsAlong(flat, next, <<>>, V, n)
  BY <1>3, <1>11, <1>12, StepsFromFold DEF I
<1>14. Flat(seqs) = flat[I]
  BY <1>1, FlatIsFlattening DEF flat
<1> QED
  BY <1>13, <1>14 DEF V, I, next

(* txs adds the first c gauges of added, at at, and does nothing else that *)
(* the builder would take.                                                 *)
Laid(txs, known, added, at, c) ==
  /\ at \in [1 .. c -> 1 .. Len(txs)]
  /\ \A i, j \in 1 .. c : i < j => at[i] < at[j]
  /\ \A i \in 1 .. c : at[i] + 1 \in 1 .. Len(txs)
                       /\ txs[at[i]] = AddPoolTx(added[i]) /\ txs[at[i] + 1] = StashTx(known + i)
  /\ \A p \in 1 .. Len(txs) : txs[p].fn = "list" \/ \E i \in 1 .. c : p = at[i] \/ p = at[i] + 1

LEMMA LaidWithList ==
  ASSUME NEW T, NEW txs \in Seq(T), NEW known \in Nat, NEW added, NEW at, NEW c \in Nat,
         Laid(txs, known, added, at, c), NEW x \in T, x.fn = "list"
  PROVE  Laid(txs \o <<x>>, known, added, at, c)
<1> DEFINE n == Len(txs)
           more == txs \o <<x>>
<1>1. n \in Nat /\ Len(more) = n + 1 /\ more[n + 1] = x /\ \A p \in 1 .. n : more[p] = txs[p]
  OBVIOUS
<1> HIDE DEF n, more
<1>2. /\ at \in [1 .. c -> 1 .. n]
      /\ \A i, j \in 1 .. c : i < j => at[i] < at[j]
      /\ \A i \in 1 .. c : at[i] + 1 \in 1 .. n
                           /\ txs[at[i]] = AddPoolTx(added[i]) /\ txs[at[i] + 1] = StashTx(known + i)
      /\ \A p \in 1 .. n : txs[p].fn = "list" \/ \E i \in 1 .. c : p = at[i] \/ p = at[i] + 1
  BY DEF Laid, n
<1>3. \A p \in 1 .. n + 1 : p = n + 1 \/ p \in 1 .. n
  BY <1>1
<1>4. \A p \in 1 .. n : p \in 1 .. n + 1
  BY <1>1
<1>5. at \in [1 .. c -> 1 .. n + 1]
  BY <1>2, <1>4
<1>6. \A i \in 1 .. c : at[i] + 1 \in 1 .. n + 1
                        /\ more[at[i]] = AddPoolTx(added[i]) /\ more[at[i] + 1] = StashTx(known + i)
  BY <1>1, <1>2, <1>4
<1>7. \A p \in 1 .. n + 1 : more[p].fn = "list" \/ \E i \in 1 .. c : p = at[i] \/ p = at[i] + 1
  BY <1>1, <1>2, <1>3
<1> QED
  BY <1>1, <1>2, <1>5, <1>6, <1>7 DEF Laid, more

LEMMA LaidWithPool ==
  ASSUME NEW T, NEW txs \in Seq(T), NEW known \in Nat, NEW added, NEW at, NEW c \in Nat,
         Laid(txs, known, added, at, c), NEW x \in T, NEW y \in T,
         x = AddPoolTx(added[c + 1]), y = StashTx(known + (c + 1))
  PROVE  \E new : Laid(txs \o <<x, y>>, known, added, new, c + 1)
<1> DEFINE n == Len(txs)
           more == txs \o <<x, y>>
           d == c + 1
           new == [i \in 1 .. d |-> IF i = d THEN n + 1 ELSE at[i]]
<1>1. n \in Nat /\ Len(more) = n + 2 /\ more[n + 1] = x /\ more[n + 2] = y /\ \A p \in 1 .. n : more[p] = txs[p]
  OBVIOUS
<1>2. /\ at \in [1 .. c -> 1 .. n]
      /\ \A i, j \in 1 .. c : i < j => at[i] < at[j]
      /\ \A i \in 1 .. c : at[i] + 1 \in 1 .. n
                           /\ txs[at[i]] = AddPoolTx(added[i]) /\ txs[at[i] + 1] = StashTx(known + i)
      /\ \A p \in 1 .. n : txs[p].fn = "list" \/ \E i \in 1 .. c : p = at[i] \/ p = at[i] + 1
  BY DEF Laid
<1> HIDE DEF n, more
<1>3. /\ \A p \in 1 .. n + 2 : p = n + 1 \/ p = n + 2 \/ p \in 1 .. n
      /\ \A p \in 1 .. n : p \in 1 .. n + 2
      /\ n + 1 \in 1 .. n + 2 /\ n + 2 \in 1 .. n + 2 /\ n + 1 + 1 = n + 2
  BY <1>1
<1>4. \A i \in 1 .. d : i = d \/ i \in 1 .. c
  OBVIOUS
<1>5. d \in 1 .. d /\ new[d] = n + 1 /\ \A i \in 1 .. c : i \in 1 .. d /\ new[i] = at[i] /\ i < d
  OBVIOUS
<1>6. new \in [1 .. d -> 1 .. n + 2]
  <2>1. \A i \in 1 .. d : new[i] \in 1 .. n + 2
    <3> HIDE DEF new, d
    <3> QED
      BY <1>2, <1>3, <1>4, <1>5
  <2> QED
    BY <2>1
<1>7. y = StashTx(known + d) /\ x = AddPoolTx(added[d])
  OBVIOUS
<1> HIDE DEF new, d
<1>8. \A i, j \in 1 .. d : i < j => new[i] < new[j]
  <2>1. ASSUME NEW i \in 1 .. d, NEW j \in 1 .. d, i < j PROVE new[i] < new[j]
    <3>1. i \in 1 .. c
      <4>1. i # d
        BY <2>1 DEF d
      <4> QED
        BY <1>4, <4>1
    <3>2. CASE j = d
      BY <1>1, <1>2, <1>5, <3>1, <3>2
    <3>3. CASE j \in 1 .. c
      BY <1>2, <1>5, <2>1, <3>1, <3>3
    <3> QED
      BY <1>4, <3>2, <3>3
  <2> QED
    BY <2>1
<1>9. \A i \in 1 .. d : new[i] + 1 \in 1 .. n + 2
                        /\ more[new[i]] = AddPoolTx(added[i]) /\ more[new[i] + 1] = StashTx(known + i)
  <2>1. \A i \in 1 .. c : new[i] + 1 \in 1 .. n + 2
                          /\ more[new[i]] = AddPoolTx(added[i]) /\ more[new[i] + 1] = StashTx(known + i)
    BY <1>1, <1>2, <1>3, <1>5
  <2>2. new[d] + 1 \in 1 .. n + 2 /\ more[new[d]] = AddPoolTx(added[d]) /\ more[new[d] + 1] = StashTx(known + d)
    BY <1>1, <1>3, <1>5, <1>7
  <2> QED
    BY <1>4, <2>1, <2>2
<1>10. \A p \in 1 .. n + 2 : more[p].fn = "list" \/ \E i \in 1 .. d : p = new[i] \/ p = new[i] + 1
  <2>1. ASSUME NEW p \in 1 .. n PROVE more[p].fn = "list" \/ \E i \in 1 .. d : p = new[i] \/ p = new[i] + 1
    BY <1>1, <1>2, <1>5
  <2> QED
    BY <1>3, <1>5, <2>1
<1>11. Laid(more, known, added, new, d)
  BY <1>1, <1>6, <1>8, <1>9, <1>10 DEF Laid
<1> QED
  BY <1>11 DEF more, d

(* The gauge at place i of those that are kept is found there.             *)
LEMMA PlaceOf ==
  ASSUME NEW T, NEW s \in Seq(T), IsInjective(s), NEW i \in DOMAIN s, NEW g, g = s[i]
  PROVE  LET I == {j \in 1 .. Len(s) : s[j] = g} IN I # {} /\ Min(I) = i
<1> DEFINE I == {j \in 1 .. Len(s) : s[j] = g}
<1>1. DOMAIN s = 1 .. Len(s) /\ i \in Nat
  OBVIOUS
<1>2. I = {i}
  BY <1>1 DEF IsInjective
<1> HIDE DEF I
<1>3. Min(I) = i
  BY <1>1, <1>2 DEF Min
<1> QED
  BY <1>2, <1>3 DEF I

(* What a task makes of a gauge: nothing, a list, or what adds it.         *)
MadeOf(seq, g, T, L, known, added) ==
  \/ g \notin L /\ (seq = <<>> \/ \E x \in T : seq = <<x>> /\ x.fn = "list")
  \/ g \in L /\ \A i \in DOMAIN added : added[i] = g =>
       \E x, y \in T : seq = <<x, y>> /\ x = AddPoolTx(g) /\ y = StashTx(known + i)

LEMMA PoolsAreLaid ==
  ASSUME NEW gauges \in Seq(Gauges), NEW L, NEW known \in Nat, NEW T, NEW seqs \in [1 .. Len(gauges) -> Seq(T)],
         \A m \in 1 .. Len(gauges) : MadeOf(seqs[m], gauges[m], T, L, known, Kept(gauges, L))
  PROVE  /\ Flat(seqs) \in Seq(T)
         /\ \E at : Laid(Flat(seqs), known, Kept(gauges, L), at, Len(Kept(gauges, L)))
<1> DEFINE n == Len(gauges)
           added == Kept(gauges, L)
           l == Len(added)
           next == [i \in 1 .. n |-> JoinStep(seqs[i], T)]
<1>1. n \in Nat /\ DOMAIN gauges = 1 .. n /\ n \in 0 .. n
  OBVIOUS
<1>2. PICK flat : StepsAlong(flat, next, <<>>, Seq(T), n) /\ Flat(seqs) = flat[1 .. n]
  BY <1>1, FlatSteps
<1>3. added \in Seq(Gauges) /\ \E sel : IsPicked(added, gauges, L, sel, n)
  BY KeptIsPicked
<1>4. PICK sel : IsPicked(added, gauges, L, sel, n)
  BY <1>3
<1>5. flat[1 .. 0] = <<>> /\ \A k \in 0 .. n : flat[1 .. k] \in Seq(T)
  BY <1>2 DEF StepsAlong
<1>6. ASSUME NEW k \in 1 .. n PROVE flat[1 .. k] = flat[1 .. (k - 1)] \o seqs[k]
  <2>1. flat[1 .. k] = next[k][flat[1 .. (k - 1)]]
    <3> HIDE DEF next
    <3> QED
      BY <1>2 DEF StepsAlong
  <2>2. flat[1 .. (k - 1)] \in Seq(T)
    BY <1>1, <1>5
  <2> QED
    BY <2>1, <2>2 DEF JoinStep
<1> HIDE DEF added, next
<1>7. /\ l \in Nat /\ DOMAIN added = 1 .. l /\ sel \in [1 .. l -> 1 .. n]
      /\ \A i \in 1 .. l : added[i] = gauges[sel[i]] /\ gauges[sel[i]] \in L
      /\ \A i, j \in 1 .. l : i < j => sel[i] < sel[j]
      /\ \A p \in 1 .. n : gauges[p] \in L => \E i \in 1 .. l : sel[i] = p
  BY <1>3, <1>4 DEF IsPicked
<1> DEFINE upTo(k, c) == c \in 0 .. l /\ \A i \in 1 .. l : sel[i] <= k <=> i <= c
           good(k) == \E c, at : upTo(k, c) /\ Laid(flat[1 .. k], known, added, at, c)
           Bad == {k \in 0 .. n : ~good(k)}
<1> HIDE DEF l
<1>8. Bad = {}
  <2> SUFFICES ASSUME Bad # {} PROVE FALSE
    OBVIOUS
  <2>1. PICK k \in Bad : \A m \in Bad : k <= m
    <3>1. Bad \in SUBSET Nat
      BY <1>1
    <3> HIDE DEF Bad
    <3> QED
      BY <3>1, SmallestExists
  <2>2. k \in 0 .. n /\ ~good(k)
    BY <2>1
  <2>3. k # 0
    <3>1. Laid(<<>>, known, added, <<>>, 0)
      BY DEF Laid
    <3>2. upTo(0, 0)
      BY <1>7
    <3>3. good(0)
      BY <1>5, <3>1, <3>2
    <3> QED
      BY <2>2, <3>3
  <2>4. k \in 1 .. n /\ k - 1 \in 0 .. n /\ k - 1 \in Nat /\ k \in Nat
    BY <1>1, <2>2, <2>3
  <2>5. good(k - 1)
    <3> HIDE DEF good
    <3>1. k - 1 \notin Bad
      <4> HIDE DEF Bad
      <4> QED
        BY <1>1, <2>1, <2>4
    <3> QED
      BY <2>4, <3>1
  <2>6. PICK c, at : upTo(k - 1, c) /\ Laid(flat[1 .. (k - 1)], known, added, at, c)
    BY <2>5
  <2> DEFINE txs == flat[1 .. (k - 1)]
             g == gauges[k]
  <2>7. txs \in Seq(T) /\ flat[1 .. k] = txs \o seqs[k] /\ c \in Nat
    BY <1>5, <1>6, <1>7, <2>4, <2>6
  <2>8. MadeOf(seqs[k], g, T, L, known, added)
    BY <2>4 DEF added
  <2> HIDE DEF txs, Bad, good
  <2>9. CASE g \notin L
    <3>1. upTo(k, c)
      <4>1. \A i \in 1 .. l : sel[i] # k
        BY <1>7, <2>9
      <4>2. \A i \in 1 .. l : sel[i] <= k <=> sel[i] <= k - 1
        BY <1>7, <2>4, <4>1
      <4> QED
        BY <2>6, <4>2
    <3>2. Laid(flat[1 .. k], known, added, at, c)
      <4>1. CASE seqs[k] = <<>>
        <5>1. flat[1 .. k] = txs
          BY <2>7, <4>1
        <5> QED
          BY <2>6, <5>1 DEF txs
      <4>2. CASE \E x \in T : seqs[k] = <<x>> /\ x.fn = "list"
        BY <2>6, <2>7, <4>2, LaidWithList DEF txs
      <4> QED
        BY <2>8, <2>9, <4>1, <4>2 DEF MadeOf
    <3>3. good(k)
      BY <3>1, <3>2 DEF good
    <3> QED
      BY <2>2, <3>3
  <2>10. CASE g \in L
    <3>1. PICK i \in 1 .. l : sel[i] = k
      BY <1>7, <2>4, <2>10
    <3>2. i = c + 1
      <4>1. ~(i <= c)
        BY <2>4, <2>6, <3>1
      <4>2. ASSUME i > c + 1 PROVE FALSE
        <5>1. c + 1 \in 1 .. l
          BY <1>7, <2>7, <4>2
        <5>2. sel[c + 1] < sel[i] /\ sel[c + 1] \in Int
          BY <1>7, <4>2, <5>1
        <5>3. sel[c + 1] <= k - 1
          BY <2>4, <3>1, <5>2
        <5>4. c + 1 <= c
          BY <2>6, <5>1, <5>3
        <5> QED
          BY <2>7, <5>4
      <4> QED
        BY <1>7, <2>7, <4>1, <4>2
    <3>3. upTo(k, c + 1)
      <4>1. c + 1 \in 0 .. l
        BY <1>7, <2>7, <3>2
      <4>2. ASSUME NEW j \in 1 .. l PROVE sel[j] <= k <=> j <= c + 1
        <5>1. CASE j < i
          <6>1. sel[j] < sel[i]
            BY <1>7, <5>1
          <6> QED
            BY <1>7, <3>1, <3>2, <5>1, <6>1
        <5>2. CASE i < j
          <6>1. sel[i] < sel[j]
            BY <1>7, <5>2
          <6> QED
            BY <1>7, <2>7, <3>1, <3>2, <5>2, <6>1
        <5>3. CASE j = i
          BY <2>4, <2>7, <3>1, <3>2, <5>3
        <5> QED
          BY <1>7, <5>1, <5>2, <5>3
      <4> QED
        BY <4>1, <4>2
    <3>4. added[c + 1] = g
      BY <1>7, <3>1, <3>2
    <3>5. PICK x \in T, y \in T : seqs[k] = <<x, y>> /\ x = AddPoolTx(g) /\ y = StashTx(known + i)
      BY <1>7, <2>8, <2>10, <3>2, <3>4 DEF MadeOf
    <3>6. \E new : Laid(txs \o <<x, y>>, known, added, new, c + 1)
      <4>1. x = AddPoolTx(added[c + 1]) /\ y = StashTx(known + (c + 1))
        BY <3>2, <3>4, <3>5
      <4> QED
        BY <2>6, <2>7, <4>1, LaidWithPool DEF txs
    <3>7. good(k)
      BY <2>7, <3>3, <3>5, <3>6 DEF good
    <3> QED
      BY <2>2, <3>7
  <2> QED
    BY <2>9, <2>10
<1>9. good(n)
  BY <1>1, <1>8
<1>10. PICK c, at : upTo(n, c) /\ Laid(flat[1 .. n], known, added, at, c)
  BY <1>9
<1>11. c = l
  <2>1. l # 0 => l <= c
    <3>1. ASSUME l # 0 PROVE l <= c
      <4>1. l \in 1 .. l /\ sel[l] <= n
        BY <1>1, <1>7, <3>1
      <4> QED
        BY <1>10, <4>1
    <3> QED
      BY <3>1
  <2> QED
    BY <1>7, <1>10, <2>1
<1>12. Laid(Flat(seqs), known, added, at, l)
  BY <1>2, <1>10, <1>11
<1>13. Flat(seqs) \in Seq(T)
  BY <1>1, <1>2, <1>5
<1> QED
  BY <1>12, <1>13 DEF l, added

(* After the pools come ids and, on mainnet, places.                       *)
Closes(tx, known, n, isMain) == tx \in Closing(known, n) /\ (isMain \/ tx.fn = "setPoolIds")

Going(txs, known, added, at, isMain) ==
  /\ at \in [1 .. Len(added) -> 1 .. Len(txs)]
  /\ \A i, j \in 1 .. Len(added) : i < j => at[i] < at[j]
  /\ \A i \in 1 .. Len(added) : at[i] + 1 \in 1 .. Len(txs)
       /\ txs[at[i]] = AddPoolTx(added[i]) /\ txs[at[i] + 1] = StashTx(known + i)
  /\ \A p \in 1 .. Len(txs) :
       \/ txs[p].fn = "list"
       \/ \E i \in 1 .. Len(added) : p = at[i] \/ p = at[i] + 1
       \/ (\A i \in 1 .. Len(added) : at[i] + 1 < p) /\ Closes(txs[p], known, Len(added), isMain)

LEMMA LaidGoes ==
  ASSUME NEW txs, NEW known, NEW added, NEW at, Laid(txs, known, added, at, Len(added)), NEW isMain
  PROVE  Going(txs, known, added, at, isMain)
BY DEF Laid, Going

LEMMA GoesOn ==
  ASSUME NEW T, NEW txs \in Seq(T), NEW more \in Seq(T), NEW known \in Nat, NEW added, NEW at, NEW isMain \in BOOLEAN,
         Going(txs, known, added, at, isMain),
         \A p \in DOMAIN more : Closes(more[p], known, Len(added), isMain)
  PROVE  txs \o more \in Seq(T) /\ Going(txs \o more, known, added, at, isMain)
<1> DEFINE n == Len(txs)
           m == Len(more)
           all == txs \o more
           l == Len(added)
<1>1. n \in Nat /\ m \in Nat /\ DOMAIN more = 1 .. m
  OBVIOUS
<1>2. all \in Seq(T) /\ Len(all) = n + m /\ \A p \in 1 .. n : all[p] = txs[p]
  OBVIOUS
<1>3. \A p \in (n + 1) .. (n + m) : all[p] = more[p - n] /\ p - n \in 1 .. m
  OBVIOUS
<1>4. /\ at \in [1 .. l -> 1 .. n]
      /\ \A i, j \in 1 .. l : i < j => at[i] < at[j]
      /\ \A i \in 1 .. l : at[i] + 1 \in 1 .. n
           /\ txs[at[i]] = AddPoolTx(added[i]) /\ txs[at[i] + 1] = StashTx(known + i)
      /\ \A p \in 1 .. n :
           \/ txs[p].fn = "list"
           \/ \E i \in 1 .. l : p = at[i] \/ p = at[i] + 1
           \/ (\A i \in 1 .. l : at[i] + 1 < p) /\ Closes(txs[p], known, l, isMain)
  BY DEF Going
<1>5. /\ \A p \in 1 .. n : p \in 1 .. n + m
      /\ \A p \in 1 .. n + m : p \in 1 .. n \/ p \in (n + 1) .. (n + m)
      /\ \A p \in (n + 1) .. (n + m), q \in 1 .. n : q < p
  BY <1>1
<1> HIDE DEF n, m, all, l
<1>6. at \in [1 .. l -> 1 .. n + m]
  BY <1>4, <1>5
<1>7. \A i \in 1 .. l : at[i] + 1 \in 1 .. n + m
        /\ all[at[i]] = AddPoolTx(added[i]) /\ all[at[i] + 1] = StashTx(known + i)
  BY <1>2, <1>4, <1>5
<1>8. \A p \in 1 .. n + m :
        \/ all[p].fn = "list"
        \/ \E i \in 1 .. l : p = at[i] \/ p = at[i] + 1
        \/ (\A i \in 1 .. l : at[i] + 1 < p) /\ Closes(all[p], known, l, isMain)
  <2>1. ASSUME NEW p \in 1 .. n
        PROVE  \/ all[p].fn = "list"
               \/ \E i \in 1 .. l : p = at[i] \/ p = at[i] + 1
               \/ (\A i \in 1 .. l : at[i] + 1 < p) /\ Closes(all[p], known, l, isMain)
    BY <1>2, <1>4
  <2>2. ASSUME NEW p \in (n + 1) .. (n + m)
        PROVE  (\A i \in 1 .. l : at[i] + 1 < p) /\ Closes(all[p], known, l, isMain)
    <3>1. \A i \in 1 .. l : at[i] + 1 < p
      BY <1>4, <1>5
    <3>2. Closes(all[p], known, l, isMain)
      BY <1>1, <1>3 DEF l
    <3> QED
      BY <3>1, <3>2
  <2> QED
    BY <1>5, <2>1, <2>2
<1>9. Going(all, known, added, at, isMain)
  BY <1>2, <1>4, <1>6, <1>7, <1>8 DEF Going, l
<1> QED
  BY <1>2, <1>9 DEF all

LEMMA GoesMade ==
  ASSUME NEW T, NEW txs \in Seq(T), NEW known \in Nat, NEW S, NEW added \in Seq(S), NEW at, NEW isMain \in BOOLEAN,
         Going(txs, known, added, at, isMain),
         added # <<>> => \E p \in DOMAIN txs : txs[p].fn = "setPoolIds"
  PROVE  Made(txs, known, added, at, isMain)
<1> DEFINE n == Len(txs)
           l == Len(added)
<1>1. DOMAIN txs = 1 .. n /\ n \in Nat /\ DOMAIN added = 1 .. l /\ l \in Nat
  OBVIOUS
<1> HIDE DEF n, l
<1>2. Adding(txs, known, added, at)
  BY <1>1 DEF Adding, Going, n, l
<1> QED
  BY <1>1, <1>2 DEF Made, Going, Closes, n, l

(* The votes come last.                                                    *)
LEMMA VotesLast ==
  ASSUME NEW T, NEW txs \in Seq(T), NEW known \in Nat, NEW S, NEW added \in Seq(S), NEW at,
         Going(txs, known, added, at, TRUE),
         added # <<>> => \E p \in DOMAIN txs : txs[p].fn = "setPoolIds",
         NEW cast
  PROVE  Made(txs \o <<VoteTx(cast)>>, known, added, at, TRUE)
<1> DEFINE n == Len(txs)
           l == Len(added)
           v == VoteTx(cast)
           all == txs \o <<v>>
<1>1. DOMAIN txs = 1 .. n /\ n \in Nat /\ DOMAIN added = 1 .. l /\ l \in Nat
  OBVIOUS
<1>2. v = VoteTx(v.votes)
  BY DEF VoteTx
<1> HIDE DEF v
<1>3. DOMAIN all = 1 .. n + 1 /\ Len(all) = n + 1 /\ all[n + 1] = v /\ \A p \in 1 .. n : all[p] = txs[p]
  OBVIOUS
<1>4. /\ at \in [1 .. l -> 1 .. n]
      /\ \A i, j \in 1 .. l : i < j => at[i] < at[j]
      /\ \A i \in 1 .. l : at[i] + 1 \in 1 .. n
           /\ txs[at[i]] = AddPoolTx(added[i]) /\ txs[at[i] + 1] = StashTx(known + i)
      /\ \A p \in 1 .. n :
           \/ txs[p].fn = "list"
           \/ \E i \in 1 .. l : p = at[i] \/ p = at[i] + 1
           \/ (\A i \in 1 .. l : at[i] + 1 < p) /\ Closes(txs[p], known, l, TRUE)
  BY DEF Going
<1> HIDE DEF n, l, all
<1>5. /\ \A p \in 1 .. n : p \in 1 .. n + 1 /\ p < n + 1
      /\ \A p \in 1 .. n + 1 : p \in 1 .. n \/ p = n + 1
  BY <1>1
<1>6. at \in [1 .. l -> Nat] /\ \A i \in 1 .. l : at[i] \in 1 .. n
  BY <1>1, <1>4
<1>7. Adding(all, known, added, at)
  BY <1>1, <1>3, <1>4, <1>5, <1>6 DEF Adding
<1>8. \A k \in DOMAIN all :
        \/ all[k].fn = "list"
        \/ \E i \in DOMAIN added : k = at[i] \/ k = at[i] + 1
        \/ /\ \A i \in DOMAIN added : at[i] + 1 < k
           /\ \/ all[k] \in Closing(known, Len(added)) /\ (TRUE \/ all[k].fn = "setPoolIds")
              \/ TRUE /\ k = Len(all) /\ all[k] = VoteTx(all[k].votes)
  <2>1. ASSUME NEW k \in 1 .. n
        PROVE  \/ all[k].fn = "list"
               \/ \E i \in DOMAIN added : k = at[i] \/ k = at[i] + 1
               \/ (\A i \in DOMAIN added : at[i] + 1 < k) /\ all[k] \in Closing(known, Len(added))
    BY <1>1, <1>3, <1>4 DEF Closes, l
  <2>2. \A i \in DOMAIN added : at[i] + 1 < n + 1
    BY <1>1, <1>4, <1>5
  <2> QED
    BY <1>2, <1>3, <1>5, <2>1, <2>2
<1>9. added # <<>> => \E k \in DOMAIN all : all[k].fn = "setPoolIds"
  BY <1>1, <1>3, <1>5
<1>10. Len(all) \in Nat /\ DOMAIN all = 1 .. Len(all)
  BY <1>1, <1>3
<1>11. Made(all, known, added, at, TRUE)
  BY <1>7, <1>8, <1>9, <1>10, Zenon DEF Made
<1> QED
  BY <1>11 DEF all, v

(* The first of the ids to be set.                                         *)
IsLowest(low, first, gs, I) ==
  low = [s \in SUBSET I |-> IF s = {} THEN first ELSE Min2(low[s \ {Max(s)}], PidOf(main, gs[Max(s)]))]

LEMMA LowestFromFold ==
  ASSUME NEW first, NEW gs
  PROVE  FoldLeft(LAMBDA p, g : Min2(p, PidOf(main, g)), first, gs)
           = (CHOOSE low : IsLowest(low, first, gs, DOMAIN gs))[DOMAIN gs]
  BY DEF FoldLeft, MapThenFoldSet, IsLowest

LEMMA LowestIsPid ==
  ASSUME NEW first \in Nat \ {0}, NEW T, NEW gs \in Seq(T),
         \A i \in DOMAIN gs : PidOf(main, gs[i]) \in 1 .. first
  PROVE  FoldLeft(LAMBDA p, g : Min2(p, PidOf(main, g)), first, gs) \in 1 .. first
<1> DEFINE I == DOMAIN gs
           V == 1 .. first
           next == [i \in I |-> [p \in V |-> Min2(p, PidOf(main, gs[i]))]]
           low == CHOOSE r : IsLowest(r, first, gs, I)
<1>1. I \in SUBSET Int /\ IsFiniteSet(I)
  BY IndicesAreFinite
<1>2. \A i \in I, p \in V : Min2(p, PidOf(main, gs[i])) \in V
  BY DEF Min2
<1>3. first \in V /\ next \in [I -> [V -> V]]
  BY <1>2
<1>4. \A i \in I, p \in V : next[i][p] = Min2(p, PidOf(main, gs[i]))
  OBVIOUS
<1> HIDE DEF V, next, I
<1>5. PICK r : StaysInside(r, next, first, V, I)
  BY <1>1, <1>3, FoldInside
<1>6. \A t \in (SUBSET I) \ {{}} : Max(t) \in I
  BY <1>5 DEF StaysInside
<1>7. ASSUME NEW t \in SUBSET I
      PROVE  r[t] = IF t = {} THEN first ELSE Min2(r[t \ {Max(t)}], PidOf(main, gs[Max(t)]))
  <2>1. CASE t = {}
    BY <1>5, <2>1 DEF StaysInside
  <2>2. CASE t # {}
    <3>1. Max(t) \in I /\ r[t] = next[Max(t)][r[t \ {Max(t)}]] /\ r[t \ {Max(t)}] \in V
      BY <1>5, <2>2 DEF StaysInside
    <3> QED
      BY <1>4, <2>2, <3>1
  <2> QED
    BY <2>1, <2>2
<1>8. IsLowest(r, first, gs, I)
  <2>1. r = [t \in SUBSET I |-> r[t]]
    BY <1>5 DEF StaysInside
  <2>2. r = [t \in SUBSET I |-> IF t = {} THEN first ELSE Min2(r[t \ {Max(t)}], PidOf(main, gs[Max(t)]))]
    BY <1>7, <2>1
  <2> QED
    BY <2>2, Zenon DEF IsLowest
<1>9. IsLowest(low, first, gs, I)
  BY <1>8
<1> HIDE DEF low
<1>10. \A t \in SUBSET I : low[t] = IF t = {} THEN first ELSE Min2(low[t \ {Max(t)}], PidOf(main, gs[Max(t)]))
  BY <1>9 DEF IsLowest
<1>11. low[{}] \in V
  BY <1>3, <1>10
<1>12. \A t \in (SUBSET I) \ {{}} : low[t \ {Max(t)}] \in V => low[t] \in V
  BY <1>2, <1>6, <1>10
<1>13. low[I] \in V
  <2>1. I \in SUBSET I
    OBVIOUS
  <2> QED
    BY <1>1, <1>11, <1>12, <2>1, FoldStays
<1>14. FoldLeft(LAMBDA p, g : Min2(p, PidOf(main, g)), first, gs) = low[I]
  BY LowestFromFold DEF low, I
<1> QED
  BY <1>13, <1>14 DEF V

(* What the tasks make for a chain, the votes apart.                       *)
GoingFor(txs, chain, allowed, isMain) ==
  \E T, added, at :
    /\ txs \in Seq(T)
    /\ added \in Seq(Gauges) /\ IsInjective(added)
    /\ ToSet(added) \cap ToSet(chain.pools) = {} /\ ToSet(added) \subseteq allowed
    /\ Going(txs, Len(chain.pools), added, at, isMain)
    /\ added # <<>> => \E p \in DOMAIN txs : txs[p].fn = "setPoolIds"

LEMMA MainIsMade ==
  ASSUME main \in Chains, NEW gauges \in Seq(Gauges), IsInjective(gauges)
  PROVE  GoingFor(AddPoolToMainnet(gauges), main, MainGauges, TRUE)
<1> DEFINE known == {g \in MainGauges : ~IsKilled(g) /\ Has(main, g)}
           perPool(g) ==
             IF g \in known
             THEN IF LacksReward(main, g) THEN <<ListTx(<<StashTx(PidOf(main, g))>>)>> ELSE <<>>
             ELSE IF g \in Listable THEN <<AddPoolTx(g), StashTx(NewPid(g, gauges))>> ELSE <<>>
           first   == Len(main.pools) + 1
           finalPid   == first + Len(Kept(gauges, Listable))
           unmapped   == Kept(gauges, {g \in known : main.dst[g] = "none"})
           fromPid    == FoldLeft(LAMBDA p, g : Min2(p, PidOf(main, g)), first, unmapped)
           poolIds    == IF fromPid < finalPid THEN <<PoolIdsTx(fromPid, finalPid)>> ELSE <<>>
           noDeposit  == Kept(gauges, ForeignGauges \ main.noDeposit)
           dstChains  == Kept(gauges, {g \in SideGauges : main.dst[g] = "none"})
           pools == [i \in DOMAIN gauges |-> perPool(gauges[i])]
           deposits == [i \in DOMAIN noDeposit |-> NoDepositTx(noDeposit[i], TRUE)]
           chains == [i \in DOMAIN dstChains |-> DstChainTx(dstChains[i])]
           added == Kept(gauges, Listable)
           n == Len(main.pools)
           T == {ListTx(<<StashTx(PidOf(main, g))>>) : g \in Gauges}
                \cup {AddPoolTx(g) : g \in Gauges} \cup {StashTx(NewPid(g, gauges)) : g \in Gauges}
                \cup Closing(n, Len(added))
<1>1. AddPoolToMainnet(gauges) = Flat(pools) \o poolIds \o deposits \o chains
  BY DEF AddPoolToMainnet
<1>2. noDeposit \in Seq(Gauges) /\ dstChains \in Seq(Gauges)
  <2>1. noDeposit \in Seq(Gauges)
    BY KeptKeeps
  <2>2. dstChains \in Seq(Gauges)
    BY KeptKeeps
  <2> QED
    BY <2>1, <2>2
<1>3. added \in Seq(Gauges) /\ IsInjective(added) /\ ToSet(added) = ToSet(gauges) \cap Listable
  BY KeptKeeps
<1>4. ToSet(added) \cap ToSet(main.pools) = {} /\ ToSet(added) \subseteq MainGauges
  BY <1>3 DEF Listable, Has
<1>5. main.pools \in Seq(Gauges) /\ n \in Nat /\ first \in Nat \ {0} /\ DOMAIN main.pools = 1 .. n
      /\ Len(added) \in Nat /\ DOMAIN added = 1 .. Len(added)
  <2>1. main.pools \in Seq(Gauges)
    BY DEF Chains, ChainStates
  <2> QED
    BY <1>3, <2>1
<1>6. fromPid \in 1 .. first
  <2>1. unmapped \in Seq(Gauges) /\ ToSet(unmapped) \subseteq known
    BY KeptKeeps
  <2>2. ASSUME NEW i \in DOMAIN unmapped PROVE PidOf(main, unmapped[i]) \in 1 .. first
    <3> DEFINE g == unmapped[i]
    <3>1. \E p \in DOMAIN main.pools : main.pools[p] = g
      BY <2>1 DEF Has, ToSet
    <3>2. PidOf(main, g) \in DOMAIN main.pools
      BY <3>1 DEF PidOf
    <3> HIDE DEF g
    <3>3. PidOf(main, g) \in 1 .. first
      BY <1>5, <3>2
    <3> QED
      BY <3>3 DEF g
  <2> HIDE DEF unmapped, first
  <2> QED
    BY <1>5, <2>1, <2>2, LowestIsPid
<1>7. \A g \in known : g \notin Listable
  BY DEF Listable
<1> HIDE DEF noDeposit, dstChains, fromPid, unmapped, known, added
<1>8. /\ \A g \in Gauges : ListTx(<<StashTx(PidOf(main, g))>>) \in T /\ AddPoolTx(g) \in T
                           /\ StashTx(NewPid(g, gauges)) \in T
      /\ Closing(n, Len(added)) \subseteq T
  OBVIOUS
<1> HIDE DEF T
<1>9. \A x, y \in T : <<x>> \in Seq(T) /\ <<x, y>> \in Seq(T)
  OBVIOUS
<1>10. ASSUME NEW g \in Gauges PROVE perPool(g) \in Seq(T) /\ MadeOf(perPool(g), g, T, Listable, n, added)
  <2>1. CASE g \in known
    <3>1. perPool(g) \in {<<>>, <<ListTx(<<StashTx(PidOf(main, g))>>)>>}
      BY <2>1
    <3>2. ListTx(<<StashTx(PidOf(main, g))>>).fn = "list" /\ <<>> \in Seq(T)
      BY DEF ListTx
    <3> HIDE DEF perPool
    <3> QED
      BY <1>7, <1>8, <1>9, <2>1, <3>1, <3>2 DEF MadeOf
  <2>2. CASE g \notin known /\ g \notin Listable
    <3>1. perPool(g) = <<>>
      BY <2>2
    <3> HIDE DEF perPool
    <3> QED
      BY <2>2, <3>1 DEF MadeOf
  <2>3. CASE g \notin known /\ g \in Listable
    <3>1. perPool(g) = <<AddPoolTx(g), StashTx(NewPid(g, gauges))>>
      BY <2>3
    <3>2. ASSUME NEW i \in DOMAIN added, added[i] = g PROVE NewPid(g, gauges) = n + i
      <4> DEFINE I == {j \in 1 .. Len(added) : added[j] = g}
      <4>1. I # {} /\ Min(I) = i
        BY <1>3, <3>2, PlaceOf
      <4>2. NewPid(g, gauges) = n + (IF I # {} THEN Min(I) ELSE 0)
        BY DEF NewPid, added, SelectInSeq
      <4> HIDE DEF I, n
      <4> QED
        BY <4>1, <4>2
    <3> HIDE DEF perPool, n
    <3>3. ASSUME NEW i \in DOMAIN added, added[i] = g
          PROVE  \E x, y \in T : perPool(g) = <<x, y>> /\ x = AddPoolTx(g) /\ y = StashTx(n + i)
      BY <1>8, <3>1, <3>2, <3>3
    <3>4. perPool(g) \in Seq(T)
      BY <1>8, <1>9, <3>1
    <3> QED
      BY <2>3, <3>3, <3>4 DEF MadeOf
  <2> QED
    BY <2>1, <2>2, <2>3
<1> HIDE DEF perPool
<1>11. DOMAIN gauges = 1 .. Len(gauges) /\ Len(gauges) \in Nat /\ \A i \in DOMAIN gauges : gauges[i] \in Gauges
  OBVIOUS
<1>12. /\ pools \in [1 .. Len(gauges) -> Seq(T)]
       /\ \A m \in 1 .. Len(gauges) : MadeOf(pools[m], gauges[m], T, Listable, n, added)
  BY <1>10, <1>11
<1> HIDE DEF pools, n
<1>13. Flat(pools) \in Seq(T) /\ \E at : Laid(Flat(pools), n, added, at, Len(added))
  BY <1>5, <1>12, PoolsAreLaid DEF added
<1>14. PICK at : Going(Flat(pools), n, added, at, TRUE)
  BY <1>13, LaidGoes
<1>15. poolIds \in Seq(T) /\ (\A p \in DOMAIN poolIds : Closes(poolIds[p], n, Len(added), TRUE))
       /\ (added # <<>> => \E p \in DOMAIN poolIds : poolIds[p].fn = "setPoolIds")
  <2>1. PoolIdsTx(fromPid, finalPid) \in Closing(n, Len(added)) /\ PoolIdsTx(fromPid, finalPid).fn = "setPoolIds"
    <3>1. finalPid = n + Len(added) + 1
      BY <1>5 DEF n, added
    <3>2. fromPid \in 1 .. n + 1
      BY <1>6 DEF n
    <3> QED
      BY <3>1, <3>2 DEF Closing, PoolIdsTx
  <2>2. CASE fromPid < finalPid
    <3> DEFINE tx == PoolIdsTx(fromPid, finalPid)
    <3>1. poolIds = <<tx>>
      BY <2>2
    <3>2. tx \in T /\ tx \in Closing(n, Len(added)) /\ tx.fn = "setPoolIds"
      BY <1>8, <2>1
    <3> HIDE DEF tx, poolIds
    <3> QED
      BY <3>1, <3>2 DEF Closes
  <2>3. CASE ~(fromPid < finalPid)
    <3>1. poolIds = <<>>
      BY <2>3
    <3>2. added = <<>>
      <4> SUFFICES ASSUME added # <<>> PROVE FALSE
        OBVIOUS
      <4>1. Len(added) # 0
        BY <1>3
      <4>2. fromPid <= first /\ first \in Nat /\ fromPid \in Int /\ finalPid = first + Len(added)
        BY <1>5, <1>6 DEF added
      <4> HIDE DEF first, finalPid
      <4> QED
        BY <1>5, <2>3, <4>1, <4>2
    <3> HIDE DEF poolIds
    <3> QED
      BY <3>1, <3>2
  <2> QED
    BY <2>2, <2>3
<1>16. deposits \in Seq(T) /\ \A p \in DOMAIN deposits : Closes(deposits[p], n, Len(added), TRUE)
  <2>1. \A g \in Gauges : NoDepositTx(g, TRUE) \in T /\ NoDepositTx(g, TRUE) \in Closing(n, Len(added))
    BY <1>8 DEF Closing
  <2>2. DOMAIN noDeposit = 1 .. Len(noDeposit) /\ Len(noDeposit) \in Nat /\ \A i \in DOMAIN noDeposit : noDeposit[i] \in Gauges
    BY <1>2
  <2>3. deposits \in [1 .. Len(noDeposit) -> T]
    BY <2>1, <2>2
  <2>4. \A p \in DOMAIN deposits : deposits[p] \in Closing(n, Len(added))
    BY <2>1, <2>2
  <2> HIDE DEF deposits
  <2> QED
    BY <2>2, <2>3, <2>4 DEF Closes
<1>17. chains \in Seq(T) /\ \A p \in DOMAIN chains : Closes(chains[p], n, Len(added), TRUE)
  <2>1. \A g \in Gauges : DstChainTx(g) \in T /\ DstChainTx(g) \in Closing(n, Len(added))
    BY <1>8 DEF Closing
  <2>2. DOMAIN dstChains = 1 .. Len(dstChains) /\ Len(dstChains) \in Nat /\ \A i \in DOMAIN dstChains : dstChains[i] \in Gauges
    BY <1>2
  <2>3. chains \in [1 .. Len(dstChains) -> T]
    BY <2>1, <2>2
  <2>4. \A p \in DOMAIN chains : chains[p] \in Closing(n, Len(added))
    BY <2>1, <2>2
  <2> HIDE DEF chains
  <2> QED
    BY <2>2, <2>3, <2>4 DEF Closes
<1> HIDE DEF poolIds, deposits, chains
<1> DEFINE a == Flat(pools)
           b == a \o poolIds
           c == b \o deposits
           d == c \o chains
<1> HIDE DEF a
<1>18. b \in Seq(T) /\ Going(b, n, added, at, TRUE)
  BY <1>5, <1>13, <1>14, <1>15, GoesOn DEF a, n
<1>19. added # <<>> => \E p \in DOMAIN b : b[p].fn = "setPoolIds"
  <2> SUFFICES ASSUME NEW p \in DOMAIN poolIds, poolIds[p].fn = "setPoolIds"
               PROVE  \E q \in DOMAIN b : b[q].fn = "setPoolIds"
    BY <1>15
  <2>1. Len(a) + p \in DOMAIN b /\ b[Len(a) + p] = poolIds[p]
    BY <1>13, <1>15 DEF a
  <2> QED
    BY <2>1
<1> HIDE DEF b
<1>20. c \in Seq(T) /\ Going(c, n, added, at, TRUE) /\ \A p \in DOMAIN b : p \in DOMAIN c /\ c[p] = b[p]
  <2>1. c \in Seq(T) /\ Going(c, n, added, at, TRUE)
    BY <1>5, <1>16, <1>18, GoesOn DEF n
  <2>2. \A p \in DOMAIN b : p \in DOMAIN c /\ c[p] = b[p]
    BY <1>16, <1>18
  <2> QED
    BY <2>1, <2>2
<1> HIDE DEF c
<1>21. d \in Seq(T) /\ Going(d, n, added, at, TRUE) /\ \A p \in DOMAIN c : p \in DOMAIN d /\ d[p] = c[p]
  <2>1. d \in Seq(T) /\ Going(d, n, added, at, TRUE)
    BY <1>5, <1>17, <1>20, GoesOn DEF n
  <2>2. \A p \in DOMAIN c : p \in DOMAIN d /\ d[p] = c[p]
    BY <1>17, <1>20
  <2> QED
    BY <2>1, <2>2
<1>22. AddPoolToMainnet(gauges) = d
  BY <1>1 DEF a, b, c
<1> HIDE DEF d
<1>23. added # <<>> => \E p \in DOMAIN d : d[p].fn = "setPoolIds"
  BY <1>19, <1>20, <1>21
<1>24. GoingFor(d, main, MainGauges, TRUE)
  BY <1>3, <1>4, <1>21, <1>23 DEF GoingFor, n
<1> QED
  BY <1>22, <1>24

LEMMA SideIsMade ==
  ASSUME side \in Chains, NEW gauges \in Seq(Gauges), IsInjective(gauges), ToSet(gauges) \subseteq SideGauges
  PROVE  GoingFor(AddPoolToSidechain(gauges), side, SideGauges, FALSE)
<1> DEFINE new == {g \in SideGauges : ~Has(side, g)}
           added == Kept(gauges, new)
           perPool(g) ==
             IF Has(side, g)
             THEN IF LacksReward(side, g) THEN <<ListTx(<<StashTx(PidOf(side, g))>>)>> ELSE <<>>
             ELSE <<AddPoolTx(g), StashTx(NewStash(g, added))>>
           first == Len(side.pools) + 1
           finalPid == first + Len(added)
           poolIds == IF added # <<>> THEN <<PoolIdsTx(first, finalPid)>> ELSE <<>>
           pools == [i \in DOMAIN gauges |-> perPool(gauges[i])]
           n == Len(side.pools)
           T == {ListTx(<<StashTx(PidOf(side, g))>>) : g \in Gauges}
                \cup {AddPoolTx(g) : g \in Gauges} \cup {StashTx(NewStash(g, added)) : g \in Gauges}
                \cup Closing(n, Len(added))
<1>1. AddPoolToSidechain(gauges) = Flat(pools) \o poolIds
  BY DEF AddPoolToSidechain
<1>2. added \in Seq(Gauges) /\ IsInjective(added) /\ ToSet(added) = ToSet(gauges) \cap new
  BY KeptKeeps
<1>3. ToSet(added) \cap ToSet(side.pools) = {} /\ ToSet(added) \subseteq SideGauges
  BY <1>2 DEF Has
<1>4. side.pools \in Seq(Gauges) /\ n \in Nat /\ DOMAIN side.pools = 1 .. n
      /\ Len(added) \in Nat /\ DOMAIN added = 1 .. Len(added)
  <2>1. side.pools \in Seq(Gauges)
    BY DEF Chains, ChainStates
  <2> QED
    BY <1>2, <2>1
<1>5. \A g \in Gauges : Has(side, g) => g \notin new
  OBVIOUS
<1>6. \A i \in DOMAIN gauges : ~Has(side, gauges[i]) => gauges[i] \in new
  BY DEF ToSet
<1> HIDE DEF added, new
<1>7. /\ \A g \in Gauges : ListTx(<<StashTx(PidOf(side, g))>>) \in T /\ AddPoolTx(g) \in T
                           /\ StashTx(NewStash(g, added)) \in T
      /\ Closing(n, Len(added)) \subseteq T
  OBVIOUS
<1> HIDE DEF T
<1>8. \A x, y \in T : <<x>> \in Seq(T) /\ <<x, y>> \in Seq(T)
  OBVIOUS
<1>9. ASSUME NEW g \in Gauges, ~Has(side, g) => g \in new
      PROVE  perPool(g) \in Seq(T) /\ MadeOf(perPool(g), g, T, new, n, added)
  <2>1. CASE Has(side, g)
    <3>1. perPool(g) \in {<<>>, <<ListTx(<<StashTx(PidOf(side, g))>>)>>}
      BY <2>1
    <3>2. ListTx(<<StashTx(PidOf(side, g))>>).fn = "list" /\ <<>> \in Seq(T)
      BY DEF ListTx
    <3> HIDE DEF perPool
    <3> QED
      BY <1>5, <1>7, <1>8, <2>1, <3>1, <3>2 DEF MadeOf
  <2>2. CASE ~Has(side, g)
    <3>1. perPool(g) = <<AddPoolTx(g), StashTx(NewStash(g, added))>>
      BY <2>2
    <3>2. ASSUME NEW i \in DOMAIN added, added[i] = g PROVE NewStash(g, added) = n + i
      <4> DEFINE I == {j \in 1 .. Len(added) : added[j] = g}
      <4>1. I # {} /\ Min(I) = i
        BY <1>2, <3>2, PlaceOf
      <4>2. NewStash(g, added) = n + (IF I # {} THEN Min(I) ELSE 0)
        BY DEF NewStash, SelectInSeq
      <4> HIDE DEF I, n
      <4> QED
        BY <4>1, <4>2
    <3> HIDE DEF perPool, n
    <3>3. ASSUME NEW i \in DOMAIN added, added[i] = g
          PROVE  \E x, y \in T : perPool(g) = <<x, y>> /\ x = AddPoolTx(g) /\ y = StashTx(n + i)
      BY <1>7, <3>1, <3>2, <3>3
    <3>4. perPool(g) \in Seq(T)
      BY <1>7, <1>8, <3>1
    <3> QED
      BY <1>9, <2>2, <3>3, <3>4 DEF MadeOf
  <2> QED
    BY <2>1, <2>2
<1> HIDE DEF perPool
<1>10. DOMAIN gauges = 1 .. Len(gauges) /\ Len(gauges) \in Nat /\ \A i \in DOMAIN gauges : gauges[i] \in Gauges
  OBVIOUS
<1>11. /\ pools \in [1 .. Len(gauges) -> Seq(T)]
       /\ \A m \in 1 .. Len(gauges) : MadeOf(pools[m], gauges[m], T, new, n, added)
  BY <1>6, <1>9, <1>10
<1> HIDE DEF pools, n
<1>12. Flat(pools) \in Seq(T) /\ \E at : Laid(Flat(pools), n, added, at, Len(added))
  BY <1>4, <1>11, PoolsAreLaid DEF added
<1>13. PICK at : Going(Flat(pools), n, added, at, FALSE)
  BY <1>12, LaidGoes
<1>14. poolIds \in Seq(T) /\ (\A p \in DOMAIN poolIds : Closes(poolIds[p], n, Len(added), FALSE))
       /\ (added # <<>> => \E p \in DOMAIN poolIds : poolIds[p].fn = "setPoolIds")
  <2> DEFINE tx == PoolIdsTx(first, finalPid)
  <2>1. tx \in Closing(n, Len(added)) /\ tx.fn = "setPoolIds"
    <3>1. finalPid = n + Len(added) + 1 /\ first \in 1 .. n + 1
      BY <1>4 DEF n
    <3> QED
      BY <3>1 DEF Closing, PoolIdsTx
  <2>2. CASE added # <<>>
    <3>1. poolIds = <<tx>>
      BY <2>2
    <3> HIDE DEF tx, poolIds
    <3> QED
      BY <1>7, <2>1, <3>1 DEF Closes
  <2>3. CASE added = <<>>
    <3>1. poolIds = <<>>
      BY <2>3
    <3> HIDE DEF poolIds
    <3> QED
      BY <2>3, <3>1
  <2> QED
    BY <2>2, <2>3
<1> HIDE DEF poolIds
<1> DEFINE a == Flat(pools)
           b == a \o poolIds
<1> HIDE DEF a
<1>15. b \in Seq(T) /\ Going(b, n, added, at, FALSE)
  BY <1>4, <1>12, <1>13, <1>14, GoesOn DEF a, n
<1>16. added # <<>> => \E p \in DOMAIN b : b[p].fn = "setPoolIds"
  <2> SUFFICES ASSUME NEW p \in DOMAIN poolIds, poolIds[p].fn = "setPoolIds"
               PROVE  \E q \in DOMAIN b : b[q].fn = "setPoolIds"
    BY <1>14
  <2>1. Len(a) + p \in DOMAIN b /\ b[Len(a) + p] = poolIds[p]
    BY <1>12, <1>14 DEF a
  <2> QED
    BY <2>1
<1>17. AddPoolToSidechain(gauges) = b
  BY <1>1 DEF a
<1> HIDE DEF b
<1>18. GoingFor(b, side, SideGauges, FALSE)
  BY <1>2, <1>3, <1>15, <1>16 DEF GoingFor, n
<1> QED
  BY <1>17, <1>18

-----------------------------------------------------------------------------
(* Batches are what they were made as.                                     *)

MadeBatch(txs, chain, allowed, isMain) ==
  \E T, added, at :
    txs \in Seq(T) /\ MadeFor(txs, chain, added, at, isMain) /\ ToSet(added) \subseteq allowed

(* A batch was made for the chain as it is, unless pools came since.       *)
AsMade(batch, chain, allowed, isMain) ==
  batch # NoBatch =>
    /\ batch.known \in Nat /\ batch.known <= Len(chain.pools)
    /\ batch.known = Len(chain.pools) => MadeBatch(batch.txs, chain, allowed, isMain)

BInv ==
  /\ votes # NoVotes => SumFunction([k \in DOMAIN votes |-> votes[k].weight]) = TotalVotes
  /\ AsMade(safeBatch["main"], main, MainGauges, TRUE)
  /\ AsMade(safeBatch["side"], side, SideGauges, FALSE)

(* Pools only come.                                                        *)
LEMMA AsMadeStays ==
  ASSUME NEW s \in Chains, NEW t \in Chains, PoolsStay(s, t), NEW batch, NEW allowed, NEW isMain,
         AsMade(batch, s, allowed, isMain)
  PROVE  AsMade(batch, t, allowed, isMain)
<1>1. s.pools \in Seq(Gauges) /\ t.pools \in Seq(Gauges)
  BY DEF Chains, ChainStates
<1>2. /\ DOMAIN s.pools = 1 .. Len(s.pools) /\ Len(s.pools) \in Nat
      /\ DOMAIN t.pools = 1 .. Len(t.pools) /\ Len(t.pools) \in Nat
  BY <1>1
<1>3. Len(s.pools) <= Len(t.pools)
  <2>1. Len(s.pools) = 0 \/ Len(s.pools) \in DOMAIN s.pools
    BY <1>2
  <2>2. Len(s.pools) = 0 \/ Len(s.pools) \in DOMAIN t.pools
    BY <2>1 DEF PoolsStay
  <2> QED
    BY <1>2, <2>2
<1>4. ASSUME Len(t.pools) = Len(s.pools) PROVE t.pools = s.pools
  <2>1. \A p \in 1 .. Len(s.pools) : t.pools[p] = s.pools[p]
    BY <1>2 DEF PoolsStay
  <2> QED
    BY <1>1, <1>4, <2>1
<1>5. ASSUME batch # NoBatch
      PROVE  /\ batch.known \in Nat /\ batch.known <= Len(t.pools)
             /\ batch.known = Len(t.pools) => MadeBatch(batch.txs, t, allowed, isMain)
  <2>1. /\ batch.known \in Nat /\ batch.known <= Len(s.pools)
        /\ batch.known = Len(s.pools) => MadeBatch(batch.txs, s, allowed, isMain)
    BY <1>5 DEF AsMade
  <2>2. ASSUME batch.known = Len(t.pools) PROVE MadeBatch(batch.txs, t, allowed, isMain)
    <3>1. t.pools = s.pools /\ batch.known = Len(s.pools)
      BY <1>2, <1>3, <1>4, <2>1, <2>2
    <3> QED
      BY <2>1, <3>1 DEF MadeBatch, MadeFor
  <2> QED
    BY <1>2, <1>3, <2>1, <2>2
<1> QED
  BY <1>5 DEF AsMade

LEMMA MadeIsAsMade ==
  ASSUME NEW chain \in Chains, NEW txs, NEW allowed, NEW isMain, MadeBatch(txs, chain, allowed, isMain)
  PROVE  AsMade(Batch(txs, chain), chain, allowed, isMain)
<1>1. chain.pools \in Seq(Gauges)
  BY DEF Chains, ChainStates
<1>2. Len(chain.pools) \in Nat
  BY <1>1
<1>3. Batch(txs, chain).txs = txs /\ Batch(txs, chain).known = Len(chain.pools)
  BY DEF Batch
<1> QED
  BY <1>2, <1>3 DEF AsMade

LEMMA GoingIsMade ==
  ASSUME NEW chain \in Chains, NEW txs, NEW allowed, NEW isMain \in BOOLEAN, GoingFor(txs, chain, allowed, isMain)
  PROVE  /\ MadeBatch(txs, chain, allowed, isMain)
         /\ isMain => \A cast : MadeBatch(txs \o <<VoteTx(cast)>>, chain, allowed, isMain)
<1>1. PICK T, added, at :
        /\ txs \in Seq(T)
        /\ added \in Seq(Gauges) /\ IsInjective(added)
        /\ ToSet(added) \cap ToSet(chain.pools) = {} /\ ToSet(added) \subseteq allowed
        /\ Going(txs, Len(chain.pools), added, at, isMain)
        /\ added # <<>> => \E p \in DOMAIN txs : txs[p].fn = "setPoolIds"
  BY DEF GoingFor
<1>2. Len(chain.pools) \in Nat
  <2>1. chain.pools \in Seq(Gauges)
    BY DEF Chains, ChainStates
  <2> QED
    BY <2>1
<1>3. Made(txs, Len(chain.pools), added, at, isMain)
  BY <1>1, <1>2, GoesMade
<1>4. MadeBatch(txs, chain, allowed, isMain)
  BY <1>1, <1>3 DEF MadeBatch, MadeFor
<1>5. ASSUME isMain, NEW cast PROVE MadeBatch(txs \o <<VoteTx(cast)>>, chain, allowed, isMain)
  <2> DEFINE v == VoteTx(cast)
             all == txs \o <<v>>
  <2>1. isMain = TRUE
    BY <1>5
  <2>2. Made(all, Len(chain.pools), added, at, TRUE)
    BY <1>1, <1>2, <2>1, VotesLast
  <2> HIDE DEF v
  <2>3. all \in Seq(T \cup {v})
    BY <1>1
  <2> HIDE DEF all
  <2>4. MadeBatch(all, chain, allowed, TRUE)
    BY <1>1, <2>2, <2>3 DEF MadeBatch, MadeFor
  <2> QED
    BY <2>1, <2>4 DEF all, v
<1> QED
  BY <1>4, <1>5

(* What the tasks give to the Safes.                                       *)
LEMMA TasksMakeBatches ==
  ASSUME main \in Chains, side \in Chains, NEW gs, NEW voting \in BOOLEAN, NEW fails \in BOOLEAN
  PROVE  LET txs == AddPoolTxs(InOrder(gs), voting, fails)
         IN  /\ txs.main # <<>> => MadeBatch(txs.main, main, MainGauges, TRUE)
             /\ voting => \A cast : MadeBatch(txs.main \o <<VoteTx(cast)>>, main, MainGauges, TRUE)
             /\ txs.side # <<>> => MadeBatch(txs.side, side, SideGauges, FALSE)
<1> DEFINE gauges == InOrder(gs)
           txs == AddPoolTxs(gauges, voting, fails)
           sided == Kept(gauges, SideGauges)
<1>1. gauges \in Seq(Gauges) /\ IsInjective(gauges)
  BY ListingAssumption, KeptKeeps DEF InOrder
<1> HIDE DEF gauges
<1>2. sided \in Seq(Gauges) /\ IsInjective(sided) /\ ToSet(sided) \subseteq SideGauges
  BY <1>1, KeptKeeps
<1>3. /\ txs.main = IF voting \/ ToSet(gauges) \cap MainGauges # {} THEN AddPoolToMainnet(gauges) ELSE <<>>
      /\ txs.side = IF fails THEN <<>> ELSE AddPoolToSidechain(sided)
  BY DEF AddPoolTxs
<1> HIDE DEF txs, sided
<1>4. GoingFor(AddPoolToMainnet(gauges), main, MainGauges, TRUE)
  BY <1>1, MainIsMade
<1>5. GoingFor(AddPoolToSidechain(sided), side, SideGauges, FALSE)
  BY <1>2, SideIsMade
<1>6. /\ MadeBatch(AddPoolToMainnet(gauges), main, MainGauges, TRUE)
      /\ \A cast : MadeBatch(AddPoolToMainnet(gauges) \o <<VoteTx(cast)>>, main, MainGauges, TRUE)
  BY <1>4, GoingIsMade
<1>7. MadeBatch(AddPoolToSidechain(sided), side, SideGauges, FALSE)
  BY <1>5, GoingIsMade
<1> QED
  BY <1>3, <1>6, <1>7 DEF txs, gauges

LEMMA BatchesStart == Init => BInv
  BY DEF Init, SnapshotInit, BInv, AsMade

(* When pools only come, a Safe keeps its batch or gives it up.            *)
BatchesStay ==
  /\ PoolsStay(main, main') /\ PoolsStay(side, side')
  /\ \A c \in {"main", "side"} : safeBatch'[c] \in {safeBatch[c], NoBatch}

LEMMA BatchesStayMade ==
  ASSUME RInv, RInv', BInv, BatchesStay, votes' = votes
  PROVE  BInv'
<1>1. main \in Chains /\ main' \in Chains /\ side \in Chains /\ side' \in Chains
  BY DEF RInv, MainOK, SideOK, Chains
<1>2. AsMade(safeBatch["main"], main', MainGauges, TRUE) /\ AsMade(safeBatch["side"], side', SideGauges, FALSE)
  BY <1>1, AsMadeStays DEF BInv, BatchesStay
<1>3. AsMade(safeBatch'["main"], main', MainGauges, TRUE)
  BY <1>2 DEF BatchesStay, AsMade
<1>4. AsMade(safeBatch'["side"], side', SideGauges, FALSE)
  BY <1>2 DEF BatchesStay, AsMade
<1> QED
  BY <1>3, <1>4 DEF BInv

LEMMA SnapshotKeepsBatches == BInv /\ Snapshot => BInv'
<1> SUFFICES ASSUME BInv, Snapshot PROVE BInv'
  OBVIOUS
<1>1. main' = main /\ side' = side /\ safeBatch' = safeBatch
  BY DEF Snapshot, listingVars, chainVars
<1>2. votes' = votes \/ Result(main.power)
  BY DEF Snapshot, SnapshotNext, Generate, ChangeStatus, Create, Close
<1>3. CASE votes' = votes
  BY <1>1, <1>3 DEF BInv
<1>4. CASE Result(main.power)
  <2>1. SumFunction([k \in DOMAIN votes' |-> votes'[k].weight]) = TotalVotes
    BY <1>4 DEF Result
  <2> QED
    BY <1>1, <2>1 DEF BInv
<1> QED
  BY <1>2, <1>3, <1>4

LEMMA ListingKeepsBatches == RInv /\ VInv /\ BInv /\ Listing => BInv'
<1> SUFFICES ASSUME RInv, VInv, BInv, Listing PROVE BInv'
  OBVIOUS
<1>1. NoRewardsMove /\ RInv'
  <2>1. UNCHANGED roundVars
    BY DEF Listing
  <2> QED
    BY <2>1, ListingMovesNoRewards, RoundStays
<1>2. votes' = votes
  BY DEF Listing, snapshotVars
<1>3. main \in Chains /\ side \in Chains
  BY DEF RInv, MainOK, SideOK, Chains
<1>4. safeBatch = [c \in {"main", "side"} |-> safeBatch[c]]
  BY DEF VInv
<1>5. ASSUME safeBatch' = safeBatch \/ \E c \in {"main", "side"} : safeBatch' = [safeBatch EXCEPT ![c] = NoBatch]
      PROVE  BInv'
  <2>1. \A c \in {"main", "side"} : safeBatch'[c] \in {safeBatch[c], NoBatch}
    BY <1>4, <1>5
  <2>2. BatchesStay
    BY <1>1, <2>1 DEF BatchesStay, NoRewardsMove
  <2> QED
    BY <1>1, <1>2, <2>2, BatchesStayMade
<1>6. ASSUME main' = main, side' = side, AsMade(safeBatch'["main"], main, MainGauges, TRUE),
             AsMade(safeBatch'["side"], side, SideGauges, FALSE)
      PROVE  BInv'
  BY <1>2, <1>6 DEF BInv
<1>7. ASSUME NEW txs, txs # <<>> => MadeBatch(txs, main, MainGauges, TRUE)
      PROVE  AsMade(IF txs = <<>> THEN NoBatch ELSE Batch(txs, main), main, MainGauges, TRUE)
  <2>1. CASE txs = <<>>
    BY <2>1 DEF AsMade
  <2>2. CASE txs # <<>>
    BY <1>3, <1>7, <2>2, MadeIsAsMade
  <2> QED
    BY <2>1, <2>2
<1>8. ASSUME NEW txs, txs # <<>> => MadeBatch(txs, side, SideGauges, FALSE)
      PROVE  AsMade(IF txs = <<>> THEN NoBatch ELSE Batch(txs, side), side, SideGauges, FALSE)
  <2>1. CASE txs = <<>>
    BY <2>1 DEF AsMade
  <2>2. CASE txs # <<>>
    BY <1>3, <1>8, <2>2, MadeIsAsMade
  <2> QED
    BY <2>1, <2>2
<1>9. ASSUME NEW fails \in BOOLEAN, VoteGaugeWeightsTask(fails) PROVE BInv'
  <2> DEFINE gs == {votes[k].gauge : k \in DOMAIN votes}
             txs == AddPoolTxs(InOrder(gs), TRUE, fails)
             all == txs.main \o <<VoteTx(votes)>>
             more == txs.side
  <2>1. /\ main' = main /\ side' = side
        /\ safeBatch' = [c \in {"main", "side"} |->
             IF c = "main" THEN Batch(all, main)
             ELSE IF more = <<>> THEN NoBatch ELSE Batch(more, side)]
    BY <1>9 DEF VoteGaugeWeightsTask, chainVars
  <2>2. /\ MadeBatch(all, main, MainGauges, TRUE)
        /\ more # <<>> => MadeBatch(more, side, SideGauges, FALSE)
    <3> HIDE DEF gs
    <3> QED
      BY <1>3, TasksMakeBatches
  <2> HIDE DEF all, more
  <2>3. AsMade(Batch(all, main), main, MainGauges, TRUE)
    BY <1>3, <2>2, MadeIsAsMade
  <2>4. AsMade(IF more = <<>> THEN NoBatch ELSE Batch(more, side), side, SideGauges, FALSE)
    BY <1>8, <2>2
  <2>5. /\ safeBatch'["main"] = Batch(all, main)
        /\ safeBatch'["side"] = IF more = <<>> THEN NoBatch ELSE Batch(more, side)
    BY <2>1
  <2> QED
    BY <1>6, <2>1, <2>3, <2>4, <2>5
<1>10. ASSUME NEW gs \in SUBSET Gauges, NEW fails \in BOOLEAN, AddPoolTask(InOrder(gs), fails) PROVE BInv'
  <2> DEFINE txs == AddPoolTxs(InOrder(gs), FALSE, fails)
             all == txs.main
             more == txs.side
  <2>1. /\ main' = main /\ side' = side
        /\ safeBatch' = [c \in {"main", "side"} |-> IF txs[c] = <<>> THEN NoBatch
                                                    ELSE Batch(txs[c], IF c = "main" THEN main ELSE side)]
    BY <1>10 DEF AddPoolTask, chainVars
  <2>2. /\ all # <<>> => MadeBatch(all, main, MainGauges, TRUE)
        /\ more # <<>> => MadeBatch(more, side, SideGauges, FALSE)
    BY <1>3, TasksMakeBatches
  <2>3. txs["main"] = all /\ txs["side"] = more
    OBVIOUS
  <2> HIDE DEF all, more, txs
  <2>4. /\ safeBatch'["main"] = IF all = <<>> THEN NoBatch ELSE Batch(all, main)
        /\ safeBatch'["side"] = IF more = <<>> THEN NoBatch ELSE Batch(more, side)
    BY <2>1, <2>3
  <2>5. AsMade(IF all = <<>> THEN NoBatch ELSE Batch(all, main), main, MainGauges, TRUE)
    BY <1>7, <2>2
  <2>6. AsMade(IF more = <<>> THEN NoBatch ELSE Batch(more, side), side, SideGauges, FALSE)
    BY <1>8, <2>2
  <2> QED
    BY <1>6, <2>1, <2>4, <2>5, <2>6
<1>11. CASE \E fails \in BOOLEAN : VoteGaugeWeightsTask(fails)
  BY <1>9, <1>11
<1>12. CASE \E gs \in (SUBSET Gauges) \ {{}}, fails \in BOOLEAN : AddPoolTask(InOrder(gs), fails)
  <2>1. \A gs \in (SUBSET Gauges) \ {{}} : gs \in SUBSET Gauges
    OBVIOUS
  <2> QED
    BY <1>10, <1>12, <2>1
<1>13. CASE ExecuteMain
  BY <1>5, <1>13 DEF ExecuteMain
<1>14. CASE ExecuteSide
  BY <1>5, <1>14 DEF ExecuteSide
<1>15. CASE \E c \in {"main", "side"} : DropBatch(c)
  BY <1>5, <1>15 DEF DropBatch
<1>16. ASSUME safeBatch' = safeBatch PROVE BInv'
  BY <1>5, <1>16
<1>17. CASE \E g \in BareGauges \cup ForeignGauges, flag \in BOOLEAN : SetIsNoDepositGaugeTask(g, flag)
  BY <1>16, <1>17 DEF SetIsNoDepositGaugeTask
<1>18. CASE \E gs \in (SUBSET MainGauges) \ {{}} : PrepareAddPools(InOrder(gs))
  BY <1>16, <1>18 DEF PrepareAddPools, Prepare
<1>19. CASE SendAddPools
  BY <1>16, <1>19 DEF SendAddPools
<1>20. CASE \E p \in 1 .. MaxPools : L1SetStashExtraReward(p) \/ L2SetStashExtraReward(p)
  BY <1>16, <1>20 DEF L1SetStashExtraReward, L2SetStashExtraReward
<1>21. CASE \E gs \in (SUBSET SideGauges) \ {{}} : L1L2AddPool(gs)
  BY <1>16, <1>21 DEF L1L2AddPool
<1>22. CASE \E gs \in toSide : ReceiveGauges(gs)
  BY <1>16, <1>22 DEF ReceiveGauges
<1>23. CASE \E g \in SideGauges : L2L2AddPool(g)
  BY <1>16, <1>23 DEF L2L2AddPool
<1>24. CASE L1SetPoolIds
  BY <1>16, <1>24 DEF L1SetPoolIds
<1>25. CASE L2SetPoolIds
  BY <1>16, <1>25 DEF L2SetPoolIds
<1>26. CASE \E g \in MainGauges : ChangeWeight(g)
  BY <1>16, <1>26 DEF ChangeWeight
<1> QED
  BY <1>11, <1>12, <1>13, <1>14, <1>15, <1>17, <1>18, <1>19, <1>20, <1>21, <1>22, <1>23, <1>24,
     <1>25, <1>26, Zenon DEF Listing

(* The distributor adds no pools.                                          *)
LEMMA FundingAddsNoPool ==
  ASSUME NEW s, "pools" \in DOMAIN s, NEW marked, NEW pid, NEW amount, NEW t \in FundPool(marked, pid, amount),
         marked.pools = s.pools, "pools" \in DOMAIN marked, marked = [marked EXCEPT !.aura = marked.aura]
  PROVE  t.pools = s.pools
  BY DEF FundPool, When

LEMMA DistributionKeepsBatches == RInv /\ BInv /\ Distribution => BInv'
<1> SUFFICES ASSUME RInv, BInv, Distribution PROVE BInv'
  OBVIOUS
<1>1. main \in ChainStates /\ side \in ChainStates
  BY DEF RInv, MainOK, SideOK
<1>2. votes' = votes /\ safeBatch' = safeBatch
  BY DEF Distribution, snapshotVars
<1>3. RInv'
  BY DistributionKeepsRound
<1>4. ASSUME main'.pools = main.pools, side'.pools = side.pools PROVE BInv'
  <2>1. BatchesStay
    BY <1>2, <1>4 DEF BatchesStay, PoolsStay
  <2> QED
    BY <1>2, <1>3, <2>1, BatchesStayMade
<1>5. CASE \E reward \in Rewards : SetReward(reward)
  <2>1. PICK reward \in Rewards : main' = [main EXCEPT !.rewardPerEpoch = reward] /\ side' = side
    BY <1>5 DEF SetReward, SetRewardPerEpoch
  <2> QED
    BY <1>1, <1>4, <2>1 DEF ChainStates
<1>6. ASSUME NEW g \in Gauges, ProcessMain(g) PROVE BInv'
  <2> DEFINE marked == [main EXCEPT !.processed = @ \cup {g}]
             amount == AmountToSend(main, g)
             pid == main.poolId[g]
  <2>1. main' \in FundPool(marked, pid, amount) /\ side' = side
    BY <1>6 DEF ProcessMain, ProcessGaugeRewards
  <2>2. marked.pools = main.pools /\ marked = [marked EXCEPT !.aura = marked.aura]
        /\ "pools" \in DOMAIN marked /\ "pools" \in DOMAIN main
    BY <1>1 DEF ChainStates
  <2> HIDE DEF marked, amount, pid
  <2> QED
    BY <1>4, <2>1, <2>2, FundingAddsNoPool
<1>7. ASSUME NEW g \in Gauges, ProcessSide(g) PROVE BInv'
  <2> DEFINE amount == AmountToSend(main, g)
  <2> HIDE DEF amount
  <2>1. main' = [main EXCEPT !.processed = @ \cup {g}, !.aura = @ - amount] /\ side' = side
    BY <1>7 DEF ProcessSide, ProcessSidechainGaugeRewards, When, amount
  <2> QED
    BY <1>1, <1>4, <2>1 DEF ChainStates
<1>8. ASSUME NEW g \in Gauges, ProcessChild(g) PROVE BInv'
  <2> DEFINE marked == [side EXCEPT !.sent[g] = side.toSend[g]]
             amount == side.toSend[g]
             pid == side.poolId[g]
  <2>1. side' \in FundPool(marked, pid, amount) /\ main' = main
    BY <1>8 DEF ProcessChild, ProcessChildGaugeRewards
  <2>2. marked.pools = side.pools /\ marked = [marked EXCEPT !.aura = marked.aura]
        /\ "pools" \in DOMAIN marked /\ "pools" \in DOMAIN side
    BY <1>1 DEF ChainStates
  <2> HIDE DEF marked, amount, pid
  <2> QED
    BY <1>4, <2>1, <2>2, FundingAddsNoPool
<1>9. ASSUME NEW m \in amountsToSide, DeliverAmount(m) PROVE BInv'
  <2>1. side' = [side EXCEPT !.toSend[m.gauge] = m.amount] /\ main' = main
    BY <1>9 DEF DeliverAmount, ReceiveAmount
  <2> QED
    BY <1>1, <1>4, <2>1 DEF ChainStates
<1>10. ASSUME NEW m \in auraToSide, DeliverAura(m) PROVE BInv'
  <2>1. side' = [side EXCEPT !.aura = @ + m.amount] /\ main' = main
    BY <1>10 DEF DeliverAura, ReceiveAura
  <2> QED
    BY <1>1, <1>4, <2>1 DEF ChainStates
<1> QED
  BY <1>5, <1>6, <1>7, <1>8, <1>9, <1>10 DEF Distribution

LEMMA BatchesKept == RInv /\ VInv /\ BInv /\ [Next]_vars => BInv'
<1> SUFFICES ASSUME RInv, VInv, BInv, [Next]_vars PROVE BInv'
  OBVIOUS
<1>1. CASE Snapshot
  BY <1>1, SnapshotKeepsBatches
<1>2. CASE Listing
  BY <1>2, ListingKeepsBatches
<1>3. CASE Distribution
  BY <1>3, DistributionKeepsBatches
<1>4. CASE UNCHANGED vars
  BY <1>4 DEF vars, snapshotVars, listingVars, chainVars, BInv
<1> QED
  BY <1>1, <1>2, <1>3, <1>4 DEF Next

LEMMA BatchesAlways == Spec => [](RInv /\ VInv /\ BInv)
<1>1. Init => RInv /\ VInv /\ BInv
  BY RoundStarts, VotesStart, BatchesStart
<1>2. RInv /\ VInv /\ BInv /\ [Next]_vars => (RInv /\ VInv /\ BInv)'
  BY RoundKept, VotesKept, BatchesKept
<1> QED
  BY <1>1, <1>2, PTL DEF Spec

(* A batch that was made of any gauges, new, known, unlistable or foreign, *)
(* and is executed before another pool is added, gives each gauge that it  *)
(* lists its own pool with its own extra reward, and its own pool id: the  *)
(* ids and the stashes that the tasks predict are those of the pools that  *)
(* the transactions before them make.                                      *)
THEOREM FreshBatchesList == Spec => FreshBatchLists
<1> DEFINE step == /\ IsFresh("main") /\ ExecuteMain
                        => \A g \in Adds(safeBatch["main"].txs) : Complete(main', g)
                   /\ IsFresh("side") /\ ExecuteSide
                        => \A g \in Adds(safeBatch["side"].txs) : Complete(side', g)
<1>1. RInv /\ BInv => step
  <2> SUFFICES ASSUME RInv, BInv PROVE step
    OBVIOUS
  <2>1. main \in Chains /\ side \in Chains
    BY DEF RInv, MainOK, SideOK, Chains
  <2>2. ASSUME IsFresh("main"), ExecuteMain PROVE \A g \in Adds(safeBatch["main"].txs) : Complete(main', g)
    <3>1. MadeBatch(safeBatch["main"].txs, main, MainGauges, TRUE)
      BY <2>2 DEF IsFresh, BInv, AsMade
    <3>2. PICK added, at : MadeFor(safeBatch["main"].txs, main, added, at, TRUE)
      BY <3>1 DEF MadeBatch
    <3>3. main' \in Execute(main, safeBatch["main"].txs, TRUE)
      BY <2>2 DEF ExecuteMain
    <3> QED
      BY <2>1, <3>2, <3>3, BatchCompletes
  <2>3. ASSUME IsFresh("side"), ExecuteSide PROVE \A g \in Adds(safeBatch["side"].txs) : Complete(side', g)
    <3>1. MadeBatch(safeBatch["side"].txs, side, SideGauges, FALSE)
      BY <2>3 DEF IsFresh, BInv, AsMade
    <3>2. PICK added, at : MadeFor(safeBatch["side"].txs, side, added, at, FALSE)
      BY <3>1 DEF MadeBatch
    <3>3. side' \in Execute(side, safeBatch["side"].txs, FALSE)
      BY <2>3 DEF ExecuteSide
    <3> QED
      BY <2>1, <3>2, <3>3, BatchCompletes
  <2> QED
    BY <2>2, <2>3
<1>2. RInv /\ BInv /\ [Next]_vars => [step]_vars
  BY <1>1
<1> QED
  BY <1>2, BatchesAlways, PTL DEF Spec, FreshBatchLists

-----------------------------------------------------------------------------
(* What a batch needs to go through.                                       *)

(* A gauge that may be voted for once the first k of txs are executed.     *)
PlacedBy(g, chain, txs, added, k) ==
  \/ g \in chain.noDeposit
  \/ chain.dst[g] # "none"
  \/ \E j \in 1 .. k : txs[j] \in {NoDepositTx(g, TRUE), DstChainTx(g)}
  \/ \E j \in 1 .. k : txs[j].fn = "setPoolIds" /\ \E i \in DOMAIN added : added[i] = g
  \/ \E j \in 1 .. k : txs[j].fn = "setPoolIds" /\ Has(chain, g) /\ PidOf(chain, g) \in txs[j].from .. txs[j].to - 1

(* Before the vote, that is what the state says.                           *)
Placed(s, chain, txs, added, k) ==
  (\A j \in 1 .. k : txs[j].fn # "voteGaugeWeight") =>
    /\ SameVote(chain, s)
    /\ \A g \in Gauges : PlacedBy(g, chain, txs, added, k) => g \in s.noDeposit \/ s.dst[g] # "none"

LEMMA PlacedFirst ==
  ASSUME NEW chain, NEW txs, NEW added
  PROVE  Placed(chain, chain, txs, added, 0)
<1>1. 1 .. 0 = {}
  OBVIOUS
<1> QED
  BY <1>1 DEF Placed, PlacedBy, SameVote

(* The pool of a gauge is among those whose id is set.                     *)
LEMMA MappedInPlace ==
  ASSUME NEW chain \in Chains, NEW s \in Chains, PoolsStay(chain, s), NEW g, Has(chain, g), NEW from, NEW to,
         PidOf(chain, g) \in from .. to - 1
  PROVE  g \in Mapped(s, from, to)
<1>1. \E p \in DOMAIN chain.pools : chain.pools[p] = g
  BY DEF Has, ToSet
<1>2. PidOf(chain, g) \in DOMAIN chain.pools /\ chain.pools[PidOf(chain, g)] = g
  BY <1>1 DEF PidOf
<1>3. s.pools[PidOf(chain, g)] = g
  BY <1>2 DEF PoolsStay
<1> QED
  BY <1>3 DEF Mapped

LEMMA AddedInPlace ==
  ASSUME NEW chain \in Chains, NEW txs, NEW added, NEW at, NEW isMain \in BOOLEAN,
         MadeFor(txs, chain, added, at, isMain),
         NEW k \in 1 .. Len(txs), txs[k] \in Transactions, txs[k].fn = "setPoolIds",
         NEW s, Reached(s, chain, txs, added, at, k - 1), NEW i \in DOMAIN added
  PROVE  /\ Len(chain.pools) + i \in DOMAIN s.pools
         /\ added[i] \in Mapped(s, txs[k].from, txs[k].to)
<1> DEFINE known == Len(chain.pools)
           tx == txs[k]
<1>1. chain.pools \in Seq(Gauges) /\ added \in Seq(Gauges)
  BY DEF Chains, ChainStates, MadeFor
<1>2. /\ known \in Nat /\ DOMAIN added = 1 .. Len(added) /\ Len(added) \in Nat
  BY <1>1
<1>3. Made(txs, known, added, at, isMain) /\ DOMAIN txs = 1 .. Len(txs) /\ Len(txs) \in Nat
  BY DEF MadeFor, Made
<1>4. at[i] \in Nat
  BY <1>3 DEF Made, Adding
<1> HIDE DEF known
<1>5. Kind(tx, k, Len(txs), known, added, at, isMain)
  BY <1>2, <1>3, KindOf
<1>6. /\ at[i] + 1 < k /\ tx.from \in 1 .. known + 1 /\ tx.to = known + Len(added) + 1
  BY <1>5 DEF Kind
<1>7. at[i] <= k - 1
  BY <1>3, <1>4, <1>6
<1>8. known + i \in DOMAIN s.pools /\ s.pools[known + i] = added[i]
  BY <1>7 DEF Reached, known
<1>9. known + i \in tx.from .. tx.to - 1
  BY <1>2, <1>6
<1> QED
  BY <1>8, <1>9 DEF Mapped, known

(* One transaction more.                                                   *)
LEMMA PlacedNext ==
  ASSUME NEW chain \in Chains, NEW txs, NEW added, NEW at, MadeFor(txs, chain, added, at, TRUE),
         NEW k \in 1 .. Len(txs), txs[k] \in Transactions,
         NEW s \in Chains, Reached(s, chain, txs, added, at, k - 1), Placed(s, chain, txs, added, k - 1),
         NEW t \in Effect(s, txs[k], TRUE)
  PROVE  Placed(t, chain, txs, added, k)
<1> DEFINE tx == txs[k]
           known == Len(chain.pools)
           ok(u, g) == g \in u.noDeposit \/ u.dst[g] # "none"
<1> SUFFICES ASSUME \A j \in 1 .. k : txs[j].fn # "voteGaugeWeight"
             PROVE  /\ SameVote(chain, t)
                    /\ \A g \in Gauges : PlacedBy(g, chain, txs, added, k) => ok(t, g)
  BY Zenon DEF Placed
<1>1. Made(txs, known, added, at, TRUE) /\ DOMAIN txs = 1 .. Len(txs) /\ Len(txs) \in Nat
  BY DEF MadeFor, Made
<1>2. /\ \A j \in 1 .. k : j = k \/ j \in 1 .. (k - 1)
      /\ \A j \in 1 .. (k - 1) : j \in 1 .. k
      /\ k \in 1 .. k
  BY <1>1
<1>3. SameVote(chain, s) /\ \A g \in Gauges : PlacedBy(g, chain, txs, added, k - 1) => ok(s, g)
  BY <1>2 DEF Placed
<1>4. tx.fn # "voteGaugeWeight"
  BY <1>2
<1>5. known \in Nat /\ s \in ChainStates /\ PoolsStay(chain, s)
  <2>1. chain.pools \in Seq(Gauges)
    BY DEF Chains, ChainStates
  <2> QED
    BY <2>1 DEF Chains, Reached
<1>6. Kind(tx, k, Len(txs), known, added, at, TRUE)
  BY <1>1, <1>5, KindOf
<1> HIDE DEF known
<1>7. ASSUME SameVote(s, t), \A g \in Gauges : ok(s, g) => ok(t, g),
             \A g \in Gauges : tx \in {NoDepositTx(g, TRUE), DstChainTx(g)} => ok(t, g),
             \A g \in Gauges : tx.fn = "setPoolIds" /\ (\E i \in DOMAIN added : added[i] = g) => ok(t, g),
             \A g \in Gauges : tx.fn = "setPoolIds" /\ Has(chain, g) /\ PidOf(chain, g) \in tx.from .. tx.to - 1 => ok(t, g)
      PROVE  SameVote(chain, t) /\ \A g \in Gauges : PlacedBy(g, chain, txs, added, k) => ok(t, g)
  <2>1. SameVote(chain, t)
    BY <1>3, <1>7 DEF SameVote
  <2>2. ASSUME NEW g \in Gauges, PlacedBy(g, chain, txs, added, k) PROVE ok(t, g)
    <3> HIDE DEF ok
    <3>1. CASE PlacedBy(g, chain, txs, added, k - 1)
      BY <1>3, <1>7, <3>1
    <3>2. CASE ~PlacedBy(g, chain, txs, added, k - 1)
      <4>1. \/ tx \in {NoDepositTx(g, TRUE), DstChainTx(g)}
            \/ tx.fn = "setPoolIds" /\ \E i \in DOMAIN added : added[i] = g
            \/ tx.fn = "setPoolIds" /\ Has(chain, g) /\ PidOf(chain, g) \in tx.from .. tx.to - 1
        BY <1>2, <2>2, <3>2 DEF PlacedBy
      <4> QED
        BY <1>7, <4>1
    <3> QED
      BY <3>1, <3>2
  <2> QED
    BY <2>1, <2>2
<1>8. \A g : NoDepositTx(g, TRUE).fn = "setIsNoDepositGauge" /\ NoDepositTx(g, TRUE).gauge = g
             /\ DstChainTx(g).fn = "setDstChainId" /\ DstChainTx(g).gauge = g
  BY DEF NoDepositTx, DstChainTx
<1>9. CASE tx.fn = "addPool"
  <2>1. SamePlaces(s, t) /\ SameVote(s, t)
    BY <1>5, <1>9, AddPoolChanges
  <2> QED
    BY <1>7, <1>8, <1>9, <2>1 DEF SamePlaces
<1>10. CASE tx.fn = "setStashExtraReward"
  <2>1. SamePlaces(s, t) /\ SameVote(s, t)
    BY <1>5, <1>10, StashChanges
  <2> QED
    BY <1>7, <1>8, <1>10, <2>1 DEF SamePlaces
<1>11. CASE tx.fn = "setPoolIds"
  <2>1. /\ \A g \in Gauges :
             t.dst[g] = IF g \in Mapped(s, tx.from, tx.to) /\ s.dst[g] = "none" THEN "main" ELSE s.dst[g]
        /\ t.noDeposit = s.noDeposit /\ SameVote(s, t)
    <3>1. s \in ChainStates /\ txs[k].fn = "setPoolIds" /\ t \in Effect(s, txs[k], TRUE)
      BY <1>5, <1>11
    <3> QED
      BY <3>1, PoolIdsChange
  <2>2. \A g \in Gauges : g \in Mapped(s, tx.from, tx.to) => t.dst[g] # "none"
    BY <2>1
  <2>3. \A g \in Gauges : ok(s, g) => ok(t, g)
    BY <2>1
  <2>4. ASSUME NEW i \in DOMAIN added PROVE added[i] \in Mapped(s, tx.from, tx.to)
    BY <1>11, AddedInPlace
  <2>5. ASSUME NEW g, Has(chain, g), PidOf(chain, g) \in tx.from .. tx.to - 1
        PROVE  g \in Mapped(s, tx.from, tx.to)
    BY <1>5, <2>5, MappedInPlace
  <2> QED
    BY <1>7, <1>8, <1>11, <2>1, <2>2, <2>3, <2>4, <2>5
<1>12. CASE tx.fn = "setIsNoDepositGauge"
  <2>1. t.noDeposit = s.noDeposit \cup {tx.gauge} /\ t.dst = s.dst /\ SameVote(s, t)
    BY <1>5, <1>6, <1>12, DepositChanges DEF Kind
  <2> QED
    BY <1>7, <1>8, <1>12, <2>1
<1>13. CASE tx.fn = "setDstChainId"
  <2>1. t.dst = [s.dst EXCEPT ![tx.gauge] = "side"] /\ t.noDeposit = s.noDeposit /\ SameVote(s, t)
    BY <1>5, <1>13, DstChainChanges
  <2>2. s.dst \in [Gauges -> {"none", "main", "side"}]
    BY <1>5 DEF ChainStates
  <2>3. \A g \in Gauges : t.dst[g] = IF g = tx.gauge THEN "side" ELSE s.dst[g]
    BY <2>1, <2>2
  <2>4. \A g \in Gauges : ok(s, g) => ok(t, g)
    BY <2>1, <2>3
  <2>5. ASSUME NEW g \in Gauges, tx \in {NoDepositTx(g, TRUE), DstChainTx(g)} PROVE ok(t, g)
    <3>1. tx.gauge = g
      BY <1>8, <2>5
    <3>2. t.dst[g] = "side"
      BY <2>3, <3>1
    <3> QED
      BY <3>2
  <2> HIDE DEF ok
  <2>6. tx.fn # "setPoolIds"
    BY <1>13
  <2> QED
    BY <1>7, <2>1, <2>4, <2>5, <2>6
<1>14. tx.fn \in {"addPool", "setDstChainId", "setStashExtraReward", "setPoolIds", "setIsNoDepositGauge",
                  "voteGaugeWeight"}
  BY DEF Transactions
<1> QED
  BY <1>4, <1>9, <1>10, <1>11, <1>12, <1>13, <1>14

LEMMA PlacedAlong ==
  ASSUME NEW chain \in Chains, NEW txs \in Seq(Transactions), NEW added, NEW at,
         MadeFor(txs, chain, added, at, TRUE), NEW run, run[1 .. 0] = {chain},
         \A k \in 0 .. Len(txs) : run[1 .. k] \subseteq Chains,
         \A k \in 1 .. Len(txs) : run[1 .. k] = Effects(run[1 .. (k - 1)], txs[k], TRUE)
  PROVE  \A k \in 0 .. Len(txs) : \A s \in run[1 .. k] : Placed(s, chain, txs, added, k)
<1> DEFINE n == Len(txs)
           Bad == {k \in 0 .. n : \E s \in run[1 .. k] : ~Placed(s, chain, txs, added, k)}
<1>1. n \in Nat /\ DOMAIN txs = 1 .. n
  OBVIOUS
<1> SUFFICES ASSUME Bad # {} PROVE FALSE
  OBVIOUS
<1>2. PICK k \in Bad : \A m \in Bad : k <= m
  <2>1. Bad \in SUBSET Nat
    BY <1>1
  <2> HIDE DEF Bad
  <2> QED
    BY <2>1, SmallestExists
<1>3. PICK t \in run[1 .. k] : ~Placed(t, chain, txs, added, k)
  BY <1>2
<1>4. k # 0
  BY <1>3, PlacedFirst
<1>5. k \in 1 .. n /\ k - 1 \in 0 .. n
  BY <1>1, <1>2, <1>4
<1>6. PICK s \in run[1 .. (k - 1)] : t \in Effect(s, txs[k], TRUE)
  <2>1. t \in Effects(run[1 .. (k - 1)], txs[k], TRUE)
    BY <1>3, <1>5
  <2> QED
    BY <2>1 DEF Effects
<1>7. Placed(s, chain, txs, added, k - 1)
  <2>1. k - 1 \notin Bad
    BY <1>1, <1>2, <1>5
  <2> QED
    BY <1>5, <2>1
<1>8. Reached(s, chain, txs, added, at, k - 1)
  BY <1>5, BatchReaches
<1>9. s \in Chains /\ txs[k] \in Transactions
  BY <1>1, <1>5
<1> HIDE DEF Bad
<1> QED
  BY <1>3, <1>5, <1>6, <1>7, <1>8, <1>9, PlacedNext

(* The vote at k can be cast on a chain that is ready for it.              *)
ReadyToVote(cast, chain, txs, added, k) ==
  /\ Castable(cast, chain.power)
  /\ SumFunction([i \in DOMAIN cast |-> cast[i].weight]) = TotalVotes
  /\ chain.rewardPerEpoch > 0 /\ chain.totalWeight = 0
  /\ \A i \in DOMAIN cast : PlacedBy(cast[i].gauge, chain, txs, added, k - 1)

LEMMA VoteGoes ==
  ASSUME NEW chain \in Chains, NEW txs, NEW added, NEW k, NEW cast, ReadyToVote(cast, chain, txs, added, k),
         NEW s \in Chains, Placed(s, chain, txs, added, k - 1),
         \A j \in 1 .. k - 1 : txs[j].fn # "voteGaugeWeight"
  PROVE  VoteGaugeWeight(s, cast) # {}
<1> DEFINE deposit == {i \in DOMAIN cast : cast[i].gauge \notin s.noDeposit}
           weight == [i \in DOMAIN cast |-> cast[i].weight]
           last == LastWeights(cast, deposit)
           total == SumFunctionOnSet(weight, deposit)
           voted == [s EXCEPT !.weightOf = last, !.totalWeight = total]
           goes == /\ s.rewardPerEpoch > 0 /\ s.totalWeight = 0
                   /\ \A i \in deposit : s.dst[cast[i].gauge] # "none"
                   /\ SumFunction(weight) = TotalVotes
<1>1. SameVote(chain, s) /\ \A g \in Gauges : PlacedBy(g, chain, txs, added, k - 1) => g \in s.noDeposit \/ s.dst[g] # "none"
  BY DEF Placed
<1>2. cast \in Seq(Votes) /\ Castable(cast, s.power)
  BY <1>1 DEF ReadyToVote, Castable, SameVote
<1>3. \A i \in DOMAIN cast : cast[i].gauge \in Gauges
  <2>1. \A i \in DOMAIN cast : cast[i] \in Votes
    BY <1>2
  <2> QED
    BY <2>1 DEF Votes
<1>4. goes
  <2>1. s.rewardPerEpoch > 0 /\ s.totalWeight = 0
    BY <1>1 DEF ReadyToVote, SameVote
  <2>2. \A i \in deposit : s.dst[cast[i].gauge] # "none"
    BY <1>1, <1>3 DEF ReadyToVote
  <2> QED
    BY <2>1, <2>2 DEF ReadyToVote
<1>5. last \in [Gauges -> Nat] /\ total \in Nat
  BY <1>2, LastWeightsFit DEF Votes, VoteSeqs
<1>6. VoteGaugeWeight(s, cast) = UNION {CastVotes(u, cast) : u \in When(goes, voted)}
  BY DEF VoteGaugeWeight, LastWeights
<1> HIDE DEF last, total
<1>7. voted \in ChainStates /\ voted.power = s.power
  BY <1>5 DEF Chains, ChainStates
<1> HIDE DEF voted, goes
<1>8. CastVotes(voted, cast) = {[voted EXCEPT !.power = After(cast, voted.power, Len(cast))]}
  BY <1>2, <1>7, CastsWhenFits
<1>9. When(goes, voted) = {voted}
  BY <1>4 DEF When
<1> QED
  BY <1>6, <1>8, <1>9

(* What a batch needs of the chain that it is made for.                    *)
Ready(chain, txs, added, isMain) ==
  /\ ToSet(added) \subseteq (IF isMain THEN weighted ELSE SideGauges)
  /\ \A k \in DOMAIN txs :
       txs[k].fn = "voteGaugeWeight" => ReadyToVote(txs[k].votes, chain, txs, added, k)

LEMMA EffectGoes ==
  ASSUME NEW chain \in Chains, NEW txs \in Seq(Transactions), NEW added, NEW at, NEW isMain \in BOOLEAN,
         MadeFor(txs, chain, added, at, isMain), Ready(chain, txs, added, isMain),
         NEW k \in 1 .. Len(txs), NEW s \in Chains, Reached(s, chain, txs, added, at, k - 1),
         isMain => Placed(s, chain, txs, added, k - 1)
  PROVE  Effect(s, txs[k], isMain) # {}
<1> DEFINE known == Len(chain.pools)
           tx == txs[k]
<1>1. /\ s.pools \in Seq(Gauges) /\ chain.pools \in Seq(Gauges) /\ added \in Seq(Gauges)
      /\ Made(txs, known, added, at, isMain)
  BY DEF Chains, ChainStates, MadeFor
<1>2. /\ DOMAIN s.pools = 1 .. Len(s.pools) /\ Len(s.pools) \in Nat /\ known \in Nat
      /\ DOMAIN chain.pools = 1 .. known /\ DOMAIN added = 1 .. Len(added) /\ Len(added) \in Nat
      /\ DOMAIN txs = 1 .. Len(txs) /\ Len(txs) \in Nat
  BY <1>1
<1>3. \A j \in DOMAIN txs : Kind(txs[j], j, Len(txs), known, added, at, isMain)
  <2>1. \A j \in DOMAIN txs : txs[j] \in Transactions
    OBVIOUS
  <2> HIDE DEF known
  <2> QED
    BY <1>1, <1>2, <2>1, KindOf
<1>4. Kind(tx, k, Len(txs), known, added, at, isMain) /\ tx \in Transactions
  BY <1>2, <1>3
<1>5. \A i \in DOMAIN added : at[i] \in Nat
  BY <1>1 DEF Made, Adding
<1>6. /\ PoolsStay(chain, s) /\ Len(s.pools) <= known + Len(added)
      /\ \A i \in DOMAIN added : at[i] <= k - 1 <=> known + i \in DOMAIN s.pools
      /\ \A i \in DOMAIN added : at[i] <= k - 1 => s.pools[known + i] = added[i]
  BY DEF Reached
<1> HIDE DEF known
<1>7. CASE tx.fn = "addPool"
  <2>1. PICK i \in DOMAIN added : k = at[i] /\ tx.gauge = added[i]
    BY <1>4, <1>7 DEF Kind
  <2>2. ASSUME NEW p \in DOMAIN s.pools, s.pools[p] = added[i] PROVE FALSE
    <3>1. CASE p \in DOMAIN chain.pools
      <4>1. chain.pools[p] = added[i]
        BY <1>6, <2>2, <3>1 DEF PoolsStay
      <4> QED
        BY <3>1, <4>1 DEF MadeFor, ToSet
    <3>2. CASE p \notin DOMAIN chain.pools
      <4>1. p - known \in DOMAIN added /\ p = known + (p - known)
        BY <1>2, <1>6, <3>2
      <4>2. at[p - known] <= k - 1 /\ s.pools[p] = added[p - known]
        BY <1>6, <4>1
      <4>3. p - known = i
        BY <2>2, <4>1, <4>2 DEF MadeFor, IsInjective
      <4> QED
        BY <1>2, <1>5, <2>1, <4>2, <4>3
    <3> QED
      BY <3>1, <3>2
  <2>3. ~Has(s, tx.gauge)
    BY <2>1, <2>2 DEF Has, ToSet
  <2>4. tx.gauge \in IF isMain THEN weighted ELSE SideGauges
    BY <2>1 DEF Ready, ToSet
  <2> QED
    BY <1>7, <2>3, <2>4 DEF Effect, AddPool, When
<1>8. CASE tx.fn = "setStashExtraReward"
  <2>1. PICK i \in DOMAIN added : k = at[i] + 1 /\ tx.pid = known + i
    BY <1>4, <1>8 DEF Kind
  <2>2. tx.pid \in DOMAIN s.pools
    BY <1>5, <1>6, <2>1
  <2> QED
    BY <1>8, <2>2 DEF Effect, SetStashExtraReward, When
<1>9. CASE tx.fn = "setPoolIds"
  <2>1. tx.from \in 1 .. known + 1 /\ tx.to = known + Len(added) + 1 /\ \A i \in DOMAIN added : at[i] + 1 < k
    BY <1>4, <1>9 DEF Kind
  <2>2. ASSUME NEW p \in tx.from .. tx.to - 1 PROVE p \in DOMAIN s.pools
    <3>1. p \in Int /\ 1 <= p /\ p <= known + Len(added)
      BY <1>2, <2>1
    <3>2. CASE p <= known
      BY <1>2, <1>6, <3>1, <3>2 DEF PoolsStay
    <3>3. CASE ~(p <= known)
      <4>1. p - known \in DOMAIN added /\ p = known + (p - known)
        BY <1>2, <3>1, <3>3
      <4>2. at[p - known] <= k - 1
        BY <1>2, <1>5, <2>1, <4>1
      <4> QED
        BY <1>6, <4>1, <4>2
    <3> QED
      BY <3>2, <3>3
  <2>3. SetPoolIds(s, tx.from, tx.to) # {}
    BY <2>2 DEF SetPoolIds, When
  <2>4. SetMainPoolIds(s, tx.from, tx.to) # {}
    BY <2>3 DEF SetMainPoolIds
  <2> QED
    BY <1>9, <2>3, <2>4 DEF Effect
<1>10. CASE tx.fn = "setIsNoDepositGauge"
  BY <1>10 DEF Effect, SetIsNoDepositGauge
<1>11. CASE tx.fn = "setDstChainId"
  BY <1>11 DEF Effect, SetDstChainId
<1>12. CASE tx.fn = "voteGaugeWeight"
  <2>1. isMain /\ k = Len(txs)
    BY <1>4, <1>12 DEF Kind
  <2>2. ASSUME NEW j \in 1 .. k - 1 PROVE txs[j].fn # "voteGaugeWeight"
    <3>1. j \in DOMAIN txs /\ j # Len(txs)
      BY <1>2, <2>1
    <3> QED
      BY <1>3, <3>1 DEF Kind
  <2>3. ReadyToVote(tx.votes, chain, txs, added, k)
    BY <1>2, <1>12 DEF Ready
  <2>4. VoteGaugeWeight(s, tx.votes) # {}
    BY <2>1, <2>2, <2>3, VoteGoes
  <2> QED
    BY <1>12, <2>4 DEF Effect
<1>13. tx.fn \in {"addPool", "setDstChainId", "setStashExtraReward", "setPoolIds", "setIsNoDepositGauge",
                  "voteGaugeWeight"}
  BY <1>4 DEF Transactions
<1> QED
  BY <1>7, <1>8, <1>9, <1>10, <1>11, <1>12, <1>13

(* Then nothing in it reverts.                                             *)
LEMMA BatchGoes ==
  ASSUME NEW chain \in Chains, NEW txs \in Seq(Transactions), NEW added, NEW at, NEW isMain \in BOOLEAN,
         MadeFor(txs, chain, added, at, isMain), Ready(chain, txs, added, isMain)
  PROVE  Execute(chain, txs, isMain) # {}
<1>1. PICK run : /\ run[1 .. 0] = {chain} /\ Execute(chain, txs, isMain) = run[1 .. Len(txs)]
                 /\ \A k \in 0 .. Len(txs) : run[1 .. k] \subseteq Chains
                 /\ \A k \in 1 .. Len(txs) : run[1 .. k] = Effects(run[1 .. (k - 1)], txs[k], isMain)
  BY BatchSteps
<1> DEFINE n == Len(txs)
           Bad == {k \in 0 .. n : run[1 .. k] = {}}
<1>2. n \in Nat
  OBVIOUS
<1>3. \A k \in 0 .. n : \A s \in run[1 .. k] : Reached(s, chain, txs, added, at, k)
  BY <1>1, BatchReaches
<1>4. isMain => \A k \in 0 .. n : \A s \in run[1 .. k] : Placed(s, chain, txs, added, k)
  <2>1. ASSUME isMain = TRUE PROVE \A k \in 0 .. n : \A s \in run[1 .. k] : Placed(s, chain, txs, added, k)
    BY <1>1, <2>1, PlacedAlong
  <2> QED
    BY <2>1
<1>5. ASSUME Bad # {} PROVE FALSE
  <2>1. PICK k \in Bad : \A m \in Bad : k <= m
    <3>1. Bad \in SUBSET Nat
      BY <1>2
    <3> HIDE DEF Bad
    <3> QED
      BY <1>5, <3>1, SmallestExists
  <2>2. k # 0
    BY <1>1, <2>1
  <2>3. k \in 1 .. n /\ k - 1 \in 0 .. n /\ k - 1 \notin Bad
    BY <1>2, <2>1, <2>2
  <2>4. PICK s \in run[1 .. (k - 1)] : TRUE
    BY <2>3
  <2>5. s \in Chains /\ Reached(s, chain, txs, added, at, k - 1) /\ (isMain => Placed(s, chain, txs, added, k - 1))
    BY <1>1, <1>3, <1>4, <2>3, <2>4
  <2>6. Effect(s, txs[k], isMain) # {}
    BY <2>3, <2>5, EffectGoes
  <2>7. Effects(run[1 .. (k - 1)], txs[k], isMain) # {}
    BY <2>4, <2>6 DEF Effects
  <2> QED
    BY <1>1, <2>1, <2>3, <2>7
<1> QED
  BY <1>1, <1>2, <1>5

(* All but a list is a transaction.                                        *)
LEMMA MadeOfTransactions ==
  ASSUME NEW chain \in Chains, NEW T, NEW txs \in Seq(T), NEW added, NEW at, NEW isMain \in BOOLEAN,
         MadeFor(txs, chain, added, at, isMain),
         \A k \in DOMAIN txs : txs[k].fn # "list",
         \A k \in DOMAIN txs : txs[k].fn = "voteGaugeWeight" => txs[k].votes \in Seq(Votes)
  PROVE  txs \in Seq(Transactions)
<1> DEFINE known == Len(chain.pools)
<1>1. chain.pools \in Seq(Gauges) /\ added \in Seq(Gauges) /\ Made(txs, known, added, at, isMain)
  BY DEF Chains, ChainStates, MadeFor
<1>2. known \in Nat /\ Len(added) \in Nat /\ DOMAIN added = 1 .. Len(added) /\ \A i \in DOMAIN added : added[i] \in Gauges
  BY <1>1
<1> HIDE DEF known
<1>3. \A g \in Gauges : AddPoolTx(g) \in Transactions /\ NoDepositTx(g, TRUE) \in Transactions
                        /\ DstChainTx(g) \in Transactions
  BY DEF AddPoolTx, NoDepositTx, DstChainTx, Transactions
<1>4. \A p \in Nat : StashTx(p) \in Transactions
  BY DEF StashTx, Transactions
<1>5. \A from, to \in Nat : PoolIdsTx(from, to) \in Transactions
  BY DEF PoolIdsTx, Transactions
<1>6. \A cast \in Seq(Votes) : VoteTx(cast) \in Transactions /\ VoteTx(cast).fn = "voteGaugeWeight"
  BY DEF VoteTx, Transactions, Votes
<1>7. Closing(known, Len(added)) \subseteq Transactions
  <2>1. \A from \in 1 .. known + 1 : from \in Nat /\ known + Len(added) + 1 \in Nat
    BY <1>2
  <2> QED
    BY <1>3, <1>5, <2>1 DEF Closing
<1>8. ASSUME NEW k \in DOMAIN txs PROVE txs[k] \in Transactions
  <2>1. CASE \E i \in DOMAIN added : k = at[i] \/ k = at[i] + 1
    <3>1. PICK i \in DOMAIN added : k = at[i] \/ k = at[i] + 1
      BY <2>1
    <3>2. txs[at[i]] = AddPoolTx(added[i]) /\ txs[at[i] + 1] = StashTx(known + i)
      BY <1>1 DEF Made, Adding
    <3>3. known + i \in Nat
      BY <1>2
    <3> QED
      BY <1>2, <1>3, <1>4, <3>1, <3>2, <3>3
  <2>2. CASE txs[k] \in Closing(known, Len(added))
    BY <1>7, <2>2
  <2>3. CASE txs[k] = VoteTx(txs[k].votes)
    <3>1. txs[k].fn = "voteGaugeWeight"
      BY <2>3 DEF VoteTx
    <3> QED
      BY <1>6, <2>3, <3>1
  <2> QED
    BY <1>1, <2>1, <2>2, <2>3 DEF Made
<1>9. DOMAIN txs = 1 .. Len(txs) /\ Len(txs) \in Nat /\ txs = [k \in 1 .. Len(txs) |-> txs[k]]
  OBVIOUS
<1> QED
  BY <1>8, <1>9

(* What may be voted for once the batch is executed may be voted for at    *)
(* its last transaction.                                                   *)
LEMMA VotableIsPlaced ==
  ASSUME main \in Chains, NEW txs \in Seq(Transactions), NEW added, NEW at, MadeFor(txs, main, added, at, TRUE),
         NEW k \in DOMAIN txs, txs[k].fn = "voteGaugeWeight", NEW g, Votable(g, txs),
         g \in Adds(txs) => \E i \in DOMAIN added : added[i] = g
  PROVE  PlacedBy(g, main, txs, added, k - 1)
<1>1. main.pools \in Seq(Gauges) /\ Made(txs, Len(main.pools), added, at, TRUE)
  BY DEF Chains, ChainStates, MadeFor
<1>2. DOMAIN txs = 1 .. Len(txs) /\ Len(txs) \in Nat /\ Len(main.pools) \in Nat
  BY <1>1
<1>3. k = Len(txs)
  <2>1. txs[k] \in Transactions
    OBVIOUS
  <2>2. Kind(txs[k], k, Len(txs), Len(main.pools), added, at, TRUE)
    BY <1>1, <1>2, <2>1, KindOf
  <2> QED
    BY <2>2 DEF Kind
<1>4. \A j \in DOMAIN txs : txs[j].fn # "voteGaugeWeight" => j \in 1 .. (k - 1)
  BY <1>2, <1>3
<1>5. NoDepositTx(g, TRUE).fn # "voteGaugeWeight" /\ DstChainTx(g).fn # "voteGaugeWeight"
  BY DEF NoDepositTx, DstChainTx
<1>6. CASE g \in main.noDeposit \/ main.dst[g] # "none"
  BY <1>6 DEF PlacedBy
<1>7. CASE \E j \in DOMAIN txs : txs[j] \in {NoDepositTx(g, TRUE), DstChainTx(g)}
  BY <1>4, <1>5, <1>7 DEF PlacedBy
<1>8. CASE g \in Adds(txs)
  <2>1. PICK i \in DOMAIN added : added[i] = g
    BY <1>8
  <2>2. added # <<>>
    BY <2>1
  <2>3. PICK j \in DOMAIN txs : txs[j].fn = "setPoolIds"
    BY <1>1, <2>2 DEF Made
  <2> QED
    BY <1>4, <2>1, <2>3 DEF PlacedBy
<1>9. CASE Has(main, g) /\ \E j \in DOMAIN txs :
             txs[j].fn = "setPoolIds" /\ PidOf(main, g) \in txs[j].from .. txs[j].to - 1
  BY <1>4, <1>9 DEF PlacedBy
<1> QED
  BY <1>6, <1>7, <1>8, <1>9 DEF Votable

LEMMA MainGoes ==
  ASSUME RInv, VInv, BInv, StillValid("main"), \A k \in DOMAIN safeBatch["main"].txs : safeBatch["main"].txs[k].fn # "list"
  PROVE  Executes("main")
<1> DEFINE txs == safeBatch["main"].txs
<1>1. main \in Chains /\ main.rewardPerEpoch > 0
  <2>1. main.rewardPerEpoch \in Rewards /\ main \in Chains
    BY DEF RInv, MainOK, BudgetKept, Chains
  <2>2. main.rewardPerEpoch \in Nat \ {0}
    BY <2>1, RoundAssumption
  <2> QED
    BY <2>1, <2>2
<1>2. MadeBatch(txs, main, MainGauges, TRUE)
  BY DEF StillValid, IsFresh, BInv, AsMade
<1>3. PICK T, added, at : txs \in Seq(T) /\ MadeFor(txs, main, added, at, TRUE)
  BY <1>2 DEF MadeBatch
<1>4. ASSUME NEW k \in DOMAIN txs, txs[k].fn = "voteGaugeWeight"
      PROVE  /\ txs[k].votes = votes /\ Castable(votes, main.power)
             /\ SumFunction([i \in DOMAIN votes |-> votes[i].weight]) = TotalVotes
  BY <1>4 DEF VInv, CarriesVotes, PowerKept, BInv
<1>5. /\ Adds(txs) \subseteq weighted
      /\ \A k \in DOMAIN txs : txs[k].fn = "voteGaugeWeight" =>
           main.totalWeight = 0 /\ \A i \in DOMAIN txs[k].votes : Votable(txs[k].votes[i].gauge, txs)
      /\ \A k \in DOMAIN txs : txs[k].fn # "list"
  BY DEF StillValid
<1>6. Executes("main") <=> Execute(main, txs, TRUE) # {}
  BY DEF Executes
<1> HIDE DEF txs
<1>7. txs \in Seq(Transactions)
  BY <1>1, <1>3, <1>4, <1>5, MadeOfTransactions DEF Castable
<1>8. \A g : g \in Adds(txs) <=> \E i \in DOMAIN added : added[i] = g
  <2>1. ASSUME NEW isMain \in BOOLEAN, MadeFor(txs, main, added, at, isMain), NEW g
        PROVE  g \in Adds(txs) <=> \E i \in DOMAIN added : added[i] = g
    BY <1>1, <1>7, <2>1, AddsAreMade
  <2> QED
    BY <1>3, <2>1
<1>9. ASSUME NEW k \in DOMAIN txs, txs[k].fn = "voteGaugeWeight"
      PROVE  ReadyToVote(txs[k].votes, main, txs, added, k)
  <2>1. \A i \in DOMAIN votes : PlacedBy(votes[i].gauge, main, txs, added, k - 1)
    BY <1>1, <1>3, <1>4, <1>5, <1>7, <1>8, <1>9, VotableIsPlaced
  <2> QED
    BY <1>1, <1>4, <1>5, <1>9, <2>1 DEF ReadyToVote
<1>10. Ready(main, txs, added, TRUE)
  BY <1>5, <1>8, <1>9 DEF Ready, ToSet
<1> QED
  BY <1>1, <1>3, <1>6, <1>7, <1>10, BatchGoes

LEMMA SideGoes ==
  ASSUME RInv, BInv, StillValid("side"), \A k \in DOMAIN safeBatch["side"].txs : safeBatch["side"].txs[k].fn # "list"
  PROVE  Executes("side")
<1> DEFINE txs == safeBatch["side"].txs
<1>1. side \in Chains
  BY DEF RInv, SideOK, Chains
<1>2. MadeBatch(txs, side, SideGauges, FALSE)
  BY DEF StillValid, IsFresh, BInv, AsMade
<1>3. PICK T, added, at : txs \in Seq(T) /\ MadeFor(txs, side, added, at, FALSE) /\ ToSet(added) \subseteq SideGauges
  BY <1>2 DEF MadeBatch
<1>4. Executes("side") <=> Execute(side, txs, FALSE) # {}
  BY DEF Executes
<1>5. \A k \in DOMAIN txs : txs[k].fn # "list"
  OBVIOUS
<1> HIDE DEF txs
<1>6. \A k \in DOMAIN txs : txs[k].fn # "voteGaugeWeight"
  <2> DEFINE known == Len(side.pools)
  <2>1. Made(txs, known, added, at, FALSE)
    BY <1>3 DEF MadeFor
  <2> HIDE DEF known
  <2>2. \A i \in DOMAIN added : txs[at[i]] = AddPoolTx(added[i]) /\ txs[at[i] + 1] = StashTx(known + i)
    BY <2>1 DEF Made, Adding
  <2>3. \A i \in DOMAIN added : txs[at[i]].fn = "addPool" /\ txs[at[i] + 1].fn = "setStashExtraReward"
    <3>1. \A g, p : AddPoolTx(g).fn = "addPool" /\ StashTx(p).fn = "setStashExtraReward"
      BY DEF AddPoolTx, StashTx
    <3> QED
      BY <2>2, <3>1
  <2> QED
    BY <1>5, <2>1, <2>3 DEF Made
<1>7. txs \in Seq(Transactions)
  BY <1>1, <1>3, <1>5, <1>6, MadeOfTransactions
<1>8. Ready(side, txs, added, FALSE)
  BY <1>3, <1>6 DEF Ready
<1> QED
  BY <1>1, <1>3, <1>4, <1>7, <1>8, BatchGoes

(* A batch that is executed before another pool is added, while its gauges *)
(* have their weight and those it votes for can be voted for, reverts at   *)
(* none of its transactions: not the listing at the pools, stashes and ids *)
(* that the tasks predict, nor the vote at the weight that is in use.      *)
(* That holds of the batches that can be executed at all, those without a  *)
(* list in place of a transaction (see BatchesExecute).                    *)
THEOREM FreshBatchesExecute == Spec => []FreshBatchExecutes
<1>1. RInv /\ VInv /\ BInv => FreshBatchExecutes
  BY MainGoes, SideGoes DEF FreshBatchExecutes
<1> QED
  BY <1>1, BatchesAlways, PTL
=============================================================================
