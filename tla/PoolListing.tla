----------------------------- MODULE PoolListing -----------------------------
(***************************************************************************)
(* How gauges get their pools: the tasks of tasks/protocol.  They read the *)
(* state of both chains, build transactions around pool ids and stash      *)
(* addresses that they predict, and leave them to be executed later, by    *)
(* the Safe of each chain or by a keeper.  Nothing stops pools from being  *)
(* added in between.                                                       *)
(***************************************************************************)
EXTENDS SnapshotVotes

CONSTANTS
  GaugeOrder,     \* the gauges, in the order the subgraph answers in
  MaxPools,       \* bound: pools of a chain
  BatchOfPids     \* 20: how far getGaugeVoteRewardsLatestPid looks back

ASSUME ListingAssumption ==
  /\ GaugeOrder \in Seq(Gauges) /\ IsInjective(GaugeOrder) /\ ToSet(GaugeOrder) = Gauges
  /\ MaxPools \in Nat /\ BatchOfPids \in Nat \ {0}

VARIABLES
  weighted,    \* gauges with weight in the gauge controller
  main,        \* mainnet
  side,        \* the sidechain
  toSide,      \* gauges on their way from L1PoolManagerProxy
  safeBatch,   \* what the Safe of "main" and of "side" has been given to execute
  prepared     \* what a keeper has read and not sent yet

chainVars   == <<main, side, toSide>>
listingVars == <<weighted, chainVars, safeBatch, prepared>>

(* known is not part of a batch: it records how many pools there were.     *)
NoBatch     == [txs |-> <<>>]
Batch(txs, chain) == [txs |-> txs, known |-> Len(chain.pools)]
NotPrepared == [task |-> "none"]

(* Filters keep the order.                                                 *)
InOrder(gauges) == Kept(GaugeOrder, gauges)
Min2(a, b) == IF a < b THEN a ELSE b
Flat(seqs) == FoldLeft(LAMBDA s, t : s \o t, <<>>, seqs)

-----------------------------------------------------------------------------
(* Transactions (tasks/protocol/safe.ts).                                  *)

AddPoolTx(g)         == [fn |-> "addPool", gauge |-> g]
StashTx(pid)         == [fn |-> "setStashExtraReward", pid |-> pid]
PoolIdsTx(from, to)  == [fn |-> "setPoolIds", from |-> from, to |-> to]
NoDepositTx(g, flag) == [fn |-> "setIsNoDepositGauge", gauge |-> g, flag |-> flag]
DstChainTx(g)        == [fn |-> "setDstChainId", gauge |-> g]
VoteTx(cast)         == [fn |-> "voteGaugeWeight", votes |-> cast]
(* An array of transactions where one transaction is expected.             *)
ListTx(txs)          == [fn |-> "list", txs |-> txs]

(* What the builder of Safe transactions (external) takes and can encode:  *)
(* numbers are unsigned, and an array is no transaction.                   *)
Transactions ==
  [fn : {"addPool", "setDstChainId"}, gauge : Gauges]
  \cup [fn : {"setStashExtraReward"}, pid : Nat]
  \cup [fn : {"setPoolIds"}, from : Nat, to : Nat]
  \cup [fn : {"setIsNoDepositGauge"}, gauge : Gauges, flag : BOOLEAN]
  \cup [fn : {"voteGaugeWeight"}, votes : Seq([gauge : Gauges, delta : Int, weight : Nat])]

Effect(chain, tx, isMain) ==
  CASE tx.fn = "addPool"             -> AddPool(chain, tx.gauge, IF isMain THEN weighted ELSE SideGauges)
    [] tx.fn = "setStashExtraReward" -> SetStashExtraReward(chain, tx.pid)
    [] tx.fn = "setPoolIds" /\ isMain  -> SetMainPoolIds(chain, tx.from, tx.to)
    [] tx.fn = "setPoolIds" /\ ~isMain -> SetPoolIds(chain, tx.from, tx.to)
    [] tx.fn = "setIsNoDepositGauge" -> SetIsNoDepositGauge(chain, tx.gauge, tx.flag)
    [] tx.fn = "setDstChainId"       -> SetDstChainId(chain, tx.gauge)
    [] tx.fn = "voteGaugeWeight"     -> VoteGaugeWeight(chain, tx.votes)

(* All of them or none.                                                    *)
Execute(chain, txs, isMain) ==
  IF txs \in Seq(Transactions)
  THEN FoldLeft(LAMBDA S, tx : UNION {Effect(s, tx, isMain) : s \in S}, {chain}, txs)
  ELSE {}

-----------------------------------------------------------------------------
(* protocol:add-pool                                                       *)

(* getExtraRewardsToAdd, for the one extra reward there is: AURA.          *)
LacksReward(chain, g) == PidOf(chain, g) \notin chain.rewarded

(* What the subgraph says of a gauge.                                      *)
IsKilled(g) == g \in ListedGauges /\ status[g] = "killed"

Listable == {g \in MainGauges \cap weighted : ~IsKilled(g) /\ ~Has(main, g)}

(* Mutant: gauges that are left out are counted.                           *)
NewPid_CountsAll(g, gauges) ==
  LET mainland == Kept(gauges, MainGauges \cup BareGauges)
  IN Len(main.pools) + SelectInSeq(mainland, LAMBDA h : h = g)

(* initialPid + index - invalidGauges.length.                              *)
NewPid(g, gauges) ==
  Len(main.pools) + SelectInSeq(Kept(gauges, Listable), LAMBDA h : h = g)

(* addPoolToMainnet                                                        *)
AddPoolToMainnet(gauges) ==
  LET known == {g \in MainGauges : ~IsKilled(g) /\ Has(main, g)}
      perPool(g) ==
        IF g \in known
        THEN IF LacksReward(main, g) THEN <<ListTx(<<StashTx(PidOf(main, g))>>)>> ELSE <<>>
        ELSE IF g \in Listable THEN <<AddPoolTx(g), StashTx(NewPid(g, gauges))>> ELSE <<>>
      initialPid == Len(main.pools) + 1
      finalPid   == initialPid + Len(Kept(gauges, Listable))
      unmapped   == Kept(gauges, {g \in known : main.dst[g] = "none"})
      fromPid    == FoldLeft(LAMBDA p, g : Min2(p, PidOf(main, g)), initialPid, unmapped)
      poolIds    == IF fromPid < finalPid THEN <<PoolIdsTx(fromPid, finalPid)>> ELSE <<>>
      noDeposit  == Kept(gauges, ForeignGauges \ main.noDeposit)
      dstChains  == Kept(gauges, {g \in SideGauges : main.dst[g] = "none"})
  IN Flat([i \in DOMAIN gauges |-> perPool(gauges[i])])
     \o poolIds
     \o [i \in DOMAIN noDeposit |-> NoDepositTx(noDeposit[i], TRUE)]
     \o [i \in DOMAIN dstChains |-> DstChainTx(dstChains[i])]

(* Mutant: the stash of every new pool is predicted from the first nonce.  *)
NewStash_SameNonce(g, added) == Len(side.pools) + 1

(* getContractAddress: the clone that the proxy factory will make next,    *)
(* after those for the gauges before it.                                   *)
NewStash(g, added) == Len(side.pools) + SelectInSeq(added, LAMBDA h : h = g)

(* addPoolToSidechain                                                      *)
AddPoolToSidechain(gauges) ==
  LET added == Kept(gauges, {g \in SideGauges : ~Has(side, g)})
      perPool(g) ==
        IF Has(side, g)
        THEN IF LacksReward(side, g) THEN <<ListTx(<<StashTx(PidOf(side, g))>>)>> ELSE <<>>
        ELSE <<AddPoolTx(g), StashTx(NewStash(g, added))>>
      initialPid == Len(side.pools) + 1
      finalPid   == initialPid + Len(added)
  IN Flat([i \in DOMAIN gauges |-> perPool(gauges[i])])
     \o (IF added # <<>> THEN <<PoolIdsTx(initialPid, finalPid)>> ELSE <<>>)

(* The transactions for both chains.  An error on the sidechain, when for  *)
(* instance the subgraph has not indexed a pool yet, is logged and leaves  *)
(* that chain out; one on mainnet fails the task.                          *)
AddPoolTxs(gauges, voting, sideFails) ==
  [main |-> IF voting \/ ToSet(gauges) \cap MainGauges # {} THEN AddPoolToMainnet(gauges) ELSE <<>>,
   side |-> IF sideFails THEN <<>>
            ELSE AddPoolToSidechain(Kept(gauges, SideGauges))]

(* The files are written for the Safes; an old file is overwritten.        *)
AddPoolTask(gauges, sideFails) ==
  LET txs == AddPoolTxs(gauges, FALSE, sideFails)
  IN /\ safeBatch = [c \in {"main", "side"} |-> NoBatch]
     /\ Spend("list")
     /\ safeBatch' = [c \in {"main", "side"} |-> IF txs[c] = <<>> THEN NoBatch
                                                 ELSE Batch(txs[c], IF c = "main" THEN main ELSE side)]
     /\ UNCHANGED <<weighted, chainVars, prepared>>

(* protocol:gaugeVoter-voteGaugeWeights-tx: the votes after the listing.   *)
VoteGaugeWeightsTask(sideFails) ==
  LET gauges == InOrder({votes[k].gauge : k \in DOMAIN votes})
      txs    == AddPoolTxs(gauges, TRUE, sideFails)
  IN /\ votes # NoVotes
     /\ safeBatch = [c \in {"main", "side"} |-> NoBatch]
     /\ Spend("vote")
     /\ safeBatch' = [c \in {"main", "side"} |->
          IF c = "main" THEN Batch(txs.main \o <<VoteTx(votes)>>, main)
          ELSE IF txs.side = <<>> THEN NoBatch ELSE Batch(txs.side, side)]
     /\ UNCHANGED <<weighted, chainVars, prepared>>

(* The Safe executes a batch.                                              *)
ExecuteMain ==
  /\ safeBatch["main"] # NoBatch
  /\ main' \in Execute(main, safeBatch["main"].txs, TRUE)
  /\ safeBatch' = [safeBatch EXCEPT !["main"] = NoBatch]
  /\ UNCHANGED <<weighted, side, toSide, prepared, budget>>

ExecuteSide ==
  /\ safeBatch["side"] # NoBatch
  /\ side' \in Execute(side, safeBatch["side"].txs, FALSE)
  /\ safeBatch' = [safeBatch EXCEPT !["side"] = NoBatch]
  /\ UNCHANGED <<weighted, main, toSide, prepared, budget>>

(* The signers drop a batch, one that reverts for instance.                *)
DropBatch(c) ==
  /\ safeBatch[c] # NoBatch
  /\ safeBatch' = [safeBatch EXCEPT ![c] = NoBatch]
  /\ UNCHANGED <<weighted, chainVars, prepared, budget>>

(* protocol:gaugeVoter-setIsNoDepositGauge, executed by the Safe.          *)
SetIsNoDepositGaugeTask(g, flag) ==
  /\ main' \in Execute(main, <<NoDepositTx(g, flag)>>, TRUE)
  /\ Spend("keeper")
  /\ UNCHANGED <<weighted, side, toSide, safeBatch, prepared>>

-----------------------------------------------------------------------------
(* Keeper tasks: what is read, and later what is sent.                     *)

Prepare(what) ==
  /\ prepared = NotPrepared
  /\ prepared' = what
  /\ Spend("keeper")
  /\ UNCHANGED <<weighted, chainVars, safeBatch>>

(* protocol:keeper:l1:addPool reads the number of pools ...                *)
PrepareAddPools(gauges) ==
  Prepare([task |-> "l1:addPool", gauges |-> gauges, from |-> Len(main.pools) + 1])

(* ... and sends one transaction through the public multicall.             *)
SendAddPools ==
  /\ prepared.task = "l1:addPool"
  /\ LET gs == prepared.gauges IN
     main' \in Execute(main, [i \in DOMAIN gs |-> AddPoolTx(gs[i])]
                             \o <<PoolIdsTx(prepared.from, prepared.from + Len(gs))>>, TRUE)
               \cup {main}
  /\ prepared' = NotPrepared
  /\ UNCHANGED <<weighted, side, toSide, safeBatch, budget>>

(* protocol:keeper:l1:setStashExtraReward and its twin for the sidechain:  *)
(* only pools whose stash does not have the token.                         *)
L1SetStashExtraReward(pid) ==
  /\ pid \notin main.rewarded
  /\ main' \in SetStashExtraReward(main, pid)
  /\ Spend("keeper")
  /\ UNCHANGED <<weighted, side, toSide, safeBatch, prepared>>

L2SetStashExtraReward(pid) ==
  /\ pid \notin side.rewarded
  /\ side' \in SetStashExtraReward(side, pid)
  /\ Spend("keeper")
  /\ UNCHANGED <<weighted, main, toSide, safeBatch, prepared>>

(* protocol:keeper:l1l2:addPool, L1PoolManagerProxy.addPools: root gauges  *)
(* with weight.                                                            *)
L1L2AddPool(gauges) ==
  /\ gauges \subseteq SideGauges \cap weighted
  /\ toSide' = toSide \cup {gauges}
  /\ Spend("keeper")
  /\ UNCHANGED <<weighted, main, side, safeBatch, prepared>>

(* L2PoolManagerProxy._nonblockingLzReceive                                *)
ReceiveGauges(gauges) ==
  /\ gauges \in toSide
  /\ toSide' = toSide \ {gauges}
  /\ side' = [side EXCEPT !.valid = @ \cup gauges]
  /\ UNCHANGED <<weighted, main, safeBatch, prepared, budget>>

(* protocol:keeper:l2l2:addPool, L2PoolManagerProxy.addPool                *)
L2L2AddPool(g) ==
  /\ g \in side.valid
  /\ side' \in AddPool(side, g, SideGauges)
  /\ Spend("keeper")
  /\ UNCHANGED <<weighted, main, toSide, safeBatch, prepared>>

(* protocol:gaugeVoter-getPoolIds looks back from the last pool for one    *)
(* whose id is set, over BatchOfPids - 1 of them, and fails when there are *)
(* fewer and none is set.                                                  *)
LatestPid(chain) ==
  LET last  == Len(chain.pools) + 1
      isSet == {p \in DOMAIN chain.pools : chain.poolId[chain.pools[p]] # 0}
      back  == last - (BatchOfPids - 1)
  IN {p \in back .. last : /\ p \in DOMAIN chain.pools
                           /\ p .. last - 1 \cap isSet = {}
                           /\ p = back \/ p - 1 \in isSet}

(* ... and protocol:gaugeVoter-setPoolIds                                  *)
L1SetPoolIds ==
  /\ \E p \in LatestPid(main) : main' \in SetMainPoolIds(main, p, Len(main.pools) + 1)
  /\ Spend("keeper")
  /\ UNCHANGED <<weighted, side, toSide, safeBatch, prepared>>

L2SetPoolIds ==
  /\ \E p \in LatestPid(side) : side' \in SetPoolIds(side, p, Len(side.pools) + 1)
  /\ Spend("keeper")
  /\ UNCHANGED <<weighted, main, toSide, safeBatch, prepared>>

-----------------------------------------------------------------------------
(* Balancer: gauges get weight, and lose it or are killed.                 *)
ChangeWeight(g) ==
  /\ weighted' = IF g \in weighted THEN weighted \ {g} ELSE weighted \cup {g}
  /\ Spend("weight")
  /\ UNCHANGED <<chainVars, safeBatch, prepared>>
=============================================================================
