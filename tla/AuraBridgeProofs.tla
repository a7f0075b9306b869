-------------------------- MODULE AuraBridgeProofs --------------------------
(***************************************************************************)
(* What holds of the bridge for any number of sidechains, accounts,        *)
(* messages and ticks: types, that a message is in one place, that it      *)
(* takes effect once, that a pause freezes the escrow, and that the escrow *)
(* covers every claim on it, wherever the claim is.                        *)
(***************************************************************************)
EXTENDS AuraBridgeProperties, SequenceTheorems, Arithmetic, TLAPS

-----------------------------------------------------------------------------
(* Type correctness.                                                       *)

(* The types hold after deployment.                                        *)
LEMMA InitType == Init => TypeOK
<1> SUFFICES ASSUME Init PROVE TypeOK
  OBVIOUS
<1>1. balance \in [Chains -> [Accounts -> Nat]]
  BY BridgeAssumption DEF Init
<1>2. now \in 0 .. MaxTime /\ inflow \in [0 .. MaxTime -> Nat] /\ outflow \in [0 .. MaxTime -> Nat]
  BY BridgeAssumption DEF Init
<1>3. channel \in [Paths -> Seq(Messages)] /\ outboundNonce \in [Paths -> 0 .. MaxNonce]
  BY BridgeAssumption DEF Init
<1> QED
  BY <1>1, <1>2, <1>3, BridgeAssumption DEF Init, TypeOK

(* Dividing the clock into epochs stays within the clock.                  *)
LEMMA EpochInRange ==
  ASSUME now \in 0 .. MaxTime
  PROVE  currentEpoch \in 0 .. MaxTime
<1> DEFINE q == now \div epochDuration
<1>1. epochDuration \in Nat /\ epochDuration >= 1 /\ now \in Nat /\ MaxTime \in Nat
  BY BridgeAssumption
<1>2. q \in Int /\ now = (epochDuration * q) + (now % epochDuration)
      /\ 0 <= now % epochDuration /\ now % epochDuration < epochDuration
  BY <1>1
<1>3. 0 <= q
  BY <1>1, <1>2, SMT
<1>4. q <= now
  BY <1>1, <1>2, <1>3, SMT
<1> QED
  BY <1>1, <1>2, <1>3, <1>4 DEF currentEpoch

(* A message sent has its type, and only the channel and the nonce change  *)
(* (_lzSend).                                                              *)
LEMMA LzSendType ==
  ASSUME TypeOK, NEW path \in Paths, NEW type \in {"SEND", "LOCK"}, NEW to \in Accounts,
         NEW amount \in Amounts, LzSend(path, type, to, amount)
  PROVE  /\ outboundNonce' \in [Paths -> 0 .. MaxNonce]
         /\ channel' \in [Paths -> Seq(Messages)]
         /\ failedMessages' = failedMessages /\ handled' = handled
<1> DEFINE m == [nonce |-> outboundNonce[path] + 1, type |-> type, to |-> to, amount |-> amount]
<1>1. outboundNonce[path] + 1 \in 1 .. MaxNonce
  BY BridgeAssumption DEF TypeOK, LzSend
<1>2. m \in Messages
  BY <1>1 DEF Messages
<1>3. Append(channel[path], m) \in Seq(Messages)
  BY <1>2 DEF TypeOK
<1> QED
  BY <1>1, <1>3, BridgeAssumption DEF LzSend, TypeOK

(* What is taken from a sender was there.                                  *)
LEMMA DebitType ==
  ASSUME TypeOK, NEW chain \in Chains, NEW from \in Accounts, NEW amount \in Amounts,
         Debit(chain, from, amount)
  PROVE  balance' \in [Chains -> [Accounts -> Nat]]
<1>1. amount \in Nat /\ balance[chain][from] - amount \in Nat
  BY BridgeAssumption DEF TypeOK, Debit
<1> DEFINE f == [balance[chain] EXCEPT ![from] = @ - amount]
<1>2. f \in [Accounts -> Nat]
  BY <1>1 DEF TypeOK
<1>3. balance' = [balance EXCEPT ![chain] = f]
  BY DEF Debit
<1> HIDE DEF f
<1> QED
  BY <1>2, <1>3 DEF TypeOK

(* What the escrow releases was in it.                                     *)
LEMMA ReleaseType ==
  ASSUME TypeOK, NEW to \in Accounts, NEW amount \in Amounts, Release(to, amount)
  PROVE  escrow' \in Nat /\ balance' \in [Chains -> [Accounts -> Nat]]
<1>1. amount \in Nat /\ escrow - amount \in Nat /\ L1 \in Chains
  BY BridgeAssumption DEF TypeOK, Release, Chains
<1> DEFINE f == [balance[L1] EXCEPT ![to] = @ + amount]
<1>2. f \in [Accounts -> Nat]
  BY <1>1 DEF TypeOK
<1>3. balance' = [balance EXCEPT ![L1] = f] /\ escrow' = escrow - amount
  BY DEF Release
<1> HIDE DEF f
<1> QED
  BY <1>1, <1>2, <1>3 DEF TypeOK

(* A credit, or what is queued instead, has its type (_safeCreditTo).      *)
LEMMA SafeCreditType ==
  ASSUME TypeOK, NEW src \in Sidechains, NEW to \in Accounts, NEW amount \in Amounts,
         SafeCreditTo(src, to, amount)
  PROVE  /\ inflow' \in [0 .. MaxTime -> Nat]
         /\ queue' \subseteq QueueRoots
         /\ escrow' \in Nat
         /\ balance' \in [Chains -> [Accounts -> Nat]]
         /\ locked' \in [Accounts -> Nat]
<1>1. currentEpoch \in 0 .. MaxTime /\ amount \in Nat
  BY EpochInRange, BridgeAssumption DEF TypeOK
<1>2. inflow' \in [0 .. MaxTime -> Nat]
  <2>1. inflow \in [0 .. MaxTime -> Nat] /\ inflow[currentEpoch] \in Nat
    BY <1>1 DEF TypeOK
  <2>2. inflow[currentEpoch] + amount \in Nat
    BY <1>1, <2>1
  <2>3. inflow' = [inflow EXCEPT ![currentEpoch] = inflow[currentEpoch] + amount]
    BY DEF SafeCreditTo
  <2> QED
    BY <2>1, <2>2, <2>3, Zenon
<1>3. QueueRoot(src, to, amount) \in QueueRoots
  BY <1>1 DEF QueueRoot, QueueRoots, TypeOK
<1>4. locked' \in [Accounts -> Nat]
  BY DEF SafeCreditTo, TypeOK
<1>5. CASE queue' = queue \cup {QueueRoot(src, to, amount)} /\ UNCHANGED <<escrow, balance>>
  BY <1>2, <1>3, <1>4, <1>5 DEF TypeOK
<1>6. CASE Release(to, amount) /\ UNCHANGED queue
  BY <1>2, <1>4, <1>6, ReleaseType DEF TypeOK
<1> QED
  BY <1>5, <1>6 DEF SafeCreditTo

(* Handling a message keeps the types.                                     *)
LEMMA HandleType ==
  ASSUME TypeOK, NEW path \in Paths, NEW m \in Messages, Handle(path, m)
  PROVE  /\ inflow' \in [0 .. MaxTime -> Nat]
         /\ queue' \subseteq QueueRoots
         /\ escrow' \in Nat
         /\ balance' \in [Chains -> [Accounts -> Nat]]
         /\ locked' \in [Accounts -> Nat]
         /\ handled' \in [Paths -> SUBSET (1 .. MaxNonce)]
<1>1. m.to \in Accounts /\ m.amount \in Amounts /\ m.amount \in Nat /\ m.nonce \in 1 .. MaxNonce
  BY BridgeAssumption DEF Messages
<1>2. handled' \in [Paths -> SUBSET (1 .. MaxNonce)]
  BY <1>1 DEF Handle, TypeOK
<1>3. CASE path[2] = L1
  <2>1. path[1] \in Sidechains
    BY <1>3, BridgeAssumption DEF Paths
  <2>2. CASE SafeCreditTo(path[1], m.to, m.amount)
    BY <1>1, <1>2, <2>1, <2>2, SafeCreditType
  <2>3. CASE LockInLocker(m.to, m.amount)
    <3>1. escrow - m.amount \in Nat
      BY <1>1, <2>3 DEF LockInLocker, TypeOK
    <3> QED
      BY <1>1, <1>2, <2>3, <3>1 DEF LockInLocker, TypeOK
  <2> QED
    BY <1>3, <2>2, <2>3 DEF Handle, HandleOnL1, LockFor
<1>4. CASE path[2] # L1
  <2>1. path[2] \in Chains
    BY DEF Paths, Chains
  <2>2. balance' \in [Chains -> [Accounts -> Nat]]
    <3>1. balance' = [balance EXCEPT ![path[2]][m.to] = @ + m.amount]
      BY <1>4 DEF Handle, HandleOnSidechain
    <3>2. balance[path[2]][m.to] + m.amount \in Nat
      BY <1>1, <2>1 DEF TypeOK
    <3> QED
      BY <1>1, <2>1, <3>1, <3>2 DEF TypeOK
  <2> QED
    BY <1>2, <1>4, <2>2 DEF Handle, HandleOnSidechain, TypeOK
<1> QED
  BY <1>3, <1>4

(* The first message of a channel, and the rest.                           *)
LEMMA HeadType ==
  ASSUME TypeOK, NEW path \in Paths, channel[path] # <<>>
  PROVE  Head(channel[path]) \in Messages /\ Tail(channel[path]) \in Seq(Messages)
  BY DEF TypeOK

(* Every step keeps the types.                                             *)
LEMMA NextType == TypeOK /\ [Next]_vars => TypeOK'
<1> SUFFICES ASSUME TypeOK, [Next]_vars PROVE TypeOK'
  OBVIOUS
<1> USE DEF limitVars, lockerVars, wireVars
<1>1. ASSUME NEW c \in Sidechains, NEW from \in Accounts, NEW to \in Accounts, NEW amount \in Amounts,
             SendFromL1(from, c, to, amount)
      PROVE  TypeOK'
  <2>1. <<L1, c>> \in Paths /\ L1 \in Chains /\ amount \in Nat /\ currentEpoch \in 0 .. MaxTime
    BY EpochInRange, BridgeAssumption DEF Paths, Chains, TypeOK
  <2>2. balance' \in [Chains -> [Accounts -> Nat]]
    BY <1>1, <2>1, DebitType DEF SendFromL1
  <2>3. /\ outboundNonce' \in [Paths -> 0 .. MaxNonce]
        /\ channel' \in [Paths -> Seq(Messages)]
        /\ failedMessages' = failedMessages /\ handled' = handled
    BY <1>1, <2>1, LzSendType DEF SendFromL1
  <2>4. outflow' \in [0 .. MaxTime -> Nat] /\ escrow' \in Nat
    <3>1. outflow \in [0 .. MaxTime -> Nat] /\ outflow[currentEpoch] + amount \in Nat
      BY <2>1 DEF TypeOK
    <3>2. outflow' = [outflow EXCEPT ![currentEpoch] = outflow[currentEpoch] + amount]
          /\ escrow' = escrow + amount
      BY <1>1 DEF SendFromL1
    <3>3. outflow' \in [0 .. MaxTime -> Nat]
      BY <3>1, <3>2, Zenon
    <3> QED
      BY <2>1, <3>2, <3>3 DEF TypeOK
  <2> QED
    BY <1>1, <2>2, <2>3, <2>4 DEF SendFromL1, TypeOK
<1>2. ASSUME NEW c \in Sidechains, NEW from \in Accounts, NEW to \in Accounts, NEW amount \in Amounts,
             NEW type \in {"SEND", "LOCK"}, BurnAndSend(c, from, type, to, amount)
      PROVE  TypeOK'
  <2>1. <<c, L1>> \in Paths /\ c \in Chains
    BY DEF Paths, Chains
  <2>2. balance' \in [Chains -> [Accounts -> Nat]]
    BY <1>2, <2>1, DebitType DEF BurnAndSend
  <2>3. /\ outboundNonce' \in [Paths -> 0 .. MaxNonce]
        /\ channel' \in [Paths -> Seq(Messages)]
        /\ failedMessages' = failedMessages /\ handled' = handled
    BY <1>2, <2>1, LzSendType DEF BurnAndSend
  <2> QED
    BY <1>2, <2>2, <2>3 DEF BurnAndSend, TypeOK
<1>3. ASSUME NEW p \in Paths, Receive(p) PROVE TypeOK'
  <2>1. Head(channel[p]) \in Messages /\ Tail(channel[p]) \in Seq(Messages)
    BY <1>3, HeadType DEF Receive
  <2>2. Handle(p, Head(channel[p]))
    BY <1>3 DEF Receive
  <2>3. channel' \in [Paths -> Seq(Messages)] /\ failedMessages' = failedMessages
    BY <1>3, <2>1 DEF Receive, TypeOK
  <2> HIDE DEF wireVars
  <2> QED
    BY <2>1, <2>2, <2>3, HandleType DEF Handle, TypeOK
<1>4. ASSUME NEW p \in Paths, ReceiveFails(p) PROVE TypeOK'
  <2>1. Head(channel[p]) \in Messages /\ Tail(channel[p]) \in Seq(Messages)
    BY <1>4, HeadType DEF ReceiveFails
  <2>2. channel' \in [Paths -> Seq(Messages)] /\ failedMessages' \in [Paths -> SUBSET Messages]
    BY <1>4, <2>1 DEF ReceiveFails, TypeOK
  <2> QED
    BY <1>4, <2>2 DEF ReceiveFails, TypeOK
<1>5. ASSUME NEW p \in Paths, NEW m \in failedMessages[p], RetryMessage(p, m) PROVE TypeOK'
  <2>1. m \in Messages /\ Handle(p, m)
    BY <1>5 DEF RetryMessage, TypeOK
  <2>2. failedMessages' \in [Paths -> SUBSET Messages] /\ channel' = channel
    BY <1>5 DEF RetryMessage, TypeOK
  <2> QED
    BY <2>1, <2>2, HandleType DEF Handle, TypeOK
<1>6. ASSUME NEW root \in queue, ProcessQueued(root) PROVE TypeOK'
  <2>1. root.to \in Accounts /\ root.amount \in Amounts
    BY DEF TypeOK, QueueRoots
  <2>2. Release(root.to, root.amount)
    BY <1>6 DEF ProcessQueued
  <2>3. escrow' \in Nat /\ balance' \in [Chains -> [Accounts -> Nat]]
    BY <2>1, <2>2, ReleaseType
  <2> QED
    BY <1>6, <2>3 DEF ProcessQueued, TypeOK
<1>7. ASSUME NEW to \in Accounts, NEW amount \in Amounts, Rescue(to, amount) PROVE TypeOK'
  <2>1. escrow' \in Nat /\ balance' \in [Chains -> [Accounts -> Nat]] /\ amount \in Nat
    BY <1>7, ReleaseType, BridgeAssumption DEF Rescue
  <2> QED
    BY <1>7, <2>1 DEF Rescue, TypeOK
<1>8. ASSUME NEW c \in Chains, NEW flag \in BOOLEAN, SetPaused(c, flag) PROVE TypeOK'
  BY <1>8 DEF SetPaused, TypeOK
<1>9. ASSUME NEW limit \in InflowLimits, SetInflowLimit(limit) PROVE TypeOK'
  BY <1>9, BridgeAssumption DEF SetInflowLimit, TypeOK
<1>10. ASSUME NEW delay \in QueueDelays, SetQueueDelay(delay) PROVE TypeOK'
  BY <1>10, BridgeAssumption DEF SetQueueDelay, TypeOK
<1>11. CASE LockerShutdown
  BY <1>11 DEF LockerShutdown, TypeOK
<1>12. ASSUME NEW a \in Accounts, LockerBlacklist(a) PROVE TypeOK'
  BY <1>12 DEF LockerBlacklist, TypeOK
<1>13. CASE Tick
  <2>1. now' \in 0 .. MaxTime
    BY <1>13, BridgeAssumption DEF Tick, TypeOK
  <2> QED
    BY <1>13, <2>1 DEF Tick, TypeOK
<1>14. CASE UNCHANGED vars
  BY <1>14 DEF vars, TypeOK
<1> HIDE DEF limitVars, lockerVars, wireVars
<1>15. CASE UserStep
  BY <1>1, <1>2, <1>15 DEF UserStep, SendFromSidechain, LockOnSidechain
<1>16. CASE WireStep
  BY <1>3, <1>4, <1>5, <1>16 DEF WireStep
<1>17. CASE AdminStep
  BY <1>7, <1>8, <1>9, <1>10, <1>11, <1>12, <1>17 DEF AdminStep, Pause, Unpause
<1> QED
  BY <1>6, <1>13, <1>14, <1>15, <1>16, <1>17 DEF Next

(* Every variable keeps its type: no amount is ever negative, however      *)
(* sends, retries, queueing and rescues interleave.                        *)
THEOREM TypeCorrect == Spec => []TypeOK
  BY InitType, NextType, PTL DEF Spec

-----------------------------------------------------------------------------
(* Where a message is.  The inductive invariant is EachMessageInOnePlace   *)
(* with TypeOK: the channel holds the latest nonces of its path in order,  *)
(* the others are either failed or handled.                                *)

(* What is in a channel.                                                   *)
LEMMA ChannelType ==
  ASSUME TypeOK, NEW p \in Paths
  PROVE  /\ channel[p] \in Seq(Messages)
         /\ Len(channel[p]) \in Nat
         /\ DOMAIN channel[p] = 1 .. Len(channel[p])
         /\ outboundNonce[p] \in Nat
         /\ Received(p) \in Int
         /\ \A i \in 1 .. Len(channel[p]) : channel[p][i] \in Messages
<1>1. channel[p] \in Seq(Messages) /\ outboundNonce[p] \in Nat
  BY BridgeAssumption DEF TypeOK
<1> QED
  BY <1>1 DEF Received

(* An ordered channel holds the nonces from the last one received to the   *)
(* last one sent.                                                          *)
LEMMA ChannelIsInterval ==
  ASSUME TypeOK, ChannelOrdered, NEW p \in Paths
  PROVE  InChannel(p) = (Received(p) + 1) .. outboundNonce[p]
<1> DEFINE l == Len(channel[p])
           r == Received(p)
           o == outboundNonce[p]
<1>1. l \in Nat /\ o \in Nat /\ r \in Int /\ r = o - l
  BY ChannelType DEF Received
<1>2. \A i \in 1 .. l : channel[p][i].nonce = r + i
  BY ChannelType DEF ChannelOrdered, Received
<1>3. InChannel(p) = {channel[p][i].nonce : i \in 1 .. l}
  BY ChannelType DEF InChannel
<1>4. InChannel(p) = {r + i : i \in 1 .. l}
  BY <1>2, <1>3
<1> HIDE DEF l, r, o
<1>5. ASSUME NEW n \in (r + 1) .. o PROVE n \in {r + i : i \in 1 .. l}
  <2>1. n - r \in 1 .. l /\ n = r + (n - r)
    BY <1>1
  <2> QED
    BY <2>1
<1>6. ASSUME NEW i \in 1 .. l PROVE r + i \in (r + 1) .. o
  BY <1>1
<1>7. {r + i : i \in 1 .. l} = (r + 1) .. o
  BY <1>5, <1>6
<1> QED
  BY <1>4, <1>7 DEF r, o

(* A message that is sent goes behind the others.                          *)
LEMMA SendKeepsOrder ==
  ASSUME TypeOK, ChannelOrdered, NEW path \in Paths, NEW type \in {"SEND", "LOCK"},
         NEW to \in Accounts, NEW amount \in Amounts, LzSend(path, type, to, amount)
  PROVE  /\ ChannelOrdered'
         /\ outboundNonce'[path] = outboundNonce[path] + 1
         /\ \A p \in Paths : Received(p)' = Received(p)
         /\ \A p \in Paths \ {path} : outboundNonce'[p] = outboundNonce[p]
<1> DEFINE m == [nonce |-> outboundNonce[path] + 1, type |-> type, to |-> to, amount |-> amount]
           l == Len(channel[path])
<1>1. /\ channel[path] \in Seq(Messages) /\ outboundNonce[path] \in Nat /\ l \in Nat
      /\ DOMAIN channel[path] = 1 .. l
  BY ChannelType
<1>2. /\ outboundNonce'[path] = outboundNonce[path] + 1
      /\ \A p \in Paths \ {path} : outboundNonce'[p] = outboundNonce[p]
  BY DEF LzSend, TypeOK
<1>3. /\ channel'[path] = Append(channel[path], m)
      /\ \A p \in Paths \ {path} : channel'[p] = channel[p]
  BY DEF LzSend, TypeOK
<1>4. /\ Len(channel'[path]) = l + 1
      /\ \A i \in 1 .. l : channel'[path][i] = channel[path][i]
      /\ channel'[path][l + 1] = m
      /\ DOMAIN channel'[path] = 1 .. (l + 1)
  <2>1. m \in Messages
    BY BridgeAssumption, <1>1 DEF Messages, LzSend, TypeOK
  <2> HIDE DEF m
  <2> QED
    BY <1>1, <1>3, <2>1
<1>5. m.nonce = outboundNonce[path] + 1
  OBVIOUS
<1> HIDE DEF m, l
<1>6. ASSUME NEW p \in Paths PROVE Received(p)' = Received(p)
  <2>1. CASE p # path
    BY <1>2, <1>3, <2>1 DEF Received
  <2>2. CASE p = path
    <3>1. Received(path)' = (outboundNonce[path] + 1) - (l + 1)
      BY <1>2, <1>4 DEF Received
    <3>2. Received(path) = outboundNonce[path] - l
      BY DEF Received, l
    <3> QED
      BY <1>1, <2>2, <3>1, <3>2
  <2> QED
    BY <2>1, <2>2
<1>7. ASSUME NEW p \in Paths, NEW i \in DOMAIN channel'[p]
      PROVE  channel'[p][i].nonce = Received(p)' + i
  <2>1. CASE p # path
    BY <1>3, <1>6, <2>1 DEF ChannelOrdered
  <2>2. CASE p = path /\ i \in 1 .. l
    <3>1. channel[path][i].nonce = Received(path) + i
      BY <1>1, <2>2 DEF ChannelOrdered
    <3>2. channel'[path][i] = channel[path][i]
      BY <1>4, <2>2
    <3> QED
      BY <1>6, <2>2, <3>1, <3>2
  <2>3. CASE p = path /\ i = l + 1
    <3>1. Received(path) = outboundNonce[path] - l
      BY DEF Received, l
    <3>2. outboundNonce[path] + 1 = Received(path) + (l + 1)
      BY <1>1, <3>1
    <3> QED
      BY <1>4, <1>5, <1>6, <2>3, <3>2
  <2>4. p = path => i \in 1 .. (l + 1)
    BY <1>4
  <2> QED
    BY <1>1, <2>1, <2>2, <2>3, <2>4
<1> QED
  BY <1>2, <1>6, <1>7 DEF ChannelOrdered

(* The first message of a channel leaves it.                               *)
LEMMA DeliveryKeepsOrder ==
  ASSUME TypeOK, ChannelOrdered, NEW path \in Paths, channel[path] # <<>>,
         channel' = [channel EXCEPT ![path] = Tail(@)],
         outboundNonce' = outboundNonce
  PROVE  /\ ChannelOrdered'
         /\ Head(channel[path]).nonce = Received(path) + 1
         /\ Received(path) \in Nat
         /\ Received(path)' = Received(path) + 1
         /\ \A p \in Paths \ {path} : Received(p)' = Received(p)
<1> DEFINE l == Len(channel[path])
<1>1. /\ channel[path] \in Seq(Messages) /\ outboundNonce[path] \in Nat /\ l \in Nat
      /\ DOMAIN channel[path] = 1 .. l
      /\ l >= 1
  <2>1. /\ channel[path] \in Seq(Messages) /\ outboundNonce[path] \in Nat /\ l \in Nat
        /\ DOMAIN channel[path] = 1 .. l
    BY ChannelType
  <2>2. l # 0
    BY <2>1
  <2> QED
    BY <2>1, <2>2
<1>2. /\ channel'[path] = Tail(channel[path])
      /\ \A p \in Paths \ {path} : channel'[p] = channel[p]
  BY DEF TypeOK
<1>3. /\ Len(channel'[path]) = l - 1
      /\ DOMAIN channel'[path] = 1 .. (l - 1)
      /\ \A i \in 1 .. (l - 1) : channel'[path][i] = channel[path][i + 1]
      /\ Head(channel[path]) = channel[path][1]
  <2> DEFINE s == channel[path]
             t == Tail(s)
  <2>1. s \in Seq(Messages) /\ s # <<>> /\ channel'[path] = t
    BY <1>1, <1>2
  <2>2. Head(s) = s[1]
    BY <2>1
  <2>3. t \in Seq(Messages) /\ Len(t) = l - 1 /\ \A i \in 1 .. Len(t) : t[i] = s[i + 1]
    BY <2>1, HeadTailProperties
  <2>4. DOMAIN t = 1 .. Len(t)
    BY <2>3
  <2> QED
    BY <2>1, <2>2, <2>3, <2>4
<1>4. \A i \in 1 .. l : channel[path][i].nonce = Received(path) + i
  BY <1>1 DEF ChannelOrdered
<1> HIDE DEF l
<1>5. Received(path) = outboundNonce[path] - l
  BY DEF Received, l
<1>6. Head(channel[path]).nonce = Received(path) + 1
  <2>1. 1 \in 1 .. l
    BY <1>1
  <2> QED
    BY <1>3, <1>4, <2>1
<1>7. Received(path) \in Nat
  <2>1. Head(channel[path]) \in Messages
    BY HeadType
  <2>2. Head(channel[path]).nonce \in 1 .. MaxNonce
    BY <2>1 DEF Messages
  <2>3. Received(path) \in Int
    BY ChannelType
  <2>4. Received(path) + 1 \in 1 .. MaxNonce
    BY <1>6, <2>2
  <2> QED
    BY <2>3, <2>4, BridgeAssumption
<1>8. Received(path)' = Received(path) + 1
  <2>1. Received(path)' = outboundNonce[path] - (l - 1)
    BY <1>3 DEF Received
  <2> QED
    BY <1>1, <1>5, <2>1
<1>9. \A p \in Paths \ {path} : Received(p)' = Received(p)
  BY <1>2 DEF Received
<1>10. ASSUME NEW p \in Paths, NEW i \in DOMAIN channel'[p]
      PROVE  channel'[p][i].nonce = Received(p)' + i
  <2>1. CASE p # path
    BY <1>2, <1>9, <2>1 DEF ChannelOrdered
  <2>2. CASE p = path
    <3>1. i \in 1 .. (l - 1) /\ i + 1 \in 1 .. l
      BY <1>1, <1>3, <2>2
    <3>2. channel'[path][i].nonce = Received(path) + (i + 1)
      BY <1>3, <1>4, <3>1
    <3>3. Received(path)' + i = Received(path) + (i + 1)
      BY <1>7, <1>8, <3>1
    <3> QED
      BY <2>2, <3>2, <3>3
  <2> QED
    BY <2>1, <2>2
<1> QED
  BY <1>6, <1>7, <1>8, <1>9, <1>10 DEF ChannelOrdered
(* A handled message was waiting on its path, and now is not.              *)
LEMMA HandledType ==
  ASSUME TypeOK, NEW path \in Paths, NEW m, Handle(path, m)
  PROVE  /\ handled'[path] = handled[path] \cup {m.nonce}
         /\ \A p \in Paths \ {path} : handled'[p] = handled[p]
         /\ outboundNonce' = outboundNonce
  BY DEF Handle, TypeOK

(* A message that is received leaves its channel for the handled ones.     *)
LEMMA ReceiveKeepsPlaces ==
  ASSUME TypeOK, EachMessageInOnePlace, NEW path \in Paths, Receive(path)
  PROVE  EachMessageInOnePlace'
<1> DEFINE n == Head(channel[path]).nonce
<1>1. /\ channel[path] # <<>> /\ Handle(path, Head(channel[path]))
      /\ channel' = [channel EXCEPT ![path] = Tail(@)]
      /\ failedMessages' = failedMessages
  BY DEF Receive
<1>2. /\ handled'[path] = handled[path] \cup {n}
      /\ \A p \in Paths \ {path} : handled'[p] = handled[p]
      /\ outboundNonce' = outboundNonce
  BY <1>1, HandledType
<1>3. /\ ChannelOrdered' /\ n = Received(path) + 1 /\ Received(path) \in Nat
      /\ Received(path)' = Received(path) + 1
      /\ \A p \in Paths \ {path} : Received(p)' = Received(p)
  BY <1>1, <1>2, DeliveryKeepsOrder DEF EachMessageInOnePlace
<1> HIDE DEF n
<1>4. \A p : Failed(p)' = Failed(p)
  BY <1>1 DEF Failed
<1>5. ASSUME NEW p \in Paths \ {path} PROVE OnePlaceOn(p)'
  BY <1>1, <1>2, <1>3, <1>4 DEF EachMessageInOnePlace, OnePlace, OnePlaceOn
<1>6. OnePlaceOn(path)'
  <2>1. OnePlaceOn(path)
    BY DEF EachMessageInOnePlace, OnePlace
  <2>2. n \notin Failed(path)
    BY <1>3, <2>1 DEF OnePlaceOn
  <2>3. 1 .. Received(path)' = (1 .. Received(path)) \cup {n}
    BY <1>3
  <2> QED
    BY <1>1, <1>2, <1>4, <2>1, <2>2, <2>3 DEF OnePlaceOn
<1> QED
  BY <1>3, <1>5, <1>6 DEF EachMessageInOnePlace, OnePlace

(* A message that fails leaves its channel for the failed ones.            *)
LEMMA ReceiveFailsKeepsPlaces ==
  ASSUME TypeOK, EachMessageInOnePlace, NEW path \in Paths, ReceiveFails(path)
  PROVE  EachMessageInOnePlace'
<1> DEFINE m == Head(channel[path])
<1>1. /\ channel[path] # <<>>
      /\ channel' = [channel EXCEPT ![path] = Tail(@)]
      /\ failedMessages'[path] = failedMessages[path] \cup {m}
      /\ \A p \in Paths \ {path} : failedMessages'[p] = failedMessages[p]
      /\ outboundNonce' = outboundNonce /\ handled' = handled
  BY DEF ReceiveFails, TypeOK
<1>2. /\ ChannelOrdered' /\ m.nonce = Received(path) + 1 /\ Received(path) \in Nat
      /\ Received(path)' = Received(path) + 1
      /\ \A p \in Paths \ {path} : Received(p)' = Received(p)
  BY <1>1, DeliveryKeepsOrder DEF EachMessageInOnePlace
<1> HIDE DEF m
<1>3. Failed(path)' = Failed(path) \cup {m.nonce}
  BY <1>1 DEF Failed
<1>4. \A p \in Paths \ {path} : Failed(p)' = Failed(p)
  BY <1>1 DEF Failed
<1>5. ASSUME NEW p \in Paths \ {path} PROVE OnePlaceOn(p)'
  BY <1>1, <1>2, <1>4 DEF EachMessageInOnePlace, OnePlace, OnePlaceOn
<1>6. OnePlaceOn(path)'
  <2>1. OnePlaceOn(path)
    BY DEF EachMessageInOnePlace, OnePlace
  <2>2. m.nonce \notin Failed(path) /\ m.nonce \notin handled[path]
    BY <1>2, <2>1 DEF OnePlaceOn
  <2>3. 1 .. Received(path)' = (1 .. Received(path)) \cup {m.nonce}
    BY <1>2
  <2>4. Failed(path)' \cap handled'[path] = {} /\ Failed(path)' \cup handled'[path] = 1 .. Received(path)'
    BY <1>1, <1>3, <2>1, <2>2, <2>3 DEF OnePlaceOn
  <2>5. \A x \in failedMessages[path] : x.nonce # m.nonce
    BY <2>2 DEF Failed
  <2>6. \A x, y \in failedMessages'[path] : x.nonce = y.nonce => x = y
    BY <1>1, <2>1, <2>5 DEF OnePlaceOn
  <2> QED
    BY <2>4, <2>6 DEF OnePlaceOn
<1> QED
  BY <1>2, <1>5, <1>6 DEF EachMessageInOnePlace, OnePlace

(* A retry that succeeds takes its message out of the failed ones.         *)
LEMMA RetryKeepsPlaces ==
  ASSUME TypeOK, EachMessageInOnePlace, NEW path \in Paths, NEW m \in failedMessages[path],
         RetryMessage(path, m)
  PROVE  EachMessageInOnePlace'
<1>1. /\ failedMessages'[path] = failedMessages[path] \ {m}
      /\ \A p \in Paths \ {path} : failedMessages'[p] = failedMessages[p]
      /\ channel' = channel
      /\ Handle(path, m)
  BY DEF RetryMessage, TypeOK
<1>2. /\ handled'[path] = handled[path] \cup {m.nonce}
      /\ \A p \in Paths \ {path} : handled'[p] = handled[p]
      /\ outboundNonce' = outboundNonce
  BY <1>1, HandledType
<1>3. ChannelOrdered' /\ \A p : Received(p)' = Received(p)
  BY <1>1, <1>2 DEF EachMessageInOnePlace, ChannelOrdered, Received
<1>4. ASSUME NEW p \in Paths \ {path} PROVE OnePlaceOn(p)'
  <2>1. Failed(p)' = Failed(p)
    BY <1>1 DEF Failed
  <2> QED
    BY <1>1, <1>2, <1>3, <2>1 DEF EachMessageInOnePlace, OnePlace, OnePlaceOn
<1>5. OnePlaceOn(path)'
  <2>1. OnePlaceOn(path)
    BY DEF EachMessageInOnePlace, OnePlace
  <2>2. Failed(path)' = Failed(path) \ {m.nonce} /\ m.nonce \in Failed(path)
    BY <1>1, <2>1 DEF Failed, OnePlaceOn
  <2> QED
    BY <1>1, <1>2, <1>3, <2>1, <2>2 DEF OnePlaceOn
<1> QED
  BY <1>3, <1>4, <1>5 DEF EachMessageInOnePlace, OnePlace

(* A new message has a new nonce and is in its channel only.               *)
LEMMA SendKeepsPlaces ==
  ASSUME TypeOK, EachMessageInOnePlace, NEW path \in Paths, NEW type \in {"SEND", "LOCK"},
         NEW to \in Accounts, NEW amount \in Amounts, LzSend(path, type, to, amount)
  PROVE  EachMessageInOnePlace'
<1>1. ChannelOrdered' /\ \A p \in Paths : Received(p)' = Received(p)
  BY SendKeepsOrder DEF EachMessageInOnePlace
<1>2. failedMessages' = failedMessages /\ handled' = handled
  BY DEF LzSend
<1>3. \A p : Failed(p)' = Failed(p)
  BY <1>2 DEF Failed
<1> QED
  BY <1>1, <1>2, <1>3 DEF EachMessageInOnePlace, OnePlace, OnePlaceOn

(* A step that touches no message leaves each in its place.                *)
LEMMA WireUnchanged ==
  ASSUME EachMessageInOnePlace, UNCHANGED wireVars
  PROVE  EachMessageInOnePlace'
<1>1. \A p : Failed(p)' = Failed(p) /\ Received(p)' = Received(p)
  BY DEF wireVars, Failed, Received
<1> QED
  BY <1>1 DEF wireVars, EachMessageInOnePlace, ChannelOrdered, OnePlace, OnePlaceOn

(* What each step does on the wire.                                        *)
LEMMA WireSteps ==
  ASSUME [Next]_vars
  PROVE  \/ \E path \in Paths, type \in {"SEND", "LOCK"}, to \in Accounts, amount \in Amounts :
              LzSend(path, type, to, amount)
         \/ \E p \in Paths : Receive(p) \/ ReceiveFails(p)
         \/ \E p \in Paths : \E m \in failedMessages[p] : RetryMessage(p, m)
         \/ UNCHANGED wireVars
<1>1. CASE UserStep
  <2>1. PICK c \in Sidechains, from \in Accounts, to \in Accounts, amount \in Amounts :
             \/ SendFromL1(from, c, to, amount)
             \/ BurnAndSend(c, from, "SEND", to, amount)
             \/ BurnAndSend(c, from, "LOCK", to, amount)
    BY <1>1 DEF UserStep, SendFromSidechain, LockOnSidechain
  <2>2. <<L1, c>> \in Paths /\ <<c, L1>> \in Paths
    BY DEF Paths
  <2>3. CASE SendFromL1(from, c, to, amount)
    BY <2>2, <2>3 DEF SendFromL1
  <2>4. CASE BurnAndSend(c, from, "SEND", to, amount)
    BY <2>2, <2>4 DEF BurnAndSend
  <2>5. CASE BurnAndSend(c, from, "LOCK", to, amount)
    BY <2>2, <2>5 DEF BurnAndSend
  <2> QED
    BY <2>1, <2>3, <2>4, <2>5
<1>2. CASE WireStep
  BY <1>2 DEF WireStep
<1>3. CASE AdminStep
  BY <1>3 DEF AdminStep, Pause, Unpause, SetPaused, SetInflowLimit, SetQueueDelay, Rescue,
              LockerShutdown, LockerBlacklist
<1>4. CASE Tick \/ UNCHANGED vars
  BY <1>4 DEF Tick, vars
<1>5. CASE \E root \in queue : ProcessQueued(root)
  BY <1>5 DEF ProcessQueued
<1> QED
  BY <1>1, <1>2, <1>3, <1>4, <1>5 DEF Next

(* There is no message after deployment.                                   *)
LEMMA PlacesInit == Init => EachMessageInOnePlace
<1> SUFFICES ASSUME Init PROVE EachMessageInOnePlace
  OBVIOUS
<1>1. \A p \in Paths : channel[p] = <<>> /\ failedMessages[p] = {} /\ handled[p] = {} /\ outboundNonce[p] = 0
  BY DEF Init
<1>2. \A p \in Paths : Received(p) = 0 /\ Failed(p) = {}
  BY <1>1 DEF Received, Failed
<1>3. ChannelOrdered
  BY <1>1 DEF ChannelOrdered
<1> QED
  BY <1>1, <1>2, <1>3 DEF EachMessageInOnePlace, OnePlace, OnePlaceOn

(* Every step leaves each message in one place.                            *)
LEMMA PlacesNext == TypeOK /\ EachMessageInOnePlace /\ [Next]_vars => EachMessageInOnePlace'
<1> SUFFICES ASSUME TypeOK, EachMessageInOnePlace, [Next]_vars PROVE EachMessageInOnePlace'
  OBVIOUS
<1> QED
  BY WireSteps, SendKeepsPlaces, ReceiveKeepsPlaces, ReceiveFailsKeepsPlaces, RetryKeepsPlaces,
     WireUnchanged

(* A message that was sent is on the way, stored or handled, in one of the *)
(* three only, whatever fails and whoever retries (lzReceive,              *)
(* _storeFailedMessage, retryMessage).                                     *)
THEOREM PlacesCorrect == Spec => []EachMessageInOnePlace
<1>1. Spec => []TypeOK
  BY TypeCorrect
<1> QED
  BY <1>1, PlacesInit, PlacesNext, PTL DEF Spec

-----------------------------------------------------------------------------
(* Pausing.                                                                *)

(* While paused no handler releases from the escrow.                       *)
LEMMA PausedHandlers ==
  ASSUME paused[L1], NEW path \in Paths, NEW m, Handle(path, m)
  PROVE  escrow' = escrow
<1>1. \A src, to, amount : SafeCreditTo(src, to, amount) => escrow' = escrow
  BY DEF SafeCreditTo, MustQueue
<1>2. CASE path[2] = L1
  BY <1>1, <1>2 DEF Handle, HandleOnL1, LockFor
<1>3. CASE path[2] # L1
  BY <1>3 DEF Handle, HandleOnSidechain
<1> QED
  BY <1>2, <1>3

(* While paused no step but a rescue does.                                 *)
LEMMA PausedStep ==
  TypeOK /\ [Next]_vars => (paused[L1] /\ rescued' = rescued => escrow <= escrow')
<1> SUFFICES ASSUME TypeOK, [Next]_vars, paused[L1], rescued' = rescued
             PROVE  escrow <= escrow'
  OBVIOUS
<1>1. escrow \in Nat /\ rescued \in Nat
  BY DEF TypeOK
<1>2. SUFFICES escrow' = escrow
  BY <1>1
<1>3. CASE UserStep
  BY <1>3 DEF UserStep, SendFromL1, SendFromSidechain, LockOnSidechain, BurnAndSend
<1>4. CASE WireStep
  <2>1. ASSUME NEW p \in Paths, Receive(p) PROVE escrow' = escrow
    BY <2>1, PausedHandlers DEF Receive
  <2>2. ASSUME NEW p \in Paths, ReceiveFails(p) PROVE escrow' = escrow
    BY <2>2 DEF ReceiveFails
  <2>3. ASSUME NEW p \in Paths, NEW m \in failedMessages[p], RetryMessage(p, m) PROVE escrow' = escrow
    BY <2>3, PausedHandlers DEF RetryMessage
  <2> QED
    BY <1>4, <2>1, <2>2, <2>3 DEF WireStep
<1>5. CASE \E root \in queue : ProcessQueued(root)
  BY <1>5 DEF ProcessQueued
<1>6. CASE AdminStep
  <2>1. ASSUME NEW to \in Accounts, NEW amount \in Amounts, Rescue(to, amount) PROVE FALSE
    <3>1. amount \in Nat /\ amount # 0 /\ rescued = rescued + amount
      BY <2>1, BridgeAssumption DEF Rescue
    <3> QED
      BY <1>1, <3>1
  <2> QED
    BY <1>6, <2>1 DEF AdminStep, Pause, Unpause, SetPaused, SetInflowLimit, SetQueueDelay,
                      LockerShutdown, LockerBlacklist
<1>7. CASE Tick \/ UNCHANGED vars
  BY <1>7 DEF Tick, vars
<1> QED
  BY <1>3, <1>4, <1>5, <1>6, <1>7 DEF Next

(* While it is paused, nothing but sudo takes AURA out of the proxy: not a *)
(* transfer, not a retried message, not a LOCK (pause, _safeCreditTo,      *)
(* _lockFor, processQueued).                                               *)
THEOREM PauseFreezes == Spec => PausedMeansFrozen
  BY TypeCorrect, PausedStep, PTL DEF Spec, PausedMeansFrozen

-----------------------------------------------------------------------------
(* The bridge implements ExactlyOnce.  By the invariant, what waits on a   *)
(* path is what was sent and not handled.                                  *)

IInv == TypeOK /\ EachMessageInOnePlace

(* Types, order and places hold in every state.                            *)
LEMMA InvariantHolds == Spec => []IInv
  BY TypeCorrect, PlacesCorrect, PTL DEF IInv

(* The messages that wait are those that were sent and not handled.        *)
LEMMA WaitingIsUnhandled ==
  IInv => \A p \in Paths :
            /\ outboundNonce[p] \in 0 .. MaxNonce
            /\ handled[p] \subseteq 1 .. outboundNonce[p]
            /\ Waiting(p) = (1 .. outboundNonce[p]) \ handled[p]
<1> SUFFICES ASSUME IInv, NEW p \in Paths
             PROVE  /\ outboundNonce[p] \in 0 .. MaxNonce
                    /\ handled[p] \subseteq 1 .. outboundNonce[p]
                    /\ Waiting(p) = (1 .. outboundNonce[p]) \ handled[p]
  OBVIOUS
<1> DEFINE r == Received(p)
           o == outboundNonce[p]
<1>1. TypeOK /\ ChannelOrdered /\ OnePlaceOn(p)
  BY DEF IInv, EachMessageInOnePlace, OnePlace
<1>2. InChannel(p) = (r + 1) .. o
  BY <1>1, ChannelIsInterval
<1>3. o \in 0 .. MaxNonce /\ r \in Int /\ Len(channel[p]) \in Nat /\ r = o - Len(channel[p])
  BY <1>1, ChannelType DEF TypeOK, Received
<1>4. Failed(p) \cap handled[p] = {} /\ Failed(p) \cup handled[p] = 1 .. r
  BY <1>1 DEF OnePlaceOn
<1>5. o \in Int /\ r \in Int /\ r <= o
  BY <1>3, BridgeAssumption
<1>6. r \in Nat
  <2>1. CASE channel[p] = <<>>
    BY <1>3, <2>1, BridgeAssumption
  <2>2. CASE channel[p] # <<>>
    <3>1. 1 \in DOMAIN channel[p] /\ channel[p][1] \in Messages
      BY <1>1, <2>2, ChannelType
    <3>2. channel[p][1].nonce = r + 1 /\ channel[p][1].nonce \in 1 .. MaxNonce
      BY <1>1, <3>1 DEF ChannelOrdered, Messages
    <3> QED
      BY <1>5, <3>2, BridgeAssumption
  <2> QED
    BY <2>1, <2>2
<1> HIDE DEF r, o
<1>7. 1 .. o = (1 .. r) \cup ((r + 1) .. o) /\ (1 .. r) \cap ((r + 1) .. o) = {}
  BY <1>5, <1>6
<1>8. Waiting(p) = (1 .. o) \ handled[p] /\ handled[p] \subseteq 1 .. o
  BY <1>2, <1>4, <1>7 DEF Waiting
<1> QED
  BY <1>3, <1>8 DEF o

(* The initial state is one of the abstract service.                       *)
LEMMA RefinesInit == Init => Once!Init
<1> SUFFICES ASSUME Init PROVE Pending = {} /\ Done = {}
  BY DEF Once!Init
<1>1. \A p \in Paths : channel[p] = <<>> /\ failedMessages[p] = {} /\ handled[p] = {}
  BY DEF Init
<1>2. \A p \in Paths : Waiting(p) = {}
  BY <1>1 DEF Waiting, InChannel, Failed
<1> QED
  BY <1>1, <1>2 DEF Pending, Done

(* What is sent and not handled is pending, in this state and the next.    *)
Unhandled == {x \in Paths \X (1 .. MaxNonce) : x[2] \in (1 .. outboundNonce[x[1]]) \ handled[x[1]]}
HandledWasSent == \A p \in Paths : outboundNonce[p] \in 0 .. MaxNonce /\ handled[p] \subseteq 1 .. outboundNonce[p]

(* So the pending messages of the abstract service are the unhandled ones. *)
LEMMA PendingIsUnhandled == IInv => Pending = Unhandled /\ HandledWasSent
<1> SUFFICES ASSUME IInv PROVE Pending = Unhandled /\ HandledWasSent
  OBVIOUS
<1>1. ASSUME NEW x \in Paths \X (1 .. MaxNonce)
      PROVE  x[2] \in Waiting(x[1]) <=> x[2] \in (1 .. outboundNonce[x[1]]) \ handled[x[1]]
  <2>1. x[1] \in Paths
    OBVIOUS
  <2> QED
    BY <2>1, WaitingIsUnhandled
<1>2. Pending = Unhandled
  BY <1>1 DEF Pending, Unhandled
<1> QED
  BY <1>2, WaitingIsUnhandled DEF HandledWasSent

(* The same, after a step.                                                 *)
LEMMA PendingIsUnhandledNext == IInv' => (Pending = Unhandled /\ HandledWasSent)'
  BY PendingIsUnhandled, PTL

(* Sending is accepting.                                                   *)
LEMMA SendIsAccept ==
  ASSUME IInv, IInv', NEW path \in Paths, NEW type \in {"SEND", "LOCK"}, NEW to \in Accounts,
         NEW amount \in Amounts, LzSend(path, type, to, amount)
  PROVE  \E x \in Paths \X (1 .. MaxNonce) : Once!Accept(x)
<1> DEFINE x == <<path, outboundNonce[path] + 1>>
<1>1. /\ Pending = Unhandled /\ HandledWasSent
      /\ Pending' = Unhandled' /\ HandledWasSent'
  BY PendingIsUnhandled, PendingIsUnhandledNext
<1>2. /\ outboundNonce'[path] = outboundNonce[path] + 1
      /\ \A p \in Paths \ {path} : outboundNonce'[p] = outboundNonce[p]
      /\ handled' = handled
  BY DEF LzSend, IInv, TypeOK
<1>3. /\ outboundNonce[path] \in Nat
      /\ outboundNonce[path] + 1 \in 1 .. MaxNonce
      /\ handled[path] \subseteq 1 .. outboundNonce[path]
  BY <1>1, BridgeAssumption DEF HandledWasSent, LzSend
<1>4. 1 .. outboundNonce'[path] = (1 .. outboundNonce[path]) \cup {outboundNonce[path] + 1}
  BY <1>2, <1>3
<1>5. outboundNonce[path] + 1 \notin 1 .. outboundNonce[path]
  BY <1>3
<1>6. x \in Paths \X (1 .. MaxNonce) /\ x[1] = path /\ x[2] = outboundNonce[path] + 1
  BY <1>3
<1>7. x \notin Pending /\ x \notin Done
  BY <1>1, <1>3, <1>5, <1>6 DEF Unhandled, Done
<1>8. Pending' = Pending \cup {x}
  <2>1. ASSUME NEW y \in Paths \X (1 .. MaxNonce)
        PROVE  y \in Unhandled' <=> y \in Unhandled \/ y = x
    <3>1. CASE y[1] # path
      BY <1>2, <1>6, <3>1 DEF Unhandled
    <3>2. CASE y[1] = path
      <4>1. y = x <=> y[2] = outboundNonce[path] + 1
        BY <3>2
      <4> QED
        BY <1>2, <1>3, <1>4, <1>5, <3>2, <4>1 DEF Unhandled
    <3> QED
      BY <3>1, <3>2
  <2> QED
    BY <1>1, <1>6, <2>1 DEF Unhandled
<1>9. Done' = Done
  BY <1>2 DEF Done
<1> QED
  BY <1>6, <1>7, <1>8, <1>9 DEF Once!Accept

(* Handling is completing.                                                 *)
LEMMA HandleIsComplete ==
  ASSUME IInv, IInv', NEW path \in Paths, NEW m, m.nonce \in Waiting(path), Handle(path, m)
  PROVE  \E x \in Paths \X (1 .. MaxNonce) : Once!Complete(x)
<1> DEFINE n == m.nonce
           x == <<path, n>>
<1>1. /\ Pending = Unhandled /\ HandledWasSent
      /\ Pending' = Unhandled' /\ HandledWasSent'
  BY PendingIsUnhandled, PendingIsUnhandledNext
<1>2. /\ handled'[path] = handled[path] \cup {n}
      /\ \A p \in Paths \ {path} : handled'[p] = handled[p]
      /\ outboundNonce' = outboundNonce
  BY HandledType DEF IInv
<1>3. n \in (1 .. outboundNonce[path]) \ handled[path]
  BY WaitingIsUnhandled
<1> HIDE DEF n
<1>4. n \in 1 .. MaxNonce
  BY <1>1, <1>3, BridgeAssumption DEF HandledWasSent
<1>5. x \in Paths \X (1 .. MaxNonce) /\ x[1] = path /\ x[2] = n
  BY <1>4
<1>6. x \in Pending
  BY <1>1, <1>3, <1>5 DEF Unhandled
<1>7. ASSUME NEW y \in Paths \X (1 .. MaxNonce)
      PROVE  /\ y \in Unhandled' <=> y \in Unhandled /\ y # x
             /\ y \in Done' <=> y \in Done \/ y = x
  <2>1. CASE y[1] # path
    BY <1>2, <1>5, <2>1 DEF Unhandled, Done
  <2>2. CASE y[1] = path
    <3>1. y = x <=> y[2] = n
      BY <2>2
    <3> QED
      BY <1>2, <2>2, <3>1 DEF Unhandled, Done
  <2> QED
    BY <2>1, <2>2
<1>8. Pending' = Pending \ {x}
  BY <1>1, <1>7 DEF Unhandled
<1>9. Done' = Done \cup {x}
  BY <1>5, <1>7 DEF Done
<1> QED
  BY <1>5, <1>6, <1>8, <1>9 DEF Once!Complete

(* A step that sends and handles nothing is a stutter.                     *)
LEMMA NothingHandled ==
  ASSUME IInv, IInv', outboundNonce' = outboundNonce, handled' = handled
  PROVE  Pending' = Pending /\ Done' = Done
<1>1. Pending = Unhandled /\ Pending' = Unhandled'
  BY PendingIsUnhandled, PendingIsUnhandledNext
<1> QED
  BY <1>1 DEF Unhandled, Done

(* Every step is one of the abstract service, or a stutter.                *)
LEMMA RefinesNext == IInv /\ IInv' /\ [Next]_vars => [Once!Next]_<<Pending, Done>>
<1> SUFFICES ASSUME IInv, IInv', [Next]_vars PROVE [Once!Next]_<<Pending, Done>>
  OBVIOUS
<1>1. ASSUME NEW path \in Paths, NEW type \in {"SEND", "LOCK"}, NEW to \in Accounts,
             NEW amount \in Amounts, LzSend(path, type, to, amount)
      PROVE  Once!Next
  BY <1>1, SendIsAccept DEF Once!Next
<1>2. ASSUME NEW p \in Paths, Receive(p) PROVE Once!Next
  <2>1. Handle(p, Head(channel[p]))
    BY <1>2 DEF Receive
  <2>2. Head(channel[p]).nonce \in Waiting(p)
    <3>1. 1 \in DOMAIN channel[p] /\ Head(channel[p]) = channel[p][1]
      BY <1>2, ChannelType DEF Receive, IInv
    <3> QED
      BY <3>1 DEF Waiting, InChannel
  <2> QED
    BY <2>1, <2>2, HandleIsComplete DEF Once!Next
<1>3. ASSUME NEW p \in Paths, NEW m \in failedMessages[p], RetryMessage(p, m) PROVE Once!Next
  <2>1. Handle(p, m)
    BY <1>3 DEF RetryMessage
  <2>2. m.nonce \in Waiting(p)
    BY DEF Waiting, Failed
  <2> QED
    BY <2>1, <2>2, HandleIsComplete DEF Once!Next
<1>4. ASSUME NEW p \in Paths, ReceiveFails(p) PROVE UNCHANGED <<Pending, Done>>
  BY <1>4, NothingHandled DEF ReceiveFails
<1>5. CASE UNCHANGED wireVars
  BY <1>5, NothingHandled DEF wireVars
<1> QED
  BY <1>1, <1>2, <1>3, <1>4, <1>5, WireSteps

(* A message of either direction takes effect at most once and stays       *)
(* pending until it does, through failures and retries: LayerZero's        *)
(* endpoint, lzReceive and retryMessage together.                          *)
THEOREM BridgeImplementsExactlyOnce == Spec => ImplementsExactlyOnce
  BY InvariantHolds, RefinesInit, RefinesNext, PTL DEF Spec, ImplementsExactlyOnce, Once!Spec

-----------------------------------------------------------------------------
(* The escrow covers what is claimed.                                      *)

(* The amounts in a sequence of messages.                                  *)
Carried(s) == SumFunctionOnSet([i \in DOMAIN s |-> s[i].amount], DOMAIN s)

(* The claims, by sidechain and by path.                                   *)
MintedOf == [c \in Sidechains |-> SumFunctionOnSet(balance[c], Accounts)]
WayOf    == [p \in Paths |-> Carried(channel[p])]
StoredOf == [p \in Paths |-> AmountsOf(failedMessages[p])]

(* The claims on the escrow, place by place.                               *)
LEMMA ClaimsByPlace ==
  /\ Minted = SumFunctionOnSet(MintedOf, Sidechains)
  /\ OnTheWay = SumFunctionOnSet(WayOf, Paths)
  /\ Stored = SumFunctionOnSet(StoredOf, Paths)
  /\ Queued = AmountsOf(queue)
<1>1. Minted = SumFunctionOnSet(MintedOf, Sidechains)
  BY DEF Minted, MintedOf, SumOf
<1>2. OnTheWay = SumFunctionOnSet(WayOf, Paths)
  BY DEF OnTheWay, WayOf, Carried, SumOf
<1>3. Stored = SumFunctionOnSet(StoredOf, Paths)
  BY DEF Stored, StoredOf, AmountsOf, SumOf
<1>4. Queued = AmountsOf(queue)
  BY DEF Queued, AmountsOf, SumOf
<1> QED
  BY <1>1, <1>2, <1>3, <1>4

(* The same, after a step.                                                 *)
LEMMA ClaimsByPlaceNext ==
  (/\ Minted = SumFunctionOnSet(MintedOf, Sidechains)
   /\ OnTheWay = SumFunctionOnSet(WayOf, Paths)
   /\ Stored = SumFunctionOnSet(StoredOf, Paths)
   /\ Queued = AmountsOf(queue))'
  BY ClaimsByPlace, PTL

(* There are finitely many chains, and so of paths.                        *)
LEMMA PathsAreFinite == IsFiniteSet(Paths)
<1>1. IsFiniteSet({L1}) /\ IsFiniteSet(Sidechains)
  BY FS_Singleton, BridgeAssumption
<1>2. IsFiniteSet(Sidechains \X {L1}) /\ IsFiniteSet({L1} \X Sidechains)
  BY <1>1, FS_Product
<1> QED
  BY <1>2, FS_Union DEF Paths

(* What is stored and what is queued is finite.                            *)
StoresAreFinite == (\A p \in Paths : IsFiniteSet(failedMessages[p])) /\ IsFiniteSet(queue)

(* The amount of every claim is a number.                                  *)
AmountsOK ==
  /\ \A c \in Sidechains : MintedOf[c] \in Nat
  /\ \A p \in Paths : WayOf[p] \in Nat /\ StoredOf[p] \in Nat
  /\ Minted \in Nat /\ OnTheWay \in Nat /\ Stored \in Nat /\ Queued \in Nat

(* A sequence of messages carries a sum.                                   *)
LEMMA CarriedIsNat ==
  ASSUME NEW s \in Seq(Messages)
  PROVE  /\ Carried(s) \in Nat
         /\ DOMAIN s = 1 .. Len(s) /\ Len(s) \in Nat
         /\ \A i \in DOMAIN s : s[i].amount \in Nat
<1> DEFINE f == [i \in DOMAIN s |-> s[i].amount]
           n == Len(s)
<1>1. n \in Nat /\ DOMAIN s = 1 .. n
  OBVIOUS
<1>2. \A i \in DOMAIN s : s[i] \in Messages
  BY <1>1
<1>3. \A i \in DOMAIN s : s[i].amount \in Nat /\ f[i] \in Nat
  BY <1>2, BridgeAssumption DEF Messages
<1> HIDE DEF f, n
<1>4. IsFiniteSet(DOMAIN s)
  BY <1>1, FS_Interval
<1>5. SumFunctionOnSet(f, DOMAIN s) \in Nat
  BY <1>3, <1>4, SumIsNat
<1> QED
  BY <1>1, <1>3, <1>5 DEF f, n, Carried

(* The claims are numbers.                                                 *)
LEMMA AmountsAreOK == TypeOK /\ StoresAreFinite => AmountsOK
<1> SUFFICES ASSUME TypeOK, StoresAreFinite PROVE AmountsOK
  OBVIOUS
<1>1. \A c \in Sidechains : MintedOf[c] \in Nat
  <2>1. ASSUME NEW c \in Sidechains PROVE SumFunctionOnSet(balance[c], Accounts) \in Nat
    <3>1. \A a \in Accounts : balance[c][a] \in Nat
      BY DEF TypeOK, Chains
    <3> QED
      BY <3>1, SumIsNat, BridgeAssumption
  <2> QED
    BY <2>1 DEF MintedOf
<1>2. \A p \in Paths : WayOf[p] \in Nat /\ StoredOf[p] \in Nat
  <2>1. ASSUME NEW p \in Paths PROVE Carried(channel[p]) \in Nat /\ AmountsOf(failedMessages[p]) \in Nat
    <3>1. channel[p] \in Seq(Messages) /\ failedMessages[p] \subseteq Messages
          /\ IsFiniteSet(failedMessages[p])
      BY DEF TypeOK, StoresAreFinite
    <3>2. \A m \in failedMessages[p] : m.amount \in Nat
      BY <3>1, BridgeAssumption DEF Messages
    <3> QED
      BY <3>1, <3>2, CarriedIsNat, AmountsHaveSum
  <2> QED
    BY <2>1 DEF WayOf, StoredOf
<1>3. \A r \in queue : r.amount \in Nat
  BY BridgeAssumption DEF TypeOK, QueueRoots
<1>4. AmountsOf(queue) \in Nat
  BY <1>3, AmountsHaveSum DEF StoresAreFinite
<1>5. SumFunctionOnSet(MintedOf, Sidechains) \in Nat
  BY <1>1, SumIsNat, BridgeAssumption
<1>6. SumFunctionOnSet(WayOf, Paths) \in Nat
  BY <1>2, SumIsNat, PathsAreFinite
<1>7. SumFunctionOnSet(StoredOf, Paths) \in Nat
  BY <1>2, SumIsNat, PathsAreFinite
<1> QED
  BY <1>1, <1>2, <1>4, <1>5, <1>6, <1>7, ClaimsByPlace DEF AmountsOK

(* The amounts are numbers after a step too.                               *)
LEMMA AmountsAreOKNext == TypeOK' /\ StoresAreFinite' => AmountsOK'
  BY AmountsAreOK, PTL

(* What is minted changes with the balance of one account.                 *)
LEMMA MintedChanges ==
  ASSUME TypeOK, TypeOK', AmountsOK, AmountsOK',
         NEW c \in Sidechains, NEW a \in Accounts, NEW k \in Int,
         balance'[c][a] = balance[c][a] + k,
         \A b \in Accounts \ {a} : balance'[c][b] = balance[c][b],
         \A d \in Sidechains \ {c} : balance'[d] = balance[d]
  PROVE  Minted' = Minted + k
<1>1. \A b \in Accounts : balance[c][b] \in Int /\ balance'[c][b] \in Int
  BY DEF TypeOK, Chains
<1>2. SumFunctionOnSet(balance'[c], Accounts)
        = SumFunctionOnSet(balance[c], Accounts) + (balance'[c][a] - balance[c][a])
  <2> DEFINE f == balance[c]
             g == balance'[c]
  <2>1. \A b \in Accounts : f[b] \in Int /\ g[b] \in Int /\ (b # a => f[b] = g[b])
    BY <1>1
  <2> HIDE DEF f, g
  <2>2. SumFunctionOnSet(g, Accounts) = SumFunctionOnSet(f, Accounts) + (g[a] - f[a])
    BY <2>1, SumOfChanged, BridgeAssumption
  <2> QED
    BY <2>2 DEF f, g
<1>3. MintedOf'[c] = MintedOf[c] + k
  BY <1>1, <1>2 DEF MintedOf, AmountsOK
<1>4. \A d \in Sidechains : d # c => MintedOf'[d] = MintedOf[d]
  <2>1. ASSUME NEW d \in Sidechains, d # c PROVE MintedOf'[d] = MintedOf[d]
    BY <2>1 DEF MintedOf
  <2> QED
    BY <2>1
<1>5. \A d \in Sidechains : MintedOf[d] \in Int /\ MintedOf'[d] \in Int
  BY DEF AmountsOK
<1>6. SumFunctionOnSet(MintedOf', Sidechains)
        = SumFunctionOnSet(MintedOf, Sidechains) + (MintedOf'[c] - MintedOf[c])
  BY <1>4, <1>5, SumOfChanged, BridgeAssumption
<1>7. Minted' = Minted + (MintedOf'[c] - MintedOf[c])
  BY <1>6, ClaimsByPlace, ClaimsByPlaceNext
<1> QED
  BY <1>3, <1>5, <1>7 DEF AmountsOK

(* What is minted is not what is on the canonical chain.                   *)
LEMMA MintedStays ==
  ASSUME AmountsOK, AmountsOK', \A d \in Sidechains : balance'[d] = balance[d]
  PROVE  Minted' = Minted
<1>1. \A d \in Sidechains : MintedOf[d] \in Int /\ MintedOf[d] = MintedOf'[d]
  BY DEF AmountsOK, MintedOf
<1>2. SumFunctionOnSet(MintedOf, Sidechains) = SumFunctionOnSet(MintedOf', Sidechains)
  BY <1>1, SumOfSame, BridgeAssumption
<1> QED
  BY <1>2, ClaimsByPlace, ClaimsByPlaceNext

(* A message put behind a sequence adds its amount.                        *)
LEMMA CarriedByMore ==
  ASSUME NEW s \in Seq(Messages), NEW m \in Messages
  PROVE  Carried(Append(s, m)) = Carried(s) + m.amount
<1> DEFINE t == Append(s, m)
           n == Len(s)
           f == [i \in DOMAIN s |-> s[i].amount]
           g == [i \in DOMAIN t |-> t[i].amount]
           I == 1 .. (n + 1)
           D == 1 .. n
<1>1. n \in Nat /\ DOMAIN s = D /\ \A i \in D : s[i].amount \in Nat
  BY CarriedIsNat
<1>2. m.amount \in Nat
  BY BridgeAssumption DEF Messages
<1>3. DOMAIN t = I /\ t[n + 1] = m /\ \A i \in D : t[i] = s[i]
  BY <1>1
<1>4. Carried(s) = SumFunctionOnSet(f, D) /\ Carried(t) = SumFunctionOnSet(g, I)
  <2>1. Carried(s) = SumFunctionOnSet(f, DOMAIN s) /\ Carried(t) = SumFunctionOnSet(g, DOMAIN t)
    BY DEF Carried
  <2> HIDE DEF t, f, g, I, D
  <2> QED
    BY <1>1, <1>3, <2>1, Zenon
<1>5. IsFiniteSet(I) /\ I \cap D = D /\ n + 1 \in I /\ n + 1 \notin D /\ I \ {n + 1} \subseteq D
      /\ D \subseteq I
  <2>1. n \in Nat
    BY <1>1
  <2> HIDE DEF n
  <2>2. 1 \in Int /\ n + 1 \in Int
    BY <2>1
  <2>3. IsFiniteSet(I)
    BY <2>2, FS_Interval
  <2> QED
    BY <2>1, <2>3
<1>6. \A i \in D : f[i] = s[i].amount /\ g[i] = t[i].amount
  BY <1>1, <1>3, <1>5
<1>7. g[n + 1] = m.amount
  BY <1>3, <1>5
<1> HIDE DEF f, g, I, D, t
<1>8. \A i \in I \ {n + 1} : i \in D /\ f[i] \in Nat /\ g[i] = f[i]
  BY <1>1, <1>3, <1>5, <1>6
<1>9. SumFunctionOnSet(g, I) = SumFunctionOnSet(f, I \cap D) + m.amount
  <2> DEFINE y == n + 1
             d == m.amount
  <2>1. /\ \A i \in I \ {y} : i \in D /\ f[i] \in Nat /\ g[i] = f[i]
        /\ y \in I /\ y \notin D /\ g[y] = d /\ d \in Nat
    BY <1>2, <1>5, <1>7, <1>8
  <2> HIDE DEF y, d
  <2>2. SumFunctionOnSet(g, I) = SumFunctionOnSet(f, I \cap D) + d
    BY <1>5, <2>1, SumOfAdded
  <2> QED
    BY <2>2 DEF d
<1>10. SumFunctionOnSet(f, I \cap D) = SumFunctionOnSet(f, D)
  BY <1>5, Zenon
<1> QED
  BY <1>4, <1>9, <1>10 DEF t

(* The first message of a sequence takes its amount with it.               *)
LEMMA CarriedByRest ==
  ASSUME NEW s \in Seq(Messages), s # <<>>
  PROVE  Carried(s) = Head(s).amount + Carried(Tail(s))
<1> DEFINE t == Tail(s)
           n == Len(t)
           f == [i \in DOMAIN s |-> s[i].amount]
           g == [i \in DOMAIN t |-> t[i].amount]
           S == 1 .. (n + 1)
<1>1. /\ t \in Seq(Messages) /\ Len(t) = Len(s) - 1
      /\ \A i \in 1 .. Len(t) : t[i] = s[i + 1]
      /\ Head(s) = s[1]
  BY HeadTailProperties
<1>2. n \in Nat /\ DOMAIN t = 1 .. n /\ \A i \in DOMAIN t : t[i].amount \in Nat
  BY <1>1, CarriedIsNat
<1>3. DOMAIN s = 1 .. Len(s) /\ Len(s) \in Nat /\ \A i \in DOMAIN s : s[i].amount \in Nat
  BY CarriedIsNat
<1>4. DOMAIN s = S
  BY <1>1, <1>2, <1>3
<1>5. Carried(s) = SumFunctionOnSet(f, S) /\ Carried(t) = SumFunctionOnSet(g, 1 .. n)
  <2>1. Carried(s) = SumFunctionOnSet(f, DOMAIN s) /\ Carried(t) = SumFunctionOnSet(g, DOMAIN t)
    BY DEF Carried
  <2> HIDE DEF t, f, g, S, n
  <2> QED
    BY <1>2, <1>4, <2>1, Zenon
<1>6. \A i \in S : f[i] \in Nat /\ f[i] = s[i].amount
  BY <1>3, <1>4
<1>7. \A i \in 1 .. n : i + 1 \in S
  BY <1>2
<1>8. \A i \in 1 .. n : g[i] = t[i].amount
  BY <1>2
<1>9. IsFiniteSet(S) /\ 1 \in S /\ S \ {1} = 2 .. (n + 1)
  <2>1. n \in Nat
    BY <1>2
  <2> HIDE DEF n
  <2>2. 1 \in Int /\ n + 1 \in Int
    BY <2>1
  <2>3. IsFiniteSet(1 .. (n + 1))
    BY <2>2, FS_Interval
  <2>4. 1 \in 1 .. (n + 1) /\ (1 .. (n + 1)) \ {1} = 2 .. (n + 1)
    BY <2>1
  <2> QED
    BY <2>3, <2>4
<1> HIDE DEF f, g, S, n
<1>10. \A i \in 1 .. n : f[i + 1] \in Int /\ g[i] = f[i + 1]
  BY <1>1, <1>6, <1>7, <1>8 DEF n
<1>11. SumFunctionOnSet(g, 1 .. n) = SumFunctionOnSet(f, 2 .. (n + 1))
  BY <1>2, <1>10, SumOfShifted
<1>12. SumFunctionOnSet(f, S) = f[1] + SumFunctionOnSet(f, S \ {1})
  BY <1>6, <1>9, SumRemove
<1>13. SumFunctionOnSet(f, S \ {1}) = SumFunctionOnSet(f, 2 .. (n + 1))
  BY <1>9, Zenon
<1> HIDE DEF t
<1> QED
  BY <1>1, <1>5, <1>6, <1>9, <1>11, <1>12, <1>13 DEF t

(* A message that is sent adds its amount to what is on the way.           *)
LEMMA SendAddsToTheWay ==
  ASSUME TypeOK, AmountsOK, AmountsOK', NEW path \in Paths, NEW type \in {"SEND", "LOCK"},
         NEW to \in Accounts, NEW amount \in Amounts, LzSend(path, type, to, amount)
  PROVE  OnTheWay' = OnTheWay + amount
<1> DEFINE m == [nonce |-> outboundNonce[path] + 1, type |-> type, to |-> to, amount |-> amount]
<1>1. outboundNonce[path] + 1 \in 1 .. MaxNonce
  BY BridgeAssumption DEF TypeOK, LzSend
<1>2. m \in Messages /\ m.amount = amount
  BY <1>1 DEF Messages
<1>3. /\ channel[path] \in Seq(Messages)
      /\ channel'[path] = Append(channel[path], m)
      /\ \A p \in Paths : p # path => channel'[p] = channel[p]
  BY DEF TypeOK, LzSend
<1> HIDE DEF m
<1>4. Carried(channel'[path]) = Carried(channel[path]) + amount
  BY <1>2, <1>3, CarriedByMore
<1>5. WayOf'[path] = WayOf[path] + amount
  BY <1>4 DEF WayOf
<1>6. \A p \in Paths : p # path => WayOf[p] = WayOf'[p]
  BY <1>3 DEF WayOf
<1>7. \A p \in Paths : WayOf[p] \in Int /\ WayOf'[p] \in Int
  BY DEF AmountsOK
<1>8. SumFunctionOnSet(WayOf', Paths) = SumFunctionOnSet(WayOf, Paths) + (WayOf'[path] - WayOf[path])
  BY <1>6, <1>7, SumOfChanged, PathsAreFinite
<1>9. OnTheWay' = OnTheWay + (WayOf'[path] - WayOf[path])
  BY <1>8, ClaimsByPlace, ClaimsByPlaceNext
<1>10. amount \in Nat
  BY BridgeAssumption
<1> QED
  BY <1>5, <1>7, <1>9, <1>10

(* The message that is delivered takes its amount from what is on the way. *)
LEMMA DeliveryTakesFromTheWay ==
  ASSUME TypeOK, AmountsOK, AmountsOK', NEW path \in Paths, channel[path] # <<>>,
         channel' = [channel EXCEPT ![path] = Tail(@)]
  PROVE  OnTheWay = OnTheWay' + Head(channel[path]).amount
<1> DEFINE amount == Head(channel[path]).amount
<1>1. Head(channel[path]) \in Messages /\ amount \in Nat
  <2>1. Head(channel[path]) \in Messages
    BY HeadType
  <2> QED
    BY <2>1, BridgeAssumption DEF Messages
<1>2. /\ channel[path] \in Seq(Messages)
      /\ channel'[path] = Tail(channel[path])
      /\ \A p \in Paths : p # path => channel'[p] = channel[p]
  BY DEF TypeOK
<1>3. Carried(channel[path]) = amount + Carried(channel'[path])
  BY <1>2, CarriedByRest
<1> HIDE DEF amount
<1>4. WayOf[path] = amount + WayOf'[path]
  BY <1>3 DEF WayOf
<1>5. \A p \in Paths : p # path => WayOf[p] = WayOf'[p]
  BY <1>2 DEF WayOf
<1>6. \A p \in Paths : WayOf[p] \in Int /\ WayOf'[p] \in Int
  BY DEF AmountsOK
<1>7. SumFunctionOnSet(WayOf', Paths) = SumFunctionOnSet(WayOf, Paths) + (WayOf'[path] - WayOf[path])
  BY <1>5, <1>6, SumOfChanged, PathsAreFinite
<1>8. OnTheWay' = OnTheWay + (WayOf'[path] - WayOf[path]) /\ OnTheWay \in Int
  BY <1>7, ClaimsByPlace, ClaimsByPlaceNext DEF AmountsOK
<1>9. OnTheWay = OnTheWay' + amount
  BY <1>1, <1>4, <1>6, <1>8
<1> QED
  BY <1>9 DEF amount

(* What is stored changes by the change on one path.                       *)
LEMMA StoredChanges ==
  ASSUME AmountsOK, AmountsOK', NEW path \in Paths,
         \A p \in Paths : p # path => failedMessages'[p] = failedMessages[p]
  PROVE  Stored' = Stored + (StoredOf'[path] - StoredOf[path])
<1>1. \A p \in Paths : p # path => StoredOf[p] = StoredOf'[p]
  <2>1. ASSUME NEW p \in Paths, p # path PROVE StoredOf[p] = StoredOf'[p]
    <3>1. failedMessages'[p] = failedMessages[p]
      BY <2>1
    <3>2. AmountsOf(failedMessages'[p]) = AmountsOf(failedMessages[p])
      BY <3>1, Zenon
    <3> QED
      BY <3>2 DEF StoredOf
  <2> QED
    BY <2>1
<1>2. \A p \in Paths : StoredOf[p] \in Int /\ StoredOf'[p] \in Int
  BY DEF AmountsOK
<1>3. SumFunctionOnSet(StoredOf', Paths)
        = SumFunctionOnSet(StoredOf, Paths) + (StoredOf'[path] - StoredOf[path])
  BY <1>1, <1>2, SumOfChanged, PathsAreFinite
<1> QED
  BY <1>3, ClaimsByPlace, ClaimsByPlaceNext

(* What leaves the escrow goes to the canonical chain.                     *)
LEMMA ReleaseMovesEscrow ==
  ASSUME TypeOK, AmountsOK, AmountsOK', NEW to \in Accounts, NEW amount, Release(to, amount)
  PROVE  escrow' = escrow - amount /\ Minted' = Minted
<1>1. \A d \in Sidechains : balance'[d] = balance[d]
  BY BridgeAssumption DEF Release, TypeOK, Chains
<1> QED
  BY <1>1, MintedStays DEF Release

(* A transfer that is credited leaves the escrow or joins the queue.       *)
LEMMA CreditIsCovered ==
  ASSUME TypeOK, StoresAreFinite, AmountsOK, AmountsOK', NEW src, NEW to \in Accounts,
         NEW amount \in Nat, SafeCreditTo(src, to, amount)
  PROVE  Minted' = Minted /\ Queued' + escrow <= Queued + escrow' + amount
<1> DEFINE root == QueueRoot(src, to, amount)
<1>1. root.amount = amount
  BY DEF QueueRoot
<1>2. \A r \in queue : r.amount \in Nat
  BY BridgeAssumption DEF TypeOK, QueueRoots
<1>3. escrow \in Nat /\ Queued \in Nat /\ Queued' \in Nat
  BY DEF TypeOK, AmountsOK
<1> HIDE DEF root
<1>4. CASE queue' = queue \cup {root} /\ UNCHANGED <<escrow, balance>>
  <2>1. AmountsOf(queue \cup {root}) <= AmountsOf(queue) + amount
    BY <1>1, <1>2, AmountsOfAtMost DEF StoresAreFinite
  <2>2. AmountsOf(queue') = AmountsOf(queue \cup {root})
    BY <1>4, Zenon
  <2>3. Queued' <= Queued + amount
    BY <2>1, <2>2, ClaimsByPlace, ClaimsByPlaceNext
  <2>4. Minted' = Minted /\ escrow' = escrow
    BY <1>4, MintedStays
  <2>5. Queued' + escrow <= Queued + escrow' + amount
    <3> DEFINE q  == Queued
               q1 == Queued'
    <3>1. q \in Nat /\ q1 \in Nat /\ escrow \in Nat /\ q1 <= q + amount
      BY <1>3, <2>3
    <3> HIDE DEF q, q1
    <3>2. q1 + escrow <= q + escrow + amount
      BY <3>1
    <3> QED
      BY <2>4, <3>2 DEF q, q1
  <2> QED
    BY <2>4, <2>5
<1>5. CASE Release(to, amount) /\ UNCHANGED queue
  <2>1. AmountsOf(queue') = AmountsOf(queue)
    BY <1>5, Zenon
  <2>2. Queued' = Queued
    BY <2>1, ClaimsByPlace, ClaimsByPlaceNext
  <2>3. escrow' = escrow - amount /\ Minted' = Minted
    BY <1>5, ReleaseMovesEscrow
  <2> QED
    BY <1>3, <2>2, <2>3
<1> QED
  BY <1>4, <1>5 DEF SafeCreditTo, root

(* A message that is handled becomes a token, a queued transfer, a lock or *)
(* a balance of the canonical chain, by its amount.                        *)
LEMMA HandleIsCovered ==
  ASSUME TypeOK, TypeOK', StoresAreFinite, AmountsOK, AmountsOK',
         NEW path \in Paths, NEW m \in Messages, Handle(path, m)
  PROVE  Minted' + Queued' + escrow <= Minted + Queued + escrow' + m.amount
<1>1. m.to \in Accounts /\ m.amount \in Nat
  BY BridgeAssumption DEF Messages
<1>2. /\ escrow \in Nat /\ Queued \in Nat /\ Queued' \in Nat /\ escrow' \in Nat
      /\ Minted \in Nat /\ Minted' \in Nat
  BY DEF TypeOK, AmountsOK
<1>3. CASE SafeCreditTo(path[1], m.to, m.amount)
  <2>1. Minted' = Minted /\ Queued' + escrow <= Queued + escrow' + m.amount
    BY <1>1, <1>3, CreditIsCovered
  <2> QED
    BY <1>1, <1>2, <2>1
<1>4. CASE LockInLocker(m.to, m.amount)
  <2>1. escrow' = escrow - m.amount /\ UNCHANGED <<balance, queue>>
    BY <1>4 DEF LockInLocker
  <2>2. Minted' = Minted
    BY <2>1, MintedStays
  <2>3. AmountsOf(queue') = AmountsOf(queue)
    BY <2>1, Zenon
  <2>4. Queued' = Queued
    BY <2>3, ClaimsByPlace, ClaimsByPlaceNext
  <2> QED
    BY <1>1, <1>2, <2>1, <2>2, <2>4
<1>5. CASE path[2] # L1
  <2>1. path[2] \in Sidechains
    BY <1>5 DEF Paths
  <2>2. balance' = [balance EXCEPT ![path[2]][m.to] = @ + m.amount] /\ UNCHANGED <<escrow, queue>>
    BY <1>5 DEF Handle, HandleOnSidechain
  <2>3. /\ balance'[path[2]][m.to] = balance[path[2]][m.to] + m.amount
        /\ \A b \in Accounts \ {m.to} : balance'[path[2]][b] = balance[path[2]][b]
        /\ \A d \in Sidechains \ {path[2]} : balance'[d] = balance[d]
    BY <1>1, <2>1, <2>2 DEF TypeOK, Chains
  <2>4. Minted' = Minted + m.amount
    <3> DEFINE c == path[2]
               a == m.to
               k == m.amount
    <3>1. /\ c \in Sidechains /\ a \in Accounts /\ k \in Int
          /\ balance'[c][a] = balance[c][a] + k
          /\ \A b \in Accounts \ {a} : balance'[c][b] = balance[c][b]
          /\ \A d \in Sidechains \ {c} : balance'[d] = balance[d]
      BY <1>1, <2>1, <2>3
    <3> HIDE DEF c, a, k
    <3>2. Minted' = Minted + k
      BY <3>1, MintedChanges
    <3> QED
      BY <3>2 DEF k
  <2>5. AmountsOf(queue') = AmountsOf(queue)
    BY <2>2, Zenon
  <2>6. Queued' = Queued
    BY <2>5, ClaimsByPlace, ClaimsByPlaceNext
  <2> QED
    BY <1>1, <1>2, <2>2, <2>4, <2>6
<1> QED
  BY <1>3, <1>4, <1>5 DEF Handle, HandleOnL1, LockFor

(* What is stored and what is queued stays finite.                         *)
LEMMA StoresStayFinite ==
  ASSUME TypeOK, StoresAreFinite, [Next]_vars
  PROVE  StoresAreFinite'
<1>1. \A S, x : IsFiniteSet(S) => IsFiniteSet(S \cup {x}) /\ IsFiniteSet(S \ {x})
  BY FS_AddElement, FS_RemoveElement
<1>2. ASSUME NEW path, NEW m, Handle(path, m) PROVE IsFiniteSet(queue')
  <2>1. queue' = queue \/ \E r : queue' = queue \cup {r}
    BY <1>2 DEF Handle, HandleOnL1, HandleOnSidechain, LockFor, LockInLocker, SafeCreditTo
  <2> QED
    BY <1>1, <2>1 DEF StoresAreFinite
<1>3. IsFiniteSet(queue')
  <2>1. CASE UserStep
    BY <2>1 DEF UserStep, SendFromL1, SendFromSidechain, LockOnSidechain, BurnAndSend, StoresAreFinite
  <2>2. CASE WireStep
    BY <1>2, <2>2 DEF WireStep, Receive, ReceiveFails, RetryMessage, StoresAreFinite
  <2>3. CASE \E root \in queue : ProcessQueued(root)
    BY <1>1, <2>3 DEF ProcessQueued, StoresAreFinite
  <2>4. CASE AdminStep
    BY <2>4 DEF AdminStep, Pause, Unpause, SetPaused, SetInflowLimit, SetQueueDelay, Rescue,
                LockerShutdown, LockerBlacklist, StoresAreFinite
  <2>5. CASE Tick \/ UNCHANGED vars
    BY <2>5 DEF Tick, vars, StoresAreFinite
  <2> QED
    BY <2>1, <2>2, <2>3, <2>4, <2>5 DEF Next
<1>4. ASSUME NEW p \in Paths PROVE IsFiniteSet(failedMessages'[p])
  <2>1. \/ failedMessages'[p] = failedMessages[p]
        \/ \E m : \/ failedMessages'[p] = failedMessages[p] \cup {m}
                  \/ failedMessages'[p] = failedMessages[p] \ {m}
    <3>1. ASSUME NEW q \in Paths, ReceiveFails(q)
          PROVE  \/ failedMessages'[p] = failedMessages[p]
                 \/ \E m : failedMessages'[p] = failedMessages[p] \cup {m}
      BY <3>1 DEF ReceiveFails, TypeOK
    <3>2. ASSUME NEW q \in Paths, NEW m \in failedMessages[q], RetryMessage(q, m)
          PROVE  \/ failedMessages'[p] = failedMessages[p]
                 \/ failedMessages'[p] = failedMessages[p] \ {m}
      BY <3>2 DEF RetryMessage, TypeOK
    <3> QED
      BY <3>1, <3>2, WireSteps DEF LzSend, Receive, wireVars
  <2> QED
    BY <1>1, <2>1 DEF StoresAreFinite
<1> QED
  BY <1>3, <1>4 DEF StoresAreFinite

(* The claims and what covers them, of which every step is a sum.          *)
LEMMA CoverIsKept ==
  ASSUME NEW minted \in Nat, NEW way \in Nat, NEW stored \in Nat, NEW queued \in Nat,
         NEW minted1 \in Nat, NEW way1 \in Nat, NEW stored1 \in Nat, NEW queued1 \in Nat,
         NEW held \in Nat, NEW held1 \in Nat,
         minted + way + stored + queued <= held,
         minted1 + way1 + stored1 + queued1 + held <= minted + way + stored + queued + held1
  PROVE  minted1 + way1 + stored1 + queued1 <= held1
  OBVIOUS

(* A step that adds no more to the claims than to the escrow keeps it      *)
(* covered.                                                                *)
LEMMA CoverSuffices ==
  ASSUME TypeOK, TypeOK', AmountsOK, AmountsOK', EscrowCoversClaims,
         Minted' + OnTheWay' + Stored' + Queued' + (escrow + rescued)
           <= Minted + OnTheWay + Stored + Queued + (escrow' + rescued')
  PROVE  EscrowCoversClaims'
<1> DEFINE held  == escrow + rescued
           held1 == escrow' + rescued'
<1>1. held \in Nat /\ held1 \in Nat
  <2>1. escrow \in Nat /\ rescued \in Nat /\ escrow' \in Nat /\ rescued' \in Nat
    BY DEF TypeOK
  <2>2. \A x, y \in Nat : x + y \in Nat
    OBVIOUS
  <2> QED
    BY <2>1, <2>2, Zenon
<1>2. Minted + OnTheWay + Stored + Queued <= held
  BY DEF EscrowCoversClaims, Claims
<1>3. Minted' + OnTheWay' + Stored' + Queued' + held <= Minted + OnTheWay + Stored + Queued + held1
  OBVIOUS
<1> HIDE DEF held, held1
<1>4. Minted' + OnTheWay' + Stored' + Queued' <= held1
  BY <1>1, <1>2, <1>3, CoverIsKept DEF AmountsOK
<1> QED
  BY <1>4 DEF EscrowCoversClaims, Claims, held1

(* Every step keeps the claims covered: one case for each operation.       *)
LEMMA StepKeepsCover ==
  TypeOK /\ StoresAreFinite /\ EscrowCoversClaims /\ [Next]_vars => EscrowCoversClaims'
<1> SUFFICES ASSUME TypeOK, StoresAreFinite, EscrowCoversClaims, [Next]_vars
             PROVE  EscrowCoversClaims'
  OBVIOUS
<1>0. TypeOK' /\ StoresAreFinite' /\ AmountsOK /\ AmountsOK'
  BY NextType, StoresStayFinite, AmountsAreOK, AmountsAreOKNext
<1> SUFFICES Minted' + OnTheWay' + Stored' + Queued' + (escrow + rescued)
               <= Minted + OnTheWay + Stored + Queued + (escrow' + rescued')
  BY <1>0, CoverSuffices
<1>1. /\ Minted \in Nat /\ OnTheWay \in Nat /\ Stored \in Nat /\ Queued \in Nat
      /\ Minted' \in Nat /\ OnTheWay' \in Nat /\ Stored' \in Nat /\ Queued' \in Nat
      /\ escrow \in Nat /\ escrow' \in Nat /\ rescued \in Nat /\ rescued' \in Nat
  BY <1>0 DEF AmountsOK, TypeOK
<1>2. /\ queue' = queue => Queued' = Queued
      /\ channel' = channel => OnTheWay' = OnTheWay
      /\ failedMessages' = failedMessages => Stored' = Stored
      /\ balance' = balance => Minted' = Minted
  <2>1. ASSUME queue' = queue PROVE Queued' = Queued
    <3>1. AmountsOf(queue') = AmountsOf(queue)
      BY <2>1, Zenon
    <3> QED
      BY <3>1, ClaimsByPlace, ClaimsByPlaceNext
  <2>2. ASSUME channel' = channel PROVE OnTheWay' = OnTheWay
    <3>1. WayOf' = WayOf
      BY <2>2, Zenon DEF WayOf
    <3>2. SumFunctionOnSet(WayOf', Paths) = SumFunctionOnSet(WayOf, Paths)
      BY <3>1, Zenon
    <3> QED
      BY <3>2, ClaimsByPlace, ClaimsByPlaceNext
  <2>3. ASSUME failedMessages' = failedMessages PROVE Stored' = Stored
    <3>1. StoredOf' = StoredOf
      BY <2>3, Zenon DEF StoredOf
    <3>2. SumFunctionOnSet(StoredOf', Paths) = SumFunctionOnSet(StoredOf, Paths)
      BY <3>1, Zenon
    <3> QED
      BY <3>2, ClaimsByPlace, ClaimsByPlaceNext
  <2>4. ASSUME balance' = balance PROVE Minted' = Minted
    BY <1>0, <2>4, MintedStays
  <2> QED
    BY <2>1, <2>2, <2>3, <2>4
<1>4. ASSUME NEW c \in Sidechains, NEW from \in Accounts, NEW to \in Accounts, NEW amount \in Amounts,
             SendFromL1(from, c, to, amount)
      PROVE  Minted' + OnTheWay' + Stored' + Queued' + (escrow + rescued)
               <= Minted + OnTheWay + Stored + Queued + (escrow' + rescued')
  <2>1. <<L1, c>> \in Paths /\ amount \in Nat
    BY BridgeAssumption DEF Paths
  <2>2. OnTheWay' = OnTheWay + amount
    BY <1>0, <1>4, <2>1, SendAddsToTheWay DEF SendFromL1
  <2>3. \A d \in Sidechains : balance'[d] = balance[d]
    BY <1>4, BridgeAssumption DEF SendFromL1, Debit, TypeOK, Chains
  <2>4. Minted' = Minted
    BY <1>0, <2>3, MintedStays
  <2>5. Stored' = Stored /\ Queued' = Queued /\ escrow' = escrow + amount /\ rescued' = rescued
    BY <1>2, <1>4 DEF SendFromL1, LzSend
  <2> QED
    BY <1>1, <2>1, <2>2, <2>4, <2>5
<1>5. ASSUME NEW c \in Sidechains, NEW from \in Accounts, NEW to \in Accounts, NEW amount \in Amounts,
             NEW type \in {"SEND", "LOCK"}, BurnAndSend(c, from, type, to, amount)
      PROVE  Minted' + OnTheWay' + Stored' + Queued' + (escrow + rescued)
               <= Minted + OnTheWay + Stored + Queued + (escrow' + rescued')
  <2>1. <<c, L1>> \in Paths /\ amount \in Nat
    BY BridgeAssumption DEF Paths
  <2>2. OnTheWay' = OnTheWay + amount
    BY <1>0, <1>5, <2>1, SendAddsToTheWay DEF BurnAndSend
  <2>3. /\ balance'[c][from] = balance[c][from] - amount
        /\ balance[c][from] \in Nat
        /\ \A b \in Accounts \ {from} : balance'[c][b] = balance[c][b]
        /\ \A d \in Sidechains \ {c} : balance'[d] = balance[d]
    BY <1>5 DEF BurnAndSend, Debit, TypeOK, Chains
  <2> DEFINE k == 0 - amount
  <2>4. k \in Int /\ balance'[c][from] = balance[c][from] + k
    BY <2>1, <2>3
  <2> HIDE DEF k
  <2>5. Minted' = Minted + k
    BY <1>0, <2>3, <2>4, MintedChanges
  <2>6. Stored' = Stored /\ Queued' = Queued /\ escrow' = escrow /\ rescued' = rescued
    BY <1>2, <1>5 DEF BurnAndSend, LzSend
  <2> QED
    BY <1>1, <2>1, <2>2, <2>5, <2>6 DEF k
<1>6. ASSUME NEW p \in Paths, Receive(p)
      PROVE  Minted' + OnTheWay' + Stored' + Queued' + (escrow + rescued)
               <= Minted + OnTheWay + Stored + Queued + (escrow' + rescued')
  <2> DEFINE m == Head(channel[p])
             amount == m.amount
  <2>1. m \in Messages /\ Handle(p, m)
    BY <1>6, HeadType DEF Receive
  <2>2. amount \in Nat
    BY <2>1, BridgeAssumption DEF Messages
  <2>3. OnTheWay = OnTheWay' + amount
    BY <1>0, <1>6, DeliveryTakesFromTheWay DEF Receive
  <2>4. Stored' = Stored /\ rescued' = rescued
    BY <1>2, <1>6 DEF Receive, Handle
  <2> HIDE DEF m
  <2>5. Minted' + Queued' + escrow <= Minted + Queued + escrow' + amount
    BY <1>0, <2>1, HandleIsCovered
  <2> HIDE DEF amount
  <2> DEFINE mi == Minted   wa == OnTheWay   st == Stored   qu == Queued
             mi1 == Minted' wa1 == OnTheWay' st1 == Stored' qu1 == Queued'
             es == escrow   re == rescued    es1 == escrow' re1 == rescued'
  <2>6. /\ mi \in Nat /\ wa \in Nat /\ st \in Nat /\ qu \in Nat
        /\ mi1 \in Nat /\ wa1 \in Nat /\ st1 \in Nat /\ qu1 \in Nat
        /\ es \in Nat /\ re \in Nat /\ es1 \in Nat /\ re1 \in Nat /\ amount \in Nat
        /\ wa = wa1 + amount /\ st1 = st /\ re1 = re /\ mi1 + qu1 + es <= mi + qu + es1 + amount
    BY <1>1, <2>2, <2>3, <2>4, <2>5
  <2> HIDE DEF mi, wa, st, qu, mi1, wa1, st1, qu1, es, re, es1, re1
  <2>7. mi1 + wa1 + st1 + qu1 + (es + re) <= mi + wa + st + qu + (es1 + re1)
    BY <2>6
  <2> QED
    BY <2>7 DEF mi, wa, st, qu, mi1, wa1, st1, qu1, es, re, es1, re1
<1>7. ASSUME NEW p \in Paths, ReceiveFails(p)
      PROVE  Minted' + OnTheWay' + Stored' + Queued' + (escrow + rescued)
               <= Minted + OnTheWay + Stored + Queued + (escrow' + rescued')
  <2> DEFINE m == Head(channel[p])
             amount == m.amount
  <2>1. m \in Messages
    BY <1>7, HeadType DEF ReceiveFails
  <2>2. amount \in Nat
    BY <2>1, BridgeAssumption DEF Messages
  <2>3. OnTheWay = OnTheWay' + amount
    BY <1>0, <1>7, DeliveryTakesFromTheWay DEF ReceiveFails
  <2>4. /\ failedMessages'[p] = failedMessages[p] \cup {m}
        /\ \A q \in Paths : q # p => failedMessages'[q] = failedMessages[q]
    BY <1>7 DEF ReceiveFails, TypeOK
  <2>5. Minted' = Minted /\ Queued' = Queued /\ escrow' = escrow /\ rescued' = rescued
    BY <1>2, <1>7 DEF ReceiveFails
  <2> HIDE DEF m
  <2>6. IsFiniteSet(failedMessages[p]) /\ \A n \in failedMessages[p] : n.amount \in Nat
    <3>1. failedMessages[p] \subseteq Messages
      BY DEF TypeOK
    <3> QED
      BY <3>1, BridgeAssumption DEF StoresAreFinite, Messages
  <2>7. AmountsOf(failedMessages[p] \cup {m}) <= AmountsOf(failedMessages[p]) + amount
    BY <2>2, <2>6, AmountsOfAtMost
  <2>8. AmountsOf(failedMessages'[p]) = AmountsOf(failedMessages[p] \cup {m})
    BY <2>4, Zenon
  <2>9. StoredOf'[p] <= StoredOf[p] + amount
    BY <2>7, <2>8 DEF StoredOf
  <2>10. Stored' = Stored + (StoredOf'[p] - StoredOf[p])
    BY <1>0, <2>4, StoredChanges
  <2>11. StoredOf[p] \in Nat /\ StoredOf'[p] \in Nat
    BY <1>0 DEF AmountsOK
  <2> HIDE DEF amount
  <2>12. Stored' <= Stored + amount
    BY <1>1, <2>2, <2>9, <2>10, <2>11
  <2> DEFINE mi == Minted   wa == OnTheWay   st == Stored   qu == Queued
             mi1 == Minted' wa1 == OnTheWay' st1 == Stored' qu1 == Queued'
             es == escrow   re == rescued    es1 == escrow' re1 == rescued'
  <2>13. /\ mi \in Nat /\ wa \in Nat /\ st \in Nat /\ qu \in Nat
        /\ mi1 \in Nat /\ wa1 \in Nat /\ st1 \in Nat /\ qu1 \in Nat
        /\ es \in Nat /\ re \in Nat /\ es1 \in Nat /\ re1 \in Nat /\ amount \in Nat
        /\ wa = wa1 + amount /\ mi1 = mi /\ qu1 = qu /\ es1 = es /\ re1 = re /\ st1 <= st + amount
    BY <1>1, <2>2, <2>3, <2>5, <2>12
  <2> HIDE DEF mi, wa, st, qu, mi1, wa1, st1, qu1, es, re, es1, re1
  <2>14. mi1 + wa1 + st1 + qu1 + (es + re) <= mi + wa + st + qu + (es1 + re1)
    BY <2>13
  <2> QED
    BY <2>14 DEF mi, wa, st, qu, mi1, wa1, st1, qu1, es, re, es1, re1
<1>8. ASSUME NEW p \in Paths, NEW m \in failedMessages[p], RetryMessage(p, m)
      PROVE  Minted' + OnTheWay' + Stored' + Queued' + (escrow + rescued)
               <= Minted + OnTheWay + Stored + Queued + (escrow' + rescued')
  <2> DEFINE amount == m.amount
  <2>1. failedMessages[p] \subseteq Messages
    BY DEF TypeOK
  <2>2. m \in Messages /\ Handle(p, m)
    BY <1>8, <2>1 DEF RetryMessage
  <2>3. IsFiniteSet(failedMessages[p]) /\ \A n \in failedMessages[p] : n.amount \in Nat
    BY <2>1, BridgeAssumption DEF StoresAreFinite, Messages
  <2>4. /\ failedMessages'[p] = failedMessages[p] \ {m}
        /\ \A q \in Paths : q # p => failedMessages'[q] = failedMessages[q]
    BY <1>8 DEF RetryMessage, TypeOK
  <2>5. OnTheWay' = OnTheWay /\ rescued' = rescued
    BY <1>2, <1>8 DEF RetryMessage, Handle
  <2>6. AmountsOf(failedMessages[p]) = AmountsOf(failedMessages[p] \ {m}) + amount
    BY <2>3, AmountsOfLess
  <2>7. AmountsOf(failedMessages'[p]) = AmountsOf(failedMessages[p] \ {m})
    BY <2>4, Zenon
  <2>8. StoredOf[p] = StoredOf'[p] + amount
    BY <2>6, <2>7 DEF StoredOf
  <2>9. Stored' = Stored + (StoredOf'[p] - StoredOf[p])
    BY <1>0, <2>4, StoredChanges
  <2>10. StoredOf[p] \in Nat /\ StoredOf'[p] \in Nat /\ amount \in Nat
    BY <1>0, <2>3 DEF AmountsOK
  <2>11. Minted' + Queued' + escrow <= Minted + Queued + escrow' + amount
    BY <1>0, <2>2, HandleIsCovered
  <2> HIDE DEF amount
  <2>12. Stored = Stored' + amount
    BY <1>1, <2>8, <2>9, <2>10
  <2> DEFINE mi == Minted   wa == OnTheWay   st == Stored   qu == Queued
             mi1 == Minted' wa1 == OnTheWay' st1 == Stored' qu1 == Queued'
             es == escrow   re == rescued    es1 == escrow' re1 == rescued'
  <2>13. /\ mi \in Nat /\ wa \in Nat /\ st \in Nat /\ qu \in Nat
        /\ mi1 \in Nat /\ wa1 \in Nat /\ st1 \in Nat /\ qu1 \in Nat
        /\ es \in Nat /\ re \in Nat /\ es1 \in Nat /\ re1 \in Nat /\ amount \in Nat
        /\ wa1 = wa /\ re1 = re /\ st = st1 + amount /\ mi1 + qu1 + es <= mi + qu + es1 + amount
    BY <1>1, <2>5, <2>10, <2>11, <2>12
  <2> HIDE DEF mi, wa, st, qu, mi1, wa1, st1, qu1, es, re, es1, re1
  <2>14. mi1 + wa1 + st1 + qu1 + (es + re) <= mi + wa + st + qu + (es1 + re1)
    BY <2>13
  <2> QED
    BY <2>14 DEF mi, wa, st, qu, mi1, wa1, st1, qu1, es, re, es1, re1
<1>9. ASSUME NEW root \in queue, ProcessQueued(root)
      PROVE  Minted' + OnTheWay' + Stored' + Queued' + (escrow + rescued)
               <= Minted + OnTheWay + Stored + Queued + (escrow' + rescued')
  <2> DEFINE amount == root.amount
  <2>1. queue \subseteq QueueRoots
    BY DEF TypeOK
  <2>2. root.to \in Accounts /\ IsFiniteSet(queue) /\ \A r \in queue : r.amount \in Nat
    BY <2>1, BridgeAssumption DEF StoresAreFinite, QueueRoots
  <2>3. queue' = queue \ {root} /\ Release(root.to, amount) /\ rescued' = rescued
    BY <1>9 DEF ProcessQueued
  <2>4. AmountsOf(queue) = AmountsOf(queue \ {root}) + amount
    BY <2>2, AmountsOfLess
  <2>5. AmountsOf(queue') = AmountsOf(queue \ {root})
    BY <2>3, Zenon
  <2>6. Queued = Queued' + amount
    BY <2>4, <2>5, ClaimsByPlace, ClaimsByPlaceNext
  <2>7. amount \in Nat
    BY <2>2
  <2> HIDE DEF amount
  <2>8. escrow' = escrow - amount /\ Minted' = Minted
    BY <1>0, <2>2, <2>3, ReleaseMovesEscrow
  <2>9. OnTheWay' = OnTheWay /\ Stored' = Stored
    BY <1>2, <1>9 DEF ProcessQueued, wireVars
  <2> DEFINE mi == Minted   wa == OnTheWay   st == Stored   qu == Queued
             mi1 == Minted' wa1 == OnTheWay' st1 == Stored' qu1 == Queued'
             es == escrow   re == rescued    es1 == escrow' re1 == rescued'
  <2>10. /\ mi \in Nat /\ wa \in Nat /\ st \in Nat /\ qu \in Nat
        /\ mi1 \in Nat /\ wa1 \in Nat /\ st1 \in Nat /\ qu1 \in Nat
        /\ es \in Nat /\ re \in Nat /\ es1 \in Nat /\ re1 \in Nat /\ amount \in Nat
        /\ re1 = re /\ qu = qu1 + amount /\ es1 = es - amount /\ mi1 = mi /\ wa1 = wa /\ st1 = st
    BY <1>1, <2>3, <2>6, <2>7, <2>8, <2>9
  <2> HIDE DEF mi, wa, st, qu, mi1, wa1, st1, qu1, es, re, es1, re1
  <2>11. mi1 + wa1 + st1 + qu1 + (es + re) <= mi + wa + st + qu + (es1 + re1)
    BY <2>10
  <2> QED
    BY <2>11 DEF mi, wa, st, qu, mi1, wa1, st1, qu1, es, re, es1, re1
<1>10. ASSUME NEW to \in Accounts, NEW amount \in Amounts, Rescue(to, amount)
       PROVE  Minted' + OnTheWay' + Stored' + Queued' + (escrow + rescued)
                <= Minted + OnTheWay + Stored + Queued + (escrow' + rescued')
  <2>1. Release(to, amount) /\ rescued' = rescued + amount /\ amount \in Nat
    BY <1>10, BridgeAssumption DEF Rescue
  <2>2. escrow' = escrow - amount /\ Minted' = Minted
    BY <1>0, <2>1, ReleaseMovesEscrow
  <2>3. OnTheWay' = OnTheWay /\ Stored' = Stored /\ Queued' = Queued
    BY <1>2, <1>10 DEF Rescue, wireVars
  <2> QED
    BY <1>1, <2>1, <2>2, <2>3
<1>11. ASSUME UNCHANGED <<balance, channel, failedMessages, queue, escrow, rescued>>
       PROVE  Minted' + OnTheWay' + Stored' + Queued' + (escrow + rescued)
                <= Minted + OnTheWay + Stored + Queued + (escrow' + rescued')
  BY <1>1, <1>2, <1>11
<1>12. CASE UserStep
  BY <1>4, <1>5, <1>12 DEF UserStep, SendFromSidechain, LockOnSidechain
<1>13. CASE WireStep
  BY <1>6, <1>7, <1>8, <1>13 DEF WireStep
<1>14. CASE \E root \in queue : ProcessQueued(root)
  BY <1>9, <1>14
<1>15. CASE AdminStep
  <2>1. CASE \E to \in Accounts, amount \in Amounts : Rescue(to, amount)
    BY <1>10, <2>1
  <2>2. CASE ~ \E to \in Accounts, amount \in Amounts : Rescue(to, amount)
    <3>1. UNCHANGED <<balance, channel, failedMessages, queue, escrow, rescued>>
      BY <1>15, <2>2 DEF AdminStep, Pause, Unpause, SetPaused, SetInflowLimit, SetQueueDelay,
                         LockerShutdown, LockerBlacklist, wireVars
    <3> QED
      BY <1>11, <3>1
  <2> QED
    BY <2>1, <2>2
<1>16. CASE Tick \/ UNCHANGED vars
  <2>1. UNCHANGED <<balance, channel, failedMessages, queue, escrow, rescued>>
    BY <1>16 DEF Tick, vars, wireVars
  <2> QED
    BY <1>11, <2>1
<1> QED
  BY <1>12, <1>13, <1>14, <1>15, <1>16 DEF Next

(* At first nothing is claimed.                                            *)
LEMMA InitCovers == Init => StoresAreFinite /\ EscrowCoversClaims
<1> SUFFICES ASSUME Init PROVE StoresAreFinite /\ EscrowCoversClaims
  OBVIOUS
<1>1. StoresAreFinite
  BY FS_EmptySet DEF Init, StoresAreFinite
<1>2. \A c \in Sidechains : MintedOf[c] = 0
  <2>1. ASSUME NEW c \in Sidechains PROVE SumFunctionOnSet(balance[c], Accounts) = 0
    <3>1. \A a \in Accounts : balance[c][a] = 0
      BY BridgeAssumption DEF Init, Chains
    <3> QED
      BY <3>1, SumOfZeros, BridgeAssumption
  <2> QED
    BY <2>1 DEF MintedOf
<1>3. Carried(<<>>) = 0 /\ AmountsOf({}) = 0
  <2>1. DOMAIN <<>> = {}
    OBVIOUS
  <2>2. Carried(<<>>) = SumFunctionOnSet([i \in DOMAIN <<>> |-> <<>>[i].amount], {})
    BY <2>1, Zenon DEF Carried
  <2> QED
    BY <2>2, SumEmpty DEF AmountsOf
<1>4. \A p \in Paths : WayOf[p] = 0 /\ StoredOf[p] = 0
  <2>1. ASSUME NEW p \in Paths PROVE Carried(channel[p]) = 0 /\ AmountsOf(failedMessages[p]) = 0
    <3>1. channel[p] = <<>> /\ failedMessages[p] = {}
      BY DEF Init
    <3> QED
      BY <1>3, <3>1, Zenon
  <2> QED
    BY <2>1 DEF WayOf, StoredOf
<1>5. SumFunctionOnSet(MintedOf, Sidechains) = 0
  BY <1>2, SumOfZeros, BridgeAssumption
<1>6. SumFunctionOnSet(WayOf, Paths) = 0 /\ SumFunctionOnSet(StoredOf, Paths) = 0
  BY <1>4, SumOfZeros, PathsAreFinite
<1>7. AmountsOf(queue) = 0
  BY <1>3, Zenon DEF Init
<1>8. Minted = 0 /\ OnTheWay = 0 /\ Stored = 0 /\ Queued = 0
  BY <1>5, <1>6, <1>7, ClaimsByPlace
<1>9. escrow = 0 /\ rescued = 0
  BY DEF Init
<1> QED
  BY <1>1, <1>8, <1>9 DEF EscrowCoversClaims, Claims

(* What the proxy holds, with what sudo took, covers the tokens of every   *)
(* sidechain, every message on the way or stored and every queued          *)
(* transfer, for any traffic: nothing is credited twice (sendFrom, lock,   *)
(* lzReceive, retryMessage, _safeCreditTo, _lockFor, processQueued).       *)
THEOREM EscrowStaysCovered == Spec => []EscrowCoversClaims
<1>1. TypeOK /\ StoresAreFinite /\ [Next]_vars => StoresAreFinite'
  BY StoresStayFinite
<1> QED
  BY <1>1, TypeCorrect, InitCovers, StepKeepsCover, PTL DEF Spec
=============================================================================
