----------------------------- MODULE AuraBridge -----------------------------
(***************************************************************************)
(* AURA across chains.  On the canonical chain AuraProxyOFT                *)
(* (PausableProxyOFT, ProxyOFT) holds the AURA that is elsewhere; on each  *)
(* sidechain AuraOFT (PausableOFT, OFT) mints and burns it.  LayerZero     *)
(* carries the messages of a path in order; a message whose handler        *)
(* reverts is stored and can be retried (NonblockingLzApp).                *)
(*                                                                         *)
(* One action is one transaction.  A transaction that reverts changes      *)
(* nothing, except that lzReceive catches the revert of the handler.       *)
(***************************************************************************)
EXTENDS Integers, Sequences, FiniteSets, Functions

CONSTANTS
  Accounts,
  Sidechains,
  L1,                  \* the canonical chain
  InitialBalance,      \* AURA of each account on L1 at deployment
  Amounts,             \* bound: amounts sent, locked or rescued
  MaxNonce,            \* bound: messages per path
  MaxTime,             \* bound: the clock stops here
  epochDuration,       \* ticks of an inflow epoch (7 days)
  InflowLimits,        \* bound: values of inflowLimit
  InitialInflowLimit,
  QueueDelays,         \* bound: values of queueDelay
  InitialQueueDelay    \* 7 days

ASSUME BridgeAssumption ==
  /\ IsFiniteSet(Accounts) /\ IsFiniteSet(Sidechains)
  /\ L1 \notin Sidechains
  /\ InitialBalance \in [Accounts -> Nat]
  /\ Amounts \subseteq Nat \ {0}
  /\ MaxNonce \in Nat /\ MaxTime \in Nat /\ epochDuration \in Nat \ {0}
  /\ InflowLimits \subseteq Nat /\ InitialInflowLimit \in Nat
  /\ QueueDelays \subseteq Nat /\ InitialQueueDelay \in Nat

VARIABLES
  now,                 \* block.timestamp, the same on every chain
  balance,             \* chain -> account -> AURA (on a sidechain: OFT) it holds
  escrow,              \* AURA held by AuraProxyOFT
  paused,              \* chain -> PauseGuardian's flag
  inflow,              \* epoch -> amount received on L1
  outflow,             \* epoch -> amount sent from L1
  inflowLimit,
  queueDelay,
  queue,               \* roots of the transfers that are queued on L1
  locked,              \* account -> amount AuraProxyOFT locked for it in AuraLocker
  lockerShutdown,      \* AuraLocker.isShutdown
  lockerBlacklist,     \* AuraLocker.blacklist
  outboundNonce,       \* path -> messages sent on it
  channel,             \* path -> messages on the way, in order
  failedMessages,      \* path -> stored messages
  handled,             \* history: path -> nonces of the messages that took effect
  rescued              \* history: AURA taken out by rescue

Chains == Sidechains \cup {L1}
Paths  == (Sidechains \X {L1}) \cup ({L1} \X Sidechains)

Messages == [nonce : 1 .. MaxNonce, type : {"SEND", "LOCK"}, to : Accounts, amount : Amounts]
QueueRoots == [epoch : 0 .. MaxTime, srcChain : Sidechains, to : Accounts, amount : Amounts,
               timestamp : 0 .. MaxTime]

lockerVars == <<locked, lockerShutdown, lockerBlacklist>>
limitVars  == <<inflowLimit, queueDelay>>
wireVars   == <<outboundNonce, channel, failedMessages, handled>>
vars == <<now, balance, escrow, paused, inflow, outflow, limitVars, queue, lockerVars,
          wireVars, rescued>>

currentEpoch == now \div epochDuration

-----------------------------------------------------------------------------
(* Sending.                                                                *)

(* _lzSend: the endpoint gives the message the next nonce of its path.     *)
LzSend(path, type, to, amount) ==
  /\ outboundNonce[path] < MaxNonce
  /\ outboundNonce' = [outboundNonce EXCEPT ![path] = @ + 1]
  /\ channel' = [channel EXCEPT ![path] = Append(@,
       [nonce |-> outboundNonce[path] + 1, type |-> type, to |-> to, amount |-> amount])]
  /\ UNCHANGED <<failedMessages, handled>>

Debit(chain, from, amount) ==
  /\ amount <= balance[chain][from]
  /\ balance' = [balance EXCEPT ![chain][from] = @ - amount]

(* PausableProxyOFT.sendFrom.                                              *)
SendFromL1(from, dst, to, amount) ==
  /\ ~paused[L1]
  /\ Debit(L1, from, amount)
  /\ escrow' = escrow + amount
  /\ outflow' = [outflow EXCEPT ![currentEpoch] = @ + amount]
  /\ LzSend(<<L1, dst>>, "SEND", to, amount)
  /\ UNCHANGED <<now, paused, inflow, limitVars, queue, lockerVars, rescued>>

(* PausableOFT.sendFrom and AuraOFT.lock burn on the sidechain.            *)
BurnAndSend(src, from, type, to, amount) ==
  /\ ~paused[src]
  /\ Debit(src, from, amount)
  /\ LzSend(<<src, L1>>, type, to, amount)
  /\ UNCHANGED <<now, escrow, paused, inflow, outflow, limitVars, queue, lockerVars, rescued>>

SendFromSidechain(src, from, to, amount) == BurnAndSend(src, from, "SEND", to, amount)
LockOnSidechain(src, from, receiver, amount) == BurnAndSend(src, from, "LOCK", receiver, amount)

-----------------------------------------------------------------------------
(* The handlers of a message, _nonblockingLzReceive.                       *)

(* ProxyOFT._creditTo                                                      *)
Release(to, amount) ==
  /\ amount <= escrow
  /\ escrow' = escrow - amount
  /\ balance' = [balance EXCEPT ![L1][to] = @ + amount]

NetInflow(in, out) == IF in > out THEN in - out ELSE 0

QueueRoot(src, to, amount) ==
  [epoch |-> currentEpoch, srcChain |-> src, to |-> to, amount |-> amount, timestamp |-> now]

(* Mutant: a transfer is only queued for the limit.                        *)
MustQueue_IgnoresPause(amount) ==
  NetInflow(inflow[currentEpoch] + amount, outflow[currentEpoch]) > inflowLimit

MustQueue(amount) ==
  \/ NetInflow(inflow[currentEpoch] + amount, outflow[currentEpoch]) > inflowLimit
  \/ paused[L1]

(* _safeCreditTo: past the inflow limit, or when paused, the transfer is   *)
(* queued under the hash of its data.                                      *)
SafeCreditTo(src, to, amount) ==
  /\ inflow' = [inflow EXCEPT ![currentEpoch] = @ + amount]
  /\ \/ /\ MustQueue(amount)
        /\ queue' = queue \cup {QueueRoot(src, to, amount)}
        /\ UNCHANGED <<escrow, balance>>
     \/ /\ ~MustQueue(amount)
        /\ Release(to, amount)
        /\ UNCHANGED queue
  /\ UNCHANGED locked

(* AuraLocker.lock pulls the amount from the proxy.                        *)
LockInLocker(to, amount) ==
  /\ to \notin lockerBlacklist
  /\ amount <= escrow
  /\ escrow' = escrow - amount
  /\ locked' = [locked EXCEPT ![to] = @ + amount]
  /\ UNCHANGED <<balance, inflow, queue>>

(* _lockFor                                                                *)
LockFor(src, to, amount) ==
  IF lockerShutdown \/ paused[L1] THEN SafeCreditTo(src, to, amount) ELSE LockInLocker(to, amount)

HandleOnL1(src, m) ==
  \/ m.type = "SEND" /\ SafeCreditTo(src, m.to, m.amount)
  \/ m.type = "LOCK" /\ LockFor(src, m.to, m.amount)

(* OFT._creditTo mints.                                                    *)
HandleOnSidechain(dst, m) ==
  /\ balance' = [balance EXCEPT ![dst][m.to] = @ + m.amount]
  /\ UNCHANGED <<escrow, inflow, queue, locked>>

Handle(path, m) ==
  /\ IF path[2] = L1 THEN HandleOnL1(path[1], m) ELSE HandleOnSidechain(path[2], m)
  /\ handled' = [handled EXCEPT ![path] = @ \cup {m.nonce}]
  /\ UNCHANGED <<now, paused, outflow, limitVars, lockerShutdown, lockerBlacklist,
                 outboundNonce, rescued>>

(* lzReceive, the handler succeeding ...                                   *)
Receive(path) ==
  /\ channel[path] # <<>>
  /\ Handle(path, Head(channel[path]))
  /\ channel' = [channel EXCEPT ![path] = Tail(@)]
  /\ UNCHANGED failedMessages

(* Mutant: the message is not stored.                                      *)
ReceiveFails_Drops(path) ==
  /\ channel[path] # <<>>
  /\ channel' = [channel EXCEPT ![path] = Tail(@)]
  /\ UNCHANGED <<now, balance, escrow, paused, inflow, outflow, limitVars, queue, lockerVars,
                 outboundNonce, failedMessages, handled, rescued>>

(* Mutant: lzReceive reverts with the handler, the message stays first.     *)
ReceiveFails_Blocks(path) ==
  /\ channel[path] # <<>>
  /\ UNCHANGED vars

(* ... or reverting, out of gas if for no other reason: the message is     *)
(* stored.                                                                 *)
ReceiveFails(path) ==
  /\ channel[path] # <<>>
  /\ channel' = [channel EXCEPT ![path] = Tail(@)]
  /\ failedMessages' = [failedMessages EXCEPT ![path] = @ \cup {Head(channel[path])}]
  /\ UNCHANGED <<now, balance, escrow, paused, inflow, outflow, limitVars, queue, lockerVars,
                 outboundNonce, handled, rescued>>

(* Mutant: the stored message is not cleared.                              *)
RetryMessage_KeepsHash(path, m) ==
  /\ m \in failedMessages[path]
  /\ Handle(path, m)
  /\ UNCHANGED <<channel, failedMessages>>

(* retryMessage: the stored message is cleared and handled, or all reverts. *)
RetryMessage(path, m) ==
  /\ m \in failedMessages[path]
  /\ failedMessages' = [failedMessages EXCEPT ![path] = @ \ {m}]
  /\ Handle(path, m)
  /\ UNCHANGED channel

(* Mutant: the root stays in the queue.                                    *)
ProcessQueued_KeepsRoot(root) ==
  /\ ~paused[L1]
  /\ root \in queue
  /\ now > root.timestamp + queueDelay
  /\ Release(root.to, root.amount)
  /\ UNCHANGED <<now, paused, inflow, outflow, limitVars, queue, lockerVars, wireVars, rescued>>

(* processQueued                                                           *)
ProcessQueued(root) ==
  /\ ~paused[L1]
  /\ root \in queue
  /\ now > root.timestamp + queueDelay
  /\ queue' = queue \ {root}
  /\ Release(root.to, root.amount)
  /\ UNCHANGED <<now, paused, inflow, outflow, limitVars, lockerVars, wireVars, rescued>>

-----------------------------------------------------------------------------
(* Guardian, owner, super user; and the locker's owner.                    *)

SetPaused(chain, flag) ==
  /\ paused[chain] # flag
  /\ paused' = [paused EXCEPT ![chain] = flag]
  /\ UNCHANGED <<now, balance, escrow, inflow, outflow, limitVars, queue, lockerVars, wireVars,
                 rescued>>

Pause(chain)   == SetPaused(chain, TRUE)
Unpause(chain) == SetPaused(chain, FALSE)

SetInflowLimit(limit) ==
  /\ inflowLimit' = limit
  /\ UNCHANGED <<now, balance, escrow, paused, inflow, outflow, queueDelay, queue, lockerVars,
                 wireVars, rescued>>

SetQueueDelay(delay) ==
  /\ queueDelay' = delay
  /\ UNCHANGED <<now, balance, escrow, paused, inflow, outflow, inflowLimit, queue, lockerVars,
                 wireVars, rescued>>

Rescue(to, amount) ==
  /\ Release(to, amount)
  /\ rescued' = rescued + amount
  /\ UNCHANGED <<now, paused, inflow, outflow, limitVars, queue, lockerVars, wireVars>>

LockerShutdown ==
  /\ lockerShutdown' = TRUE
  /\ UNCHANGED <<now, balance, escrow, paused, inflow, outflow, limitVars, queue, locked,
                 lockerBlacklist, wireVars, rescued>>

LockerBlacklist(a) ==
  /\ lockerBlacklist' = lockerBlacklist \cup {a}
  /\ UNCHANGED <<now, balance, escrow, paused, inflow, outflow, limitVars, queue, locked,
                 lockerShutdown, wireVars, rescued>>

Tick ==
  /\ now < MaxTime
  /\ now' = now + 1
  /\ UNCHANGED <<balance, escrow, paused, inflow, outflow, limitVars, queue, lockerVars,
                 wireVars, rescued>>

-----------------------------------------------------------------------------
Init ==
  /\ now = 0
  /\ balance = [c \in Chains |-> IF c = L1 THEN InitialBalance ELSE [a \in Accounts |-> 0]]
  /\ escrow = 0
  /\ paused = [c \in Chains |-> FALSE]
  /\ inflow = [e \in 0 .. MaxTime |-> 0]
  /\ outflow = [e \in 0 .. MaxTime |-> 0]
  /\ inflowLimit = InitialInflowLimit
  /\ queueDelay = InitialQueueDelay
  /\ queue = {}
  /\ locked = [a \in Accounts |-> 0]
  /\ lockerShutdown = FALSE
  /\ lockerBlacklist = {}
  /\ outboundNonce = [p \in Paths |-> 0]
  /\ channel = [p \in Paths |-> <<>>]
  /\ failedMessages = [p \in Paths |-> {}]
  /\ handled = [p \in Paths |-> {}]
  /\ rescued = 0

UserStep ==
  \E c \in Sidechains, from, to \in Accounts, amount \in Amounts :
    \/ SendFromL1(from, c, to, amount)
    \/ SendFromSidechain(c, from, to, amount)
    \/ LockOnSidechain(c, from, to, amount)

WireStep ==
  \E p \in Paths :
    \/ Receive(p)
    \/ ReceiveFails(p)
    \/ \E m \in failedMessages[p] : RetryMessage(p, m)

AdminStep ==
  \/ \E c \in Chains : Pause(c) \/ Unpause(c)
  \/ \E limit \in InflowLimits : SetInflowLimit(limit)
  \/ \E delay \in QueueDelays : SetQueueDelay(delay)
  \/ \E to \in Accounts, amount \in Amounts : Rescue(to, amount)
  \/ LockerShutdown
  \/ \E a \in Accounts : LockerBlacklist(a)

Next ==
  \/ UserStep
  \/ WireStep
  \/ \E root \in queue : ProcessQueued(root)
  \/ AdminStep
  \/ Tick

Spec == Init /\ [][Next]_vars

(* LayerZero's relayer delivers what is on the way.                        *)
FairSpec == Spec /\ \A p \in Paths : WF_vars(Receive(p) \/ ReceiveFails(p))
=============================================================================
