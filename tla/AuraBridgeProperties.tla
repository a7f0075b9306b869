------------------------ MODULE AuraBridgeProperties ------------------------
(* What the bridge has to keep, over all its chains.                       *)
EXTENDS AuraBridge

-----------------------------------------------------------------------------
(* The variables hold values of their types.                               *)
TypeOK ==
  /\ now \in 0 .. MaxTime
  /\ balance \in [Chains -> [Accounts -> Nat]]
  /\ escrow \in Nat
  /\ paused \in [Chains -> BOOLEAN]
  /\ inflow \in [0 .. MaxTime -> Nat]
  /\ outflow \in [0 .. MaxTime -> Nat]
  /\ inflowLimit \in Nat
  /\ queueDelay \in Nat
  /\ queue \subseteq QueueRoots
  /\ locked \in [Accounts -> Nat]
  /\ lockerShutdown \in BOOLEAN
  /\ lockerBlacklist \subseteq Accounts
  /\ outboundNonce \in [Paths -> 0 .. MaxNonce]
  /\ channel \in [Paths -> Seq(Messages)]
  /\ failedMessages \in [Paths -> SUBSET Messages]
  /\ handled \in [Paths -> SUBSET (1 .. MaxNonce)]
  /\ rescued \in Nat

-----------------------------------------------------------------------------
(* Where a message is.                                                     *)
InChannel(p) == {channel[p][i].nonce : i \in DOMAIN channel[p]}
Failed(p)    == {m.nonce : m \in failedMessages[p]}

(* What has left the channel.                                              *)
Received(p)  == outboundNonce[p] - Len(channel[p])

(* The channel delivers in the order of the nonces.                        *)
ChannelOrdered ==
  \A p \in Paths : \A i \in DOMAIN channel[p] : channel[p][i].nonce = Received(p) + i

(* What has left it is stored as failed or has taken effect, never both.   *)
OnePlaceOn(p) ==
  /\ Failed(p) \cap handled[p] = {}
  /\ Failed(p) \cup handled[p] = 1 .. Received(p)
  /\ \A m, n \in failedMessages[p] : m.nonce = n.nonce => m = n

OnePlace == \A p \in Paths : OnePlaceOn(p)

(* Every message that was sent is in exactly one place: on the way, stored *)
(* as failed, or handled (NonblockingLzApp, LzApp).                        *)
EachMessageInOnePlace == ChannelOrdered /\ OnePlace

-----------------------------------------------------------------------------
(* The claims on the escrow: tokens on the sidechains, messages in either  *)
(* direction that have not been handled, transfers in the queue.           *)
SumOf(amount(_), S) == SumFunctionOnSet([x \in S |-> amount(x)], S)

Minted   == SumOf(LAMBDA c : SumFunctionOnSet(balance[c], Accounts), Sidechains)
OnTheWay == SumOf(LAMBDA p : SumOf(LAMBDA i : channel[p][i].amount, DOMAIN channel[p]), Paths)
Stored   == SumOf(LAMBDA p : SumOf(LAMBDA m : m.amount, failedMessages[p]), Paths)
Queued   == SumOf(LAMBDA r : r.amount, queue)
Claims   == Minted + OnTheWay + Stored + Queued

(* What the proxy holds, and what sudo took, cover every claim: no message *)
(* is credited twice, by whatever mixture of failures, retries, queueing   *)
(* and locking.                                                            *)
EscrowCoversClaims == Claims <= escrow + rescued

(* Conversely, every token in escrow can be claimed by somebody: "When     *)
(* paused all messages received are added to a queue to be processed       *)
(* after `queueDelay` time has passed" (PausableProxyOFT.sol:15).          *)
EveryTransferIsKept == escrow + rescued <= Claims

(* While the proxy is paused only sudo takes AURA out of it, LOCK messages *)
(* and the queue included.                                                 *)
PausedMeansFrozen ==
  [][paused[L1] /\ rescued' = rescued => escrow <= escrow']_vars

(* A failing message does not block the ones behind it: whatever is on the *)
(* way leaves the channel.                                                 *)
NeverBlocked ==
  \A p \in Paths, n \in 1 .. MaxNonce : n \in InChannel(p) ~> n \notin InChannel(p)

-----------------------------------------------------------------------------
(* The bridge implements ExactlyOnce: a message takes effect at most once  *)
(* and stays pending until then.                                           *)
Waiting(p) == InChannel(p) \cup Failed(p)
Pending == {x \in Paths \X (1 .. MaxNonce) : x[2] \in Waiting(x[1])}
Done    == {x \in Paths \X (1 .. MaxNonce) : x[2] \in handled[x[1]]}

Once == INSTANCE ExactlyOnce WITH Ids <- Paths \X (1 .. MaxNonce), pending <- Pending, done <- Done

ImplementsExactlyOnce == Once!Spec
=============================================================================
