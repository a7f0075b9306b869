---------------------------- MODULE ExactlyOnce -----------------------------
(***************************************************************************)
(* What the bridge promises of a message: once it is accepted it takes     *)
(* effect at most once, whatever order messages take effect in, and until  *)
(* then it stays pending.                                                  *)
(***************************************************************************)
CONSTANT Ids           \* identities of messages: a path and a nonce

VARIABLES
  pending,             \* accepted, without effect so far
  done                 \* have taken effect

Init == pending = {} /\ done = {}

Accept(m) ==
  /\ m \notin pending \cup done
  /\ pending' = pending \cup {m}
  /\ done' = done

Complete(m) ==
  /\ m \in pending
  /\ pending' = pending \ {m}
  /\ done' = done \cup {m}

Next == \E m \in Ids : Accept(m) \/ Complete(m)

Spec == Init /\ [][Next]_<<pending, done>>
=============================================================================
