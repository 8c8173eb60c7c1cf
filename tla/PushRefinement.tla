---------------------------- MODULE PushRefinement ----------------------------
(***************************************************************************)
(* The push side of Glocke implements DeliveryPromise: pending and         *)
(* processing rows are owed, and claims, leases, lookups, sends and the    *)
(* awaits of maintenance are invisible.                                    *)
(***************************************************************************)
EXTENDS Push

Life(state) == IF state \in {"pending", "processing"} THEN "owed"
               ELSE IF state = "absent" THEN "none" ELSE state

Promise == INSTANCE DeliveryPromise WITH
  life  <- [d \in Keys |-> Life(deliveries[d].state)],
  tries <- [d \in Keys |-> deliveries[d].attempts],
  live  <- {s \in SubIds : subs[s].state = "live"},
  ended <- {s \in SubIds : subs[s].state = "gone"}

\* Whatever workers, crashes, removals and maintenance interleave, every behaviour
\* of the push side is one DeliveryPromise allows: no attempt is lost or made
\* beyond GLOCKE_PUSH_MAX_ATTEMPTS, no settlement is undone, and removing
\* a subscription settles what it is owed in the same transaction.
ImplementsPromise == Promise!Spec
=============================================================================
