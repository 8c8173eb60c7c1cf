-------------------------- MODULE InboxRefinement --------------------------
(***************************************************************************)
(* The leased inbox of module Inbox implements EventPromise: pending and   *)
(* processing rows are open events, processed rows closed ones, and what   *)
(* leases, workers and the clock do in between is invisible.               *)
(***************************************************************************)
EXTENDS Inbox

Phase(status) == IF status \in {"pending", "processing"} THEN "open"
                 ELSE IF status = "processed" THEN "closed" ELSE "none"

Promise == INSTANCE EventPromise WITH
  phase  <- [e \in Events |-> Phase(inbox[e].status)],
  body   <- [e \in Events |-> inbox[e].payload],
  erased <- {u \in Users : Tombstoned(u)}

\* Seen through the mapping, every behaviour of the inbox, its workers and its
\* API is one EventPromise allows.
ImplementsPromise == Promise!Spec
=============================================================================
