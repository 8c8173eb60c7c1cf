--------------------------- MODULE DeliveryPromise ---------------------------
(***************************************************************************)
(* What Glocke promises about browser pushes, with no leases, workers,     *)
(* clock, claims or maintenance runs: a delivery is owed to a subscription *)
(* of the event's recipient, is tried less than MaxAttempts times in vain, *)
(* is settled once and for all, and goes by retention or with its account. *)
(* The removal of a subscription, for whatever reason, settles what it is  *)
(* owed in the same step, and a removed subscription never comes back.     *)
(***************************************************************************)
EXTENDS Naturals

CONSTANTS Events, SubIds, Users, Recipient, Owner, MaxAttempts

VARIABLES
  life,    \* none, owed, or how it was settled, for each (event, subscription)
  tries,   \* the attempts that failed
  live,    \* the subscriptions that are registered
  ended    \* those that were

vars == <<life, tries, live, ended>>

Keys == Events \X SubIds

Outcomes == {"delivered", "suppressed", "permanent"}

Init ==
  /\ life = [d \in Keys |-> "none"]
  /\ tries = [d \in Keys |-> 0]
  /\ live \subseteq SubIds
  /\ ended = {}

Register(s) ==
  /\ s \notin live \cup ended
  /\ live' = live \cup {s}
  /\ UNCHANGED <<life, tries, ended>>

\* Deliveries that are stored already are not owed once more.
Owe(new) ==
  /\ \A d \in new : life[d] = "none" /\ Owner[d[2]] = Recipient[d[1]]
  /\ life' = [d \in Keys |-> IF d \in new THEN "owed" ELSE life[d]]
  /\ tries' = [d \in Keys |-> IF d \in new THEN 0 ELSE tries[d]]
  /\ UNCHANGED <<live, ended>>

\* One more attempt failed, and another one is allowed.
Retry(d) ==
  /\ life[d] = "owed" /\ tries[d] + 1 < MaxAttempts
  /\ tries' = [tries EXCEPT ![d] = @ + 1]
  /\ UNCHANGED <<life, live, ended>>

\* An attempt that fails for good is counted, too.
Settle(d, outcome) ==
  /\ life[d] = "owed"
  /\ life' = [life EXCEPT ![d] = outcome]
  /\ tries' = IF outcome = "permanent" THEN [tries EXCEPT ![d] = @ + 1] ELSE tries
  /\ UNCHANGED <<live, ended>>

Remove(gone) ==
  /\ gone \subseteq live
  /\ live' = live \ gone
  /\ ended' = ended \cup gone
  /\ life' = [d \in Keys |-> IF d[2] \in gone /\ life[d] = "owed" THEN "permanent" ELSE life[d]]
  /\ UNCHANGED tries

Retire(old) ==
  /\ \A d \in old : life[d] \in Outcomes
  /\ life' = [d \in Keys |-> IF d \in old THEN "none" ELSE life[d]]
  /\ tries' = [d \in Keys |-> IF d \in old THEN 0 ELSE tries[d]]
  /\ UNCHANGED <<live, ended>>

Erase(u) ==
  LET gone == {s \in live : Owner[s] = u}
  IN  /\ live' = live \ gone
      /\ ended' = ended \cup gone
      /\ life' = [d \in Keys |-> IF Owner[d[2]] = u THEN "none" ELSE life[d]]
      /\ tries' = [d \in Keys |-> IF Owner[d[2]] = u THEN 0 ELSE tries[d]]

Next ==
  \/ \E s \in SubIds : Register(s)
  \/ \E gone \in SUBSET live : Remove(gone)
  \/ \E new \in SUBSET Keys : Owe(new)
  \/ \E d \in Keys : Retry(d)
  \/ \E d \in Keys, outcome \in Outcomes : Settle(d, outcome)
  \/ \E old \in SUBSET Keys : Retire(old)
  \/ \E u \in Users : Erase(u)

Spec == Init /\ [][Next]_vars
=============================================================================
