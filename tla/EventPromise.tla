---------------------------- MODULE EventPromise ----------------------------
(***************************************************************************)
(* What Glocke promises about one accepted event, with no leases, workers, *)
(* clock or history: an identity is accepted for one body at a time; while *)
(* the event is open it may notify the recipient its body names, over and  *)
(* over but never twice at once; once closed it notifies nobody any more;  *)
(* and an erased account leaves nothing behind and is never accepted for   *)
(* again.                                                                  *)
(***************************************************************************)
CONSTANTS Events, Payloads, Users, Recipient, Subscriptions, Owner, NoPayload

VARIABLES
  phase,       \* [Events -> {"none", "open", "closed"}]
  body,        \* the accepted payload of each event
  notes,       \* the stored notification of each (event, user)
  deliveries,  \* the (event, subscription) pairs queued or settled
  erased       \* the users whose account is gone

vars == <<phase, body, notes, deliveries, erased>>

For(e, u) == phase[e] # "none" /\ Recipient[body[e]] = u

Init == /\ phase \in [Events -> {"none", "open"}]
        /\ body \in [Events -> Payloads \cup {NoPayload}]
        /\ \A e \in Events : phase[e] = "none" <=> body[e] = NoPayload
        /\ notes = [n \in Events \X Users |-> "none"]
        /\ deliveries = {}
        /\ erased = {}

Accept(e, p) ==
  /\ phase[e] = "none"
  /\ Recipient[p] \notin erased
  /\ phase' = [phase EXCEPT ![e] = "open"]
  /\ body' = [body EXCEPT ![e] = p]
  /\ UNCHANGED <<notes, deliveries, erased>>

\* An open event adds a notification of its recipient that is not there, or
\* deliveries to some of its recipient's subscriptions, or both.
Notify(e, inApp, targets) ==
  LET n == <<e, Recipient[body[e]]>>
  IN  /\ phase[e] = "open"
      /\ \A s \in targets : Owner[s] = Recipient[body[e]]
      /\ notes' = IF inApp /\ notes[n] = "none"
                  THEN [notes EXCEPT ![n] = "unread"] ELSE notes
      /\ deliveries' = deliveries \cup {<<e, s>> : s \in targets}
      /\ UNCHANGED <<phase, body, erased>>

Close(e) ==
  /\ phase[e] = "open"
  /\ phase' = [phase EXCEPT ![e] = "closed"]
  /\ UNCHANGED <<body, notes, deliveries, erased>>

\* A user reads or removes any of their own notifications, and no others.
Edit(u) ==
  /\ \A n \in Events \X Users :
       \/ notes'[n] = notes[n]
       \/ n[2] = u /\ notes'[n] = "none"
       \/ n[2] = u /\ notes[n] = "unread" /\ notes'[n] = "read"
  /\ DOMAIN notes' = Events \X Users
  /\ UNCHANGED <<phase, body, deliveries, erased>>

Purge(d) ==
  /\ deliveries' = deliveries \ {d}
  /\ UNCHANGED <<phase, body, notes, erased>>

Erase(u) ==
  /\ u \notin erased
  /\ erased' = erased \cup {u}
  /\ phase' = [e \in Events |-> IF For(e, u) THEN "none" ELSE phase[e]]
  /\ body' = [e \in Events |-> IF For(e, u) THEN NoPayload ELSE body[e]]
  /\ notes' = [n \in Events \X Users |-> IF n[2] = u THEN "none" ELSE notes[n]]
  /\ deliveries' = {d \in deliveries : Owner[d[2]] # u}

Next ==
  \/ \E e \in Events :
       \/ \E p \in Payloads : Accept(e, p)
       \/ \E inApp \in BOOLEAN, targets \in SUBSET Subscriptions :
            Notify(e, inApp, targets)
       \/ Close(e)
  \/ \E u \in Users : Edit(u) \/ Erase(u)
  \/ \E d \in deliveries : Purge(d)

Spec == Init /\ [][Next]_vars
=============================================================================
