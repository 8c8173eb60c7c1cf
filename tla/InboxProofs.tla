---------------------------- MODULE InboxProofs ----------------------------
(***************************************************************************)
(* TLAPS proofs about module Inbox, for every set of events, users,        *)
(* workers, lease ids and every LeaseTime and MaxTime.                     *)
(*                                                                         *)
(* The invariants TLC checks are not inductive alone: a late worker is     *)
(* harmless only because no two claims share a lease id and because the    *)
(* holder of the current lease still works on the payload of the row.      *)
(* IInv adds those facts (RowsOK, LocalsOK, NotesCreated).                 *)
(***************************************************************************)
EXTENDS Inbox, TLAPS

\* A stored row has a body, and a claimed one a lease id.
RowsOK ==
  \A e \in Events :
    /\ inbox[e].status # "absent" => inbox[e].payload \in Payloads
    /\ inbox[e].status = "processing" => inbox[e].leaseId \in LeaseIds

\* The local variables of a claim in progress; no two claims share a lease id.
LocalsOK ==
  \A w \in Workers :
    /\ worker[w].pc = "idle" => worker[w].lease = NoLease
    /\ worker[w].pc # "idle" =>
         /\ worker[w].event \in Events
         /\ worker[w].payload \in Payloads
         /\ worker[w].lease \in LeaseIds
         /\ \A s \in worker[w].listed : Owner[s] = Recipient[worker[w].payload]
    /\ \A v \in Workers : worker[v].lease = worker[w].lease
                            => v = w \/ worker[w].lease = NoLease

\* What is stored was inserted.
NotesCreated == \A n \in Events \X Users : Present(n) => n \in created

IInv ==
  /\ TypeOK
  /\ RowsOK
  /\ LocalsOK
  /\ NotesCreated
  /\ OneHolder
  /\ NoDataForDeleted
  /\ NotifiedIsRecipient
  /\ NoSilentLoss
  /\ DeletionIdentity

----------------------------------------------------------------------------
(* The rows and local states the actions write are of their types. *)

LEMMA RowTypes ==
  /\ AbsentRow \in Row
  /\ \A p \in Payloads, t \in Nat : PendingRow(p, t) \in Row
  /\ \A r \in Row, l \in LeaseIds, t \in Nat :
       [r EXCEPT !.status = "processing", !.leaseId = l, !.leaseUntil = t] \in Row
  /\ \A r \in Row :
       [r EXCEPT !.status = "processed", !.leaseId = NoLease, !.leaseUntil = 0] \in Row
BY DEF AbsentRow, PendingRow, Row, Status

LEMMA RowFields ==
  /\ AbsentRow.status = "absent" /\ AbsentRow.leaseId = NoLease
  /\ \A p, t : /\ PendingRow(p, t).status = "pending"
               /\ PendingRow(p, t).payload = p
               /\ PendingRow(p, t).leaseId = NoLease
BY DEF AbsentRow, PendingRow

LEMMA WorkerTypes == IdleWorker \in WorkerState
BY DEF IdleWorker, WorkerState, PC

\* Initial states are typed.
LEMMA InitType == Init => TypeOK
<1> SUFFICES ASSUME Init PROVE TypeOK
  OBVIOUS
<1> USE InboxAssumption
<1>1. now \in Nat
  BY DEF Init
<1>2. inbox \in [Events -> Row]
  <2>1. {AbsentRow} \cup {PendingRow(p, 0) : p \in Legacy} \subseteq Row
    <3>1. \A p \in Legacy : PendingRow(p, 0) \in Row
      BY RowTypes
    <3> QED
      BY <3>1, RowTypes
  <2> QED
    BY <2>1 DEF Init
<1>3. notes \in [Events \X Users -> NoteState]
  BY DEF Init, NoteState
<1>4. worker \in [Workers -> WorkerState]
  BY WorkerTypes DEF Init
<1>5. /\ jobs \in [Jobs -> Users \cup {NoUser}]
      /\ tombstone \in [Users -> Jobs \cup {NoJob}]
      /\ created \subseteq Events \X Users
      /\ subs \subseteq Subscriptions
      /\ deliveries \subseteq Events \X Subscriptions
      /\ users \subseteq Users
      /\ intake \subseteq Events \X Payloads
      /\ request \subseteq Users
  BY DEF Init
<1> QED
  BY <1>1, <1>2, <1>3, <1>4, <1>5 DEF TypeOK

\* The whole invariant holds of an empty database, with or without rows of an
\* earlier release.
LEMMA InitInv == Init => IInv
<1> SUFFICES ASSUME Init PROVE IInv
  OBVIOUS
<1> USE InboxAssumption
<1>1. TypeOK
  BY InitType
<1>2. \A e \in Events : \/ inbox[e] = AbsentRow
                        \/ \E p \in Payloads : inbox[e] = PendingRow(p, 0)
  BY DEF Init
<1>3. RowsOK
  BY <1>2, RowFields DEF RowsOK
<1>4. \A w \in Workers : worker[w].pc = "idle" /\ worker[w].lease = NoLease
  BY DEF Init, IdleWorker
<1>5. LocalsOK /\ OneHolder /\ NoSilentLoss
  BY <1>4 DEF LocalsOK, OneHolder, NoSilentLoss, Holds
<1>6. NotesCreated /\ NotifiedIsRecipient
  <2>1. \A n \in Events \X Users : notes[n] = "none"
    BY DEF Init
  <2>2. \A e \in Events, u \in Users : <<e, u>> \in Events \X Users
    OBVIOUS
  <2>3. deliveries = {}
    BY DEF Init
  <2> QED
    BY <2>1, <2>2, <2>3 DEF NotesCreated, NotifiedIsRecipient, Present
<1>7. \A u \in Users : ~Tombstoned(u)
  BY DEF Init, Tombstoned
<1>8. NoDataForDeleted
  BY <1>7 DEF NoDataForDeleted
<1>9. DeletionIdentity
  BY DEF Init, DeletionIdentity
<1> QED
  BY <1>1, <1>3, <1>5, <1>6, <1>8, <1>9 DEF IInv

----------------------------------------------------------------------------
(* Steps that touch no table: the clock, and the local variables of the    *)
(* worker that makes them.                                                 *)

\* A step that leaves the tables and the workers alone preserves everything
\* but the types of what it does change.
LEMMA FrameStep ==
  ASSUME IInv, UNCHANGED <<tables, worker>>,
         now' \in Nat, intake' \subseteq Events \X Payloads, request' \subseteq Users
  PROVE  IInv'
<1>1. TypeOK'
  BY DEF IInv, TypeOK, tables
<1>2. RowsOK' /\ LocalsOK' /\ NotesCreated'
  BY DEF IInv, RowsOK, LocalsOK, NotesCreated, Present, tables
<1>3. OneHolder' /\ NoSilentLoss'
  BY DEF IInv, OneHolder, NoSilentLoss, Holds, tables
<1>4. NoDataForDeleted' /\ NotifiedIsRecipient'
  BY DEF IInv, NoDataForDeleted, NotifiedIsRecipient, RowOf, Present, Tombstoned, tables
<1>5. DeletionIdentity'
  BY DEF IInv, DeletionIdentity, DeletionReply, Tombstoned, tables
<1> QED
  BY <1>1, <1>2, <1>3, <1>4, <1>5 DEF IInv

\* A worker that forgets its claim - stale, failed or dead - disturbs nothing.
LEMMA ForgetStep ==
  ASSUME IInv, NEW w \in Workers, worker' = [worker EXCEPT ![w] = IdleWorker],
         UNCHANGED <<now, tables, intake, request>>
  PROVE  IInv'
<1>0. /\ \A v \in Workers : worker'[v] = IF v = w THEN IdleWorker ELSE worker[v]
      /\ IdleWorker.pc = "idle" /\ IdleWorker.lease = NoLease
  BY DEF IInv, TypeOK, IdleWorker
<1>1. TypeOK'
  BY WorkerTypes DEF IInv, TypeOK, tables
<1>2. RowsOK' /\ NotesCreated'
  BY DEF IInv, RowsOK, NotesCreated, Present, tables
<1>3. LocalsOK'
  BY <1>0 DEF IInv, LocalsOK
<1>4. OneHolder' /\ NoSilentLoss'
  BY <1>0 DEF IInv, OneHolder, NoSilentLoss, Holds, tables
<1>5. NoDataForDeleted' /\ NotifiedIsRecipient'
  BY DEF IInv, NoDataForDeleted, NotifiedIsRecipient, RowOf, Present, Tombstoned, tables
<1>6. DeletionIdentity'
  BY DEF IInv, DeletionIdentity, DeletionReply, Tombstoned, tables
<1> QED
  BY <1>1, <1>2, <1>3, <1>4, <1>5, <1>6 DEF IInv

\* A worker that goes on with its claim, on its way to the write or past a
\* lookup that asked for no in-app notification.
LEMMA LocalStep ==
  ASSUME IInv, NEW w \in Workers, NEW s,
         worker[w].pc # "idle", worker' = [worker EXCEPT ![w] = s], s \in WorkerState,
         s.pc # "idle", s.pc # "finish" \/ ~s.inApp,
         s.event = worker[w].event, s.payload = worker[w].payload,
         s.lease = worker[w].lease,
         \A x \in s.listed : Owner[x] = Recipient[s.payload],
         UNCHANGED <<now, tables, intake, request>>
  PROVE  IInv'
<1>0. \A v \in Workers : worker'[v] = IF v = w THEN s ELSE worker[v]
  BY DEF IInv, TypeOK
<1>1. TypeOK'
  BY DEF IInv, TypeOK, tables
<1>2. RowsOK' /\ NotesCreated'
  BY DEF IInv, RowsOK, NotesCreated, Present, tables
<1>3. LocalsOK'
  BY <1>0 DEF IInv, LocalsOK
<1>4. OneHolder' /\ NoSilentLoss'
  BY <1>0 DEF IInv, OneHolder, NoSilentLoss, Holds, tables
<1>5. NoDataForDeleted' /\ NotifiedIsRecipient'
  BY DEF IInv, NoDataForDeleted, NotifiedIsRecipient, RowOf, Present, Tombstoned, tables
<1>6. DeletionIdentity'
  BY DEF IInv, DeletionIdentity, DeletionReply, Tombstoned, tables
<1> QED
  BY <1>1, <1>2, <1>3, <1>4, <1>5, <1>6 DEF IInv

LEMMA LookupAnsweredStep ==
  ASSUME IInv, NEW w \in Workers, NEW inApp \in BOOLEAN, NEW push \in BOOLEAN,
         LookupAnswered(w, inApp, push)
  PROVE  IInv'
<1> DEFINE s == [worker[w] EXCEPT !.inApp = inApp, !.push = push, !.at = now,
                                  !.pc = AfterLookup(inApp, push)]
<1>1. worker[w] \in WorkerState /\ now \in Nat
  BY DEF IInv, TypeOK
<1>2. worker' = [worker EXCEPT ![w] = s] /\ worker[w].pc = "lookup"
  BY DEF LookupAnswered, IInv, TypeOK
<1>3. /\ s \in WorkerState
      /\ s.event = worker[w].event /\ s.payload = worker[w].payload
      /\ s.lease = worker[w].lease /\ s.listed = worker[w].listed
      /\ s.pc # "idle" /\ (s.pc = "finish" => ~s.inApp)
  BY <1>1 DEF WorkerState, PC, AfterLookup
<1>4. \A x \in s.listed : Owner[x] = Recipient[s.payload]
  BY <1>2, <1>3 DEF IInv, LocalsOK
<1>5. UNCHANGED <<now, tables, intake, request>>
  BY DEF LookupAnswered
<1> HIDE DEF s
<1> QED
  BY <1>2, <1>3, <1>4, <1>5, LocalStep

LEMMA ListSubscriptionsStep ==
  ASSUME IInv, NEW w \in Workers, ListSubscriptions(w)
  PROVE  IInv'
<1> DEFINE own == {x \in subs : Owner[x] = Recipient[worker[w].payload]}
           s == [worker[w] EXCEPT !.pc = "write", !.listed = own]
<1>1. worker[w] \in WorkerState /\ own \in SUBSET Subscriptions
  BY DEF IInv, TypeOK
<1>2. worker' = [worker EXCEPT ![w] = s] /\ worker[w].pc = "list"
  BY DEF ListSubscriptions, IInv, TypeOK
<1>3. /\ s \in WorkerState
      /\ s.event = worker[w].event /\ s.payload = worker[w].payload
      /\ s.lease = worker[w].lease /\ s.listed = own /\ s.pc = "write"
  BY <1>1 DEF WorkerState, PC
<1>4. \A x \in s.listed : Owner[x] = Recipient[s.payload]
  BY <1>3
<1> HIDE DEF s
<1> QED
  BY <1>2, <1>3, <1>4, LocalStep DEF ListSubscriptions

----------------------------------------------------------------------------
(* Steps on the tables *)

LEMMA AcceptEventStep ==
  ASSUME IInv, NEW e \in Events, NEW p \in Payloads, AcceptEvent(e, p)
  PROVE  IInv'
<1> USE InboxAssumption
<1>1. CASE NotInserted(e, p)
  BY <1>1, FrameStep DEF AcceptEvent, IInv, TypeOK, tables
<1>2. CASE ~NotInserted(e, p)
  <2>1. /\ inbox[e].status = "absent" /\ ~Tombstoned(Recipient[p])
        /\ \A f \in Events : inbox'[f] = IF f = e THEN PendingRow(p, now) ELSE inbox[f]
        /\ UNCHANGED <<now, notes, created, subs, deliveries, users, jobs, tombstone,
                      worker, request>>
    BY <1>2 DEF AcceptEvent, NotInserted, IInv, TypeOK
  <2>2. /\ PendingRow(p, now).status = "pending" /\ PendingRow(p, now).payload = p
        /\ PendingRow(p, now).leaseId = NoLease
    BY RowFields
  <2>2a. intake' \subseteq Events \X Payloads /\ inbox' = [inbox EXCEPT ![e] = PendingRow(p, now)]
    BY <1>2 DEF AcceptEvent, IInv, TypeOK
  <2>3. TypeOK'
    BY <2>1, <2>2a, RowTypes DEF IInv, TypeOK
  <2>4. RowsOK' /\ NotesCreated' /\ LocalsOK'
    BY <2>1, <2>2 DEF IInv, RowsOK, NotesCreated, LocalsOK, Present
  <2>5. OneHolder' /\ NoSilentLoss'
    <3>1. \A v \in Workers, f \in Events :
            Holds(v, f)' <=> Holds(v, f) /\ f # e
      BY <2>1, <2>2 DEF Holds
    <3>2. OneHolder'
      BY <2>1, <3>1 DEF IInv, OneHolder
    <3> QED
      BY <2>1, <3>1, <3>2 DEF IInv, NoSilentLoss
  <2>6. \A f \in Events, u \in Users :
          RowOf(f, u)' <=> RowOf(f, u) \/ (f = e /\ u = Recipient[p])
    BY <2>1, <2>2 DEF RowOf
  <2>7. NoDataForDeleted'
    BY <2>1, <2>6 DEF IInv, NoDataForDeleted, Present, Tombstoned
  <2>8. NotifiedIsRecipient'
    BY <2>1, <2>6 DEF IInv, TypeOK, NotifiedIsRecipient, Present
  <2>9. DeletionIdentity'
    BY <2>1 DEF IInv, DeletionIdentity, DeletionReply, Tombstoned
  <2> QED
    BY <2>3, <2>4, <2>5, <2>7, <2>8, <2>9 DEF IInv
<1> QED
  BY <1>1, <1>2

\* A claim takes a fresh lease id, so its worker alone holds the event, with
\* the payload it just read.
LEMMA ClaimStep ==
  ASSUME IInv, NEW w \in Workers, NEW e \in Events, NEW l \in LeaseIds, Claim(w, e, l)
  PROVE  IInv'
<1> USE InboxAssumption
<1> DEFINE row == [inbox[e] EXCEPT !.status = "processing", !.leaseId = l,
                                   !.leaseUntil = now + LeaseTime]
           s == [IdleWorker EXCEPT
                   !.pc = IF inbox[e].payload \in Legacy THEN "finish" ELSE "lookup",
                   !.event = e, !.payload = inbox[e].payload, !.lease = l]
<1>1. inbox[e] \in Row /\ inbox[e].status # "absent" /\ inbox[e].payload \in Payloads
  BY DEF Claim, NextCandidate, Claimable, IInv, TypeOK, RowsOK
<1>2. row \in Row /\ row.status = "processing" /\ row.leaseId = l
      /\ row.payload = inbox[e].payload
  <2>1. now + LeaseTime \in Nat
    BY DEF IInv, TypeOK
  <2> QED
    BY <1>1, <2>1 DEF Row, Status
<1>3. /\ s \in WorkerState /\ s.pc # "idle" /\ s.event = e /\ s.lease = l
      /\ s.payload = inbox[e].payload /\ s.inApp = FALSE /\ s.listed = {}
  BY <1>1 DEF IdleWorker, WorkerState, PC
<1>4. /\ inbox' = [inbox EXCEPT ![e] = row]
      /\ worker' = [worker EXCEPT ![w] = s]
      /\ UNCHANGED <<now, notes, created, subs, deliveries, users, jobs, tombstone,
                    intake, request>>
  BY DEF Claim, IInv, TypeOK
<1> HIDE DEF row, s
<1>5. /\ \A f \in Events : inbox'[f] = IF f = e THEN row ELSE inbox[f]
      /\ \A v \in Workers : worker'[v] = IF v = w THEN s ELSE worker[v]
  BY <1>4 DEF IInv, TypeOK
<1>6. /\ \A f \in Events : inbox[f].leaseId # l
      /\ \A v \in Workers : worker[v].lease # l
  BY DEF Claim, FreshLease
<1>7. TypeOK'
  BY <1>2, <1>3, <1>4 DEF IInv, TypeOK
<1>8. RowsOK'
  BY <1>1, <1>2, <1>5 DEF IInv, RowsOK
<1>9. LocalsOK'
  BY <1>1, <1>3, <1>5, <1>6 DEF IInv, LocalsOK
<1>10. NotesCreated'
  BY <1>4 DEF IInv, NotesCreated, Present
<1>11. OneHolder' /\ NoSilentLoss'
  BY <1>2, <1>3, <1>4, <1>5, <1>6 DEF IInv, OneHolder, NoSilentLoss, Holds
<1>12. \A f \in Events, u \in Users : RowOf(f, u)' <=> RowOf(f, u)
  BY <1>1, <1>2, <1>5 DEF RowOf
<1>13. NoDataForDeleted' /\ NotifiedIsRecipient'
  BY <1>4, <1>12
     DEF IInv, TypeOK, NoDataForDeleted, NotifiedIsRecipient, Present, Tombstoned
<1>14. DeletionIdentity'
  BY <1>4 DEF IInv, DeletionIdentity, DeletionReply, Tombstoned
<1> QED
  BY <1>7, <1>8, <1>9, <1>10, <1>11, <1>13, <1>14 DEF IInv

\* A fenced completion gives up the lease and keeps the payload.
LEMMA FinishStep ==
  ASSUME IInv, NEW w \in Workers, Finish(w)
  PROVE  IInv'
<1> USE InboxAssumption
<1> DEFINE e == worker[w].event
<1>1. e \in Events
  BY DEF Finish, IInv, LocalsOK
<1>2. CASE ~Fence(e, worker[w].lease, now)
  BY <1>2, ForgetStep DEF Finish, tables
<1>3. CASE Fence(e, worker[w].lease, now)
  <2> DEFINE row == [inbox[e] EXCEPT !.status = "processed", !.leaseId = NoLease,
                                     !.leaseUntil = 0]
  <2>1. inbox[e] \in Row /\ inbox[e].status = "processing"
    BY <1>1, <1>3 DEF Fence, IInv, TypeOK
  <2>2. row \in Row /\ row.status = "processed" /\ row.payload = inbox[e].payload
    BY <2>1 DEF Row, Status
  <2>3. /\ inbox' = [inbox EXCEPT ![e] = row]
        /\ worker' = [worker EXCEPT ![w] = IdleWorker]
        /\ UNCHANGED <<now, notes, created, subs, deliveries, users, jobs, tombstone,
                      intake, request>>
    BY <1>1, <1>3 DEF Finish, IInv, TypeOK
  <2> HIDE DEF row
  <2>4. /\ \A f \in Events : inbox'[f] = IF f = e THEN row ELSE inbox[f]
        /\ \A v \in Workers : worker'[v] = IF v = w THEN IdleWorker ELSE worker[v]
        /\ IdleWorker.pc = "idle" /\ IdleWorker.lease = NoLease
    BY <2>3 DEF IInv, TypeOK, IdleWorker
  <2>5. TypeOK'
    BY <2>2, <2>3, WorkerTypes DEF IInv, TypeOK
  <2>6. RowsOK' /\ LocalsOK'
    BY <2>1, <2>2, <2>4 DEF IInv, RowsOK, LocalsOK
  <2>7. NotesCreated'
    BY <2>3 DEF IInv, NotesCreated, Present
  <2>8. OneHolder' /\ NoSilentLoss'
    BY <2>2, <2>3, <2>4 DEF IInv, OneHolder, NoSilentLoss, Holds
  <2>9. \A f \in Events, u \in Users : RowOf(f, u)' <=> RowOf(f, u)
    BY <2>1, <2>2, <2>4 DEF RowOf
  <2>10. NoDataForDeleted' /\ NotifiedIsRecipient'
    BY <2>3, <2>9
       DEF IInv, TypeOK, NoDataForDeleted, NotifiedIsRecipient, Present, Tombstoned
  <2>11. DeletionIdentity'
    BY <2>3 DEF IInv, DeletionIdentity, DeletionReply, Tombstoned
  <2> QED
    BY <2>5, <2>6, <2>7, <2>8, <2>10, <2>11 DEF IInv
<1> QED
  BY <1>2, <1>3

\* A fenced write belongs to the recipient of the row: its claim is the current
\* one, and no tombstoned user has a row left.
LEMMA WriteStep ==
  ASSUME IInv, NEW w \in Workers, Write(w)
  PROVE  IInv'
<1> USE InboxAssumption
<1> DEFINE e == worker[w].event
           u == Recipient[worker[w].payload]
           s == [worker[w] EXCEPT !.pc = "finish", !.at = 0, !.listed = {}]
<1>1. /\ e \in Events /\ worker[w].payload \in Payloads /\ u \in Users
      /\ worker[w].pc = "write" /\ worker[w].lease \in LeaseIds
  BY DEF Write, IInv, LocalsOK
<1>2. Holds(w, e) /\ RowOf(e, u) /\ inbox[e].payload = worker[w].payload
  BY <1>1 DEF Write, Fence, Holds, RowOf, IInv, OneHolder
<1>3. ~Tombstoned(u)
  BY <1>1, <1>2 DEF IInv, NoDataForDeleted
<1>4. /\ InsertNote(w) /\ InsertDeliveries(w)
      /\ UNCHANGED <<now, inbox, subs, users, jobs, tombstone, intake, request>>
  BY <1>2, <1>3 DEF Write
<1>5. worker[w] \in WorkerState
  BY DEF IInv, TypeOK
<1>6. /\ s \in WorkerState /\ s.pc = "finish" /\ s.event = e /\ s.listed = {}
      /\ s.lease = worker[w].lease /\ s.payload = worker[w].payload
      /\ s.inApp = worker[w].inApp
  BY <1>5 DEF WorkerState, PC
<1>7. worker' = [worker EXCEPT ![w] = s]
  BY DEF Write, IInv, TypeOK
<1> HIDE DEF s
<1>8. \A v \in Workers : worker'[v] = IF v = w THEN s ELSE worker[v]
  BY <1>7 DEF IInv, TypeOK
<1>9. /\ notes' \in [Events \X Users -> NoteState]
      /\ created' \subseteq Events \X Users
      /\ \A n \in Events \X Users :
           notes'[n] = notes[n] \/ (n = <<e, u>> /\ n \in created' /\ notes'[n] = "unread")
      /\ created \subseteq created'
      /\ worker[w].inApp => <<e, u>> \in created'
  <2>1. <<e, u>> \in Events \X Users
    BY <1>1
  <2>2. CASE worker[w].inApp /\ notes[<<e, u>>] = "none"
    <3>1. /\ notes' = [notes EXCEPT ![<<e, u>>] = "unread"]
          /\ created' = created \cup {<<e, u>>}
      BY <1>4, <2>2 DEF InsertNote
    <3>2. /\ notes \in [Events \X Users -> NoteState]
          /\ created \subseteq Events \X Users /\ "unread" \in NoteState
      BY DEF IInv, TypeOK, NoteState
    <3> QED
      BY <2>1, <3>1, <3>2
  <2>3. CASE ~(worker[w].inApp /\ notes[<<e, u>>] = "none")
    <3>1. UNCHANGED <<notes, created>>
      BY <1>4, <2>3 DEF InsertNote
    <3>2. notes[<<e, u>>] # "none" => <<e, u>> \in created
      BY <2>1 DEF IInv, NotesCreated, Present
    <3> QED
      BY <2>3, <3>1, <3>2 DEF IInv, TypeOK
  <2> QED
    BY <2>2, <2>3
<1>10. /\ deliveries' \subseteq Events \X Subscriptions
       /\ \A d \in deliveries' : d \in deliveries \/ (d[1] = e /\ Owner[d[2]] = u)
  <2>1. \A x \in worker[w].listed : x \in Subscriptions /\ Owner[x] = u
    BY <1>1, <1>5 DEF IInv, LocalsOK, WorkerState
  <2> QED
    BY <1>1, <1>4, <2>1 DEF InsertDeliveries, IInv, TypeOK
<1>11. TypeOK'
  BY <1>4, <1>6, <1>7, <1>9, <1>10 DEF IInv, TypeOK
<1>12. RowsOK' /\ LocalsOK'
  BY <1>1, <1>4, <1>6, <1>8 DEF IInv, RowsOK, LocalsOK
<1>13. NotesCreated'
  BY <1>9 DEF IInv, NotesCreated, Present
<1>14. OneHolder'
  BY <1>1, <1>4, <1>6, <1>8 DEF IInv, OneHolder, Holds
<1>15. NoSilentLoss'
  BY <1>1, <1>2, <1>4, <1>6, <1>8, <1>9 DEF IInv, NoSilentLoss, OneHolder, Holds
<1>16. \A f \in Events, x \in Users : RowOf(f, x)' <=> RowOf(f, x)
  BY <1>4 DEF RowOf
<1>17. NoDataForDeleted'
  BY <1>1, <1>3, <1>4, <1>9, <1>10, <1>16
     DEF IInv, TypeOK, NoDataForDeleted, Present, Tombstoned
<1>18. NotifiedIsRecipient'
  <2>1. \A d \in deliveries : d[1] \in Events /\ Owner[d[2]] \in Users
    BY DEF IInv, TypeOK
  <2>2. \A d \in deliveries' : RowOf(d[1], Owner[d[2]])'
    BY <1>1, <1>2, <1>4, <1>10, <1>16, <2>1 DEF IInv, NotifiedIsRecipient
  <2>3. \A f \in Events, x \in Users : <<f, x>> \in Events \X Users
    OBVIOUS
  <2>4. \A f \in Events, x \in Users : Present(<<f, x>>)' => RowOf(f, x)'
    BY <1>2, <1>9, <1>16, <2>3 DEF IInv, NotifiedIsRecipient, Present
  <2> QED
    BY <2>2, <2>4 DEF NotifiedIsRecipient
<1>19. DeletionIdentity'
  BY <1>4 DEF IInv, DeletionIdentity, DeletionReply, Tombstoned
<1> QED
  BY <1>11, <1>12, <1>13, <1>14, <1>15, <1>17, <1>18, <1>19 DEF IInv

\* A user only reads or removes stored notifications of their own.
LEMMA EditStep ==
  ASSUME IInv, NEW u \in Clients, ApiReply(u),
         notes' \in [Events \X Users -> NoteState],
         \A n \in Events \X Users : notes[n] = "none" => notes'[n] = "none"
  PROVE  IInv'
<1> USE InboxAssumption
<1>1. /\ UNCHANGED <<now, inbox, created, subs, deliveries, users, jobs, tombstone,
                    worker, intake>>
      /\ request' \subseteq Users
  BY DEF ApiReply, IInv, TypeOK
<1>2. TypeOK'
  BY <1>1 DEF IInv, TypeOK
<1>3. RowsOK' /\ LocalsOK' /\ NotesCreated'
  BY <1>1 DEF IInv, RowsOK, LocalsOK, NotesCreated, Present
<1>4. OneHolder' /\ NoSilentLoss'
  BY <1>1 DEF IInv, OneHolder, NoSilentLoss, Holds
<1>5. \A e \in Events, x \in Users : Present(<<e, x>>)' => Present(<<e, x>>)
  BY DEF Present
<1>6. NoDataForDeleted' /\ NotifiedIsRecipient'
  BY <1>1, <1>5 DEF IInv, NoDataForDeleted, NotifiedIsRecipient, RowOf, Tombstoned
<1>7. DeletionIdentity'
  BY <1>1 DEF IInv, DeletionIdentity, DeletionReply, Tombstoned
<1> QED
  BY <1>2, <1>3, <1>4, <1>6, <1>7 DEF IInv

\* What the four requests that change notifications have in common.
NoteEdit(u) == \/ \E e \in Events : MarkRead(u, e) \/ DeleteNotification(u, e)
               \/ MarkAllRead(u)
               \/ DeleteAllNotifications(u)

LEMMA NoteEdits ==
  ASSUME TypeOK, NEW u \in Clients, NoteEdit(u)
  PROVE  /\ ApiReply(u)
         /\ notes' \in [Events \X Users -> NoteState]
         /\ \A n \in Events \X Users :
              \/ notes'[n] = notes[n]
              \/ n[2] = u /\ notes'[n] = "none"
              \/ n[2] = u /\ notes[n] = "unread" /\ notes'[n] = "read"
<1> USE InboxAssumption
<1>1. notes \in [Events \X Users -> NoteState]
  BY DEF TypeOK
<1>2. CASE \E e \in Events : MarkRead(u, e) \/ DeleteNotification(u, e)
  <2>1. PICK e \in Events : MarkRead(u, e) \/ DeleteNotification(u, e)
    BY <1>2
  <2>2. <<e, u>> \in Events \X Users /\ <<e, u>>[2] = u
    OBVIOUS
  <2> QED
    BY <1>1, <2>1, <2>2 DEF MarkRead, DeleteNotification, NoteState
<1>3. CASE MarkAllRead(u) \/ DeleteAllNotifications(u)
  BY <1>1, <1>3 DEF MarkAllRead, DeleteAllNotifications, NoteState
<1> QED
  BY <1>2, <1>3 DEF NoteEdit

LEMMA AuthenticateStep ==
  ASSUME IInv, NEW u \in Clients, Authenticate(u)
  PROVE  IInv'
<1> USE InboxAssumption
<1>1. /\ UNCHANGED <<now, inbox, notes, created, subs, deliveries, jobs, tombstone,
                    worker, intake>>
      /\ users' = users \cup {u} /\ request' = request \cup {u} /\ ~Tombstoned(u) /\ u \in Users
  BY DEF Authenticate
<1>2. TypeOK'
  BY <1>1 DEF IInv, TypeOK
<1>3. RowsOK' /\ LocalsOK' /\ NotesCreated'
  BY <1>1 DEF IInv, RowsOK, LocalsOK, NotesCreated, Present
<1>4. OneHolder' /\ NoSilentLoss'
  BY <1>1 DEF IInv, OneHolder, NoSilentLoss, Holds
<1>5. NoDataForDeleted' /\ NotifiedIsRecipient'
  BY <1>1 DEF IInv, NoDataForDeleted, NotifiedIsRecipient, RowOf, Present, Tombstoned
<1>6. DeletionIdentity'
  BY <1>1 DEF IInv, DeletionIdentity, DeletionReply, Tombstoned
<1> QED
  BY <1>2, <1>3, <1>4, <1>5, <1>6 DEF IInv

\* The push side adds no delivery.
LEMMA PushSideStep ==
  ASSUME IInv, PushSide
  PROVE  IInv'
<1> USE InboxAssumption
<1>1. /\ UNCHANGED <<now, inbox, notes, created, users, jobs, tombstone, worker,
                    intake, request>>
      /\ deliveries' \subseteq deliveries /\ subs' \subseteq Subscriptions
  BY DEF PushSide, Subscribe, Unsubscribe, PurgeDelivery, IInv, TypeOK
<1>2. TypeOK'
  BY <1>1 DEF IInv, TypeOK
<1>3. RowsOK' /\ LocalsOK' /\ NotesCreated'
  BY <1>1 DEF IInv, RowsOK, LocalsOK, NotesCreated, Present
<1>4. OneHolder' /\ NoSilentLoss'
  BY <1>1 DEF IInv, OneHolder, NoSilentLoss, Holds
<1>5. NoDataForDeleted' /\ NotifiedIsRecipient'
  BY <1>1 DEF IInv, NoDataForDeleted, NotifiedIsRecipient, RowOf, Present, Tombstoned
<1>6. DeletionIdentity'
  BY <1>1 DEF IInv, DeletionIdentity, DeletionReply, Tombstoned
<1> QED
  BY <1>2, <1>3, <1>4, <1>5, <1>6 DEF IInv

\* Deletion empties every table of one user and leaves all others alone.
LEMMA DeleteAccountStep ==
  ASSUME IInv, NEW j \in Jobs, NEW u \in Users, DeleteAccount(j, u)
  PROVE  IInv'
<1> USE InboxAssumption
<1>1. jobs[j] = NoUser /\ ~Tombstoned(u)
  BY DEF DeleteAccount, DeletionReply
<1>2. /\ jobs' = [jobs EXCEPT ![j] = u] /\ tombstone' = [tombstone EXCEPT ![u] = j]
      /\ \A d \in deliveries' : d \in deliveries /\ Owner[d[2]] # u
      /\ subs' \subseteq subs /\ users' = users \ {u}
      /\ notes' = [n \in Events \X Users |-> IF n[2] = u THEN "none" ELSE notes[n]]
      /\ inbox' = [e \in Events |-> IF RowOf(e, u) THEN AbsentRow ELSE inbox[e]]
      /\ UNCHANGED <<now, created, worker, intake, request>>
  BY DEF DeleteAccount
<1>3. TypeOK'
  BY <1>2, RowTypes DEF IInv, TypeOK, NoteState
<1>4. RowsOK'
  BY <1>2, RowFields DEF IInv, RowsOK
<1>5. LocalsOK'
  BY <1>2 DEF IInv, LocalsOK
<1>6. \A e \in Events, x \in Users :
        /\ Present(<<e, x>>)' => Present(<<e, x>>) /\ x # u
        /\ RowOf(e, x)' <=> RowOf(e, x) /\ x # u
  BY <1>2, RowFields DEF Present, RowOf
<1>7. NotesCreated'
  BY <1>2 DEF IInv, NotesCreated, Present
<1>8. OneHolder' /\ NoSilentLoss'
  <2>1. \A w \in Workers, e \in Events :
          Holds(w, e)' => Holds(w, e) /\ inbox'[e] = inbox[e]
    BY <1>2, RowFields DEF Holds
  <2> QED
    BY <1>2, <2>1 DEF IInv, OneHolder, NoSilentLoss
<1>9. \A x \in Users : Tombstoned(x)' <=> Tombstoned(x) \/ x = u
  BY <1>2 DEF Tombstoned, IInv, TypeOK
<1>10. NoDataForDeleted'
  BY <1>2, <1>6, <1>9 DEF IInv, NoDataForDeleted
<1>11. NotifiedIsRecipient'
  <2>1. \A d \in deliveries : d[1] \in Events /\ Owner[d[2]] \in Users
    BY DEF IInv, TypeOK
  <2>2. \A d \in deliveries' : RowOf(d[1], Owner[d[2]])'
    BY <1>2, <1>6, <2>1 DEF IInv, NotifiedIsRecipient
  <2> QED
    BY <1>6, <2>2 DEF IInv, NotifiedIsRecipient
<1>12. DeletionIdentity'
  <2>1. \A k \in Jobs, x \in Users :
          /\ jobs'[k] = IF k = j THEN u ELSE jobs[k]
          /\ tombstone'[x] = IF x = u THEN j ELSE tombstone[x]
          /\ tombstone[x] = k <=> jobs[k] = x
    BY <1>2 DEF IInv, TypeOK, DeletionIdentity
  <2>2. \A k \in Jobs, x \in Users : tombstone'[x] = k <=> jobs'[k] = x
    BY <1>1, <2>1 DEF Tombstoned
  <2> QED
    BY <2>2 DEF DeletionIdentity, DeletionReply
<1> QED
  BY <1>3, <1>4, <1>5, <1>7, <1>8, <1>10, <1>11, <1>12 DEF IInv
----------------------------------------------------------------------------
(* The invariant *)

\* Every step, and every stuttering step, preserves the invariant.
LEMMA NextInv == IInv /\ [Next]_vars => IInv'
<1> SUFFICES ASSUME IInv, [Next]_vars PROVE IInv'
  OBVIOUS
<1> USE InboxAssumption
<1>0. now \in Nat /\ intake \subseteq Events \X Payloads /\ request \subseteq Users
  BY DEF IInv, TypeOK
<1>1. CASE UNCHANGED vars
  BY <1>0, <1>1, FrameStep DEF vars, tables
<1>2. CASE Tick
  BY <1>0, <1>2, FrameStep DEF Tick, tables
<1>3. ASSUME NEW e \in Events, NEW p \in Payloads, ReceiveEvent(e, p)
      PROVE  IInv'
  BY <1>0, <1>3, FrameStep DEF ReceiveEvent, tables
<1>4. ASSUME NEW w \in Workers, WorkerStep(w)
      PROVE  IInv'
  <2>1. CASE WriteStale(w)
    BY <2>1, ForgetStep DEF WriteStale
  <2> QED
    BY <1>4, <2>1, ClaimStep, LookupAnsweredStep, ListSubscriptionsStep, WriteStep,
       FinishStep DEF WorkerStep
<1>5. ASSUME NEW w \in Workers, WorkerFailure(w)
      PROVE  IInv'
  BY <1>5, ForgetStep DEF WorkerFailure, LookupFailed, Crash
<1>6. ASSUME NEW u \in Clients, NoteEdit(u)
      PROVE  IInv'
  <2>1. TypeOK
    BY DEF IInv
  <2> QED
    BY <1>6, <2>1, NoteEdits, EditStep
<1>7. CASE Intake
  BY <1>3, <1>7, AcceptEventStep DEF Intake
<1>8. CASE Api
  BY <1>6, <1>8, AuthenticateStep DEF Api, NoteEdit
<1>9. CASE PushSide
  BY <1>9, PushSideStep
<1>10. CASE Deletion
  BY <1>10, DeleteAccountStep DEF Deletion
<1> QED
  BY <1>1, <1>2, <1>4, <1>5, <1>7, <1>8, <1>9, <1>10 DEF Next

\* The inductive invariant holds throughout every behavior.
THEOREM Invariance == Spec => []IInv
BY InitInv, NextInv, PTL DEF Spec

\* Tables and local variables keep their types.
THEOREM TypeCorrect == Spec => []TypeOK
<1>1. IInv => TypeOK
  BY DEF IInv
<1> QED
  BY <1>1, Invariance, PTL

\* Nothing in flight brings back a row of an erased account.
THEOREM ErasedStaysErased == Spec => []NoDataForDeleted
<1>1. IInv => NoDataForDeleted
  BY DEF IInv
<1> QED
  BY <1>1, Invariance, PTL

\* Any number of workers, with any lease time: at most one holds the current
\* claim of an event, and it works on the payload of the row.
THEOREM LeasesExclude == Spec => []OneHolder
<1>1. IInv => OneHolder
  BY DEF IInv
<1> QED
  BY <1>1, Invariance, PTL

\* Notifications and deliveries only ever go to the accepted recipient.
THEOREM OnlyRecipientNotified == Spec => []NotifiedIsRecipient
<1>1. IInv => NotifiedIsRecipient
  BY DEF IInv
<1> QED
  BY <1>1, Invariance, PTL

\* No event is completed by a claim that skipped the notification it owed.
THEOREM NoneSkipped == Spec => []NoSilentLoss
<1>1. IInv => NoSilentLoss
  BY DEF IInv
<1> QED
  BY <1>1, Invariance, PTL

\* Job ids and tombstones stay one to one.
THEOREM DeletionIdentified == Spec => []DeletionIdentity
<1>1. IInv => DeletionIdentity
  BY DEF IInv
<1> QED
  BY <1>1, Invariance, PTL
----------------------------------------------------------------------------
(* Action properties *)

\* The write of a current claim touches the rows of its own event, which is
\* not processed yet.
LEMMA WriteIsLocal ==
  ASSUME IInv, NEW w \in Workers, Write(w)
  PROVE  /\ inbox[worker[w].event].status = "processing"
         /\ \A e \in Events : e # worker[w].event =>
              /\ inbox'[e] = inbox[e]
              /\ \A u \in Users : notes'[<<e, u>>] = notes[<<e, u>>]
              /\ \A s \in Subscriptions : <<e, s>> \in deliveries' => <<e, s>> \in deliveries
         /\ \A n \in Events \X Users : notes[n] # "none" => notes'[n] = notes[n]
<1>1. /\ inbox \in [Events -> Row] /\ notes \in [Events \X Users -> NoteState]
      /\ inbox[worker[w].event].status = "processing"
  BY DEF IInv, TypeOK, Write, Fence
<1>2. CASE Tombstoned(Recipient[inbox[worker[w].event].payload])
  BY <1>1, <1>2 DEF Write
<1>3. CASE ~Tombstoned(Recipient[inbox[worker[w].event].payload])
  <2>1. InsertNote(w) /\ InsertDeliveries(w) /\ UNCHANGED inbox
    BY <1>3 DEF Write
  <2>2. \A n \in Events \X Users :
          notes'[n] = notes[n] \/ (notes[n] = "none" /\ n[1] = worker[w].event)
    BY <1>1, <2>1 DEF InsertNote
  <2>3. \A e \in Events, u \in Users :
          <<e, u>> \in Events \X Users /\ <<e, u>>[1] = e
    OBVIOUS
  <2>4. \A e \in Events, s \in Subscriptions :
          <<e, s>> \in deliveries' => <<e, s>> \in deliveries \/ e = worker[w].event
    BY <2>1 DEF InsertDeliveries
  <2> QED
    BY <1>1, <2>1, <2>2, <2>3, <2>4
<1> QED
  BY <1>2, <1>3

\* Of a processed event: its row stays as it is or goes with its account, and
\* no notification or delivery is added.
Final(e) ==
  /\ inbox'[e] = inbox[e] \/ (inbox'[e] = AbsentRow /\ Deletion)
  /\ \A u \in Users : notes[<<e, u>>] = "none" => notes'[<<e, u>>] = "none"
  /\ \A s \in Subscriptions : <<e, s>> \in deliveries' => <<e, s>> \in deliveries

LEMMA FinalStep ==
  ASSUME IInv, [Next]_vars, NEW e \in Events, inbox[e].status = "processed"
  PROVE  Final(e)
<1> USE InboxAssumption
<1>1. CASE UNCHANGED <<inbox, notes, deliveries>>
  BY <1>1 DEF Final
<1>2. CASE UNCHANGED vars \/ Tick
  BY <1>1, <1>2 DEF vars, Tick, tables
<1>3. CASE Intake
  BY <1>1, <1>3 DEF Intake, ReceiveEvent, AcceptEvent, NotInserted, tables, Final, IInv, TypeOK
<1>4. ASSUME NEW w \in Workers, WorkerStep(w) \/ WorkerFailure(w)
      PROVE  Final(e)
  <2>1. ASSUME NEW f \in Events, NEW l \in LeaseIds, Claim(w, f, l)
        PROVE  Final(e)
    BY <2>1 DEF Claim, NextCandidate, Claimable, Final, IInv, TypeOK
  <2>2. CASE Write(w)
    BY <2>2, WriteIsLocal DEF Final
  <2>3. CASE Finish(w)
    BY <2>3 DEF Finish, Fence, Final, IInv, TypeOK
  <2> QED
    BY <1>1, <1>4, <2>1, <2>2, <2>3
       DEF WorkerStep, WorkerFailure, LookupAnswered, ListSubscriptions, WriteStale,
           LookupFailed, Crash, tables
<1>5. ASSUME NEW u \in Clients, NoteEdit(u)
      PROVE  Final(e)
  <2>1. /\ UNCHANGED <<inbox, deliveries>>
        /\ \A n \in Events \X Users : notes[n] = "none" => notes'[n] = "none"
    BY <1>5, NoteEdits DEF ApiReply, IInv
  <2>2. \A u_1 \in Users : <<e, u_1>> \in Events \X Users
    OBVIOUS
  <2> QED
    BY <2>1, <2>2 DEF Final
<1>6. CASE Api
  BY <1>1, <1>5, <1>6 DEF Api, NoteEdit, Authenticate
<1>7. CASE PushSide
  BY <1>7 DEF PushSide, Subscribe, Unsubscribe, PurgeDelivery, Final
<1>8. CASE Deletion
  <2>1. PICK j \in Jobs, u \in Users : DeleteAccount(j, u)
    BY <1>8 DEF Deletion
  <2>2. \A x \in Users : <<e, x>> \in Events \X Users /\ <<e, x>>[2] = x
    OBVIOUS
  <2> QED
    BY <1>8, <2>1, <2>2 DEF DeleteAccount, Final
<1> QED
  BY <1>2, <1>3, <1>4, <1>6, <1>7, <1>8 DEF Next

\* No late worker, replay or retry changes what a processed event left.
THEOREM ProcessedFinal == Spec => ProcessedIsFinal
<1>1. IInv /\ [Next]_vars =>
        [\A e \in Events : inbox[e].status = "processed" =>
           /\ inbox'[e] = inbox[e] \/ (inbox'[e] = AbsentRow /\ Deletion)
           /\ \A u \in Users : notes[<<e, u>>] = "none" => notes'[<<e, u>>] = "none"
           /\ \A s \in Subscriptions : <<e, s>> \in deliveries' => <<e, s>> \in deliveries
        ]_vars
  BY FinalStep DEF Final
<1> QED
  BY <1>1, Invariance, PTL DEF Spec, ProcessedIsFinal

LEMMA ReadStep ==
  ASSUME IInv, [Next]_vars, NEW n \in Events \X Users, notes[n] = "read"
  PROVE  notes'[n] # "unread"
<1> USE InboxAssumption
<1>1. CASE UNCHANGED notes
  BY <1>1
<1>2. CASE UNCHANGED vars \/ Tick \/ Intake \/ PushSide
  BY <1>1, <1>2 DEF vars, Tick, Intake, ReceiveEvent, AcceptEvent, PushSide, Subscribe,
                    Unsubscribe, PurgeDelivery, tables
<1>3. ASSUME NEW w \in Workers, WorkerStep(w) \/ WorkerFailure(w)
      PROVE  notes'[n] # "unread"
  <2>1. CASE Write(w)
    BY <2>1, WriteIsLocal
  <2> QED
    BY <1>1, <1>3, <2>1
       DEF WorkerStep, WorkerFailure, Claim, LookupAnswered, ListSubscriptions, WriteStale,
           Finish, LookupFailed, Crash, tables
<1>4. CASE Api
  BY <1>1, <1>4, NoteEdits DEF Api, NoteEdit, Authenticate, IInv
<1>5. CASE Deletion
  BY <1>5 DEF Deletion, DeleteAccount
<1> QED
  BY <1>2, <1>3, <1>4, <1>5 DEF Next

\* However often a materialization is retried, what was read stays read.
THEOREM ReadIsFinal == Spec => ReadStaysRead
<1>1. IInv /\ [Next]_vars =>
        [\A n \in Events \X Users : notes[n] = "read" => notes'[n] # "unread"]_vars
  BY ReadStep
<1> QED
  BY <1>1, Invariance, PTL DEF Spec, ReadStaysRead

----------------------------------------------------------------------------
(* What a repeated insertion comes from.  Run inbox_retry shows that         *)
(* RetryIsIdempotent fails; it holds of every behavior in which users delete *)
(* notifications of completed events only.                                  *)

\* A notification goes with its account, or after its event was completed.
DeletionsAwaitCompletion ==
  \A n \in Events \X Users :
    Present(n) /\ ~Present(n)' => inbox[n[1]].status = "processed" \/ Deletion

\* What was once inserted is there as long as its event can be retried.
InsertedOK(n) ==
  n \in created =>
    \/ Tombstoned(n[2])
    \/ RowOf(n[1], n[2]) /\ (Present(n) \/ inbox[n[1]].status = "processed")

InsertedKept == \A n \in Events \X Users : InsertedOK(n)

\* A tombstone stays.
LEMMA TombstonesStay ==
  ASSUME IInv, [Next]_vars, NEW u \in Users, Tombstoned(u)
  PROVE  Tombstoned(u)'
<1> USE InboxAssumption
<1>1. CASE UNCHANGED tombstone
  BY <1>1 DEF Tombstoned
<1>2. CASE Deletion
  BY <1>2 DEF Deletion, DeleteAccount, Tombstoned, IInv, TypeOK
<1>3. CASE UNCHANGED vars \/ Tick \/ Intake \/ PushSide \/ Api
  BY <1>1, <1>3
     DEF vars, Tick, Intake, ReceiveEvent, AcceptEvent, PushSide, Subscribe, Unsubscribe,
         PurgeDelivery, Api, Authenticate, MarkRead, DeleteNotification, MarkAllRead,
         DeleteAllNotifications, ApiReply, tables
<1>4. ASSUME NEW w \in Workers, WorkerStep(w) \/ WorkerFailure(w)
      PROVE  UNCHANGED tombstone
  BY <1>4 DEF WorkerStep, WorkerFailure, Claim, LookupAnswered, ListSubscriptions, WriteStale,
              Write, Finish, LookupFailed, Crash, tables
<1> QED
  BY <1>1, <1>2, <1>3, <1>4 DEF Next

\* The write of a current claim inserts at most one notification, its recipient's,
\* and leaves the row of the event.
LEMMA WriteInserts ==
  ASSUME IInv, NEW w \in Workers, Write(w)
  PROVE  /\ UNCHANGED <<inbox, tombstone>>
         /\ \A n \in Events \X Users :
              /\ n \in created' => n \in created \/ (Present(n)' /\ RowOf(n[1], n[2]))
              /\ Present(n) => Present(n)'
<1> USE InboxAssumption
<1> DEFINE e == worker[w].event
           u == Recipient[worker[w].payload]
<1>1. e \in Events /\ worker[w].payload \in Payloads /\ u \in Users /\ worker[w].pc = "write"
  BY DEF Write, IInv, LocalsOK
<1>2. Holds(w, e) /\ RowOf(e, u) /\ inbox[e].payload = worker[w].payload
  BY <1>1 DEF Write, Fence, Holds, RowOf, IInv, OneHolder
<1>3. ~Tombstoned(u)
  BY <1>1, <1>2 DEF IInv, NoDataForDeleted
<1>4. InsertNote(w) /\ UNCHANGED <<inbox, tombstone>>
  BY <1>2, <1>3 DEF Write
<1>5. notes \in [Events \X Users -> NoteState] /\ <<e, u>> \in Events \X Users
  BY <1>1 DEF IInv, TypeOK
<1>6. ASSUME NEW n \in Events \X Users, n \in created', n \notin created
      PROVE  Present(n)' /\ RowOf(n[1], n[2])
  <2>1. n = <<e, u>> /\ notes'[n] = "unread"
    BY <1>4, <1>5, <1>6 DEF InsertNote
  <2> QED
    BY <1>2, <2>1 DEF Present
<1> QED
  BY <1>4, <1>6, WriteIsLocal DEF Present

\* A step that changes neither rows nor tombstones, and inserts nothing.
LEMMA FrameKept ==
  ASSUME NEW n \in Events \X Users, InsertedOK(n), UNCHANGED <<inbox, created, tombstone>>,
         Present(n) /\ ~Present(n)' => inbox[n[1]].status = "processed"
  PROVE  InsertedOK(n)'
BY DEF InsertedOK, Tombstoned, RowOf

\* Every step that meets the condition keeps what was inserted, or the event completed.
LEMMA InsertedStep ==
  ASSUME IInv, InsertedKept, [Next]_vars, [DeletionsAwaitCompletion]_vars
  PROVE  InsertedKept'
<1> USE InboxAssumption
<1> SUFFICES ASSUME NEW n \in Events \X Users PROVE InsertedOK(n)'
  BY DEF InsertedKept
<1> DEFINE e == n[1]
           u == n[2]
<1>0. /\ InsertedOK(n) /\ e \in Events /\ u \in Users
      /\ inbox \in [Events -> Row] /\ tombstone \in [Users -> Jobs \cup {NoJob}]
  BY DEF InsertedKept, IInv, TypeOK
<1>1. Present(n) /\ ~Present(n)' => inbox[e].status = "processed" \/ Deletion
  BY DEF DeletionsAwaitCompletion, vars, Present
<1>2. ASSUME UNCHANGED <<inbox, notes, created, tombstone>> PROVE InsertedOK(n)'
  BY <1>0, <1>2, FrameKept DEF Present
<1>3. ASSUME UNCHANGED <<inbox, created, tombstone>>, ~Deletion PROVE InsertedOK(n)'
  BY <1>0, <1>1, <1>3, FrameKept
<1>4. CASE UNCHANGED vars \/ Tick
  BY <1>2, <1>4 DEF vars, Tick, tables
<1>5. ASSUME NEW f \in Events, NEW p \in Payloads, ReceiveEvent(f, p) \/ AcceptEvent(f, p)
      PROVE  InsertedOK(n)'
  <2>1. CASE inbox' = inbox
    BY <1>2, <1>5, <2>1 DEF ReceiveEvent, AcceptEvent, tables
  <2>2. CASE inbox' # inbox
    <3>1. /\ inbox[f].status = "absent" /\ UNCHANGED <<notes, created, tombstone>>
          /\ inbox' = [inbox EXCEPT ![f] = PendingRow(p, now)]
      BY <1>5, <2>2 DEF ReceiveEvent, AcceptEvent, NotInserted, tables
    <3>2. RowOf(e, u) => e # f
      BY <3>1 DEF RowOf
    <3>3. RowOf(e, u) => inbox'[e] = inbox[e]
      BY <1>0, <3>1, <3>2
    <3> QED
      BY <1>0, <3>1, <3>3 DEF InsertedOK, RowOf, Tombstoned, Present
  <2> QED
    BY <2>1, <2>2
<1>6. ASSUME NEW w \in Workers, WorkerStep(w) \/ WorkerFailure(w)
      PROVE  InsertedOK(n)'
  <2>1. ASSUME NEW f \in Events, NEW l \in LeaseIds, Claim(w, f, l)
        PROVE  InsertedOK(n)'
    <3>1. inbox[f].status # "processed" /\ inbox[f].status # "absent"
      BY <2>1 DEF Claim, NextCandidate, Claimable
    <3>2. /\ inbox'[e].payload = inbox[e].payload
          /\ inbox'[e].status = IF e = f THEN "processing" ELSE inbox[e].status
      BY <1>0, <2>1 DEF Claim, Row
    <3> QED
      BY <1>0, <2>1, <3>1, <3>2 DEF Claim, InsertedOK, RowOf, Tombstoned, Present
  <2>2. CASE Write(w)
    BY <1>0, <2>2, WriteInserts DEF InsertedOK, RowOf, Tombstoned
  <2>3. CASE Finish(w)
    <3>1. inbox'[e].payload = inbox[e].payload
      BY <1>0, <2>3 DEF Finish, Row
    <3>2. inbox'[e].status = inbox[e].status
            \/ (inbox[e].status = "processing" /\ inbox'[e].status = "processed")
      BY <1>0, <2>3 DEF Finish, Fence, Row
    <3> QED
      BY <1>0, <2>3, <3>1, <3>2 DEF Finish, InsertedOK, RowOf, Tombstoned, Present
  <2> QED
    BY <1>2, <1>6, <2>1, <2>2, <2>3
       DEF WorkerStep, WorkerFailure, LookupAnswered, ListSubscriptions, WriteStale,
           LookupFailed, Crash, tables
<1>7. CASE Deletion
  <2>1. PICK j \in Jobs, v \in Users : DeleteAccount(j, v)
    BY <1>7 DEF Deletion
  <2>2. /\ created' = created /\ NoJob \notin Jobs
        /\ tombstone'[u] = IF u = v THEN j ELSE tombstone[u]
        /\ notes'[n] = IF u = v THEN "none" ELSE notes[n]
        /\ inbox'[e] = IF RowOf(e, v) THEN AbsentRow ELSE inbox[e]
    BY <1>0, <2>1 DEF DeleteAccount
  <2>3. CASE u = v
    BY <2>2, <2>3 DEF InsertedOK, Tombstoned
  <2>4. CASE u # v
    <3>1. RowOf(e, u) => inbox'[e] = inbox[e]
      BY <2>2, <2>4 DEF RowOf
    <3> QED
      BY <1>0, <2>2, <2>4, <3>1 DEF InsertedOK, Tombstoned, Present, RowOf
  <2> QED
    BY <2>3, <2>4
<1>8. CASE Api /\ ~Deletion
  BY <1>3, <1>8 DEF Api, Authenticate, MarkRead, DeleteNotification, MarkAllRead,
                    DeleteAllNotifications, ApiReply
<1>9. CASE PushSide
  BY <1>2, <1>9 DEF PushSide, Subscribe, Unsubscribe, PurgeDelivery
<1> QED
  BY <1>4, <1>5, <1>6, <1>7, <1>8, <1>9 DEF Next, Intake

\* A retry inserts no notification again, except one that its user deleted before
\* the event was completed.
THEOREM OnlyEarlyDeletionsRepeat ==
  Spec /\ [][DeletionsAwaitCompletion]_vars => RetryIsIdempotent
<1>1. Init => InsertedKept
  BY DEF Init, InsertedKept, InsertedOK
<1>2. IInv /\ InsertedKept /\ [Next]_vars /\ [DeletionsAwaitCompletion]_vars => InsertedKept'
  BY InsertedStep
<1>3. IInv /\ IInv' /\ InsertedKept /\ [Next]_vars =>
        [\A n \in created : notes[n] = "none" => notes'[n] = "none"]_vars
  <2> SUFFICES ASSUME IInv, IInv', InsertedKept, [Next]_vars, NEW n \in created,
                      notes[n] = "none"
               PROVE  notes'[n] = "none"
    OBVIOUS
  <2>1. n \in Events \X Users /\ n = <<n[1], n[2]>> /\ n[1] \in Events /\ n[2] \in Users
    BY DEF IInv, TypeOK
  <2>2. CASE Tombstoned(n[2])
    <3>1. Tombstoned(n[2])'
      BY <2>1, <2>2, TombstonesStay
    <3> QED
      BY <2>1, <3>1 DEF IInv, NoDataForDeleted, Present
  <2>3. CASE inbox[n[1]].status = "processed"
    <3>1. Final(n[1])
      BY <2>1, <2>3, FinalStep
    <3> QED
      BY <2>1, <3>1 DEF Final
  <2> QED
    BY <2>1, <2>2, <2>3 DEF InsertedKept, InsertedOK, Present
<1> QED
  BY <1>1, <1>2, <1>3, Invariance, PTL DEF Spec, RetryIsIdempotent
=============================================================================
