-------------------------- MODULE RefinementProofs --------------------------
(***************************************************************************)
(* Inbox implements EventPromise, for every value of the constants: each   *)
(* step of the workers, the intake, the API and deletion maps to a step of *)
(* the promise or to a stutter.  The invariant of InboxProofs is needed    *)
(* where a worker writes: only its claim being current, and the row being  *)
(* the one it read, make the write a Notify of the accepted recipient.     *)
(***************************************************************************)
EXTENDS InboxRefinement, InboxProofs

MappedPhase == [e \in Events |-> Phase(inbox[e].status)]
MappedBody == [e \in Events |-> inbox[e].payload]
MappedErased == {u \in Users : Tombstoned(u)}

\* Initial rows are open events, and nobody is erased.
LEMMA InitMaps == Init => Promise!Init
<1> SUFFICES ASSUME Init PROVE Promise!Init
  OBVIOUS
<1> USE InboxAssumption
<1>1. \A e \in Events :
        \/ inbox[e].status = "absent" /\ inbox[e].payload = NoPayload
        \/ inbox[e].status = "pending" /\ inbox[e].payload \in Payloads
  <2>1. \A e \in Events : \/ inbox[e] = AbsentRow
                          \/ \E p \in Payloads : inbox[e] = PendingRow(p, 0)
    BY DEF Init
  <2>2. AbsentRow.payload = NoPayload
    BY DEF AbsentRow
  <2> QED
    BY <2>1, <2>2, RowFields
<1>2. MappedPhase \in [Events -> {"none", "open"}]
  BY <1>1 DEF MappedPhase, Phase
<1>3. MappedBody \in [Events -> Payloads \cup {NoPayload}]
  BY <1>1 DEF MappedBody
<1>4. \A e \in Events : MappedPhase[e] = "none" <=> MappedBody[e] = NoPayload
  BY <1>1 DEF MappedPhase, MappedBody, Phase
<1>5. MappedErased = {}
  BY DEF MappedErased, Init, Tombstoned
<1> QED
  BY <1>2, <1>3, <1>4, <1>5
     DEF Promise!Init, Init, MappedPhase, MappedBody, MappedErased

----------------------------------------------------------------------------
(* Steps that the promise does not see, and steps that it does *)

\* Claims, lookups, failures and stale writes change no phase and no body.
LEMMA StutterMaps ==
  ASSUME \A e \in Events : /\ Phase(inbox'[e].status) = Phase(inbox[e].status)
                           /\ inbox'[e].payload = inbox[e].payload,
         UNCHANGED <<notes, deliveries, tombstone>>
  PROVE  UNCHANGED Promise!vars
<1>1. MappedPhase' = MappedPhase /\ MappedBody' = MappedBody
  BY DEF MappedPhase, MappedBody
<1>2. MappedErased' = MappedErased
  BY DEF MappedErased, Tombstoned
<1> QED
  BY <1>1, <1>2 DEF Promise!vars, MappedPhase, MappedBody, MappedErased

\* An insertion in inbox_events is an acceptance; any other reply is a stutter.
LEMMA AcceptMaps ==
  ASSUME IInv, NEW e \in Events, NEW p \in Payloads, AcceptEvent(e, p)
  PROVE  [Promise!Next]_(Promise!vars)
<1> USE InboxAssumption
<1>1. CASE NotInserted(e, p)
  BY <1>1, StutterMaps DEF AcceptEvent
<1>2. CASE ~NotInserted(e, p)
  <2>1. /\ inbox[e].status = "absent" /\ ~Tombstoned(Recipient[p])
        /\ \A f \in Events : inbox'[f] = IF f = e THEN PendingRow(p, now) ELSE inbox[f]
        /\ UNCHANGED <<notes, deliveries, tombstone>>
    BY <1>2 DEF AcceptEvent, NotInserted, IInv, TypeOK
  <2>2. MappedPhase[e] = "none" /\ Recipient[p] \notin MappedErased
    BY <2>1 DEF MappedPhase, MappedErased, Phase
  <2> DEFINE row == PendingRow(p, now)
  <2>3. row.status = "pending" /\ row.payload = p
    BY RowFields
  <2>4. \A f \in Events : inbox'[f] = IF f = e THEN row ELSE inbox[f]
    BY <2>1
  <2> HIDE DEF row
  <2>5. MappedPhase' = [MappedPhase EXCEPT ![e] = "open"]
    BY <2>3, <2>4 DEF MappedPhase, Phase
  <2>6. MappedBody' = [MappedBody EXCEPT ![e] = p]
    BY <2>3, <2>4 DEF MappedBody
  <2>7. MappedErased' = MappedErased
    BY <2>1 DEF MappedErased, Tombstoned
  <2>8. Promise!Accept(e, p)
    BY <2>1, <2>2, <2>5, <2>6, <2>7
       DEF Promise!Accept, MappedPhase, MappedBody, MappedErased
  <2> QED
    BY <2>8 DEF Promise!Next
<1> QED
  BY <1>1, <1>2

\* The fenced write notifies the accepted recipient of an open event.
LEMMA WriteMaps ==
  ASSUME IInv, NEW w \in Workers, Write(w)
  PROVE  [Promise!Next]_(Promise!vars)
<1> USE InboxAssumption
<1> DEFINE e == worker[w].event
           u == Recipient[inbox[e].payload]
<1>1. /\ e \in Events /\ inbox[e].status = "processing"
      /\ inbox[e].payload = worker[w].payload /\ worker[w].inApp \in BOOLEAN
      /\ worker[w].listed \subseteq Subscriptions
      /\ \A s \in worker[w].listed : Owner[s] = u
  BY DEF Write, Fence, IInv, TypeOK, WorkerState, LocalsOK, OneHolder, Holds
<1>2. ~Tombstoned(u)
  BY <1>1 DEF IInv, RowsOK, NoDataForDeleted, RowOf
<1>3. InsertNote(w) /\ InsertDeliveries(w) /\ UNCHANGED <<inbox, tombstone>>
  BY <1>2 DEF Write
<1>4. MappedPhase[e] = "open" /\ MappedBody[e] = inbox[e].payload
  BY <1>1 DEF MappedPhase, MappedBody, Phase
<1>5. MappedPhase' = MappedPhase /\ MappedBody' = MappedBody /\ MappedErased' = MappedErased
  BY <1>3 DEF MappedPhase, MappedBody, MappedErased, Tombstoned
<1>6. /\ notes' = IF worker[w].inApp /\ notes[<<e, u>>] = "none"
                  THEN [notes EXCEPT ![<<e, u>>] = "unread"] ELSE notes
      /\ deliveries' = deliveries \cup {<<e, s>> : s \in worker[w].listed}
  BY <1>1, <1>3 DEF InsertNote, InsertDeliveries
<1>7. Promise!Notify(e, worker[w].inApp, worker[w].listed)
  BY <1>1, <1>4, <1>5, <1>6
     DEF Promise!Notify, MappedPhase, MappedBody, MappedErased
<1> QED
  BY <1>1, <1>7 DEF Promise!Next

\* A completion in time closes the event; a late one is a stutter.
LEMMA FinishMaps ==
  ASSUME IInv, NEW w \in Workers, Finish(w)
  PROVE  [Promise!Next]_(Promise!vars)
<1> DEFINE e == worker[w].event
<1>1. e \in Events /\ inbox[e] \in Row /\ UNCHANGED <<notes, deliveries, tombstone>>
  BY DEF Finish, IInv, TypeOK, LocalsOK
<1>2. CASE ~Fence(e, worker[w].lease, now)
  BY <1>1, <1>2, StutterMaps DEF Finish
<1>3. CASE Fence(e, worker[w].lease, now)
  <2> DEFINE row == [inbox[e] EXCEPT !.status = "processed", !.leaseId = NoLease,
                                     !.leaseUntil = 0]
  <2>1. row.status = "processed" /\ row.payload = inbox[e].payload
        /\ inbox[e].status = "processing"
    BY <1>1, <1>3 DEF Fence, Row
  <2>2. inbox' = [inbox EXCEPT ![e] = row]
    BY <1>1, <1>3 DEF Finish, IInv, TypeOK
  <2> HIDE DEF row
  <2>3. \A f \in Events : inbox'[f] = IF f = e THEN row ELSE inbox[f]
    BY <2>2 DEF IInv, TypeOK
  <2>4. MappedPhase[e] = "open" /\ MappedPhase' = [MappedPhase EXCEPT ![e] = "closed"]
    BY <1>1, <2>1, <2>3 DEF MappedPhase, Phase
  <2>5. MappedBody' = MappedBody /\ MappedErased' = MappedErased
    BY <1>1, <2>1, <2>3 DEF MappedBody, MappedErased, Tombstoned
  <2>6. Promise!Close(e)
    BY <1>1, <2>4, <2>5 DEF Promise!Close, MappedPhase, MappedBody, MappedErased
  <2> QED
    BY <1>1, <2>6 DEF Promise!Next
<1> QED
  BY <1>2, <1>3

\* Requests edit only their user's notifications.
LEMMA EditMaps ==
  ASSUME IInv, NEW u \in Clients, NoteEdit(u)
  PROVE  Promise!Next
<1> USE InboxAssumption
<1>1. /\ UNCHANGED <<inbox, deliveries, tombstone>>
      /\ DOMAIN notes' = Events \X Users
      /\ \A n \in Events \X Users :
           \/ notes'[n] = notes[n]
           \/ n[2] = u /\ notes'[n] = "none"
           \/ n[2] = u /\ notes[n] = "unread" /\ notes'[n] = "read"
  BY NoteEdits DEF ApiReply, IInv
<1>2. MappedPhase' = MappedPhase /\ MappedBody' = MappedBody /\ MappedErased' = MappedErased
  BY <1>1 DEF MappedPhase, MappedBody, MappedErased, Tombstoned
<1>3. Promise!Edit(u)
  BY <1>1, <1>2 DEF Promise!Edit, MappedPhase, MappedBody, MappedErased
<1> QED
  BY <1>3 DEF Promise!Next

\* Of what the push side does, the promise sees purged deliveries only.
LEMMA PushSideMaps ==
  ASSUME PushSide
  PROVE  [Promise!Next]_(Promise!vars)
<1>1. CASE UNCHANGED deliveries
  BY <1>1, StutterMaps DEF PushSide, Subscribe, Unsubscribe, PurgeDelivery
<1>2. ASSUME NEW d \in deliveries, PurgeDelivery(d)
      PROVE  Promise!Next
  <2>1. MappedPhase' = MappedPhase /\ MappedBody' = MappedBody /\ MappedErased' = MappedErased
    BY <1>2 DEF PurgeDelivery, MappedPhase, MappedBody, MappedErased, Tombstoned
  <2>2. Promise!Purge(d)
    BY <1>2, <2>1 DEF PurgeDelivery, Promise!Purge, MappedPhase, MappedBody, MappedErased
  <2> QED
    BY <2>2 DEF Promise!Next
<1> QED
  BY <1>1, <1>2 DEF PushSide, Subscribe, Unsubscribe

\* Account deletion erases.
LEMMA DeleteMaps ==
  ASSUME IInv, NEW j \in Jobs, NEW u \in Users, DeleteAccount(j, u)
  PROVE  Promise!Next
<1> USE InboxAssumption
<1>1. /\ ~Tombstoned(u) /\ tombstone' = [tombstone EXCEPT ![u] = j]
      /\ deliveries' = {d \in deliveries : Owner[d[2]] # u}
      /\ notes' = [n \in Events \X Users |-> IF n[2] = u THEN "none" ELSE notes[n]]
      /\ inbox' = [e \in Events |-> IF RowOf(e, u) THEN AbsentRow ELSE inbox[e]]
  BY DEF DeleteAccount, DeletionReply
<1>2. \A x \in Users : Tombstoned(x)' <=> Tombstoned(x) \/ x = u
  BY <1>1 DEF Tombstoned, IInv, TypeOK
<1>3. u \notin MappedErased /\ MappedErased' = MappedErased \cup {u}
  BY <1>1, <1>2 DEF MappedErased
<1>4. \A e \in Events :
        (MappedPhase[e] # "none" /\ Recipient[MappedBody[e]] = u) <=> RowOf(e, u)
  BY DEF IInv, TypeOK, Row, Status, MappedPhase, MappedBody, RowOf, Phase
<1>5. AbsentRow.status = "absent" /\ AbsentRow.payload = NoPayload
  BY DEF AbsentRow
<1>6. MappedPhase' = [e \in Events |->
        IF MappedPhase[e] # "none" /\ Recipient[MappedBody[e]] = u
        THEN "none" ELSE MappedPhase[e]]
  BY <1>1, <1>4, <1>5 DEF MappedPhase, Phase
<1>7. MappedBody' = [e \in Events |->
        IF MappedPhase[e] # "none" /\ Recipient[MappedBody[e]] = u
        THEN NoPayload ELSE MappedBody[e]]
  BY <1>1, <1>4, <1>5 DEF MappedBody
<1>8. Promise!Erase(u)
  BY <1>1, <1>3, <1>6, <1>7
     DEF Promise!Erase, Promise!For, MappedPhase, MappedBody, MappedErased
<1> QED
  BY <1>8 DEF Promise!Next

----------------------------------------------------------------------------
LEMMA NextMaps == IInv /\ [Next]_vars => [Promise!Next]_(Promise!vars)
<1> SUFFICES ASSUME IInv, [Next]_vars PROVE [Promise!Next]_(Promise!vars)
  OBVIOUS
<1> USE InboxAssumption
<1>1. CASE UNCHANGED <<inbox, notes, deliveries, tombstone>>
  BY <1>1, StutterMaps
<1>2. CASE UNCHANGED vars \/ Tick
  BY <1>1, <1>2 DEF vars, Tick, tables
<1>3. CASE Intake
  BY <1>1, <1>3, AcceptMaps DEF Intake, ReceiveEvent, tables
<1>4. ASSUME NEW w \in Workers, NEW e \in Events, NEW l \in LeaseIds, Claim(w, e, l)
      PROVE  [Promise!Next]_(Promise!vars)
  <2>1. inbox[e] \in Row /\ inbox[e].status \in {"pending", "processing"}
    BY <1>4 DEF Claim, NextCandidate, Claimable, IInv, TypeOK
  <2> DEFINE row == [inbox[e] EXCEPT !.status = "processing", !.leaseId = l,
                                     !.leaseUntil = now + LeaseTime]
  <2>2. row.status = "processing" /\ row.payload = inbox[e].payload
    BY <2>1 DEF Row
  <2>3. inbox' = [inbox EXCEPT ![e] = row] /\ UNCHANGED <<notes, deliveries, tombstone>>
    BY <1>4 DEF Claim, IInv, TypeOK
  <2> HIDE DEF row
  <2>4. \A f \in Events : inbox'[f] = IF f = e THEN row ELSE inbox[f]
    BY <2>3 DEF IInv, TypeOK
  <2>5. \A f \in Events : /\ Phase(inbox'[f].status) = Phase(inbox[f].status)
                          /\ inbox'[f].payload = inbox[f].payload
    BY <2>1, <2>2, <2>4 DEF Phase
  <2> QED
    BY <2>3, <2>5, StutterMaps
<1>5. ASSUME NEW w \in Workers, WorkerStep(w) \/ WorkerFailure(w)
      PROVE  [Promise!Next]_(Promise!vars)
  BY <1>1, <1>4, <1>5, WriteMaps, FinishMaps
     DEF WorkerStep, WorkerFailure, LookupAnswered, ListSubscriptions, WriteStale,
         LookupFailed, Crash, tables
<1>6. CASE Api
  BY <1>1, <1>6, EditMaps DEF Api, NoteEdit, Authenticate
<1>7. CASE Deletion
  BY <1>7, DeleteMaps DEF Deletion
<1> QED
  BY <1>2, <1>3, <1>5, <1>6, <1>7, PushSideMaps DEF Next

\* Any number of workers, leases and retries: producers, users and deletion see
\* one promise per event.
THEOREM Refinement == Spec => ImplementsPromise
BY InitMaps, NextMaps, Invariance, PTL DEF Spec, ImplementsPromise, Promise!Spec
=============================================================================
