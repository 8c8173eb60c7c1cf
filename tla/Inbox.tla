------------------------------- MODULE Inbox -------------------------------
(***************************************************************************)
(* The durable inbox of Glocke and everything that writes the rows it      *)
(* feeds: event intake (backend/src/app.ts), the leased worker             *)
(* (backend/src/processor.ts), the SQLite transactions of                  *)
(* backend/src/repository.ts, the notification API, and account deletion   *)
(* (backend/src/deletions.ts).                                             *)
(*                                                                         *)
(* Each SQLite transaction is one step; each await of a handler separates  *)
(* two steps.  Workers are processes that share the database file: one per *)
(* running backend, and the replacement started while an old one drains.   *)
(***************************************************************************)
EXTENDS Naturals, FiniteSets

CONSTANTS
  Events,         \* (source, event_id) pairs, numbered in the order of event_id
  Payloads,       \* request bodies; the payload hash tells them apart
  Users,
  Clients,        \* the users whose browsers call the API
  Recipient,      \* [Payloads -> Users], payload.recipientId
  Legacy,         \* stored bodies the current event contract rejects
  Workers,
  Subscriptions,  \* rows of push_subscriptions, by id
  Owner,          \* [Subscriptions -> Users]
  Jobs,           \* deletion job ids
  LeaseIds,       \* UUIDs given to claims
  LeaseTime,      \* GLOCKE_WORKER_LEASE_MS, in ticks
  MaxTime,        \* bound: the modelled span of the wall clock
  NoPayload, NoLease, NoUser, NoJob, NoEvent

ASSUME InboxAssumption ==
  /\ Events \subseteq Nat
  /\ Clients \subseteq Users
  /\ Recipient \in [Payloads -> Users]
  /\ Legacy \subseteq Payloads
  /\ Owner \in [Subscriptions -> Users]
  /\ LeaseTime \in Nat \ {0}
  /\ MaxTime \in Nat
  /\ NoPayload \notin Payloads
  /\ NoLease \notin LeaseIds
  /\ NoUser \notin Users
  /\ NoJob \notin Jobs
  /\ NoEvent \notin Events

VARIABLES
  now,            \* the wall clock all processes read
  inbox,          \* inbox_events, by primary key
  notes,          \* notifications, by the unique (event, user) key
  created,        \* history: every (event, user) ever inserted in notifications
  subs,           \* the ids present in push_subscriptions
  deliveries,     \* push_deliveries, by the unique (event, subscription) key
  users,          \* the local mirror table users
  jobs,           \* deletion_jobs
  tombstone,      \* user_tombstones
  worker,         \* the local variables of each processNext call
  intake,         \* the event requests between their tombstone check and acceptInbox
  request         \* the users with API requests between authentication and handler

vars == <<now, inbox, notes, created, subs, deliveries, users, jobs, tombstone,
          worker, intake, request>>

tables == <<inbox, notes, created, subs, deliveries, users, jobs, tombstone>>

----------------------------------------------------------------------------
(* Rows and local states *)

Status == {"absent", "pending", "processing", "processed"}

Row == [status     : Status,
        payload    : Payloads \cup {NoPayload},
        acceptedAt : Nat,
        leaseId    : LeaseIds \cup {NoLease},
        leaseUntil : Nat]

AbsentRow == [status |-> "absent", payload |-> NoPayload, acceptedAt |-> 0,
              leaseId |-> NoLease, leaseUntil |-> 0]

PendingRow(p, t) == [AbsentRow EXCEPT !.status = "pending", !.payload = p,
                                      !.acceptedAt = t]

PC == {"idle", "lookup", "list", "write", "finish"}

WorkerState == [pc      : PC,
                event   : Events \cup {NoEvent},
                payload : Payloads \cup {NoPayload},
                lease   : LeaseIds \cup {NoLease},
                inApp   : BOOLEAN,
                push    : BOOLEAN,
                at      : Nat,
                listed  : SUBSET Subscriptions]

IdleWorker == [pc |-> "idle", event |-> NoEvent, payload |-> NoPayload,
               lease |-> NoLease, inApp |-> FALSE, push |-> FALSE, at |-> 0,
               listed |-> {}]

NoteState == {"none", "unread", "read"}

Tombstoned(u) == tombstone[u] # NoJob

RowOf(e, u) == inbox[e].status # "absent" /\ Recipient[inbox[e].payload] = u

----------------------------------------------------------------------------
(* Claims and fences *)

LeaseExpired(e) == inbox[e].leaseUntil <= now

\* Variants named Mut... are wrong on purpose: one plausible bug each, which the
\* property it is paired with must notice.
MutClaimPendingOnly(e) == inbox[e].status = "pending"

MutClaimAnyExpired(e) == inbox[e].status # "absent" /\ LeaseExpired(e)

Claimable(e) == \/ inbox[e].status = "pending"
                \/ inbox[e].status = "processing" /\ LeaseExpired(e)

\* Oldest acceptance first, then the smaller event id.
ClaimedBefore(e, f) ==
  \/ inbox[e].acceptedAt < inbox[f].acceptedAt
  \/ inbox[e].acceptedAt = inbox[f].acceptedAt /\ e <= f

NextCandidate(e) ==
  Claimable(e) /\ \A f \in Events : Claimable(f) => ClaimedBefore(e, f)

MutLeaseToggled(l) == \A e \in Events : inbox[e].leaseId # l

\* A UUID nobody remembers: neither a row nor a worker.
FreshLease(l) ==
  /\ \A e \in Events : inbox[e].leaseId # l
  /\ \A w \in Workers : worker[w].lease # l

MutFenceByStatus(e, l, t) == /\ inbox[e].status = "processing"
                             /\ inbox[e].leaseUntil > t

\* The WHERE clause of both fenced writes, for a claim (e, l) and a time t.
Fence(e, l, t) == /\ inbox[e].status = "processing"
                  /\ inbox[e].leaseId = l
                  /\ inbox[e].leaseUntil > t

----------------------------------------------------------------------------
(* Initial states: an empty database, or one that holds pending rows an    *)
(* earlier release accepted.                                               *)

Init ==
  /\ now = 0
  /\ inbox \in [Events -> {AbsentRow} \cup {PendingRow(p, 0) : p \in Legacy}]
  /\ notes = [n \in Events \X Users |-> "none"]
  /\ created = {}
  /\ subs = {}
  /\ deliveries = {}
  /\ users = {}
  /\ jobs = [j \in Jobs |-> NoUser]
  /\ tombstone = [u \in Users |-> NoJob]
  /\ worker = [w \in Workers |-> IdleWorker]
  /\ intake = {}
  /\ request = {}

Tick ==
  /\ now < MaxTime
  /\ now' = now + 1
  /\ UNCHANGED <<tables, worker, intake, request>>

----------------------------------------------------------------------------
(* Event intake: POST /internal/v1/events *)

\* A well-formed, signed request of a registered type passes the tombstone
\* check; a tombstoned recipient is answered "suppressed" and changes nothing.
\* Any number of requests may be under way; equal ones are one element.
ReceiveEvent(e, p) ==
  /\ p \notin Legacy
  /\ ~Tombstoned(Recipient[p])
  /\ intake' = intake \cup {<<e, p>>}
  /\ UNCHANGED <<now, tables, worker, request>>

MutNoRecheck(e, p) == inbox[e].status # "absent"

MutUpsert(e, p) == Tombstoned(Recipient[p])

\* acceptInbox checks the tombstone again inside its transaction, and an
\* existing row wins whatever its hash: the reply tells duplicate from
\* conflict, the table does not change.  An equal request may still be under way.
NotInserted(e, p) == Tombstoned(Recipient[p]) \/ inbox[e].status # "absent"

AcceptEvent(e, p) ==
  /\ <<e, p>> \in intake
  /\ intake' \in {intake, intake \ {<<e, p>>}}
  /\ inbox' = IF NotInserted(e, p) THEN inbox
              ELSE [inbox EXCEPT ![e] = PendingRow(p, now)]
  /\ UNCHANGED <<now, notes, created, subs, deliveries, users, jobs, tombstone,
                 worker, request>>

----------------------------------------------------------------------------
(* The inbox worker: processNext *)

\* claimPendingInbox, then parsePersistedEnvelope: a row that no longer
\* parses skips the recipient and goes straight to completion.
Claim(w, e, l) ==
  /\ worker[w].pc = "idle"
  /\ NextCandidate(e)
  /\ FreshLease(l)
  /\ inbox' = [inbox EXCEPT ![e].status = "processing", ![e].leaseId = l,
                            ![e].leaseUntil = now + LeaseTime]
  /\ worker' = [worker EXCEPT ![w] =
                  [IdleWorker EXCEPT
                     !.pc = IF inbox[e].payload \in Legacy THEN "finish" ELSE "lookup",
                     !.event = e, !.payload = inbox[e].payload, !.lease = l]]
  /\ UNCHANGED <<now, notes, created, subs, deliveries, users, jobs, tombstone,
                 intake, request>>

MutPushOnly(inApp, push) == IF push THEN "list" ELSE "finish"

\* Materialization is needed when either channel is on, and reads the
\* subscriptions first when push is.
AfterLookup(inApp, push) ==
  IF push THEN "list" ELSE IF inApp THEN "write" ELSE "finish"

\* resolveRecipient answers.  Schlussel's answer is the recipient's channels at
\* that moment (both off also stands for an account it does not know), and
\* materializedAt is read right after it.
LookupAnswered(w, inApp, push) ==
  /\ worker[w].pc = "lookup"
  /\ worker' = [worker EXCEPT ![w].inApp = inApp, ![w].push = push, ![w].at = now,
                              ![w].pc = AfterLookup(inApp, push)]
  /\ UNCHANGED <<now, tables, intake, request>>

\* The lookup times out or Schlussel fails: processNext throws, the row keeps
\* its lease, and nothing retries it before that lease has run out.  It may
\* fail every time: attempts are not counted.
LookupFailed(w) ==
  /\ worker[w].pc = "lookup"
  /\ worker' = [worker EXCEPT ![w] = IdleWorker]
  /\ UNCHANGED <<now, tables, intake, request>>

\* listActiveSubscriptions, read before the write transaction opens.
ListSubscriptions(w) ==
  /\ worker[w].pc = "list"
  /\ worker' = [worker EXCEPT
                  ![w].pc = "write",
                  ![w].listed = {s \in subs : Owner[s] = Recipient[worker[w].payload]}]
  /\ UNCHANGED <<now, tables, intake, request>>

MutNoteUpsert(w) ==
  LET n == <<worker[w].event, Recipient[worker[w].payload]>>
  IN  IF worker[w].inApp
      THEN /\ notes' = [notes EXCEPT ![n] = "unread"]
           /\ created' = created \cup {n}
      ELSE UNCHANGED <<notes, created>>

MutDeliveryKeySwapped(w) ==
  deliveries' = deliveries \cup {<<s, worker[w].event>> : s \in worker[w].listed}

\* The rows one materialization inserts; the unique keys make both inserts
\* no-ops for rows that exist.
InsertNote(w) ==
  LET n == <<worker[w].event, Recipient[worker[w].payload]>>
  IN  IF worker[w].inApp /\ notes[n] = "none"
      THEN /\ notes' = [notes EXCEPT ![n] = "unread"]
           /\ created' = created \cup {n}
      ELSE UNCHANGED <<notes, created>>

InsertDeliveries(w) ==
  deliveries' = deliveries \cup {<<worker[w].event, s>> : s \in worker[w].listed}

\* materializeNotification by a claim that is no longer current.
WriteStale(w) ==
  /\ worker[w].pc = "write"
  /\ ~Fence(worker[w].event, worker[w].lease, worker[w].at)
  /\ worker' = [worker EXCEPT ![w] = IdleWorker]
  /\ UNCHANGED <<now, tables, intake, request>>

\* materializeNotification: one fenced transaction.  Its arguments are dead
\* after it.
Write(w) ==
  /\ worker[w].pc = "write"
  /\ Fence(worker[w].event, worker[w].lease, worker[w].at)
  /\ IF Tombstoned(Recipient[inbox[worker[w].event].payload])
     THEN /\ inbox' = [inbox EXCEPT ![worker[w].event] = AbsentRow]
          /\ UNCHANGED <<notes, created, deliveries>>
     ELSE /\ InsertNote(w)
          /\ InsertDeliveries(w)
          /\ UNCHANGED inbox
  /\ worker' = [worker EXCEPT ![w].pc = "finish", ![w].at = 0, ![w].listed = {}]
  /\ UNCHANGED <<now, subs, users, jobs, tombstone, intake, request>>

\* markInboxProcessed, fenced with a clock read just before it; a completion
\* that comes too late changes no row.
Finish(w) ==
  /\ worker[w].pc = "finish"
  /\ inbox' = IF Fence(worker[w].event, worker[w].lease, now)
              THEN [inbox EXCEPT ![worker[w].event].status = "processed",
                                 ![worker[w].event].leaseId = NoLease,
                                 ![worker[w].event].leaseUntil = 0]
              ELSE inbox
  /\ worker' = [worker EXCEPT ![w] = IdleWorker]
  /\ UNCHANGED <<now, notes, created, subs, deliveries, users, jobs, tombstone,
                 intake, request>>

\* The process dies, or a statement throws, between two steps of a claim.
Crash(w) ==
  /\ worker[w].pc # "idle"
  /\ worker' = [worker EXCEPT ![w] = IdleWorker]
  /\ UNCHANGED <<now, tables, intake, request>>

----------------------------------------------------------------------------
(* The notification API *)

\* requireAuth with onUserSeen: one transaction refuses a tombstoned account
\* or mirrors the user.
Authenticate(u) ==
  /\ ~Tombstoned(u)
  /\ users' = users \cup {u}
  /\ request' = request \cup {u}
  /\ UNCHANGED <<now, inbox, notes, created, subs, deliveries, jobs, tombstone,
                 worker, intake>>

\* One of the requests of u is answered; it may not be the only one.
ApiReply(u) ==
  /\ u \in request
  /\ request' \in {request, request \ {u}}
  /\ UNCHANGED <<now, inbox, created, subs, deliveries, users, jobs, tombstone,
                 worker, intake>>

MarkRead(u, e) ==
  /\ ApiReply(u)
  /\ notes' = [notes EXCEPT ![<<e, u>>] = IF @ = "unread" THEN "read" ELSE @]

MarkAllRead(u) ==
  /\ ApiReply(u)
  /\ notes' = [n \in Events \X Users |->
                 IF n[2] = u /\ notes[n] = "unread" THEN "read" ELSE notes[n]]

DeleteNotification(u, e) ==
  /\ ApiReply(u)
  /\ notes' = [notes EXCEPT ![<<e, u>>] = "none"]

DeleteAllNotifications(u) ==
  /\ ApiReply(u)
  /\ notes' = [n \in Events \X Users |-> IF n[2] = u THEN "none" ELSE notes[n]]

----------------------------------------------------------------------------
(* Account deletion and the push side *)

MutReplyByJobOnly(j, u) ==
  IF jobs[j] = NoUser THEN "completed"
  ELSE IF jobs[j] = u THEN "duplicate" ELSE "conflict"

\* The reply of the handler: by job id first, then by tombstone.
DeletionReply(j, u) ==
  IF jobs[j] # NoUser THEN IF jobs[j] = u THEN "duplicate" ELSE "conflict"
  ELSE IF Tombstoned(u) THEN IF tombstone[u] = j THEN "duplicate" ELSE "conflict"
  ELSE "completed"

\* One transaction records job and tombstone and purges every table.  The
\* other two replies change nothing.
DeleteAccount(j, u) ==
  /\ DeletionReply(j, u) = "completed"
  /\ jobs' = [jobs EXCEPT ![j] = u]
  /\ tombstone' = [tombstone EXCEPT ![u] = j]
  /\ deliveries' = {d \in deliveries : Owner[d[2]] # u}
  /\ subs' = {s \in subs : Owner[s] # u}
  /\ notes' = [n \in Events \X Users |-> IF n[2] = u THEN "none" ELSE notes[n]]
  /\ inbox' = [e \in Events |-> IF RowOf(e, u) THEN AbsentRow ELSE inbox[e]]
  /\ users' = users \ {u}
  /\ UNCHANGED <<now, created, worker, intake, request>>

\* What the push side does to the tables of this module: a subscription row
\* appears (PUT, whose write checks no tombstone) or goes (DELETE, a revoked
\* session, maintenance), and a settled delivery past retention is purged.
\* Coarser than module Push: here any row may come, go and come back.
Subscribe(s) ==
  /\ s \notin subs
  /\ subs' = subs \cup {s}
  /\ UNCHANGED <<now, inbox, notes, created, deliveries, users, jobs, tombstone,
                 worker, intake, request>>

Unsubscribe(s) ==
  /\ s \in subs
  /\ subs' = subs \ {s}
  /\ UNCHANGED <<now, inbox, notes, created, deliveries, users, jobs, tombstone,
                 worker, intake, request>>

PurgeDelivery(d) ==
  /\ deliveries' = deliveries \ {d}
  /\ UNCHANGED <<now, inbox, notes, created, subs, users, jobs, tombstone,
                 worker, intake, request>>

----------------------------------------------------------------------------
WorkerStep(w) ==
  \/ \E e \in Events, l \in LeaseIds : Claim(w, e, l)
  \/ \E inApp, push \in BOOLEAN : LookupAnswered(w, inApp, push)
  \/ ListSubscriptions(w)
  \/ WriteStale(w)
  \/ Write(w)
  \/ Finish(w)

WorkerFailure(w) == LookupFailed(w) \/ Crash(w)

Intake == \E e \in Events, p \in Payloads : ReceiveEvent(e, p) \/ AcceptEvent(e, p)

Api == \E u \in Clients :
  \/ Authenticate(u)
  \/ \E e \in Events : MarkRead(u, e) \/ DeleteNotification(u, e)
  \/ MarkAllRead(u)
  \/ DeleteAllNotifications(u)

PushSide ==
  \/ \E s \in Subscriptions : Subscribe(s) \/ Unsubscribe(s)
  \/ \E d \in deliveries : PurgeDelivery(d)

Deletion == \E j \in Jobs, u \in Users : DeleteAccount(j, u)

Next == \/ Tick
        \/ Intake
        \/ \E w \in Workers : WorkerStep(w) \/ WorkerFailure(w)
        \/ Api
        \/ PushSide
        \/ Deletion

Spec == Init /\ [][Next]_vars

\* The interval timer keeps calling processNext, every await of it settles,
\* and time passes.  Nothing is assumed of producers and users, nor of what a
\* lookup settles with: any claim, also the last, may fail or die.
FairSpec == /\ Spec
            /\ WF_vars(Tick)
            /\ \A w \in Workers : WF_vars(WorkerStep(w))

----------------------------------------------------------------------------
(* Properties *)

\* Types of the tables and of the workers' local variables.
TypeOK ==
  /\ now \in Nat
  /\ inbox \in [Events -> Row]
  /\ notes \in [Events \X Users -> NoteState]
  /\ created \subseteq Events \X Users
  /\ subs \subseteq Subscriptions
  /\ deliveries \subseteq Events \X Subscriptions
  /\ users \subseteq Users
  /\ jobs \in [Jobs -> Users \cup {NoUser}]
  /\ tombstone \in [Users -> Jobs \cup {NoJob}]
  /\ worker \in [Workers -> WorkerState]
  /\ intake \subseteq Events \X Payloads
  /\ request \subseteq Users

Present(n) == notes[n] # "none"

Holds(w, e) == /\ worker[w].pc # "idle"
               /\ inbox[e].status = "processing"
               /\ worker[w].lease = inbox[e].leaseId

\* An erased account stays erased: whatever was in flight when its deletion
\* committed - an event past its first tombstone check, a worker holding a
\* claim with subscriptions already listed, an authenticated request - none of
\* the purged tables gets a row of that user back (docs/account-deletion-saga.md).
\* push_subscriptions is left to module Push.
NoDataForDeleted ==
  \A u \in Users : Tombstoned(u) =>
    /\ \A e \in Events : ~RowOf(e, u) /\ ~Present(<<e, u>>)
    /\ \A d \in deliveries : Owner[d[2]] # u
    /\ u \notin users

\* Lease ids do fence: two workers never both hold the current claim of an
\* event, and the one that does still works on the payload of the row, even
\* when the row was erased and its identity accepted again for somebody else.
OneHolder ==
  \A w \in Workers, e \in Events : Holds(w, e) =>
    /\ worker[w].event = e
    /\ worker[w].payload = inbox[e].payload
    /\ \A v \in Workers : Holds(v, e) => v = w

\* Every stored notification, and every push delivery, belongs to the
\* recipient named by the accepted payload of its event: a conflicting replay
\* or a stale worker never notifies a second user.
NotifiedIsRecipient ==
  /\ \A e \in Events, u \in Users : Present(<<e, u>>) => RowOf(e, u)
  /\ \A d \in deliveries : RowOf(d[1], Owner[d[2]])

\* A claim that can still complete its event has inserted the notification its
\* lookup asked for: no event is completed while its notification was skipped.
NoSilentLoss ==
  \A w \in Workers, e \in Events :
    (Holds(w, e) /\ worker[w].pc = "finish" /\ worker[w].inApp)
      => <<e, Recipient[inbox[e].payload]>> \in created

\* Deletion jobs and tombstones name each other one to one, so an exact replay
\* of a completed job is always answered as a duplicate and never conflicts.
DeletionIdentity ==
  \A j \in Jobs, u \in Users :
    /\ tombstone[u] = j <=> jobs[j] = u
    /\ tombstone[u] = j => DeletionReply(j, u) = "duplicate"

\* Once an event is processed, its row only goes with its recipient's account,
\* and no late worker adds a notification or a delivery for it: nothing is
\* delivered retroactively.
ProcessedIsFinal ==
  [][\A e \in Events : inbox[e].status = "processed" =>
       /\ inbox'[e] = inbox[e] \/ (inbox'[e] = AbsentRow /\ Deletion)
       /\ \A u \in Users : notes[<<e, u>>] = "none" => notes'[<<e, u>>] = "none"
       /\ \A s \in Subscriptions : <<e, s>> \in deliveries' => <<e, s>> \in deliveries
    ]_vars

\* A retried materialization never turns a read notification unread again.
ReadStaysRead ==
  [][\A n \in Events \X Users : notes[n] = "read" => notes'[n] # "unread"]_vars

\* A retry is idempotent in database state (README.md:59-62): it does not insert
\* a notification its first run inserted and the user has since deleted.  The
\* unique key only sees the rows that are still there, so the code does not
\* guarantee this; run inbox_retry shows how it fails.
RetryIsIdempotent ==
  [][\A n \in created : notes[n] = "none" => notes'[n] = "none"]_vars

Open(e) == inbox[e].status \in {"pending", "processing"}

\* The last claim of e failed or died, so late that its lease ends beyond the
\* modelled span of time.
Abandoned(e) == /\ inbox[e].status = "processing"
                /\ inbox[e].leaseUntil > MaxTime
                /\ \A w \in Workers : ~Holds(w, e)

\* No accepted event is left behind: after a failed lookup, a crash or a
\* completion that came too late it is claimed again when its lease has run
\* out, so it is processed or erased with its account, unless its claims fail
\* to the last one.  A recipient whose lookups always fail is never processed:
\* the code retries without end (processor.ts:50), and in a model of finitely
\* many ticks such an event ends abandoned.
EventuallySettled == \A e \in Events : Open(e) ~> (~Open(e) \/ Abandoned(e))
=============================================================================
