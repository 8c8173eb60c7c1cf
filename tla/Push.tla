-------------------------------- MODULE Push --------------------------------
(***************************************************************************)
(* Browser push: the tables push_subscriptions and push_deliveries, the    *)
(* routes that register and remove subscriptions (backend/src/app.ts), the *)
(* retry worker (backend/src/push-worker.ts), the maintenance job of       *)
(* backend/src/index.ts, the transactions of push-repository.ts, and the   *)
(* inbox worker as far as it writes deliveries.                            *)
(*                                                                         *)
(* Each SQLite transaction is one step; each await separates two steps.    *)
(***************************************************************************)
EXTENDS Naturals, FiniteSets

CONSTANTS
  Users,
  Recipient,      \* [Events -> Users]: what module Inbox guarantees of events
  Events,
  Sessions,
  Clients,        \* the sessions whose browser registers subscriptions
  SessionUser,    \* [Sessions -> Users]
  Endpoints,
  SubIds,         \* UUIDs of subscription rows, never used twice
  Owner,          \* [SubIds -> Users], fixed when a row is inserted
  Endpoint,       \* [SubIds -> Endpoints], fixed when a row is inserted
  Stored,         \* rows that may be in the database at the start
  Workers,
  LeaseIds,
  LeaseTime,      \* GLOCKE_PUSH_WORKER_LEASE_MS, in ticks
  MaxAttempts,    \* GLOCKE_PUSH_MAX_ATTEMPTS
  Delays,         \* the backoff and Retry-After delays that occur
  Retention,      \* GLOCKE_PUSH_RETENTION_MS, in ticks
  MaxPerUser,     \* GLOCKE_PUSH_MAX_SUBSCRIPTIONS_PER_USER
  MaxTime,        \* bound: the modelled span of the wall clock
  MaxPuts,        \* bound: different PUT requests under way
  NoLease, NoSession, NoDelivery

ASSUME PushAssumption ==
  /\ Recipient \in [Events -> Users]
  /\ SessionUser \in [Sessions -> Users]
  /\ Owner \in [SubIds -> Users]
  /\ Endpoint \in [SubIds -> Endpoints]
  /\ Stored \subseteq SubIds
  /\ Clients \subseteq Sessions
  /\ LeaseTime \in Nat \ {0}
  /\ MaxAttempts \in Nat \ {0}
  /\ Delays \subseteq Nat
  /\ Retention \in Nat
  /\ MaxPerUser \in Nat
  /\ MaxTime \in Nat
  /\ MaxPuts \in Nat
  /\ NoLease \notin LeaseIds
  /\ NoSession \notin Sessions
  /\ NoDelivery \notin Events \X SubIds

\* The unique index on the endpoint (db/schema.ts) and the limit held so far.
ASSUME StoredAssumption ==
  /\ IsFiniteSet(Stored)
  /\ \A i, j \in Stored : Endpoint[i] = Endpoint[j] => i = j
  /\ \A u \in Users : Cardinality({i \in Stored : Owner[i] = u}) <= MaxPerUser

VARIABLES
  now,            \* the wall clock all processes read
  subs,           \* push_subscriptions, by id
  deliveries,     \* push_deliveries, by the unique (event, subscription) key
  erased,         \* the users with a tombstone
  accounts,       \* external: the users Schlussel knows
  open,           \* the events whose inbox row is not completed
  listed,         \* deliveries the inbox worker is about to insert
  putting,        \* the PUT requests between their authentication and their write
  worker,         \* the local variables of each deliverOne call
  upkeep,         \* the local variables of the maintenance job
  accepted,       \* history: the deliveries a push service accepted, at most two counted
  doubtful        \* history: the deliveries claimed or inserted once more, or
                  \* accepted without the worker learning it

vars == <<now, subs, deliveries, erased, accounts, open, listed, putting, worker,
          upkeep, accepted, doubtful>>

----------------------------------------------------------------------------
(* Rows and local states *)

Never == MaxTime + 1

\* A row is usable until its expiration; one tagged with an old VAPID key is
\* not usable at all.
SubRow == [state   : {"unused", "live", "gone"},
           session : Sessions \cup {NoSession},
           until   : Nat]

StoredRow == [state : {"live"}, session : Sessions, until : {0, Never}]

NoSub(s) == [state |-> s, session |-> NoSession, until |-> 0]

DeliveryState == {"absent", "pending", "processing", "delivered", "suppressed", "permanent"}

Delivery == [state      : DeliveryState,
             attempts   : Nat,
             nextAt     : Nat,
             lease      : LeaseIds \cup {NoLease},
             leaseUntil : Nat,
             settledAt  : Nat]

AbsentDelivery == [state |-> "absent", attempts |-> 0, nextAt |-> 0,
                   lease |-> NoLease, leaseUntil |-> 0, settledAt |-> 0]

Keys == Events \X SubIds

PC == {"idle", "find", "lookup", "send",
       "suppress", "drop", "delivered", "retry", "permanent"}

WorkerState == [pc       : PC,
                key      : Keys \cup {NoDelivery},
                lease    : LeaseIds \cup {NoLease},
                attempts : Nat,
                at       : Nat]

IdleWorker == [pc |-> "idle", key |-> NoDelivery, lease |-> NoLease,
               attempts |-> 0, at |-> 0]

UpkeepState == [pc : {"idle", "resolve", "expire", "purge"},
                todo : SUBSET Users, existing : SUBSET Users, at : Nat]

IdleUpkeep == [pc |-> "idle", todo |-> {}, existing |-> {}, at |-> 0]

Live(s) == subs[s].state = "live"

Unsettled(d) == deliveries[d].state \in {"pending", "processing"}

Settled(d) == deliveries[d].state \in {"delivered", "suppressed", "permanent"}

----------------------------------------------------------------------------
(* Shared writes *)

MutSettlePendingOnly(d, gone) == d[2] \in gone /\ deliveries[d].state = "pending"

MutSettleAll(d, gone) == d[2] \in gone /\ deliveries[d].state # "absent"

\* The deliveries settleDeliveriesForSubscription settles for removed rows.
SettledByRemoval(d, gone) == d[2] \in gone /\ Unsettled(d)

\* Removal of subscriptions, settling their deliveries in the same transaction.
Remove(gone) ==
  /\ subs' = [s \in SubIds |-> IF s \in gone THEN NoSub("gone") ELSE subs[s]]
  /\ deliveries' = [d \in Keys |->
       IF SettledByRemoval(d, gone)
       THEN [deliveries[d] EXCEPT !.state = "permanent", !.settledAt = now,
                                  !.lease = NoLease, !.leaseUntil = 0]
       ELSE deliveries[d]]

----------------------------------------------------------------------------
(* Initial states: subscriptions of an earlier release, tagged with the     *)
(* current VAPID key or with an old one.                                   *)

Init ==
  /\ now = 0
  /\ subs \in {f \in [SubIds -> {NoSub("unused")} \cup StoredRow] :
                 \A i \in SubIds : f[i].state = "live" =>
                   i \in Stored /\ SessionUser[f[i].session] = Owner[i]}
  /\ deliveries = [d \in Keys |-> AbsentDelivery]
  /\ erased = {}
  /\ accounts = Users
  /\ open = Events
  /\ listed = {}
  /\ putting = {}
  /\ worker = [w \in Workers |-> IdleWorker]
  /\ upkeep = IdleUpkeep
  /\ accepted = [d \in Keys |-> 0]
  /\ doubtful = {}

Tick ==
  /\ now < MaxTime
  /\ now' = now + 1
  /\ UNCHANGED <<subs, deliveries, erased, accounts, open, listed, putting, worker,
                 upkeep, accepted, doubtful>>

----------------------------------------------------------------------------
(* The inbox worker: one claim at a time, seen from this side *)

\* listActiveSubscriptions for an event that asks for browser push.
ListFor(e) ==
  /\ e \in open /\ listed = {}
  /\ listed' = {<<e, s>> : s \in {i \in SubIds : Live(i) /\ Owner[i] = Recipient[e]}}
  /\ UNCHANGED <<now, subs, deliveries, erased, accounts, open, putting, worker,
                 upkeep, accepted, doubtful>>

\* The fenced transaction.  The rows of an erased recipient's events are gone,
\* so its fence fails; existing deliveries are left as they are.
Materialize ==
  LET new == {d \in listed : d[1] \in open /\ Recipient[d[1]] \notin erased
                               /\ deliveries[d].state = "absent"}
  IN  /\ listed # {}
      /\ listed' = {}
      /\ deliveries' = [d \in Keys |->
           IF d \in new THEN [AbsentDelivery EXCEPT !.state = "pending"] ELSE deliveries[d]]
      /\ doubtful' = doubtful \cup {d \in new : accepted[d] > 0}
      /\ UNCHANGED <<now, subs, erased, accounts, open, putting, worker, upkeep, accepted>>

\* markInboxProcessed, or the end of the last retry.
CompleteEvent(e) ==
  /\ e \in open /\ listed = {}
  /\ open' = open \ {e}
  /\ UNCHANGED <<now, subs, deliveries, erased, accounts, listed, putting, worker,
                 upkeep, accepted, doubtful>>

----------------------------------------------------------------------------
(* Subscription routes *)

\* PUT passes the authentication, which refuses an erased user, and waits for
\* its body: an endpoint and an expiration.  Equal requests are one element.
ReceivePut(c, p, until) ==
  /\ Cardinality(putting) < MaxPuts
  /\ SessionUser[c] \notin erased
  /\ putting' = putting \cup {[session |-> c, endpoint |-> p, until |-> until]}
  /\ UNCHANGED <<now, subs, deliveries, erased, accounts, open, listed, worker,
                 upkeep, accepted, doubtful>>

\* The end of a PUT; an equal one may still be under way.
PutEnds(r) == r \in putting /\ putting' \in {putting, putting \ {r}}

Registered(p) == {s \in SubIds : Live(s) /\ Endpoint[s] = p}

Active(u) == {s \in SubIds : Live(s) /\ Owner[s] = u}

MutUnderLimit(u) == Cardinality(Active(u)) <= MaxPerUser

UnderLimit(u) == Cardinality(Active(u)) < MaxPerUser

\* A body that is still valid: the user's registered row takes the new session
\* and expiration; a free endpoint gets a new row below the limit.
PutSubscription(r) ==
  LET u == SessionUser[r.session]
      row == [state |-> "live", session |-> r.session, until |-> r.until]
  IN  /\ PutEnds(r)
      /\ r.until > now
      /\ \/ \E s \in Registered(r.endpoint) :
              Owner[s] = u /\ subs' = [subs EXCEPT ![s] = row]
         \/ /\ Registered(r.endpoint) = {} /\ UnderLimit(u)
            /\ \E s \in SubIds : /\ subs[s].state = "unused"
                                 /\ Owner[s] = u /\ Endpoint[s] = r.endpoint
                                 /\ subs' = [subs EXCEPT ![s] = row]
      /\ UNCHANGED <<now, deliveries, erased, accounts, open, listed, worker, upkeep,
                     accepted, doubtful>>

\* A body that never arrives or is invalid, an endpoint of another account
\* (conflict), one too many (limit-exceeded): nothing is written.
PutRefused(r) ==
  /\ PutEnds(r)
  /\ UNCHANGED <<now, subs, deliveries, erased, accounts, open, listed, worker, upkeep,
                 accepted, doubtful>>

\* DELETE by the session that registered the row.
DeleteBoundSubscription(c, s) ==
  /\ Live(s) /\ Owner[s] = SessionUser[c] /\ subs[s].session = c
  /\ Remove({s})
  /\ UNCHANGED <<now, erased, accounts, open, listed, putting, worker, upkeep,
                 accepted, doubtful>>

\* The schlussel.push.session_revoked event.
RevokeSession(c) ==
  LET gone == {s \in SubIds : Live(s) /\ Owner[s] = SessionUser[c] /\ subs[s].session = c}
  IN  /\ gone # {}
      /\ Remove(gone)
      /\ UNCHANGED <<now, erased, accounts, open, listed, putting, worker, upkeep,
                     accepted, doubtful>>

\* The push tables' part of account deletion; Schlussel drops the account too.
DeleteAccount(u) ==
  /\ u \notin erased
  /\ erased' = erased \cup {u}
  /\ accounts' = accounts \ {u}
  /\ deliveries' = [d \in Keys |-> IF Owner[d[2]] = u THEN AbsentDelivery ELSE deliveries[d]]
  /\ subs' = [s \in SubIds |-> IF Live(s) /\ Owner[s] = u THEN NoSub("gone") ELSE subs[s]]
  /\ UNCHANGED <<now, open, listed, putting, worker, upkeep, accepted, doubtful>>

\* External: an account removed in Schlussel without a deletion job.
DropAccount(u) ==
  /\ u \in accounts
  /\ accounts' = accounts \ {u}
  /\ UNCHANGED <<now, subs, deliveries, erased, open, listed, putting, worker, upkeep,
                 accepted, doubtful>>

----------------------------------------------------------------------------
(* The push worker: deliverOne *)

FreshLease(l) == /\ \A d \in Keys : deliveries[d].lease # l
                 /\ \A w \in Workers : worker[w].lease # l

LeaseExpired(d) == deliveries[d].leaseUntil <= now

MutClaimableUnleased(d) == Unsettled(d) /\ deliveries[d].nextAt <= now

MutClaimablePending(d) == deliveries[d].state = "pending" /\ deliveries[d].nextAt <= now

Claimable(d) ==
  /\ \/ deliveries[d].state = "pending"
     \/ deliveries[d].state = "processing" /\ LeaseExpired(d)
  /\ deliveries[d].nextAt <= now

ClaimPendingDelivery(w, d, l) ==
  /\ worker[w].pc = "idle"
  /\ Claimable(d)
  /\ FreshLease(l)
  /\ deliveries' = [deliveries EXCEPT ![d].state = "processing", ![d].lease = l,
                                      ![d].leaseUntil = now + LeaseTime]
  /\ worker' = [worker EXCEPT ![w] = [pc |-> "find", key |-> d, lease |-> l,
                                      attempts |-> deliveries[d].attempts, at |-> now]]
  /\ doubtful' = IF deliveries[d].state = "processing" /\ LeaseExpired(d)
               THEN doubtful \cup {d} ELSE doubtful
  /\ UNCHANGED <<now, subs, erased, accounts, open, listed, putting, upkeep, accepted>>

GoTo(w, pc) ==
  /\ worker' = [worker EXCEPT ![w].pc = pc]
  /\ UNCHANGED <<now, subs, deliveries, erased, accounts, open, listed, putting, upkeep>>

\* findSubscriptionById: a missing row suppresses the delivery, an unusable one
\* is removed.
FindSubscription(w) ==
  LET s == worker[w].key[2]
  IN  /\ worker[w].pc = "find"
      /\ GoTo(w, IF ~Live(s) THEN "suppress"
                 ELSE IF subs[s].until <= worker[w].at THEN "drop" ELSE "lookup")
      /\ UNCHANGED <<accepted, doubtful>>

\* resolveRecipient: browser push is on, is off or the account is unknown, or
\* the lookup fails.
LookupRecipient(w, pc) ==
  /\ worker[w].pc = "lookup"
  /\ pc \in {"send", "suppress", "retry"}
  /\ GoTo(w, pc)
  /\ UNCHANGED <<accepted, doubtful>>

\* External: the push service accepts the message of d.
Accept(d) == accepted' = [accepted EXCEPT ![d] = IF @ < 2 THEN @ + 1 ELSE @]

\* adapter.send: 2xx, 404 or 410, another permanent status, or anything that is
\* worth a retry.  Of the latter, a timeout and a network error do not tell
\* whether the push service has accepted the message.
Send(w, pc) ==
  /\ worker[w].pc = "send"
  /\ pc \in {"delivered", "drop", "permanent", "retry"}
  /\ GoTo(w, pc)
  /\ \/ pc = "delivered" /\ Accept(worker[w].key) /\ UNCHANGED doubtful
     \/ pc = "retry" /\ Accept(worker[w].key) /\ doubtful' = doubtful \cup {worker[w].key}
     \/ pc # "delivered" /\ UNCHANGED <<accepted, doubtful>>

\* deleteSubscription: not fenced, and without effect if the row is gone.
DropSubscription(w) ==
  LET s == worker[w].key[2]
  IN  /\ worker[w].pc = "drop"
      /\ IF Live(s) THEN Remove({s}) ELSE UNCHANGED <<subs, deliveries>>
      /\ worker' = [worker EXCEPT ![w] = IdleWorker]
      /\ UNCHANGED <<now, erased, accounts, open, listed, putting, upkeep, accepted, doubtful>>

MutNoFence(w) == deliveries[worker[w].key].state # "absent"

MutFenceByState(w) == deliveries[worker[w].key].state = "processing"

\* The WHERE clause of the four settlements: the lease id alone.
Fenced(w) == deliveries[worker[w].key].lease = worker[w].lease

MutSettlement(w, delay) ==
  [deliveries[worker[w].key] EXCEPT !.state = worker[w].pc, !.lease = NoLease,
                                    !.leaseUntil = 0, !.nextAt = now + delay]

MutLastAttempt(n) == n > MaxAttempts

LastAttempt(n) == n >= MaxAttempts

\* markSuppressed, markDelivered, markPermanent and markRetry.
Settlement(w, delay) ==
  LET row  == deliveries[worker[w].key]
      done == [row EXCEPT !.lease = NoLease, !.leaseUntil = 0, !.settledAt = now]
      n    == worker[w].attempts + 1
  IN  CASE worker[w].pc = "suppress"  -> [done EXCEPT !.state = "suppressed"]
        [] worker[w].pc = "delivered" -> [done EXCEPT !.state = "delivered"]
        [] worker[w].pc = "permanent" -> [done EXCEPT !.state = "permanent", !.attempts = n]
        [] worker[w].pc = "retry" ->
             IF LastAttempt(n)
             THEN [done EXCEPT !.state = "permanent", !.attempts = n]
             ELSE [row EXCEPT !.state = "pending", !.attempts = n, !.lease = NoLease,
                              !.leaseUntil = 0, !.nextAt = now + delay]

\* A settlement that lost its lease changes no row.  Bound: no retry is put off
\* beyond the modelled span of time.
Settle(w, delay) ==
  /\ worker[w].pc \in {"suppress", "delivered", "permanent", "retry"}
  /\ worker[w].pc = "retry" => now + delay <= MaxTime
  /\ deliveries' = IF Fenced(w)
                   THEN [deliveries EXCEPT ![worker[w].key] = Settlement(w, delay)]
                   ELSE deliveries
  /\ worker' = [worker EXCEPT ![w] = IdleWorker]
  /\ UNCHANGED <<now, subs, erased, accounts, open, listed, putting, upkeep,
                 accepted, doubtful>>

\* The process dies, or a statement throws.  Bound: only while the lease can
\* still run out inside the modelled span of time.
Crash(w) ==
  /\ worker[w].pc # "idle"
  /\ Fenced(w) => deliveries[worker[w].key].leaseUntil <= MaxTime
  /\ worker' = [worker EXCEPT ![w] = IdleWorker]
  /\ UNCHANGED <<now, subs, deliveries, erased, accounts, open, listed, putting,
                 upkeep, accepted, doubtful>>

----------------------------------------------------------------------------
(* Maintenance: runReconciliation *)

\* listAllSubscriptions.
StartUpkeep ==
  /\ upkeep.pc = "idle"
  /\ upkeep' = [IdleUpkeep EXCEPT !.pc = "resolve",
                                  !.todo = {Owner[s] : s \in {i \in SubIds : Live(i)}}]
  /\ UNCHANGED <<now, subs, deliveries, erased, accounts, open, listed, putting, worker,
                 accepted, doubtful>>

\* One lookup; the account exists or does not.
ResolveUser(u) ==
  /\ upkeep.pc = "resolve" /\ u \in upkeep.todo
  /\ upkeep' = [upkeep EXCEPT !.todo = @ \ {u},
                  !.existing = IF u \in accounts THEN @ \cup {u} ELSE @]
  /\ UNCHANGED <<now, subs, deliveries, erased, accounts, open, listed, putting, worker,
                 accepted, doubtful>>

\* A failed lookup ends the run.
UpkeepFails ==
  /\ upkeep.pc = "resolve" /\ upkeep.todo # {}
  /\ upkeep' = IdleUpkeep
  /\ UNCHANGED <<now, subs, deliveries, erased, accounts, open, listed, putting, worker,
                 accepted, doubtful>>

MutOrphaned(existing) ==
  {s \in SubIds : existing # {} /\ Live(s) /\ Owner[s] \notin existing}

Orphaned(existing) == {s \in SubIds : Live(s) /\ Owner[s] \notin existing}

\* deleteOrphanedSubscriptions: every row of a user not found to exist.
DeleteOrphaned ==
  /\ upkeep.pc = "resolve" /\ upkeep.todo = {}
  /\ Remove(Orphaned(upkeep.existing))
  /\ upkeep' = [IdleUpkeep EXCEPT !.pc = "expire"]
  /\ UNCHANGED <<now, erased, accounts, open, listed, putting, worker, accepted, doubtful>>

DeleteExpiredOrRotated ==
  /\ upkeep.pc = "expire"
  /\ Remove({s \in SubIds : Live(s) /\ subs[s].until <= now})
  /\ upkeep' = [upkeep EXCEPT !.pc = "purge", !.at = now]
  /\ UNCHANGED <<now, erased, accounts, open, listed, putting, worker, accepted, doubtful>>

MutPurgeable(d) == /\ deliveries[d].state # "absent"
                   /\ deliveries[d].settledAt + Retention <= upkeep.at

Purgeable(d) == Settled(d) /\ deliveries[d].settledAt + Retention <= upkeep.at

PurgeTerminalDeliveries ==
  /\ upkeep.pc = "purge"
  /\ deliveries' = [d \in Keys |-> IF Purgeable(d) THEN AbsentDelivery ELSE deliveries[d]]
  /\ upkeep' = IdleUpkeep
  /\ UNCHANGED <<now, subs, erased, accounts, open, listed, putting, worker, accepted,
                 doubtful>>

----------------------------------------------------------------------------
WorkerStep(w) ==
  \/ \E d \in Keys, l \in LeaseIds : ClaimPendingDelivery(w, d, l)
  \/ FindSubscription(w)
  \/ \E pc \in PC : LookupRecipient(w, pc) \/ Send(w, pc)
  \/ DropSubscription(w)
  \/ \E delay \in Delays : Settle(w, delay)

InboxSide == \/ \E e \in Events : ListFor(e) \/ CompleteEvent(e)
             \/ Materialize

Routes ==
  \/ \E c \in Clients, p \in Endpoints, until \in {1, Never} : ReceivePut(c, p, until)
  \/ \E r \in putting : PutSubscription(r) \/ PutRefused(r)
  \/ \E c \in Sessions : RevokeSession(c) \/ \E s \in SubIds : DeleteBoundSubscription(c, s)

Accounts == \E u \in Users : DeleteAccount(u) \/ DropAccount(u)

UpkeepStep == \/ StartUpkeep
              \/ \E u \in Users : ResolveUser(u)
              \/ DeleteOrphaned
              \/ DeleteExpiredOrRotated
              \/ PurgeTerminalDeliveries

Next == \/ Tick
        \/ InboxSide
        \/ Routes
        \/ Accounts
        \/ UpkeepStep \/ UpkeepFails
        \/ \E w \in Workers : WorkerStep(w) \/ Crash(w)

Spec == Init /\ [][Next]_vars

\* The timer keeps calling deliverOne, its awaits settle, and time passes.  A
\* lookup has a timeout; a send has one of an idle socket only, so it is assumed
\* that no push service keeps a connection busy for ever.  Nothing else is
\* assumed of push services, users, Schlussel or maintenance.
FairSpec == /\ Spec
            /\ WF_vars(Tick)
            /\ \A w \in Workers : WF_vars(WorkerStep(w))

----------------------------------------------------------------------------
(* Properties *)

\* Types of the tables and of the local variables of worker and maintenance.
TypeOK ==
  /\ now \in Nat
  /\ subs \in [SubIds -> SubRow]
  /\ deliveries \in [Keys -> Delivery]
  /\ erased \subseteq Users
  /\ accounts \subseteq Users
  /\ open \subseteq Events
  /\ listed \subseteq Keys
  /\ putting \subseteq [session : Sessions, endpoint : Endpoints, until : Nat]
  /\ worker \in [Workers -> WorkerState]
  /\ upkeep \in UpkeepState
  /\ accepted \in [Keys -> 0..2]
  /\ doubtful \subseteq Keys

Holds(w) == worker[w].pc # "idle" /\ Fenced(w)

\* The retry counter loses no attempt: whoever can still settle a delivery read
\* the counter its row has, and only one claim can (push-worker.ts counts on
\* from the value it read before the lookup and the send).
OneSettler ==
  \A w \in Workers : Holds(w) =>
    /\ deliveries[worker[w].key].state = "processing"
    /\ deliveries[worker[w].key].attempts = worker[w].attempts
    /\ \A v \in Workers : Holds(v) /\ worker[v].key = worker[w].key => v = w

\* Once a subscription is removed - by its user, a revoked session, a push
\* service, maintenance or account deletion - a claim that already passed its
\* subscription check can send at most this once more: its lease is gone, so its
\* outcome is ignored.
RemovalRevokesClaims ==
  \A w \in Workers :
    worker[w].pc \in {"lookup", "send", "delivered", "permanent", "retry"} /\ Holds(w)
      => Live(worker[w].key[2])

\* A settled delivery only goes by retention or with its account: a late
\* answer, a retry or the removal of its subscription never reopens or rewrites
\* it.
SettledIsFinal ==
  [][\A d \in Keys : Settled(d) =>
       \/ deliveries'[d] = deliveries[d]
       \/ deliveries'[d] = AbsentDelivery /\ (PurgeTerminalDeliveries \/ Accounts)]_vars

\* No push is repeated that the worker knows was accepted: the push service
\* accepts a delivery twice only if the first answer did not reach the worker, a
\* claim outlived its lease or died, or retention purged the delivery while its
\* event was still being retried.
PushedOnce == \A d \in Keys : accepted[d] > 1 => d \in doubtful

\* A delivery that is still owed is not purged: open rows go only with the
\* account (retention counts from settlement).
OwedUntilSettled ==
  [][\A d \in Keys : Unsettled(d) /\ deliveries'[d].state = "absent" => Accounts]_vars

\* No endpoint is registered twice, in particular not for two accounts, and no
\* user has more subscriptions than the limit, whichever PUTs overlap.
RegistrationsBounded ==
  /\ \A p \in Endpoints : Cardinality(Registered(p)) <= 1
  /\ \A u \in Users : Cardinality(Active(u)) <= MaxPerUser

\* Account deletion purges the browser subscriptions for good: "preventing
\* delayed valid input from restoring their data"
\* (docs/account-deletion-saga.md:9-11).  PUT checks the tombstone only before
\* it waits for its body, so run push_late_put violates this.
NoSubscriptionForErased == \A s \in SubIds : Live(s) => Owner[s] \notin erased

\* Reconciliation is for accounts deleted in Schlussel (index.ts:146-150): it
\* removes no subscription of an account that exists.  Rows registered after the
\* list was read belong to users nobody looked up, so run push_reconcile
\* violates this.
OnlyOrphansRemoved ==
  [][DeleteOrphaned => \A s \in SubIds : Live(s) /\ Owner[s] \in accounts => Live(s)']_vars

\* A subscription that a late PUT left to an erased account does not stay: if
\* maintenance gets through its lookups again and again, it is removed.
StraysSwept ==
  []<><<DeleteOrphaned>>_vars =>
    \A s \in SubIds : (Live(s) /\ Owner[s] \in erased) ~> ~Live(s)

\* Every queued delivery is eventually settled or goes with its account, across
\* crashes, lost leases, failed lookups, refusing push services and removed
\* subscriptions.
EventuallySettled == \A d \in Keys : Unsettled(d) ~> ~Unsettled(d)
=============================================================================
