# Glocke in TLA+

Glocke is a notification service: producers post signed events, a leased worker
turns them into in-app notifications and browser pushes, users read and delete
them, and account deletion erases a user for good. This directory models the
parts of it whose correctness depends on the order of things - transactions of
several actors on one SQLite file, leases, retries, crashes, deletions - checks
them with TLC and proves the central claims with TLAPS.

## 1. The system

| Part | Code (`backend/src` unless noted) | State | Operations |
| --- | --- | --- | --- |
| Event intake | `app.ts:121-213`, `repository.ts:70-90` | `inbox_events` | tombstone check, accept / duplicate / conflict |
| Inbox worker | `processor.ts`, `repository.ts:92-123, 207-259`, `index.ts:93-126` | `inbox_events`, `notifications`, `push_deliveries`; locals of `processNext` | claim, recipient lookup, list subscriptions, materialize, complete |
| Notification API | `app.ts:222-254`, `repository.ts:150-205` | `notifications`, `users` | list, count, read, read-all, delete, delete-all |
| Account deletion | `deletions.ts` | `deletion_jobs`, `user_tombstones`, all others | one purging transaction, idempotent by job |
| Push subscriptions | `app.ts:258-363, 170-175`, `push-repository.ts:87-142` | `push_subscriptions` | register, remove, remove by session |
| Push worker | `push-worker.ts`, `push-repository.ts:173-224` | `push_deliveries`; locals of `deliverOne` | claim, check, look up, send, settle |
| Push maintenance | `index.ts:146-174`, `push-repository.ts:144-161, 226-237` | both push tables | reconcile with Schlussel, expire, purge |
| Recipient resolver | `schlussel.ts` | none | signed lookup with a timeout |
| Lifecycle | `index.ts:103-199`, `push-worker.ts:186-210` | timers, phase of the shutdown, requests in flight | start, poll, drain, stop, fail-safe |
| Configuration | `config.ts` | none | start-up; the limits on intervals, timeouts and leases |
| Migrations, OpenAPI, readiness | `db/`, `openapi.ts`, `readiness.ts`, `http.ts` | none | start-up, static documents |
| Notification center | `frontend/src/features/notifications` | list, cursor, unread count | load, load more, read, remove, clear |
| Push settings | `frontend/src/features/settings`, `frontend/src/lib/push` | browser subscription, status, alert | enable, disable, repair |
| Service worker | `frontend/public/sw.js`, `frontend/src/sw` | none | show, click |

How they interact: everything in the backend meets in the SQLite tables. A
`better-sqlite3` transaction is synchronous, so it is one atomic step even
between processes; between two transactions of one handler there is an `await`,
and anything may happen there. Two processes share the file while a replacement
starts and the old one drains. Schlussel (accounts, preferences) and the push
services are outside: they answer, refuse or fail. The two pages see the backend
only through its routes; between a request, what the server does for it and what
its answer does to the page, anything may happen, also to the request itself.

What is hard: leases that run out while a worker still works; crashes between
the write of a notification and the completion of its event; replays and
conflicting reuse of event identities; deletion of an account against every
handler in flight; subscriptions removed under a claimed delivery; maintenance
decisions taken from reads that are several awaits old; timers, leases and
timeouts measured against each other, and a shutdown that has to be over before a
fail-safe; in the browser, answers that overtake each other and multi-step effects
of which one fails. `PROJECT.json` lists
these hazards at their lines, each with the properties that watch it.

## 2. Modules

| Module | What it is |
| --- | --- |
| `Inbox` | intake, inbox worker, notification API, account deletion, on all tables they share |
| `EventPromise` | abstract: what is promised about one accepted event, without leases, workers, clock |
| `InboxRefinement` | the mapping from `Inbox` to `EventPromise`; `ImplementsPromise` |
| `Push` | subscriptions, deliveries, push worker, maintenance, deletion on the push tables |
| `DeliveryPromise` | abstract: what is promised about one browser push, attempts counted |
| `PushRefinement` | the mapping from `Push` to `DeliveryPromise`; its `ImplementsPromise` |
| `Lifecycle` | one process after the other: timers, worker loops, configured times, shutdown |
| `NotificationCenter` | the notification page against the rows it shows |
| `PushSettings` | the browser push settings against browser and server |
| `MCInbox`, `MCPush`, `MCLifecycle`, `MCNotificationCenter`, `MCPushSettings` | small instances for TLC |
| `InboxProofs`, `RefinementProofs` | inductive invariant and theorems of `Inbox`; `Inbox` implements `EventPromise` |
| `PushProofs`, `PushLimitProofs`, `PushRefinementProofs` | the same for `Push`; limits on registrations and the extent of two findings; `Push` implements `DeliveryPromise` |
| `LifecycleProofs`, `PushSettingsProofs`, `NotificationCenterProofs` | inductive invariants and theorems of these three |

`Inbox` and `Push` each contain the other's steps as far as these change the
tables it has: `Inbox!Subscribe`, `Unsubscribe` and `PurgeDelivery` stand for
everything `Push` does to subscriptions and deliveries; `Push!ListFor`,
`Materialize` and `CompleteEvent` stand for the inbox worker, whose fence
`Inbox` justifies (`NotifiedIsRecipient`).

### Inbox

One action per transaction or per stretch of code between two awaits.

- Intake: `ReceiveEvent` is everything up to the tombstone check of `app.ts:191`,
  `AcceptEvent` the transaction of `acceptInbox`. Requests that are rejected
  before (signature, size, schema, registry) change nothing and are left out.
  A payload stands for a request body; the hash comparison tells bodies apart.
- Worker: `Claim` (with the parse of the stored envelope: `Legacy` payloads go
  straight to completion), `LookupAnswered` / `LookupFailed`,
  `ListSubscriptions`, `Write` / `WriteStale` (the fence of
  `materializeNotification`), `Finish` (the fence of `markInboxProcessed`, with a
  fresh clock). `worker[w].at` is `materializedAt`: the code reads it after the
  lookup and uses it in the write, so the fence there can be judged by an old
  time, and the model keeps that. `Crash` may come between any two steps.
- API: `Authenticate` is `onUserSeen` (mirror or refuse), then one of four
  handlers, each a single statement.
- `DeleteAccount` is the transaction of `deletions.ts`; the replies
  `duplicate` and `conflict` change nothing.
- `created` is a history variable: what was ever inserted in `notifications`.

Two branches of the code cannot be reached, and the model shows it: the
tombstone branch inside `materializeNotification` (`NoDataForDeleted`: a
tombstoned user has no inbox row whose fence could hold) and the reply
`duplicate` by tombstone in `deletions.ts:40` (`DeletionIdentity`).
`createNotification` has no caller and is not modelled.

### Push

- `SubIds` are the UUIDs of rows; owner and endpoint of a row never change, so
  they are constants of the id, while `session` and `until` are state. `until`
  is the moment a row stops being usable: its expiration time, or 0 for a row
  tagged with an old VAPID key.
- Routes: `ReceivePut` is the authentication, `PutSubscription` / `PutRefused`
  the transaction after the body arrived. `putting` is the set of PUTs between the
  two, of any sessions; equal ones are one element, which `PutEnds` may leave in. DELETE
  rechecks everything in its one
  transaction (`DeleteBoundSubscription`); `RevokeSession` is the
  `session_revoked` event.
- Worker: the program counter is the branch of `deliverOne` taken so far; the
  last five values name the settlement that is due. A `Send` that ends in a retry may
  have been accepted: a timeout or a broken connection does not tell. `Settle` is fenced
  by the
  lease id only, as in the code; `DropSubscription` (404, 410, expired, rotated)
  is not fenced at all.
- Maintenance: `StartUpkeep`, one `ResolveUser` per await, `DeleteOrphaned`,
  `DeleteExpiredOrRotated`, `PurgeTerminalDeliveries`.
- `accepted` and `doubtful` are history variables: how often a push service
  accepted a delivery, and which deliveries were accepted without the worker learning
  it, claimed again, or inserted again after a push. `last_success_at`, error texts
  and the generic message are left out. The backoff delay is any member of
  `Delays`: the code draws it at random.

### DeliveryPromise and PushRefinement

`DeliveryPromise` knows only whether a delivery is owed or how it was settled, how
many attempts failed, and which subscriptions are registered or were. `Register`,
`Owe`, `Retry`, `Settle`, `Remove`, `Retire` and `Erase` are the only things that
may happen. The mapping reads `pending` and `processing` as owed, and drops
leases, claims, clocks and maintenance runs. So the atomicity of each transaction
is part of the promise: `Remove` settles in the same step what the subscription
was owed.

### Lifecycle

Whole processes, one after the other, in ticks. `RunWorker` is the call of the
interval timer, `Claim`, `Complete`, `Fail` and `LoopEnds` the loop of `runWorker`;
`PushTick`, `PushSend`, `PushSettled` the self-rescheduling timer of `start()`;
`Signal`, `ServerClosed`, `StopPush`, `Exit` the four awaits of `shutdown`;
`FailSafeExit` its unconditional exit; `Killed` a crash or a second signal; and
`Restart` the next process on the same file. `Tick` is enabled when nothing is
due: the timers are part of the specification, not of its fairness. `config` is any
configuration that `loadConfig` and `loadPushConfig` accept: the comparisons
they make are `LeaseAccepted` and `PushLeaseAccepted`. A lookup ends at its timeout,
its body included (`LookupOver`, `AbortSignal.timeout`). The timeout of a send is
one of an idle socket: it ends a silent push service, while one that answers byte by
byte starts it again each time (`Trickle`) and is not bounded by anything. The database
is reduced to status and lease of
each inbox row; what the workers do with it is in `Inbox` and `Push`.

### NotificationCenter

A request is a record in `calls` with what the server still has to do for it; the
control that sends it, the server's step, and the answer (or `Fail`, before or
after the server did its part) are separate actions. `load` is two requests under
one flag. `Shown`, `loadingMore`, `items` and `unread` decide which controls there
are, as in the JSX. `Page` and `NextCursor` are the keyset query of
`listNotifications` and the one row it reads more than it returns; `Arrive` may
insert anywhere in the list, because `created_at` is the producer's.
`seen`, `tangled` and `lost` are history variables. The properties speak of pages
at rest whose requests did not overlap on the same rows; where they did, the code
has effects nobody promises to be absent: two quick activations count down twice,
`load more` answered after `delete all` brings deleted items back, `read all`
answered after a refresh marks unread items. Two more effects are in the
properties themselves: list and count are two requests, so the badge misses what
arrives between them; and a removal of all shown items shows the empty page
although a cursor is left (`NotificationCenter.tsx:145-152`).

### PushSettings

`flow` is the handler that runs (`busyRef`), at one of its awaits; every await is
an action, and may fail with or without its effect (`FetchFails`, `EnableFails`
with `Happened`, `DeleteFails`, `Drop(FALSE)`). `retry` and `held` are the two refs that
outlive a
handler. The browser is external: `unsubscribe()` answers false for a
subscription already released, `subscribe()` returns the subscription there is and
throws for one with another key, and losing the permission drops the subscription.
`RowGoes` and `BrowserChanges` are everything that takes one half away behind
the page, the cleanup page included; `outside` remembers that they did.

## 3. Runs

| Run | Question | Result |
| --- | --- | --- |
| `inbox_race` | Do two workers, intake, deletion and subscriptions keep the tables consistent, and does the whole implement `EventPromise`? | holds |
| `inbox_live` | Is every accepted event processed in the end, and does no retry turn a read notification unread? | yes, unless its claims fail to the last; yes |
| `push_safety` | Are settlements exclusive, final, and revoked by removals, and does the whole implement `DeliveryPromise`? | holds |
| `push_routes` | Do limits hold when PUTs overlap, and is a stray row of an erased user swept? | holds |
| `push_live` | Is every delivery settled in the end? | yes |
| `lifecycle` | Do leases outlast claims, do shutdowns end, and end clean, do failing recipients leave room for the others - for every accepted configuration of the range? | holds |
| `center` | Do list and badge agree with the rows at rest, whatever arrived, failed or was removed between two pages? | holds |
| `settings` | Does the page ever report a state that is not there, and do repairs end? | no; yes, but for three kinds of dead ends |
| `inbox_retry` | Is a retry idempotent in database state, as README.md:59-62 says? | no: a deleted notification comes back |
| `push_late_put` | Does a deletion leave no subscription behind (docs/account-deletion-saga.md)? | no: a PUT in flight stores one |
| `push_reconcile` | Does reconciliation only remove orphans (index.ts:146-150)? | no: it removes new rows of existing users |
| `settings_repair` | Does the repair button repair (BrowserPushSettings.test.tsx:41)? | no: not after the browser's half of a switching off |

The four findings:

1. `inbox_retry`. The unique key of `notifications` sees only stored rows. Worker
   materializes, its completion is lost, the user deletes the notification, the
   next claim inserts it again. Nothing older than the claim is consulted.
2. `push_late_put`. PUT looks at the tombstone once, in its authentication, and
   then awaits the body; the write does not look again. `push_routes` shows the
   stray row is removed by a later reconciliation (`StraysSwept`), and
   `NoDataForDeleted` shows no other table has this gap.
3. `push_reconcile`. The set of existing users is computed from the
   subscriptions present at the start; the delete uses its complement at the end.
   A first registration in between is lost, whether there were lookups to wait
   for or not.
4. `settings_repair`. A switching off of which the DELETE failed and the
   unsubscription succeeded is retried without a local subscription, hence
   without a hash, hence without a DELETE; `deleted` stays false and the alert
   comes back until the page is reloaded. `settings` shows that this is one of
   three kinds of alerts whose button does not help (`Stuck`), and that once nothing
   fails any more a repair does not run into one. The other two are a repair that
   would give up a subscription the browser no longer holds, and enabling over one
   with a replaced VAPID key.

How far the first three reach is proved (section 4): each property holds of every
behavior without the one coincidence its finding describes.

What `lifecycle` says in numbers of the defaults (interval 1 s, lookup timeout
5 s, lease 30 s): `HealthyProcessed` has a premise, the failing rows must not fill
a lease one after the other. About 30 recipients that fail at once, or five or six
whose lookups time out (each takes six intervals), are enough to make everything behind
them wait; `README.md` promises nothing here, so it is a hazard and not a finding.
`LeasesCoverClaims` shows that the margin protects inbox claims, whereas the push
lease is compared with the send timeout alone (`config.ts:176`): a push claim may
outlive its lease by up to a lookup, and by any time while its push service keeps the
connection from falling idle. `PushedOnce` says what a second push then takes.

### Bounds

- Time runs to `MaxTime` ticks with leases of one tick: a lease can be granted,
  run out and be granted again, and a late worker can act before or after each of
  these. A claim that fails or dies when its lease ends beyond `MaxTime` is never
  taken up again in the model, for a reason that is not in the code. `Inbox` forbids
  no such failure: its `EventuallySettled` exempts the event by name (`Abandoned`).
  `Push` has two guards named as bounds: `Crash` and the delay in `Settle` stay
  within the modelled time, while failed lookups and sends are limited by
  `MaxAttempts`, as in the code.
- Two workers are the most a deployment has (old and new process). Three lease
  ids are one for the row and one per worker; more would be symmetric.
- One event identity with two bodies gives replays, conflicts and erasure
  followed by acceptance for somebody else; two events give the order of claims.
- Any number of event and API requests are between their awaits in `Inbox`; equal
  ones are one element of a set, which a step may leave in. `MaxPuts` limits
  the different PUTs under way: two in `push_routes`, where a limit can be exceeded or
  an endpoint taken twice by two requests that overlap, and one in the other runs,
  which are about deliveries.
- One delivery for two workers: the worker touches no delivery but its own, and
  claims are per delivery. `MaxAttempts` 2 reaches both a retry and the cap.
- `lifecycle`: two failing rows and a healthy one, timeouts and intervals of one
  or two ticks, leases up to six, so that some accepted configurations satisfy
  the premise of `HealthyProcessed` and others do not. Margin, stop timeout and
  fail-safe keep their proportions to each other (10 s, 5 s, 10 s), not to the
  others. One hanging request shows what several do. The last process started is
  never signalled nor killed: properties of a process that is killed for ever say
  nothing.
- `center`: three notifications in pages of one give a first, a middle and a last
  page, and an arrival before, between and behind them; two requests under way
  are the smallest number that can overtake each other, and the answers of
  three independent ones commute.
- `settings`: one endpoint with a replaced key and four fresh ones; a repair and a
  retry use up two, and two are kept in reserve while effects may fail (`Subscribe`,
  `Happened`). A third failed repair repeats the second.
- `lifecycle` does not count on the claim of a send once it trickles: `LeasesCoverClaims`
  exempts it, and nothing else reads the count.
- Symmetry (lease ids, workers, jobs, slots of requests) is used in safety runs
  only.
- `CHECK_DEADLOCK FALSE` is there only in the two runs of the settings page,
  because the page may come to rest: nothing runs and no button is left.

### Fairness

`Inbox!FairSpec` and `Push!FairSpec` assume that time passes and that each
worker keeps taking steps: the interval timer (`index.ts:124`,
`push-worker.ts:186-198`) calls again after every outcome, and every await
settles. For lookups their timeout sees to that. For sends it is an assumption: their
timeout is one of an idle socket, and no push service may keep a connection busy for
ever. Nothing else is assumed of producers, users, Schlussel or push services: any
lookup, also the last one, and any send may fail, and a worker may die between any two
steps (in `Push` within the bound of `Crash`). A recipient whose lookups fail for
ever is never processed, in the code as in the model: there is no limit on attempts
(`processor.ts:50`), and `EventuallySettled` of `Inbox` does not claim otherwise.
`StraysSwept` assumes, in its own statement, that maintenance
gets through its lookups again and again; one failing lookup ends a run, so
without that assumption it is false.

`Lifecycle!FairSpec` is weak fairness of `Run`, everything the event loop does by
itself: timers, loop, the awaits of the shutdown, the next tick, and the start of
a process after an exit (the deployment restarts it). Requests are not
assumed to be answered, so `ShutdownEnds` rests on the fail-safe.

`PushSettings!FairSpec` assumes that awaits settle and that a user who sees an
alert presses its button. `RepairsEndUnlessStuck` starts from a page at rest where
effects no longer fail: nothing guarantees a repair while they do. Starting at rest
matters: between giving up a subscription and subscribing anew every repair passes
through a moment that would be a dead end if it stopped there.

## 4. Proofs

For all values of the constants that satisfy `InboxAssumption` - any number of
events, users, workers, lease ids, any lease time:

- `Invariance`: `IInv` is an invariant of `Inbox`. It conjoins the type
  invariant and the five safety properties of `inbox_race` with three facts they
  lean on: rows in use have a body and claimed rows a lease id (`RowsOK`); no two
  claims share a lease id and a worker lists only subscriptions of its payload's
  recipient (`LocalsOK`); what is stored was inserted (`NotesCreated`).
  The argument: a fresh UUID makes the holder of the current lease unique and
  gives it the payload of the row (`OneHolder`); hence a fenced write is about
  the recipient of the row; a tombstoned user has no row; so neither a
  notification nor a delivery is ever written for an erased user or for a second
  one. `NoDataForDeleted` and `NotifiedIsRecipient` are not inductive without
  `OneHolder`, and `OneHolder` not without `LocalsOK`.
- `TypeCorrect`, `ErasedStaysErased`, `LeasesExclude`, `OnlyRecipientNotified`,
  `NoneSkipped`, `DeletionIdentified`: the conjuncts as theorems of `Spec`.
- `ProcessedFinal`, `ReadIsFinal`: the two action properties, from the same
  invariant.
- `Refinement`: `Spec => ImplementsPromise`. Initial states map to initial
  states; intake, write, completion, edits, purges and deletion map to one step
  of the promise, everything else to a stutter.

For all values that satisfy `PushAssumption` (`PushProofs`):

- `Invariance`: `IInv` of `Push`. `SettlesAlone` and `RemovalRevokes` are two of
  its conjuncts; they need that a row has a lease id only in processing and that
  claims do not share one (`RowsOK`, `LocalsOK`): the settlements compare nothing
  but the lease id.
- `NoSecondPush` needs two more. It speaks of the deliveries that are not `doubtful`:
  a push whose answer was lost or timed out is repeated by design, and so may be one
  whose claim was taken over or whose row was purged and inserted again. `ClaimsOK`:
  a claim of a delivery that is not doubtful still has its lease, or lost it to the
  removal of its subscription. `PushedOK`: of such a delivery one claim at most is
  past its subscription check, and once a push is accepted, that claim has only its
  settlement left and any later one finds no subscription. Here the two sides of a
  removal meet: the
  lease it revokes and the row that is gone.
- `SettledStays`, `OwedStays`: the two action properties, by the effect each step
  has on one row (`RowStep`).

The steps are proved by kind: those that touch neither rows nor claims
(`FrameStep`), those that only remove and end (`RemovalStep`: crashes, removals,
purge, account deletion), those that only move a claim on (`MoveStep`), and one
by one the writes that remain.

`PushLimitProofs`, from that invariant and `StoredAssumption` (the rows an earlier
release left are finite and within the limits):

- `LimitsHold`: no endpoint is registered twice and no user exceeds the limit. The
  inductive form `Bounded` adds that a user's live rows are finite, without which
  their cardinality says nothing. Every step but a PUT makes no row live
  (`NoneAdded`); a PUT counts inside its own transaction (`PutBounded`), which is
  why requests that overlap cannot exceed the limit together. `MaxPuts` is any number
  here.

`PushRefinementProofs`: `Refinement`, `Spec => ImplementsPromise` for `Push`. A
materialization maps to `Owe`, any removal to `Remove`, a fenced settlement to
`Retry` or `Settle`, the purge to `Retire`, account deletion to `Erase`, a new row
to `Register`; everything else stutters. It needs the invariant at one place above
all: a settlement writes a counter its worker read two awaits earlier, and only
`OneSettler` says that the row still has that value (`SettlementOutcome`). `ListedOK`
is added for `Owe`: the inbox worker lists subscriptions of the recipient.

`PushSettingsProofs`, for any endpoints and any set of replaced keys:

- `Invariance`: `IInv` adds to the two properties what each handler leans on.
  `ReadingOK` and `EnablingOK` say that a handler's local subscription is still
  the browser's or went behind the page (`Holding`); enabling only starts without
  a current subscription; `DisablingOK` and `AlertOK` say which handler an alert
  belongs to, which is what the one button that serves two handlers relies on.
- `RegisteredHolds`, `OffHolds`: no false success and no false "off".

`LifecycleProofs`, for all values of margin, stop timeout and fail-safe, every
accepted configuration and any number of rows:

- `Invariance`: `ClaimOK` relates the lease of the claimed row to the age of the
  lookup, `PushOK` the age of a push claim to its two awaits, `PhaseOK` says what
  each phase of the shutdown leaves behind, and `AgeOK` bounds the age of a shutdown
  by what it waited for. `AgeOK` is the heart: no claim is younger than the
  shutdown, since the loop tests `workerStopped` before each.
- `LeasesCover`, `FailSafeIsForTheLate`, `CleanExits`. The push half of `LeasesCover`
  holds of the sends that no push service slows down (`push.slow`); of the others
  nothing can be said.

`NotificationCenterProofs`, for any number of notifications, any page size and any
number of requests under way:

- `Invariance`: the properties speak of pages at rest, so the invariant has to say
  what a page that is not at rest still owes the rows. `ListOK` holds at any time;
  `ExactOK` says that an item and its row differ only where an answer under way will
  change the item (`Removed`, `Changed`); `PageOK` says that a page read but not yet
  shown still has the rows it asked for; `Separate` that requests that are not
  tangled never speak of the same item. For the badge, `Owed` are the rows it still
  counts (unread, or shown as unread until an answer comes), `Overpaid` what the page
  counted down for although it was never counted: each answer moves one id out of
  `Owed` or into `Overpaid`, so the badge plus `Overpaid` covers `Owed`.
- That a page is cut right (`PageFacts`) is where an induction over the size of a
  set seems necessary. It is not: the rank of a number in a set is an injection into
  `1..|S|` (`RankGrows`), an injection between sets of one size is onto
  (`RankOnto`), so the n-th smallest number exists, grows with n and reaches every
  element (`NthFacts`, `NthGrows`, `NthOnto`). The same lemmas show that `Filtered`
  keeps exactly the items it should, in order.
- `ListIsTheRows`, `BadgeIsTheUnread`: the invariant at rest.

The extent of three findings. A violation run shows that a property fails, not what
it takes. These theorems say what it takes, as `Spec /\ [][condition]_vars =>
property`, where the condition only forbids one kind of step at one kind of moment:

- `OnlyLatePutsStray` (`PushLimitProofs`): if no account is deleted while a PUT of it
  waits for its body (`DeletionsMeetNoPut`), `NoSubscriptionForErased` holds. Every PUT
  under way then belongs to a user who is not erased (`NothingErased`), and nothing
  but the write of a PUT makes a row live (`OnlyPutAdds`).
- `OnlyNewcomersSwept` (`PushLimitProofs`): if nobody without a subscription registers
  while maintenance looks up accounts (`NoFirstWhileResolving`), `OnlyOrphansRemoved`
  holds. Further registrations of the same user, removals and accounts that vanish
  during the lookups do no harm: `LookupsCover` says that every registered user of
  an existing account is still to be looked up or was found.
- `OnlyEarlyDeletionsRepeat` (`InboxProofs`): if users delete only notifications whose
  event is completed (`DeletionsAwaitCompletion`), `RetryIsIdempotent` holds, account
  deletions included: an erased user's notification cannot come back for another
  reason, `NoDataForDeleted`.

TLC agreed on the instances of `inbox_race`, `inbox_retry`, `push_routes` and
`push_reconcile` with the condition added to `Next`, and the three steps it forbids
are those of the counterexamples. The fourth finding is about liveness and has no such
theorem; `Stuck` in the run `settings` is its extent.

Nothing else is assumed but the named assumptions about the constants. All invariants
and action properties of the passing runs, and both refinements, are proved. Only model
checked is liveness (`EventuallySettled` of both modules, `StraysSwept`,
`ShutdownEnds`, `HealthyProcessed`, `RepairsEndUnlessStuck`): the prover has
neither fairness nor `ENABLED`.

## 5. Not modelled, and simplified

- Signatures, schemas, rendering, export, request signing and readiness change no
  state. Secrets, origins and URLs of the configuration, and migrations, are read
  once at start.
- The row order `claimPendingDelivery` happens to read in: any candidate may come.
- A `session_revoked` event overtaken by a registration of the same session
  (`app.ts:173`): the session is not looked up again when the PUT is written.
- A running reconciliation is not awaited by the shutdown and may be cut off; what
  that leaves is what a failing lookup leaves, which `Push` has (`UpkeepFails`).
- `README.md:291` says that a signal stops new worker claims and waits for the
  active worker. That is modelled as the code does it: it holds of the inbox
  worker, while the push worker claims until the server is closed and the inbox
  worker idle, and a delivery that takes longer than `stop()` waits is cut off
  (`ExitsClean` says exactly that).
- What a push service sends after a refusal, and how long it takes: `Trickle` stands
  for every way to keep a connection from falling idle.
- In the pages: links and texts, the redirect after a 401, other tabs, and a PUT of
  an earlier page that reaches the server only after a reload.
- The service worker keeps no state; its payload and URL checks are pure.

## 6. Plan

1. `session_revoked` against registrations in flight, with the session as state.
2. Pure parts as operators: retry classification of `web-push-adapter.ts`, payload
   and URL checks of the service worker, event registry and intake validation.
3. Two processes of `Lifecycle` at once, the old one draining while the new one
   polls the same rows.
