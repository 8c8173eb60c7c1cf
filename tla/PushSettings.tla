----------------------------- MODULE PushSettings -----------------------------
(***************************************************************************)
(* The settings page of browser push in one tab                            *)
(* (frontend/src/features/settings/BrowserPushSettings.tsx) with what it   *)
(* brings together: the push subscription the browser holds, the row       *)
(* Glocke keeps for it, and what the page says about both.  Switching push *)
(* on or off is a sequence of awaited effects on the first two, and each   *)
(* of them may fail, with or without having happened.                      *)
(***************************************************************************)
EXTENDS FiniteSets, Naturals

CONSTANTS
  Endpoints,   \* what browsers subscribe to; a Glocke row is known by it
  OldKey,      \* endpoints subscribed to with a VAPID key since replaced
  None

ASSUME SettingsAssumption == OldKey \subseteq Endpoints /\ None \notin Endpoints

VARIABLES
  local,       \* external: the browser's subscription
  site,        \* external: the browser's notification permission
  rows,        \* push_subscriptions, seen from this account and session
  page,        \* statusState: loading, error, or a status, which is the next two
  current,     \* status.currentSubscription
  offered,     \* status.available and status.notifyBrowserPush
  permission,  \* the permission the page knows
  alert,       \* actionError
  retry,       \* retryRef: the handler started last
  held,        \* subscriptionRef
  flow,        \* the handler that runs (busyRef), at one of its awaits
  outside,     \* history: a subscription or row went since the status was read
  faults       \* history: effects may still fail

vars == <<local, site, rows, page, current, offered, permission, alert, retry, held,
          flow, outside, faults>>

world == <<local, site, rows>>
status == <<page, current, offered>>

Permission == {"default", "granted", "denied"}
\* A row of this session, of an earlier one of the same account, of another account.
RowState == {"none", "mine", "earlier", "other"}
Maybe(S) == S \cup {None}

PC == {"idle", "read", "status",
       "release", "register", "permission", "replace", "subscribe", "put",
       "find", "delete", "drop"}

Flow == [pc : PC, sub : Maybe(Endpoints), deleted : BOOLEAN]
At(pc) == [pc |-> pc, sub |-> None, deleted |-> FALSE]
Idle == At("idle")

\* An endpoint nothing knows of.
Fresh == {e \in Endpoints \ OldKey : rows[e] = "none" /\ e \notin {local, held, current}}

----------------------------------------------------------------------------
(* Opening the page *)

\* Any earlier use of the browser and of Glocke; a browser that holds a
\* subscription has the permission.
Init ==
  /\ local \in Maybe(Endpoints)
  /\ site \in Permission /\ (local # None => site = "granted")
  /\ rows \in [Endpoints -> RowState]
  /\ \A e \in Endpoints : e # local => rows[e] = "none"
  /\ page = "loading" /\ current = None /\ offered = FALSE
  /\ permission = site
  /\ alert = "none" /\ retry = "none" /\ held = None
  /\ flow = At("read")
  /\ outside = FALSE /\ faults = TRUE

\* The tab is closed, or reloaded, between any two steps.
Reload ==
  /\ faults
  /\ page' = "loading" /\ current' = None /\ offered' = FALSE
  /\ permission' = site
  /\ alert' = "none" /\ retry' = "none" /\ held' = None
  /\ flow' = At("read")
  /\ outside' = FALSE
  /\ UNCHANGED <<world, faults>>

\* fetchStatus: first the browser, ...
ReadLocal ==
  /\ flow.pc = "read"
  /\ flow' = [At("status") EXCEPT !.sub = local]
  /\ outside' = FALSE
  /\ UNCHANGED <<world, status, permission, alert, retry, held, faults>>

MutMatch(e) == e # None /\ rows[e] \in {"mine", "earlier"}

\* ... then GET /notifications/push/status, which matches user, session and hash.
Matches(e) == e # None /\ rows[e] = "mine"

GetStatus ==
  /\ flow.pc = "status"
  /\ page' = "ready"
  /\ current' = IF Matches(flow.sub) THEN flow.sub ELSE None
  /\ offered' \in BOOLEAN
  /\ flow' = Idle
  /\ UNCHANGED <<world, permission, alert, retry, held, outside, faults>>

FetchFails ==
  /\ faults /\ flow.pc \in {"read", "status"}
  /\ page' = "error" /\ flow' = Idle
  /\ UNCHANGED <<world, current, offered, permission, alert, retry, held, outside, faults>>

RetryStatus ==
  /\ flow = Idle /\ page = "error"
  /\ page' = "loading" /\ flow' = At("read")
  /\ UNCHANGED <<world, current, offered, permission, alert, retry, held, outside, faults>>

----------------------------------------------------------------------------
(* The handlers begin: what is rendered decides which button there is *)

Begin(handler, pc) ==
  /\ flow = Idle /\ page = "ready"
  /\ retry' = handler
  /\ flow' = At(pc)
  /\ UNCHANGED <<world, status, permission, held, outside, faults>>

HandleEnable ==
  /\ \/ alert = "enable-error"
     \/ alert = "none" /\ current = None /\ permission # "denied" /\ offered
  /\ Begin("enable", "register")
  /\ alert' = "none"

MutHandleRepairConflict ==
  /\ alert = "repair-conflict"
  /\ Begin("repair", "release")
  /\ UNCHANGED alert

HandleRepairConflict ==
  /\ alert = "repair-conflict" \/ (alert = "repair-partial" /\ retry = "repair")
  /\ Begin("repair", "release")
  /\ UNCHANGED alert

HandleDisable ==
  /\ \/ alert = "none" /\ current # None
     \/ alert = "repair-partial" /\ retry = "disable"
  /\ Begin("disable", "find")
  /\ alert' = "none"

\* An effect throws: the catch of the handler that runs.
Throw(conflict) ==
  /\ flow' = Idle
  /\ alert' = IF retry = "repair" THEN "repair-partial"
              ELSE IF conflict THEN "repair-conflict" ELSE "enable-error"

----------------------------------------------------------------------------
(* runEnableFlow, and what handleRepairConflict does before it *)

\* External: unsubscribe() answers true once; for a subscription the browser no
\* longer has it answers false.
Release ==
  /\ flow.pc = "release"
  /\ IF held # None /\ held # local
     THEN Throw(FALSE) /\ UNCHANGED local
     ELSE /\ local' = IF held # None THEN None ELSE local
          /\ flow' = At("register") /\ alert' = "none"
  /\ UNCHANGED <<site, rows, status, permission, retry, held, outside, faults>>

Register ==
  /\ flow.pc = "register"
  /\ flow' = At("permission")
  /\ UNCHANGED <<world, status, permission, alert, retry, held, outside, faults>>

\* The browser asks only while nothing is decided; without the permission the
\* handler just returns.
RequestPermission(p) ==
  /\ flow.pc = "permission"
  /\ site # "default" => p = site
  /\ site' = p /\ permission' = p
  /\ flow' = IF p # "granted" THEN Idle
             ELSE At(IF retry = "repair" THEN "replace" ELSE "subscribe")
  /\ UNCHANGED <<local, rows, status, alert, retry, held, outside, faults>>

Replace ==
  /\ flow.pc = "replace"
  /\ local' = IF current = None THEN None ELSE local
  /\ flow' = At("subscribe")
  /\ UNCHANGED <<site, rows, status, permission, alert, retry, held, outside, faults>>

\* External: subscribe() returns the subscription there is, or throws: without the
\* permission, and InvalidStateError if the subscription has another key.  Bound:
\* as long as effects fail, two endpoints stay in reserve.
Subscribe ==
  /\ flow.pc = "subscribe"
  /\ IF site # "granted" \/ local \in OldKey
     THEN Throw(FALSE) /\ UNCHANGED <<local, held>>
     ELSE /\ local' \in (IF local = None THEN Fresh ELSE {local})
          /\ local = None /\ faults => Cardinality(Fresh) > 2
          /\ held' = local'
          /\ flow' = [At("put") EXCEPT !.sub = local']
          /\ UNCHANGED alert
  /\ UNCHANGED <<site, rows, status, permission, retry, outside, faults>>

MayPut(e) == rows[e] # "other"

\* PUT /notifications/push/subscriptions claims the endpoint for this session
\* unless another account has it.
Put ==
  /\ flow.pc = "put"
  /\ IF MayPut(flow.sub)
     THEN /\ rows' = [rows EXCEPT ![flow.sub] = "mine"]
          /\ current' = flow.sub /\ flow' = Idle
          /\ UNCHANGED alert
     ELSE Throw(TRUE) /\ UNCHANGED <<rows, current>>
  /\ UNCHANGED <<local, site, page, offered, permission, retry, held, outside, faults>>

\* What an effect that fails may have done all the same.  Bound: two endpoints
\* stay in reserve.
Happened ==
  \/ /\ flow.pc = "release" /\ held = local
     /\ local' = None /\ UNCHANGED <<site, rows>>
  \/ /\ flow.pc = "permission" /\ site = "default"
     /\ site' \in Permission /\ UNCHANGED <<local, rows>>
  \/ /\ flow.pc = "replace" /\ current = None
     /\ local' = None /\ UNCHANGED <<site, rows>>
  \/ /\ flow.pc = "subscribe" /\ site = "granted" /\ local = None /\ Cardinality(Fresh) > 2
     /\ local' \in Fresh /\ UNCHANGED <<site, rows>>
  \/ /\ flow.pc = "put" /\ MayPut(flow.sub)
     /\ rows' = [rows EXCEPT ![flow.sub] = "mine"] /\ UNCHANGED <<local, site>>

\* Any of these effects fails, with or without having happened; a PUT may also
\* be refused because the account has too many subscriptions (409 as well).
EnableFails(conflict) ==
  /\ faults
  /\ flow.pc \in {"release", "register", "permission", "replace", "subscribe", "put"}
  /\ conflict => flow.pc = "put"
  /\ Throw(conflict)
  /\ UNCHANGED world \/ (~conflict /\ Happened)
  /\ UNCHANGED <<status, permission, retry, held, outside, faults>>

----------------------------------------------------------------------------
(* handleDisable *)

MutMayDelete == current # None

\* The row's id comes from the status, the hash from the browser.
MayDelete == current # None /\ local # None

Find ==
  /\ flow.pc = "find"
  /\ flow' = [At(IF MayDelete THEN "delete" ELSE "drop") EXCEPT !.sub = local]
  /\ UNCHANGED <<world, status, permission, alert, retry, held, outside, faults>>

\* DELETE: 204 for a row that is gone, 404 for one with another session or hash.
Delete ==
  /\ flow.pc = "delete"
  /\ LET match == rows[current] = "mine" /\ current = flow.sub
     IN  /\ rows' = IF match THEN [rows EXCEPT ![current] = "none"] ELSE rows
         /\ flow' = [flow EXCEPT !.pc = "drop", !.deleted = match \/ rows[current] = "none"]
  /\ UNCHANGED <<local, site, status, permission, alert, retry, held, outside, faults>>

DeleteFails ==
  /\ faults /\ flow.pc \in {"find", "delete"}
  /\ rows' \in {rows} \cup IF flow.pc = "delete" /\ rows[current] = "mine" /\ current = flow.sub
                           THEN {[rows EXCEPT ![current] = "none"]} ELSE {}
  /\ flow' = [flow EXCEPT !.pc = "drop"]
  /\ UNCHANGED <<local, site, status, permission, alert, retry, held, outside, faults>>

MutBothDone(deleted, unsubscribed) == deleted \/ unsubscribed

BothDone(deleted, unsubscribed) == deleted /\ unsubscribed

\* The browser's part, tried whatever became of the DELETE; it may fail with or
\* without having happened.
Drop(unsubscribed) ==
  /\ flow.pc = "drop"
  /\ ~unsubscribed => faults
  /\ local' = None \/ (~unsubscribed /\ local' = local)
  /\ IF BothDone(flow.deleted, unsubscribed)
     THEN current' = None /\ UNCHANGED alert
     ELSE alert' = "repair-partial" /\ UNCHANGED current
  /\ flow' = Idle
  /\ UNCHANGED <<site, rows, page, offered, permission, retry, held, outside, faults>>

----------------------------------------------------------------------------
(* What happens behind the page *)

\* A revoked session, an expired or refused subscription, maintenance.
RowGoes(e) ==
  /\ faults /\ rows[e] # "none"
  /\ rows' = [rows EXCEPT ![e] = "none"]
  /\ outside' = TRUE
  /\ UNCHANGED <<local, site, status, permission, alert, retry, held, flow, faults>>

\* External: the user changes the permission, clears site data, or opens
\* /push-cleanup; without the permission there is no subscription.
BrowserChanges(p) ==
  /\ faults
  /\ local' = None /\ site' = p
  /\ outside' = TRUE
  /\ UNCHANGED <<rows, status, permission, alert, retry, held, flow, faults>>

Calm == faults /\ faults' = FALSE
        /\ UNCHANGED <<world, status, permission, alert, retry, held, flow, outside>>

----------------------------------------------------------------------------
Step == \/ ReadLocal \/ GetStatus
        \/ Release \/ Register \/ Replace \/ Subscribe \/ Put
        \/ \E p \in Permission : RequestPermission(p)
        \/ Find \/ Delete
        \/ \E b \in BOOLEAN : Drop(b)

Press == RetryStatus \/ HandleEnable \/ HandleRepairConflict \/ HandleDisable

Fails == FetchFails \/ DeleteFails \/ \E b \in BOOLEAN : EnableFails(b)

Behind == \/ \E e \in Endpoints : RowGoes(e)
          \/ \E p \in Permission : BrowserChanges(p)
          \/ Reload \/ Calm

Next == Step \/ Press \/ Fails \/ Behind

Spec == Init /\ [][Next]_vars

\* Awaits settle; a user who sees an alert presses its button.
FairSpec == Spec /\ WF_vars(Step) /\ WF_vars(alert # "none" /\ Press)

----------------------------------------------------------------------------
(* Properties *)

\* Types of the page's state and of the world it is about; PUT and DELETE are
\* sent for a subscription the handler has in hand.
TypeOK ==
  /\ local \in Maybe(Endpoints) /\ site \in Permission
  /\ rows \in [Endpoints -> RowState]
  /\ page \in {"loading", "error", "ready"}
  /\ current \in Maybe(Endpoints) /\ offered \in BOOLEAN
  /\ permission \in Permission
  /\ alert \in {"none", "enable-error", "repair-conflict", "repair-partial"}
  /\ retry \in {"none", "enable", "repair", "disable"}
  /\ held \in Maybe(Endpoints)
  /\ flow \in Flow
  /\ flow.pc = "put" => flow.sub # None
  /\ flow.pc = "delete" => flow.sub # None /\ current # None
  /\ outside \in BOOLEAN /\ faults \in BOOLEAN

\* The page answers the user: no handler runs and nothing is reported.
Says == flow = Idle /\ page = "ready" /\ alert = "none"

\* No handler runs and no alert is left (loading may have failed: it has a button too).
Settled == flow = Idle /\ alert = "none"

\* No false success, whichever effects failed on the way: where the page says
\* that this browser is registered, it holds exactly that subscription and
\* Glocke's row for it is of this session - unless one of the two has been taken
\* away behind the page since its status was read.
RegisteredIsTrue ==
  Says /\ current # None /\ ~outside => local = current /\ rows[current] = "mine"

\* The other way round: where the page says that push is off, or still to be
\* enabled, this browser does not receive this account's pushes, and right
\* after a switching off it has no subscription left at all.
OffIsTrue ==
  Says /\ current = None => ~Matches(local) /\ (retry = "disable" => local = None)

\* The dead ends, pages at rest with an alert whose button does not help: switching
\* off again after the browser's half succeeded alone; repairing again a
\* subscription already given up; enabling over a subscription with a replaced
\* VAPID key.
Stuck == /\ flow = Idle /\ alert # "none"
         /\ \/ retry = "disable" /\ local = None /\ current # None
            \/ (alert = "repair-conflict" \/ retry = "repair") /\ held # None /\ held # local
            \/ retry = "enable" /\ local \in OldKey

\* Once nothing fails any more, a user who presses the button of an alert gets
\* rid of it, unless the page is in a dead end already: what the button starts
\* does not fail half-way and thereby enter one.
RepairsEndUnlessStuck == (~faults /\ flow = Idle /\ ~Stuck) ~> Settled

\* The repair button that both repair alerts render (BrowserPushSettings.test.tsx:41)
\* repairs: once nothing fails any more, a half-done switching off is completed by
\* pressing it.  After the browser's half has succeeded alone there is no hash to
\* send a DELETE with and deleted stays false, so run settings_repair violates this.
RepairButtonRepairs == (~faults /\ retry = "disable") ~> Settled
=============================================================================
