-------------------------- MODULE PushSettingsProofs --------------------------
(***************************************************************************)
(* Proofs about module PushSettings: whichever effects fail, wherever the  *)
(* page is reloaded and whatever goes behind it, what the page says of     *)
(* browser push is true, for any number of endpoints and replaced keys.    *)
(***************************************************************************)
EXTENDS PushSettings, TLAPS

Enabling == {"release", "register", "permission", "replace", "subscribe", "put"}
Disabling == {"find", "delete", "drop"}

\* The browser holds what the handler at work read, unless it lost it since.
Holding == local = flow.sub \/ (local = None /\ outside)

\* Until a status has been read no handler has run.
ReadingOK ==
  /\ flow.pc \in {"read", "status"} \/ page = "error" => retry = "none" /\ alert = "none"
  /\ flow.pc = "status" => Holding

\* Enabling and repairing only start from a status without a subscription.
EnablingOK ==
  /\ flow.pc \in Enabling => current = None /\ retry \in {"enable", "repair"}
  /\ flow.pc \in Enabling \ {"release"} => alert = "none"
  /\ flow.pc = "put" => flow.sub # None /\ Holding

DisablingOK == flow.pc \in Disabling => retry = "disable"

\* An alert of a failed enabling or repair leaves the status as it was.
AlertOK ==
  alert \in {"enable-error", "repair-conflict"} \/ (alert = "repair-partial" /\ retry = "repair")
    => current = None

IInv ==
  /\ TypeOK
  /\ local # None => site = "granted"
  /\ ReadingOK /\ EnablingOK /\ DisablingOK /\ AlertOK
  /\ RegisteredIsTrue /\ OffIsTrue

\* What the handlers and the status conclude, once the types are right.
Conclusions ==
  /\ local # None => site = "granted"
  /\ ReadingOK /\ EnablingOK /\ DisablingOK /\ AlertOK
  /\ RegisteredIsTrue /\ OffIsTrue

----------------------------------------------------------------------------
\* Handlers begin and end with no local variable set.
LEMMA FlowFacts ==
  /\ \A pc \in PC : At(pc) \in Flow /\ At(pc).pc = pc
  /\ \A pc \in PC, e \in Maybe(Endpoints) :
       LET f == [At(pc) EXCEPT !.sub = e]
       IN  f \in Flow /\ f.pc = pc /\ f.sub = e
  /\ Idle \in Flow /\ Idle.pc = "idle"
  /\ \A f \in Flow : f.pc \in PC /\ f.sub \in Maybe(Endpoints) /\ f.deleted \in BOOLEAN
BY DEF At, Flow, Idle, Maybe, PC

\* The invariant holds when the page is opened.
LEMMA InitInv == Init => IInv
<1> SUFFICES ASSUME Init PROVE IInv
  OBVIOUS
<1>1. flow \in Flow /\ flow.pc = "read"
  BY FlowFacts DEF Init, PC
<1>2. TypeOK
  BY <1>1 DEF Init, TypeOK, Permission, Maybe
<1> QED
  BY <1>1, <1>2 DEF Init, IInv, ReadingOK, EnablingOK, Enabling, DisablingOK, Disabling,
                    AlertOK, RegisteredIsTrue, OffIsTrue, Says

----------------------------------------------------------------------------
(* Steps, each with the types and the conclusions it leaves. *)

\* While a handler runs or an alert stands the page concludes nothing.
LEMMA SaysNothing ==
  ASSUME flow'.pc # "idle" \/ alert' # "none"
  PROVE  RegisteredIsTrue' /\ OffIsTrue'
BY FlowFacts DEF RegisteredIsTrue, OffIsTrue, Says

\* A reload forgets everything but the world.
LEMMA ReloadStep == ASSUME IInv, Reload PROVE IInv'
<1> USE FlowFacts, SettingsAssumption
<1>1. flow' \in Flow /\ flow'.pc = "read"
  BY DEF Reload, world, IInv, TypeOK, PC
<1>2. TypeOK'
  BY <1>1 DEF Reload, world, IInv, TypeOK, Maybe, Permission, RowState
<1>3. Conclusions'
  BY <1>1, <1>2 DEF Reload, world, IInv, TypeOK,
         Conclusions, ReadingOK, EnablingOK, Enabling, DisablingOK, Disabling,
         AlertOK, RegisteredIsTrue, OffIsTrue, Says, Holding, Matches
<1> QED
  BY <1>2, <1>3 DEF IInv, Conclusions

\* What is about to be sent to Glocke is what the browser holds.
LEMMA ReadLocalStep == ASSUME IInv, ReadLocal PROVE IInv'
<1> USE FlowFacts, SettingsAssumption
<1>1. flow' \in Flow /\ flow'.pc = "status" /\ flow'.sub = local
  BY DEF ReadLocal, world, status, IInv, TypeOK, PC
<1>2. TypeOK'
  BY <1>1 DEF ReadLocal, world, status, IInv, TypeOK
<1>3. Conclusions'
  BY <1>1, <1>2 DEF ReadLocal, world, status, IInv, TypeOK,
         Conclusions, ReadingOK, EnablingOK, Enabling, DisablingOK, Disabling,
         AlertOK, RegisteredIsTrue, OffIsTrue, Says, Holding, Matches
<1> QED
  BY <1>2, <1>3 DEF IInv, Conclusions

\* A status is true when it arrives, unless something went meanwhile.
LEMMA GetStatusStep == ASSUME IInv, GetStatus PROVE IInv'
<1> USE FlowFacts, SettingsAssumption
<1>1. flow' \in Flow /\ flow' = Idle
  BY DEF GetStatus, world, IInv, TypeOK, PC
<1>2. TypeOK'
  BY <1>1 DEF GetStatus, world, IInv, TypeOK, Maybe, Permission, RowState
<1>3. Conclusions'
  BY <1>1, <1>2 DEF GetStatus, world, IInv, TypeOK,
         Conclusions, ReadingOK, EnablingOK, Enabling, DisablingOK, Disabling,
         AlertOK, RegisteredIsTrue, OffIsTrue, Says, Holding, Matches
<1> QED
  BY <1>2, <1>3 DEF IInv, Conclusions

\* A page without a status says nothing.
LEMMA FetchFailsStep == ASSUME IInv, FetchFails PROVE IInv'
<1> USE FlowFacts, SettingsAssumption
<1>1. flow' \in Flow /\ flow' = Idle
  BY DEF FetchFails, world, IInv, TypeOK, PC
<1>2. TypeOK'
  BY <1>1 DEF FetchFails, world, IInv, TypeOK, Maybe, Permission, RowState
<1>3. Conclusions'
  BY <1>1, <1>2 DEF FetchFails, world, IInv, TypeOK,
         Conclusions, ReadingOK, EnablingOK, Enabling, DisablingOK, Disabling,
         AlertOK, RegisteredIsTrue, OffIsTrue, Says, Holding, Matches
<1> QED
  BY <1>2, <1>3 DEF IInv, Conclusions

\* Loading again starts like opening the page.
LEMMA RetryStatusStep == ASSUME IInv, RetryStatus PROVE IInv'
<1> USE FlowFacts, SettingsAssumption
<1>1. flow' \in Flow /\ flow'.pc = "read"
  BY DEF RetryStatus, world, IInv, TypeOK, PC
<1>2. TypeOK'
  BY <1>1 DEF RetryStatus, world, IInv, TypeOK, Maybe, Permission, RowState
<1>3. Conclusions'
  BY <1>1, <1>2 DEF RetryStatus, world, IInv, TypeOK,
         Conclusions, ReadingOK, EnablingOK, Enabling, DisablingOK, Disabling,
         AlertOK, RegisteredIsTrue, OffIsTrue, Says, Holding, Matches
<1> QED
  BY <1>2, <1>3 DEF IInv, Conclusions

\* Enabling starts without a current subscription.
LEMMA HandleEnableStep == ASSUME IInv, HandleEnable PROVE IInv'
<1> USE FlowFacts, SettingsAssumption
<1>1. flow' \in Flow /\ flow'.pc = "register" /\ flow.pc = "idle"
  BY DEF HandleEnable, Begin, world, status, IInv, TypeOK, PC
<1>2. TypeOK'
  BY <1>1 DEF HandleEnable, Begin, world, status, IInv, TypeOK, Maybe, Permission, RowState
<1>3. Conclusions'
  BY <1>1, <1>2 DEF HandleEnable, Begin, world, status, IInv, TypeOK,
         Conclusions, ReadingOK, EnablingOK, Enabling, DisablingOK, Disabling,
         AlertOK, RegisteredIsTrue, OffIsTrue, Says, Holding, Matches
<1> QED
  BY <1>2, <1>3 DEF IInv, Conclusions

\* So does repairing: its alerts came from enabling.
LEMMA HandleRepairConflictStep == ASSUME IInv, HandleRepairConflict PROVE IInv'
<1> USE FlowFacts, SettingsAssumption
<1>1. flow' \in Flow /\ flow'.pc = "release" /\ flow.pc = "idle"
  BY DEF HandleRepairConflict, Begin, world, status, IInv, TypeOK, PC
<1>2. TypeOK'
  BY <1>1 DEF HandleRepairConflict, Begin, world, status, IInv, TypeOK, Maybe, Permission,
     RowState
<1>3. Conclusions'
  BY <1>1, <1>2 DEF HandleRepairConflict, Begin, world, status, IInv, TypeOK,
         Conclusions, ReadingOK, EnablingOK, Enabling, DisablingOK, Disabling,
         AlertOK, RegisteredIsTrue, OffIsTrue, Says, Holding, Matches
<1> QED
  BY <1>2, <1>3 DEF IInv, Conclusions

\* Switching off makes no claim while it runs.
LEMMA HandleDisableStep == ASSUME IInv, HandleDisable PROVE IInv'
<1> USE FlowFacts, SettingsAssumption
<1>1. flow' \in Flow /\ flow'.pc = "find" /\ flow.pc = "idle"
  BY DEF HandleDisable, Begin, world, status, IInv, TypeOK, PC
<1>2. TypeOK'
  BY <1>1 DEF HandleDisable, Begin, world, status, IInv, TypeOK, Maybe, Permission, RowState
<1>3. Conclusions'
  BY <1>1, <1>2 DEF HandleDisable, Begin, world, status, IInv, TypeOK,
         Conclusions, ReadingOK, EnablingOK, Enabling, DisablingOK, Disabling,
         AlertOK, RegisteredIsTrue, OffIsTrue, Says, Holding, Matches
<1> QED
  BY <1>2, <1>3 DEF IInv, Conclusions

\* Giving a subscription up only takes from the browser.
LEMMA ReleaseStep == ASSUME IInv, Release PROVE IInv'
<1> USE FlowFacts, SettingsAssumption
<1>1. flow' \in Flow /\ (flow' = Idle \/ flow'.pc = "register")
  BY DEF Release, Throw, status, IInv, TypeOK, PC
<1>2. TypeOK'
  BY <1>1 DEF Release, Throw, status, IInv, TypeOK, Maybe, Permission, RowState
<1>3. (local # None => site = "granted")'
  BY <1>1, <1>2 DEF Release, Throw, status, IInv, TypeOK
<1>4. ReadingOK'
  BY <1>1, <1>2 DEF Release, Throw, status, IInv, TypeOK, ReadingOK, Holding, EnablingOK,
     Enabling
<1>5. EnablingOK' /\ DisablingOK'
  BY <1>1, <1>2 DEF Release, Throw, status, IInv, TypeOK, EnablingOK, Enabling, DisablingOK,
     Disabling, Holding
<1>6. AlertOK'
  BY <1>1, <1>2 DEF Release, Throw, status, IInv, TypeOK, AlertOK, EnablingOK, Enabling
<1>7. RegisteredIsTrue' /\ OffIsTrue'
  <2>1. flow'.pc # "idle" \/ alert' # "none"
    BY <1>1 DEF Release, Throw, PC
  <2> QED
    BY <2>1, SaysNothing
<1> QED
  BY <1>2, <1>3, <1>4, <1>5, <1>6, <1>7 DEF IInv

\* The service worker is registered: nothing else changes.
LEMMA RegisterStep == ASSUME IInv, Register PROVE IInv'
<1> USE FlowFacts, SettingsAssumption
<1>1. flow' \in Flow /\ flow'.pc = "permission"
  BY DEF Register, world, status, IInv, TypeOK, PC
<1>2. TypeOK'
  BY <1>1 DEF Register, world, status, IInv, TypeOK, Maybe, Permission, RowState
<1>3. Conclusions'
  BY <1>1, <1>2 DEF Register, world, status, IInv, TypeOK,
         Conclusions, ReadingOK, EnablingOK, Enabling, DisablingOK, Disabling,
         AlertOK, RegisteredIsTrue, OffIsTrue, Says, Holding, Matches
<1> QED
  BY <1>2, <1>3 DEF IInv, Conclusions

\* Without the permission there is no subscription, so push is off.
LEMMA RequestPermissionStep == ASSUME IInv, NEW p \in Permission, RequestPermission(p) PROVE IInv'
<1> USE FlowFacts, SettingsAssumption
<1>1. flow' \in Flow /\ (flow' = Idle \/ flow'.pc \in {"replace", "subscribe"})
  BY DEF RequestPermission, status, IInv, TypeOK, PC
<1>2. TypeOK'
  BY <1>1 DEF RequestPermission, status, IInv, TypeOK, Maybe, Permission, RowState
<1>3. (local # None => site = "granted")'
  BY <1>1, <1>2 DEF RequestPermission, status, IInv, TypeOK
<1>4. ReadingOK'
  BY <1>1, <1>2 DEF RequestPermission, status, IInv, TypeOK, ReadingOK, Holding, EnablingOK,
     Enabling
<1>5. EnablingOK' /\ DisablingOK'
  BY <1>1, <1>2 DEF RequestPermission, status, IInv, TypeOK, EnablingOK, Enabling,
     DisablingOK, Disabling, Holding
<1>6. AlertOK'
  BY <1>1, <1>2 DEF RequestPermission, status, IInv, TypeOK, AlertOK, EnablingOK, Enabling
<1>7. RegisteredIsTrue' /\ OffIsTrue'
  <2>1. CASE p = "granted"
    BY <1>1, <2>1, SaysNothing DEF RequestPermission, At, PC
  <2>2. CASE p # "granted"
    <3>1. local' = None /\ current' = None
      BY <2>2 DEF RequestPermission, status, IInv, EnablingOK, Enabling
    <3> QED
      BY <3>1 DEF RegisteredIsTrue, OffIsTrue, Matches
  <2> QED
    BY <2>1, <2>2
<1> QED
  BY <1>2, <1>3, <1>4, <1>5, <1>6, <1>7 DEF IInv

\* A replaced subscription goes before the next one comes.
LEMMA ReplaceStep == ASSUME IInv, Replace PROVE IInv'
<1> USE FlowFacts, SettingsAssumption
<1>1. flow' \in Flow /\ flow'.pc = "subscribe"
  BY DEF Replace, status, IInv, TypeOK, PC
<1>2. TypeOK'
  BY <1>1 DEF Replace, status, IInv, TypeOK, Maybe, Permission, RowState
<1>3. Conclusions'
  BY <1>1, <1>2 DEF Replace, status, IInv, TypeOK,
         Conclusions, ReadingOK, EnablingOK, Enabling, DisablingOK, Disabling,
         AlertOK, RegisteredIsTrue, OffIsTrue, Says, Holding, Matches
<1> QED
  BY <1>2, <1>3 DEF IInv, Conclusions

\* The PUT is about the subscription the browser holds.
LEMMA SubscribeStep == ASSUME IInv, Subscribe PROVE IInv'
<1> USE FlowFacts, SettingsAssumption
<1>1. /\ flow' \in Flow
      /\ \/ flow' = Idle /\ alert' # "none"
         \/ flow'.pc = "put" /\ flow'.sub = local'
  <2>1. local \in Maybe(Endpoints) /\ Fresh \subseteq Endpoints
    BY DEF Fresh, IInv, TypeOK
  <2>2. CASE site # "granted" \/ local \in OldKey
    BY <2>2 DEF Subscribe, Throw
  <2>3. CASE ~(site # "granted" \/ local \in OldKey)
    <3>1. flow' = [At("put") EXCEPT !.sub = local'] /\ local' \in Maybe(Endpoints)
      BY <2>1, <2>3 DEF Subscribe, Maybe
    <3>2. PICK e \in Maybe(Endpoints) : e = local'
      BY <3>1
    <3> QED
      BY <3>1, <3>2 DEF PC
  <2> QED
    BY <2>2, <2>3
<1>2. TypeOK'
  BY <1>1 DEF Subscribe, Throw, status, IInv, TypeOK, Maybe, Permission, RowState, Fresh
<1>3. (local # None => site = "granted")'
  BY <1>1, <1>2 DEF Subscribe, Throw, status, IInv, TypeOK, Fresh
<1>4. ReadingOK'
  BY <1>1, <1>2 DEF Subscribe, Throw, status, IInv, TypeOK, ReadingOK, Holding, EnablingOK,
     Enabling, Fresh
<1>5. EnablingOK' /\ DisablingOK'
  BY <1>1, <1>2 DEF Subscribe, Throw, status, IInv, TypeOK, EnablingOK, Enabling, DisablingOK,
     Disabling, Holding, Fresh
<1>6. AlertOK'
  BY <1>1, <1>2 DEF Subscribe, Throw, status, IInv, TypeOK, AlertOK, EnablingOK, Enabling, Fresh
<1>7. RegisteredIsTrue' /\ OffIsTrue'
  <2>1. flow'.pc # "idle" \/ alert' # "none"
    BY <1>1
  <2> QED
    BY <2>1, SaysNothing
<1> QED
  BY <1>2, <1>3, <1>4, <1>5, <1>6, <1>7 DEF IInv

\* A registration that succeeds is the one the page then names.
LEMMA PutStep == ASSUME IInv, Put PROVE IInv'
<1> USE FlowFacts, SettingsAssumption
<1>1. flow' \in Flow /\ flow' = Idle
  BY DEF Put, MayPut, Throw, status, IInv, TypeOK, PC
<1>2. TypeOK'
  BY <1>1 DEF Put, MayPut, Throw, status, IInv, TypeOK, Maybe, Permission, RowState
<1>3. (local # None => site = "granted")'
  BY <1>1, <1>2 DEF Put, MayPut, Throw, status, IInv, TypeOK
<1>4. ReadingOK'
  BY <1>1, <1>2 DEF Put, MayPut, Throw, status, IInv, TypeOK, ReadingOK, Holding, EnablingOK,
     Enabling
<1>5. EnablingOK' /\ DisablingOK'
  BY <1>1, <1>2 DEF Put, MayPut, Throw, status, IInv, TypeOK, EnablingOK, Enabling,
     DisablingOK, Disabling, Holding
<1>6. AlertOK'
  BY <1>1, <1>2 DEF Put, MayPut, Throw, status, IInv, TypeOK, AlertOK, EnablingOK, Enabling
<1>7. RegisteredIsTrue' /\ OffIsTrue'
  <2>1. CASE MayPut(flow.sub)
    <3>1. /\ current' = flow.sub /\ flow.sub \in Endpoints /\ rows'[flow.sub] = "mine"
          /\ local' = flow.sub \/ outside'
      BY <2>1 DEF Put, IInv, TypeOK, EnablingOK, Holding, Maybe
    <3> QED
      BY <3>1 DEF RegisteredIsTrue, OffIsTrue
  <2>2. CASE ~MayPut(flow.sub)
    BY <2>2, SaysNothing DEF Put, Throw
  <2> QED
    BY <2>1, <2>2
<1> QED
  BY <1>2, <1>3, <1>4, <1>5, <1>6, <1>7 DEF IInv

\* Whatever a failed effect has done, a subscription needs the permission.
LEMMA WorldAfterFailure ==
  ASSUME IInv, NEW conflict \in BOOLEAN, EnableFails(conflict)
  PROVE  /\ local' \in Maybe(Endpoints) /\ site' \in Permission
         /\ rows' \in [Endpoints -> RowState]
         /\ (local # None => site = "granted")'
<1>1. CASE UNCHANGED world
  BY <1>1 DEF world, IInv, TypeOK
<1>2. CASE Happened
  BY <1>2 DEF Happened, Fresh, IInv, TypeOK, Maybe, RowState, EnablingOK
<1> QED
  BY <1>1, <1>2 DEF EnableFails

\* A failure in enabling raises an alert and leaves the status.
LEMMA EnableFailsStep == ASSUME IInv, NEW conflict \in BOOLEAN, EnableFails(conflict) PROVE IInv'
<1> USE FlowFacts, SettingsAssumption
<1>1. flow' \in Flow /\ flow' = Idle
  BY DEF EnableFails, Throw, IInv, TypeOK
<1>2. TypeOK'
  BY <1>1, WorldAfterFailure DEF EnableFails, Throw, status, IInv, TypeOK
<1>3. Conclusions'
  <2>1. flow'.pc = "idle" /\ alert' # "none"
    BY <1>1 DEF EnableFails, Throw
  <2>2. RegisteredIsTrue' /\ OffIsTrue'
    BY <2>1, SaysNothing
  <2>3. (local # None => site = "granted")'
    BY WorldAfterFailure
  <2>4. ReadingOK' /\ EnablingOK' /\ DisablingOK' /\ AlertOK'
    BY <2>1 DEF EnableFails, Throw, status, IInv, ReadingOK, EnablingOK, Enabling,
                DisablingOK, Disabling, AlertOK
  <2> QED
    BY <2>2, <2>3, <2>4 DEF Conclusions
<1> QED
  BY <1>2, <1>3 DEF IInv, Conclusions

\* The row to delete is the status's, the hash the browser's.
LEMMA FindStep == ASSUME IInv, Find PROVE IInv'
<1> USE FlowFacts, SettingsAssumption
<1>1. /\ flow' \in Flow /\ flow'.pc \in {"delete", "drop"}
      /\ flow'.pc = "delete" => current # None /\ local # None /\ flow'.sub = local
  BY DEF Find, MayDelete, world, status, IInv, TypeOK, PC
<1>2. TypeOK'
  BY <1>1 DEF Find, MayDelete, world, status, IInv, TypeOK, Maybe, Permission, RowState
<1>3. Conclusions'
  BY <1>1, <1>2 DEF Find, MayDelete, world, status, IInv, TypeOK,
         Conclusions, ReadingOK, EnablingOK, Enabling, DisablingOK, Disabling,
         AlertOK, RegisteredIsTrue, OffIsTrue, Says, Holding, Matches
<1> QED
  BY <1>2, <1>3 DEF IInv, Conclusions

\* DELETE removes a row at most.
LEMMA DeleteStep == ASSUME IInv, Delete PROVE IInv'
<1> USE FlowFacts, SettingsAssumption
<1>1. flow' \in Flow /\ flow'.pc = "drop"
  <2>1. \A f \in Flow, b \in BOOLEAN :
          LET g == [f EXCEPT !.pc = "drop", !.deleted = b] IN g \in Flow /\ g.pc = "drop"
    BY DEF Flow, PC
  <2>2. PICK b \in BOOLEAN : flow' = [flow EXCEPT !.pc = "drop", !.deleted = b]
    BY DEF Delete
  <2> QED
    BY <2>1, <2>2 DEF IInv, TypeOK
<1>2. TypeOK'
  BY <1>1 DEF Delete, status, IInv, TypeOK, RowState
<1>3. Conclusions'
  BY <1>1, <1>2 DEF Delete, status, IInv, TypeOK,
         Conclusions, ReadingOK, EnablingOK, Enabling, DisablingOK, Disabling,
         AlertOK, RegisteredIsTrue, OffIsTrue, Says, Holding, Matches
<1> QED
  BY <1>2, <1>3 DEF IInv, Conclusions

\* A failed DELETE removes a row at most, too.
LEMMA DeleteFailsStep == ASSUME IInv, DeleteFails PROVE IInv'
<1> USE FlowFacts, SettingsAssumption
<1>1. flow' \in Flow /\ flow'.pc = "drop"
  BY DEF DeleteFails, Flow, IInv, TypeOK, PC
<1>2. TypeOK'
  BY <1>1 DEF DeleteFails, status, IInv, TypeOK, Maybe, Permission, RowState
<1>3. Conclusions'
  BY <1>1, <1>2 DEF DeleteFails, status, IInv, TypeOK,
         Conclusions, ReadingOK, EnablingOK, Enabling, DisablingOK, Disabling,
         AlertOK, RegisteredIsTrue, OffIsTrue, Says, Holding, Matches
<1> QED
  BY <1>2, <1>3 DEF IInv, Conclusions

\* Only both halves together end as switched off.
LEMMA DropStep == ASSUME IInv, NEW b \in BOOLEAN, Drop(b) PROVE IInv'
<1> USE FlowFacts, SettingsAssumption
<1>1. flow' \in Flow /\ flow' = Idle
  BY DEF Drop, BothDone, IInv, TypeOK, PC
<1>2. TypeOK'
  BY <1>1 DEF Drop, BothDone, IInv, TypeOK, Maybe, Permission, RowState
<1>3. Conclusions'
  BY <1>1, <1>2 DEF Drop, BothDone, IInv, TypeOK,
         Conclusions, ReadingOK, EnablingOK, Enabling, DisablingOK, Disabling,
         AlertOK, RegisteredIsTrue, OffIsTrue, Says, Holding, Matches
<1> QED
  BY <1>2, <1>3 DEF IInv, Conclusions

\* A row that goes is recorded in outside.
LEMMA RowGoesStep == ASSUME IInv, NEW e \in Endpoints, RowGoes(e) PROVE IInv'
<1> USE FlowFacts, SettingsAssumption
<1>1. flow' \in Flow /\ flow' = flow
  BY DEF RowGoes, status, IInv, TypeOK, PC
<1>2. TypeOK'
  BY <1>1 DEF RowGoes, status, IInv, TypeOK, Maybe, Permission, RowState
<1>3. Conclusions'
  BY <1>1, <1>2 DEF RowGoes, status, IInv, TypeOK,
         Conclusions, ReadingOK, EnablingOK, Enabling, DisablingOK, Disabling,
         AlertOK, RegisteredIsTrue, OffIsTrue, Says, Holding, Matches
<1> QED
  BY <1>2, <1>3 DEF IInv, Conclusions

\* So is a subscription that goes.
LEMMA BrowserChangesStep == ASSUME IInv, NEW p \in Permission, BrowserChanges(p) PROVE IInv'
<1> USE FlowFacts, SettingsAssumption
<1>1. flow' \in Flow /\ flow' = flow
  BY DEF BrowserChanges, status, IInv, TypeOK, PC
<1>2. TypeOK'
  BY <1>1 DEF BrowserChanges, status, IInv, TypeOK, Maybe, Permission, RowState
<1>3. Conclusions'
  BY <1>1, <1>2 DEF BrowserChanges, status, IInv, TypeOK,
         Conclusions, ReadingOK, EnablingOK, Enabling, DisablingOK, Disabling,
         AlertOK, RegisteredIsTrue, OffIsTrue, Says, Holding, Matches
<1> QED
  BY <1>2, <1>3 DEF IInv, Conclusions

\* That nothing fails any more changes nothing.
LEMMA CalmStep == ASSUME IInv, Calm \/ UNCHANGED vars PROVE IInv'
<1> USE FlowFacts, SettingsAssumption
<1>1. /\ UNCHANGED <<local, site, rows, page, current, offered, permission, alert, retry, held,
                    flow, outside>>
      /\ faults' \in BOOLEAN
  BY DEF Calm, vars, world, status, IInv, TypeOK
<1>2. TypeOK'
  BY <1>1 DEF Calm, vars, world, status, IInv, TypeOK
<1>3. Conclusions'
  BY <1>1, <1>2 DEF Calm, vars, world, status, IInv, TypeOK,
         Conclusions, ReadingOK, EnablingOK, Enabling, DisablingOK, Disabling,
         AlertOK, RegisteredIsTrue, OffIsTrue, Says, Holding, Matches
<1> QED
  BY <1>2, <1>3 DEF IInv, Conclusions

\* Every step keeps the invariant.
LEMMA NextInv == IInv /\ [Next]_vars => IInv'
<1> SUFFICES ASSUME IInv, [Next]_vars PROVE IInv'
  OBVIOUS
<1>1. CASE Step
  BY <1>1, ReadLocalStep, GetStatusStep, ReleaseStep, RegisterStep, ReplaceStep, SubscribeStep,
     PutStep, RequestPermissionStep, FindStep, DeleteStep, DropStep DEF Step
<1>2. CASE Press
  BY <1>2, RetryStatusStep, HandleEnableStep, HandleRepairConflictStep,
     HandleDisableStep DEF Press
<1>3. CASE Fails
  BY <1>3, FetchFailsStep, DeleteFailsStep, EnableFailsStep DEF Fails
<1>4. CASE Behind
  BY <1>4, RowGoesStep, BrowserChangesStep, ReloadStep, CalmStep DEF Behind
<1>5. CASE UNCHANGED vars
  BY <1>5, CalmStep
<1> QED
  BY <1>1, <1>2, <1>3, <1>4, <1>5 DEF Next

----------------------------------------------------------------------------
\* The inductive invariant holds throughout.
THEOREM Invariance == Spec => []IInv
  BY InitInv, NextInv, PTL DEF Spec

\* The page's state and the world it is about keep their types.
THEOREM TypeCorrect == Spec => []TypeOK
<1>1. IInv => TypeOK
  BY DEF IInv
<1> QED
  BY <1>1, Invariance, PTL

\* BrowserPushSettings.tsx: where the page says that this browser is registered, it
\* is, with the subscription the browser holds.
THEOREM RegisteredHolds == Spec => []RegisteredIsTrue
<1>1. IInv => RegisteredIsTrue
  BY DEF IInv
<1> QED
  BY <1>1, Invariance, PTL

\* BrowserPushSettings.tsx: where the page says that push is off, this browser
\* receives none of this account's pushes.
THEOREM OffHolds == Spec => []OffIsTrue
<1>1. IInv => OffIsTrue
  BY DEF IInv
<1> QED
  BY <1>1, Invariance, PTL
=============================================================================
