----------------------------- MODULE PushProofs -----------------------------
(***************************************************************************)
(* TLAPS proofs about module Push, for every set of subscriptions, events, *)
(* workers and lease ids, and every lease time, retry limit and retention. *)
(*                                                                         *)
(* The settlements are fenced by the lease id alone.  That is enough       *)
(* because a row has a lease id only while it is being processed, and no   *)
(* two claims share one (RowsOK, LocalsOK).  That a delivery is pushed     *)
(* once needs more: a claim that lost its lease without being overtaken    *)
(* lost it to the removal of its subscription (ClaimsOK), which no later   *)
(* claim of that delivery passes (PushedOK).                               *)
(***************************************************************************)
EXTENDS Push, TLAPS

\* Only a row in processing has a lease, and rows are only owed to
\* subscriptions that were registered once.
RowsOK ==
  \A d \in Keys :
    /\ deliveries[d].state # "processing" => deliveries[d].lease = NoLease
    /\ deliveries[d].state # "absent" \/ d \in listed => subs[d[2]].state # "unused"

\* The local variables of a claim in progress; no two claims share a lease id.
LocalsOK ==
  \A w \in Workers :
    /\ worker[w].pc = "idle" => worker[w].lease = NoLease
    /\ worker[w].pc # "idle" => worker[w].key \in Keys /\ worker[w].lease \in LeaseIds
    /\ \A v \in Workers : worker[v].lease = worker[w].lease
                            => v = w \/ worker[w].lease = NoLease

Gone(d) == subs[d[2]].state = "gone"

At(w, d, pcs) == worker[w].key = d /\ worker[w].pc \in pcs

PastFind == {"lookup", "send", "drop", "delivered", "retry", "permanent"}

\* A claim nobody overtook keeps its lease as long as its subscription.
ClaimsOK ==
  \A d \in Keys, w \in Workers :
    d \notin doubtful /\ At(w, d, PC \ {"idle"}) => Holds(w) \/ Gone(d)

\* Of a delivery that was never taken over or inserted again, one claim at most
\* is past its subscription check; after an accepted push that claim has only
\* its settlement left, and no other claim passes the check.
PushedOK ==
  \A d \in Keys : d \notin doubtful =>
    /\ \A w, v \in Workers : At(w, d, PastFind) /\ At(v, d, PastFind) => w = v
    /\ accepted[d] > 0 =>
         /\ accepted[d] = 1
         /\ deliveries[d].state # "pending" \/ Gone(d)
         /\ \A w \in Workers : At(w, d, PastFind) => worker[w].pc = "delivered"
         /\ \A w \in Workers : At(w, d, {"find"}) => Gone(d)

IInv == /\ TypeOK
        /\ RowsOK
        /\ LocalsOK
        /\ OneSettler
        /\ RemovalRevokesClaims
        /\ ClaimsOK
        /\ PushedOK

----------------------------------------------------------------------------
(* The rows and local states the actions write are of their types. *)

LEMMA RowTypes ==
  /\ AbsentDelivery \in Delivery
  /\ \A s \in {"unused", "gone"} : NoSub(s) \in SubRow /\ NoSub(s).state = s
  /\ IdleWorker \in WorkerState
  /\ IdleUpkeep \in UpkeepState
BY DEF AbsentDelivery, Delivery, DeliveryState, NoSub, SubRow, IdleWorker, WorkerState, PC,
       IdleUpkeep, UpkeepState

LEMMA RowFields ==
  /\ AbsentDelivery.state = "absent" /\ AbsentDelivery.lease = NoLease
  /\ IdleWorker.pc = "idle" /\ IdleWorker.lease = NoLease
BY DEF AbsentDelivery, IdleWorker

\* The whole invariant holds before anything is queued.
LEMMA InitInv == Init => IInv
<1> SUFFICES ASSUME Init PROVE IInv
  OBVIOUS
<1> USE PushAssumption
<1>1. TypeOK
  <2>1. StoredRow \subseteq SubRow
    BY DEF StoredRow, SubRow, Never
  <2>2. subs \in [SubIds -> SubRow]
    BY <2>1, RowTypes DEF Init
  <2>3. deliveries \in [Keys -> Delivery] /\ worker \in [Workers -> WorkerState]
    BY RowTypes DEF Init
  <2>4. upkeep \in UpkeepState
    BY RowTypes DEF Init
  <2>5. accepted \in [Keys -> 0..2]
    BY DEF Init
  <2> QED
    BY <2>2, <2>3, <2>4, <2>5 DEF Init, TypeOK
<1>2. \A w \in Workers : worker[w].pc = "idle" /\ worker[w].lease = NoLease
  BY RowFields DEF Init
<1>3. \A d \in Keys : /\ deliveries[d].state = "absent" /\ deliveries[d].lease = NoLease
                       /\ accepted[d] = 0
  BY RowFields DEF Init
<1>4. RowsOK
  BY <1>3 DEF RowsOK, Init
<1>5. LocalsOK /\ OneSettler /\ RemovalRevokesClaims
  BY <1>2 DEF LocalsOK, OneSettler, RemovalRevokesClaims, Holds
<1>6. ClaimsOK /\ PushedOK
  BY <1>2, <1>3 DEF ClaimsOK, PushedOK, At, PastFind
<1> QED
  BY <1>1, <1>4, <1>5, <1>6 DEF IInv

----------------------------------------------------------------------------
(* Steps that touch no row and no claim. *)

\* The clock, the inbox worker's list, requests and maintenance that only read.
LEMMA FrameStep ==
  ASSUME IInv, TypeOK', UNCHANGED <<subs, deliveries, worker, accepted, doubtful>>,
         \A d \in Keys : d \in listed' => subs[d[2]].state # "unused"
  PROVE  IInv'
<1>1. \A w \in Workers : Holds(w)' <=> Holds(w)
  BY DEF Holds, Fenced
<1>2. RowsOK'
  BY DEF IInv, RowsOK
<1>3. LocalsOK'
  BY DEF IInv, LocalsOK
<1>4. OneSettler' /\ RemovalRevokesClaims'
  BY <1>1 DEF IInv, OneSettler, RemovalRevokesClaims, Live
<1>5. ClaimsOK' /\ PushedOK'
  BY <1>1 DEF IInv, ClaimsOK, PushedOK, At, Gone
<1> QED
  BY <1>2, <1>3, <1>4, <1>5 DEF IInv

LEMMA TickStep == ASSUME IInv, Tick PROVE IInv'
<1>1. TypeOK'
  BY DEF IInv, TypeOK, Tick
<1> QED
  BY <1>1, FrameStep DEF Tick, IInv, RowsOK

LEMMA ListForStep == ASSUME IInv, NEW e \in Events, ListFor(e) PROVE IInv'
<1>1. \A d \in listed' : d \in Keys /\ Live(d[2])
  BY DEF ListFor, Keys
<1>2. TypeOK'
  BY <1>1 DEF IInv, TypeOK, ListFor
<1>3. \A d \in listed' : subs[d[2]].state # "unused"
  BY <1>1 DEF Live
<1> QED
  BY <1>2, <1>3, FrameStep DEF ListFor

LEMMA CompleteEventStep == ASSUME IInv, NEW e \in Events, CompleteEvent(e) PROVE IInv'
<1>1. TypeOK'
  BY DEF IInv, TypeOK, CompleteEvent
<1> QED
  BY <1>1, FrameStep DEF CompleteEvent, IInv, RowsOK

LEMMA ReceivePutStep ==
  ASSUME IInv, NEW c \in Clients, NEW p \in Endpoints, NEW until \in {1, Never},
         ReceivePut(c, p, until)
  PROVE  IInv'
<1>1. c \in Sessions /\ until \in Nat
  BY PushAssumption DEF Never
<1>2. TypeOK'
  BY <1>1 DEF IInv, TypeOK, ReceivePut
<1> QED
  BY <1>2, FrameStep DEF ReceivePut, IInv, RowsOK

LEMMA PutRefusedStep == ASSUME IInv, NEW r \in putting, PutRefused(r) PROVE IInv'
<1>1. TypeOK'
  BY DEF IInv, TypeOK, PutRefused, PutEnds
<1> QED
  BY <1>1, FrameStep DEF PutRefused, IInv, RowsOK

LEMMA DropAccountStep == ASSUME IInv, NEW u \in Users, DropAccount(u) PROVE IInv'
<1>1. TypeOK'
  BY DEF IInv, TypeOK, DropAccount
<1> QED
  BY <1>1, FrameStep DEF DropAccount, IInv, RowsOK

LEMMA UpkeepReads ==
  ASSUME IInv, StartUpkeep \/ UpkeepFails \/ \E u \in Users : ResolveUser(u)
  PROVE  IInv'
<1>1. upkeep' \in UpkeepState
  <2>1. CASE StartUpkeep
    <3>1. {Owner[s] : s \in {i \in SubIds : Live(i)}} \subseteq Users
      BY PushAssumption
    <3>2. \A T \in SUBSET Users :
            [IdleUpkeep EXCEPT !.pc = "resolve", !.todo = T] \in UpkeepState
      BY DEF IdleUpkeep, UpkeepState
    <3> QED
      BY <2>1, <3>1, <3>2 DEF StartUpkeep
  <2>2. CASE UpkeepFails
    BY <2>2, RowTypes DEF UpkeepFails
  <2>3. ASSUME NEW u \in Users, ResolveUser(u) PROVE upkeep' \in UpkeepState
    <3>1. \A r \in UpkeepState, T, E \in SUBSET Users :
            [r EXCEPT !.todo = T, !.existing = E] \in UpkeepState
      BY DEF UpkeepState
    <3>2. upkeep \in UpkeepState /\ upkeep.todo \in SUBSET Users
                                 /\ upkeep.existing \in SUBSET Users
      BY DEF IInv, TypeOK, UpkeepState
    <3> DEFINE T == upkeep.todo \ {u}
               E == IF u \in accounts THEN upkeep.existing \cup {u} ELSE upkeep.existing
    <3>3. T \in SUBSET Users /\ E \in SUBSET Users
      BY <3>2
    <3>4. upkeep' = [upkeep EXCEPT !.todo = T, !.existing = E]
      BY <2>3 DEF ResolveUser
    <3> QED
      BY <3>1, <3>2, <3>3, <3>4
  <2> QED
    BY <2>1, <2>2, <2>3
<1>2. UNCHANGED <<now, subs, deliveries, erased, accounts, open, listed, putting, worker,
                  accepted, doubtful>>
  BY DEF StartUpkeep, UpkeepFails, ResolveUser
<1>3. TypeOK'
  BY <1>1, <1>2 DEF IInv, TypeOK
<1> QED
  BY <1>2, <1>3, FrameStep DEF IInv, RowsOK

----------------------------------------------------------------------------
(* Steps that end claims and remove subscriptions or rows.                 *)

\* A row that leaves the queue: its subscription is gone, or it was not being
\* processed and is purged.
Dropped(d) ==
  /\ deliveries'[d].lease = NoLease
  /\ deliveries'[d].state \in {"absent", "permanent"}
  /\ \/ Gone(d)'
     \/ deliveries[d].state # "processing" /\ deliveries'[d].state = "absent"

\* Whatever removes subscriptions and ends claims preserves the invariant, as
\* long as no row of a removed subscription keeps its lease.
LEMMA RemovalStep ==
  ASSUME IInv, TypeOK', UNCHANGED <<listed, accepted, doubtful>>,
         \A i \in SubIds : subs'[i] = subs[i]
                             \/ (subs[i].state # "unused" /\ subs'[i].state = "gone"),
         \A d \in Keys : deliveries'[d] = deliveries[d] \/ Dropped(d),
         \A d \in Keys : Live(d[2]) /\ ~Live(d[2])' => deliveries'[d].lease = NoLease,
         \A w \in Workers : worker'[w] = worker[w] \/ worker'[w] = IdleWorker
  PROVE  IInv'
<1> USE PushAssumption
<1>1. \A d \in Keys : d[2] \in SubIds
  BY DEF Keys
<1>2. \A d \in Keys : Gone(d) => Gone(d)'
  BY <1>1 DEF Gone
<1>3. \A w \in Workers : worker'[w].pc # "idle" => worker'[w] = worker[w]
  BY RowFields
<1>4. \A w \in Workers : Holds(w)' =>
        /\ Holds(w)
        /\ worker'[w] = worker[w] /\ worker[w].key \in Keys
        /\ deliveries'[worker[w].key] = deliveries[worker[w].key]
        /\ deliveries'[worker[w].key].lease # NoLease
  BY <1>3 DEF IInv, LocalsOK, Holds, Fenced, Dropped
<1>5. RowsOK'
  <2> SUFFICES ASSUME NEW d \in Keys
               PROVE  /\ deliveries'[d].state # "processing" => deliveries'[d].lease = NoLease
                      /\ deliveries'[d].state # "absent" \/ d \in listed'
                           => subs'[d[2]].state # "unused"
    BY DEF RowsOK
  <2>1. subs[d[2]].state # "unused" => subs'[d[2]].state # "unused"
    BY <1>1
  <2>2. CASE deliveries'[d] = deliveries[d]
    BY <2>1, <2>2 DEF IInv, RowsOK
  <2>3. CASE Dropped(d)
    BY <2>1, <2>3 DEF IInv, RowsOK, Dropped, Gone
  <2> QED
    BY <2>2, <2>3
<1>6. LocalsOK'
  <2>1. \A w \in Workers : worker'[w].lease # NoLease => worker'[w] = worker[w]
    BY RowFields
  <2> QED
    BY <1>3, <2>1, RowFields DEF IInv, LocalsOK
<1>7. OneSettler'
  BY <1>4 DEF IInv, OneSettler
<1>8. RemovalRevokesClaims'
  <2> SUFFICES ASSUME NEW w \in Workers, Holds(w)',
                      worker'[w].pc \in {"lookup", "send", "delivered", "permanent", "retry"}
               PROVE  Live(worker[w].key[2])'
    BY DEF RemovalRevokesClaims
  <2>1. Live(worker[w].key[2])
    BY <1>4 DEF IInv, RemovalRevokesClaims
  <2> QED
    BY <1>4, <2>1
<1>9. ClaimsOK'
  <2> SUFFICES ASSUME NEW d \in Keys, NEW w \in Workers, d \notin doubtful',
                      At(w, d, PC \ {"idle"})'
               PROVE  Holds(w)' \/ Gone(d)'
    BY DEF ClaimsOK
  <2>1. worker'[w] = worker[w] /\ At(w, d, PC \ {"idle"})
    BY <1>3 DEF At
  <2>2. Holds(w) \/ Gone(d)
    BY <2>1 DEF IInv, ClaimsOK
  <2>3. ASSUME Holds(w) PROVE Holds(w)' \/ Gone(d)'
    <3>1. deliveries[d].state = "processing" /\ worker[w].key = d
      BY <2>1, <2>3 DEF IInv, OneSettler, At
    <3> QED
      BY <2>1, <2>3, <3>1 DEF Dropped, Holds, Fenced
  <2> QED
    BY <1>2, <2>2, <2>3
<1>10. PushedOK'
  <2> SUFFICES ASSUME NEW d \in Keys, d \notin doubtful PROVE
        /\ \A w, v \in Workers : At(w, d, PastFind)' /\ At(v, d, PastFind)' => w = v
        /\ accepted[d] > 0 =>
             /\ accepted[d] = 1
             /\ deliveries'[d].state # "pending" \/ Gone(d)'
             /\ \A w \in Workers : At(w, d, PastFind)' => worker'[w].pc = "delivered"
             /\ \A w \in Workers : At(w, d, {"find"})' => Gone(d)'
    BY DEF PushedOK
  <2>1. \A w \in Workers :
          /\ At(w, d, PastFind)' => At(w, d, PastFind) /\ worker'[w] = worker[w]
          /\ At(w, d, {"find"})' => At(w, d, {"find"})
    BY <1>3 DEF At, PastFind
  <2>2. deliveries'[d].state = "pending" => deliveries[d].state = "pending"
    BY DEF Dropped
  <2> QED
    BY <1>2, <2>1, <2>2 DEF IInv, PushedOK
<1> QED
  BY <1>5, <1>6, <1>7, <1>8, <1>9, <1>10 DEF IInv

\* What settleDeliveriesForSubscription and the DELETE of the rows write.
LEMMA RemoveFacts ==
  ASSUME IInv, NEW gone \in SUBSET SubIds, \A s \in gone : Live(s), Remove(gone)
  PROVE  /\ subs' \in [SubIds -> SubRow]
         /\ deliveries' \in [Keys -> Delivery]
         /\ \A i \in SubIds : subs'[i] = subs[i]
                                \/ (subs[i].state # "unused" /\ subs'[i].state = "gone")
         /\ \A d \in Keys : deliveries'[d] = deliveries[d] \/ Dropped(d)
         /\ \A d \in Keys : Live(d[2]) /\ ~Live(d[2])' => deliveries'[d].lease = NoLease
<1> USE PushAssumption
<1>1. /\ subs \in [SubIds -> SubRow]
      /\ deliveries \in [Keys -> Delivery]
      /\ now \in Nat
  BY DEF IInv, TypeOK
<1>2. \A i \in SubIds : /\ i \in gone => subs'[i] = NoSub("gone") /\ subs[i].state = "live"
                        /\ i \notin gone => subs'[i] = subs[i]
  BY DEF Remove, Live
<1> DEFINE Removed(r) == [r EXCEPT !.state = "permanent", !.settledAt = now,
                                   !.lease = NoLease, !.leaseUntil = 0]
<1>3. \A d \in Keys : /\ SettledByRemoval(d, gone) => deliveries'[d] = Removed(deliveries[d])
                      /\ ~SettledByRemoval(d, gone) => deliveries'[d] = deliveries[d]
  BY DEF Remove
<1>4. \A r \in Delivery : /\ Removed(r) \in Delivery
                          /\ Removed(r).state = "permanent" /\ Removed(r).lease = NoLease
  BY <1>1 DEF Delivery, DeliveryState
<1> HIDE DEF Removed
<1>5. \A d \in Keys : d[2] \in SubIds
  BY DEF Keys
<1>6. subs' \in [SubIds -> SubRow]
  <2>1. \A i \in SubIds : subs'[i] \in SubRow
    BY <1>1, <1>2, RowTypes
  <2> QED
    BY <2>1 DEF Remove
<1>7. deliveries' \in [Keys -> Delivery]
  <2>1. \A d \in Keys : deliveries'[d] \in Delivery
    BY <1>1, <1>3, <1>4
  <2> QED
    BY <2>1 DEF Remove
<1>8. \A d \in Keys : deliveries'[d] = deliveries[d] \/ Dropped(d)
  BY <1>1, <1>2, <1>3, <1>4, RowTypes DEF Dropped, Gone, SettledByRemoval
<1>9. \A d \in Keys : Live(d[2]) /\ ~Live(d[2])' => deliveries'[d].lease = NoLease
  <2> SUFFICES ASSUME NEW d \in Keys, Live(d[2]), ~Live(d[2])'
               PROVE  deliveries'[d].lease = NoLease
    OBVIOUS
  <2>1. d[2] \in gone
    BY <1>2, <1>5 DEF Live
  <2>2. CASE Unsettled(d)
    BY <1>1, <1>3, <1>4, <2>1, <2>2 DEF SettledByRemoval
  <2>3. CASE ~Unsettled(d)
    BY <1>3, <2>3 DEF SettledByRemoval, Unsettled, IInv, RowsOK
  <2> QED
    BY <2>2, <2>3
<1>10. \A i \in SubIds : subs'[i] = subs[i]
                           \/ (subs[i].state # "unused" /\ subs'[i].state = "gone")
  BY <1>2, RowTypes
<1> QED
  BY <1>6, <1>7, <1>8, <1>9, <1>10

\* Removals that leave the claims alone.
LEMMA PlainRemovalStep ==
  ASSUME IInv, NEW gone \in SUBSET SubIds, \A s \in gone : Live(s), Remove(gone),
         upkeep' \in UpkeepState,
         UNCHANGED <<now, erased, accounts, open, listed, putting, worker, accepted, doubtful>>
  PROVE  IInv'
<1>1. /\ subs' \in [SubIds -> SubRow] /\ deliveries' \in [Keys -> Delivery]
      /\ \A i \in SubIds : subs'[i] = subs[i]
                             \/ (subs[i].state # "unused" /\ subs'[i].state = "gone")
      /\ \A d \in Keys : deliveries'[d] = deliveries[d] \/ Dropped(d)
      /\ \A d \in Keys : Live(d[2]) /\ ~Live(d[2])' => deliveries'[d].lease = NoLease
  BY RemoveFacts
<1>2. TypeOK'
  BY <1>1 DEF IInv, TypeOK
<1> QED
  BY <1>1, <1>2, RemovalStep

LEMMA DeleteBoundStep ==
  ASSUME IInv, NEW c \in Sessions, NEW s \in SubIds, DeleteBoundSubscription(c, s)
  PROVE  IInv'
<1>1. {s} \in SUBSET SubIds /\ \A i \in {s} : Live(i)
  BY DEF DeleteBoundSubscription
<1>2. Remove({s}) /\ UNCHANGED <<now, erased, accounts, open, listed, putting, worker,
                                 upkeep, accepted, doubtful>>
  BY DEF DeleteBoundSubscription
<1>3. upkeep' \in UpkeepState
  BY <1>2 DEF IInv, TypeOK
<1> QED
  BY <1>1, <1>2, <1>3, PlainRemovalStep

LEMMA RevokeSessionStep == ASSUME IInv, NEW c \in Sessions, RevokeSession(c) PROVE IInv'
<1> DEFINE gone == {s \in SubIds : Live(s) /\ Owner[s] = SessionUser[c] /\ subs[s].session = c}
<1>1. gone \in SUBSET SubIds /\ \A s \in gone : Live(s)
  OBVIOUS
<1>2. Remove(gone) /\ UNCHANGED <<now, erased, accounts, open, listed, putting, worker,
                                  upkeep, accepted, doubtful>>
  BY DEF RevokeSession
<1>3. upkeep' \in UpkeepState
  BY <1>2 DEF IInv, TypeOK
<1> QED
  BY <1>1, <1>2, <1>3, PlainRemovalStep

LEMMA DeleteOrphanedStep == ASSUME IInv, DeleteOrphaned PROVE IInv'
<1>1. /\ Orphaned(upkeep.existing) \in SUBSET SubIds
      /\ \A s \in Orphaned(upkeep.existing) : Live(s)
  BY DEF Orphaned
<1>2. [IdleUpkeep EXCEPT !.pc = "expire"] \in UpkeepState
  BY DEF IdleUpkeep, UpkeepState
<1> QED
  BY <1>1, <1>2, PlainRemovalStep DEF DeleteOrphaned

LEMMA DeleteExpiredStep == ASSUME IInv, DeleteExpiredOrRotated PROVE IInv'
<1> DEFINE gone == {s \in SubIds : Live(s) /\ subs[s].until <= now}
<1>1. gone \in SUBSET SubIds /\ \A s \in gone : Live(s)
  OBVIOUS
<1>2. \A r \in UpkeepState, t \in Nat : [r EXCEPT !.pc = "purge", !.at = t] \in UpkeepState
  BY DEF UpkeepState
<1>3. upkeep' \in UpkeepState
  BY <1>2 DEF DeleteExpiredOrRotated, IInv, TypeOK
<1>4. Remove(gone)
  BY DEF DeleteExpiredOrRotated
<1> QED
  BY <1>1, <1>3, <1>4, PlainRemovalStep DEF DeleteExpiredOrRotated

LEMMA DropSubscriptionStep == ASSUME IInv, NEW w \in Workers, DropSubscription(w) PROVE IInv'
<1> DEFINE s == worker[w].key[2]
<1>1. worker[w].pc = "drop" /\ worker[w].key \in Keys /\ s \in SubIds
  BY DEF DropSubscription, IInv, LocalsOK, Keys
<1>2. /\ worker' \in [Workers -> WorkerState]
      /\ \A v \in Workers : worker'[v] = worker[v] \/ worker'[v] = IdleWorker
  BY RowTypes DEF DropSubscription, IInv, TypeOK
<1>3. /\ subs' \in [SubIds -> SubRow] /\ deliveries' \in [Keys -> Delivery]
      /\ \A i \in SubIds : subs'[i] = subs[i]
                             \/ (subs[i].state # "unused" /\ subs'[i].state = "gone")
      /\ \A d \in Keys : deliveries'[d] = deliveries[d] \/ Dropped(d)
      /\ \A d \in Keys : Live(d[2]) /\ ~Live(d[2])' => deliveries'[d].lease = NoLease
  <2>1. CASE Live(s)
    <3>1. {s} \in SUBSET SubIds /\ (\A i \in {s} : Live(i)) /\ Remove({s})
      BY <1>1, <2>1 DEF DropSubscription
    <3> QED
      BY <3>1, RemoveFacts
  <2>2. CASE ~Live(s)
    BY <2>2 DEF DropSubscription, Live, IInv, TypeOK
  <2> QED
    BY <2>1, <2>2
<1>4. TypeOK'
  BY <1>2, <1>3 DEF IInv, TypeOK, DropSubscription
<1> QED
  BY <1>2, <1>3, <1>4, RemovalStep DEF DropSubscription

LEMMA CrashStep == ASSUME IInv, NEW w \in Workers, Crash(w) PROVE IInv'
<1>1. /\ worker' \in [Workers -> WorkerState]
      /\ \A v \in Workers : worker'[v] = worker[v] \/ worker'[v] = IdleWorker
  BY RowTypes DEF Crash, IInv, TypeOK
<1>2. TypeOK'
  BY <1>1 DEF IInv, TypeOK, Crash
<1> QED
  BY <1>1, <1>2, RemovalStep DEF Crash, Live

LEMMA DeleteAccountStep == ASSUME IInv, NEW u \in Users, DeleteAccount(u) PROVE IInv'
<1> USE PushAssumption
<1>1. \A i \in SubIds : subs'[i] = IF Live(i) /\ Owner[i] = u THEN NoSub("gone") ELSE subs[i]
  BY DEF DeleteAccount
<1>2. \A d \in Keys :
        deliveries'[d] = IF Owner[d[2]] = u THEN AbsentDelivery ELSE deliveries[d]
  BY DEF DeleteAccount
<1>3. \A d \in Keys : d[2] \in SubIds
  BY DEF Keys
<1>4. \A i \in SubIds : subs'[i] = subs[i]
                          \/ (subs[i].state # "unused" /\ subs'[i].state = "gone")
  BY <1>1, RowTypes DEF Live
<1>5. \A d \in Keys : deliveries'[d] = deliveries[d] \/ Dropped(d)
  <2> SUFFICES ASSUME NEW d \in Keys, Owner[d[2]] = u
               PROVE  Dropped(d)
    BY <1>2
  <2>1. deliveries'[d].state = "absent" /\ deliveries'[d].lease = NoLease
    BY <1>2, RowFields
  <2>2. Gone(d)' \/ subs[d[2]].state = "unused"
    <3>1. subs[d[2]].state \in {"unused", "live", "gone"}
      BY <1>3 DEF IInv, TypeOK, SubRow
    <3> QED
      BY <1>1, <1>3, <3>1, RowTypes DEF Gone, Live
  <2>3. subs[d[2]].state = "unused" => deliveries[d].state # "processing"
    BY DEF IInv, RowsOK
  <2> QED
    BY <2>1, <2>2, <2>3 DEF Dropped
<1>6. \A d \in Keys : Live(d[2]) /\ ~Live(d[2])' => deliveries'[d].lease = NoLease
  BY <1>1, <1>2, <1>3, RowFields DEF Live
<1>7. /\ \A i \in SubIds : subs'[i] \in SubRow
      /\ \A d \in Keys : deliveries'[d] \in Delivery
  BY <1>1, <1>2, RowTypes DEF IInv, TypeOK
<1>8. subs' \in [SubIds -> SubRow] /\ deliveries' \in [Keys -> Delivery]
  BY <1>7 DEF DeleteAccount
<1>9. TypeOK'
  BY <1>8 DEF IInv, TypeOK, DeleteAccount
<1> QED
  BY <1>4, <1>5, <1>6, <1>9, RemovalStep DEF DeleteAccount

LEMMA PurgeStep == ASSUME IInv, PurgeTerminalDeliveries PROVE IInv'
<1>1. \A d \in Keys : deliveries'[d] = IF Purgeable(d) THEN AbsentDelivery ELSE deliveries[d]
  BY DEF PurgeTerminalDeliveries
<1>2. \A d \in Keys : deliveries'[d] = deliveries[d] \/ Dropped(d)
  BY <1>1, RowFields DEF Dropped, Purgeable, Settled
<1>3. \A d \in Keys : deliveries'[d] \in Delivery
  BY <1>1, RowTypes DEF IInv, TypeOK
<1>4. deliveries' \in [Keys -> Delivery]
  BY <1>3 DEF PurgeTerminalDeliveries
<1>5. TypeOK'
  BY <1>4, RowTypes DEF IInv, TypeOK, PurgeTerminalDeliveries
<1> QED
  BY <1>2, <1>5, RemovalStep DEF PurgeTerminalDeliveries, Live

----------------------------------------------------------------------------
(* The write of a PUT, and the inbox worker's insert. *)

LEMMA PutSubscriptionStep == ASSUME IInv, NEW r \in putting, PutSubscription(r) PROVE IInv'
<1> USE PushAssumption
<1> DEFINE row == [state |-> "live", session |-> r.session, until |-> r.until]
<1>1. row \in SubRow
  BY DEF IInv, TypeOK, SubRow
<1>2. PICK s \in SubIds : subs[s].state \in {"live", "unused"}
                          /\ subs' = [subs EXCEPT ![s] = row]
  BY DEF PutSubscription, Registered, Live
<1>3. row.state = "live"
  OBVIOUS
<1> HIDE DEF row
<1>4. \A i \in SubIds : subs'[i] = IF i = s THEN row ELSE subs[i]
  BY <1>2 DEF IInv, TypeOK
<1>5. UNCHANGED <<now, deliveries, erased, accounts, open, listed, worker, upkeep,
                  accepted, doubtful>> /\ putting' \subseteq putting
  BY DEF PutSubscription, PutEnds
<1>6. TypeOK'
  BY <1>1, <1>2, <1>5 DEF IInv, TypeOK
<1>7. \A d \in Keys : d[2] \in SubIds
  BY DEF Keys
<1>8. \A d \in Keys : /\ Gone(d) => Gone(d)'
                      /\ Live(d[2]) => Live(d[2])'
                      /\ subs[d[2]].state # "unused" => subs'[d[2]].state # "unused"
  BY <1>2, <1>3, <1>4, <1>7 DEF Gone, Live
<1>9. \A w \in Workers : /\ Holds(w)' <=> Holds(w)
                         /\ Holds(w) => worker[w].key \in Keys
  BY <1>5 DEF Holds, Fenced, IInv, LocalsOK
<1>10. RowsOK' /\ LocalsOK'
  BY <1>5, <1>8 DEF IInv, RowsOK, LocalsOK
<1>11. OneSettler'
  BY <1>5, <1>9 DEF IInv, OneSettler
<1>12. RemovalRevokesClaims'
  <2>1. \A w \in Workers : worker[w].key \in Keys /\ Live(worker[w].key[2])
                             => Live(worker[w].key[2])'
    BY <1>5, <1>8 DEF Live
  <2> QED
    BY <1>5, <1>9, <2>1 DEF IInv, RemovalRevokesClaims
<1>13. ClaimsOK'
  BY <1>5, <1>8, <1>9 DEF IInv, ClaimsOK, At
<1>14. PushedOK'
  BY <1>5, <1>8 DEF IInv, PushedOK, At
<1> QED
  BY <1>6, <1>10, <1>11, <1>12, <1>13, <1>14 DEF IInv

LEMMA MaterializeStep == ASSUME IInv, Materialize PROVE IInv'
<1> USE PushAssumption
<1> DEFINE new == {d \in listed : d[1] \in open /\ Recipient[d[1]] \notin erased
                                    /\ deliveries[d].state = "absent"}
           row == [AbsentDelivery EXCEPT !.state = "pending"]
<1>1. row \in Delivery /\ row.state = "pending" /\ row.lease = NoLease
  BY DEF AbsentDelivery, Delivery, DeliveryState
<1> HIDE DEF row
<1>2. /\ \A d \in Keys : deliveries'[d] = IF d \in new THEN row ELSE deliveries[d]
      /\ doubtful' = doubtful \cup {d \in new : accepted[d] > 0}
      /\ listed' = {}
      /\ deliveries' = [d \in Keys |-> IF d \in new THEN row ELSE deliveries[d]]
      /\ UNCHANGED <<now, subs, erased, accounts, open, putting, worker, upkeep, accepted>>
  BY DEF Materialize, row
<1>3. \A d \in new : d \in listed /\ deliveries[d].state = "absent"
  OBVIOUS
<1>4. new \subseteq Keys
  BY DEF IInv, TypeOK
<1> HIDE DEF new
<1>5. TypeOK'
  <2>1. \A d \in Keys : deliveries'[d] \in Delivery
    BY <1>1, <1>2 DEF IInv, TypeOK
  <2>2. deliveries' \in [Keys -> Delivery]
    BY <1>2, <2>1
  <2> QED
    BY <1>2, <1>4, <2>2 DEF IInv, TypeOK
<1>6. RowsOK'
  BY <1>1, <1>2, <1>3 DEF IInv, RowsOK
<1>7. LocalsOK'
  BY <1>2 DEF IInv, LocalsOK
<1>8. \A w \in Workers :
        /\ Holds(w)' <=> Holds(w)
        /\ Holds(w) => worker[w].key \in Keys /\ worker[w].key \notin new
  <2> SUFFICES ASSUME NEW w \in Workers, worker[w].pc # "idle"
               PROVE  /\ Holds(w)' <=> Holds(w)
                      /\ Holds(w) => worker[w].key \in Keys /\ worker[w].key \notin new
    BY <1>2 DEF Holds
  <2>1. worker[w].key \in Keys /\ worker[w].lease # NoLease
    BY DEF IInv, LocalsOK
  <2>2. worker[w].key \in new => /\ deliveries[worker[w].key].lease = NoLease
                                 /\ deliveries'[worker[w].key].lease = NoLease
    BY <1>1, <1>2, <1>3, <2>1 DEF IInv, RowsOK
  <2> QED
    BY <1>2, <2>1, <2>2 DEF Holds, Fenced
<1>9. OneSettler'
  BY <1>2, <1>8 DEF IInv, OneSettler
<1>10. RemovalRevokesClaims'
  BY <1>2, <1>8 DEF IInv, RemovalRevokesClaims, Live
<1>11. ClaimsOK'
  BY <1>2, <1>8 DEF IInv, ClaimsOK, At, Gone
<1>12. PushedOK'
  <2> SUFFICES ASSUME NEW d \in Keys, d \notin doubtful'
               PROVE  accepted[d] > 0 => deliveries'[d].state # "pending" \/ Gone(d)
    BY <1>2 DEF IInv, PushedOK, At, Gone
  <2> QED
    BY <1>2 DEF IInv, PushedOK
<1> QED
  BY <1>5, <1>6, <1>7, <1>9, <1>10, <1>11, <1>12 DEF IInv

----------------------------------------------------------------------------
(* The steps of deliverOne. *)

\* A claim takes a fresh lease, so the claim it overtakes loses its own.
LEMMA ClaimStep ==
  ASSUME IInv, NEW w \in Workers, NEW d \in Keys, NEW l \in LeaseIds,
         ClaimPendingDelivery(w, d, l)
  PROVE  IInv'
<1> USE PushAssumption
<1> DEFINE row == [deliveries[d] EXCEPT !.state = "processing", !.lease = l,
                                        !.leaseUntil = now + LeaseTime]
           loc == [pc |-> "find", key |-> d, lease |-> l,
                   attempts |-> deliveries[d].attempts, at |-> now]
<1>1. /\ deliveries \in [Keys -> Delivery] /\ worker \in [Workers -> WorkerState]
      /\ now \in Nat /\ doubtful \subseteq Keys
  BY DEF IInv, TypeOK
<1>2. /\ row \in Delivery /\ row.state = "processing" /\ row.lease = l
      /\ row.attempts = deliveries[d].attempts
  <2>1. now + LeaseTime \in Nat /\ deliveries[d] \in Delivery
    BY <1>1
  <2> QED
    BY <2>1 DEF Delivery, DeliveryState
<1>3. /\ loc \in WorkerState /\ loc.pc = "find" /\ loc.key = d /\ loc.lease = l
      /\ loc.attempts = deliveries[d].attempts
  BY <1>1 DEF WorkerState, PC, Delivery
<1>4. deliveries' = [deliveries EXCEPT ![d] = row] /\ worker' = [worker EXCEPT ![w] = loc]
  BY DEF ClaimPendingDelivery
<1> HIDE DEF row, loc
<1>5. /\ deliveries'[d] = row
      /\ \A e \in Keys : e # d => deliveries'[e] = deliveries[e]
      /\ worker'[w] = loc
      /\ \A v \in Workers : v # w => worker'[v] = worker[v]
  BY <1>1, <1>4
<1>6. /\ worker[w].pc = "idle"
      /\ deliveries[d].state \in {"pending", "processing"}
      /\ \A v \in Workers : worker[v].lease # l
      /\ UNCHANGED <<now, subs, erased, accounts, open, listed, putting, upkeep, accepted>>
      /\ doubtful \subseteq doubtful' /\ doubtful' \subseteq Keys
      /\ deliveries[d].state = "processing" => d \in doubtful'
  BY <1>1 DEF ClaimPendingDelivery, Claimable, FreshLease
<1>7. TypeOK'
  BY <1>1, <1>2, <1>3, <1>4, <1>6 DEF IInv, TypeOK
<1>8. Holds(w)' /\ \A v \in Workers : v # w => (Holds(v)' <=> Holds(v) /\ worker[v].key # d)
  <2>1. Holds(w)'
    BY <1>2, <1>3, <1>5 DEF Holds, Fenced
  <2>2. ASSUME NEW v \in Workers, v # w PROVE Holds(v)' <=> Holds(v) /\ worker[v].key # d
    <3>1. worker[v].pc # "idle" => worker[v].key \in Keys
      BY DEF IInv, LocalsOK
    <3> QED
      BY <1>2, <1>5, <1>6, <2>2, <3>1 DEF Holds, Fenced
  <2> QED
    BY <2>1, <2>2
<1>9. RowsOK'
  BY <1>2, <1>5, <1>6 DEF IInv, RowsOK
<1>10. LocalsOK'
  <2>1. \A v \in Workers : /\ worker'[v].pc = "idle" => worker'[v].lease = NoLease
                           /\ worker'[v].pc # "idle" => worker'[v].key \in Keys
                                                          /\ worker'[v].lease \in LeaseIds
    BY <1>3, <1>5 DEF IInv, LocalsOK
  <2>2. \A u, v \in Workers : worker'[v].lease = worker'[u].lease
                                => v = u \/ worker'[u].lease = NoLease
    BY <1>3, <1>5, <1>6 DEF IInv, LocalsOK
  <2> QED
    BY <2>1, <2>2 DEF LocalsOK
<1>11. OneSettler'
  <2> SUFFICES ASSUME NEW u \in Workers, Holds(u)'
               PROVE  /\ deliveries'[worker'[u].key].state = "processing"
                      /\ deliveries'[worker'[u].key].attempts = worker'[u].attempts
                      /\ \A v \in Workers : Holds(v)' /\ worker'[v].key = worker'[u].key => v = u
    BY DEF OneSettler
  <2>1. CASE u = w
    BY <1>2, <1>3, <1>5, <1>8, <2>1
  <2>2. CASE u # w
    <3>1. Holds(u) /\ worker[u].key # d /\ worker[u].key \in Keys
      BY <1>8, <2>2 DEF IInv, LocalsOK, Holds
    <3>2. /\ worker'[u] = worker[u]
          /\ deliveries'[worker[u].key] = deliveries[worker[u].key]
      BY <1>5, <2>2, <3>1
    <3>3. \A v \in Workers : Holds(v)' /\ worker'[v].key = worker[u].key => v = u
      BY <1>3, <1>5, <1>8, <3>1 DEF IInv, OneSettler
    <3> QED
      BY <3>1, <3>2, <3>3 DEF IInv, OneSettler
  <2> QED
    BY <2>1, <2>2
<1>12. RemovalRevokesClaims'
  BY <1>3, <1>5, <1>6, <1>8 DEF IInv, RemovalRevokesClaims, Live
<1>13. ClaimsOK'
  <2> SUFFICES ASSUME NEW e \in Keys, NEW v \in Workers, e \notin doubtful',
                      At(v, e, PC \ {"idle"})', v # w
               PROVE  Holds(v)' \/ Gone(e)'
    BY <1>8 DEF ClaimsOK
  <2>1. (Holds(v) \/ Gone(e)) /\ worker[v].key = e
    BY <1>5, <1>6 DEF IInv, ClaimsOK, At
  <2>2. Holds(v) /\ e = d => FALSE
    BY <1>6, <2>1 DEF IInv, OneSettler
  <2> QED
    BY <1>6, <1>8, <2>1, <2>2 DEF Gone
<1>14. PushedOK'
  <2> SUFFICES ASSUME NEW e \in Keys, e \notin doubtful' PROVE
        /\ \A u, v \in Workers : At(u, e, PastFind)' /\ At(v, e, PastFind)' => u = v
        /\ accepted[e] > 0 =>
             /\ accepted[e] = 1
             /\ deliveries'[e].state # "pending" \/ Gone(e)'
             /\ \A v \in Workers : At(v, e, PastFind)' => worker'[v].pc = "delivered"
             /\ \A v \in Workers : At(v, e, {"find"})' => Gone(e)'
    BY <1>6 DEF PushedOK
  <2>1. \A v \in Workers : At(v, e, PastFind)' => v # w /\ At(v, e, PastFind)
    BY <1>3, <1>5 DEF At, PastFind
  <2>2. \A v \in Workers : At(v, e, {"find"})' => At(v, e, {"find"}) \/ e = d
    BY <1>3, <1>5 DEF At
  <2>3. e = d => deliveries[e].state = "pending"
    BY <1>6
  <2>4. deliveries'[e].state = "pending" => deliveries[e].state = "pending"
    BY <1>2, <1>5
  <2>5. Gone(e)' <=> Gone(e)
    BY <1>6 DEF Gone
  <2> QED
    BY <1>5, <1>6, <2>1, <2>2, <2>3, <2>4, <2>5 DEF IInv, PushedOK
<1> QED
  BY <1>7, <1>9, <1>10, <1>11, <1>12, <1>13, <1>14 DEF IInv

\* A step of a claim in progress that only moves on.
LEMMA MoveStep ==
  ASSUME IInv, NEW w \in Workers, NEW pc \in PC \ {"idle"}, worker[w].pc # "idle", GoTo(w, pc),
         accepted' \in [Keys -> 0..2], doubtful \subseteq doubtful', doubtful' \subseteq Keys
  PROVE  /\ worker'[w].pc = pc /\ worker'[w].key = worker[w].key
         /\ \A v \in Workers : worker'[v].key = worker[v].key
                                 /\ (v # w => worker'[v] = worker[v])
         /\ \A v \in Workers : Holds(v)' <=> Holds(v)
         /\ TypeOK' /\ RowsOK' /\ LocalsOK' /\ OneSettler' /\ ClaimsOK'
<1> DEFINE loc == [worker[w] EXCEPT !.pc = pc]
<1>1. worker \in [Workers -> WorkerState]
  BY DEF IInv, TypeOK
<1>2. worker' = [worker EXCEPT ![w] = loc]
  BY DEF GoTo
<1>3. /\ loc \in WorkerState /\ loc.pc = pc
      /\ loc.key = worker[w].key /\ loc.lease = worker[w].lease
      /\ loc.attempts = worker[w].attempts
  BY <1>1 DEF WorkerState
<1> HIDE DEF loc
<1>4. \A v \in Workers : worker'[v] = IF v = w THEN loc ELSE worker[v]
  BY <1>1, <1>2
<1>5. UNCHANGED <<now, subs, deliveries, erased, accounts, open, listed, putting, upkeep>>
  BY DEF GoTo
<1>6. \A v \in Workers : /\ worker'[v].key = worker[v].key
                         /\ worker'[v].lease = worker[v].lease
                         /\ worker'[v].attempts = worker[v].attempts
                         /\ worker'[v].pc = "idle" <=> worker[v].pc = "idle"
  BY <1>3, <1>4
<1>7. \A v \in Workers : Holds(v)' <=> Holds(v)
  BY <1>5, <1>6 DEF Holds, Fenced
<1>8. TypeOK'
  BY <1>1, <1>2, <1>3, <1>5 DEF IInv, TypeOK
<1>9. RowsOK'
  BY <1>5 DEF IInv, RowsOK
<1>10. LocalsOK'
  BY <1>6 DEF IInv, LocalsOK
<1>11. OneSettler'
  BY <1>5, <1>6, <1>7 DEF IInv, OneSettler
<1>12. ClaimsOK'
  <2> SUFFICES ASSUME NEW d \in Keys, NEW v \in Workers, d \notin doubtful,
                      At(v, d, PC \ {"idle"})'
               PROVE  Holds(v)' \/ Gone(d)'
    BY DEF ClaimsOK
  <2>1. worker[v].key = d /\ worker[v].pc \in PC \ {"idle"}
    BY <1>1, <1>6 DEF At, WorkerState
  <2> QED
    BY <1>5, <1>7, <2>1 DEF IInv, ClaimsOK, At, Gone
<1> QED
  BY <1>3, <1>4, <1>6, <1>7, <1>8, <1>9, <1>10, <1>11, <1>12

\* Only one claim of a delivery finds the subscription while nobody took it
\* over, and none after an accepted push.
LEMMA FindSubscriptionStep == ASSUME IInv, NEW w \in Workers, FindSubscription(w) PROVE IInv'
<1> DEFINE k == worker[w].key
<1>1. PICK pc \in {"suppress", "drop", "lookup"} :
        GoTo(w, pc) /\ (pc # "suppress" => Live(k[2]))
  BY DEF FindSubscription
<1>2. /\ worker[w].pc = "find" /\ k \in Keys /\ UNCHANGED <<accepted, doubtful>>
      /\ accepted' \in [Keys -> 0..2] /\ doubtful' \subseteq Keys /\ pc \in PC \ {"idle"}
  BY DEF FindSubscription, IInv, LocalsOK, TypeOK, PC
<1>3. /\ worker'[w].pc = pc /\ worker'[w].key = k
      /\ \A v \in Workers : v # w => worker'[v] = worker[v]
      /\ \A v \in Workers : Holds(v)' <=> Holds(v)
      /\ TypeOK' /\ RowsOK' /\ LocalsOK' /\ OneSettler' /\ ClaimsOK'
  BY <1>1, <1>2, MoveStep
<1>4. UNCHANGED <<subs, deliveries, doubtful, accepted>>
  BY <1>1, <1>2 DEF GoTo
<1>5. RemovalRevokesClaims'
  <2> SUFFICES ASSUME NEW v \in Workers, Holds(v)',
                      worker'[v].pc \in {"lookup", "send", "delivered", "permanent", "retry"}
               PROVE  subs'[worker'[v].key[2]].state = "live"
    BY DEF RemovalRevokesClaims, Live
  <2>1. CASE v = w
    BY <1>1, <1>3, <1>4, <2>1 DEF Live
  <2>2. CASE v # w
    BY <1>3, <1>4, <2>2 DEF IInv, RemovalRevokesClaims, Live
  <2> QED
    BY <2>1, <2>2
<1>6. PushedOK'
  <2> SUFFICES ASSUME NEW d \in Keys, d \notin doubtful PROVE
        /\ \A u, v \in Workers : At(u, d, PastFind)' /\ At(v, d, PastFind)' => u = v
        /\ accepted[d] > 0 =>
             /\ accepted[d] = 1
             /\ deliveries[d].state # "pending" \/ Gone(d)
             /\ \A v \in Workers : At(v, d, PastFind)' => worker'[v].pc = "delivered"
             /\ \A v \in Workers : At(v, d, {"find"})' => Gone(d)
    BY <1>4 DEF PushedOK, Gone
  <2>1. \A v \in Workers : /\ v # w /\ At(v, d, PastFind)' => At(v, d, PastFind)
                           /\ At(v, d, {"find"})' => At(v, d, {"find"}) /\ v # w
    BY <1>1, <1>3 DEF At
  <2>2. CASE At(w, d, PastFind)'
    <3>1. d = k /\ Live(d[2]) /\ ~Gone(d)
      BY <1>1, <1>3, <2>2 DEF At, PastFind, Live, Gone
    <3>2. \A v \in Workers : At(v, d, PC \ {"idle"}) => Holds(v)
      BY <3>1 DEF IInv, ClaimsOK
    <3>3. At(w, d, PC \ {"idle"}) /\ \A v \in Workers : At(v, d, PastFind) => At(v, d, PC \ {"idle"})
      BY <1>2, <3>1 DEF At, PastFind, PC
    <3>4. \A v \in Workers : At(v, d, PastFind) => v = w
      BY <3>2, <3>3 DEF IInv, OneSettler, At
    <3>5. At(w, d, {"find"})
      BY <1>2, <3>1 DEF At
    <3>6. ~(accepted[d] > 0)
      BY <3>1, <3>5 DEF IInv, PushedOK
    <3> QED
      BY <2>1, <3>4, <3>6
  <2>3. CASE ~At(w, d, PastFind)'
    <3>1. \A v \in Workers : At(v, d, PastFind)' =>
            At(v, d, PastFind) /\ worker'[v] = worker[v]
      BY <1>3, <2>1, <2>3
    <3> QED
      BY <2>1, <3>1 DEF IInv, PushedOK
  <2> QED
    BY <2>2, <2>3
<1> QED
  BY <1>3, <1>5, <1>6 DEF IInv

\* A claim that is about to look up or send pushed nothing yet, nor did another
\* claim of a delivery nobody took over.
LEMMA NotYetPushed ==
  ASSUME IInv, NEW w \in Workers, worker[w].pc \in {"lookup", "send"}, worker[w].key \notin doubtful
  PROVE  accepted[worker[w].key] = 0
<1> DEFINE k == worker[w].key
<1>1. k \in Keys /\ At(w, k, PastFind) /\ worker[w].pc # "delivered"
  BY DEF IInv, LocalsOK, At, PastFind
<1>2. ~(accepted[k] > 0)
  BY <1>1 DEF IInv, PushedOK
<1>3. accepted[k] \in 0..2
  BY <1>1 DEF IInv, TypeOK
<1> QED
  BY <1>2, <1>3

LEMMA LookupStep ==
  ASSUME IInv, NEW w \in Workers, NEW pc \in PC, LookupRecipient(w, pc)
  PROVE  IInv'
<1> DEFINE k == worker[w].key
<1>1. /\ worker[w].pc = "lookup" /\ k \in Keys /\ pc \in {"send", "suppress", "retry"}
      /\ GoTo(w, pc) /\ UNCHANGED <<accepted, doubtful>>
      /\ accepted' \in [Keys -> 0..2] /\ doubtful' \subseteq Keys
  BY DEF LookupRecipient, IInv, LocalsOK, TypeOK
<1>2. /\ worker'[w].pc = pc /\ worker'[w].key = k
      /\ \A v \in Workers : worker'[v].key = worker[v].key /\ (v # w => worker'[v] = worker[v])
      /\ \A v \in Workers : Holds(v)' <=> Holds(v)
      /\ TypeOK' /\ RowsOK' /\ LocalsOK' /\ OneSettler' /\ ClaimsOK'
  BY <1>1, MoveStep
<1>3. UNCHANGED <<subs, deliveries, doubtful, accepted>>
  BY <1>1 DEF GoTo
<1>4. RemovalRevokesClaims'
  BY <1>1, <1>2, <1>3 DEF IInv, RemovalRevokesClaims, Live
<1>5. PushedOK'
  <2> SUFFICES ASSUME NEW d \in Keys, d \notin doubtful PROVE
        /\ \A u, v \in Workers : At(u, d, PastFind)' /\ At(v, d, PastFind)' => u = v
        /\ accepted[d] > 0 =>
             /\ accepted[d] = 1
             /\ deliveries[d].state # "pending" \/ Gone(d)
             /\ \A v \in Workers : At(v, d, PastFind)' => worker'[v].pc = "delivered"
             /\ \A v \in Workers : At(v, d, {"find"})' => Gone(d)
    BY <1>3 DEF PushedOK, Gone
  <2>1. \A v \in Workers : /\ At(v, d, PastFind)' => At(v, d, PastFind)
                           /\ At(v, d, {"find"})' => At(v, d, {"find"})
    BY <1>1, <1>2 DEF At, PastFind
  <2>2. accepted[d] > 0 => d # k
    BY <1>1, NotYetPushed
  <2>3. accepted[d] > 0 =>
          \A v \in Workers : At(v, d, PastFind)' => worker'[v] = worker[v]
    BY <1>2, <2>2 DEF At
  <2> QED
    BY <2>1, <2>3 DEF IInv, PushedOK
<1> QED
  BY <1>2, <1>4, <1>5 DEF IInv

LEMMA SendStep == ASSUME IInv, NEW w \in Workers, NEW pc \in PC, Send(w, pc) PROVE IInv'
<1> DEFINE k == worker[w].key
<1>1. /\ worker[w].pc = "send" /\ k \in Keys
      /\ pc \in {"delivered", "drop", "permanent", "retry"} /\ GoTo(w, pc)
  BY DEF Send, IInv, LocalsOK
<1>2. /\ accepted' \in [Keys -> 0..2]
      /\ \A d \in Keys : d # k => accepted'[d] = accepted[d]
      /\ accepted[k] = 0 /\ accepted'[k] > 0 =>
           accepted'[k] = 1 /\ (pc = "delivered" \/ k \in doubtful')
      /\ doubtful \subseteq doubtful' /\ doubtful' \subseteq Keys
  <2>1. accepted \in [Keys -> 0..2] /\ doubtful \subseteq Keys
    BY DEF IInv, TypeOK
  <2> QED
    BY <1>1, <2>1 DEF Send, Accept
<1>3. /\ worker'[w].pc = pc /\ worker'[w].key = k
      /\ \A v \in Workers : worker'[v].key = worker[v].key /\ (v # w => worker'[v] = worker[v])
      /\ \A v \in Workers : Holds(v)' <=> Holds(v)
      /\ TypeOK' /\ RowsOK' /\ LocalsOK' /\ OneSettler' /\ ClaimsOK'
  BY <1>1, <1>2, MoveStep DEF PC
<1>4. UNCHANGED <<subs, deliveries>>
  BY <1>1 DEF GoTo
<1>5. RemovalRevokesClaims'
  BY <1>1, <1>3, <1>4 DEF IInv, RemovalRevokesClaims, Live
<1>6. PushedOK'
  <2> SUFFICES ASSUME NEW d \in Keys, d \notin doubtful', d \notin doubtful PROVE
        /\ \A u, v \in Workers : At(u, d, PastFind)' /\ At(v, d, PastFind)' => u = v
        /\ accepted'[d] > 0 =>
             /\ accepted'[d] = 1
             /\ deliveries[d].state # "pending" \/ Gone(d)
             /\ \A v \in Workers : At(v, d, PastFind)' => worker'[v].pc = "delivered"
             /\ \A v \in Workers : At(v, d, {"find"})' => Gone(d)
    BY <1>2, <1>4 DEF PushedOK, Gone
  <2>1. \A v \in Workers : /\ At(v, d, PastFind)' => At(v, d, PastFind)
                           /\ At(v, d, {"find"})' => At(v, d, {"find"}) /\ v # w
    BY <1>1, <1>3 DEF At, PastFind
  <2>2. CASE d = k
    <3>1. accepted[k] = 0
      BY <1>1, <2>2, NotYetPushed
    <3>2. At(w, k, PastFind) /\ At(w, k, PC \ {"idle"})
      BY <1>1 DEF At, PastFind, PC
    <3>3. \A v \in Workers : At(v, d, PastFind) => v = w
      BY <2>2, <3>2 DEF IInv, PushedOK
    <3>4. Holds(w) \/ Gone(k)
      BY <1>1, <2>2, <3>2 DEF IInv, ClaimsOK
    <3>5. deliveries[k].state # "pending" \/ Gone(k)
      BY <3>4 DEF IInv, OneSettler
    <3>6. ASSUME NEW v \in Workers, At(v, k, {"find"}), v # w PROVE Gone(k)
      <4>1. Holds(v) \/ Gone(k)
        BY <1>1, <2>2, <3>6 DEF IInv, ClaimsOK, At, PC
      <4> QED
        BY <3>4, <3>6, <4>1 DEF IInv, OneSettler, At
    <3>7. accepted'[k] > 0 => pc = "delivered" /\ accepted'[k] = 1
      BY <1>2, <2>2, <3>1
    <3> QED
      BY <1>3, <2>1, <2>2, <3>3, <3>5, <3>6, <3>7
  <2>3. CASE d # k
    <3>1. accepted'[d] = accepted[d]
      BY <1>2, <2>3
    <3>2. \A v \in Workers : At(v, d, PastFind)' => worker'[v] = worker[v]
      BY <1>3, <2>3 DEF At
    <3> QED
      BY <2>1, <3>1, <3>2 DEF IInv, PushedOK
  <2> QED
    BY <2>2, <2>3
<1> QED
  BY <1>3, <1>5, <1>6 DEF IInv

\* The four settlements give up the lease; only a claim that pushed nothing
\* leaves the row to be claimed again.
LEMMA SettlementFields ==
  ASSUME IInv, NEW w \in Workers, NEW delay \in Delays, worker[w].key \in Keys,
         worker[w].pc \in {"suppress", "delivered", "permanent", "retry"}
  PROVE  /\ Settlement(w, delay) \in Delivery
         /\ Settlement(w, delay).lease = NoLease
         /\ Settlement(w, delay).state \in {"pending", "delivered", "suppressed", "permanent"}
         /\ Settlement(w, delay).state = "pending" => worker[w].pc = "retry"
<1> USE PushAssumption
<1> DEFINE row == deliveries[worker[w].key]
           done == [row EXCEPT !.lease = NoLease, !.leaseUntil = 0, !.settledAt = now]
           n == worker[w].attempts + 1
           again == [row EXCEPT !.state = "pending", !.attempts = n, !.lease = NoLease,
                                !.leaseUntil = 0, !.nextAt = now + delay]
<1>1. row \in Delivery /\ now \in Nat /\ n \in Nat /\ now + delay \in Nat
  <2>1. /\ deliveries \in [Keys -> Delivery] /\ now \in Nat
        /\ worker[w] \in WorkerState /\ delay \in Nat
    BY DEF IInv, TypeOK
  <2> QED
    BY <2>1 DEF WorkerState
<1>2. done \in Delivery /\ done.lease = NoLease
  BY <1>1 DEF Delivery
<1>3. again \in Delivery /\ again.lease = NoLease /\ again.state = "pending"
  BY <1>1 DEF Delivery, DeliveryState
<1>4. \A s \in DeliveryState \ {"absent"} :
        LET r == [done EXCEPT !.state = s]
        IN  r \in Delivery /\ r.lease = NoLease /\ r.state = s
  BY <1>2 DEF Delivery
<1>5. LET r == [done EXCEPT !.state = "permanent", !.attempts = n]
      IN  r \in Delivery /\ r.lease = NoLease /\ r.state = "permanent"
  BY <1>1, <1>2 DEF Delivery, DeliveryState
<1> HIDE DEF again, done, n, row
<1>6. CASE worker[w].pc \in {"suppress", "delivered"}
  <2>1. Settlement(w, delay) = [done EXCEPT !.state =
                                  IF worker[w].pc = "suppress" THEN "suppressed" ELSE "delivered"]
    BY <1>6 DEF Settlement, done, row
  <2> QED
    BY <1>4, <1>6, <2>1 DEF DeliveryState
<1>7. CASE worker[w].pc = "permanent"
  <2>1. Settlement(w, delay) = [done EXCEPT !.state = "permanent", !.attempts = n]
    BY <1>7 DEF Settlement, done, n, row
  <2> QED
    BY <1>5, <1>7, <2>1
<1>8. CASE worker[w].pc = "retry"
  <2>1. Settlement(w, delay) = IF n >= MaxAttempts
                               THEN [done EXCEPT !.state = "permanent", !.attempts = n]
                               ELSE again
    BY <1>8 DEF Settlement, LastAttempt, done, again, n, row
  <2> QED
    BY <1>3, <1>5, <1>8, <2>1
<1> QED
  BY <1>6, <1>7, <1>8

LEMMA SettleStep ==
  ASSUME IInv, NEW w \in Workers, NEW delay \in Delays, Settle(w, delay)
  PROVE  IInv'
<1> USE PushAssumption
<1> DEFINE k == worker[w].key
           row == Settlement(w, delay)
<1>1. /\ worker[w].pc \in {"suppress", "delivered", "permanent", "retry"}
      /\ k \in Keys /\ worker[w].lease # NoLease
  BY DEF Settle, IInv, LocalsOK
<1>2. /\ row \in Delivery /\ row.lease = NoLease
      /\ row.state \in {"pending", "delivered", "suppressed", "permanent"}
      /\ row.state = "pending" => worker[w].pc = "retry"
  BY <1>1, SettlementFields
<1>3. /\ deliveries' = IF Fenced(w) THEN [deliveries EXCEPT ![k] = row] ELSE deliveries
      /\ worker' = [worker EXCEPT ![w] = IdleWorker]
      /\ UNCHANGED <<now, subs, erased, accounts, open, listed, putting, upkeep,
                     accepted, doubtful>>
  BY DEF Settle
<1> HIDE DEF row
<1>4. /\ worker'[w] = IdleWorker
      /\ \A v \in Workers : v # w => worker'[v] = worker[v]
      /\ \A d \in Keys : deliveries'[d] = IF Fenced(w) /\ d = k THEN row ELSE deliveries[d]
  BY <1>1, <1>3 DEF IInv, TypeOK
<1>5. TypeOK'
  BY <1>2, <1>3, RowTypes DEF IInv, TypeOK
<1>6. \A v \in Workers : worker'[v].pc # "idle" => v # w /\ worker'[v] = worker[v]
  BY <1>4, RowFields
<1>7. Fenced(w) <=> Holds(w)
  BY <1>1 DEF Holds
<1>8. \A v \in Workers :
        /\ Holds(v)' => /\ Holds(v) /\ v # w /\ worker'[v] = worker[v]
                        /\ worker[v].key \in Keys
                        /\ deliveries'[worker[v].key] = deliveries[worker[v].key]
        /\ Holds(v) /\ v # w => Holds(v)'
  <2> SUFFICES ASSUME NEW v \in Workers, v # w, worker[v].pc # "idle"
               PROVE  /\ Holds(v)' => /\ Holds(v)
                                      /\ deliveries'[worker[v].key] = deliveries[worker[v].key]
                      /\ Holds(v) => Holds(v)'
    BY <1>4, <1>6 DEF Holds, IInv, LocalsOK
  <2>1. worker[v].key \in Keys /\ worker[v].lease # NoLease
    BY DEF IInv, LocalsOK
  <2>2. CASE Fenced(w) /\ worker[v].key = k
    BY <1>2, <1>4, <1>7, <2>1, <2>2 DEF Holds, Fenced, IInv, OneSettler
  <2>3. CASE ~(Fenced(w) /\ worker[v].key = k)
    BY <1>4, <2>1, <2>3 DEF Holds, Fenced
  <2> QED
    BY <2>2, <2>3
<1>9. RowsOK'
  <2> SUFFICES ASSUME NEW d \in Keys
               PROVE  /\ deliveries'[d].state # "processing" => deliveries'[d].lease = NoLease
                      /\ deliveries'[d].state # "absent" \/ d \in listed
                           => subs[d[2]].state # "unused"
    BY <1>3 DEF RowsOK
  <2>1. CASE Fenced(w) /\ d = k
    BY <1>2, <1>4, <1>7, <2>1 DEF IInv, OneSettler, RowsOK
  <2>2. CASE ~(Fenced(w) /\ d = k)
    BY <1>4, <2>2 DEF IInv, RowsOK
  <2> QED
    BY <2>1, <2>2
<1>10. LocalsOK'
  <2>1. \A v \in Workers : worker'[v].lease # NoLease => worker'[v] = worker[v]
    BY <1>4, RowFields
  <2> QED
    BY <1>6, <2>1, <1>4, RowFields DEF IInv, LocalsOK
<1>11. OneSettler'
  BY <1>8 DEF IInv, OneSettler
<1>12. RemovalRevokesClaims'
  BY <1>3, <1>8 DEF IInv, RemovalRevokesClaims, Live
<1>13. ClaimsOK'
  <2> SUFFICES ASSUME NEW d \in Keys, NEW v \in Workers, d \notin doubtful,
                      At(v, d, PC \ {"idle"})'
               PROVE  Holds(v)' \/ Gone(d)'
    BY <1>3 DEF ClaimsOK
  <2>1. v # w /\ At(v, d, PC \ {"idle"})
    BY <1>6 DEF At
  <2> QED
    BY <1>3, <1>8, <2>1 DEF IInv, ClaimsOK, Gone
<1>14. PushedOK'
  <2> SUFFICES ASSUME NEW d \in Keys, d \notin doubtful PROVE
        /\ \A u, v \in Workers : At(u, d, PastFind)' /\ At(v, d, PastFind)' => u = v
        /\ accepted[d] > 0 =>
             /\ accepted[d] = 1
             /\ deliveries'[d].state # "pending" \/ Gone(d)
             /\ \A v \in Workers : At(v, d, PastFind)' => worker'[v].pc = "delivered"
             /\ \A v \in Workers : At(v, d, {"find"})' => Gone(d)
    BY <1>3 DEF PushedOK, Gone
  <2>1. \A v \in Workers : /\ At(v, d, PastFind)' => At(v, d, PastFind) /\ worker'[v] = worker[v]
                           /\ At(v, d, {"find"})' => At(v, d, {"find"})
    BY <1>6 DEF At, PastFind
  <2>2. accepted[d] > 0 => ~At(w, d, {"retry"})
    BY DEF IInv, PushedOK, At, PastFind
  <2>3. accepted[d] > 0 /\ deliveries'[d].state = "pending" => deliveries[d].state = "pending"
    BY <1>2, <1>4, <2>2 DEF At
  <2> QED
    BY <2>1, <2>3 DEF IInv, PushedOK
<1> QED
  BY <1>5, <1>9, <1>10, <1>11, <1>12, <1>13, <1>14 DEF IInv

----------------------------------------------------------------------------
(* The theorems. *)

LEMMA NextInv == IInv /\ [Next]_vars => IInv'
<1> SUFFICES ASSUME IInv, [Next]_vars PROVE IInv'
  OBVIOUS
<1>1. CASE Tick
  BY <1>1, TickStep
<1>2. CASE InboxSide
  BY <1>2, ListForStep, CompleteEventStep, MaterializeStep DEF InboxSide
<1>3. CASE Routes
  BY <1>3, ReceivePutStep, PutSubscriptionStep, PutRefusedStep, RevokeSessionStep,
     DeleteBoundStep DEF Routes
<1>4. CASE Accounts
  BY <1>4, DeleteAccountStep, DropAccountStep DEF Accounts
<1>5. CASE UpkeepStep \/ UpkeepFails
  BY <1>5, UpkeepReads, DeleteOrphanedStep, DeleteExpiredStep, PurgeStep DEF UpkeepStep
<1>6. ASSUME NEW w \in Workers, WorkerStep(w) \/ Crash(w) PROVE IInv'
  BY <1>6, ClaimStep, FindSubscriptionStep, LookupStep, SendStep, DropSubscriptionStep,
     SettleStep, CrashStep DEF WorkerStep
<1>7. CASE UNCHANGED vars
  <2>1. TypeOK' /\ UNCHANGED <<subs, deliveries, worker, accepted, doubtful, listed>>
    BY <1>7 DEF vars, IInv, TypeOK
  <2> QED
    BY <2>1, FrameStep DEF IInv, RowsOK
<1> QED
  BY <1>1, <1>2, <1>3, <1>4, <1>5, <1>6, <1>7 DEF Next

\* The inductive invariant holds throughout.
THEOREM Invariance == Spec => []IInv
  BY InitInv, NextInv, PTL DEF Spec

\* Tables and local variables keep their types.
THEOREM TypeCorrect == Spec => []TypeOK
<1>1. IInv => TypeOK
  BY DEF IInv
<1> QED
  BY <1>1, Invariance, PTL

\* push-worker.ts: the attempt counter a settlement writes continues the one the
\* row has, and nobody else can write it.
THEOREM SettlesAlone == Spec => []OneSettler
<1>1. IInv => OneSettler
  BY DEF IInv
<1> QED
  BY <1>1, Invariance, PTL

\* push-repository.ts: removing a subscription takes the lease of every claim
\* that already passed its check, so its outcome is ignored.
THEOREM RemovalRevokes == Spec => []RemovalRevokesClaims
<1>1. IInv => RemovalRevokesClaims
  BY DEF IInv
<1> QED
  BY <1>1, Invariance, PTL

\* push-worker.ts: a delivery is pushed once unless a claim was taken over after
\* its lease or the row was purged and inserted again.
THEOREM NoSecondPush == Spec => []PushedOnce
<1>1. IInv => PushedOnce
  <2> SUFFICES ASSUME IInv, NEW d \in Keys, d \notin doubtful, accepted[d] > 1 PROVE FALSE
    BY DEF PushedOnce
  <2>1. accepted[d] \in 0..2
    BY DEF IInv, TypeOK
  <2>2. accepted[d] > 0
    BY <2>1
  <2> QED
    BY <2>1, <2>2 DEF IInv, PushedOK
<1> QED
  BY <1>1, Invariance, PTL

\* What a step does to a row that is stored: it keeps or settles it, unless
\* retention or the deletion of its account removes it.
LEMMA RowStep ==
  ASSUME IInv, [Next]_vars, NEW d \in Keys
  PROVE  /\ Settled(d) => \/ deliveries'[d] = deliveries[d]
                          \/ deliveries'[d] = AbsentDelivery
                               /\ (PurgeTerminalDeliveries \/ Accounts)
         /\ Unsettled(d) /\ deliveries'[d].state = "absent" => Accounts
<1> DEFINE Goal == /\ Settled(d) => \/ deliveries'[d] = deliveries[d]
                                    \/ deliveries'[d] = AbsentDelivery
                                         /\ (PurgeTerminalDeliveries \/ Accounts)
                   /\ Unsettled(d) /\ deliveries'[d].state = "absent" => Accounts
<1>1. ASSUME NEW gone, Remove(gone) PROVE Goal
  <2>1. CASE SettledByRemoval(d, gone)
    <3>1. deliveries'[d].state = "permanent"
      <4>1. deliveries[d] \in Delivery
        BY DEF IInv, TypeOK
      <4> QED
        BY <1>1, <2>1, <4>1 DEF Remove, Delivery
    <3> QED
      BY <2>1, <3>1 DEF SettledByRemoval, Settled, Unsettled
  <2>2. CASE ~SettledByRemoval(d, gone)
    BY <1>1, <2>2 DEF Remove, Unsettled
  <2> QED
    BY <2>1, <2>2
<1>2. ASSUME deliveries'[d] = deliveries[d] PROVE Goal
  BY <1>2 DEF Unsettled
<1>3. CASE Tick \/ UNCHANGED vars
  BY <1>2, <1>3 DEF Tick, vars
<1>4. CASE InboxSide
  <2>1. CASE Materialize
    <3>1. deliveries'[d] # deliveries[d] => deliveries[d].state = "absent"
      BY <2>1 DEF Materialize
    <3> QED
      BY <1>2, <3>1 DEF Settled, Unsettled
  <2> QED
    BY <1>2, <1>4, <2>1 DEF InboxSide, ListFor, CompleteEvent
<1>5. CASE Routes
  BY <1>1, <1>2, <1>5 DEF Routes, ReceivePut, PutSubscription, PutRefused, RevokeSession,
                          DeleteBoundSubscription
<1>6. CASE Accounts
  <2>1. ASSUME NEW u \in Users, DeleteAccount(u)
        PROVE  deliveries'[d] \in {AbsentDelivery, deliveries[d]}
    BY <2>1 DEF DeleteAccount
  <2> QED
    BY <1>6, <2>1 DEF Accounts, DropAccount
<1>7. CASE UpkeepStep \/ UpkeepFails
  <2>1. CASE PurgeTerminalDeliveries
    BY <2>1 DEF PurgeTerminalDeliveries, Purgeable, Settled, Unsettled
  <2> QED
    BY <1>1, <1>2, <1>7, <2>1 DEF UpkeepStep, UpkeepFails, StartUpkeep, ResolveUser,
                                  DeleteOrphaned, DeleteExpiredOrRotated
<1>8. ASSUME NEW w \in Workers, WorkerStep(w) \/ Crash(w) PROVE Goal
  <2>1. ASSUME NEW e \in Keys, NEW l \in LeaseIds, ClaimPendingDelivery(w, e, l) PROVE Goal
    <3>1. CASE e = d
      <4>1. Unsettled(d) /\ deliveries'[d].state = "processing"
        BY <2>1, <3>1 DEF ClaimPendingDelivery, Claimable, Unsettled, IInv, TypeOK, Delivery
      <4> QED
        BY <4>1 DEF Settled, Unsettled
    <3>2. CASE e # d
      BY <1>2, <2>1, <3>2 DEF ClaimPendingDelivery, IInv, TypeOK
    <3> QED
      BY <3>1, <3>2
  <2>2. ASSUME NEW delay \in Delays, Settle(w, delay) PROVE Goal
    <3>1. CASE Fenced(w) /\ worker[w].key = d
      <4>1. deliveries'[d] = Settlement(w, delay)
        BY <2>2, <3>1 DEF Settle, IInv, TypeOK
      <4>2. deliveries[d].state = "processing" /\ deliveries'[d].state # "absent"
        BY <2>2, <3>1, <4>1, SettlementFields DEF Settle, Holds, IInv, OneSettler
      <4> QED
        BY <4>2 DEF Settled
    <3>2. CASE ~(Fenced(w) /\ worker[w].key = d)
      BY <1>2, <2>2, <3>2 DEF Settle, IInv, TypeOK
    <3> QED
      BY <3>1, <3>2
  <2>3. CASE DropSubscription(w)
    BY <1>1, <1>2, <2>3 DEF DropSubscription
  <2>4. ASSUME NEW pc, FindSubscription(w) \/ LookupRecipient(w, pc) \/ Send(w, pc) \/ Crash(w)
        PROVE  deliveries' = deliveries
    BY <2>4 DEF FindSubscription, LookupRecipient, Send, Crash, GoTo
  <2> QED
    BY <1>2, <1>8, <2>1, <2>2, <2>3, <2>4 DEF WorkerStep
<1> QED
  BY <1>3, <1>4, <1>5, <1>6, <1>7, <1>8 DEF Next

\* Retention and account deletion apart, nothing reopens or rewrites a settled
\* delivery.
THEOREM SettledStays == Spec => SettledIsFinal
<1>1. IInv /\ [Next]_vars =>
        [\A d \in Keys : Settled(d) =>
           \/ deliveries'[d] = deliveries[d]
           \/ deliveries'[d] = AbsentDelivery /\ (PurgeTerminalDeliveries \/ Accounts)]_vars
  BY RowStep
<1> QED
  BY <1>1, Invariance, PTL DEF Spec, SettledIsFinal

\* Only the deletion of its account removes a delivery that is still owed.
THEOREM OwedStays == Spec => OwedUntilSettled
<1>1. IInv /\ [Next]_vars =>
        [\A d \in Keys : Unsettled(d) /\ deliveries'[d].state = "absent" => Accounts]_vars
  BY RowStep
<1> QED
  BY <1>1, Invariance, PTL DEF Spec, OwedUntilSettled
=============================================================================
