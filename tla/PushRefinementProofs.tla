------------------------- MODULE PushRefinementProofs -------------------------
(***************************************************************************)
(* Push implements DeliveryPromise, for every value of the constants: each *)
(* transaction maps to a step of the promise, everything between two       *)
(* transactions to a stutter.  The invariant of PushProofs is needed where *)
(* a settlement counts an attempt: the lease it compares is what makes the *)
(* counter it read before two awaits the one the row still has.            *)
(***************************************************************************)
EXTENDS PushRefinement, PushProofs

MappedLife == [d \in Keys |-> Life(deliveries[d].state)]
MappedTries == [d \in Keys |-> deliveries[d].attempts]
MappedLive == {s \in SubIds : subs[s].state = "live"}
MappedEnded == {s \in SubIds : subs[s].state = "gone"}

\* The inbox worker lists subscriptions of the recipient only.
ListedOK == \A d \in listed : Owner[d[2]] = Recipient[d[1]]

\* Every step keeps it so: the list is made from one look at the table.
LEMMA ListedStep == ListedOK /\ [Next]_vars => ListedOK'
<1> SUFFICES ASSUME ListedOK, [Next]_vars PROVE ListedOK'
  OBVIOUS
<1>1. CASE UNCHANGED listed
  BY <1>1 DEF ListedOK
<1>2. ASSUME NEW e \in Events, ListFor(e) PROVE ListedOK'
  BY <1>2 DEF ListFor, ListedOK
<1>3. CASE Materialize
  BY <1>3 DEF Materialize, ListedOK
<1>4. CASE InboxSide
  BY <1>1, <1>2, <1>3, <1>4 DEF InboxSide, CompleteEvent
<1>5. CASE Tick \/ Routes \/ Accounts \/ UNCHANGED vars
  BY <1>1, <1>5 DEF Tick, Routes, ReceivePut, PutSubscription, PutRefused, PutEnds, RevokeSession,
                    DeleteBoundSubscription, Accounts, DeleteAccount, DropAccount, vars
<1>6. CASE UpkeepStep \/ UpkeepFails
  BY <1>1, <1>6 DEF UpkeepStep, UpkeepFails, StartUpkeep, ResolveUser, DeleteOrphaned,
                    DeleteExpiredOrRotated, PurgeTerminalDeliveries
<1>7. ASSUME NEW w \in Workers, WorkerStep(w) \/ Crash(w) PROVE UNCHANGED listed
  BY <1>7 DEF WorkerStep, ClaimPendingDelivery, FindSubscription, LookupRecipient, Send, GoTo,
              DropSubscription, Settle, Crash
<1> QED
  BY <1>1, <1>4, <1>5, <1>6, <1>7 DEF Next

\* Nothing is owed at the start, and nothing has ended.
LEMMA InitMaps == Init => Promise!Init
<1> SUFFICES ASSUME Init PROVE Promise!Init
  OBVIOUS
<1>1. AbsentDelivery.state = "absent" /\ AbsentDelivery.attempts = 0
  BY DEF AbsentDelivery
<1>2. MappedLife = [d \in Keys |-> "none"] /\ MappedTries = [d \in Keys |-> 0]
  BY <1>1 DEF Init, MappedLife, MappedTries, Life
<1>3. MappedEnded = {}
  BY RowTypes DEF Init, MappedEnded, StoredRow
<1> QED
  BY <1>2, <1>3 DEF Promise!Init, Promise!Keys, Keys, MappedLife, MappedTries, MappedEnded

----------------------------------------------------------------------------
\* Each of these actions of the promise is one of its steps.
LEMMA OweIsAStep == ASSUME NEW ds \in SUBSET Keys, Promise!Owe(ds) PROVE Promise!Next
  BY DEF Promise!Next, Promise!Keys, Keys

\* Retirement is a step of the promise.
LEMMA RetireIsAStep == ASSUME NEW ds \in SUBSET Keys, Promise!Retire(ds) PROVE Promise!Next
  BY DEF Promise!Next, Promise!Keys, Keys

\* A failed attempt is a step of the promise.
LEMMA RetryIsAStep == ASSUME NEW d \in Keys, Promise!Retry(d) PROVE Promise!Next
  BY DEF Promise!Next, Promise!Keys, Keys

\* A settlement is a step of the promise.
LEMMA SettleIsAStep ==
  ASSUME NEW d \in Keys, NEW outcome \in {"delivered", "suppressed", "permanent"},
         Promise!Settle(d, outcome)
  PROVE  Promise!Next
  BY DEF Promise!Next, Promise!Keys, Keys, Promise!Outcomes

\* What leaves the mapped rows alone is a stutter.
LEMMA StutterMaps ==
  ASSUME \A d \in Keys : /\ Life(deliveries'[d].state) = Life(deliveries[d].state)
                         /\ deliveries'[d].attempts = deliveries[d].attempts,
         \A s \in SubIds : subs'[s].state = subs[s].state
  PROVE  UNCHANGED Promise!vars
<1>1. MappedLife' = MappedLife /\ MappedTries' = MappedTries
  BY DEF MappedLife, MappedTries
<1>2. MappedLive' = MappedLive /\ MappedEnded' = MappedEnded
  BY DEF MappedLive, MappedEnded
<1> QED
  BY <1>1, <1>2 DEF Promise!vars, MappedLife, MappedTries, MappedLive, MappedEnded

\* The fenced transaction of the inbox worker makes deliveries owed.
LEMMA MaterializeMaps ==
  ASSUME IInv, ListedOK, Materialize
  PROVE  Promise!Next
<1> DEFINE new == {d \in listed : d[1] \in open /\ Recipient[d[1]] \notin erased
                                    /\ deliveries[d].state = "absent"}
           row == [AbsentDelivery EXCEPT !.state = "pending"]
<1>1. row.state = "pending" /\ row.attempts = 0
  BY DEF AbsentDelivery
<1> HIDE DEF row
<1>2. \A d \in Keys : deliveries'[d] = IF d \in new THEN row ELSE deliveries[d]
  BY DEF Materialize, row
<1>3. subs' = subs
  BY DEF Materialize
<1>4. \A d \in new : d \in Keys /\ MappedLife[d] = "none" /\ Owner[d[2]] = Recipient[d[1]]
  BY DEF IInv, TypeOK, MappedLife, Life, ListedOK
<1>5. MappedLife' = [d \in Keys |-> IF d \in new THEN "owed" ELSE MappedLife[d]]
  BY <1>1, <1>2 DEF MappedLife, Life
<1>6. MappedTries' = [d \in Keys |-> IF d \in new THEN 0 ELSE MappedTries[d]]
  BY <1>1, <1>2 DEF MappedTries
<1>7. MappedLive' = MappedLive /\ MappedEnded' = MappedEnded
  BY <1>3 DEF MappedLive, MappedEnded
<1> HIDE DEF new
<1>8. PICK ds \in SUBSET Keys : ds = new
  BY <1>4
<1>9. Promise!Owe(ds)
  BY <1>4, <1>5, <1>6, <1>7, <1>8
     DEF Promise!Owe, Promise!Keys, Keys, MappedLife, MappedTries, MappedLive, MappedEnded
<1> QED
  BY <1>8, <1>9, OweIsAStep

\* A PUT refreshes a registered row or registers one that was never used.
LEMMA PutMaps ==
  ASSUME IInv, NEW r \in putting, PutSubscription(r)
  PROVE  [Promise!Next]_(Promise!vars)
<1> DEFINE row == [state |-> "live", session |-> r.session, until |-> r.until]
<1>1. PICK s \in SubIds : subs[s].state \in {"live", "unused"} /\ subs' = [subs EXCEPT ![s] = row]
  BY DEF PutSubscription, Registered, Live
<1>2. deliveries' = deliveries /\ row.state = "live"
  BY DEF PutSubscription
<1> HIDE DEF row
<1>3. \A i \in SubIds : subs'[i] = IF i = s THEN row ELSE subs[i]
  BY <1>1 DEF IInv, TypeOK
<1>4. CASE subs[s].state = "live"
  BY <1>2, <1>3, <1>4, StutterMaps
<1>5. CASE subs[s].state = "unused"
  <2>1. s \notin MappedLive \cup MappedEnded
    BY <1>5 DEF MappedLive, MappedEnded
  <2>2. MappedLive' = MappedLive \cup {s} /\ MappedEnded' = MappedEnded
    BY <1>2, <1>3, <1>5 DEF MappedLive, MappedEnded
  <2>3. MappedLife' = MappedLife /\ MappedTries' = MappedTries
    BY <1>2 DEF MappedLife, MappedTries
  <2>4. Promise!Register(s)
    BY <2>1, <2>2, <2>3
       DEF Promise!Register, MappedLife, MappedTries, MappedLive, MappedEnded
  <2> QED
    BY <2>4 DEF Promise!Next
<1> QED
  BY <1>1, <1>4, <1>5

\* Any removal of registered subscriptions is a Remove of the promise.
LEMMA RemoveMaps ==
  ASSUME IInv, NEW gone \in SUBSET SubIds, \A s \in gone : Live(s), Remove(gone)
  PROVE  Promise!Next
<1>1. \A s \in SubIds : subs'[s].state = IF s \in gone THEN "gone" ELSE subs[s].state
  BY RowTypes DEF Remove
<1>2. \A s \in gone : subs[s].state = "live"
  BY DEF Live
<1>3. MappedLive' = MappedLive \ gone /\ MappedEnded' = MappedEnded \cup gone
  BY <1>1, <1>2 DEF MappedLive, MappedEnded
<1>4. gone \subseteq MappedLive
  BY <1>2 DEF MappedLive
<1> DEFINE Removed(r) == [r EXCEPT !.state = "permanent", !.settledAt = now,
                                   !.lease = NoLease, !.leaseUntil = 0]
<1>5. \A r \in Delivery : Removed(r).state = "permanent" /\ Removed(r).attempts = r.attempts
  BY DEF Delivery
<1>6. \A d \in Keys : deliveries'[d] = IF SettledByRemoval(d, gone) THEN Removed(deliveries[d])
                                       ELSE deliveries[d]
  BY DEF Remove
<1> HIDE DEF Removed
<1>7. \A d \in Keys : deliveries[d] \in Delivery
  BY DEF IInv, TypeOK
<1>8. \A d \in Keys : SettledByRemoval(d, gone) <=> d[2] \in gone /\ MappedLife[d] = "owed"
  BY <1>7 DEF SettledByRemoval, Unsettled, MappedLife, Life, Delivery, DeliveryState
<1>9. MappedLife' = [d \in Keys |-> IF d[2] \in gone /\ MappedLife[d] = "owed"
                                    THEN "permanent" ELSE MappedLife[d]]
  BY <1>5, <1>6, <1>7, <1>8 DEF MappedLife, Life
<1>10. MappedTries' = MappedTries
  BY <1>5, <1>6, <1>7 DEF MappedTries
<1>11. Promise!Remove(gone)
  BY <1>3, <1>4, <1>9, <1>10
     DEF Promise!Remove, Promise!Keys, Keys, MappedLife, MappedTries, MappedLive, MappedEnded
<1>12. gone \in SUBSET {s \in SubIds : subs[s].state = "live"}
  BY <1>4 DEF MappedLive
<1> QED
  BY <1>11, <1>12 DEF Promise!Next

\* The deletion of an account erases its deliveries and ends its subscriptions.
LEMMA EraseMaps ==
  ASSUME IInv, NEW u \in Users, DeleteAccount(u)
  PROVE  Promise!Next
<1> DEFINE gone == {s \in MappedLive : Owner[s] = u}
<1>1. AbsentDelivery.state = "absent" /\ AbsentDelivery.attempts = 0
  BY DEF AbsentDelivery
<1>2. \A s \in SubIds : subs'[s].state = IF s \in gone THEN "gone" ELSE subs[s].state
  BY RowTypes DEF DeleteAccount, Live, MappedLive
<1>3. \A s \in gone : s \in SubIds /\ subs[s].state = "live"
  BY DEF MappedLive
<1>4. MappedLive' = MappedLive \ gone /\ MappedEnded' = MappedEnded \cup gone
  BY <1>2, <1>3 DEF MappedLive, MappedEnded
<1>5. \A d \in Keys : deliveries'[d] = IF Owner[d[2]] = u THEN AbsentDelivery ELSE deliveries[d]
  BY DEF DeleteAccount
<1>6. MappedLife' = [d \in Keys |-> IF Owner[d[2]] = u THEN "none" ELSE MappedLife[d]]
  BY <1>1, <1>5 DEF MappedLife, Life
<1>7. MappedTries' = [d \in Keys |-> IF Owner[d[2]] = u THEN 0 ELSE MappedTries[d]]
  BY <1>1, <1>5 DEF MappedTries
<1>8. Promise!Erase(u)
  BY <1>4, <1>6, <1>7
     DEF Promise!Erase, Promise!Keys, Keys, MappedLife, MappedTries, MappedLive, MappedEnded
<1> QED
  BY <1>8 DEF Promise!Next

\* Retention retires settled deliveries.
LEMMA PurgeMaps ==
  ASSUME IInv, PurgeTerminalDeliveries
  PROVE  Promise!Next
<1> DEFINE old == {d \in Keys : Purgeable(d)}
<1>1. AbsentDelivery.state = "absent" /\ AbsentDelivery.attempts = 0
  BY DEF AbsentDelivery
<1>2. subs' = subs /\ \A d \in Keys : deliveries'[d] = IF d \in old THEN AbsentDelivery
                                                        ELSE deliveries[d]
  BY DEF PurgeTerminalDeliveries
<1>3. \A d \in old : d \in Keys /\ MappedLife[d] \in {"delivered", "suppressed", "permanent"}
  BY DEF Purgeable, Settled, MappedLife, Life
<1> HIDE DEF old
<1>4. MappedLife' = [d \in Keys |-> IF d \in old THEN "none" ELSE MappedLife[d]]
  BY <1>1, <1>2 DEF MappedLife, Life
<1>5. MappedTries' = [d \in Keys |-> IF d \in old THEN 0 ELSE MappedTries[d]]
  BY <1>1, <1>2 DEF MappedTries
<1>6. MappedLive' = MappedLive /\ MappedEnded' = MappedEnded
  BY <1>2 DEF MappedLive, MappedEnded
<1>7. PICK ds \in SUBSET Keys : ds = old
  BY <1>3
<1>8. Promise!Retire(ds)
  BY <1>3, <1>4, <1>5, <1>6, <1>7
     DEF Promise!Retire, Promise!Outcomes, Promise!Keys, Keys, MappedLife, MappedTries,
         MappedLive, MappedEnded
<1> QED
  BY <1>7, <1>8, RetireIsAStep

\* What a settlement writes, in terms of the row it settles.
LEMMA SettlementOutcome ==
  ASSUME IInv, NEW w \in Workers, NEW delay \in Delays, Fenced(w),
         worker[w].pc \in {"suppress", "delivered", "permanent", "retry"}
  PROVE  LET old == deliveries[worker[w].key]
             row == Settlement(w, delay)
         IN  /\ worker[w].key \in Keys /\ old.state = "processing" /\ old.attempts \in Nat
             /\ \/ row.state \in {"delivered", "suppressed"} /\ row.attempts = old.attempts
                \/ row.state = "permanent" /\ row.attempts = old.attempts + 1
                \/ /\ row.state = "pending" /\ row.attempts = old.attempts + 1
                   /\ old.attempts + 1 < MaxAttempts
<1> USE PushAssumption
<1> DEFINE old == deliveries[worker[w].key]
           done == [old EXCEPT !.lease = NoLease, !.leaseUntil = 0, !.settledAt = now]
           n == worker[w].attempts + 1
           again == [old EXCEPT !.state = "pending", !.attempts = n, !.lease = NoLease,
                                !.leaseUntil = 0, !.nextAt = now + delay]
           failed == [done EXCEPT !.state = "permanent", !.attempts = n]
           Ended(s) == [done EXCEPT !.state = s]
<1>1. worker[w].key \in Keys /\ old \in Delivery
  BY DEF IInv, TypeOK, LocalsOK
<1>2. old.state = "processing" /\ old.attempts = worker[w].attempts
  BY DEF IInv, OneSettler, Holds
<1>3. old.attempts \in Nat
  BY <1>1 DEF Delivery
<1>4. done.attempts = old.attempts /\ done \in Delivery
  BY <1>1 DEF Delivery, IInv, TypeOK
<1>5. /\ again.state = "pending" /\ again.attempts = n
      /\ failed.state = "permanent" /\ failed.attempts = n
  BY <1>1, <1>4 DEF Delivery
<1>6. \A s \in {"delivered", "suppressed"} : Ended(s).state = s /\ Ended(s).attempts = old.attempts
  BY <1>4 DEF Delivery
<1>7. n = old.attempts + 1 /\ MaxAttempts \in Nat
  BY <1>2
<1>8. /\ worker[w].pc = "suppress" => Settlement(w, delay) = Ended("suppressed")
      /\ worker[w].pc = "delivered" => Settlement(w, delay) = Ended("delivered")
      /\ worker[w].pc = "permanent" => Settlement(w, delay) = failed
      /\ worker[w].pc = "retry" => Settlement(w, delay) = IF n >= MaxAttempts THEN failed ELSE again
  BY DEF Settlement, LastAttempt
<1> HIDE DEF old, done, n, again, failed, Ended
<1>9. n >= MaxAttempts \/ old.attempts + 1 < MaxAttempts
  BY <1>3, <1>7
<1> QED
  BY <1>1, <1>2, <1>3, <1>5, <1>6, <1>7, <1>8, <1>9 DEF old

\* A settlement with the row's lease settles it or counts a failed attempt; one
\* without changes nothing.
LEMMA SettleMaps ==
  ASSUME IInv, NEW w \in Workers, NEW delay \in Delays, Settle(w, delay)
  PROVE  [Promise!Next]_(Promise!vars)
<1> DEFINE row == Settlement(w, delay)
<1>1. subs' = subs
  BY DEF Settle
<1>2. CASE ~Fenced(w)
  BY <1>1, <1>2, StutterMaps DEF Settle
<1>3. CASE Fenced(w)
  <2>0. PICK k \in Keys : k = worker[w].key
    BY DEF Settle, IInv, LocalsOK, Fenced
  <2>1. /\ deliveries[k].state = "processing" /\ deliveries[k].attempts \in Nat
        /\ \/ row.state \in {"delivered", "suppressed"} /\ row.attempts = deliveries[k].attempts
           \/ row.state = "permanent" /\ row.attempts = deliveries[k].attempts + 1
           \/ /\ row.state = "pending" /\ row.attempts = deliveries[k].attempts + 1
              /\ deliveries[k].attempts + 1 < MaxAttempts
    BY <1>3, <2>0, SettlementOutcome DEF Settle
  <2>2. deliveries' = [deliveries EXCEPT ![k] = row]
    BY <1>3, <2>0 DEF Settle
  <2> HIDE DEF row
  <2>3. \A d \in Keys : deliveries'[d] = IF d = k THEN row ELSE deliveries[d]
    BY <2>2 DEF IInv, TypeOK
  <2>4. MappedLive' = MappedLive /\ MappedEnded' = MappedEnded
    BY <1>1 DEF MappedLive, MappedEnded
  <2>5. MappedLife[k] = "owed" /\ MappedTries[k] = deliveries[k].attempts
    BY <2>1 DEF MappedLife, MappedTries, Life
  <2>6. MappedTries' = [MappedTries EXCEPT ![k] = row.attempts]
    BY <2>1, <2>3 DEF MappedTries
  <2>7. MappedLife' = [MappedLife EXCEPT ![k] = Life(row.state)]
    BY <2>1, <2>3 DEF MappedLife
  <2>8. CASE row.state = "pending"
    <3>1. MappedLife' = MappedLife
      BY <2>1, <2>3, <2>8 DEF MappedLife, Life
    <3>2. /\ MappedTries' = [MappedTries EXCEPT ![k] = MappedTries[k] + 1]
          /\ MappedTries[k] + 1 < MaxAttempts
      BY <2>1, <2>5, <2>6, <2>8
    <3>3. Promise!Retry(k)
      BY <2>4, <2>5, <3>1, <3>2
         DEF Promise!Retry, MappedLife, MappedTries, MappedLive, MappedEnded
    <3> QED
      BY <3>3, RetryIsAStep
  <2>9. CASE row.state = "permanent"
    <3>1. /\ MappedTries' = [MappedTries EXCEPT ![k] = MappedTries[k] + 1]
          /\ MappedLife' = [MappedLife EXCEPT ![k] = "permanent"]
      BY <2>1, <2>5, <2>6, <2>7, <2>9 DEF Life
    <3>2. Promise!Settle(k, "permanent")
      BY <2>4, <2>5, <3>1
         DEF Promise!Settle, MappedLife, MappedTries, MappedLive, MappedEnded
    <3> QED
      BY <3>2, SettleIsAStep
  <2>10. CASE row.state \in {"delivered", "suppressed"}
    <3>1. MappedTries' = MappedTries /\ MappedLife' = [MappedLife EXCEPT ![k] = row.state]
      BY <2>1, <2>3, <2>7, <2>10 DEF MappedTries, Life
    <3>2. PICK outcome \in {"delivered", "suppressed"} : outcome = row.state
      BY <2>10
    <3>3. Promise!Settle(k, outcome)
      BY <2>4, <2>5, <3>1, <3>2
         DEF Promise!Settle, MappedLife, MappedTries, MappedLive, MappedEnded
    <3> QED
      BY <3>3, SettleIsAStep
  <2> QED
    BY <2>1, <2>8, <2>9, <2>10
<1> QED
  BY <1>2, <1>3

----------------------------------------------------------------------------
\* Every step of the push side is a step of the promise or a stutter.
LEMMA NextMaps == IInv /\ ListedOK /\ [Next]_vars => [Promise!Next]_(Promise!vars)
<1> SUFFICES ASSUME IInv, ListedOK, [Next]_vars PROVE [Promise!Next]_(Promise!vars)
  OBVIOUS
<1>1. CASE UNCHANGED <<subs, deliveries>>
  BY <1>1, StutterMaps
<1>2. ASSUME NEW gone \in SUBSET SubIds, \A s \in gone : Live(s), Remove(gone)
      PROVE  Promise!Next
  BY <1>2, RemoveMaps
<1>3. CASE Tick \/ UNCHANGED vars
  BY <1>1, <1>3 DEF Tick, vars
<1>4. CASE InboxSide
  BY <1>1, <1>4, MaterializeMaps DEF InboxSide, ListFor, CompleteEvent
<1>5. CASE Routes
  <2>1. ASSUME NEW c \in Sessions, RevokeSession(c) PROVE Promise!Next
    <3> DEFINE gone == {s \in SubIds : Live(s) /\ Owner[s] = SessionUser[c]
                                          /\ subs[s].session = c}
    <3>1. Remove(gone) /\ gone \in SUBSET SubIds /\ \A s \in gone : Live(s)
      BY <2>1 DEF RevokeSession
    <3> QED
      BY <1>2, <3>1
  <2>2. ASSUME NEW c \in Sessions, NEW s \in SubIds, DeleteBoundSubscription(c, s)
        PROVE  Promise!Next
    <3>1. Remove({s}) /\ {s} \in SUBSET SubIds /\ \A i \in {s} : Live(i)
      BY <2>2 DEF DeleteBoundSubscription
    <3> QED
      BY <1>2, <3>1
  <2>3. ASSUME NEW c \in Clients, NEW p \in Endpoints, NEW until \in {1, Never},
               ReceivePut(c, p, until)
        PROVE  UNCHANGED <<subs, deliveries>>
    BY <2>3 DEF ReceivePut
  <2>4. ASSUME NEW r \in putting, PutRefused(r) PROVE UNCHANGED <<subs, deliveries>>
    BY <2>4 DEF PutRefused
  <2> QED
    BY <1>1, <1>5, <2>1, <2>2, <2>3, <2>4, PutMaps DEF Routes
<1>6. CASE Accounts
  BY <1>1, <1>6, EraseMaps DEF Accounts, DropAccount
<1>7. CASE UpkeepStep \/ UpkeepFails
  <2>1. CASE DeleteOrphaned
    <3>1. /\ Remove(Orphaned(upkeep.existing))
          /\ Orphaned(upkeep.existing) \in SUBSET SubIds
          /\ \A s \in Orphaned(upkeep.existing) : Live(s)
      BY <2>1 DEF DeleteOrphaned, Orphaned
    <3> QED
      BY <1>2, <3>1
  <2>2. CASE DeleteExpiredOrRotated
    <3> DEFINE gone == {s \in SubIds : Live(s) /\ subs[s].until <= now}
    <3>1. Remove(gone) /\ gone \in SUBSET SubIds /\ \A s \in gone : Live(s)
      BY <2>2 DEF DeleteExpiredOrRotated
    <3> QED
      BY <1>2, <3>1
  <2>3. CASE StartUpkeep \/ UpkeepFails \/ \E u \in Users : ResolveUser(u)
    BY <1>1, <2>3 DEF StartUpkeep, UpkeepFails, ResolveUser
  <2> QED
    BY <1>7, <2>1, <2>2, <2>3, PurgeMaps DEF UpkeepStep
<1>8. ASSUME NEW w \in Workers, WorkerStep(w) \/ Crash(w)
      PROVE  [Promise!Next]_(Promise!vars)
  <2>1. ASSUME NEW d \in Keys, NEW l \in LeaseIds, ClaimPendingDelivery(w, d, l)
        PROVE  UNCHANGED Promise!vars
    <3> DEFINE row == [deliveries[d] EXCEPT !.state = "processing", !.lease = l,
                                            !.leaseUntil = now + LeaseTime]
    <3>1. deliveries[d] \in Delivery /\ deliveries[d].state \in {"pending", "processing"}
      BY <2>1 DEF ClaimPendingDelivery, Claimable, IInv, TypeOK
    <3>2. row.state = "processing" /\ row.attempts = deliveries[d].attempts
      BY <3>1 DEF Delivery
    <3>3. deliveries' = [deliveries EXCEPT ![d] = row] /\ subs' = subs
      BY <2>1 DEF ClaimPendingDelivery, IInv, TypeOK
    <3> HIDE DEF row
    <3>4. \A e \in Keys : deliveries'[e] = IF e = d THEN row ELSE deliveries[e]
      BY <3>3 DEF IInv, TypeOK
    <3> QED
      BY <3>1, <3>2, <3>3, <3>4, StutterMaps DEF Life
  <2>2. CASE FindSubscription(w) \/ Crash(w) \/ \E pc \in PC : LookupRecipient(w, pc) \/ Send(w, pc)
    BY <1>1, <2>2 DEF FindSubscription, LookupRecipient, Send, GoTo, Crash
  <2>3. CASE DropSubscription(w)
    <3> DEFINE s == worker[w].key[2]
    <3>1. s \in SubIds
      BY <2>3 DEF DropSubscription, IInv, LocalsOK, Keys
    <3>2. CASE Live(s)
      BY <1>2, <2>3, <3>1, <3>2 DEF DropSubscription
    <3>3. CASE ~Live(s)
      BY <1>1, <2>3, <3>3 DEF DropSubscription
    <3> QED
      BY <3>2, <3>3
  <2> QED
    BY <1>8, <2>1, <2>2, <2>3, SettleMaps DEF WorkerStep
<1> QED
  BY <1>3, <1>4, <1>5, <1>6, <1>7, <1>8 DEF Next

\* Any number of workers, leases, retries and removals: users see one promise for
\* each delivery.
THEOREM Refinement == Spec => ImplementsPromise
<1>1. Init => ListedOK
  BY DEF Init, ListedOK
<1>2. Spec => []ListedOK
  BY <1>1, ListedStep, PTL DEF Spec
<1> QED
  BY <1>2, InitMaps, NextMaps, Invariance, PTL DEF Spec, ImplementsPromise, Promise!Spec
=============================================================================
