--------------------------- MODULE PushLimitProofs ---------------------------
(***************************************************************************)
(* Proof that registrations stay within the limits of module Push, for     *)
(* every limit and every number of rows, users, sessions and endpoints.    *)
(* Only PUT adds a row; everything else keeps the live rows or removes     *)
(* some of them.  The same fact tells what the two findings about          *)
(* registrations come from.                                                *)
(***************************************************************************)
EXTENDS PushProofs, FiniteSetTheorems

\* The inductive form of RegistrationsBounded: an endpoint names its live row, and
\* the live rows of a user are finitely many, so that counting them means something.
Bounded ==
  /\ \A i, j \in SubIds : Live(i) /\ Live(j) /\ Endpoint[i] = Endpoint[j] => i = j
  /\ \A u \in Users : IsFiniteSet(Active(u)) /\ Cardinality(Active(u)) <= MaxPerUser

----------------------------------------------------------------------------
\* The rows an earlier release left are within the limits.
LEMMA InitBounded == Init => Bounded
<1> SUFFICES ASSUME Init PROVE Bounded
  OBVIOUS
<1> USE PushAssumption, StoredAssumption
<1>1. \A i \in SubIds : Live(i) => i \in Stored
  BY DEF Init, Live
<1>2. ASSUME NEW u \in Users
      PROVE  IsFiniteSet(Active(u)) /\ Cardinality(Active(u)) <= MaxPerUser
  <2> DEFINE old == {i \in Stored : Owner[i] = u}
  <2>1. IsFiniteSet(old) /\ Cardinality(old) <= MaxPerUser
    BY FS_Subset, old \subseteq Stored
  <2>2. Active(u) \subseteq old
    BY <1>1 DEF Active
  <2>3. IsFiniteSet(Active(u)) /\ Cardinality(Active(u)) <= Cardinality(old)
    BY <2>1, <2>2, FS_Subset
  <2>4. Cardinality(Active(u)) \in Nat /\ Cardinality(old) \in Nat
    BY <2>1, <2>3, FS_CardinalityType
  <2> QED
    BY <2>1, <2>3, <2>4
<1> QED
  BY <1>1, <1>2 DEF Bounded

\* A step that makes no row live keeps the limits.
LEMMA NoneAdded ==
  ASSUME Bounded, \A i \in SubIds : Live(i)' => Live(i)
  PROVE  Bounded'
<1> USE PushAssumption
<1>1. ASSUME NEW u \in Users
      PROVE  IsFiniteSet(Active(u)') /\ Cardinality(Active(u)') <= MaxPerUser
  <2>1. IsFiniteSet(Active(u)) /\ Cardinality(Active(u)) <= MaxPerUser
    BY DEF Bounded
  <2>2. Active(u)' \subseteq Active(u)
    BY DEF Active
  <2>3. IsFiniteSet(Active(u)') /\ Cardinality(Active(u)') <= Cardinality(Active(u))
    BY <2>1, <2>2, FS_Subset
  <2>4. Cardinality(Active(u)') \in Nat /\ Cardinality(Active(u)) \in Nat
    BY <2>1, <2>3, FS_CardinalityType
  <2> QED
    BY <2>1, <2>3, <2>4
<1> QED
  BY <1>1 DEF Bounded

\* Removals of any kind make no row live.
LEMMA RemoveAddsNone ==
  ASSUME NEW gone, Remove(gone)
  PROVE  \A i \in SubIds : Live(i)' => Live(i)
BY RowTypes DEF Remove, Live

\* PUT: an endpoint of the same user keeps its row; a new row needs a free
\* endpoint and a user below the limit.
LEMMA PutBounded ==
  ASSUME IInv, Bounded, NEW r \in putting, PutSubscription(r)
  PROVE  Bounded'
<1> USE PushAssumption
<1> DEFINE u == SessionUser[r.session]
           row == [state |-> "live", session |-> r.session, until |-> r.until]
<1>1. subs \in [SubIds -> SubRow] /\ r \in [session : Sessions, endpoint : Endpoints, until : Nat]
  BY DEF IInv, TypeOK
<1>2. CASE \E s \in Registered(r.endpoint) : Owner[s] = u /\ subs' = [subs EXCEPT ![s] = row]
  <2>1. \A i \in SubIds : Live(i)' => Live(i)
    BY <1>1, <1>2 DEF Registered, Live
  <2> QED
    BY <2>1, NoneAdded
<1>3. CASE /\ Registered(r.endpoint) = {} /\ UnderLimit(u)
           /\ \E s \in SubIds : /\ subs[s].state = "unused"
                                /\ Owner[s] = u /\ Endpoint[s] = r.endpoint
                                /\ subs' = [subs EXCEPT ![s] = row]
  <2>1. PICK s \in SubIds : /\ subs[s].state = "unused"
                            /\ Owner[s] = u /\ Endpoint[s] = r.endpoint
                            /\ subs' = [subs EXCEPT ![s] = row]
    BY <1>3
  <2>2. \A i \in SubIds : Live(i)' <=> Live(i) \/ i = s
    BY <1>1, <2>1 DEF Live
  <2>3. \A i \in SubIds : Live(i) => Endpoint[i] # Endpoint[s]
    BY <1>3, <2>1 DEF Registered
  <2>4. \A i, j \in SubIds : Live(i)' /\ Live(j)' /\ Endpoint[i] = Endpoint[j] => i = j
    BY <2>2, <2>3 DEF Bounded
  <2>5. ASSUME NEW v \in Users
        PROVE  IsFiniteSet(Active(v)') /\ Cardinality(Active(v)') <= MaxPerUser
    <3>1. IsFiniteSet(Active(v)) /\ Cardinality(Active(v)) <= MaxPerUser
      BY DEF Bounded
    <3>2. CASE v = u
      <4>1. Active(v)' = Active(v) \cup {s}
        BY <2>1, <2>2, <3>2 DEF Active
      <4>2. s \notin Active(v) /\ Cardinality(Active(v)) < MaxPerUser
        BY <1>3, <2>1, <3>2 DEF Active, Live, UnderLimit
      <4>3. /\ IsFiniteSet(Active(v)')
            /\ Cardinality(Active(v)') = Cardinality(Active(v)) + 1
        BY <3>1, <4>1, <4>2, FS_AddElement
      <4>4. Cardinality(Active(v)) \in Nat
        BY <3>1, FS_CardinalityType
      <4> QED
        BY <4>2, <4>3, <4>4
    <3>3. CASE v # u
      <4>1. Active(v)' = Active(v)
        BY <2>1, <2>2, <3>3 DEF Active
      <4> QED
        BY <3>1, <4>1
    <3> QED
      BY <3>2, <3>3
  <2> QED
    BY <2>4, <2>5 DEF Bounded
<1> QED
  BY <1>2, <1>3 DEF PutSubscription

----------------------------------------------------------------------------
\* The only step that makes a row live is the write of a PUT.
LEMMA OnlyPutAdds ==
  ASSUME [Next]_vars
  PROVE  (\A i \in SubIds : Live(i)' => Live(i)) \/ \E r \in putting : PutSubscription(r)
<1> DEFINE NoneNew == \A i \in SubIds : Live(i)' => Live(i)
           Goal == NoneNew \/ \E r \in putting : PutSubscription(r)
<1>1. ASSUME UNCHANGED subs PROVE NoneNew
  BY <1>1 DEF Live
<1>2. ASSUME NEW gone, Remove(gone) PROVE NoneNew
  BY <1>2, RemoveAddsNone
<1> SUFFICES Goal
  OBVIOUS
<1> HIDE DEF NoneNew
<1>3. CASE UNCHANGED vars
  BY <1>1, <1>3 DEF vars
<1>4. CASE Tick
  BY <1>1, <1>4 DEF Tick
<1>5. CASE InboxSide
  BY <1>1, <1>5 DEF InboxSide, ListFor, CompleteEvent, Materialize
<1>6. CASE Routes
  <2>1. ASSUME NEW c \in Clients, NEW p \in Endpoints, NEW until \in {1, Never},
               ReceivePut(c, p, until)
        PROVE  Goal
    BY <1>1, <2>1 DEF ReceivePut
  <2>2. ASSUME NEW r \in putting, PutSubscription(r) PROVE Goal
    BY <2>2
  <2>3. ASSUME NEW r \in putting, PutRefused(r) PROVE Goal
    BY <1>1, <2>3 DEF PutRefused
  <2>4. ASSUME NEW c \in Sessions, RevokeSession(c) PROVE Goal
    BY <1>2, <2>4 DEF RevokeSession
  <2>5. ASSUME NEW c \in Sessions, NEW s \in SubIds, DeleteBoundSubscription(c, s)
        PROVE  Goal
    BY <1>2, <2>5 DEF DeleteBoundSubscription
  <2> QED
    BY <1>6, <2>1, <2>2, <2>3, <2>4, <2>5 DEF Routes
<1>7. CASE Accounts
  <2>1. ASSUME NEW u \in Users, DeleteAccount(u) PROVE Goal
    BY <2>1, RowTypes DEF DeleteAccount, Live, NoneNew
  <2>2. ASSUME NEW u \in Users, DropAccount(u) PROVE Goal
    BY <1>1, <2>2 DEF DropAccount
  <2> QED
    BY <1>7, <2>1, <2>2 DEF Accounts
<1>8. CASE UpkeepStep \/ UpkeepFails
  <2>1. CASE StartUpkeep \/ UpkeepFails \/ \E u \in Users : ResolveUser(u)
    BY <1>1, <2>1 DEF StartUpkeep, UpkeepFails, ResolveUser
  <2>2. CASE DeleteOrphaned
    BY <1>2, <2>2 DEF DeleteOrphaned
  <2>3. CASE DeleteExpiredOrRotated
    BY <1>2, <2>3 DEF DeleteExpiredOrRotated
  <2>4. CASE PurgeTerminalDeliveries
    BY <1>1, <2>4 DEF PurgeTerminalDeliveries
  <2> QED
    BY <1>8, <2>1, <2>2, <2>3, <2>4 DEF UpkeepStep
<1>9. ASSUME NEW w \in Workers, WorkerStep(w) \/ Crash(w) PROVE Goal
  <2>1. CASE \E d \in Keys, l \in LeaseIds : ClaimPendingDelivery(w, d, l)
    BY <1>1, <2>1 DEF ClaimPendingDelivery
  <2>2. CASE FindSubscription(w) \/ \E pc \in PC : LookupRecipient(w, pc) \/ Send(w, pc)
    BY <1>1, <2>2 DEF FindSubscription, LookupRecipient, Send, GoTo
  <2>3. CASE DropSubscription(w)
    BY <1>1, <1>2, <2>3 DEF DropSubscription
  <2>4. CASE Crash(w) \/ \E delay \in Delays : Settle(w, delay)
    BY <1>1, <2>4 DEF Crash, Settle
  <2> QED
    BY <1>9, <2>1, <2>2, <2>3, <2>4 DEF WorkerStep
<1> QED
  BY <1>3, <1>4, <1>5, <1>6, <1>7, <1>8, <1>9 DEF Next, NoneNew

\* Every step keeps the limits.
LEMMA BoundedStep == IInv /\ Bounded /\ [Next]_vars => Bounded'
BY OnlyPutAdds, NoneAdded, PutBounded

\* Registrations never exceed the limits: no endpoint is registered twice and no
\* user has more subscriptions than the limit, whichever PUTs, removals and
\* deletions overlap (the transaction of putSubscription).
THEOREM LimitsHold == Spec => []RegistrationsBounded
<1>1. Init => IInv /\ Bounded
  BY InitInv, InitBounded
<1>2. (IInv /\ Bounded) /\ [Next]_vars => (IInv /\ Bounded)'
  BY NextInv, BoundedStep
<1>3. Bounded => RegistrationsBounded
  <2> SUFFICES ASSUME Bounded, NEW p \in Endpoints PROVE Cardinality(Registered(p)) <= 1
    BY DEF Bounded, RegistrationsBounded
  <2>1. CASE Registered(p) = {}
    BY <2>1, FS_EmptySet
  <2>2. CASE \E s \in SubIds : Registered(p) = {s}
    <3>1. PICK s \in SubIds : Registered(p) = {s}
      BY <2>2
    <3>2. Cardinality({s}) = 1
      BY FS_Singleton
    <3> QED
      BY <3>1, <3>2
  <2>3. \A i, j \in Registered(p) : i = j
    BY DEF Bounded, Registered
  <2>4. Registered(p) \subseteq SubIds
    BY DEF Registered
  <2> QED
    BY <2>1, <2>2, <2>3, <2>4
<1> QED
  BY <1>1, <1>2, <1>3, PTL DEF Spec

----------------------------------------------------------------------------
(* What the two unwanted rows and removals come from.  Runs push_late_put   *)
(* and push_reconcile show that NoSubscriptionForErased and                 *)
(* OnlyOrphansRemoved fail; here they hold of every behavior in which one   *)
(* kind of step does not happen at one kind of moment.                      *)

\* No account is deleted while a PUT of it waits for its body.
DeletionsMeetNoPut ==
  \A u \in Users : DeleteAccount(u) => \A r \in putting : SessionUser[r.session] # u

\* The users with a subscription.
Registrants == {Owner[s] : s \in {i \in SubIds : Live(i)}}

\* While maintenance looks up accounts, nobody gets the first subscription.
NoFirstWhileResolving == upkeep.pc = "resolve" => Registrants' \subseteq Registrants

\* Nothing stored and nothing on its way belongs to an erased account.
NothingErased ==
  NoSubscriptionForErased /\ \A r \in putting : SessionUser[r.session] \notin erased

\* Every registered user of an existing account is still to be looked up or was found.
LookupsCover ==
  upkeep.pc = "resolve" => Registrants \cap accounts \subseteq upkeep.todo \cup upkeep.existing

\* Only account deletion leaves a tombstone, and an account never comes back.
LEMMA AccountsStep ==
  ASSUME [Next]_vars
  PROVE  /\ UNCHANGED erased \/ \E u \in Users : DeleteAccount(u)
         /\ accounts' \subseteq accounts
<1> DEFINE Same == UNCHANGED <<erased, accounts>>
<1>1. CASE UNCHANGED vars \/ Tick
  BY <1>1 DEF vars, Tick
<1>2. CASE InboxSide
  BY <1>2 DEF InboxSide, ListFor, CompleteEvent, Materialize
<1>3. CASE Routes
  BY <1>3 DEF Routes, ReceivePut, PutSubscription, PutRefused, PutEnds, RevokeSession,
              DeleteBoundSubscription
<1>4. CASE Accounts
  BY <1>4 DEF Accounts, DeleteAccount, DropAccount
<1>5. CASE UpkeepStep \/ UpkeepFails
  BY <1>5 DEF UpkeepStep, UpkeepFails, StartUpkeep, ResolveUser, DeleteOrphaned,
              DeleteExpiredOrRotated, PurgeTerminalDeliveries
<1>6. ASSUME NEW w \in Workers, WorkerStep(w) \/ Crash(w) PROVE Same
  BY <1>6 DEF WorkerStep, Crash, ClaimPendingDelivery, FindSubscription, LookupRecipient, Send,
              GoTo, DropSubscription, Settle
<1> QED
  BY <1>1, <1>2, <1>3, <1>4, <1>5, <1>6 DEF Next

\* A PUT that begins passes the tombstone check of its authentication.
LEMMA PuttingStep ==
  ASSUME [Next]_vars
  PROVE  \A r \in putting' : r \in putting \/ SessionUser[r.session] \notin erased
<1> DEFINE Goal == \A r \in putting' : r \in putting \/ SessionUser[r.session] \notin erased
<1> SUFFICES Goal
  OBVIOUS
<1>1. CASE UNCHANGED vars \/ Tick
  BY <1>1 DEF vars, Tick
<1>2. CASE InboxSide
  BY <1>2 DEF InboxSide, ListFor, CompleteEvent, Materialize
<1>3. CASE Routes
  <2>1. ASSUME NEW c \in Clients, NEW p \in Endpoints, NEW until \in {1, Never},
               ReceivePut(c, p, until)
        PROVE  Goal
    BY <2>1 DEF ReceivePut
  <2>2. ASSUME NEW r \in putting, PutSubscription(r) \/ PutRefused(r) PROVE Goal
    BY <2>2 DEF PutSubscription, PutRefused, PutEnds
  <2>3. ASSUME NEW c \in Sessions,
               RevokeSession(c) \/ \E s \in SubIds : DeleteBoundSubscription(c, s)
        PROVE  Goal
    BY <2>3 DEF RevokeSession, DeleteBoundSubscription
  <2> HIDE DEF Goal
  <2> QED
    BY <1>3, <2>1, <2>2, <2>3 DEF Routes
<1>4. CASE Accounts
  BY <1>4 DEF Accounts, DeleteAccount, DropAccount
<1>5. CASE UpkeepStep \/ UpkeepFails
  BY <1>5 DEF UpkeepStep, UpkeepFails, StartUpkeep, ResolveUser, DeleteOrphaned,
              DeleteExpiredOrRotated, PurgeTerminalDeliveries
<1>6. ASSUME NEW w \in Workers, WorkerStep(w) \/ Crash(w) PROVE Goal
  BY <1>6 DEF WorkerStep, Crash, ClaimPendingDelivery, FindSubscription, LookupRecipient, Send,
              GoTo, DropSubscription, Settle
<1> QED
  BY <1>1, <1>2, <1>3, <1>4, <1>5, <1>6 DEF Next

\* Any step of maintenance but the start of a run and a lookup ends the lookups.
LEMMA UpkeepMoves ==
  ASSUME IInv, [Next]_vars
  PROVE  \/ UNCHANGED upkeep
         \/ StartUpkeep
         \/ \E u \in Users : ResolveUser(u)
         \/ upkeep'.pc # "resolve"
<1>1. CASE UNCHANGED vars \/ Tick
  BY <1>1 DEF vars, Tick
<1>2. CASE InboxSide
  BY <1>2 DEF InboxSide, ListFor, CompleteEvent, Materialize
<1>3. CASE Routes
  BY <1>3 DEF Routes, ReceivePut, PutSubscription, PutRefused, PutEnds, RevokeSession,
              DeleteBoundSubscription
<1>4. CASE Accounts
  BY <1>4 DEF Accounts, DeleteAccount, DropAccount
<1>5. CASE UpkeepStep \/ UpkeepFails
  <2>1. upkeep \in UpkeepState
    BY DEF IInv, TypeOK
  <2>2. CASE UpkeepFails \/ DeleteOrphaned
    BY <2>2 DEF UpkeepFails, DeleteOrphaned, IdleUpkeep
  <2>3. CASE DeleteExpiredOrRotated
    <3>1. upkeep'.pc = "purge"
      BY <2>1, <2>3 DEF DeleteExpiredOrRotated, UpkeepState
    <3> QED
      BY <3>1
  <2>4. CASE PurgeTerminalDeliveries
    BY <2>4 DEF PurgeTerminalDeliveries, IdleUpkeep
  <2> QED
    BY <1>5, <2>2, <2>3, <2>4 DEF UpkeepStep
<1>6. ASSUME NEW w \in Workers, WorkerStep(w) \/ Crash(w) PROVE UNCHANGED upkeep
  BY <1>6 DEF WorkerStep, Crash, ClaimPendingDelivery, FindSubscription, LookupRecipient, Send,
              GoTo, DropSubscription, Settle
<1> QED
  BY <1>1, <1>2, <1>3, <1>4, <1>5, <1>6 DEF Next

\* The row a PUT writes is its own user's.
LEMMA PutOwner ==
  ASSUME IInv, NEW r \in putting, PutSubscription(r)
  PROVE  \A i \in SubIds : Live(i)' => Live(i) \/ Owner[i] = SessionUser[r.session]
BY DEF IInv, TypeOK, PutSubscription, Registered, Live

\* Every step that meets the condition keeps erased accounts out of rows and requests.
LEMMA NothingErasedStep ==
  ASSUME IInv, NothingErased, [Next]_vars, [DeletionsMeetNoPut]_vars
  PROVE  NothingErased'
<1>1. \A i \in SubIds : Live(i)' => Live(i) \/ Owner[i] \notin erased
  BY OnlyPutAdds, PutOwner DEF NothingErased
<1>2. \A r \in putting' : SessionUser[r.session] \notin erased
  BY PuttingStep DEF NothingErased
<1>3. CASE UNCHANGED erased
  BY <1>1, <1>2, <1>3 DEF NothingErased, NoSubscriptionForErased
<1>4. ASSUME NEW u \in Users, DeleteAccount(u)
      PROVE  NothingErased'
  <2>1. erased' = erased \cup {u} /\ putting' = putting /\ ~UNCHANGED vars
    BY <1>4 DEF DeleteAccount, vars
  <2>2. \A r \in putting' : SessionUser[r.session] \notin erased'
    BY <1>2, <1>4, <2>1 DEF DeletionsMeetNoPut
  <2>3. \A i \in SubIds : Live(i)' => Owner[i] # u
    BY <1>4, RowTypes DEF DeleteAccount, Live
  <2> QED
    BY <1>1, <2>1, <2>2, <2>3 DEF NothingErased, NoSubscriptionForErased
<1> QED
  BY <1>3, <1>4, AccountsStep

\* An account deletion leaves no subscription behind, except where it commits while a
\* PUT of that account is between its authentication and its write.
THEOREM OnlyLatePutsStray ==
  Spec /\ [][DeletionsMeetNoPut]_vars => []NoSubscriptionForErased
<1>1. Init => NothingErased
  BY DEF Init, NothingErased, NoSubscriptionForErased
<1>2. IInv /\ NothingErased /\ [Next]_vars /\ [DeletionsMeetNoPut]_vars => NothingErased'
  BY NothingErasedStep
<1>3. NothingErased => NoSubscriptionForErased
  BY DEF NothingErased
<1> QED
  BY <1>1, <1>2, <1>3, Invariance, PTL DEF Spec

\* Every step that meets the condition leaves no registered user out of the lookups.
LEMMA LookupsCoverStep ==
  ASSUME IInv, LookupsCover, [Next]_vars, [NoFirstWhileResolving]_vars
  PROVE  LookupsCover'
<1>1. upkeep \in UpkeepState
  BY DEF IInv, TypeOK
<1>2. CASE StartUpkeep
  BY <1>2, Registrants' = Registrants DEF StartUpkeep, LookupsCover, IdleUpkeep, Registrants,
     Live
<1>3. ASSUME upkeep.pc = "resolve" PROVE Registrants' \subseteq Registrants
  BY <1>3 DEF NoFirstWhileResolving, vars, Registrants, Live
<1>4. ASSUME NEW u \in Users, ResolveUser(u) PROVE LookupsCover'
  <2>1. upkeep.pc = "resolve" /\ upkeep'.todo = upkeep.todo \ {u} /\ accounts' = accounts
        /\ upkeep'.existing = IF u \in accounts THEN upkeep.existing \cup {u} ELSE upkeep.existing
    BY <1>1, <1>4 DEF ResolveUser, UpkeepState
  <2> QED
    BY <1>3, <2>1 DEF LookupsCover
<1>5. CASE UNCHANGED upkeep
  BY <1>3, <1>5, AccountsStep DEF LookupsCover
<1> QED
  BY <1>2, <1>4, <1>5, UpkeepMoves DEF LookupsCover

\* Reconciliation removes no subscription of an existing account, except where
\* somebody without a subscription registers while the lookups are under way.
THEOREM OnlyNewcomersSwept ==
  Spec /\ [][NoFirstWhileResolving]_vars => OnlyOrphansRemoved
<1>1. Init => LookupsCover
  BY DEF Init, LookupsCover, IdleUpkeep
<1>2. IInv /\ LookupsCover /\ [Next]_vars /\ [NoFirstWhileResolving]_vars => LookupsCover'
  BY LookupsCoverStep
<1>3. LookupsCover /\ [Next]_vars =>
        [DeleteOrphaned => \A s \in SubIds : Live(s) /\ Owner[s] \in accounts => Live(s)']_vars
  <2> SUFFICES ASSUME LookupsCover, DeleteOrphaned, NEW s \in SubIds, Live(s),
                      Owner[s] \in accounts
               PROVE  Live(s)'
    OBVIOUS
  <2>1. Owner[s] \in upkeep.existing
    BY DEF LookupsCover, DeleteOrphaned, Registrants
  <2> QED
    BY <2>1 DEF DeleteOrphaned, Orphaned, Remove, Live
<1> QED
  BY <1>1, <1>2, <1>3, Invariance, PTL DEF Spec, OnlyOrphansRemoved
=============================================================================
