---------------------------- MODULE LifecycleProofs ----------------------------
(***************************************************************************)
(* Proofs about module Lifecycle, for every accepted configuration, every  *)
(* margin and timeout of the shutdown and any number of rows: leases cover *)
(* claims, exits are clean, and only what is late runs into the fail-safe. *)
(***************************************************************************)
EXTENDS Lifecycle, TLAPS

\* A lease has not lost more than the time the lookup has taken.
ClaimOK ==
  /\ worker.pc = "idle" => worker = Idle
  /\ worker.pc = "lookup" => /\ worker.event \in Events
                             /\ worker.age <= config.timeout
                             /\ lease[worker.event] + worker.age >= config.lease

\* A delivery whose push service is not slow has spent at most a lookup and what
\* its send has taken.
PushOK ==
  /\ push.pc = "lookup" => /\ push.claim = push.age /\ push.age <= config.timeout
                           /\ ~push.slow
  /\ push.pc = "send" => /\ push.claim <= config.timeout + push.age \/ push.slow
                         /\ push.age <= config.pushTimeout

\* What each phase of the shutdown leaves behind.
PhaseOK ==
  /\ phase = "running" => age = 0
  /\ phase # "exited" => exitCode = "none"
  /\ phase # "stopping" => stop = 0
  /\ phase \in {"running", "closing"} => closedAt = FailSafe
  /\ phase \in {"draining", "stopping"} => requests = 0
  /\ phase = "stopping" => worker = Idle

\* No claim is younger than the shutdown, so its age is bounded by what the
\* shutdown waited for: the server, a lookup, the push worker.
AgeOK ==
  /\ phase \in {"closing", "draining"} /\ worker.pc = "lookup" => age <= worker.age
  /\ phase = "draining" => age <= closedAt \/ age <= config.timeout
  /\ phase = "stopping" => age <= closedAt + stop \/ age <= config.timeout + stop

IInv ==
  /\ TypeOK
  /\ ConfigAccepted(config)
  /\ ClaimOK /\ PushOK /\ PhaseOK /\ AgeOK
  /\ FailSafeOnlyWhenLate

\* What the invariant adds to the types.
Timing == ConfigAccepted(config) /\ ClaimOK /\ PushOK /\ PhaseOK /\ AgeOK /\ FailSafeOnlyWhenLate

----------------------------------------------------------------------------
\* The constants are numbers.
LEMMA Numbers ==
  /\ Margin \in Nat \ {0} /\ StopTimeout \in Nat \ {0} /\ FailSafe \in Nat \ {0}
  /\ MaxInterval \in Nat /\ MaxTimeout \in Nat /\ MaxLease \in Nat
  /\ MaxRequests \in Nat /\ MaxStarts \in Nat \ {0}
BY LifecycleAssumption

\* The numbers of a configuration.
LEMMA ConfigFacts ==
  \A c \in Config : /\ c.interval \in 1 .. MaxInterval /\ c.timeout \in 1 .. MaxTimeout
                    /\ c.lease \in 1 .. MaxLease
                    /\ c.pushInterval = 1
                    /\ c.pushTimeout \in Nat /\ c.pushLease \in Nat
<1> SUFFICES ASSUME NEW c \in Config
             PROVE  /\ c.interval \in 1 .. MaxInterval /\ c.timeout \in 1 .. MaxTimeout
                    /\ c.lease \in 1 .. MaxLease
                    /\ c.pushInterval = 1
                    /\ c.pushTimeout \in Nat /\ c.pushLease \in Nat
  OBVIOUS
<1>1. \A n \in 1 .. MaxTimeout : n \in Nat
  BY Numbers
<1>2. \A n \in 1 .. MaxTimeout + 1 : n \in Nat
  BY Numbers
<1>3. CASE c.push
  <2>1. c \in [interval : 1 .. MaxInterval, timeout : 1 .. MaxTimeout, lease : 1 .. MaxLease,
              push : {TRUE}, pushInterval : {1}, pushTimeout : 1 .. MaxTimeout,
              pushLease : 1 .. MaxTimeout + 1]
    BY <1>3 DEF Config
  <2> QED
    BY <1>1, <1>2, <2>1
<1>4. CASE ~c.push
  <2>1. c \in [interval : 1 .. MaxInterval, timeout : 1 .. MaxTimeout, lease : 1 .. MaxLease,
              push : {FALSE}, pushInterval : {1}, pushTimeout : {1}, pushLease : {2}]
    BY <1>4 DEF Config
  <2> QED
    BY <2>1
<1> QED
  BY <1>3, <1>4

\* Workers at rest.
LEMMA RestFacts ==
  /\ Idle.pc = "idle" /\ Idle.event = NoEvent /\ Idle.age = 0
  /\ Off.pc = "off" /\ Off.age = 0 /\ Off.claim = 0 /\ ~Off.slow
  /\ Waiting.pc = "wait" /\ Waiting.claim = 0 /\ ~Waiting.slow
  /\ Idle \in [pc : {"idle", "loop", "lookup"}, event : Events \cup {NoEvent}, age : 0 .. MaxTimeout]
  /\ [Idle EXCEPT !.pc = "loop"] \in
       [pc : {"idle", "loop", "lookup"}, event : Events \cup {NoEvent}, age : 0 .. MaxTimeout]
  /\ [Idle EXCEPT !.pc = "loop"].pc = "loop"
  /\ Off \in [pc : {"off", "wait", "lookup", "send"}, age : Nat, claim : Nat,
              slow : BOOLEAN]
  /\ \A n \in Nat : LET p == [Waiting EXCEPT !.age = n]
                    IN  /\ p \in [pc : {"off", "wait", "lookup", "send"}, age : Nat, claim : Nat,
                                 slow : BOOLEAN]
                        /\ p.pc = "wait"
<1>1. 0 \in 0 .. MaxTimeout
  BY Numbers
<1> QED
  BY <1>1 DEF Idle, Off, Waiting

\* The invariant holds when the first process starts.
LEMMA InitInv == Init => IInv
<1> SUFFICES ASSUME Init PROVE IInv
  OBVIOUS
<1> USE LifecycleAssumption, Numbers, ConfigFacts, RestFacts
<1>0. config \in Config
  BY DEF Init
<1>1. TypeOK
  <2>1. push \in [pc : {"off", "wait", "lookup", "send"}, age : Nat, claim : Nat,
              slow : BOOLEAN]
    BY <1>0 DEF Init
  <2>2. poll \in 0 .. MaxInterval /\ closedAt \in 0 .. FailSafe /\ lease \in [Events -> Ticks]
    BY DEF Init, Ticks
  <2>3. starts \in 1 .. MaxStarts /\ requests \in 0 .. MaxRequests
        /\ age \in 0 .. FailSafe /\ stop \in 0 .. StopTimeout
    BY DEF Init
  <2> QED
    BY <1>0, <2>1, <2>2, <2>3 DEF Init, TypeOK
<1>2. Timing
  BY <1>0, <1>1 DEF Init, Timing, ClaimOK, PushOK, PhaseOK, AgeOK, FailSafeOnlyWhenLate
<1> QED
  BY <1>1, <1>2 DEF IInv, Timing

----------------------------------------------------------------------------
(* Steps, each with the types and the timing it leaves. *)

\* A new process starts like the first one.
LEMMA RestartStep == ASSUME IInv, Restart PROVE IInv'
<1> USE LifecycleAssumption, Numbers, ConfigFacts, RestFacts
<1>1. TypeOK'
  BY DEF Restart, database, IInv, TypeOK, Ticks
<1>2. Timing'
  BY <1>1 DEF Restart, database, IInv, TypeOK, Timing, ConfigAccepted, ClaimOK, PushOK,
     PhaseOK, AgeOK, FailSafeOnlyWhenLate
<1> QED
  BY <1>1, <1>2 DEF IInv, Timing

\* An accepted row has no lease.
LEMMA ArriveStep == ASSUME IInv, NEW e \in Events, Arrive(e) PROVE IInv'
<1> USE LifecycleAssumption, Numbers, ConfigFacts, RestFacts
<1>1. TypeOK'
  BY DEF Arrive, workers, shutdown, IInv, TypeOK, Ticks
<1>2. Timing'
  BY <1>1 DEF Arrive, workers, shutdown, IInv, TypeOK, Timing, ConfigAccepted, ClaimOK,
     PushOK, PhaseOK, AgeOK, FailSafeOnlyWhenLate
<1> QED
  BY <1>1, <1>2 DEF IInv, Timing

\* A run starts without a claim.
LEMMA RunWorkerStep == ASSUME IInv, RunWorker PROVE IInv'
<1> USE LifecycleAssumption, Numbers, ConfigFacts, RestFacts
<1>1. TypeOK'
  BY DEF RunWorker, database, shutdown, IInv, TypeOK, Ticks
<1>2. Timing'
  BY <1>1 DEF RunWorker, database, shutdown, IInv, TypeOK, Timing, ConfigAccepted, ClaimOK,
     PushOK, PhaseOK, AgeOK, FailSafeOnlyWhenLate
<1> QED
  BY <1>1, <1>2 DEF IInv, Timing

\* A claim has its whole lease, and none is made while the process stops.
LEMMA ClaimStep == ASSUME IInv, NEW e \in Events, Claim(e) PROVE IInv'
<1> USE LifecycleAssumption, Numbers, ConfigFacts, RestFacts
<1>1. TypeOK'
  BY DEF Claim, MayClaim, shutdown, IInv, TypeOK, Ticks
<1>2. Timing'
  BY <1>1 DEF Claim, MayClaim, shutdown, IInv, TypeOK, Timing, ConfigAccepted, ClaimOK,
     PushOK, PhaseOK, AgeOK, FailSafeOnlyWhenLate
<1> QED
  BY <1>1, <1>2 DEF IInv, Timing

\* A run ends without a claim.
LEMMA LoopEndsStep == ASSUME IInv, LoopEnds PROVE IInv'
<1> USE LifecycleAssumption, Numbers, ConfigFacts, RestFacts
<1>1. TypeOK'
  BY DEF LoopEnds, database, shutdown, IInv, TypeOK, Ticks
<1>2. Timing'
  BY <1>1 DEF LoopEnds, database, shutdown, IInv, TypeOK, Timing, ConfigAccepted, ClaimOK,
     PushOK, PhaseOK, AgeOK, FailSafeOnlyWhenLate
<1> QED
  BY <1>1, <1>2 DEF IInv, Timing

\* So does a completed event.
LEMMA CompleteStep == ASSUME IInv, Complete PROVE IInv'
<1> USE LifecycleAssumption, Numbers, ConfigFacts, RestFacts
<1>1. TypeOK'
  BY DEF Complete, database, shutdown, IInv, TypeOK, Ticks
<1>2. Timing'
  BY <1>1 DEF Complete, database, shutdown, IInv, TypeOK, Timing, ConfigAccepted, ClaimOK,
     PushOK, PhaseOK, AgeOK, FailSafeOnlyWhenLate
<1> QED
  BY <1>1, <1>2 DEF IInv, Timing

\* A failed lookup keeps its lease and ends its claim.
LEMMA FailStep == ASSUME IInv, Fail PROVE IInv'
<1> USE LifecycleAssumption, Numbers, ConfigFacts, RestFacts
<1>1. TypeOK'
  BY DEF Fail, LeaseAfterFailure, shutdown, IInv, TypeOK, Ticks
<1>2. Timing'
  BY <1>1 DEF Fail, LeaseAfterFailure, shutdown, IInv, TypeOK, Timing, ConfigAccepted,
     ClaimOK, PushOK, PhaseOK, AgeOK, FailSafeOnlyWhenLate
<1> QED
  BY <1>1, <1>2 DEF IInv, Timing

\* A delivery starts with no time spent.
LEMMA PushTickStep == ASSUME IInv, PushTick PROVE IInv'
<1> USE LifecycleAssumption, Numbers, ConfigFacts, RestFacts
<1>1. TypeOK'
  BY DEF PushTick, database, shutdown, IInv, TypeOK, Ticks
<1>2. Timing'
  BY <1>1 DEF PushTick, database, shutdown, IInv, TypeOK, Timing, ConfigAccepted, ClaimOK,
     PushOK, PhaseOK, AgeOK, FailSafeOnlyWhenLate
<1> QED
  BY <1>1, <1>2 DEF IInv, Timing

\* A send starts at the latest when the lookup times out.
LEMMA PushSendStep == ASSUME IInv, PushSend PROVE IInv'
<1> USE LifecycleAssumption, Numbers, ConfigFacts, RestFacts
<1>1. TypeOK'
  BY DEF PushSend, database, shutdown, IInv, TypeOK, Ticks
<1>2. Timing'
  BY <1>1 DEF PushSend, database, shutdown, IInv, TypeOK, Timing, ConfigAccepted, ClaimOK,
     PushOK, PhaseOK, AgeOK, FailSafeOnlyWhenLate
<1> QED
  BY <1>1, <1>2 DEF IInv, Timing

\* A slow push service is recorded as such.
LEMMA TrickleStep == ASSUME IInv, Trickle PROVE IInv'
<1> USE LifecycleAssumption, Numbers, ConfigFacts, RestFacts
<1>1. TypeOK'
  BY DEF Trickle, database, shutdown, IInv, TypeOK, Ticks
<1>2. Timing'
  BY <1>1 DEF Trickle, database, shutdown, IInv, TypeOK, Timing, ConfigAccepted, ClaimOK, PushOK,
     PhaseOK, AgeOK, FailSafeOnlyWhenLate
<1> QED
  BY <1>1, <1>2 DEF IInv, Timing

\* A settled delivery leaves a timer, or nothing while the process stops.
LEMMA PushSettledStep == ASSUME IInv, PushSettled PROVE IInv'
<1> USE LifecycleAssumption, Numbers, ConfigFacts, RestFacts
<1>1. TypeOK'
  BY DEF PushSettled, database, shutdown, IInv, TypeOK, Ticks
<1>2. Timing'
  BY <1>1 DEF PushSettled, database, shutdown, IInv, TypeOK, Timing, ConfigAccepted, ClaimOK,
     PushOK, PhaseOK, AgeOK, FailSafeOnlyWhenLate
<1> QED
  BY <1>1, <1>2 DEF IInv, Timing

\* Requests come while the process runs.
LEMMA RequestStep == ASSUME IInv, Request PROVE IInv'
<1> USE LifecycleAssumption, Numbers, ConfigFacts, RestFacts
<1>1. TypeOK'
  BY DEF Request, database, workers, shutdown, IInv, TypeOK, Ticks
<1>2. Timing'
  BY <1>1 DEF Request, database, workers, shutdown, IInv, TypeOK, Timing, ConfigAccepted,
     ClaimOK, PushOK, PhaseOK, AgeOK, FailSafeOnlyWhenLate
<1> QED
  BY <1>1, <1>2 DEF IInv, Timing

\* An answered request is gone.
LEMMA RespondStep == ASSUME IInv, Respond PROVE IInv'
<1> USE LifecycleAssumption, Numbers, ConfigFacts, RestFacts
<1>1. TypeOK'
  BY DEF Respond, database, workers, shutdown, IInv, TypeOK, Ticks
<1>2. Timing'
  BY <1>1 DEF Respond, database, workers, shutdown, IInv, TypeOK, Timing, ConfigAccepted,
     ClaimOK, PushOK, PhaseOK, AgeOK, FailSafeOnlyWhenLate
<1> QED
  BY <1>1, <1>2 DEF IInv, Timing

\* At the signal no time has passed since.
LEMMA SignalStep == ASSUME IInv, Signal PROVE IInv'
<1> USE LifecycleAssumption, Numbers, ConfigFacts, RestFacts
<1>1. TypeOK'
  BY DEF Signal, database, IInv, TypeOK, Ticks
<1>2. Timing'
  BY <1>1 DEF Signal, database, IInv, TypeOK, Timing, ConfigAccepted, ClaimOK, PushOK,
     PhaseOK, AgeOK, FailSafeOnlyWhenLate
<1> QED
  BY <1>1, <1>2 DEF IInv, Timing

\* The server closes when no request is left.
LEMMA ServerClosedStep == ASSUME IInv, ServerClosed PROVE IInv'
<1> USE LifecycleAssumption, Numbers, ConfigFacts, RestFacts
<1>1. TypeOK'
  BY DEF ServerClosed, database, workers, IInv, TypeOK, Ticks
<1>2. Timing'
  BY <1>1 DEF ServerClosed, database, workers, IInv, TypeOK, Timing, ConfigAccepted, ClaimOK,
     PushOK, PhaseOK, AgeOK, FailSafeOnlyWhenLate
<1> QED
  BY <1>1, <1>2 DEF IInv, Timing

\* The push worker is stopped when the inbox worker is done.
LEMMA StopPushStep == ASSUME IInv, StopPush PROVE IInv'
<1> USE LifecycleAssumption, Numbers, ConfigFacts, RestFacts
<1>1. TypeOK'
  BY DEF StopPush, Drained, database, IInv, TypeOK, Ticks
<1>2. Timing'
  BY <1>1 DEF StopPush, Drained, database, IInv, TypeOK, Timing, ConfigAccepted, ClaimOK,
     PushOK, PhaseOK, AgeOK, FailSafeOnlyWhenLate
<1> QED
  BY <1>1, <1>2 DEF IInv, Timing

\* A clean exit does not wait for the fail-safe.
LEMMA ExitStep == ASSUME IInv, Exit PROVE IInv'
<1> USE LifecycleAssumption, Numbers, ConfigFacts, RestFacts
<1>1. TypeOK'
  BY DEF Exit, Gone, database, IInv, TypeOK, Ticks
<1>2. Timing'
  BY <1>1 DEF Exit, Gone, database, IInv, TypeOK, Timing, ConfigAccepted, ClaimOK, PushOK,
     PhaseOK, AgeOK, FailSafeOnlyWhenLate
<1> QED
  BY <1>1, <1>2 DEF IInv, Timing

\* The fail-safe ends what was late.
LEMMA FailSafeStep == ASSUME IInv, FailSafeExit PROVE IInv'
<1> USE LifecycleAssumption, Numbers, ConfigFacts, RestFacts
<1>1. TypeOK'
  BY DEF FailSafeExit, FailSafeDue, Gone, database, IInv, TypeOK, Ticks
<1>2. Timing'
  BY <1>1 DEF FailSafeExit, FailSafeDue, Gone, database, IInv, TypeOK, Timing, ConfigAccepted,
     ClaimOK, PushOK, PhaseOK, AgeOK, FailSafeOnlyWhenLate
<1> QED
  BY <1>1, <1>2 DEF IInv, Timing

\* A killed process leaves its rows and leases.
LEMMA KilledStep == ASSUME IInv, Killed PROVE IInv'
<1> USE LifecycleAssumption, Numbers, ConfigFacts, RestFacts
<1>1. TypeOK'
  BY DEF Killed, Gone, database, IInv, TypeOK, Ticks
<1>2. Timing'
  BY <1>1 DEF Killed, Gone, database, IInv, TypeOK, Timing, ConfigAccepted, ClaimOK, PushOK,
     PhaseOK, AgeOK, FailSafeOnlyWhenLate
<1> QED
  BY <1>1, <1>2 DEF IInv, Timing

\* Time passes only before anything is due, so no timer passes its bound and every
\* claim is within its timeout.
LEMMA TickStep == ASSUME IInv, Tick PROVE IInv'
<1> USE LifecycleAssumption, Numbers, ConfigFacts, RestFacts
<1>1. /\ config \in Config /\ lease \in [Events -> Ticks] /\ poll \in 0 .. MaxInterval
      /\ worker \in [pc : {"idle", "loop", "lookup"}, event : Events \cup {NoEvent},
                     age : 0 .. MaxTimeout]
      /\ push \in [pc : {"off", "wait", "lookup", "send"}, age : Nat, claim : Nat,
              slow : BOOLEAN]
      /\ age \in 0 .. FailSafe /\ stop \in 0 .. StopTimeout
  BY DEF IInv, TypeOK
<1>2. \A n \in Nat : Less(n) \in Nat /\ Less(n) <= n /\ Less(n) + 1 >= n
  BY DEF Less
<1>3. lease' \in [Events -> Ticks] /\ \A e \in Events : lease'[e] + 1 >= lease[e]
  <2>1. \A e \in Events : lease'[e] = Less(lease[e]) /\ lease[e] \in Nat /\ lease[e] <= MaxLease
    BY <1>1 DEF Tick, Ticks
  <2>2. \A e \in Events : lease'[e] \in Ticks /\ lease'[e] + 1 >= lease[e]
    BY <1>2, <2>1 DEF Ticks
  <2> QED
    BY <2>2 DEF Tick
<1>4. /\ worker.pc = "lookup" => worker.age < config.timeout \/ worker.age > config.timeout
      /\ worker.pc # "loop"
      /\ worker' = IF worker.pc = "lookup" THEN [worker EXCEPT !.age = worker.age + 1] ELSE worker
  BY <1>1 DEF Tick, Due, LookupOver
<1>5. /\ worker.pc = "lookup" => worker.age < config.timeout
      /\ worker'.pc = worker.pc /\ worker'.event = worker.event
      /\ worker'.age = IF worker.pc = "lookup" THEN worker.age + 1 ELSE worker.age
      /\ worker = Idle => worker' = Idle
  BY <1>1, <1>4 DEF IInv, ClaimOK
<1>6. worker' \in [pc : {"idle", "loop", "lookup"}, event : Events \cup {NoEvent},
                  age : 0 .. MaxTimeout]
  BY <1>1, <1>4, <1>5
<1>7. /\ push' \in [pc : {"off", "wait", "lookup", "send"}, age : Nat, claim : Nat,
              slow : BOOLEAN]
      /\ push'.pc = push.pc
      /\ push.pc \in {"lookup", "send"} =>
           /\ push'.age = push.age + 1 /\ push'.slow = push.slow
           /\ ~push.slow => push'.claim = push.claim + 1
  <2>1. CASE push.pc = "wait"
    BY <1>1, <2>1 DEF Tick, Due
  <2>2. CASE push.pc = "off"
    BY <1>1, <2>2 DEF Tick
  <2>3. CASE push.pc \in {"lookup", "send"}
    <3> DEFINE n == IF push.slow THEN push.claim ELSE push.claim + 1
    <3>1. push' = [push EXCEPT !.age = push.age + 1, !.claim = n]
      BY <2>3 DEF Tick
    <3>2. push.age + 1 \in Nat /\ n \in Nat
      BY <1>1
    <3>3. /\ push'.pc = push.pc /\ push'.age = push.age + 1 /\ push'.claim = n
          /\ push'.slow = push.slow
      BY <1>1, <3>1
    <3> QED
      BY <1>1, <3>1, <3>2, <3>3
  <2> QED
    BY <1>1, <2>1, <2>2, <2>3
<1>8. /\ push.pc = "lookup" => push.age # config.timeout
      /\ push.pc = "send" => push.age # config.pushTimeout
      /\ phase = "stopping" => stop # StopTimeout
      /\ phase \notin {"running", "exited"} => age # FailSafe
      /\ phase = "draining" => worker # Idle
  BY DEF Tick, Due, LookupOver, FailSafeDue, Drained
<1>9. /\ age' = IF phase \in {"running", "exited"} \/ age = FailSafe THEN age ELSE age + 1
      /\ stop' = IF phase = "stopping" THEN stop + 1 ELSE stop
      /\ poll' = Less(poll)
      /\ UNCHANGED <<config, row, requests, phase, closedAt, exitCode, starts>>
  BY DEF Tick
<1>10. age' \in 0 .. FailSafe /\ stop' \in 0 .. StopTimeout /\ poll' \in 0 .. MaxInterval
  BY <1>1, <1>2, <1>8, <1>9
<1>11. TypeOK'
  BY <1>3, <1>6, <1>7, <1>9, <1>10 DEF IInv, TypeOK
<1>12. ClaimOK'
  BY <1>1, <1>3, <1>5, <1>9 DEF IInv, ClaimOK, Ticks
<1>13. PushOK'
  BY <1>1, <1>7, <1>8, <1>9 DEF IInv, PushOK
<1>14. PhaseOK'
  BY <1>5, <1>9 DEF IInv, PhaseOK
<1>15. AgeOK'
  <2>1. phase' \in {"closing", "draining"} /\ worker'.pc = "lookup" => age' <= worker'.age
    BY <1>1, <1>5, <1>9 DEF IInv, AgeOK
  <2>2. phase' = "draining" => age' <= config'.timeout
    <3>1. phase = "draining" => worker.pc = "lookup"
      BY <1>1, <1>4, <1>8 DEF IInv, ClaimOK
    <3> QED
      BY <1>1, <1>5, <1>9, <3>1 DEF IInv, AgeOK
  <2>3. phase' = "stopping" => age' <= closedAt' + stop' \/ age' <= config'.timeout + stop'
    BY <1>1, <1>9 DEF IInv, TypeOK, AgeOK
  <2> QED
    BY <2>1, <2>2, <2>3 DEF AgeOK
<1>16. ConfigAccepted(config)' /\ FailSafeOnlyWhenLate'
  BY <1>9 DEF IInv, ConfigAccepted, FailSafeOnlyWhenLate
<1> QED
  BY <1>11, <1>12, <1>13, <1>14, <1>15, <1>16 DEF IInv

\* Nothing changes nothing.
LEMMA StutterStep == ASSUME IInv, UNCHANGED vars PROVE IInv'
<1> USE LifecycleAssumption, Numbers, ConfigFacts, RestFacts
<1>1. TypeOK'
  BY DEF vars, IInv, TypeOK, Ticks
<1>2. Timing'
  BY <1>1 DEF vars, IInv, TypeOK, Timing, ConfigAccepted, ClaimOK, PushOK, PhaseOK, AgeOK,
     FailSafeOnlyWhenLate
<1> QED
  BY <1>1, <1>2 DEF IInv, Timing

\* Every step keeps the invariant.
LEMMA NextInv == IInv /\ [Next]_vars => IInv'
<1> SUFFICES ASSUME IInv, [Next]_vars PROVE IInv'
  OBVIOUS
<1>1. CASE Run
  BY <1>1, RunWorkerStep, ClaimStep, LoopEndsStep, CompleteStep, FailStep, PushTickStep,
     PushSendStep, PushSettledStep, ServerClosedStep, StopPushStep, ExitStep, FailSafeStep,
     RestartStep, TickStep DEF Run
<1>2. CASE Environment
  BY <1>2, ArriveStep, RequestStep, RespondStep, TrickleStep, SignalStep,
     KilledStep DEF Environment
<1>3. CASE UNCHANGED vars
  BY <1>3, StutterStep
<1> QED
  BY <1>1, <1>2, <1>3 DEF Next

----------------------------------------------------------------------------
\* The inductive invariant holds throughout.
THEOREM Invariance == Spec => []IInv
  BY InitInv, NextInv, PTL DEF Spec

\* Rows, timers and phases keep their types and bounds.
THEOREM TypeCorrect == Spec => []TypeOK
<1>1. IInv => TypeOK
  BY DEF IInv
<1> QED
  BY <1>1, Invariance, PTL

\* config.ts: with every accepted configuration the margin of the inbox lease is
\* never used up, and a push claim exceeds its lease by less than one lookup unless
\* the push service keeps the connection busy.
THEOREM LeasesCover == Spec => []LeasesCoverClaims
<1>1. IInv => LeasesCoverClaims
  <2> SUFFICES ASSUME IInv PROVE LeasesCoverClaims
    OBVIOUS
  <2>1. /\ config.lease \in Nat /\ config.timeout \in Nat
        /\ config.pushLease \in Nat /\ config.pushTimeout \in Nat /\ Margin \in Nat
        /\ config.lease - config.timeout >= Margin /\ config.pushLease > config.pushTimeout
    BY Numbers, ConfigFacts
       DEF IInv, TypeOK, ConfigAccepted, LeaseAccepted, PushLeaseAccepted
  <2>2. worker.pc = "lookup" => lease[worker.event] \in Nat /\ worker.age \in Nat
    BY Numbers DEF IInv, ClaimOK, TypeOK, Ticks
  <2>3. push.age \in Nat /\ push.claim \in Nat /\ push.slow \in BOOLEAN
    BY DEF IInv, TypeOK
  <2> QED
    BY <2>1, <2>2, <2>3 DEF IInv, ClaimOK, PushOK, LeasesCoverClaims
<1> QED
  BY <1>1, Invariance, PTL

\* index.ts: the fail-safe only ends a shutdown whose server or lookup was late.
THEOREM FailSafeIsForTheLate == Spec => []FailSafeOnlyWhenLate
<1>1. IInv => FailSafeOnlyWhenLate
  BY DEF IInv
<1> QED
  BY <1>1, Invariance, PTL

\* index.ts: exit code 0 means that requests are answered, the inbox claim is
\* finished and a delivery was given its time.
THEOREM CleanExits == Spec => ExitsClean
<1>1. IInv /\ [Next]_vars =>
        [exitCode' = "0" /\ exitCode # "0" =>
           requests = 0 /\ worker = Idle /\ (push = Off \/ stop = StopTimeout)]_vars
  <2> SUFFICES ASSUME IInv, Next, exitCode' = "0", exitCode # "0"
               PROVE  requests = 0 /\ worker = Idle /\ (push = Off \/ stop = StopTimeout)
    OBVIOUS
  <2>1. Exit
    BY DEF Next, Run, Environment, RunWorker, Claim, LoopEnds, Complete, Fail, PushTick,
       PushSend,
       PushSettled, ServerClosed, StopPush, FailSafeExit, Gone, Restart, Tick, Arrive, Request,
       Respond, Trickle, Signal, Killed, shutdown
  <2> QED
    BY <2>1 DEF Exit, IInv, PhaseOK
<1> QED
  BY <1>1, Invariance, PTL DEF Spec, ExitsClean
=============================================================================
