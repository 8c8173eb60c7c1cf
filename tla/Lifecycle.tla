------------------------------- MODULE Lifecycle -------------------------------
(***************************************************************************)
(* The life of a backend process (backend/src/index.ts): the timers that   *)
(* drive the inbox worker and the push worker (backend/src/push-worker.ts),*)
(* the limits configuration puts on their leases and timeouts              *)
(* (backend/src/config.ts), and the shutdown on SIGINT or SIGTERM.         *)
(*                                                                         *)
(* Time passes in ticks.  A timer that is due fires before the next tick;  *)
(* what is counted are remaining or elapsed ticks, never a date.  Database *)
(* statements run synchronously, so only lookups, sends and requests take  *)
(* time.  The rows outlive the process, their leases run on without it.    *)
(***************************************************************************)
EXTENDS Integers, FiniteSets

CONSTANTS
  Events,        \* inbox rows, numbered in the order of acceptance
  Failing,       \* rows whose recipient cannot be looked up
  Margin,        \* 10 s: what config demands between lookup timeout and lease
  StopTimeout,   \* 5 s: how long stop() waits for a delivery
  FailSafe,      \* 10 s: after the signal the process exits
  MaxInterval, MaxTimeout, MaxLease,   \* bounds of the configurations tried
  MaxRequests,   \* bound: HTTP requests in flight
  MaxStarts,     \* bound: the process is started that often
  NoEvent

ASSUME LifecycleAssumption ==
  /\ Events \subseteq Nat /\ Failing \subseteq Events /\ NoEvent \notin Events
  /\ {Margin, StopTimeout, FailSafe} \subseteq Nat \ {0}
  /\ {MaxInterval, MaxTimeout, MaxLease, MaxRequests} \subseteq Nat
  /\ MaxStarts \in Nat \ {0}

VARIABLES
  config,      \* RuntimeConfig, as far as it is about time
  row, lease,  \* inbox_events: the status of each row, the ticks its lease has left
  poll,        \* ticks until workerTimer fires
  worker,      \* processNext: idle, at the loop's test, or looking up since age
  push,        \* deliverOne: off, waiting for its timer, at an await; ticks since it
               \* claimed; whether its push service is slow to finish an answer
  requests,    \* HTTP requests in flight
  phase,       \* how far shutdown() has come
  age, stop,   \* ticks since the signal, and since pushWorker.stop() began
  closedAt,    \* history: the age at which the HTTP server was closed; FailSafe until then
  exitCode,
  starts

vars == <<config, row, lease, poll, worker, push, requests, phase, age, stop,
          closedAt, exitCode, starts>>

database == <<row, lease>>
workers == <<poll, worker, push>>
shutdown == <<phase, age, stop, closedAt, exitCode>>

Ticks == 0 .. MaxLease

Idle == [pc |-> "idle", event |-> NoEvent, age |-> 0]
Off == [pc |-> "off", age |-> 0, claim |-> 0, slow |-> FALSE]
Waiting == [Off EXCEPT !.pc = "wait"]

----------------------------------------------------------------------------
(* Configuration *)

\* Bounds: one push interval, and one push configuration while push is off.
Config == [interval : 1 .. MaxInterval, timeout : 1 .. MaxTimeout, lease : 1 .. MaxLease,
           push : {FALSE}, pushInterval : {1}, pushTimeout : {1}, pushLease : {2}]
          \cup
          [interval : 1 .. MaxInterval, timeout : 1 .. MaxTimeout, lease : 1 .. MaxLease,
           push : {TRUE}, pushInterval : {1}, pushTimeout : 1 .. MaxTimeout,
           pushLease : 1 .. MaxTimeout + 1]

MutLeaseAccepted(c) == c.lease > c.timeout

\* loadConfig throws unless the lease exceeds the lookup timeout by the margin, ...
LeaseAccepted(c) == c.lease - c.timeout >= Margin

\* ... loadPushConfig unless the push lease exceeds the send timeout.
PushLeaseAccepted(c) == c.pushLease > c.pushTimeout

ConfigAccepted(c) == LeaseAccepted(c) /\ PushLeaseAccepted(c)

----------------------------------------------------------------------------
(* Starting: the inbox worker runs at once, the push worker after its interval *)

Init ==
  /\ config \in {c \in Config : ConfigAccepted(c)}
  /\ row = [e \in Events |-> "absent"] /\ lease = [e \in Events |-> 0]
  /\ poll = 0 /\ worker = Idle
  /\ push = IF config.push THEN [Waiting EXCEPT !.age = config.pushInterval] ELSE Off
  /\ requests = 0
  /\ phase = "running" /\ age = 0 /\ stop = 0 /\ closedAt = FailSafe /\ exitCode = "none"
  /\ starts = 1

Restart ==
  /\ phase = "exited" /\ starts < MaxStarts
  /\ poll' = 0 /\ worker' = Idle
  /\ push' = IF config.push THEN [Waiting EXCEPT !.age = config.pushInterval] ELSE Off
  /\ phase' = "running" /\ age' = 0 /\ stop' = 0 /\ closedAt' = FailSafe /\ exitCode' = "none"
  /\ starts' = starts + 1
  /\ UNCHANGED <<config, database, requests>>

----------------------------------------------------------------------------
(* The inbox worker: runWorker and processNext *)

\* Producers send events one after the other.
Arrive(e) ==
  /\ phase = "running" /\ row[e] = "absent"
  /\ \A f \in Events : f < e => row[f] # "absent"
  /\ row' = [row EXCEPT ![e] = "pending"]
  /\ UNCHANGED <<config, lease, workers, requests, shutdown, starts>>

Claimable(e) == row[e] = "pending" \/ (row[e] = "processing" /\ lease[e] = 0)

\* What claimPendingInbox returns.
Candidate(e) == Claimable(e) /\ \A f \in Events : Claimable(f) => e <= f

\* setInterval(runWorker): no second run while one is busy.
RunWorker ==
  /\ phase = "running" /\ poll = 0
  /\ poll' = config.interval
  /\ worker' = IF worker = Idle THEN [Idle EXCEPT !.pc = "loop"] ELSE worker
  /\ UNCHANGED <<config, database, push, requests, shutdown, starts>>

MutMayClaim == TRUE

\* while (!workerStopped && ...)
MayClaim == phase = "running"

Claim(e) ==
  /\ worker.pc = "loop" /\ MayClaim /\ Candidate(e)
  /\ row' = [row EXCEPT ![e] = "processing"]
  /\ lease' = [lease EXCEPT ![e] = config.lease]
  /\ worker' = [pc |-> "lookup", event |-> e, age |-> 0]
  /\ UNCHANGED <<config, poll, push, requests, shutdown, starts>>

LoopEnds ==
  /\ worker.pc = "loop"
  /\ ~MayClaim \/ \A e \in Events : ~Claimable(e)
  /\ worker' = Idle
  /\ UNCHANGED <<config, database, poll, push, requests, shutdown, starts>>

\* The recipient is found: the event is completed, if its lease still runs, and
\* the loop goes on.
Complete ==
  /\ worker.pc = "lookup" /\ worker.event \notin Failing
  /\ IF lease[worker.event] > 0
     THEN /\ row' = [row EXCEPT ![worker.event] = "processed"]
          /\ lease' = [lease EXCEPT ![worker.event] = 0]
          /\ worker' = [Idle EXCEPT !.pc = "loop"]
     ELSE worker' = Idle /\ UNCHANGED database
  /\ UNCHANGED <<config, poll, push, requests, shutdown, starts>>

MutLeaseAfterFailure(e) == 0

\* Nothing gives a claim back.
LeaseAfterFailure(e) == lease[e]

\* The lookup fails, at the latest by its timeout: the run is over.
Fail ==
  /\ worker.pc = "lookup" /\ worker.event \in Failing
  /\ lease' = [lease EXCEPT ![worker.event] = LeaseAfterFailure(worker.event)]
  /\ worker' = Idle
  /\ UNCHANGED <<config, row, poll, push, requests, shutdown, starts>>

----------------------------------------------------------------------------
(* The push worker: start *)

\* tick: whether there is a delivery to claim is left open.
PushTick ==
  /\ push.pc = "wait" /\ push.age = 0
  /\ push' \in {[Off EXCEPT !.pc = "lookup"], [Waiting EXCEPT !.age = config.pushInterval]}
  /\ UNCHANGED <<config, database, poll, worker, requests, shutdown, starts>>

\* The recipient is found; the age of a send is that of its last byte.
PushSend ==
  /\ push.pc = "lookup"
  /\ push' = [push EXCEPT !.pc = "send", !.age = 0]
  /\ UNCHANGED <<config, database, poll, worker, requests, shutdown, starts>>

\* External: a push service that answers byte by byte.  The timeout web-push sets
\* is one of an idle socket, so each byte starts it again and the send has no
\* bound.  Bound: the claim of such a send is not counted on.
Trickle ==
  /\ push.pc = "send" /\ push.age > 0
  /\ push' = [push EXCEPT !.age = 0, !.slow = TRUE]
  /\ UNCHANGED <<config, database, poll, worker, requests, shutdown, starts>>

\* deliverOne settles; the next timer is set unless stop() was called.
PushSettled ==
  /\ push.pc \in {"lookup", "send"}
  /\ push' = IF phase = "stopping" THEN Off ELSE [Waiting EXCEPT !.age = config.pushInterval]
  /\ UNCHANGED <<config, database, poll, worker, requests, shutdown, starts>>

----------------------------------------------------------------------------
(* HTTP *)

Request ==
  /\ phase = "running" /\ requests < MaxRequests
  /\ requests' = requests + 1
  /\ UNCHANGED <<config, database, workers, shutdown, starts>>

\* A request whose body never comes is not answered.
Respond ==
  /\ requests > 0
  /\ requests' = requests - 1
  /\ UNCHANGED <<config, database, workers, shutdown, starts>>

----------------------------------------------------------------------------
(* shutdown.  Bound: the last process started keeps running. *)

Signal ==
  /\ phase = "running" /\ starts < MaxStarts
  /\ phase' = "closing" /\ poll' = 0
  /\ UNCHANGED <<config, database, worker, push, requests, age, stop, closedAt,
                 exitCode, starts>>

ServerClosed ==
  /\ phase = "closing" /\ requests = 0
  /\ phase' = "draining" /\ closedAt' = age
  /\ UNCHANGED <<config, database, workers, requests, age, stop, exitCode, starts>>

MutDrained == TRUE

\* await workerPromise
Drained == worker = Idle

StopPush ==
  /\ phase = "draining" /\ Drained
  /\ phase' = "stopping"
  /\ push' = IF push.pc = "wait" THEN Off ELSE push
  /\ UNCHANGED <<config, database, poll, worker, requests, age, stop, closedAt,
                 exitCode, starts>>

Gone(code) ==
  /\ phase' = "exited" /\ exitCode' = code
  /\ poll' = 0 /\ worker' = Idle /\ push' = Off /\ requests' = 0
  /\ age' = 0 /\ stop' = 0
  /\ UNCHANGED <<config, database, closedAt, starts>>

Exit == phase = "stopping" /\ (push = Off \/ stop = StopTimeout) /\ Gone("0")

MutFailSafeDue == phase \in {"draining", "stopping"} /\ age = FailSafe

FailSafeDue == phase \notin {"running", "exited"} /\ age = FailSafe

FailSafeExit == FailSafeDue /\ Gone("1")

\* A crash, SIGKILL, or the same signal once more (process.once).
Killed == phase # "exited" /\ starts < MaxStarts /\ Gone("killed")

----------------------------------------------------------------------------
(* Time *)

MutLookupOver == worker.pc = "lookup" /\ worker.age = config.lease

\* AbortSignal.timeout ends a lookup, its body included.
LookupOver == worker.pc = "lookup" /\ worker.age = config.timeout

Due == \/ phase = "running" /\ poll = 0
       \/ worker.pc = "loop" \/ LookupOver
       \/ push.pc = "wait" /\ push.age = 0
       \/ push.pc = "lookup" /\ push.age = config.timeout
       \/ push.pc = "send" /\ push.age = config.pushTimeout
       \/ (phase = "closing" /\ requests = 0) \/ (phase = "draining" /\ Drained)
       \/ phase = "stopping" /\ (push = Off \/ stop = StopTimeout)
       \/ FailSafeDue

Less(n) == IF n = 0 THEN 0 ELSE n - 1

Tick ==
  /\ ~Due
  /\ lease' = [e \in Events |-> Less(lease[e])]
  /\ poll' = Less(poll)
  /\ worker' = IF worker.pc = "lookup" THEN [worker EXCEPT !.age = @ + 1] ELSE worker
  /\ push' = IF push.pc = "wait" THEN [push EXCEPT !.age = @ - 1]
             ELSE IF push.pc = "off" THEN push
             ELSE [push EXCEPT !.age = @ + 1, !.claim = IF push.slow THEN @ ELSE @ + 1]
  /\ age' = IF phase \in {"running", "exited"} \/ age = FailSafe THEN age ELSE age + 1
  /\ stop' = IF phase = "stopping" THEN stop + 1 ELSE stop
  /\ UNCHANGED <<config, row, requests, phase, closedAt, exitCode, starts>>

----------------------------------------------------------------------------
Run == \/ RunWorker \/ (\E e \in Events : Claim(e)) \/ LoopEnds \/ Complete \/ Fail
       \/ PushTick \/ PushSend \/ PushSettled
       \/ ServerClosed \/ StopPush \/ Exit \/ FailSafeExit
       \/ Restart \/ Tick

Environment == (\E e \in Events : Arrive(e)) \/ Request \/ Respond \/ Trickle \/ Signal
               \/ Killed

Next == Run \/ Environment

Spec == Init /\ [][Next]_vars

\* The event loop turns, time passes, and a process that exits is started again.
\* Nobody promises that requests are answered, that a slow push service finishes
\* or that events arrive.
FairSpec == Spec /\ WF_vars(Run)

----------------------------------------------------------------------------
(* Properties *)

\* Types, and the bounds of every timer.
TypeOK ==
  /\ config \in Config
  /\ row \in [Events -> {"absent", "pending", "processing", "processed"}]
  /\ lease \in [Events -> Ticks]
  /\ poll \in 0 .. MaxInterval
  /\ worker \in [pc : {"idle", "loop", "lookup"}, event : Events \cup {NoEvent},
                 age : 0 .. MaxTimeout]
  /\ push \in [pc : {"off", "wait", "lookup", "send"}, age : Nat, claim : Nat,
              slow : BOOLEAN]
  /\ requests \in 0 .. MaxRequests
  /\ phase \in {"running", "closing", "draining", "stopping", "exited"}
  /\ age \in 0 .. FailSafe /\ stop \in 0 .. StopTimeout /\ closedAt \in 0 .. FailSafe
  /\ exitCode \in {"none", "0", "1", "killed"}
  /\ starts \in 1 .. MaxStarts

\* Whatever the configuration and however slow the lookup, the inbox worker is
\* done with a claim while at least the 10 s margin of its lease is left.  No push
\* claim outlives its lease by a whole recipient lookup, except while its push
\* service keeps the connection busy.
LeasesCoverClaims ==
  /\ worker.pc = "lookup" => lease[worker.event] >= Margin
  /\ push.pc \in {"lookup", "send"} =>
       push.claim < config.pushLease + config.timeout \/ push.slow

\* The fail-safe ends a shutdown only when the server was closed, or a lookup
\* could be over, too late for stop() to use up its own timeout: new claims do
\* not prolong a shutdown.
FailSafeOnlyWhenLate ==
  exitCode = "1" => \/ closedAt + StopTimeout >= FailSafe
                    \/ config.timeout + StopTimeout >= FailSafe

\* A process that exits with 0 has answered its requests and finished its inbox
\* claim; a delivery is cut off only after stop()'s timeout.
ExitsClean ==
  [][exitCode' = "0" /\ exitCode # "0" =>
       requests = 0 /\ worker = Idle /\ (push = Off \/ stop = StopTimeout)]_vars

\* A shutdown ends, hanging requests or not.
ShutdownEnds == phase = "closing" ~> phase = "exited"

\* The longest time between the claims of two failing rows.
Slot == config.interval * ((config.timeout \div config.interval) + 1)

\* Recipients that can never be looked up do not starve the others, as long as
\* the failing rows cannot fill a lease one after the other: although the oldest
\* row is always claimed first, every other event is processed, across restarts.
HealthyProcessed ==
  \A e \in Events \ Failing :
    row[e] = "pending" /\ Cardinality(Failing) * Slot < config.lease ~> row[e] = "processed"
=============================================================================
