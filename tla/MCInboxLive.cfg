\* Two events in one queue, a legacy row that no longer parses, one worker that
\* fails and crashes, while the recipient reads and
\* deletes: order of claims and progress. Liveness, so no symmetry.
CONSTANTS
  alice = alice
  bob = bob
  forAlice = forAlice
  forBob = forBob
  legacy = legacy
  phone = phone
  Events = {1, 2}
  Payloads = {forAlice, legacy}
  Users = {alice}
  Recipient <- WithLegacy
  Clients = {alice}
  Legacy = {legacy}
  Workers = {w1}
  Subscriptions = {}
  Owner <- NoPhone
  Jobs = {}
  LeaseIds = {l1, l2, l3}
  LeaseTime = 1
  MaxTime = 2
  NoPayload = NoPayload
  NoLease = NoLease
  NoUser = NoUser
  NoJob = NoJob
  NoEvent = NoEvent
SPECIFICATION FairSpec

PROPERTIES EventuallySettled ReadStaysRead
