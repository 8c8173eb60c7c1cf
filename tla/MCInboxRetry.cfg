\* One worker, one event, its recipient: a claim dies after its materialization,
\* the user deletes the notification, and the retry inserts it again.
CONSTANTS
  alice = alice
  bob = bob
  forAlice = forAlice
  forBob = forBob
  legacy = legacy
  phone = phone
  Events = {1}
  Payloads = {forAlice}
  Users = {alice}
  Recipient <- OneRecipient
  Clients = {alice}
  Legacy = {}
  Workers = {w1}
  Subscriptions = {}
  Owner <- NoPhone
  Jobs = {}
  LeaseIds = {l1, l2, l3}
  LeaseTime = 1
  MaxTime = 3
  NoPayload = NoPayload
  NoLease = NoLease
  NoUser = NoUser
  NoJob = NoJob
  NoEvent = NoEvent
SPECIFICATION Spec

PROPERTIES RetryIsIdempotent
