\* Two workers on one event identity that two payloads claim, with intake,
\* account deletion and subscriptions. No API, which writes other columns of rows
\* that are there: MCInboxLive.cfg and MCInboxRetry.cfg have it.
CONSTANTS
  alice = alice
  bob = bob
  forAlice = forAlice
  forBob = forBob
  legacy = legacy
  phone = phone
  Events = {1}
  Payloads = {forAlice, forBob}
  Users = {alice, bob}
  Recipient <- TwoRecipients
  Clients = {}
  Legacy = {}
  Workers = {w1, w2}
  Subscriptions = {phone}
  Owner <- PhoneOfAlice
  Jobs = {j1, j2}
  LeaseIds = {l1, l2, l3}
  LeaseTime = 1
  MaxTime = 2
  NoPayload = NoPayload
  NoLease = NoLease
  NoUser = NoUser
  NoJob = NoJob
  NoEvent = NoEvent
SPECIFICATION Spec
INVARIANTS TypeOK NoDataForDeleted OneHolder NotifiedIsRecipient NoSilentLoss DeletionIdentity
PROPERTIES ProcessedIsFinal ImplementsPromise
SYMMETRY LeaseSymmetry
