\* Two workers on one delivery, with everything that removes subscriptions or
\* deliveries under their claims.
CONSTANTS
  alice = alice
  bob = bob
  aliceTab = aliceTab
  bobTab = bobTab
  chrome = chrome
  firefox = firefox
  s1 = s1
  s2 = s2
  s3 = s3
  NoLease = NoLease
  NoSession = NoSession
  NoDelivery = NoDelivery
  Users = {alice}
  Recipient <- AllForAlice
  Events = {1}
  Sessions = {aliceTab}
  SessionUser <- OneTab
  Clients = {}
  Endpoints = {chrome}
  SubIds = {s1}
  Owner <- OfAlice
  Endpoint <- OneBrowser
  Stored = {s1}
  Workers = {w1, w2}
  LeaseIds = {l1, l2, l3}
  LeaseTime = 1
  MaxAttempts = 2
  Delays = {0, 1}
  Retention = 1
  MaxPerUser = 1
  MaxTime = 2
  MaxPuts = 1
SPECIFICATION Spec
INVARIANTS TypeOK OneSettler RemovalRevokesClaims PushedOnce
PROPERTIES SettledIsFinal OwedUntilSettled ImplementsPromise
SYMMETRY WorkerSymmetry
