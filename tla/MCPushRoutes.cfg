\* Two users, a browser they share and a second one of alice, a stored row:
\* registration, removal, account deletion and maintenance. No deliveries.
CONSTANTS
  alice = alice
  bob = bob
  aliceTab = aliceTab
  bobTab = bobTab
  chrome = chrome
  firefox = firefox
  s1 = s1
  s2 = s2
  s3 = s3
  NoLease = NoLease
  NoSession = NoSession
  NoDelivery = NoDelivery
  Users = {alice, bob}
  Recipient <- AllForAlice
  Events = {}
  Sessions = {aliceTab, bobTab}
  SessionUser <- TwoTabs
  Clients = {aliceTab, bobTab}
  Endpoints = {chrome, firefox}
  SubIds = {s1, s2, s3}
  Owner <- S2OfBob
  Endpoint <- TwoBrowsers
  Stored = {s1}
  Workers = {}
  LeaseIds = {l1, l2}
  LeaseTime = 1
  MaxAttempts = 2
  Delays = {0, 1}
  Retention = 1
  MaxPerUser = 1
  MaxTime = 2
  MaxPuts = 2
SPECIFICATION Spec
INVARIANTS RegistrationsBounded
PROPERTIES StraysSwept
