\* A user of an existing account registers after reconciliation has read the list
\* of subscriptions and before it deletes the orphans.
CONSTANTS
  alice = alice
  bob = bob
  aliceTab = aliceTab
  bobTab = bobTab
  chrome = chrome
  firefox = firefox
  s1 = s1
  s2 = s2
  s3 = s3
  NoLease = NoLease
  NoSession = NoSession
  NoDelivery = NoDelivery
  Users = {alice, bob}
  Recipient <- AllForAlice
  Events = {}
  Sessions = {aliceTab, bobTab}
  SessionUser <- TwoTabs
  Clients = {aliceTab, bobTab}
  Endpoints = {chrome}
  SubIds = {s1, s2}
  Owner <- S2OfBob
  Endpoint <- OneBrowser
  Stored = {s1}
  Workers = {}
  LeaseIds = {l1, l2}
  LeaseTime = 1
  MaxAttempts = 2
  Delays = {0, 1}
  Retention = 1
  MaxPerUser = 1
  MaxTime = 2
  MaxPuts = 1
SPECIFICATION Spec
PROPERTIES OnlyOrphansRemoved
