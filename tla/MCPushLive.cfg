\* One worker whose claims fail or die, one delivery: progress. Liveness, so no
\* symmetry.
CONSTANTS
  alice = alice
  bob = bob
  aliceTab = aliceTab
  bobTab = bobTab
  chrome = chrome
  firefox = firefox
  s1 = s1
  s2 = s2
  s3 = s3
  NoLease = NoLease
  NoSession = NoSession
  NoDelivery = NoDelivery
  Users = {alice}
  Recipient <- AllForAlice
  Events = {1}
  Sessions = {aliceTab}
  SessionUser <- OneTab
  Clients = {}
  Endpoints = {chrome}
  SubIds = {s1}
  Owner <- OfAlice
  Endpoint <- OneBrowser
  Stored = {s1}
  Workers = {w1}
  LeaseIds = {l1, l2}
  LeaseTime = 1
  MaxAttempts = 2
  Delays = {0, 1}
  Retention = 1
  MaxPerUser = 1
  MaxTime = 2
  MaxPuts = 1
SPECIFICATION FairSpec
PROPERTIES EventuallySettled
