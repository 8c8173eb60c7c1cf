------------------------------- MODULE MCPush -------------------------------
(* Small instances of Push for TLC. *)
EXTENDS PushRefinement, TLC

CONSTANTS alice, bob, aliceTab, bobTab, chrome, firefox, s1, s2, s3

AllForAlice == [e \in Events |-> alice]

OneTab  == aliceTab :> alice
TwoTabs == aliceTab :> alice @@ bobTab :> bob

\* Rows of alice; rows of alice and one of bob.
OfAlice     == [i \in SubIds |-> alice]
S2OfBob     == [i \in SubIds |-> IF i = s2 THEN bob ELSE alice]

\* Every row of one browser; one row of a second browser.
OneBrowser  == [i \in SubIds |-> chrome]
TwoBrowsers == [i \in SubIds |-> IF i = s3 THEN firefox ELSE chrome]

WorkerSymmetry == Permutations(LeaseIds) \cup Permutations(Workers)
=============================================================================
