------------------------------ MODULE MCInbox ------------------------------
(* Small instances of Inbox and of its refinement for TLC. *)
EXTENDS InboxRefinement, TLC

CONSTANTS alice, bob, forAlice, forBob, legacy, phone

TwoRecipients == forAlice :> alice @@ forBob :> bob
WithLegacy    == forAlice :> alice @@ legacy :> alice
OneRecipient  == forAlice :> alice

PhoneOfAlice == phone :> alice
NoPhone      == << >>

LeaseSymmetry == Permutations(LeaseIds) \cup Permutations(Workers)
                   \cup Permutations(Jobs)
=============================================================================
