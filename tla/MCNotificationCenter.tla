------------------------ MODULE MCNotificationCenter ------------------------
(* A small instance of NotificationCenter for TLC. *)
EXTENDS NotificationCenter, TLC

SlotSymmetry == Permutations(Slots)
=============================================================================
