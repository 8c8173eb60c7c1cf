--------------------------- MODULE MCPushSettings ---------------------------
(* A small instance of PushSettings for TLC. *)
EXTENDS PushSettings, TLC
=============================================================================
