-------------------------- MODULE MCRelayHistory --------------------------
(***************************************************************************)
(* The small Relays of MCRelayCore, with history.                          *)
(***************************************************************************)
EXTENDS MCRelayCore, RelayHistory
=============================================================================
