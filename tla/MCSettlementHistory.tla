------------------------ MODULE MCSettlementHistory ------------------------
(***************************************************************************)
(* The small settlements of MCSettlement, with their history.              *)
(***************************************************************************)
EXTENDS MCSettlement, SettlementHistory
=============================================================================
