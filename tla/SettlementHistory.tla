------------------------- MODULE SettlementHistory -------------------------
(***************************************************************************)
(* The settlement with what its storage does not keep: which receipts were *)
(* charged to a key's budget, and which juries were drawn after their      *)
(* case's deadline.                                                        *)
(***************************************************************************)
EXTENDS SettlementProxy

\* A payment key signs; an oracle contract's address has no key.
ASSUME HistoryAssumption == Keys \cap Oracles = {}

VARIABLES
  charged,     \* receipts settled while their key had a budget
  drawnLate    \* disputes whose jury was drawn when it could no longer vote

history == <<charged, drawnLate>>

HInit == Init /\ charged = {} /\ drawnLate = {}

HNext ==
  /\ Next
  /\ charged' = charged \cup {k \in SettlementKeys :
       /\ settlements[k].status = "None" /\ settlements'[k].status # "None"
       /\ k[1] \in Keys /\ keyBudgets[k[1]].limit # 0}
  /\ drawnLate' = drawnLate \cup {k \in SettlementKeys :
       assignments[k].status = "Pending" /\ assignments'[k].status = "Ready" /\ now >= disputes[k].resolveAt}

HSpec == HInit /\ [][HNext]_<<vars, history>>

-----------------------------------------------------------------------------
Of(key) == {k \in SettlementKeys : k[1] = key /\ settlements[k].status # "None"}

Unrefunded(S) == Fees({k \in S : settlements[k].status \notin RefundedStatuses})

\* What a budget has spent is what its key has to pay for, when it was there for all the key's receipts: a
\* refund gives exactly its fee back, in whatever order receipts settle, end, and limits change.
BudgetTracksFees ==
  \A key \in Keys : Of(key) \subseteq charged => keyBudgets[key].spent = Unrefunded(Of(key))

\* "Cap what one key may ever spend" (MycoSettlementV11.sol:86): what was charged to a budget and not refunded
\* stays within its limit.
KeyCapped ==
  \A key \in Keys : keyBudgets[key].limit # 0 => Unrefunded(Of(key) \cap charged) <= keyBudgets[key].limit

\* "A case that never got a jury refunds" (MycoSettlementDisputesV11.sol:120): a dispute whose time ran out
\* without a jury is not paid out as one whose jury was silent.
SilentJuryReleases ==
  \A k \in SettlementKeys : settlements[k].status = "TimedOut" => k \notin drawnLate
=============================================================================
