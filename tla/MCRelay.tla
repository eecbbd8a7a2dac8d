------------------------------ MODULE MCRelay ------------------------------
(***************************************************************************)
(* Small Relays for TLC.                                                   *)
(***************************************************************************)
EXTENDS RelaySettlement

CONSTANTS receipt1, receipt2, receipt3, ownerA, providerA, keyA, loop, probes

SameKey == [r \in Receipts |-> keyA]
OneOwner == [k \in Keys |-> ownerA]
SameProvider == [r \in Receipts |-> providerA]
FeeOfOne == [r \in Receipts |-> 1]
\* Two of three fit in the budget.
DepositOf3 == [o \in Owners |-> 3]
LimitOf2 == [k \in Keys |-> 2]
CapOf3 == [p \in Providers |-> 3]
=============================================================================
