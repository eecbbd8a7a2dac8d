---------------------------- MODULE MCRelayCore ----------------------------
(***************************************************************************)
(* Small Relays for TLC, with their requests.                              *)
(***************************************************************************)
EXTENDS RelayCore, TLC

CONSTANTS receipt1, receipt2, receipt3, ownerA, providerA, providerB, keyA, keyB, loop, probes,
          request1, request2, request3

SameKey == [r \in Receipts |-> keyA]
OneOwner == [k \in Keys |-> ownerA]
SameProvider == [r \in Receipts |-> providerA]
FeeOfOne == [r \in Receipts |-> 1]
DepositOf1 == [o \in Owners |-> 1]
DepositOf3 == [o \in Owners |-> 3]
LimitOf1 == [k \in Keys |-> 1]
LimitOf2 == [k \in Keys |-> 2]
CapOf1 == [p \in Providers |-> 1]
CapOf3 == [p \in Providers |-> 3]
RoomForOne == [p \in Providers |-> 1]
\* Each request has its own authorization, of the same name, so that requests are alike.
OwnAuthorization == [t \in Requests |-> t]
RequestSymmetry == Permutations(Requests)
=============================================================================
