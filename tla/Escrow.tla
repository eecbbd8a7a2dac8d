------------------------------- MODULE Escrow -------------------------------
(***************************************************************************)
(* What the settlement promises about money, without its bookkeeping: a    *)
(* receipt's fee leaves its owner's balance once, is held, and ends either *)
(* among the earnings or back in that owner's balance.  Nobody else's      *)
(* balance moves.  SettlementProxy is shown to implement this.             *)
(***************************************************************************)
EXTENDS Naturals

CONSTANTS Consumers, Receipts, NoOne

VARIABLES
  balance,    \* what each Consumer has deposited and not yet spent
  receipts,   \* owner, fee and stage of each receipt
  earnings,   \* what has been earned and not yet claimed, bonds returned included
  bonds       \* what disputes hold

vars == <<balance, receipts, earnings, bonds>>

Init ==
  /\ balance = [o \in Consumers |-> 0]
  /\ receipts = [r \in Receipts |-> [owner |-> NoOne, fee |-> 0, stage |-> "absent"]]
  /\ earnings = 0 /\ bonds = 0

\* A Consumer deposits or withdraws.
Bank(o) ==
  /\ balance'[o] \in Nat
  /\ balance' = [balance EXCEPT ![o] = balance'[o]]
  /\ UNCHANGED <<receipts, earnings, bonds>>

\* A receipt settles: its fee, which its owner could pay, is held.
Hold(r, o) ==
  LET fee == receipts'[r].fee IN
  /\ receipts[r].stage = "absent"
  /\ fee > 0 /\ fee <= balance[o]
  /\ receipts' = [receipts EXCEPT ![r] = [owner |-> o, fee |-> fee, stage |-> "held"]]
  /\ balance' = [balance EXCEPT ![o] = @ - fee]
  /\ UNCHANGED <<earnings, bonds>>

\* The owner, or a hunter over its own probes, posts a bond.
Post ==
  /\ bonds' >= bonds
  /\ UNCHANGED <<balance, earnings>>
  /\ \/ UNCHANGED receipts
     \/ \E r \in Receipts : receipts[r].stage = "held" /\ receipts' = [receipts EXCEPT ![r].stage = "contested"]

\* A held or contested fee is earned; a bond forfeited with it is earned too.
Pay(r) ==
  /\ receipts[r].stage \in {"held", "contested"}
  /\ receipts' = [receipts EXCEPT ![r].stage = "paid"]
  /\ bonds' <= bonds
  /\ receipts[r].stage = "held" => bonds' = bonds
  /\ earnings' + bonds' = earnings + bonds + receipts[r].fee
  /\ UNCHANGED balance

\* A held or contested fee goes back to its owner.
Refund(r) ==
  /\ receipts[r].stage \in {"held", "contested"}
  /\ receipts' = [receipts EXCEPT ![r].stage = "refunded"]
  /\ balance' = [balance EXCEPT ![receipts[r].owner] = @ + receipts[r].fee]
  /\ UNCHANGED <<earnings, bonds>>

\* A bond is returned or forfeited.
Return ==
  /\ bonds' < bonds /\ earnings' + bonds' = earnings + bonds
  /\ UNCHANGED <<balance, receipts>>

Claim ==
  /\ earnings' < earnings
  /\ UNCHANGED <<balance, receipts, bonds>>

Next ==
  \/ \E o \in Consumers : Bank(o)
  \/ \E r \in Receipts, o \in Consumers : Hold(r, o)
  \/ \E r \in Receipts : Pay(r) \/ Refund(r)
  \/ Post \/ Return \/ Claim

Spec == Init /\ [][Next]_vars
=============================================================================
