----------------------------- MODULE CaseChain -----------------------------
(***************************************************************************)
(* What a dispute desk, a juror and a keeper read of the chain             *)
(* (CaseReader in mycomesh/jury.py), and the transactions they send to it, *)
(* for one case: the dispute of a receipt, or a capability case.           *)
(*                                                                         *)
(* A load-balanced endpoint may answer a read from a node a block behind.  *)
(* A unit of time is many blocks: what such a node says was true since the *)
(* last tick, and each call has its own node.                              *)
(*                                                                         *)
(* A permit's nonce is left out: the only vote that consumes any decides   *)
(* the case.                                                               *)
(***************************************************************************)
EXTENDS Integers, Sequences, FiniteSets

CONSTANTS
  Jurors, threshold,
  ReleaseIn, RoundIn, arbitrationTimeout,
  MaxTime,   \* bound
  LastOpened, \* bound: when a receipt is settled or a case opened at the latest
  MaxLosses, \* bound: calls to the chain without an answer
  MaxRestarts \* bound: restarts of desks, jurors and keeper

ASSUME CaseAssumption ==
  /\ IsFiniteSet(Jurors) /\ threshold \in 1 .. Cardinality(Jurors)
  /\ ReleaseIn > 0 /\ RoundIn > 0
  /\ {ReleaseIn, RoundIn, arbitrationTimeout, MaxTime, LastOpened, MaxLosses, MaxRestarts} \subseteq Nat

VARIABLES
  kind,        \* "dispute" or "capability"
  lag,         \* whether the endpoint's nodes lag
  committed,   \* the evidence whose hash is on the chain: whether it is what the receipt signs
  now,
  status, assignment,
  release_at, resolve_at, round_at,
  past,        \* what the chain said of the case since the last tick and says no more
  log,         \* per block, the events a keeper follows
  losses, restarts

chainVars == <<kind, lag, committed, now, status, assignment, release_at, resolve_at, round_at, past, log, losses, restarts>>
setting == <<kind, lag, committed, now, restarts>>
dates == <<release_at, resolve_at, round_at>>

Undecided == {"none", "pending", "disputed", "open"}
Open == status \in {"disputed", "open"}
Ended == status \notin Undecided

\* What a read may say.
View == [status |-> status, assignment |-> assignment, resolve_at |-> resolve_at, round_at |-> round_at]
Views == {View} \cup past
MovesOn == past' = IF lag THEN Views ELSE {}

-----------------------------------------------------------------------------
(* Transactions: when each succeeds, and what it does then *)

\* The receipt is settled; its payer has until release_at to dispute it.
escrow ==
  /\ kind = "dispute" /\ status = "none" /\ now <= LastOpened
  /\ status' = "pending" /\ release_at' = now + ReleaseIn /\ MovesOn
  /\ log' = Append(log, {"release"})
  /\ UNCHANGED <<setting, assignment, resolve_at, round_at, losses>>

\* A jury is asked for; there may be no candidates.
requests_jury(events) ==
  \E formed \in {"pending", "failed"} :
    /\ assignment' = formed /\ round_at' = now + RoundIn /\ MovesOn
    /\ log' = Append(log, IF formed = "pending" THEN events \cup {"jury"} ELSE events)
    /\ UNCHANGED <<setting, release_at, losses>>

open_dispute ==
  /\ status = "pending" /\ now < release_at
  /\ status' = "disputed" /\ resolve_at' = release_at + arbitrationTimeout
  /\ requests_jury({"dispute"})

open_case ==
  /\ kind = "capability" /\ status = "none" /\ now <= LastOpened
  /\ status' = "open" /\ resolve_at' = now + arbitrationTimeout
  /\ requests_jury({})

CanRelease == status = "pending" /\ now >= release_at
CanDraw == assignment = "pending" /\ now >= round_at
CanTimeOut == Open /\ now >= resolve_at
\* The votes are a quorum of drawn jurors that say the same, in permits that have not expired.
CanVote(permits) ==
  /\ Open /\ now < resolve_at /\ assignment = "ready"
  /\ Cardinality(permits) = threshold
  /\ \A p, q \in permits : p.confirmed = q.confirmed /\ (p.juror = q.juror => p = q)
  /\ \A p \in permits : p.deadline >= now

Becomes(s) == status' = s /\ MovesOn /\ UNCHANGED <<setting, assignment, dates, log>>
Released == CanRelease /\ Becomes("released")
Drawn == CanDraw /\ assignment' = "ready" /\ MovesOn /\ UNCHANGED <<setting, status, dates, log>>
TimedOut == CanTimeOut /\ Becomes(IF kind = "dispute" /\ assignment # "ready" THEN "jury_unavailable" ELSE "timed_out")
Verdict(confirmed) == IF confirmed THEN "confirmed" ELSE "dismissed"
Voted(permits) == CanVote(permits) /\ \E p \in permits : Becomes(Verdict(p.confirmed))

NotSent == UNCHANGED <<setting, status, assignment, dates, past, log>>

\* How a transaction ends for its sender (send_transaction, wait_for_receipt): it is mined and succeeds; or it reverts,
\* or there is no answer, whether it was mined or not.
Mined(effect) == effect /\ UNCHANGED losses
Failed(can, effect) ==
  \/ ~can /\ NotSent /\ UNCHANGED losses
  \/ losses < MaxLosses /\ losses' = losses + 1 /\ (effect \/ NotSent)

-----------------------------------------------------------------------------
(* Others, and time *)

relay_releases == Released /\ UNCHANGED losses
void == status = "pending" /\ Becomes("voided") /\ UNCHANGED losses
\* A node that lagged has caught up.
catch_up == past # {} /\ past' = {} /\ UNCHANGED <<setting, status, assignment, dates, log, losses>>
tick ==
  /\ now < MaxTime /\ now' = now + 1 /\ past' = {}
  /\ UNCHANGED <<kind, lag, committed, restarts, status, assignment, dates, log, losses>>

\* A process ends, and starts again.
Restarted ==
  /\ restarts < MaxRestarts /\ restarts' = restarts + 1
  /\ UNCHANGED <<kind, lag, committed, now, status, assignment, dates, past, log, losses>>

ChainInit ==
  /\ kind \in {"dispute", "capability"} /\ lag \in BOOLEAN /\ committed \in {"signed", "other"}
  /\ now = 0 /\ status = "none" /\ assignment = "none"
  /\ release_at = 0 /\ resolve_at = 0 /\ round_at = 0 /\ past = {}
  /\ log = <<>> /\ losses = 0 /\ restarts = 0
=============================================================================
