------------------------- MODULE SettlementDisputes -------------------------
(***************************************************************************)
(* MycoSettlementDisputesV11: the dispute half of the settlement, reached  *)
(* by delegatecall, and the jury registry as the settlement sees it (a     *)
(* jury is requested when a case opens; anyone may finalize the draw once  *)
(* its randomness is out, at any later time).                              *)
(***************************************************************************)
EXTENDS SettlementBase

CONSTANTS
  Disputers,          \* accounts that open disputes
  MIN_CASE_PROBES, MAX_CASE_PROBES, MAX_CASE_DAYS

ASSUME DisputeAssumption == Disputers \subseteq Accounts

-----------------------------------------------------------------------------
(* What ProviderJuryRegistryV11 answers *)

\* requestJury: the candidates are counted at once; too few, and the case will never have a jury.
RequestedJury == {[NoJury EXCEPT !.status = "Pending", !.round = now + SELECTION_DELAY],
                  [NoJury EXCEPT !.status = "Failed"]}

\* The parties of a case among the signing addresses; they are no candidates for its jury.
CaseSigners(c) == IF c \in SettlementKeys THEN {settlements[c].providerSigner, settlements[c].relaySigner}
                                          ELSE {capabilityCases[c].providerSigner}

finalizeJury(c, jurors) ==
  /\ NotEntered
  /\ assignments[c].status = "Pending" /\ now >= assignments[c].round
  /\ jurors \cap CaseSigners(c) = {}
  /\ assignments' = [assignments EXCEPT ![c] = [@ EXCEPT !.status = "Ready", !.jurors = jurors]]
  /\ UNCHANGED <<now, settings, ledger, batch, grantVars, signerVars, settlements, probeVars, oracleVars,
                 disputes, disputeVotes, capabilityCases>>

HasJury(c) == assignments[c].status = "Ready"

-----------------------------------------------------------------------------
(* Disputes *)

openDispute(k, sender) ==
  LET r == settlements[k]
      bond == settings.reporterBond
  IN
  /\ NotEntered
  /\ r.status = "Pending" /\ now < r.releaseAt
  /\ sender \in {r.owner, oracleDisputer[k]}
  /\ settlements' = [settlements EXCEPT ![k].status = "Disputed"]
  /\ disputes' = [disputes EXCEPT ![k] =
       [NoDispute EXCEPT !.reporter = sender, !.totalBond = bond,
                         !.resolveAt = r.releaseAt + settings.arbitrationTimeout]]
  /\ ledger.wallet[sender] >= bond
  /\ Commit([takeExact(ledger, sender, bond) EXCEPT !.totalReporterBonds = @ + bond])
  /\ \E requested \in RequestedJury : assignments' = [assignments EXCEPT ![k] = requested]
  /\ UNCHANGED <<now, settings, batch, grantVars, signerVars, probeVars, oracleVars, disputeVotes, capabilityCases>>

\* Mutant: any eligible juror's signature counts, drawn for the case or not.
countVotes_undrawn(c, judges, confirmed) ==
  /\ HasJury(c)
  /\ Cardinality(judges) = THRESHOLD
  /\ \A j \in judges : disputeVotes[c][j] = 0
  /\ disputeVotes' = [disputeVotes EXCEPT ![c] =
       [j \in Jurors |-> IF j \in judges THEN (IF confirmed THEN 1 ELSE 2) ELSE @[j]]]

\* voteDisputeBySig's and voteCapabilityCase's loop: THRESHOLD drawn jurors, none counted before, all for one verdict.
countVotes(c, judges, confirmed) ==
  /\ HasJury(c)
  /\ judges \subseteq assignments[c].jurors /\ Cardinality(judges) = THRESHOLD
  /\ \A j \in judges : disputeVotes[c][j] = 0
  /\ disputeVotes' = [disputeVotes EXCEPT ![c] =
       [j \in Jurors |-> IF j \in judges THEN (IF confirmed THEN 1 ELSE 2) ELSE @[j]]]

\* A juror is neither a party nor a signer of the accused Provider at the time of the vote.
independent(judge, parties, provider) == judge \notin parties /\ providerSignerOwner[judge] # provider

votable(k, judges, confirmed) ==
  LET r == settlements[k] IN
  /\ NotEntered
  /\ r.status = "Disputed" /\ now < disputes[k].resolveAt
  /\ \A j \in judges : independent(j, {r.providerSigner, r.relaySigner}, r.provider)
  /\ countVotes(k, judges, confirmed)

penaltyOf(record) == Smaller(Portion(record.fee, settings.slashBps), settings.slashCap)

\* Mutant: the Provider's exposure is forgotten with its clean volume.
payPenalty_noExposure(l, provider, taken, bounty, reporter) ==
  credit(credit([l EXCEPT !.clean[provider] = 0, !.exposure[provider] = 0], reporter, bounty),
         settings.penaltyRecipient, taken - bounty)

\* A forfeited holdback: the reporter's bounty and the treasury's rest.
payPenalty(l, provider, taken, bounty, reporter) ==
  credit(credit([l EXCEPT !.clean[provider] = 0], reporter, bounty), settings.penaltyRecipient, taken - bounty)

confirmDispute(k, judges) ==
  LET r == settlements[k]
      refunded == refund(ledger, r)
      taken == holdbackTaken(refunded, r.provider, penaltyOf(r))
      bounty == Portion(taken, settings.reporterBountyBps)
  IN
  /\ votable(k, judges, TRUE)
  /\ taken \in Nat
  /\ settlements' = [settlements EXCEPT ![k].status = "Confirmed"]
  /\ disputes' = [disputes EXCEPT ![k].penalty = taken, ![k].bounty = bounty]
  /\ Commit(payPenalty(takeHoldback(refunded, r.provider, penaltyOf(r)), r.provider, taken, bounty,
                       disputes[k].reporter))
  /\ keyBudgets' = refundBudget(k[1], r)
  /\ UNCHANGED <<now, settings, batch, keyGrants, withdrawals, signerVars, probeVars, oracleVars,
                 capabilityCases, assignments>>

\* Mutant: a forfeited bond is credited and still held.
dismissDispute_bondHeld(k, judges) ==
  LET r == settlements[k] IN
  /\ votable(k, judges, FALSE)
  /\ settlements' = [settlements EXCEPT ![k].status = "Dismissed"]
  /\ Commit(credit(payRelease(ledger, r), settings.penaltyRecipient, disputes[k].totalBond))
  /\ UNCHANGED <<now, settings, batch, grantVars, signerVars, probeVars, oracleVars, disputes, capabilityCases,
                 assignments>>

dismissDispute(k, judges) ==
  LET r == settlements[k]
      released == payRelease(ledger, r)
      bond == disputes[k].totalBond
  IN
  /\ votable(k, judges, FALSE)
  /\ providerGross(r.fee) >= 0
  /\ settlements' = [settlements EXCEPT ![k].status = "Dismissed"]
  /\ Commit(credit([released EXCEPT !.totalReporterBonds = @ - bond], settings.penaltyRecipient, bond))
  /\ UNCHANGED <<now, settings, batch, grantVars, signerVars, probeVars, oracleVars, disputes, capabilityCases,
                 assignments>>

\* Mutant: a bond can be claimed again, out of another dispute's.
claimDisputeBond_again(k) ==
  LET d == disputes[k] IN
  /\ NotEntered
  /\ settlements[k].status \in {"Confirmed", "TimedOut", "JuryUnavailable"} /\ d.reporter # NoOne
  /\ disputes' = [disputes EXCEPT ![k].bondClaimed = TRUE]
  /\ Commit(credit([ledger EXCEPT !.totalReporterBonds = @ - d.totalBond], d.reporter, d.totalBond))
  /\ UNCHANGED <<now, settings, batch, grantVars, signerVars, settlements, probeVars, oracleVars, disputeVotes,
                 capabilityCases, assignments>>

claimDisputeBond(k) ==
  LET d == disputes[k] IN
  /\ NotEntered
  /\ settlements[k].status \in {"Confirmed", "TimedOut", "JuryUnavailable"}
  /\ d.reporter # NoOne /\ ~d.bondClaimed
  /\ disputes' = [disputes EXCEPT ![k].bondClaimed = TRUE]
  /\ Commit(credit([ledger EXCEPT !.totalReporterBonds = @ - d.totalBond], d.reporter, d.totalBond))
  /\ UNCHANGED <<now, settings, batch, grantVars, signerVars, settlements, probeVars, oracleVars, disputeVotes,
                 capabilityCases, assignments>>

\* Mutant: a case without a jury is marked refunded, and its fee paid out.
resolveTimedOutDispute_pays(k) ==
  LET r == settlements[k] IN
  /\ NotEntered
  /\ r.status = "Disputed" /\ now >= disputes[k].resolveAt
  /\ settlements' = [settlements EXCEPT ![k].status = IF HasJury(k) THEN "TimedOut" ELSE "JuryUnavailable"]
  /\ Commit(payRelease(ledger, r))
  /\ UNCHANGED <<now, settings, batch, grantVars, signerVars, probeVars, oracleVars, caseVars>>

\* Mutant: a case that never got a jury cannot be closed.
resolveTimedOutDispute_jury(k) ==
  LET r == settlements[k] IN
  /\ NotEntered
  /\ r.status = "Disputed" /\ now >= disputes[k].resolveAt /\ HasJury(k)
  /\ settlements' = [settlements EXCEPT ![k].status = "TimedOut"]
  /\ Commit(payRelease(ledger, r))
  /\ UNCHANGED <<now, settings, batch, grantVars, signerVars, probeVars, oracleVars, caseVars>>

\* Silence is no verdict: an assigned but silent jury releases, a case without a jury refunds.
resolveTimedOutDispute(k) ==
  LET r == settlements[k] IN
  /\ NotEntered
  /\ r.status = "Disputed" /\ now >= disputes[k].resolveAt
  /\ \/ /\ ~HasJury(k)
        /\ settlements' = [settlements EXCEPT ![k].status = "JuryUnavailable"]
        /\ Commit(refund(ledger, r))
        /\ keyBudgets' = refundBudget(k[1], r)
     \/ /\ HasJury(k)
        /\ providerGross(r.fee) >= 0
        /\ settlements' = [settlements EXCEPT ![k].status = "TimedOut"]
        /\ Commit(payRelease(ledger, r))
        /\ UNCHANGED keyBudgets
  /\ UNCHANGED <<now, settings, batch, keyGrants, withdrawals, signerVars, probeVars, oracleVars, caseVars>>

-----------------------------------------------------------------------------
(* Capability cases *)

Opened(c) == c \in DOMAIN capabilityCases

\* Every probe the hunter voided on the Provider in the closed days of the case, and no other.
rangeVoids(c) ==
  SumFunctionOnSet([d \in Days |-> hunterProbeVoids[<<c[1], c[2], d>>]], {d \in Days : c[3] <= d /\ d <= c[4]})

\* Mutant: a case may cover the day that is not over.
closedRange_today(c) == c[3] <= c[4] /\ c[4] <= Today /\ c[4] - c[3] < MAX_CASE_DAYS

\* Closed days only: the voids of a day that is over cannot grow.
closedRange(c) == c[3] <= c[4] /\ c[4] < Today /\ c[4] - c[3] < MAX_CASE_DAYS

inRange(k, c) ==
  LET v == probeVoids[k] IN
  v.hunter = c[1] /\ ~v.inCase /\ v.day >= c[3] /\ v.day <= c[4] /\ settlements[k].provider = c[2]

openCapabilityCase(c, keys) ==
  LET hunter == c[1]
      bond == settings.reporterBond
  IN
  /\ NotEntered
  /\ closedRange(c)
  /\ Cardinality(keys) \in MIN_CASE_PROBES .. MAX_CASE_PROBES
  /\ Cardinality(keys) = rangeVoids(c)
  /\ \A k \in keys : inRange(k, c)
  /\ probeVoids' = [k \in SettlementKeys |-> IF k \in keys THEN [probeVoids[k] EXCEPT !.inCase = TRUE]
                                                           ELSE probeVoids[k]]
  /\ \E first \in keys :
       capabilityCases' = [x \in DOMAIN capabilityCases \cup {c} |->
         IF x = c THEN [status |-> "Open", providerSigner |-> settlements[first].providerSigner, keys |-> keys,
                        resolveAt |-> now + settings.arbitrationTimeout, bond |-> bond, penalty |-> 0, bounty |-> 0]
                  ELSE capabilityCases[x]]
  /\ ledger.wallet[hunter] >= bond
  /\ Commit([takeExact(ledger, hunter, bond) EXCEPT !.totalReporterBonds = @ + bond])
  /\ assignments[c].status = "None"
  /\ \E requested \in RequestedJury : assignments' = [assignments EXCEPT ![c] = requested]
  /\ UNCHANGED <<now, settings, batch, grantVars, signerVars, settlements, oracleVars, disputes, disputeVotes,
                 probeCommitments, providerProbeVoids, hunterProbeVoids, probeMaxFee>>

OnlyCases == UNCHANGED <<now, settings, batch, grantVars, signerVars, settlements, probeVars, oracleVars, disputes,
                         assignments>>

voteCapabilityCase(c, judges, confirmed) ==
  LET item == capabilityCases[c]
      freed == [ledger EXCEPT !.totalReporterBonds = @ - item.bond]
      taken == holdbackTaken(freed, c[2], settings.slashCap)
      bounty == Portion(taken, settings.reporterBountyBps)
  IN
  /\ NotEntered
  /\ Opened(c) /\ item.status = "Open" /\ now < item.resolveAt
  /\ countVotes(c, judges, confirmed)
  /\ \A j \in judges : independent(j, {}, c[2])
  /\ \/ /\ confirmed
        /\ taken \in Nat
        /\ capabilityCases' = [capabilityCases EXCEPT ![c] =
             [@ EXCEPT !.status = "Confirmed", !.penalty = taken, !.bounty = bounty]]
        /\ Commit(payPenalty(takeHoldback(credit(freed, c[1], item.bond), c[2], settings.slashCap), c[2], taken,
                             bounty, c[1]))
     \/ /\ ~confirmed
        /\ capabilityCases' = [capabilityCases EXCEPT ![c].status = "Dismissed"]
        /\ Commit(credit(freed, settings.penaltyRecipient, item.bond))
  /\ OnlyCases

resolveTimedOutCapabilityCase(c) ==
  LET item == capabilityCases[c] IN
  /\ NotEntered
  /\ Opened(c) /\ item.status = "Open" /\ now >= item.resolveAt
  /\ capabilityCases' = [capabilityCases EXCEPT ![c].status = "TimedOut"]
  /\ Commit(credit([ledger EXCEPT !.totalReporterBonds = @ - item.bond], c[1], item.bond))
  /\ UNCHANGED disputeVotes /\ OnlyCases

-----------------------------------------------------------------------------
Juries == {J \in SUBSET Jurors : Cardinality(J) >= THRESHOLD}
Quorums == {J \in SUBSET Jurors : Cardinality(J) = THRESHOLD}

NextDisputes ==
  \/ \E k \in SettlementKeys :
       \/ \E sender \in Disputers : openDispute(k, sender)
       \/ \E judges \in Quorums : confirmDispute(k, judges) \/ dismissDispute(k, judges)
       \/ claimDisputeBond(k)
       \/ resolveTimedOutDispute(k)
  \/ \E c \in CaseIds :
       \/ \E keys \in SUBSET {k \in SettlementKeys : inRange(k, c)} : openCapabilityCase(c, keys)
       \/ \E judges \in Quorums, confirmed \in BOOLEAN : voteCapabilityCase(c, judges, confirmed)
       \/ resolveTimedOutCapabilityCase(c)
  \/ \E c \in SettlementKeys \cup DOMAIN capabilityCases, jurors \in Juries : finalizeJury(c, jurors)
=============================================================================
