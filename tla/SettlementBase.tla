--------------------------- MODULE SettlementBase ---------------------------
(***************************************************************************)
(* Storage and shared rules of the V11 settlement contract                 *)
(* (contracts/MycoSettlementBaseV11.sol).  The proxy's storage is the      *)
(* VARIABLES below; a transaction is one action; money that moves inside   *)
(* the contract moves in the record `ledger', by operators that take a     *)
(* ledger and return the next one, composed as the calls are in the code.  *)
(*                                                                         *)
(* Signatures, EIP-712 hashes, gas limits and events are not modelled: an  *)
(* input is a receipt or a vote its parties did sign.  Amounts are small   *)
(* naturals; a subtraction that would go below zero reverts the call, as   *)
(* Solidity's checked arithmetic does (see Commit).                        *)
(***************************************************************************)
EXTENDS Integers, FiniteSets, Functions

CONSTANTS
  Accounts,           \* addresses that may hold money
  Consumers,          \* those that deposit and own payment keys
  Providers,          \* those that own Provider signers
  Relays,             \* those that own Relay signers
  Hunters,            \* those named in probe commitments
  Signers,            \* signing addresses of Providers, Relays and jurors
  Jurors,             \* the signing addresses that may be drawn as jurors
  Keys,               \* payment keys
  Oracles,            \* addresses of inference oracle contracts
  NoOne,              \* address(0)
  RequestIds,
  ParamChoices,       \* arguments the admin passes to setParams
  Wealth,             \* stablecoin every account starts with
  HOLDBACK_BUCKETS,   \* 8 in the code
  DAY,                \* ticks of the clock in one day
  MAX_AUTHORIZATION_TTL,
  MAX_RELEASE_BATCH,
  THRESHOLD,          \* the registry's jury threshold
  SELECTION_DELAY,    \* the registry's delay from a case to the randomness of its draw
  MaxTime             \* bound: the clock stops here

\* Addresses and request ids are words of fixed width: there are finitely many.
ASSUME BaseAssumption ==
  /\ IsFiniteSet(Accounts) /\ IsFiniteSet(Keys \cup Oracles) /\ IsFiniteSet(RequestIds)
  /\ Consumers \cup Providers \cup Relays \cup Hunters \subseteq Accounts
  /\ Jurors \subseteq Signers
  /\ NoOne \notin Accounts \cup Signers \cup Oracles
  /\ ParamChoices \subseteq [disputeWindow: Nat, arbitrationTimeout: Nat, consumerWithdrawalDelay: Nat,
       reporterBond: Nat, relayBps: Nat, holdbackBps: Nat, holdbackPeriod: Nat, baseExposureCap: Nat,
       exposureGrowthBps: Nat, maxExposureCap: Nat, slashBps: Nat, slashCap: Nat, reporterBountyBps: Nat,
       probeVoidsPerDay: Nat, penaltyRecipient: Accounts]
  /\ Wealth \in [Accounts -> Nat]
  /\ HOLDBACK_BUCKETS \in Nat \ {0} /\ DAY \in Nat \ {0} /\ MaxTime \in Nat \ {0}
  /\ MAX_AUTHORIZATION_TTL \in Nat /\ MAX_RELEASE_BATCH \in Nat /\ THRESHOLD \in Nat
  /\ SELECTION_DELAY \in Nat

VARIABLES
  now,                \* block.timestamp
  settings,           \* Params
  ledger,             \* every amount of money, see Ledger
  batch,              \* the releaseBatch call being executed, if any
  keyGrants, keyBudgets, withdrawals,
  providerSignerOwner, relaySignerOwner,
  settlements, disputes, disputeVotes,
  probeCommitments, providerProbeVoids, hunterProbeVoids, probeVoids, probeMaxFee,
  capabilityCases,
  oracle, oracleDisputer,
  assignments         \* the jury registry's answer for each case

grantVars  == <<keyGrants, keyBudgets, withdrawals>>
signerVars == <<providerSignerOwner, relaySignerOwner>>
probeVars  == <<probeCommitments, providerProbeVoids, hunterProbeVoids, probeVoids, probeMaxFee>>
caseVars   == <<disputes, disputeVotes, capabilityCases, assignments>>
oracleVars == <<oracle, oracleDisputer>>
vars == <<now, settings, ledger, batch, grantVars, signerVars, settlements, probeVars, caseVars, oracleVars>>

-----------------------------------------------------------------------------
(* Types *)

BPS == 10000
TREASURY_BPS == 1000

Slots == 0 .. HOLDBACK_BUCKETS - 1
Days  == {t \div DAY : t \in 0 .. MaxTime}
Today == now \div DAY

SettlementKeys == (Keys \cup Oracles) \X RequestIds
CaseIds == Hunters \X Providers \X Days \X Days   \* capability cases: hunter, Provider, first and last day
AllCases == SettlementKeys \cup CaseIds

Statuses == {"None", "Pending", "Disputed", "Released", "Confirmed", "Dismissed",
             "TimedOut", "JuryUnavailable", "Voided"}
\* The statuses a receipt's fee is still in escrow in.
OpenStatuses == {"Pending", "Disputed"}
RefundedStatuses == {"Confirmed", "JuryUnavailable", "Voided"}
PaidStatuses == {"Released", "Dismissed", "TimedOut"}

Params == [disputeWindow: Nat, arbitrationTimeout: Nat, consumerWithdrawalDelay: Nat,
           reporterBond: Nat, relayBps: Nat, holdbackBps: Nat, holdbackPeriod: Nat,
           baseExposureCap: Nat, exposureGrowthBps: Nat, maxExposureCap: Nat,
           slashBps: Nat, slashCap: Nat, reporterBountyBps: Nat, probeVoidsPerDay: Nat,
           penaltyRecipient: Accounts]

KeyGrant == [owner: Consumers \cup {NoOne}, maxPerRequest: Nat, validUntil: Nat, active: BOOLEAN]

\* What the contract holds and owes.  token is stablecoin.balanceOf(settlement), wallet everyone else's.
Ledger == [token: Nat, wallet: [Accounts -> Nat],
           available: [Consumers -> Nat], reserved: [Consumers -> Nat], claimable: [Accounts -> Nat],
           exposure: [Providers -> Nat], clean: [Providers -> Nat],
           buckets: [Providers -> [Slots -> [day: Nat, amount: Nat]]], holdback: [Providers -> Nat],
           totalAvailable: Nat, totalClaimable: Nat, totalPendingFees: Nat, totalHoldback: Nat,
           totalReporterBonds: Nat]

Settlement == [owner: Consumers \cup {NoOne}, provider: Providers \cup {NoOne}, relay: Relays \cup {NoOne},
               providerSigner: Signers \cup {NoOne}, relaySigner: Signers \cup {NoOne},
               fee: Nat, issuedAt: Nat, releaseAt: Nat, status: Statuses]
NoSettlement == [owner |-> NoOne, provider |-> NoOne, relay |-> NoOne, providerSigner |-> NoOne,
                 relaySigner |-> NoOne, fee |-> 0, issuedAt |-> 0, releaseAt |-> 0, status |-> "None"]

\* A dispute and its one report.
Dispute == [reporter: Accounts \cup {NoOne}, totalBond: Nat, resolveAt: Nat, bondClaimed: BOOLEAN,
            penalty: Nat, bounty: Nat]
NoDispute == [reporter |-> NoOne, totalBond |-> 0, resolveAt |-> 0, bondClaimed |-> FALSE,
              penalty |-> 0, bounty |-> 0]

ProbeVoid == [hunter: Hunters \cup {NoOne}, day: Nat, inCase: BOOLEAN]
NoProbeVoid == [hunter |-> NoOne, day |-> 0, inCase |-> FALSE]

CapabilityCase == [status: {"Open", "Confirmed", "Dismissed", "TimedOut"}, providerSigner: Signers \cup {NoOne},
                   keys: SUBSET SettlementKeys, resolveAt: Nat, bond: Nat, penalty: Nat, bounty: Nat]

\* The totals releaseBatch folds its receipts into, one per (Provider, Consumer, Relay).
Totals == Providers \X Consumers \X Relays
NoTotals == [t \in Totals |-> 0]
Batch == [running: BOOLEAN, keys: SUBSET SettlementKeys, items: [Totals -> Nat], total: Nat, treasury: Nat]
Idle == [running |-> FALSE, keys |-> {}, items |-> NoTotals, total |-> 0, treasury |-> 0]

\* None: no jury requested; Pending: candidates fixed, draw open from round on; Failed: too few candidates;
\* Ready: drawn.
Assignment == [status: {"None", "Pending", "Failed", "Ready"}, round: Nat, jurors: SUBSET Jurors]
NoJury == [status |-> "None", round |-> 0, jurors |-> {}]

-----------------------------------------------------------------------------
(* Shared rules *)

\* floor(amount * bps / BPS), without the overflow of the product
Portion(amount, bps) == (amount \div BPS) * bps + ((amount % BPS) * bps) \div BPS

Smaller(a, b) == IF a < b THEN a ELSE b

exposureCap(l, provider) ==
  Smaller(settings.baseExposureCap + Portion(l.clean[provider], settings.exposureGrowthBps), settings.maxExposureCap)

\* Mutant: the holdback period is not bounded by the ring.
ValidParams_longPeriod(p) ==
  /\ p.disputeWindow > 0 /\ p.arbitrationTimeout > 0 /\ p.consumerWithdrawalDelay > 0
  /\ p.relayBps < BPS /\ p.holdbackBps <= BPS /\ p.holdbackPeriod > 0

ValidParams(p) ==
  /\ p.disputeWindow > 0 /\ p.arbitrationTimeout > 0 /\ p.consumerWithdrawalDelay > 0
  /\ p.relayBps < BPS /\ p.holdbackBps <= BPS /\ p.exposureGrowthBps <= BPS
  /\ p.holdbackPeriod > 0 /\ p.holdbackPeriod < HOLDBACK_BUCKETS * DAY
  /\ p.baseExposureCap > 0 /\ p.maxExposureCap >= p.baseExposureCap
  /\ p.slashBps <= BPS /\ p.reporterBountyBps <= BPS

credit(l, account, amount) ==
  [l EXCEPT !.claimable[account] = @ + amount, !.totalClaimable = @ + amount]

takeExact(l, from, amount) == [l EXCEPT !.wallet[from] = @ - amount, !.token = @ + amount]
sendExact(l, to, amount)   == [l EXCEPT !.wallet[to] = @ + amount, !.token = @ - amount]

payHoldback(l, provider, amount) ==
  credit([l EXCEPT !.holdback[provider] = @ - amount, !.totalHoldback = @ - amount], provider, amount)

\* A slot of the ring still holding another day's money pays that money out first.
addHoldback(l, provider, amount) ==
  LET slot == Today % HOLDBACK_BUCKETS
      old  == l.buckets[provider][slot]
      kept == IF old.day = Today THEN old.amount ELSE 0
      paid == IF old.day = Today THEN l ELSE payHoldback(l, provider, old.amount)
  IN  [paid EXCEPT !.buckets[provider][slot] = [day |-> Today, amount |-> kept + amount],
                   !.holdback[provider] = @ + amount,
                   !.totalHoldback = @ + amount]

\* What the slots in S of a Provider's ring hold.
SlotSum(l, provider, S) == SumFunctionOnSet([i \in Slots |-> l.buckets[provider][i].amount], S)

matureSlots(l, provider) ==
  {i \in Slots : l.buckets[provider][i].day * DAY + settings.holdbackPeriod <= now}

matureHoldback(l, provider) ==
  LET ripe == matureSlots(l, provider)
  IN  payHoldback([l EXCEPT !.buckets[provider] =
                     [i \in Slots |-> LET item == l.buckets[provider][i] IN
                                    IF i \in ripe THEN [item EXCEPT !.amount = 0] ELSE item]],
                  provider, SlotSum(l, provider, ripe))

\* What a penalty finds: slots are emptied in index order until the amount is reached.
holdbackTaken(l, provider, amount) == Smaller(amount, SlotSum(l, provider, Slots))

takeHoldback(l, provider, amount) ==
  LET before(i) == SlotSum(l, provider, 0 .. i - 1)
      part(i)   == Smaller(l.buckets[provider][i].amount, amount - Smaller(amount, before(i)))
      taken     == holdbackTaken(l, provider, amount)
  IN  [l EXCEPT !.buckets[provider] = [i \in Slots |-> [l.buckets[provider][i] EXCEPT !.amount = @ - part(i)]],
                !.holdback[provider] = @ - taken,
                !.totalHoldback = @ - taken]

-----------------------------------------------------------------------------
(* Releasing and refunding escrowed fees *)

\* The fees of the receipts in S.
Fees(S) == SumFunctionOnSet([k \in SettlementKeys |-> settlements[k].fee], S)

treasuryCut(fee) == Portion(fee, TREASURY_BPS)
relayShare(fee)  == Portion(fee, settings.relayBps)
providerGross(fee) == fee - relayShare(fee) - treasuryCut(fee)

\* The loop body of _payReleases: one (Provider, Consumer, Relay) total.
payItem(l, provider, relay, fee) ==
  LET gross == providerGross(fee)
      held  == Portion(gross, settings.holdbackBps)
      base  == [l EXCEPT !.exposure[provider] = @ - fee, !.clean[provider] = @ + fee]
      paid  == credit(credit(base, relay, relayShare(fee)), provider, gross - held)
  IN  IF held > 0 THEN addHoldback(paid, provider, held) ELSE paid

\* The end of _payReleases.
payTotals(l, total, treasury) ==
  credit([l EXCEPT !.totalPendingFees = @ - total], settings.penaltyRecipient, treasury)

\* _release of a single record: a batch of one.
payRelease(l, record) ==
  payTotals(payItem(l, record.provider, record.relay, record.fee), record.fee, treasuryCut(record.fee))

refund(l, record) ==
  [l EXCEPT !.totalPendingFees = @ - record.fee, !.exposure[record.provider] = @ - record.fee,
            !.available[record.owner] = @ + record.fee, !.totalAvailable = @ + record.fee]

\* Mutant: a refund keeps the allowance spent.
refundBudget_kept(key, record) == keyBudgets

\* A refund gives a budgeted key its allowance back.
refundBudget(key, record) ==
  IF key \in Keys /\ keyBudgets[key].spent >= record.fee
    THEN [keyBudgets EXCEPT ![key].spent = @ - record.fee]
    ELSE keyBudgets

\* A call that reaches its end commits its ledger; one whose arithmetic underflowed has reverted.
Commit(l) == l \in Ledger /\ ledger' = l

\* nonReentrant: no other call runs while releaseBatch is in its loop.
NotEntered == ~batch.running
=============================================================================
