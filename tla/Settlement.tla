----------------------------- MODULE Settlement -----------------------------
(***************************************************************************)
(* MycoSettlementV11: Consumer funds and keys, signer bindings, settlement *)
(* of signed receipts, release, probes, and the inference oracle's         *)
(* reservations.  Disputes are in SettlementDisputes, which shares the     *)
(* storage; SettlementProxy puts the two halves together.                  *)
(***************************************************************************)
EXTENDS SettlementBase

CONSTANTS
  \* The calls that are made: bounds on the inputs, not on what the contract accepts.
  DepositAmounts, WithdrawalAmounts,
  Grants,             \* registerKey calls: [owner, key, maxPerRequest, validUntil]
  BudgetLimits,       \* setKeyBudget limits
  KeyRevocations,     \* keys their owners revoke
  ProviderBindings,   \* authorizeProviderSigner calls: <<owner, signer>>
  RelayBindings,      \* authorizeRelaySigner calls
  SignerRevocations,  \* signers their owners revoke
  Prices,             \* what priceAndRecord answers
  MaxFees,            \* the fee caps payers sign
  IssueAges,          \* how long before its settlement a receipt was authorised
  Claimants,          \* accounts that call claim
  Commitments,        \* commitProbes calls: [hunter, keys]
  ProbeFeeCaps,       \* setProbeMaxFee calls
  OracleAmounts,      \* amounts the oracle reserves and gives back
  OracleDisputers     \* the disputer an on-chain request names

ASSUME InputAssumption ==
  /\ Grants \subseteq [owner: Consumers, key: Keys, maxPerRequest: Nat, validUntil: Nat]
  /\ ProviderBindings \subseteq Providers \X Signers
  /\ RelayBindings \subseteq Relays \X Signers
  /\ Commitments \subseteq [hunter: Hunters, keys: SUBSET (Keys \cup Oracles)]
  /\ KeyRevocations \subseteq Keys /\ SignerRevocations \subseteq Signers /\ Claimants \subseteq Accounts
  /\ OracleDisputers \subseteq Accounts \cup {NoOne}
  /\ DepositAmounts \cup WithdrawalAmounts \cup BudgetLimits \cup Prices \cup MaxFees \cup IssueAges
       \cup ProbeFeeCaps \cup OracleAmounts \subseteq Nat

-----------------------------------------------------------------------------
(* Admin *)

setParams(p) ==
  /\ NotEntered
  /\ ValidParams(p)
  /\ settings' = p
  /\ UNCHANGED <<now, ledger, batch, grantVars, signerVars, settlements, probeVars, caseVars, oracleVars>>

setProbeMaxFee(value) ==
  /\ NotEntered
  /\ probeMaxFee' = value
  /\ UNCHANGED <<now, settings, ledger, batch, grantVars, signerVars, settlements, caseVars, oracleVars,
                 probeCommitments, providerProbeVoids, hunterProbeVoids, probeVoids>>

setOracle(address) ==
  /\ NotEntered
  /\ oracle' = address
  /\ UNCHANGED <<now, settings, ledger, batch, grantVars, signerVars, settlements, probeVars, caseVars,
                 oracleDisputer>>

-----------------------------------------------------------------------------
(* Consumer funds and payment keys *)

OnlyLedger == UNCHANGED <<now, settings, batch, grantVars, signerVars, settlements, probeVars, caseVars, oracleVars>>

deposit(o, amount) ==
  /\ NotEntered
  /\ amount > 0 /\ ledger.wallet[o] >= amount
  /\ Commit([takeExact(ledger, o, amount) EXCEPT !.available[o] = @ + amount, !.totalAvailable = @ + amount])
  /\ OnlyLedger

claim(account) ==
  LET amount == ledger.claimable[account] IN
  /\ NotEntered
  /\ amount > 0 /\ ledger.token >= amount
  /\ Commit(sendExact([ledger EXCEPT !.claimable[account] = 0, !.totalClaimable = @ - amount], account, amount))
  /\ OnlyLedger

OnlyGrants == UNCHANGED <<now, settings, ledger, batch, signerVars, settlements, probeVars, caseVars, oracleVars>>

registerKey(g) ==
  /\ NotEntered
  /\ g.maxPerRequest > 0
  /\ g.validUntil = 0 \/ g.validUntil > now
  /\ keyGrants[g.key].owner \in {NoOne, g.owner}
  /\ keyGrants' = [keyGrants EXCEPT ![g.key] =
       [owner |-> g.owner, maxPerRequest |-> g.maxPerRequest, validUntil |-> g.validUntil, active |-> TRUE]]
  /\ UNCHANGED <<keyBudgets, withdrawals>> /\ OnlyGrants

setKeyBudget(o, key, limit) ==
  /\ NotEntered
  /\ keyGrants[key].owner = o
  /\ keyBudgets' = [keyBudgets EXCEPT ![key].limit = limit]
  /\ UNCHANGED <<keyGrants, withdrawals>> /\ OnlyGrants

revokeKey(o, key) ==
  /\ NotEntered
  /\ keyGrants[key].owner = o /\ keyGrants[key].active
  /\ keyGrants' = [keyGrants EXCEPT ![key].active = FALSE]
  /\ UNCHANGED <<keyBudgets, withdrawals>> /\ OnlyGrants

\* A second request replaces the first, delay included.
requestWithdrawal(o, amount) ==
  /\ NotEntered
  /\ amount > 0 /\ amount <= ledger.available[o]
  /\ withdrawals' = [withdrawals EXCEPT ![o] =
       [amount |-> amount, availableAt |-> now + settings.consumerWithdrawalDelay]]
  /\ UNCHANGED <<keyGrants, keyBudgets>> /\ OnlyGrants

cancelWithdrawal(o) ==
  /\ NotEntered
  /\ withdrawals[o].amount > 0
  /\ withdrawals' = [withdrawals EXCEPT ![o] = [amount |-> 0, availableAt |-> 0]]
  /\ UNCHANGED <<keyGrants, keyBudgets>> /\ OnlyGrants

withdraw(o) ==
  LET amount == withdrawals[o].amount IN
  /\ NotEntered
  /\ amount > 0 /\ now >= withdrawals[o].availableAt
  /\ ledger.available[o] >= amount
  /\ withdrawals' = [withdrawals EXCEPT ![o] = [amount |-> 0, availableAt |-> 0]]
  /\ Commit(sendExact([ledger EXCEPT !.available[o] = @ - amount, !.totalAvailable = @ - amount], o, amount))
  /\ UNCHANGED <<now, settings, batch, keyGrants, keyBudgets, signerVars, settlements, probeVars, caseVars, oracleVars>>

-----------------------------------------------------------------------------
(* Provider and Relay signers *)

OnlySigners == UNCHANGED <<now, settings, ledger, batch, grantVars, settlements, probeVars, caseVars, oracleVars>>

Unbound(signer) == providerSignerOwner[signer] = NoOne /\ relaySignerOwner[signer] = NoOne

authorizeProviderSigner(p, signer) ==
  /\ NotEntered
  /\ Unbound(signer)
  /\ providerSignerOwner' = [providerSignerOwner EXCEPT ![signer] = p]
  /\ UNCHANGED relaySignerOwner /\ OnlySigners

revokeProviderSigner(p, signer) ==
  /\ NotEntered
  /\ providerSignerOwner[signer] = p
  /\ providerSignerOwner' = [providerSignerOwner EXCEPT ![signer] = NoOne]
  /\ UNCHANGED relaySignerOwner /\ OnlySigners

authorizeRelaySigner(r, signer) ==
  /\ NotEntered
  /\ Unbound(signer)
  /\ relaySignerOwner' = [relaySignerOwner EXCEPT ![signer] = r]
  /\ UNCHANGED providerSignerOwner /\ OnlySigners

revokeRelaySigner(r, signer) ==
  /\ NotEntered
  /\ relaySignerOwner[signer] = r
  /\ relaySignerOwner' = [relaySignerOwner EXCEPT ![signer] = NoOne]
  /\ UNCHANGED providerSignerOwner /\ OnlySigners

-----------------------------------------------------------------------------
(* Settlement *)

\* What a receipt says: its authorization's id, signers, cap and times, and the price of its tokens.
Authorizations == [id: RequestIds, providerSigner: {b[2] : b \in ProviderBindings},
                   relaySigner: {b[2] : b \in RelayBindings}, maxFee: MaxFees, price: Prices,
                   issuedAt: {now - age : age \in {n \in IssueAges : n <= now}}]

actualFee(a) == Smaller(a.price, a.maxFee)

\* Some deadline the key signed is still ahead, within MAX_AUTHORIZATION_TTL of issuedAt and the grant's term.
InWindow(a, validUntil) ==
  /\ a.issuedAt <= now
  /\ \E deadline \in a.issuedAt + 1 .. a.issuedAt + MAX_AUTHORIZATION_TTL :
       deadline >= now /\ (validUntil = 0 \/ validUntil >= deadline)

\* Mutant: an unbound Relay signer is accepted.
escrow_unboundRelay(l, owner, key, a) ==
  LET k == <<key, a.id>>
      fee == actualFee(a)
      provider == providerSignerOwner[a.providerSigner]
  IN
  /\ provider # NoOne /\ fee > 0 /\ settlements[k].status = "None"
  /\ l.exposure[provider] + fee <= exposureCap(l, provider)
  /\ settlements' = [settlements EXCEPT ![k] =
       [owner |-> owner, provider |-> provider, relay |-> relaySignerOwner[a.relaySigner],
        providerSigner |-> a.providerSigner, relaySigner |-> a.relaySigner, fee |-> fee, issuedAt |-> a.issuedAt,
        releaseAt |-> now + settings.disputeWindow, status |-> "Pending"]]
  /\ Commit([l EXCEPT !.totalPendingFees = @ + fee, !.exposure[provider] = @ + fee])

\* _escrow, from a ledger the payer's fee has already been taken from.
escrow(l, owner, key, a) ==
  LET k == <<key, a.id>>
      fee == actualFee(a)
      provider == providerSignerOwner[a.providerSigner]
      relay == relaySignerOwner[a.relaySigner]
  IN
  /\ provider # NoOne /\ relay # NoOne
  /\ fee > 0
  /\ settlements[k].status = "None"
  /\ l.exposure[provider] + fee <= exposureCap(l, provider)
  /\ settlements' = [settlements EXCEPT ![k] =
       [owner |-> owner, provider |-> provider, relay |-> relay, providerSigner |-> a.providerSigner,
        relaySigner |-> a.relaySigner, fee |-> fee, issuedAt |-> a.issuedAt,
        releaseAt |-> now + settings.disputeWindow, status |-> "Pending"]]
  /\ Commit([l EXCEPT !.totalPendingFees = @ + fee, !.exposure[provider] = @ + fee])

\* One receipt of settleBatch.  A batch is such steps in a row, and none of them when one reverts.
settle(key, a) ==
  LET grant == keyGrants[key]
      fee == actualFee(a)
      tracked == keyBudgets[key].limit # 0
  IN
  /\ NotEntered
  /\ grant.owner # NoOne /\ grant.active /\ a.maxFee <= grant.maxPerRequest
  /\ InWindow(a, grant.validUntil)
  /\ tracked => keyBudgets[key].spent + fee <= keyBudgets[key].limit
  /\ keyBudgets' = IF tracked THEN [keyBudgets EXCEPT ![key].spent = @ + fee] ELSE keyBudgets
  /\ ledger.available[grant.owner] >= fee
  /\ escrow([ledger EXCEPT !.available[grant.owner] = @ - fee, !.totalAvailable = @ - fee], grant.owner, key, a)
  /\ UNCHANGED <<now, settings, batch, keyGrants, withdrawals, signerVars, probeVars, caseVars, oracleVars>>

\* Mutant: a disputed receipt is released when its window closes.
Due_disputed(k) == settlements[k].status \in OpenStatuses /\ now >= settlements[k].releaseAt

Due(k) == settlements[k].status = "Pending" /\ now >= settlements[k].releaseAt

release(k) ==
  /\ NotEntered
  /\ Due(k)
  /\ providerGross(settlements[k].fee) >= 0
  /\ settlements' = [settlements EXCEPT ![k].status = "Released"]
  /\ Commit(payRelease(ledger, settlements[k]))
  /\ UNCHANGED <<now, settings, batch, grantVars, signerVars, probeVars, caseVars, oracleVars>>

-----------------------------------------------------------------------------
(* releaseBatch, a step per turn of its two loops.  Keys that are not due, *)
(* and repeated keys, are skipped, so a call is its set of due keys.       *)

totalOf(keys, t) ==
  Fees({k \in keys : t = <<settlements[k].provider, settlements[k].owner, settlements[k].relay>>})

releaseBatch(keys) ==
  /\ NotEntered
  /\ keys # {} /\ Cardinality(keys) <= MAX_RELEASE_BATCH
  /\ \A k \in keys : Due(k)
  /\ \A t \in Totals : providerGross(totalOf(keys, t)) >= 0
  /\ batch' = [Idle EXCEPT !.running = TRUE, !.keys = keys]
  /\ UNCHANGED <<now, settings, ledger, grantVars, signerVars, settlements, probeVars, caseVars, oracleVars>>

\* Mutant: a second receipt of the same Provider, Consumer and Relay replaces the first one's fee.
markReleased_replaces(k) ==
  LET r == settlements[k] IN
  /\ k \in batch.keys
  /\ settlements' = [settlements EXCEPT ![k].status = "Released"]
  /\ batch' = [batch EXCEPT !.keys = @ \ {k}, !.items[<<r.provider, r.owner, r.relay>>] = r.fee]
  /\ UNCHANGED <<now, settings, ledger, grantVars, signerVars, probeVars, caseVars, oracleVars>>

markReleased(k) ==
  LET r == settlements[k] IN
  /\ k \in batch.keys
  /\ settlements' = [settlements EXCEPT ![k].status = "Released"]
  /\ batch' = [batch EXCEPT !.keys = @ \ {k}, !.items[<<r.provider, r.owner, r.relay>>] = @ + r.fee]
  /\ UNCHANGED <<now, settings, ledger, grantVars, signerVars, probeVars, caseVars, oracleVars>>

payReleasedItem(t) ==
  LET fee == batch.items[t] IN
  /\ batch.running /\ batch.keys = {} /\ fee > 0
  /\ providerGross(fee) >= 0
  /\ Commit(payItem(ledger, t[1], t[3], fee))
  /\ batch' = [batch EXCEPT !.items[t] = 0, !.total = @ + fee, !.treasury = @ + treasuryCut(fee)]
  /\ UNCHANGED <<now, settings, grantVars, signerVars, settlements, probeVars, caseVars, oracleVars>>

finishBatch ==
  /\ batch.running /\ batch.keys = {} /\ batch.items = NoTotals
  /\ Commit(payTotals(ledger, batch.total, batch.treasury))
  /\ batch' = Idle
  /\ UNCHANGED <<now, settings, grantVars, signerVars, settlements, probeVars, caseVars, oracleVars>>

releaseHoldback(p) ==
  /\ NotEntered
  /\ SlotSum(ledger, p, matureSlots(ledger, p)) \in Nat
  /\ Commit(matureHoldback(ledger, p))
  /\ OnlyLedger

-----------------------------------------------------------------------------
(* Probes *)

commitProbes(c) ==
  /\ NotEntered
  /\ probeCommitments[c] = 0
  /\ probeCommitments' = [probeCommitments EXCEPT ![c] = now]
  /\ UNCHANGED <<now, settings, ledger, batch, grantVars, signerVars, settlements, caseVars, oracleVars,
                 providerProbeVoids, hunterProbeVoids, probeVoids, probeMaxFee>>

\* The request's owner shows that the payment key was committed for hunter before the request was signed.
voidProbe(k, c) ==
  LET r == settlements[k]
      h == c.hunter
      p == r.provider
  IN
  /\ NotEntered
  /\ r.status = "Pending" /\ now < r.releaseAt
  /\ r.fee <= probeMaxFee
  /\ probeCommitments[c] # 0 /\ probeCommitments[c] < r.issuedAt
  /\ k[1] \in c.keys
  /\ providerProbeVoids[<<p, Today>>] < settings.probeVoidsPerDay
  /\ providerProbeVoids' = [providerProbeVoids EXCEPT ![<<p, Today>>] = @ + 1]
  /\ hunterProbeVoids' = [hunterProbeVoids EXCEPT ![<<h, p, Today>>] = @ + 1]
  /\ probeVoids' = [probeVoids EXCEPT ![k] = [hunter |-> h, day |-> Today, inCase |-> FALSE]]
  /\ settlements' = [settlements EXCEPT ![k].status = "Voided"]
  /\ Commit(refund(ledger, r))
  /\ keyBudgets' = refundBudget(k[1], r)
  /\ UNCHANGED <<now, settings, batch, keyGrants, withdrawals, signerVars, caseVars, oracleVars,
                 probeCommitments, probeMaxFee>>

-----------------------------------------------------------------------------
(* On-chain inference: calls only the bound oracle contract makes *)

reserveForOracle(o, amount) ==
  /\ NotEntered
  /\ oracle # NoOne
  /\ ledger.available[o] >= amount
  /\ Commit([ledger EXCEPT !.available[o] = @ - amount, !.reserved[o] = @ + amount])
  /\ OnlyLedger

\* Mutant: the amount given back stays reserved.
releaseOracleReserve_kept(o, amount) ==
  /\ NotEntered
  /\ oracle # NoOne /\ ledger.reserved[o] >= amount
  /\ Commit([ledger EXCEPT !.available[o] = @ + amount])
  /\ OnlyLedger

releaseOracleReserve(o, amount) ==
  /\ NotEntered
  /\ oracle # NoOne
  /\ Commit([ledger EXCEPT !.reserved[o] = @ - amount, !.available[o] = @ + amount])
  /\ OnlyLedger

settleOracle(o, disputer, a) ==
  LET fee == actualFee(a) IN
  /\ NotEntered
  /\ oracle # NoOne
  /\ InWindow(a, 0)
  /\ ledger.reserved[o] >= fee
  /\ escrow([ledger EXCEPT !.reserved[o] = @ - fee, !.totalAvailable = @ - fee], o, oracle, a)
  /\ oracleDisputer' = [oracleDisputer EXCEPT ![<<oracle, a.id>>] = disputer]
  /\ UNCHANGED <<now, settings, batch, grantVars, signerVars, probeVars, caseVars, oracle>>

-----------------------------------------------------------------------------
\* Calls about money, keys, signers and parameters.
NextFunds ==
  \/ \E p \in ParamChoices : setParams(p)
  \/ \E value \in ProbeFeeCaps : setProbeMaxFee(value)
  \/ \E address \in Oracles : setOracle(address)
  \/ \E o \in Consumers :
       \/ \E amount \in DepositAmounts : deposit(o, amount)
       \/ \E amount \in WithdrawalAmounts : requestWithdrawal(o, amount)
       \/ cancelWithdrawal(o)
       \/ withdraw(o)
       \/ \E key \in Keys, limit \in BudgetLimits : setKeyBudget(o, key, limit)
       \/ \E key \in KeyRevocations : revokeKey(o, key)
       \/ \E amount \in OracleAmounts : reserveForOracle(o, amount) \/ releaseOracleReserve(o, amount)
  \/ \E account \in Claimants : claim(account)
  \/ \E g \in Grants : registerKey(g)
  \/ \E b \in ProviderBindings : authorizeProviderSigner(b[1], b[2])
  \/ \E b \in RelayBindings : authorizeRelaySigner(b[1], b[2])
  \/ \E signer \in SignerRevocations :
       \/ \E p \in Providers : revokeProviderSigner(p, signer)
       \/ \E r \in Relays : revokeRelaySigner(r, signer)
  \/ \E p \in Providers : releaseHoldback(p)
  \/ \E c \in Commitments : commitProbes(c)

\* Calls about receipts.
NextReceipts ==
  \/ \E key \in Keys, a \in Authorizations : settle(key, a)
  \/ \E o \in Consumers, disputer \in OracleDisputers, a \in Authorizations : settleOracle(o, disputer, a)
  \/ \E k \in SettlementKeys : release(k) \/ markReleased(k)
  \/ \E keys \in SUBSET {k \in SettlementKeys : Due(k)} : releaseBatch(keys)
  \/ \E t \in Totals : payReleasedItem(t)
  \/ finishBatch
  \/ \E c \in Commitments, k \in SettlementKeys : voidProbe(k, c)
=============================================================================
