-------------------------- MODULE SettlementProofs --------------------------
(***************************************************************************)
(* Theorems about the settlement for every number of accounts, requests,   *)
(* amounts and parameters; and, at the end, what each call does to its     *)
(* books of money: the sums the totals stand for, the shares of a fee, and *)
(* the invariant that every account's amounts add up to the totals.        *)
(***************************************************************************)
EXTENDS SettlementHistory, Sequences, SumTheorems

Fields == {"token", "wallet", "available", "reserved", "claimable", "exposure", "clean", "buckets", "holdback",
           "totalAvailable", "totalClaimable", "totalPendingFees", "totalHoldback", "totalReporterBonds"}

\* A ledger in the middle of a call: its totals are integers, not yet known to be naturals.
Books(l) == /\ DOMAIN l = Fields
            /\ l.token \in Int /\ l.totalAvailable \in Int /\ l.totalClaimable \in Int
            /\ l.totalPendingFees \in Int /\ l.totalHoldback \in Int /\ l.totalReporterBonds \in Int

Surplus(l) == l.token - Liabilities(l)

-----------------------------------------------------------------------------
\* A committed ledger is a ledger.
LEMMA LedgerBooks == ASSUME NEW l \in Ledger PROVE Books(l)
BY DEF Ledger, Books, Fields

LEMMA SurplusInt == ASSUME NEW l, Books(l) PROVE Surplus(l) \in Int
BY DEF Books, Surplus, Liabilities

\* A portion of a natural amount is one.
LEMMA PortionNat == ASSUME NEW amount \in Nat, NEW bps \in Nat PROVE Portion(amount, bps) \in Nat
<1>1. amount \div BPS \in Nat /\ amount % BPS \in Nat
  BY DEF BPS
<1>2. (amount \div BPS) * bps \in Nat /\ (amount % BPS) * bps \in Nat
  BY <1>1
<1>3. ((amount % BPS) * bps) \div BPS \in Nat
  BY <1>2 DEF BPS
<1>4. QED
  BY <1>2, <1>3 DEF Portion

\* Crediting an account uses up that much surplus.
LEMMA CreditSurplus ==
  ASSUME NEW l, NEW account, NEW amount \in Int, Books(l)
  PROVE  Books(credit(l, account, amount)) /\ Surplus(credit(l, account, amount)) = Surplus(l) - amount
BY DEF Books, Fields, Surplus, Liabilities, credit

\* Matured holdback changes hands, not the surplus.
LEMMA PayHoldbackSurplus ==
  ASSUME NEW l, NEW p, NEW amount \in Int, Books(l)
  PROVE  Books(payHoldback(l, p, amount)) /\ Surplus(payHoldback(l, p, amount)) = Surplus(l)
<1> DEFINE m == [l EXCEPT !.holdback[p] = @ - amount, !.totalHoldback = @ - amount]
<1>1. Books(m) /\ Surplus(m) = Surplus(l) + amount
  BY DEF Books, Fields, Surplus, Liabilities
<1>2. Books(credit(m, p, amount)) /\ Surplus(credit(m, p, amount)) = Surplus(m) - amount
  BY <1>1, CreditSurplus
<1>3. QED
  BY <1>1, <1>2, SurplusInt DEF payHoldback

\* Held-back money uses up surplus, whether or not the slot of the ring is reused.
LEMMA AddHoldbackSurplus ==
  ASSUME NEW l, NEW p, NEW amount \in Int, Books(l),
         l.buckets[p][Today % HOLDBACK_BUCKETS].amount \in Int
  PROVE  /\ Books(addHoldback(l, p, amount))
         /\ Surplus(addHoldback(l, p, amount)) = Surplus(l) - amount
<1> DEFINE old == l.buckets[p][Today % HOLDBACK_BUCKETS]
           paid == IF old.day = Today THEN l ELSE payHoldback(l, p, old.amount)
<1>1. Books(paid) /\ Surplus(paid) = Surplus(l)
  BY PayHoldbackSurplus
<1> HIDE DEF paid
<1>2. ASSUME NEW slot, NEW kept
      PROVE  LET m == [paid EXCEPT !.buckets[p][slot] = [day |-> Today, amount |-> kept],
                                   !.holdback[p] = @ + amount,
                                   !.totalHoldback = @ + amount]
             IN  Books(m) /\ Surplus(m) = Surplus(paid) - amount
  BY <1>1 DEF Books, Fields, Surplus, Liabilities
<1>3. QED
  BY <1>1, <1>2 DEF addHoldback, paid

\* The ring gives up exactly what the holdback totals lose.
LEMMA TakeHoldbackSurplus ==
  ASSUME NEW l, NEW p, NEW amount, Books(l), holdbackTaken(l, p, amount) \in Int
  PROVE  /\ Books(takeHoldback(l, p, amount))
         /\ Surplus(takeHoldback(l, p, amount)) = Surplus(l) + holdbackTaken(l, p, amount)
<1>1. ASSUME NEW new, NEW taken \in Int
      PROVE  LET m == [l EXCEPT !.buckets[p] = new, !.holdback[p] = @ - taken, !.totalHoldback = @ - taken]
             IN  Books(m) /\ Surplus(m) = Surplus(l) + taken
  BY DEF Books, Fields, Surplus, Liabilities
<1>2. QED
  BY <1>1 DEF takeHoldback

-----------------------------------------------------------------------------
(* Paying out and refunding *)

\* Every slot of every ring holds an integer amount.
Slotted(l) == \A p \in Providers, i \in Slots : l.buckets[p][i].amount \in Int

LEMMA TodaySlot == ASSUME now \in Nat PROVE Today % HOLDBACK_BUCKETS \in Slots
<1>1. Today \in Nat
  BY BaseAssumption DEF Today
<1>2. QED
  BY <1>1, BaseAssumption DEF Slots

LEMMA LedgerSlotted == ASSUME NEW l \in Ledger PROVE Slotted(l)
BY DEF Ledger, Slotted

\* The shares of a fee are natural when the parameters leave the Provider something.
LEMMA SharesNat ==
  ASSUME settings \in Params, NEW fee \in Nat
  PROVE  relayShare(fee) \in Nat /\ treasuryCut(fee) \in Nat /\ providerGross(fee) \in Int
<1>1. settings.relayBps \in Nat /\ TREASURY_BPS \in Nat
  BY DEF Params, TREASURY_BPS
<1>2. Portion(fee, settings.relayBps) \in Nat /\ Portion(fee, TREASURY_BPS) \in Nat
  BY <1>1, PortionNat
<1>3. relayShare(fee) \in Nat /\ treasuryCut(fee) \in Nat
  BY <1>2 DEF relayShare, treasuryCut
<1>4. QED
  BY <1>3 DEF providerGross

\* One total of a release uses up its fee but the treasury's cut.
LEMMA PayItemSurplus ==
  ASSUME settings \in Params, now \in Nat, NEW l, NEW p \in Providers, NEW r, NEW fee \in Nat,
         Books(l), Slotted(l), providerGross(fee) >= 0
  PROVE  /\ Books(payItem(l, p, r, fee))
         /\ Surplus(payItem(l, p, r, fee)) = Surplus(l) - (fee - treasuryCut(fee))
<1> DEFINE gross == providerGross(fee)
           held  == Portion(gross, settings.holdbackBps)
           base  == [l EXCEPT !.exposure[p] = @ - fee, !.clean[p] = @ + fee]
           first == credit(base, r, relayShare(fee))
           paid  == credit(first, p, gross - held)
<1>1. gross \in Nat /\ relayShare(fee) \in Nat /\ treasuryCut(fee) \in Nat
      /\ gross = fee - relayShare(fee) - treasuryCut(fee)
  BY SharesNat DEF providerGross
<1>2. held \in Nat
  BY <1>1, PortionNat DEF Params
<1>3. Books(base) /\ Surplus(base) = Surplus(l) /\ base.buckets = l.buckets
  BY DEF Books, Fields, Surplus, Liabilities
<1> HIDE DEF base, held, gross
<1>4. Books(first) /\ Surplus(first) = Surplus(base) - relayShare(fee)
  BY <1>1, <1>3, CreditSurplus
<1>5. first.buckets = l.buckets
  BY <1>3 DEF credit, Books, Fields
<1> HIDE DEF first
<1>6. Books(paid) /\ Surplus(paid) = Surplus(first) - (gross - held)
  BY <1>1, <1>2, <1>4, CreditSurplus
<1>7. paid.buckets = l.buckets
  BY <1>4, <1>5 DEF credit, Books, Fields
<1> HIDE DEF paid
<1>8. paid.buckets[p][Today % HOLDBACK_BUCKETS].amount \in Int
  BY <1>7, TodaySlot DEF Slotted
<1>9. Surplus(paid) = Surplus(l) - relayShare(fee) - (gross - held) /\ Surplus(l) \in Int /\ Surplus(paid) \in Int
  BY <1>1, <1>2, <1>3, <1>4, <1>6, SurplusInt
<1>10. CASE held > 0
  <2>1. payItem(l, p, r, fee) = addHoldback(paid, p, held)
    BY <1>10 DEF payItem, paid, first, base, held, gross
  <2>2. QED
    BY <2>1, <1>1, <1>2, <1>6, <1>8, <1>9, AddHoldbackSurplus
<1>11. CASE ~(held > 0)
  <2>1. payItem(l, p, r, fee) = paid
    BY <1>11 DEF payItem, paid, first, base, held, gross
  <2>2. QED
    BY <2>1, <1>11, <1>1, <1>2, <1>6, <1>9
<1>12. QED
  BY <1>10, <1>11

\* Closing a release frees its fees and credits the treasury.
LEMMA PayTotalsSurplus ==
  ASSUME NEW l, NEW total \in Int, NEW treasury \in Int, Books(l)
  PROVE  /\ Books(payTotals(l, total, treasury))
         /\ Surplus(payTotals(l, total, treasury)) = Surplus(l) + total - treasury
<1> DEFINE m == [l EXCEPT !.totalPendingFees = @ - total]
<1>1. Books(m) /\ Surplus(m) = Surplus(l) + total
  BY DEF Books, Fields, Surplus, Liabilities
<1>2. Books(credit(m, settings.penaltyRecipient, treasury))
      /\ Surplus(credit(m, settings.penaltyRecipient, treasury)) = Surplus(m) - treasury
  BY <1>1, CreditSurplus
<1>3. QED
  BY <1>1, <1>2, SurplusInt DEF payTotals

\* A release of one receipt pays out exactly its fee.
LEMMA PayReleaseSurplus ==
  ASSUME settings \in Params, now \in Nat, NEW l, NEW record, Books(l), Slotted(l),
         record.provider \in Providers, record.fee \in Nat, providerGross(record.fee) >= 0
  PROVE  Books(payRelease(l, record)) /\ Surplus(payRelease(l, record)) = Surplus(l)
<1> DEFINE m == payItem(l, record.provider, record.relay, record.fee)
<1>1. Books(m) /\ Surplus(m) = Surplus(l) - (record.fee - treasuryCut(record.fee))
  BY PayItemSurplus
<1>2. treasuryCut(record.fee) \in Nat
  BY SharesNat
<1> HIDE DEF m
<1>3. Books(payTotals(m, record.fee, treasuryCut(record.fee)))
      /\ Surplus(payTotals(m, record.fee, treasuryCut(record.fee))) = Surplus(m) + record.fee - treasuryCut(record.fee)
  BY <1>1, <1>2, PayTotalsSurplus
<1>4. QED
  BY <1>1, <1>2, <1>3, SurplusInt DEF payRelease, m

\* A refund moves a fee from escrow back to its owner's deposit.
LEMMA RefundSurplus ==
  ASSUME NEW l, NEW record, Books(l), record.fee \in Int
  PROVE  Books(refund(l, record)) /\ Surplus(refund(l, record)) = Surplus(l)
BY DEF Books, Fields, Surplus, Liabilities, refund

\* A forfeited holdback is credited in full: the bounty to the reporter, the rest to the treasury.
LEMMA PayPenaltySurplus ==
  ASSUME NEW l, NEW p, NEW taken \in Int, NEW bounty \in Int, NEW reporter, Books(l)
  PROVE  /\ Books(payPenalty(l, p, taken, bounty, reporter))
         /\ Surplus(payPenalty(l, p, taken, bounty, reporter)) = Surplus(l) - taken
<1> DEFINE base  == [l EXCEPT !.clean[p] = 0]
           first == credit(base, reporter, bounty)
<1>1. Books(base) /\ Surplus(base) = Surplus(l)
  BY DEF Books, Fields, Surplus, Liabilities
<1>2. Books(first) /\ Surplus(first) = Surplus(base) - bounty
  BY <1>1, CreditSurplus
<1> HIDE DEF first
<1>3. /\ Books(credit(first, settings.penaltyRecipient, taken - bounty))
      /\ Surplus(credit(first, settings.penaltyRecipient, taken - bounty)) = Surplus(first) - (taken - bounty)
  BY <1>2, CreditSurplus
<1>4. QED
  BY <1>1, <1>2, <1>3, SurplusInt DEF payPenalty, first

-----------------------------------------------------------------------------
(* Type correctness *)

LEMMA TypeInit == Init => TypeOK
BY BaseAssumption, InputAssumption
DEF Init, TypeOK, Ledger, Idle, NoTotals, NoSettlement, Settlement, Statuses, NoDispute, Dispute, NoProbeVoid,
    ProbeVoid, NoJury, KeyGrant, Batch, Assignment, PartiesKnown, BatchKnown,
    ValidParams, Params, BPS

LEMMA RevokedGrant == ASSUME NEW g \in KeyGrant PROVE [g EXCEPT !.active = FALSE] \in KeyGrant
BY DEF KeyGrant

\* Between calls that need no receipt, every variable keeps its type.
LEMMA TypeFunds ==
  ASSUME TypeOK, NextFunds PROVE TypeOK'
<1> USE DEF TypeOK, PartiesKnown, BatchKnown, NotEntered, grantVars, signerVars, probeVars, caseVars, oracleVars
<1>1. ASSUME NEW p \in ParamChoices, setParams(p)
      PROVE  TypeOK'
  BY <1>1, BaseAssumption DEF setParams, Params
<1>2. ASSUME NEW v \in ProbeFeeCaps, setProbeMaxFee(v)
      PROVE  TypeOK'
  BY <1>2, InputAssumption DEF setProbeMaxFee
<1>3. ASSUME NEW o \in Oracles, setOracle(o)
      PROVE  TypeOK'
  BY <1>3 DEF setOracle
<1>4. ASSUME NEW o \in Consumers, NEW n \in DepositAmounts, deposit(o, n)
      PROVE  TypeOK'
  BY <1>4 DEF deposit, OnlyLedger, Commit
<1>5. ASSUME NEW o \in Consumers, NEW n \in WithdrawalAmounts, requestWithdrawal(o, n)
      PROVE  TypeOK'
  BY <1>5, InputAssumption DEF requestWithdrawal, OnlyGrants, Params
<1>6. ASSUME NEW o \in Consumers, cancelWithdrawal(o)
      PROVE  TypeOK'
  BY <1>6 DEF cancelWithdrawal, OnlyGrants
<1>7. ASSUME NEW o \in Consumers, withdraw(o)
      PROVE  TypeOK'
  BY <1>7 DEF withdraw, Commit
<1>8. ASSUME NEW o \in Consumers, NEW key \in Keys, NEW n \in BudgetLimits, setKeyBudget(o, key, n)
      PROVE  TypeOK'
  <2>1. n \in Nat
    BY InputAssumption
  <2>2. keyBudgets' \in [Keys -> [limit: Nat, spent: Nat]]
    BY <1>8, <2>1 DEF setKeyBudget, OnlyGrants
  <2>3. QED
    BY <1>8, <2>2 DEF setKeyBudget, OnlyGrants
<1>9. ASSUME NEW o \in Consumers, NEW key \in KeyRevocations, revokeKey(o, key)
      PROVE  TypeOK'
  <2>1. key \in Keys
    BY InputAssumption
  <2>2. [keyGrants[key] EXCEPT !.active = FALSE] \in KeyGrant
    BY <2>1, RevokedGrant
  <2>3. QED
    BY <1>9, <2>1, <2>2 DEF revokeKey, OnlyGrants
<1>10. ASSUME NEW o \in Consumers, NEW n \in OracleAmounts, reserveForOracle(o, n) \/ releaseOracleReserve(o, n)
      PROVE  TypeOK'
  BY <1>10 DEF reserveForOracle, releaseOracleReserve, OnlyLedger, Commit
<1>11. ASSUME NEW a \in Claimants, claim(a)
      PROVE  TypeOK'
  BY <1>11 DEF claim, OnlyLedger, Commit
<1>12. ASSUME NEW g \in Grants, registerKey(g)
      PROVE  TypeOK'
  BY <1>12, InputAssumption DEF registerKey, OnlyGrants, KeyGrant
<1>13. ASSUME NEW b \in ProviderBindings, authorizeProviderSigner(b[1], b[2])
      PROVE  TypeOK'
  BY <1>13, InputAssumption DEF authorizeProviderSigner, OnlySigners
<1>14. ASSUME NEW b \in RelayBindings, authorizeRelaySigner(b[1], b[2])
      PROVE  TypeOK'
  BY <1>14, InputAssumption DEF authorizeRelaySigner, OnlySigners
<1>15. ASSUME NEW signer \in SignerRevocations, NEW p \in Providers, revokeProviderSigner(p, signer)
      PROVE  TypeOK'
  BY <1>15, InputAssumption DEF revokeProviderSigner, OnlySigners
<1>16. ASSUME NEW signer \in SignerRevocations, NEW r \in Relays, revokeRelaySigner(r, signer)
      PROVE  TypeOK'
  BY <1>16, InputAssumption DEF revokeRelaySigner, OnlySigners
<1>17. ASSUME NEW p \in Providers, releaseHoldback(p)
      PROVE  TypeOK'
  BY <1>17 DEF releaseHoldback, OnlyLedger, Commit
<1>18. ASSUME NEW c \in Commitments, commitProbes(c)
      PROVE  TypeOK'
  BY <1>18 DEF commitProbes
<1>19. QED
  BY <1>1, <1>2, <1>3, <1>4, <1>5, <1>6, <1>7, <1>8, <1>9, <1>10, <1>11, <1>12, <1>13, <1>14, <1>15, <1>16, <1>17, <1>18 DEF NextFunds

\* The fee of an authorization is the smaller of its price and its cap.
LEMMA FeeNat == ASSUME now \in Nat, NEW a \in Authorizations
                PROVE /\ actualFee(a) \in Nat /\ a.issuedAt \in Nat /\ a.id \in RequestIds
                      /\ a.providerSigner \in Signers /\ a.relaySigner \in Signers
<1>1. a.price \in Nat /\ a.maxFee \in Nat
  BY InputAssumption DEF Authorizations
<1>2. a.providerSigner \in Signers /\ a.relaySigner \in Signers
  BY InputAssumption DEF Authorizations
<1>3. a.issuedAt \in Nat
  <2>1. PICK age \in IssueAges : a.issuedAt = now - age /\ age <= now
    BY DEF Authorizations
  <2>2. age \in Nat
    BY <2>1, InputAssumption
  <2>3. QED
    BY <2>1, <2>2
<1>4. QED
  BY <1>1, <1>2, <1>3 DEF actualFee, Smaller, Authorizations

LEMMA NewStatus == ASSUME NEW r \in Settlement, NEW status \in Statuses
                   PROVE /\ [r EXCEPT !.status = status] \in Settlement
                         /\ [r EXCEPT !.status = status].status = status
                         /\ [r EXCEPT !.status = status].owner = r.owner
                         /\ [r EXCEPT !.status = status].provider = r.provider
                         /\ [r EXCEPT !.status = status].relay = r.relay
BY DEF Settlement

\* A receipt's new status keeps the records well typed.
LEMMA StatusType ==
  ASSUME TypeOK, NEW k \in SettlementKeys, NEW status \in Statuses, settlements[k].status # "None",
         settlements' = [settlements EXCEPT ![k].status = status]
  PROVE  settlements' \in [SettlementKeys -> Settlement] /\ PartiesKnown'
<1>1. settlements[k] \in Settlement /\ settlements \in [SettlementKeys -> Settlement]
  BY DEF TypeOK
<1>2. settlements' = [settlements EXCEPT ![k] = [settlements[k] EXCEPT !.status = status]]
  OBVIOUS
<1>3. settlements' \in [SettlementKeys -> Settlement]
  BY <1>1, <1>2, NewStatus
<1>4. ASSUME NEW x \in SettlementKeys, settlements'[x].status # "None"
      PROVE  /\ settlements'[x].owner \in Consumers /\ settlements'[x].provider \in Providers
             /\ settlements'[x].relay \in Relays
  <2>1. CASE x = k
    BY <2>1, <1>1, <1>2, NewStatus DEF TypeOK, PartiesKnown
  <2>2. CASE x # k
    BY <2>2, <1>1, <1>2, <1>4 DEF TypeOK, PartiesKnown
  <2>3. QED
    BY <2>1, <2>2
<1>5. QED
  BY <1>3, <1>4 DEF PartiesKnown

\* An escrow record names a Consumer, a Provider and a Relay.
LEMMA EscrowType ==
  ASSUME TypeOK, NEW l, NEW owner \in Consumers, NEW key \in Keys \cup Oracles, NEW a \in Authorizations,
         escrow(l, owner, key, a)
  PROVE  settlements' \in [SettlementKeys -> Settlement] /\ PartiesKnown' /\ ledger' \in Ledger
<1> DEFINE k == <<key, a.id>>
           r == [owner |-> owner, provider |-> providerSignerOwner[a.providerSigner],
                 relay |-> relaySignerOwner[a.relaySigner], providerSigner |-> a.providerSigner,
                 relaySigner |-> a.relaySigner, fee |-> actualFee(a), issuedAt |-> a.issuedAt,
                 releaseAt |-> now + settings.disputeWindow, status |-> "Pending"]
<1>1. now \in Nat /\ settings.disputeWindow \in Nat
  BY BaseAssumption DEF TypeOK, Params
<1>2. r.provider \in Providers /\ r.relay \in Relays /\ r \in Settlement
  BY <1>1, FeeNat DEF escrow, TypeOK, Settlement, Statuses
<1>3. k \in SettlementKeys
  BY <1>1, FeeNat DEF SettlementKeys
<1>4. settlements' = [settlements EXCEPT ![k] = r] /\ ledger' \in Ledger
  BY DEF escrow, Commit
<1> HIDE DEF k
<1>5. settlements' \in [SettlementKeys -> Settlement]
  BY <1>2, <1>3, <1>4 DEF TypeOK
<1>6. PartiesKnown'
  BY <1>2, <1>3, <1>4 DEF TypeOK, PartiesKnown
<1>7. QED
  BY <1>4, <1>5, <1>6

\* The totals of a release are over Providers, Consumers and Relays.
LEMMA BatchType ==
  ASSUME batch \in Batch
  PROVE  /\ batch.running \in BOOLEAN /\ batch.keys \in SUBSET SettlementKeys /\ batch.items \in [Totals -> Nat]
         /\ batch.total \in Nat /\ batch.treasury \in Nat
BY DEF Batch

LEMMA IdleType == Idle \in Batch /\ NoTotals \in [Totals -> Nat]
BY DEF Idle, NoTotals, Batch

\* Today is one of the days of the model's clock.
LEMMA TodayDay == ASSUME now \in 0 .. MaxTime PROVE Today \in Days /\ Today \in Nat
<1>1. Today \in Nat
  BY BaseAssumption DEF Today
<1>2. QED
  BY <1>1 DEF Today, Days

\* A refund leaves the budgets well typed.
LEMMA RefundedBudget ==
  ASSUME keyBudgets \in [Keys -> [limit: Nat, spent: Nat]], NEW key, NEW record \in Settlement
  PROVE  refundBudget(key, record) \in [Keys -> [limit: Nat, spent: Nat]]
BY DEF refundBudget, Settlement

\* Outside releaseBatch the records may change: no batch refers to them.
LEMMA NoBatch == ASSUME TypeOK, NotEntered, UNCHANGED batch PROVE BatchKnown'
BY DEF TypeOK, BatchKnown, NotEntered, Idle

LEMMA BatchFields ==
  ASSUME NEW b \in Batch, NEW keys \in SUBSET SettlementKeys, NEW items \in [Totals -> Nat],
         NEW total \in Nat, NEW treasury \in Nat
  PROVE  /\ [b EXCEPT !.keys = keys, !.items = items] \in Batch
         /\ [b EXCEPT !.items = items, !.total = total, !.treasury = treasury] \in Batch
BY DEF Batch

\* A receipt marked released joins one total; a total paid leaves the batch for its two sums.
LEMMA MarkedBatch ==
  ASSUME NEW b \in Batch, NEW k, NEW t \in Totals, NEW fee \in Nat
  PROVE  [b EXCEPT !.keys = @ \ {k}, !.items[t] = @ + fee] \in Batch
<1>1. b.keys \ {k} \in SUBSET SettlementKeys /\ [b.items EXCEPT ![t] = @ + fee] \in [Totals -> Nat]
  BY DEF Batch
<1>2. [b EXCEPT !.keys = @ \ {k}, !.items[t] = @ + fee]
      = [b EXCEPT !.keys = b.keys \ {k}, !.items = [b.items EXCEPT ![t] = @ + fee]]
  BY DEF Batch
<1>3. QED
  BY <1>1, <1>2, BatchFields

LEMMA PaidBatch ==
  ASSUME NEW b \in Batch, NEW t \in Totals, NEW fee \in Nat, NEW cut \in Nat
  PROVE  [b EXCEPT !.items[t] = 0, !.total = @ + fee, !.treasury = @ + cut] \in Batch
<1>1. [b.items EXCEPT ![t] = 0] \in [Totals -> Nat] /\ b.total + fee \in Nat /\ b.treasury + cut \in Nat
  BY DEF Batch
<1>2. [b EXCEPT !.items[t] = 0, !.total = @ + fee, !.treasury = @ + cut]
      = [b EXCEPT !.items = [b.items EXCEPT ![t] = 0], !.total = b.total + fee, !.treasury = b.treasury + cut]
  BY DEF Batch
<1>3. QED
  BY <1>1, <1>2, BatchFields

\* Between calls about receipts, every variable keeps its type.
LEMMA TypeReceipts ==
  ASSUME TypeOK, NextReceipts PROVE TypeOK'
<1> USE DEF TypeOK, grantVars, signerVars, probeVars, caseVars, oracleVars
<1>1. ASSUME NEW key \in Keys, NEW a \in Authorizations, settle(key, a)
      PROVE  TypeOK'
  <2>1. keyGrants[key].owner \in Consumers /\ actualFee(a) \in Nat
    BY <1>1, FeeNat DEF settle, KeyGrant
  <2>2. settlements' \in [SettlementKeys -> Settlement] /\ PartiesKnown' /\ ledger' \in Ledger
    BY <1>1, <2>1, EscrowType DEF settle
  <2>3. keyBudgets' \in [Keys -> [limit: Nat, spent: Nat]]
    BY <1>1, <2>1 DEF settle
  <2>4. QED
    BY <1>1, <2>2, <2>3, NoBatch DEF settle
<1>2. ASSUME NEW o \in Consumers, NEW disputer \in OracleDisputers, NEW a \in Authorizations,
             settleOracle(o, disputer, a)
      PROVE  TypeOK'
  <2>1. oracle \in Oracles /\ a.id \in RequestIds /\ disputer \in Accounts \cup {NoOne}
    BY <1>2, FeeNat, InputAssumption DEF settleOracle
  <2>2. settlements' \in [SettlementKeys -> Settlement] /\ PartiesKnown' /\ ledger' \in Ledger
    BY <1>2, <2>1, EscrowType DEF settleOracle
  <2>3. oracleDisputer' \in [SettlementKeys -> Accounts \cup {NoOne}]
    BY <1>2, <2>1 DEF settleOracle, SettlementKeys
  <2>4. QED
    BY <1>2, <2>2, <2>3, NoBatch DEF settleOracle
<1>3. ASSUME NEW k \in SettlementKeys, release(k)
      PROVE  TypeOK'
  <2>1. settlements' \in [SettlementKeys -> Settlement] /\ PartiesKnown'
    BY <1>3, StatusType DEF release, Due, Statuses
  <2>2. QED
    BY <1>3, <2>1, NoBatch DEF release, Commit
<1>4. ASSUME NEW k \in SettlementKeys, markReleased(k)
      PROVE  TypeOK'
  <2> DEFINE r == settlements[k]
             t == <<r.provider, r.owner, r.relay>>
  <2>1. r.status = "Pending" /\ r.fee \in Nat
    BY <1>4 DEF markReleased, BatchKnown, Settlement
  <2>2. t \in Totals
    BY <2>1 DEF PartiesKnown, Totals
  <2>3. settlements' \in [SettlementKeys -> Settlement] /\ PartiesKnown'
    BY <1>4, <2>1, StatusType DEF markReleased, Statuses
  <2>4. batch' \in Batch
    BY <1>4, <2>1, <2>2, MarkedBatch DEF markReleased
  <2>5. BatchKnown'
    <3>1. batch'.running = batch.running /\ batch.running
      BY <1>4 DEF markReleased, BatchKnown, NotEntered, Batch, Idle
    <3>2. \A x \in batch.keys \ {k} : settlements'[x] = settlements[x]
      BY <1>4 DEF markReleased
    <3>3. batch'.keys = batch.keys \ {k}
      BY <1>4 DEF markReleased, Batch
    <3>4. QED
      BY <3>1, <3>2, <3>3 DEF BatchKnown, NotEntered
  <2>6. QED
    BY <1>4, <2>3, <2>4, <2>5 DEF markReleased
<1>5. ASSUME NEW keys \in SUBSET {k \in SettlementKeys : Due(k)}, releaseBatch(keys)
      PROVE  TypeOK'
  <2>1. batch' \in Batch /\ batch'.running /\ batch'.keys = keys
    BY <1>5 DEF releaseBatch, Idle, NoTotals, Batch
  <2>2. PartiesKnown' /\ BatchKnown'
    BY <1>5, <2>1 DEF releaseBatch, PartiesKnown, BatchKnown, NotEntered, Due
  <2>3. QED
    BY <1>5, <2>1, <2>2 DEF releaseBatch
<1>6. ASSUME NEW t \in Totals, payReleasedItem(t)
      PROVE  TypeOK'
  <2>1. batch.items[t] \in Nat /\ treasuryCut(batch.items[t]) \in Nat
    BY BatchType, SharesNat
  <2>2. batch' \in Batch
    BY <1>6, <2>1, PaidBatch DEF payReleasedItem
  <2>3. batch'.running /\ batch'.keys = {}
    BY <1>6 DEF payReleasedItem, Batch
  <2>4. QED
    BY <1>6, <2>2, <2>3 DEF payReleasedItem, Commit, PartiesKnown, BatchKnown, NotEntered
<1>7. ASSUME finishBatch
      PROVE  TypeOK'
  <2>1. batch' = Idle /\ batch' \in Batch /\ batch'.keys = {}
    BY <1>7, IdleType DEF finishBatch, Idle
  <2>2. QED
    BY <1>7, <2>1 DEF finishBatch, Commit, PartiesKnown, BatchKnown
<1>8. ASSUME NEW c \in Commitments, NEW k \in SettlementKeys, voidProbe(k, c)
      PROVE  TypeOK'
  <2>1. settlements' \in [SettlementKeys -> Settlement] /\ PartiesKnown'
    BY <1>8, StatusType DEF voidProbe, Statuses
  <2>2. keyBudgets' \in [Keys -> [limit: Nat, spent: Nat]]
    BY <1>8, RefundedBudget DEF voidProbe
  <2>3. Today \in Days /\ Today \in Nat
    BY TodayDay
  <2>4. c.hunter \in Hunters /\ settlements[k].provider \in Providers
    BY <1>8, InputAssumption DEF voidProbe, PartiesKnown
  <2>5. providerProbeVoids' \in [Providers \X Days -> Nat]
    BY <1>8, <2>3, <2>4 DEF voidProbe
  <2>6. hunterProbeVoids' \in [Hunters \X Providers \X Days -> Nat]
    BY <1>8, <2>3, <2>4 DEF voidProbe
  <2>7. probeVoids' \in [SettlementKeys -> ProbeVoid]
    BY <1>8, <2>3, <2>4 DEF voidProbe, ProbeVoid
  <2>8. QED
    BY <1>8, <2>1, <2>2, <2>5, <2>6, <2>7, NoBatch DEF voidProbe, Commit
<1>9. QED
  BY <1>1, <1>2, <1>3, <1>4, <1>5, <1>6, <1>7, <1>8 DEF NextReceipts

-----------------------------------------------------------------------------
(* Disputes and capability cases *)

LEMMA InCaseType == ASSUME NEW v \in ProbeVoid PROVE [v EXCEPT !.inCase = TRUE] \in ProbeVoid
BY DEF ProbeVoid

LEMMA DisputeFields ==
  ASSUME NEW d \in Dispute, NEW penalty \in Nat, NEW bounty \in Nat
  PROVE  /\ [d EXCEPT !.penalty = penalty, !.bounty = bounty] \in Dispute
         /\ [d EXCEPT !.bondClaimed = TRUE] \in Dispute
BY DEF Dispute

\* A case that is opened or closed joins or stays among the cases.
LEMMA CaseType ==
  ASSUME TypeOK, NEW c \in CaseIds, NEW item \in CapabilityCase,
         capabilityCases' = [x \in DOMAIN capabilityCases \cup {c} |-> IF x = c THEN item ELSE capabilityCases[x]]
  PROVE  /\ DOMAIN capabilityCases' \subseteq CaseIds
         /\ \A x \in DOMAIN capabilityCases' : capabilityCases'[x] \in CapabilityCase
         /\ capabilityCases' = [x \in DOMAIN capabilityCases' |-> capabilityCases'[x]]
BY DEF TypeOK

LEMMA CaseFields ==
  ASSUME NEW item \in CapabilityCase, NEW penalty \in Nat, NEW bounty \in Nat
  PROVE  /\ [item EXCEPT !.status = "Confirmed", !.penalty = penalty, !.bounty = bounty] \in CapabilityCase
         /\ \A status \in {"Dismissed", "TimedOut"} : [item EXCEPT !.status = status] \in CapabilityCase
BY DEF CapabilityCase

\* Changing a case's entry is writing it over the cases.
LEMMA CaseChanged ==
  ASSUME TypeOK, NEW c \in DOMAIN capabilityCases, NEW item \in CapabilityCase,
         capabilityCases' = [capabilityCases EXCEPT ![c] = item]
  PROVE  /\ DOMAIN capabilityCases' \subseteq CaseIds
         /\ \A x \in DOMAIN capabilityCases' : capabilityCases'[x] \in CapabilityCase
         /\ capabilityCases' = [x \in DOMAIN capabilityCases' |-> capabilityCases'[x]]
BY DEF TypeOK

LEMMA VotesType ==
  ASSUME TypeOK, NEW c \in AllCases, NEW judges, NEW confirmed \in BOOLEAN, countVotes(c, judges, confirmed)
  PROVE  disputeVotes' \in [AllCases -> [Jurors -> 0 .. 2]]
<1> DEFINE v == [j \in Jurors |-> IF j \in judges THEN (IF confirmed THEN 1 ELSE 2) ELSE disputeVotes[c][j]]
<1>1. v \in [Jurors -> 0 .. 2]
  BY DEF TypeOK
<1>2. disputeVotes' = [disputeVotes EXCEPT ![c] = v]
  BY DEF countVotes
<1>3. QED
  BY <1>1, <1>2 DEF TypeOK

LEMMA RequestedType == ASSUME now \in Nat PROVE RequestedJury \subseteq Assignment
<1>1. now + SELECTION_DELAY \in Nat
  BY BaseAssumption
<1>2. NoJury \in Assignment
  BY DEF Assignment, NoJury
<1>3. ASSUME NEW n \in Nat, NEW item \in Assignment
      PROVE  [item EXCEPT !.status = "Pending", !.round = n] \in Assignment
             /\ [item EXCEPT !.status = "Failed"] \in Assignment
  BY DEF Assignment
<1>4. QED
  BY <1>1, <1>2, <1>3 DEF RequestedJury

LEMMA DrawnType ==
  ASSUME NEW item \in Assignment, NEW jurors \in SUBSET Jurors
  PROVE  [item EXCEPT !.status = "Ready", !.jurors = jurors] \in Assignment
BY DEF Assignment

\* What a penalty takes is an amount, and so is its bounty.
LEMMA BountyNat ==
  ASSUME settings \in Params, NEW taken \in Nat
  PROVE  Portion(taken, settings.reporterBountyBps) \in Nat
<1>1. settings.reporterBountyBps \in Nat
  BY DEF Params
<1>2. QED
  BY <1>1, PortionNat

\* Between calls about disputes and capability cases, every variable keeps its type.
LEMMA TypeDisputes ==
  ASSUME TypeOK, NextDisputes PROVE TypeOK'
<1> USE DEF TypeOK, grantVars, signerVars, probeVars, caseVars, oracleVars
<1>1. ASSUME NEW k \in SettlementKeys, NEW sender \in Disputers, openDispute(k, sender)
      PROVE  TypeOK'
  <2>1. settlements' \in [SettlementKeys -> Settlement] /\ PartiesKnown'
    BY <1>1, StatusType DEF openDispute, Statuses
  <2> DEFINE d == [NoDispute EXCEPT !.reporter = sender, !.totalBond = settings.reporterBond,
                                    !.resolveAt = settlements[k].releaseAt + settings.arbitrationTimeout]
  <2>2. d \in Dispute
    <3>1. sender \in Accounts /\ settings.reporterBond \in Nat /\ settlements[k].releaseAt + settings.arbitrationTimeout \in Nat
      BY DisputeAssumption DEF Settlement, Params
    <3>2. QED
      BY <3>1 DEF NoDispute, Dispute
  <2>3. disputes' = [disputes EXCEPT ![k] = d]
    BY <1>1 DEF openDispute
  <2> HIDE DEF d
  <2>4. disputes' \in [SettlementKeys -> Dispute]
    BY <2>2, <2>3
  <2>5. assignments' \in [AllCases -> Assignment]
    BY <1>1, BaseAssumption, RequestedType DEF openDispute, AllCases
  <2>6. QED
    BY <1>1, <2>1, <2>4, <2>5, NoBatch DEF openDispute, Commit
<1>2. ASSUME NEW k \in SettlementKeys, NEW judges \in Quorums, confirmDispute(k, judges)
      PROVE  TypeOK'
  <2>1. settlements' \in [SettlementKeys -> Settlement] /\ PartiesKnown'
    BY <1>2, StatusType DEF confirmDispute, votable, Statuses
  <2>2. disputeVotes' \in [AllCases -> [Jurors -> 0 .. 2]]
    BY <1>2, VotesType DEF confirmDispute, votable, AllCases
  <2>3. PICK taken \in Nat, bounty \in Nat : disputes' = [disputes EXCEPT ![k].penalty = taken, ![k].bounty = bounty]
    BY <1>2, BountyNat DEF confirmDispute
  <2>4. disputes' = [disputes EXCEPT ![k] = [disputes[k] EXCEPT !.penalty = taken, !.bounty = bounty]]
    BY <2>3
  <2>5. disputes' \in [SettlementKeys -> Dispute]
    BY <2>4, DisputeFields
  <2>6. keyBudgets' \in [Keys -> [limit: Nat, spent: Nat]]
    BY <1>2, RefundedBudget DEF confirmDispute
  <2>7. QED
    BY <1>2, <2>1, <2>2, <2>5, <2>6, NoBatch DEF confirmDispute, votable, Commit
<1>3. ASSUME NEW k \in SettlementKeys, NEW judges \in Quorums, dismissDispute(k, judges)
      PROVE  TypeOK'
  <2>1. settlements' \in [SettlementKeys -> Settlement] /\ PartiesKnown'
    BY <1>3, StatusType DEF dismissDispute, votable, Statuses
  <2>2. disputeVotes' \in [AllCases -> [Jurors -> 0 .. 2]]
    BY <1>3, VotesType DEF dismissDispute, votable, AllCases
  <2>3. QED
    BY <1>3, <2>1, <2>2, NoBatch DEF dismissDispute, votable, Commit
<1>4. ASSUME NEW k \in SettlementKeys, claimDisputeBond(k)
      PROVE  TypeOK'
  <2>1. disputes' = [disputes EXCEPT ![k] = [disputes[k] EXCEPT !.bondClaimed = TRUE]]
    BY <1>4 DEF claimDisputeBond
  <2>2. disputes' \in [SettlementKeys -> Dispute]
    BY <2>1, DisputeFields
  <2>3. QED
    BY <1>4, <2>2, NoBatch DEF claimDisputeBond, Commit, PartiesKnown
<1>5. ASSUME NEW k \in SettlementKeys, resolveTimedOutDispute(k)
      PROVE  TypeOK'
  <2>1. settlements' \in [SettlementKeys -> Settlement] /\ PartiesKnown'
    BY <1>5, StatusType DEF resolveTimedOutDispute, Statuses
  <2>2. keyBudgets' \in [Keys -> [limit: Nat, spent: Nat]]
    BY <1>5, RefundedBudget DEF resolveTimedOutDispute
  <2>3. QED
    BY <1>5, <2>1, <2>2, NoBatch DEF resolveTimedOutDispute, Commit
<1>6. ASSUME NEW c \in CaseIds, NEW keys \in SUBSET SettlementKeys, openCapabilityCase(c, keys)
      PROVE  TypeOK'
  <2>1. probeVoids' \in [SettlementKeys -> ProbeVoid]
    <3>1. \A k \in SettlementKeys : [probeVoids[k] EXCEPT !.inCase = TRUE] \in ProbeVoid
      BY InCaseType
    <3>2. QED
      BY <1>6, <3>1 DEF openCapabilityCase
  <2>2. PICK first \in keys : capabilityCases' = [x \in DOMAIN capabilityCases \cup {c} |->
         IF x = c THEN [status |-> "Open", providerSigner |-> settlements[first].providerSigner, keys |-> keys,
                        resolveAt |-> now + settings.arbitrationTimeout, bond |-> settings.reporterBond,
                        penalty |-> 0, bounty |-> 0]
                  ELSE capabilityCases[x]]
    BY <1>6 DEF openCapabilityCase
  <2>3. [status |-> "Open", providerSigner |-> settlements[first].providerSigner, keys |-> keys,
         resolveAt |-> now + settings.arbitrationTimeout, bond |-> settings.reporterBond,
         penalty |-> 0, bounty |-> 0] \in CapabilityCase
    BY BaseAssumption DEF CapabilityCase, Settlement, Params
  <2>4. /\ DOMAIN capabilityCases' \subseteq CaseIds
        /\ \A x \in DOMAIN capabilityCases' : capabilityCases'[x] \in CapabilityCase
        /\ capabilityCases' = [x \in DOMAIN capabilityCases' |-> capabilityCases'[x]]
    BY <2>2, <2>3, CaseType
  <2>5. assignments' \in [AllCases -> Assignment]
    BY <1>6, BaseAssumption, RequestedType DEF openCapabilityCase, AllCases
  <2>6. QED
    BY <1>6, <2>1, <2>4, <2>5, NoBatch DEF openCapabilityCase, Commit, PartiesKnown
<1>7. ASSUME NEW c \in CaseIds, NEW judges \in Quorums, NEW confirmed \in BOOLEAN,
             voteCapabilityCase(c, judges, confirmed)
      PROVE  TypeOK'
  <2>1. disputeVotes' \in [AllCases -> [Jurors -> 0 .. 2]]
    BY <1>7, VotesType DEF voteCapabilityCase, AllCases
  <2>2. c \in DOMAIN capabilityCases /\ capabilityCases[c] \in CapabilityCase
    BY <1>7 DEF voteCapabilityCase, Opened
  <2>3. PICK item \in CapabilityCase : capabilityCases' = [capabilityCases EXCEPT ![c] = item]
    <3>1. CASE confirmed
      <4>1. PICK taken \in Nat, bounty \in Nat : capabilityCases' = [capabilityCases EXCEPT ![c] =
              [capabilityCases[c] EXCEPT !.status = "Confirmed", !.penalty = taken, !.bounty = bounty]]
        BY <1>7, <3>1, BountyNat DEF voteCapabilityCase
      <4>2. QED
        BY <4>1, <2>2, CaseFields
    <3>2. CASE ~confirmed
      <4>1. capabilityCases' = [capabilityCases EXCEPT ![c] = [capabilityCases[c] EXCEPT !.status = "Dismissed"]]
        BY <1>7, <3>2 DEF voteCapabilityCase
      <4>2. QED
        BY <4>1, <2>2, CaseFields
    <3>3. QED
      BY <3>1, <3>2
  <2>4. /\ DOMAIN capabilityCases' \subseteq CaseIds
        /\ \A x \in DOMAIN capabilityCases' : capabilityCases'[x] \in CapabilityCase
        /\ capabilityCases' = [x \in DOMAIN capabilityCases' |-> capabilityCases'[x]]
    BY <2>2, <2>3, CaseChanged
  <2>5. ledger' \in Ledger
    BY <1>7 DEF voteCapabilityCase, Commit
  <2>6. QED
    BY <1>7, <2>1, <2>4, <2>5, NoBatch DEF voteCapabilityCase, OnlyCases, PartiesKnown
<1>8. ASSUME NEW c \in CaseIds, resolveTimedOutCapabilityCase(c)
      PROVE  TypeOK'
  <2>1. c \in DOMAIN capabilityCases /\ capabilityCases[c] \in CapabilityCase
    BY <1>8 DEF resolveTimedOutCapabilityCase, Opened
  <2>2. capabilityCases' = [capabilityCases EXCEPT ![c] = [capabilityCases[c] EXCEPT !.status = "TimedOut"]]
    BY <1>8 DEF resolveTimedOutCapabilityCase
  <2>3. [capabilityCases[c] EXCEPT !.status = "TimedOut"] \in CapabilityCase
    BY <2>1, CaseFields
  <2>4. /\ DOMAIN capabilityCases' \subseteq CaseIds
        /\ \A x \in DOMAIN capabilityCases' : capabilityCases'[x] \in CapabilityCase
        /\ capabilityCases' = [x \in DOMAIN capabilityCases' |-> capabilityCases'[x]]
    BY <2>1, <2>2, <2>3, CaseChanged
  <2>5. QED
    BY <1>8, <2>4, NoBatch DEF resolveTimedOutCapabilityCase, OnlyCases, PartiesKnown, Commit
<1>9. ASSUME NEW c \in SettlementKeys \cup DOMAIN capabilityCases, NEW jurors \in Juries, finalizeJury(c, jurors)
      PROVE  TypeOK'
  <2>1. [assignments[c] EXCEPT !.status = "Ready", !.jurors = jurors] \in Assignment /\ c \in AllCases
    BY DrawnType DEF Juries, AllCases
  <2>2. QED
    BY <1>9, <2>1, NoBatch DEF finalizeJury, PartiesKnown
<1>10. QED
  BY <1>1, <1>2, <1>3, <1>4, <1>5, <1>6, <1>7, <1>8, <1>9 DEF NextDisputes

\* Every variable keeps its type, in every behaviour of the settlement.
THEOREM TypeCorrect == Spec => []TypeOK
<1>1. Init => TypeOK
  BY TypeInit
<1>2. TypeOK /\ [Next]_vars => TypeOK'
  <2> SUFFICES ASSUME TypeOK, [Next]_vars PROVE TypeOK'
    OBVIOUS
  <2>1. CASE Tick
    BY <2>1, BaseAssumption, NoBatch
    DEF Tick, TypeOK, grantVars, signerVars, probeVars, caseVars, oracleVars, PartiesKnown
  <2>2. CASE UNCHANGED vars
    BY <2>2 DEF vars, TypeOK, grantVars, signerVars, probeVars, caseVars, oracleVars, PartiesKnown, BatchKnown,
                NotEntered
  <2>3. QED
    BY <2>1, <2>2, TypeFunds, TypeReceipts, TypeDisputes DEF Next
<1>3. QED
  BY <1>1, <1>2, PTL DEF Spec

-----------------------------------------------------------------------------
(* Solvency *)

Solvency == TypeOK /\ Solvent

\* Between calls a solvent ledger has no surplus; a call that leaves none is solvent.
LEMMA NoSurplus ==
  ASSUME Solvency, NotEntered PROVE Surplus(ledger) = 0 /\ Books(ledger)
<1>1. batch.total = 0 /\ batch.treasury = 0 /\ ledger \in Ledger
  BY DEF Solvency, TypeOK, BatchKnown, Idle
<1>2. Books(ledger)
  BY <1>1, LedgerBooks
<1>3. QED
  BY <1>1, <1>2 DEF Solvency, Solvent, Surplus, Liabilities, Books

LEMMA Balanced ==
  ASSUME Solvency, NotEntered, UNCHANGED batch, NEW l, Commit(l), Books(l), Surplus(l) = 0
  PROVE  Solvent'
<1>1. batch'.total = 0 /\ batch'.treasury = 0 /\ ledger' = l
  BY DEF Solvency, TypeOK, BatchKnown, Idle, Commit
<1>2. Liabilities(l) = l.token
  BY DEF Surplus, Liabilities, Books
<1>3. l.token \in Int
  BY DEF Books
<1>4. QED
  BY <1>1, <1>2, <1>3 DEF Solvent, Liabilities

LEMMA SolventFunds == ASSUME Solvency, NextFunds PROVE Solvent'
<1>1. ASSUME NEW o \in Consumers, NEW n \in DepositAmounts, deposit(o, n)
      PROVE  Solvent'
  <2> DEFINE l == [takeExact(ledger, o, n) EXCEPT !.available[o] = @ + n, !.totalAvailable = @ + n]
  <2>1. NotEntered /\ n \in Nat /\ Commit(l) /\ UNCHANGED batch
    BY <1>1, InputAssumption DEF deposit, OnlyLedger
  <2>2. Books(l) /\ Surplus(l) = 0
    BY <2>1, NoSurplus DEF takeExact, Books, Fields, Surplus, Liabilities
  <2>3. QED
    BY <2>1, <2>2, Balanced
<1>2. ASSUME NEW o \in Consumers, withdraw(o)
      PROVE  Solvent'
  <2> DEFINE n == withdrawals[o].amount
             l == sendExact([ledger EXCEPT !.available[o] = @ - n, !.totalAvailable = @ - n], o, n)
  <2>1. NotEntered /\ n \in Nat /\ Commit(l) /\ UNCHANGED batch
    BY <1>2 DEF withdraw, Solvency, TypeOK
  <2>2. Books(l) /\ Surplus(l) = 0
    BY <2>1, NoSurplus DEF sendExact, Books, Fields, Surplus, Liabilities
  <2>3. QED
    BY <2>1, <2>2, Balanced
<1>3. ASSUME NEW a \in Claimants, claim(a)
      PROVE  Solvent'
  <2> DEFINE n == ledger.claimable[a]
             l == sendExact([ledger EXCEPT !.claimable[a] = 0, !.totalClaimable = @ - n], a, n)
  <2>1. NotEntered /\ n \in Nat /\ Commit(l) /\ UNCHANGED batch
    BY <1>3, InputAssumption DEF claim, OnlyLedger, Solvency, TypeOK, Ledger
  <2>2. Books(l) /\ Surplus(l) = 0
    BY <2>1, NoSurplus DEF sendExact, Books, Fields, Surplus, Liabilities
  <2>3. QED
    BY <2>1, <2>2, Balanced
<1>4. ASSUME NEW o \in Consumers, NEW n \in OracleAmounts, reserveForOracle(o, n) \/ releaseOracleReserve(o, n)
      PROVE  Solvent'
  <2> DEFINE taken == [ledger EXCEPT !.available[o] = @ - n, !.reserved[o] = @ + n]
             given == [ledger EXCEPT !.reserved[o] = @ - n, !.available[o] = @ + n]
  <2>1. NotEntered /\ UNCHANGED batch /\ (Commit(taken) \/ Commit(given))
    BY <1>4 DEF reserveForOracle, releaseOracleReserve, OnlyLedger
  <2>2. Books(taken) /\ Surplus(taken) = 0 /\ Books(given) /\ Surplus(given) = 0
    BY <2>1, NoSurplus DEF Books, Fields, Surplus, Liabilities
  <2>3. QED
    BY <2>1, <2>2, Balanced
<1>5. ASSUME NEW p \in Providers, releaseHoldback(p)
      PROVE  Solvent'
  <2>1. NotEntered /\ Commit(matureHoldback(ledger, p)) /\ UNCHANGED batch
    BY <1>5 DEF releaseHoldback, OnlyLedger
  <2>2. Books(matureHoldback(ledger, p)) /\ Surplus(matureHoldback(ledger, p)) = 0
    <3> DEFINE n == SlotSum(ledger, p, matureSlots(ledger, p))
    <3>1. ASSUME NEW new
          PROVE  Books([ledger EXCEPT !.buckets[p] = new]) /\ Surplus([ledger EXCEPT !.buckets[p] = new]) = 0
      BY <2>1, NoSurplus DEF Books, Fields, Surplus, Liabilities
    <3>2. n \in Int
      BY <1>5 DEF releaseHoldback
    <3> HIDE DEF n
    <3>3. ASSUME NEW new
          PROVE  LET m == payHoldback([ledger EXCEPT !.buckets[p] = new], p, n) IN Books(m) /\ Surplus(m) = 0
      BY <3>1, <3>2, PayHoldbackSurplus
    <3>4. QED
      BY <3>3 DEF matureHoldback, n
  <2>3. QED
    BY <2>1, <2>2, Balanced
<1>6. CASE UNCHANGED <<ledger, batch>>
  BY <1>6 DEF Solvency, Solvent
<1>7. QED
  BY <1>1, <1>2, <1>3, <1>4, <1>5, <1>6
  DEF NextFunds, setParams, setProbeMaxFee, setOracle, requestWithdrawal, cancelWithdrawal, setKeyBudget, revokeKey,
      registerKey, authorizeProviderSigner, authorizeRelaySigner, revokeProviderSigner, revokeRelaySigner,
      commitProbes, OnlyGrants, OnlySigners

\* Escrowing a fee already taken from its payer leaves no surplus.
LEMMA EscrowBalanced ==
  ASSUME Solvency, NotEntered, UNCHANGED batch, NEW l, NEW owner, NEW key, NEW a \in Authorizations,
         Books(l), Surplus(l) = actualFee(a), escrow(l, owner, key, a)
  PROVE  Solvent'
<1> DEFINE fee == actualFee(a)
<1>1. fee \in Nat
  BY FeeNat DEF Solvency, TypeOK
<1>2. PICK p : Commit([l EXCEPT !.totalPendingFees = @ + fee, !.exposure[p] = @ + fee])
  BY DEF escrow
<1> HIDE DEF fee
<1>3. /\ Books([l EXCEPT !.totalPendingFees = @ + fee, !.exposure[p] = @ + fee])
      /\ Surplus([l EXCEPT !.totalPendingFees = @ + fee, !.exposure[p] = @ + fee]) = Surplus(l) - fee
  BY <1>1 DEF Books, Fields, Surplus, Liabilities
<1>4. QED
  BY <1>1, <1>2, <1>3, Balanced DEF fee

\* What a receipt's record says, and what a release or a refund of it leaves.
LEMMA RecordBalanced ==
  ASSUME Solvency, NotEntered, NEW k \in SettlementKeys, settlements[k].status # "None"
  PROVE  LET r == settlements[k] IN
         /\ r.provider \in Providers /\ r.fee \in Nat
         /\ Books(refund(ledger, r)) /\ Surplus(refund(ledger, r)) = 0
         /\ providerGross(r.fee) >= 0 => Books(payRelease(ledger, r)) /\ Surplus(payRelease(ledger, r)) = 0
<1> DEFINE r == settlements[k]
<1>1. r.provider \in Providers /\ r.fee \in Nat /\ settings \in Params /\ now \in Nat /\ Slotted(ledger)
  BY LedgerSlotted, BaseAssumption DEF Solvency, TypeOK, PartiesKnown, Settlement
<1>2. Books(ledger) /\ Surplus(ledger) = 0
  BY NoSurplus
<1> HIDE DEF r
<1>3. Books(refund(ledger, r)) /\ Surplus(refund(ledger, r)) = 0
  BY <1>1, <1>2, RefundSurplus
<1>4. providerGross(r.fee) >= 0 => Books(payRelease(ledger, r)) /\ Surplus(payRelease(ledger, r)) = 0
  BY <1>1, <1>2, PayReleaseSurplus
<1>5. QED
  BY <1>1, <1>3, <1>4 DEF r

LEMMA SolventReceipts == ASSUME Solvency, NextReceipts PROVE Solvent'
<1>1. ASSUME NEW key \in Keys, NEW a \in Authorizations, settle(key, a)
      PROVE  Solvent'
  <2> DEFINE o == keyGrants[key].owner
             l == [ledger EXCEPT !.available[o] = @ - actualFee(a), !.totalAvailable = @ - actualFee(a)]
  <2>1. NotEntered /\ UNCHANGED batch /\ escrow(l, o, key, a)
    BY <1>1 DEF settle
  <2>2. actualFee(a) \in Nat
    BY FeeNat DEF Solvency, TypeOK
  <2>3. Books(l) /\ Surplus(l) = actualFee(a)
    BY <2>1, <2>2, NoSurplus DEF Books, Fields, Surplus, Liabilities
  <2> HIDE DEF l, o
  <2>4. QED
    BY <2>1, <2>3, EscrowBalanced
<1>2. ASSUME NEW o \in Consumers, NEW disputer \in OracleDisputers, NEW a \in Authorizations,
             settleOracle(o, disputer, a)
      PROVE  Solvent'
  <2> DEFINE l == [ledger EXCEPT !.reserved[o] = @ - actualFee(a), !.totalAvailable = @ - actualFee(a)]
  <2>1. NotEntered /\ UNCHANGED batch /\ escrow(l, o, oracle, a)
    BY <1>2 DEF settleOracle
  <2>2. actualFee(a) \in Nat
    BY FeeNat DEF Solvency, TypeOK
  <2>3. Books(l) /\ Surplus(l) = actualFee(a)
    BY <2>1, <2>2, NoSurplus DEF Books, Fields, Surplus, Liabilities
  <2> HIDE DEF l
  <2>4. QED
    BY <2>1, <2>3, EscrowBalanced
<1>3. ASSUME NEW k \in SettlementKeys, release(k)
      PROVE  Solvent'
  <2>1. NotEntered /\ UNCHANGED batch /\ Commit(payRelease(ledger, settlements[k]))
        /\ settlements[k].status # "None" /\ providerGross(settlements[k].fee) >= 0
    BY <1>3 DEF release, Due
  <2>2. QED
    BY <2>1, RecordBalanced, Balanced
<1>4. ASSUME NEW k \in SettlementKeys, markReleased(k)
      PROVE  Solvent'
  <2>1. ledger' = ledger /\ batch'.total = batch.total /\ batch'.treasury = batch.treasury
    BY <1>4 DEF markReleased, Solvency, TypeOK, Batch
  <2>2. QED
    BY <2>1 DEF Solvency, Solvent, Liabilities
<1>5. ASSUME NEW keys \in SUBSET SettlementKeys, releaseBatch(keys)
      PROVE  Solvent'
  <2>1. ledger' = ledger /\ batch'.total = 0 /\ batch'.treasury = 0 /\ batch.total = 0 /\ batch.treasury = 0
    BY <1>5 DEF releaseBatch, Solvency, TypeOK, BatchKnown, Idle
  <2>2. QED
    BY <2>1 DEF Solvency, Solvent, Liabilities
<1>6. ASSUME NEW t \in Totals, payReleasedItem(t)
      PROVE  Solvent'
  <2> DEFINE fee == batch.items[t]
             l == payItem(ledger, t[1], t[3], fee)
  <2>1. settings \in Params /\ now \in Nat /\ ledger \in Ledger /\ t[1] \in Providers
        /\ fee \in Nat /\ treasuryCut(fee) \in Nat /\ batch.total \in Nat /\ batch.treasury \in Nat
    BY SharesNat, BatchType, BaseAssumption DEF Solvency, TypeOK, Totals
  <2>2. Books(l) /\ Surplus(l) = Surplus(ledger) - (fee - treasuryCut(fee))
    BY <1>6, <2>1, LedgerBooks, LedgerSlotted, PayItemSurplus DEF payReleasedItem
  <2>3. Surplus(ledger) = batch.treasury - batch.total
    BY <2>1, LedgerBooks DEF Solvency, Solvent, Surplus, Liabilities, Books
  <2>4. batch'.total = batch.total + fee /\ batch'.treasury = batch.treasury + treasuryCut(fee) /\ ledger' = l
    BY <1>6 DEF payReleasedItem, Commit, Solvency, TypeOK, Batch
  <2> HIDE DEF l, fee
  <2>5. Liabilities(l) = l.token + batch'.total - batch'.treasury
    BY <2>1, <2>2, <2>3, <2>4 DEF Books, Surplus, Liabilities
  <2>6. QED
    BY <2>4, <2>5 DEF Solvent, Liabilities
<1>7. ASSUME finishBatch
      PROVE  Solvent'
  <2> DEFINE l == payTotals(ledger, batch.total, batch.treasury)
  <2>1. Books(ledger) /\ batch.total \in Nat /\ batch.treasury \in Nat
    BY LedgerBooks, BatchType DEF Solvency, TypeOK
  <2>2. Books(l) /\ Surplus(l) = Surplus(ledger) + batch.total - batch.treasury
    BY <2>1, PayTotalsSurplus
  <2>3. Surplus(ledger) = batch.treasury - batch.total
    BY <2>1 DEF Solvency, Solvent, Surplus, Liabilities, Books
  <2>4. ledger' = l /\ batch'.total = 0 /\ batch'.treasury = 0
    BY <1>7 DEF finishBatch, Commit, Idle
  <2> HIDE DEF l
  <2>5. Liabilities(l) = l.token
    BY <2>1, <2>2, <2>3 DEF Surplus, Liabilities, Books
  <2>6. l.token \in Int
    BY <2>2 DEF Books
  <2>7. QED
    BY <2>4, <2>5, <2>6 DEF Solvent, Liabilities
<1>8. ASSUME NEW c \in Commitments, NEW k \in SettlementKeys, voidProbe(k, c)
      PROVE  Solvent'
  <2>1. NotEntered /\ UNCHANGED batch /\ Commit(refund(ledger, settlements[k])) /\ settlements[k].status # "None"
    BY <1>8 DEF voidProbe
  <2>2. QED
    BY <2>1, RecordBalanced, Balanced
<1>9. QED
  BY <1>1, <1>2, <1>3, <1>4, <1>5, <1>6, <1>7, <1>8 DEF NextReceipts

\* A bond taken is a bond held, and a bond freed is credited.
LEMMA BondTaken ==
  ASSUME Solvency, NotEntered, NEW sender, NEW bond \in Nat
  PROVE  LET l == [takeExact(ledger, sender, bond) EXCEPT !.totalReporterBonds = @ + bond] IN
         Books(l) /\ Surplus(l) = 0
BY NoSurplus DEF takeExact, Books, Fields, Surplus, Liabilities

LEMMA BondCredited ==
  ASSUME NEW l, NEW account, NEW bond \in Nat, Books(l), Surplus(l) = 0
  PROVE  LET freed == [l EXCEPT !.totalReporterBonds = @ - bond] IN
         /\ Books(credit(freed, account, bond)) /\ Surplus(credit(freed, account, bond)) = 0
<1> DEFINE freed == [l EXCEPT !.totalReporterBonds = @ - bond]
<1>1. Books(freed) /\ Surplus(freed) = bond
  BY DEF Books, Fields, Surplus, Liabilities
<1> HIDE DEF freed
<1>2. QED
  BY <1>1, CreditSurplus DEF freed

\* What a penalty takes from the ring it pays out again.
LEMMA PenaltyBalanced ==
  ASSUME NEW l, NEW p, NEW amount, NEW bounty \in Nat, NEW reporter, Books(l), Surplus(l) = 0,
         holdbackTaken(l, p, amount) \in Nat
  PROVE  LET paid == payPenalty(takeHoldback(l, p, amount), p, holdbackTaken(l, p, amount), bounty, reporter) IN
         Books(paid) /\ Surplus(paid) = 0
<1> DEFINE taken == holdbackTaken(l, p, amount)
           m == takeHoldback(l, p, amount)
<1>1. Books(m) /\ Surplus(m) = taken /\ taken \in Nat
  BY TakeHoldbackSurplus
<1> HIDE DEF taken, m
<1>2. Books(payPenalty(m, p, taken, bounty, reporter))
      /\ Surplus(payPenalty(m, p, taken, bounty, reporter)) = Surplus(m) - taken
  BY <1>1, PayPenaltySurplus
<1>3. QED
  BY <1>1, <1>2 DEF taken, m

LEMMA SolventDisputes == ASSUME Solvency, NextDisputes PROVE Solvent'
<1>0. settings \in Params /\ settings.reporterBond \in Nat
  BY DEF Solvency, TypeOK, Params
<1>1. ASSUME NEW k \in SettlementKeys, NEW sender \in Disputers, openDispute(k, sender)
      PROVE  Solvent'
  <2>1. NotEntered /\ UNCHANGED batch
        /\ Commit([takeExact(ledger, sender, settings.reporterBond) EXCEPT !.totalReporterBonds = @ + settings.reporterBond])
    BY <1>1 DEF openDispute
  <2>2. QED
    BY <1>0, <2>1, BondTaken, Balanced
<1>2. ASSUME NEW k \in SettlementKeys, NEW judges \in Quorums, confirmDispute(k, judges)
      PROVE  Solvent'
  <2> DEFINE r == settlements[k]
             refunded == refund(ledger, r)
             taken == holdbackTaken(refunded, r.provider, penaltyOf(r))
             bounty == Portion(taken, settings.reporterBountyBps)
             l == payPenalty(takeHoldback(refunded, r.provider, penaltyOf(r)), r.provider, taken, bounty,
                             disputes[k].reporter)
  <2>1. NotEntered /\ UNCHANGED batch /\ r.status # "None" /\ taken \in Nat /\ Commit(l)
    BY <1>2 DEF confirmDispute, votable
  <2>2. Books(refunded) /\ Surplus(refunded) = 0
    BY <2>1, RecordBalanced
  <2>3. bounty \in Nat
    BY <1>0, <2>1, BountyNat
  <2> HIDE DEF refunded, bounty
  <2>4. Books(l) /\ Surplus(l) = 0
    BY <2>1, <2>2, <2>3, PenaltyBalanced
  <2>5. QED
    BY <2>1, <2>4, Balanced
<1>3. ASSUME NEW k \in SettlementKeys, NEW judges \in Quorums, dismissDispute(k, judges)
      PROVE  Solvent'
  <2> DEFINE r == settlements[k]
             bond == disputes[k].totalBond
             l == credit([payRelease(ledger, r) EXCEPT !.totalReporterBonds = @ - bond], settings.penaltyRecipient, bond)
  <2>1. NotEntered /\ UNCHANGED batch /\ r.status # "None" /\ providerGross(r.fee) >= 0 /\ Commit(l)
    BY <1>3 DEF dismissDispute, votable
  <2>2. bond \in Nat
    BY DEF Solvency, TypeOK, Dispute
  <2>3. Books(l) /\ Surplus(l) = 0
    BY <2>1, <2>2, RecordBalanced, BondCredited
  <2>4. QED
    BY <2>1, <2>3, Balanced
<1>4. ASSUME NEW k \in SettlementKeys, claimDisputeBond(k)
      PROVE  Solvent'
  <2> DEFINE bond == disputes[k].totalBond
             l == credit([ledger EXCEPT !.totalReporterBonds = @ - bond], disputes[k].reporter, bond)
  <2>1. NotEntered /\ UNCHANGED batch /\ Commit(l)
    BY <1>4 DEF claimDisputeBond
  <2>2. bond \in Nat
    BY DEF Solvency, TypeOK, Dispute
  <2>3. Books(l) /\ Surplus(l) = 0
    BY <2>1, <2>2, NoSurplus, BondCredited
  <2>4. QED
    BY <2>1, <2>3, Balanced
<1>5. ASSUME NEW k \in SettlementKeys, resolveTimedOutDispute(k)
      PROVE  Solvent'
  <2>1. NotEntered /\ UNCHANGED batch /\ settlements[k].status # "None"
        /\ \/ Commit(refund(ledger, settlements[k]))
           \/ providerGross(settlements[k].fee) >= 0 /\ Commit(payRelease(ledger, settlements[k]))
    BY <1>5 DEF resolveTimedOutDispute
  <2>2. QED
    BY <2>1, RecordBalanced, Balanced
<1>6. ASSUME NEW c \in CaseIds, NEW keys \in SUBSET SettlementKeys, openCapabilityCase(c, keys)
      PROVE  Solvent'
  <2>1. NotEntered /\ UNCHANGED batch
        /\ Commit([takeExact(ledger, c[1], settings.reporterBond) EXCEPT !.totalReporterBonds = @ + settings.reporterBond])
    BY <1>6 DEF openCapabilityCase
  <2>2. QED
    BY <1>0, <2>1, BondTaken, Balanced
<1>7. ASSUME NEW c \in CaseIds, NEW judges \in Quorums, NEW confirmed \in BOOLEAN,
             voteCapabilityCase(c, judges, confirmed)
      PROVE  Solvent'
  <2> DEFINE item == capabilityCases[c]
             freed == [ledger EXCEPT !.totalReporterBonds = @ - item.bond]
             taken == holdbackTaken(freed, c[2], settings.slashCap)
             bounty == Portion(taken, settings.reporterBountyBps)
             back == credit(freed, c[1], item.bond)
  <2>1. NotEntered /\ UNCHANGED batch /\ item.bond \in Nat
    BY <1>7 DEF voteCapabilityCase, OnlyCases, Opened, Solvency, TypeOK, CapabilityCase
  <2>2. CASE confirmed
    <3>1. taken \in Nat /\ bounty \in Nat
      BY <1>0, <1>7, <2>2, BountyNat DEF voteCapabilityCase
    <3>2. Books(back) /\ Surplus(back) = 0
      BY <2>1, NoSurplus, BondCredited
    <3>3. back.buckets = freed.buckets
      BY <2>1, NoSurplus DEF credit, Books, Fields
    <3>4. taken = holdbackTaken(back, c[2], settings.slashCap)
      BY <3>3 DEF holdbackTaken, SlotSum
    <3> DEFINE l == payPenalty(takeHoldback(back, c[2], settings.slashCap), c[2], taken, bounty, c[1])
    <3>5. Commit(l)
      BY <1>7, <2>2 DEF voteCapabilityCase
    <3> HIDE DEF back, bounty, taken
    <3>6. Books(l) /\ Surplus(l) = 0
      BY <3>1, <3>2, <3>4, PenaltyBalanced
    <3>7. QED
      BY <2>1, <3>5, <3>6, Balanced
  <2>3. CASE ~confirmed
    <3> DEFINE l == credit(freed, settings.penaltyRecipient, item.bond)
    <3>1. Commit(l)
      BY <1>7, <2>3 DEF voteCapabilityCase
    <3>2. Books(l) /\ Surplus(l) = 0
      BY <2>1, NoSurplus, BondCredited
    <3>3. QED
      BY <2>1, <3>1, <3>2, Balanced
  <2>4. QED
    BY <2>2, <2>3
<1>8. ASSUME NEW c \in CaseIds, resolveTimedOutCapabilityCase(c)
      PROVE  Solvent'
  <2> DEFINE bond == capabilityCases[c].bond
             l == credit([ledger EXCEPT !.totalReporterBonds = @ - bond], c[1], bond)
  <2>1. NotEntered /\ UNCHANGED batch /\ Commit(l) /\ bond \in Nat
    BY <1>8 DEF resolveTimedOutCapabilityCase, OnlyCases, Opened, Solvency, TypeOK, CapabilityCase
  <2>2. Books(l) /\ Surplus(l) = 0
    BY <2>1, NoSurplus, BondCredited
  <2>3. QED
    BY <2>1, <2>2, Balanced
<1>9. ASSUME NEW c \in SettlementKeys \cup DOMAIN capabilityCases, NEW jurors \in Juries, finalizeJury(c, jurors)
      PROVE  Solvent'
  BY <1>9 DEF finalizeJury, Solvency, Solvent
<1>10. QED
  BY <1>1, <1>2, <1>3, <1>4, <1>5, <1>6, <1>7, <1>8, <1>9 DEF NextDisputes

\* In every behaviour the contract holds exactly the five totals it owes: deposits, claims, escrowed fees,
\* holdback and bonds.  Solvent alone is not inductive: a step's effect on the totals is known only for
\* records whose fee is an amount and whose Provider exists, and inside releaseBatch only against the
\* batch's sums; TypeOK says both.
THEOREM AlwaysSolvent == Spec => []Solvent
<1>1. Init => Solvency
  BY TypeInit DEF Solvency, Solvent, Liabilities, Init, Idle
<1>2. Solvency /\ [Next]_vars => Solvent'
  <2> SUFFICES ASSUME Solvency, [Next]_vars PROVE Solvent'
    OBVIOUS
  <2>1. CASE Tick \/ UNCHANGED vars
    BY <2>1 DEF Tick, vars, Solvency, Solvent
  <2>2. QED
    BY <2>1, SolventFunds, SolventReceipts, SolventDisputes DEF Next
<1>3. Spec => []TypeOK
  BY TypeCorrect
<1>4. QED
  BY <1>1, <1>2, <1>3, PTL DEF Spec, Solvency

-----------------------------------------------------------------------------
(* One life per receipt *)

LEMMA SameRecord == ASSUME NEW r \in Settlement PROVE r = [r EXCEPT !.status = r.status]
BY DEF Settlement

LEMMA RecordsKept == ASSUME TypeOK, UNCHANGED settlements PROVE SettlesOnce
BY SameRecord DEF SettlesOnce, TypeOK, Final, PaidStatuses, RefundedStatuses

\* Moving one open receipt to a later status.
LEMMA StatusMoved ==
  ASSUME TypeOK, NEW k \in SettlementKeys, NEW status \in Statuses \ {"None"},
         settlements' = [settlements EXCEPT ![k].status = status],
         \/ settlements[k].status = "Pending"
         \/ settlements[k].status = "Disputed" /\ status \notin {"Pending", "Released", "Voided"}
  PROVE  SettlesOnce
<1>1. settlements \in [SettlementKeys -> Settlement]
  BY DEF TypeOK
<1>2. settlements'[k] = [settlements[k] EXCEPT !.status = status] /\ settlements'[k].status = status
  BY <1>1, NewStatus
<1>3. \A x \in SettlementKeys \ {k} : settlements'[x] = settlements[x]
  BY <1>1
<1>4. ASSUME NEW x \in SettlementKeys, settlements[x].status # "None"
      PROVE  LET r == settlements[x]
                 next == settlements'[x]
             IN  /\ next = [r EXCEPT !.status = next.status] /\ next.status # "None"
                 /\ Final(r.status) => next.status = r.status
                 /\ r.status = "Disputed" => next.status \notin {"Pending", "Released", "Voided"}
  <2>1. CASE x = k
    BY <2>1, <1>2 DEF Final, PaidStatuses, RefundedStatuses
  <2>2. CASE x # k
    BY <2>2, <1>1, <1>3, <1>4, SameRecord
  <2>3. QED
    BY <2>1, <2>2
<1>5. QED
  BY <1>4 DEF SettlesOnce

\* A new record takes no other's place.
LEMMA EscrowNew ==
  ASSUME TypeOK, NEW l, NEW owner, NEW key, NEW a, escrow(l, owner, key, a)
  PROVE  SettlesOnce
<1> DEFINE k == <<key, a.id>>
<1>1. PICK r : settlements' = [settlements EXCEPT ![k] = r]
  BY DEF escrow
<1>2. settlements[k].status = "None"
  BY DEF escrow
<1> HIDE DEF k
<1>3. ASSUME NEW x \in SettlementKeys, settlements[x].status # "None"
      PROVE  settlements'[x] = settlements[x]
  BY <1>1, <1>2, <1>3 DEF TypeOK
<1>4. QED
  BY <1>3, SameRecord DEF SettlesOnce, TypeOK, Final, PaidStatuses, RefundedStatuses

LEMMA ReceiptsSettleOnce == ASSUME TypeOK, NextReceipts PROVE SettlesOnce
<1>1. ASSUME NEW key \in Keys, NEW a \in Authorizations, settle(key, a)
      PROVE  SettlesOnce
  BY <1>1, EscrowNew DEF settle
<1>2. ASSUME NEW o \in Consumers, NEW disputer \in OracleDisputers, NEW a \in Authorizations,
             settleOracle(o, disputer, a)
      PROVE  SettlesOnce
  BY <1>2, EscrowNew DEF settleOracle
<1>3. ASSUME NEW k \in SettlementKeys, release(k) \/ markReleased(k)
      PROVE  SettlesOnce
  BY <1>3, StatusMoved DEF release, Due, markReleased, TypeOK, BatchKnown, Statuses
<1>4. ASSUME NEW c \in Commitments, NEW k \in SettlementKeys, voidProbe(k, c)
      PROVE  SettlesOnce
  BY <1>4, StatusMoved DEF voidProbe, Statuses
<1>5. ASSUME UNCHANGED settlements
      PROVE  SettlesOnce
  BY <1>5, RecordsKept
<1>6. QED
  BY <1>1, <1>2, <1>3, <1>4, <1>5 DEF NextReceipts, releaseBatch, payReleasedItem, finishBatch

LEMMA DisputesSettleOnce == ASSUME TypeOK, NextDisputes PROVE SettlesOnce
<1>1. ASSUME NEW k \in SettlementKeys, NEW sender \in Disputers, openDispute(k, sender)
      PROVE  SettlesOnce
  BY <1>1, StatusMoved DEF openDispute, Statuses
<1>2. ASSUME NEW k \in SettlementKeys, NEW judges \in Quorums, confirmDispute(k, judges) \/ dismissDispute(k, judges)
      PROVE  SettlesOnce
  <2>1. PICK status \in {"Confirmed", "Dismissed"} : settlements' = [settlements EXCEPT ![k].status = status]
    BY <1>2 DEF confirmDispute, dismissDispute
  <2>2. settlements[k].status = "Disputed"
    BY <1>2 DEF confirmDispute, dismissDispute, votable
  <2>3. QED
    BY <2>1, <2>2, StatusMoved DEF Statuses
<1>3. ASSUME NEW k \in SettlementKeys, resolveTimedOutDispute(k)
      PROVE  SettlesOnce
  <2>1. PICK status \in {"JuryUnavailable", "TimedOut"} : settlements' = [settlements EXCEPT ![k].status = status]
    BY <1>3 DEF resolveTimedOutDispute
  <2>2. settlements[k].status = "Disputed"
    BY <1>3 DEF resolveTimedOutDispute
  <2>3. QED
    BY <2>1, <2>2, StatusMoved DEF Statuses
<1>4. ASSUME UNCHANGED settlements
      PROVE  SettlesOnce
  BY <1>4, RecordsKept
<1>5. QED
  BY <1>1, <1>2, <1>3, <1>4
  DEF NextDisputes, claimDisputeBond, openCapabilityCase, voteCapabilityCase, resolveTimedOutCapabilityCase,
      OnlyCases, finalizeJury

\* No step replaces a settled receipt or gives a final one another outcome: a fee is paid out or refunded, and
\* that once, whatever calls follow.  TypeOK is needed for releaseBatch, which marks receipts its own earlier
\* step found due.
THEOREM ReceiptsFinal == Spec => SettledOnce
<1>1. TypeOK /\ [Next]_vars => [SettlesOnce]_vars
  <2> SUFFICES ASSUME TypeOK, [Next]_vars PROVE SettlesOnce
    OBVIOUS
  <2>1. CASE NextFunds \/ Tick \/ UNCHANGED vars
    <3>1. UNCHANGED settlements
      BY <2>1
      DEF NextFunds, Tick, vars, setParams, setProbeMaxFee, setOracle, requestWithdrawal, cancelWithdrawal,
          setKeyBudget, revokeKey, registerKey, authorizeProviderSigner, authorizeRelaySigner,
          revokeProviderSigner, revokeRelaySigner, commitProbes, OnlyGrants, OnlySigners, deposit, withdraw, claim,
          reserveForOracle, releaseOracleReserve, releaseHoldback, OnlyLedger
    <3>2. QED
      BY <3>1, RecordsKept
  <2>2. QED
    BY <2>1, ReceiptsSettleOnce, DisputesSettleOnce DEF Next
<1>2. QED
  BY <1>1, TypeCorrect, PTL DEF Spec, SettledOnce

-----------------------------------------------------------------------------
(* The ring of held-back money *)

\* Parameters are replaced by valid ones only.
LEMMA ParamsKept == ASSUME ValidParams(settings), [Next]_vars PROVE ValidParams(settings')
<1>1. ASSUME NEW p \in ParamChoices, setParams(p) PROVE ValidParams(settings')
  BY <1>1 DEF setParams
<1>2. CASE UNCHANGED settings
  BY <1>2
<1>3. CASE NextFunds
  BY <1>1, <1>2, <1>3
  DEF NextFunds, setProbeMaxFee, setOracle, requestWithdrawal, cancelWithdrawal,
      setKeyBudget, revokeKey, registerKey, authorizeProviderSigner, authorizeRelaySigner,
      revokeProviderSigner, revokeRelaySigner, commitProbes, OnlyGrants, OnlySigners, deposit, withdraw, claim,
      reserveForOracle, releaseOracleReserve, releaseHoldback, OnlyLedger
<1>4. CASE NextReceipts
  BY <1>2, <1>4
  DEF NextReceipts, settle, settleOracle, release, markReleased, releaseBatch, payReleasedItem, finishBatch, voidProbe
<1>5. CASE NextDisputes
  BY <1>2, <1>5
  DEF NextDisputes, openDispute, confirmDispute, dismissDispute, claimDisputeBond, resolveTimedOutDispute,
      openCapabilityCase, voteCapabilityCase, resolveTimedOutCapabilityCase, OnlyCases, finalizeJury
<1>6. CASE Tick \/ UNCHANGED vars
  BY <1>2, <1>6 DEF Tick, vars
<1>7. QED
  BY <1>3, <1>4, <1>5, <1>6 DEF Next

\* The parameters in force are always valid ones: initialize and setParams check them (_setParams), whatever the
\* admin asks for.
THEOREM ParamsValid == Spec => []ValidParams(settings)
<1>1. Init => ValidParams(settings)
  BY DEF Init
<1>2. ValidParams(settings) /\ [Next]_vars => ValidParams(settings)'
  BY ParamsKept DEF ValidParams
<1>3. QED
  BY <1>1, <1>2, PTL DEF Spec

\* Money sits in the slot of its day, and no day is ahead of the clock.
Ringed(b, day) ==
  \A p \in Providers, i \in Slots : b[p][i].amount > 0 => b[p][i].day % HOLDBACK_BUCKETS = i /\ b[p][i].day <= day

Rings == [Providers -> [Slots -> [day: Nat, amount: Nat]]]

LEMMA AddHoldbackRinged ==
  ASSUME now \in Nat, NEW l, DOMAIN l = Fields, l.buckets \in Rings, Ringed(l.buckets, Today), NEW p \in Providers, NEW n
  PROVE  Ringed(addHoldback(l, p, n).buckets, Today)
<1> DEFINE slot == Today % HOLDBACK_BUCKETS
           old == l.buckets[p][slot]
           item == [day |-> Today, amount |-> (IF old.day = Today THEN old.amount ELSE 0) + n]
           b == addHoldback(l, p, n).buckets
<1>1. slot \in Slots /\ Today \in Nat
  BY TodaySlot, BaseAssumption DEF Today
<1>2. b = [l.buckets EXCEPT ![p][slot] = item]
  BY DEF addHoldback, payHoldback, credit, Fields
<1> HIDE DEF b
<1>3. b[p][slot] = item
  BY <1>1, <1>2 DEF Rings
<1>4. \A q \in Providers, i \in Slots : q # p \/ i # slot => b[q][i] = l.buckets[q][i]
  BY <1>1, <1>2 DEF Rings
<1>5. item.day = Today /\ Today % HOLDBACK_BUCKETS = slot /\ Today <= Today
  BY <1>1
<1> HIDE DEF slot, item
<1>6. ASSUME NEW q \in Providers, NEW i \in Slots, b[q][i].amount > 0
      PROVE  b[q][i].day % HOLDBACK_BUCKETS = i /\ b[q][i].day <= Today
  <2>1. CASE q = p /\ i = slot
    BY <1>3, <1>5, <2>1
  <2>2. CASE q # p \/ i # slot
    BY <1>4, <1>6, <2>2 DEF Ringed
  <2>3. QED
    BY <2>1, <2>2
<1>7. QED
  BY <1>6 DEF Ringed, b

LEMMA PayItemRinged ==
  ASSUME now \in Nat, NEW l, DOMAIN l = Fields, l.buckets \in Rings, Ringed(l.buckets, Today), NEW p \in Providers,
         NEW relay, NEW fee
  PROVE  Ringed(payItem(l, p, relay, fee).buckets, Today)
<1> DEFINE gross == providerGross(fee)
           held  == Portion(gross, settings.holdbackBps)
           base  == [l EXCEPT !.exposure[p] = @ - fee, !.clean[p] = @ + fee]
           paid  == credit(credit(base, relay, relayShare(fee)), p, gross - held)
<1>1. DOMAIN paid = Fields /\ paid.buckets = l.buckets
  BY DEF credit, Fields
<1>2. payItem(l, p, relay, fee) = IF held > 0 THEN addHoldback(paid, p, held) ELSE paid
  BY DEF payItem
<1> HIDE DEF paid, held
<1>3. QED
  BY <1>1, <1>2, AddHoldbackRinged

LEMMA PayReleaseRinged ==
  ASSUME now \in Nat, NEW l, DOMAIN l = Fields, l.buckets \in Rings, Ringed(l.buckets, Today), NEW r, r.provider \in Providers
  PROVE  Ringed(payRelease(l, r).buckets, Today)
<1> DEFINE item == payItem(l, r.provider, r.relay, r.fee)
<1>1. DOMAIN item = Fields
  BY DEF payItem, addHoldback, payHoldback, credit, Fields
<1>2. Ringed(item.buckets, Today)
  BY PayItemRinged
<1>3. payRelease(l, r) = payTotals(item, r.fee, treasuryCut(r.fee))
  BY DEF payRelease
<1> HIDE DEF item
<1>4. payTotals(item, r.fee, treasuryCut(r.fee)).buckets = item.buckets
  BY <1>1 DEF payTotals, credit, Fields
<1>5. QED
  BY <1>2, <1>3, <1>4

LEMMA MatureRinged ==
  ASSUME NEW l, DOMAIN l = Fields, l.buckets \in Rings, NEW day, Ringed(l.buckets, day), NEW p \in Providers
  PROVE  Ringed(matureHoldback(l, p).buckets, day)
<1> DEFINE ripe == matureSlots(l, p)
           b == matureHoldback(l, p).buckets
           ring == [i \in Slots |-> LET item == l.buckets[p][i] IN IF i \in ripe THEN [item EXCEPT !.amount = 0] ELSE item]
<1>1. b = [l.buckets EXCEPT ![p] = ring]
  BY DEF matureHoldback, payHoldback, credit, Fields
<1>2. ASSUME NEW i \in Slots PROVE ring[i].day = l.buckets[p][i].day /\ (ring[i].amount > 0 => l.buckets[p][i].amount > 0)
  BY DEF Rings
<1> HIDE DEF b, ring
<1>3. ASSUME NEW q \in Providers, NEW i \in Slots, b[q][i].amount > 0
      PROVE  b[q][i].day % HOLDBACK_BUCKETS = i /\ b[q][i].day <= day
  <2>1. CASE q = p
    BY <1>1, <1>2, <1>3, <2>1 DEF Ringed, Rings
  <2>2. CASE q # p
    BY <1>1, <1>3, <2>2 DEF Ringed, Rings
  <2>3. QED
    BY <2>1, <2>2
<1>4. QED
  BY <1>3 DEF Ringed, b

LEMMA TakeRinged ==
  ASSUME NEW l, DOMAIN l = Fields, l.buckets \in Rings, NEW day, Ringed(l.buckets, day), NEW p \in Providers, NEW n \in Nat
  PROVE  Ringed(takeHoldback(l, p, n).buckets, day)
<1> DEFINE before(i) == SlotSum(l, p, 0 .. i - 1)
           part(i)   == Smaller(l.buckets[p][i].amount, n - Smaller(n, before(i)))
           b == takeHoldback(l, p, n).buckets
           ring == [i \in Slots |-> [l.buckets[p][i] EXCEPT !.amount = @ - part(i)]]
<1>1. b = [l.buckets EXCEPT ![p] = ring]
  BY DEF takeHoldback, Fields
<1>2. ASSUME NEW i \in Slots PROVE ring[i].day = l.buckets[p][i].day /\ (ring[i].amount > 0 => l.buckets[p][i].amount > 0)
  <2>1. l.buckets[p][i] \in [day: Nat, amount: Nat]
    BY DEF Rings
  <2>2. ring[i].day = l.buckets[p][i].day /\ ring[i].amount = l.buckets[p][i].amount - part(i)
    BY <2>1
  <2>3. before(i) \in Int
    <3> DEFINE f == [j \in Slots |-> l.buckets[p][j].amount]
    <3>1. i - 1 \in Int /\ 0 \in Int /\ 0 .. i - 1 \subseteq Slots
      BY BaseAssumption DEF Slots
    <3>2. IsFiniteSet(0 .. i - 1)
      BY ONLY <3>1, FS_Interval
    <3>2a. \A j \in 0 .. i - 1 : f[j] \in Int
      BY <3>1 DEF Rings
    <3>3. before(i) = SumFunctionOnSet(f, 0 .. i - 1)
      BY DEF SlotSum
    <3> HIDE DEF f, before
    <3>4. QED
      BY <3>2, <3>2a, <3>3, SumInt
  <2> HIDE DEF before
  <2>4. part(i) \in Int /\ (l.buckets[p][i].amount = 0 => part(i) = 0)
    BY <2>1, <2>3 DEF Smaller
  <2> HIDE DEF part, ring
  <2>5. QED
    BY <2>1, <2>2, <2>4
<1> HIDE DEF b, ring
<1>3. ASSUME NEW q \in Providers, NEW i \in Slots, b[q][i].amount > 0
      PROVE  b[q][i].day % HOLDBACK_BUCKETS = i /\ b[q][i].day <= day
  <2>1. CASE q = p
    BY <1>1, <1>2, <1>3, <2>1 DEF Ringed, Rings
  <2>2. CASE q # p
    BY <1>1, <1>3, <2>2 DEF Ringed, Rings
  <2>3. QED
    BY <2>1, <2>2
<1>4. QED
  BY <1>3 DEF Ringed, b

\* Only these move money in or out of the ring.
LEMMA RingKept ==
  ASSUME TypeOK, Ringed(ledger.buckets, Today), [NextFunds \/ NextReceipts \/ NextDisputes]_vars
  PROVE  Ringed(ledger'.buckets, Today)
<1> DEFINE Same(l) == l.buckets = ledger.buckets
<1>1. now \in Nat /\ DOMAIN ledger = Fields /\ ledger.buckets \in Rings /\ settings \in Params
  BY DEF TypeOK, Ledger, Rings, Fields
<1>2. ASSUME Same(ledger') PROVE Ringed(ledger'.buckets, Today)
  BY <1>2
<1>3. ASSUME NEW l, DOMAIN l = Fields, NEW a, NEW n
      PROVE  DOMAIN credit(l, a, n) = Fields /\ credit(l, a, n).buckets = l.buckets
  BY <1>3 DEF credit, Fields
<1>4. ASSUME NEW r PROVE DOMAIN refund(ledger, r) = Fields /\ Same(refund(ledger, r))
  BY <1>1 DEF refund, Fields
<1>5. ASSUME NEW k \in SettlementKeys, settlements[k].status # "None"
      PROVE  Ringed(payRelease(ledger, settlements[k]).buckets, Today)
  <2>1. settlements[k].provider \in Providers
    BY <1>5 DEF TypeOK, PartiesKnown
  <2>2. QED
    BY <1>1, <2>1, PayReleaseRinged
<1>6. ASSUME NEW l, DOMAIN l = Fields, Same(l), NEW p \in Providers, NEW n \in Nat, NEW taken, NEW bounty, NEW reporter
      PROVE  Ringed(payPenalty(takeHoldback(l, p, n), p, taken, bounty, reporter).buckets, Today)
  <2> DEFINE t == takeHoldback(l, p, n)
  <2>1. DOMAIN t = Fields
    BY <1>6 DEF takeHoldback, Fields
  <2>2. Ringed(t.buckets, Today)
    BY <1>1, <1>6, TakeRinged
  <2> HIDE DEF t
  <2>3. payPenalty(t, p, taken, bounty, reporter).buckets = t.buckets
    BY <2>1 DEF payPenalty, credit, Fields
  <2>4. QED
    BY <2>2, <2>3 DEF t
<1> SUFFICES ASSUME ~ Same(ledger') PROVE Ringed(ledger'.buckets, Today)
  BY <1>2
<1>10. CASE UNCHANGED vars
  BY <1>10 DEF vars
<1>20. CASE NextFunds
  <2>1. ASSUME NEW p \in Providers, releaseHoldback(p) PROVE Ringed(ledger'.buckets, Today)
    BY <1>1, <2>1, MatureRinged DEF releaseHoldback, Commit
  <2>2. ASSUME NEW o, NEW amount, deposit(o, amount) PROVE FALSE
    BY <1>1, <2>2 DEF deposit, Commit, takeExact, Fields
  <2>3. ASSUME NEW o, withdraw(o) PROVE FALSE
    BY <1>1, <2>3 DEF withdraw, Commit, sendExact, Fields
  <2>4. ASSUME NEW o, claim(o) PROVE FALSE
    BY <1>1, <2>4 DEF claim, Commit, sendExact, Fields
  <2>5. ASSUME NEW o, NEW amount, reserveForOracle(o, amount) \/ releaseOracleReserve(o, amount) PROVE FALSE
    BY <1>1, <2>5 DEF reserveForOracle, releaseOracleReserve, Commit, Fields
  <2>6. QED
    BY <1>20, <2>1, <2>2, <2>3, <2>4, <2>5
    DEF NextFunds, setParams, setProbeMaxFee, setOracle, requestWithdrawal, cancelWithdrawal,
        setKeyBudget, revokeKey, registerKey, authorizeProviderSigner, authorizeRelaySigner,
        revokeProviderSigner, revokeRelaySigner, commitProbes, OnlyGrants, OnlySigners
<1>30. CASE NextReceipts
  <2>1. ASSUME NEW l, DOMAIN l = Fields, Same(l), NEW o, NEW key, NEW a, escrow(l, o, key, a) PROVE FALSE
    BY <2>1 DEF escrow, Commit, Fields
  <2>2. ASSUME NEW key, NEW a, settle(key, a) PROVE FALSE
    BY <1>1, <2>1, <2>2 DEF settle, Fields
  <2>3. ASSUME NEW o, NEW d, NEW a, settleOracle(o, d, a) PROVE FALSE
    BY <1>1, <2>1, <2>3 DEF settleOracle, Fields
  <2>4. ASSUME NEW k \in SettlementKeys, release(k) PROVE Ringed(ledger'.buckets, Today)
    BY <1>5, <2>4 DEF release, Commit, Due
  <2>5. ASSUME NEW t \in Totals, payReleasedItem(t) PROVE Ringed(ledger'.buckets, Today)
    BY <1>1, <2>5, PayItemRinged DEF payReleasedItem, Commit, Totals
  <2>6. ASSUME finishBatch PROVE FALSE
    BY <1>1, <2>6 DEF finishBatch, payTotals, credit, Commit, Fields
  <2>7. ASSUME NEW c, NEW k, voidProbe(k, c) PROVE FALSE
    BY <1>1, <1>4, <2>7 DEF voidProbe, Commit
  <2>8. QED
    BY <1>30, <2>2, <2>3, <2>4, <2>5, <2>6, <2>7 DEF NextReceipts, markReleased, releaseBatch
<1>40. CASE NextDisputes
  <2>1. ASSUME NEW k, NEW sender, openDispute(k, sender) PROVE FALSE
    BY <1>1, <2>1 DEF openDispute, Commit, takeExact, Fields
  <2>2. ASSUME NEW k \in SettlementKeys, NEW judges, confirmDispute(k, judges) PROVE Ringed(ledger'.buckets, Today)
    <3>1. settlements[k].provider \in Providers /\ settlements[k].fee \in Nat
      BY <2>2 DEF confirmDispute, votable, TypeOK, PartiesKnown, Settlement
    <3>2. penaltyOf(settlements[k]) \in Nat
      BY <1>1, <3>1, PortionNat DEF penaltyOf, Smaller, Params
    <3>3. QED
      BY <1>4, <1>6, <2>2, <3>1, <3>2 DEF confirmDispute, Commit
  <2>3. ASSUME NEW k \in SettlementKeys, NEW judges, dismissDispute(k, judges) PROVE Ringed(ledger'.buckets, Today)
    <3> DEFINE released == payRelease(ledger, settlements[k])
    <3>1. DOMAIN released = Fields
      <4> DEFINE r == settlements[k]
                 item == payItem(ledger, r.provider, r.relay, r.fee)
      <4>1. DOMAIN item = Fields
        BY <1>1 DEF payItem, addHoldback, payHoldback, credit, Fields
      <4>2. released = payTotals(item, r.fee, treasuryCut(r.fee))
        BY DEF payRelease
      <4> HIDE DEF item, released
      <4>3. QED
        BY <4>1, <4>2 DEF payTotals, credit, Fields
    <3>2. Ringed(released.buckets, Today)
      BY <1>5, <2>3 DEF dismissDispute, votable
    <3>3. ledger' = credit([released EXCEPT !.totalReporterBonds = @ - disputes[k].totalBond],
                           settings.penaltyRecipient, disputes[k].totalBond)
      BY <2>3 DEF dismissDispute, Commit
    <3> HIDE DEF released
    <3>4. QED
      BY <3>1, <3>2, <3>3 DEF credit, Fields
  <2>4. ASSUME NEW k, claimDisputeBond(k) PROVE FALSE
    BY <1>1, <2>4 DEF claimDisputeBond, credit, Commit, Fields
  <2>5. ASSUME NEW k \in SettlementKeys, resolveTimedOutDispute(k) PROVE Ringed(ledger'.buckets, Today)
    BY <1>4, <1>5, <2>5 DEF resolveTimedOutDispute, Commit
  <2>6. ASSUME NEW c, NEW keys, openCapabilityCase(c, keys) PROVE FALSE
    BY <1>1, <2>6 DEF openCapabilityCase, Commit, takeExact, Fields
  <2>7. ASSUME NEW c \in CaseIds, NEW judges, NEW confirmed \in BOOLEAN, voteCapabilityCase(c, judges, confirmed)
        PROVE  Ringed(ledger'.buckets, Today)
    <3> DEFINE bond  == capabilityCases[c].bond
               freed == [ledger EXCEPT !.totalReporterBonds = @ - bond]
    <3>1. DOMAIN freed = Fields /\ Same(freed)
      BY <1>1 DEF Fields
    <3>2. c[2] \in Providers /\ settings.slashCap \in Nat
      BY <1>1 DEF CaseIds, Params
    <3> DEFINE back    == credit(freed, c[1], bond)
               taken   == holdbackTaken(freed, c[2], settings.slashCap)
               bounty  == Portion(taken, settings.reporterBountyBps)
               struck  == payPenalty(takeHoldback(back, c[2], settings.slashCap), c[2], taken, bounty, c[1])
               kept    == credit(freed, settings.penaltyRecipient, bond)
    <3>3. ledger' = struck \/ ledger' = kept
      BY <2>7 DEF voteCapabilityCase, Commit
    <3> HIDE DEF freed, bond
    <3>4. Same(kept) /\ DOMAIN back = Fields /\ Same(back)
      BY <1>3, <3>1
    <3> HIDE DEF back, taken, bounty, kept
    <3>4a. Ringed(struck.buckets, Today)
      BY <1>6, <3>2, <3>4
    <3> HIDE DEF struck
    <3>5. QED
      BY <3>3, <3>4, <3>4a
  <2>8. ASSUME NEW c, resolveTimedOutCapabilityCase(c) PROVE FALSE
    BY <1>1, <2>8 DEF resolveTimedOutCapabilityCase, credit, Commit, Fields
  <2>9. QED
    BY <1>40, <2>1, <2>2, <2>3, <2>4, <2>5, <2>6, <2>7, <2>8 DEF NextDisputes, finalizeJury
<1>50. QED
  BY <1>10, <1>20, <1>30, <1>40

\* Days with the same slot are at least a ring apart.
LEMMA SameSlot ==
  ASSUME NEW n \in Nat \ {0}, NEW a \in Nat, NEW b \in Nat, a % n = b % n, a < b
  PROVE  a + n <= b
<1> DEFINE p == a \div n
           q == b \div n
           r == a % n
<1>1. p \in Int /\ q \in Int /\ r \in Int /\ a = n * p + r /\ b = n * q + r
  OBVIOUS
<1> HIDE DEF p, q, r
<1>2. ASSUME q <= p PROVE FALSE
  <2>1. n * q <= n * p
    BY <1>1, <1>2
  <2>2. QED
    BY <1>1, <2>1
<1>3. n * (p + 1) <= n * q
  BY <1>1, <1>2
<1>4. n * (p + 1) = n * p + n
  BY <1>1
<1>5. QED
  BY <1>1, <1>3, <1>4

\* The ring of the held-back money, between steps.
RingInv == TypeOK /\ ValidParams(settings) /\ Ringed(ledger.buckets, Today)

LEMMA RingInit == Init => RingInv
<1> SUFFICES ASSUME Init PROVE RingInv
  OBVIOUS
<1>1. ledger.buckets = [p \in Providers |-> [i \in Slots |-> [day |-> 0, amount |-> 0]]]
  BY DEF Init
<1>2. QED
  BY <1>1, TypeInit DEF Init, RingInv, Ringed

LEMMA RingStays == RingInv /\ TypeOK' /\ [Next]_vars => RingInv'
<1> SUFFICES ASSUME RingInv, TypeOK', [Next]_vars PROVE RingInv'
  OBVIOUS
<1>1. ValidParams(settings')
  BY ParamsKept DEF RingInv
<1>2. CASE Tick
  <2>1. ledger' = ledger /\ now \in Nat /\ now' = now + 1 /\ DAY \in Nat \ {0}
    BY <1>2, BaseAssumption DEF Tick, RingInv, TypeOK
  <2>2. Today \in Nat /\ Today' \in Nat /\ Today <= Today'
    <3>1. now \div DAY <= (now + 1) \div DAY /\ now \div DAY \in Nat /\ (now + 1) \div DAY \in Nat
      BY <2>1
    <3>2. QED
      BY <2>1, <3>1 DEF Today
  <2>3. ledger.buckets \in Rings
    BY DEF RingInv, TypeOK, Ledger, Rings
  <2>4. Ringed(ledger'.buckets, Today')
    <3>1. ASSUME NEW p \in Providers, NEW i \in Slots, ledger.buckets[p][i].amount > 0
          PROVE  ledger.buckets[p][i].day % HOLDBACK_BUCKETS = i /\ ledger.buckets[p][i].day <= Today'
      <4>1. ledger.buckets[p][i].day \in Nat
        BY <2>3 DEF Rings
      <4>2. ledger.buckets[p][i].day % HOLDBACK_BUCKETS = i /\ ledger.buckets[p][i].day <= Today
        BY <3>1 DEF RingInv, Ringed
      <4>3. QED
        BY <2>2, <4>1, <4>2
    <3>2. QED
      BY <2>1, <3>1 DEF Ringed
  <2>5. QED
    BY <1>1, <2>4 DEF RingInv
<1>3. CASE now' = now /\ [NextFunds \/ NextReceipts \/ NextDisputes]_vars
  <2>1. Ringed(ledger'.buckets, Today)
    BY <1>3, RingKept DEF RingInv
  <2>2. Today' = Today
    BY <1>3 DEF Today
  <2>3. QED
    BY <1>1, <2>1, <2>2 DEF RingInv
<1>4. NextFunds \/ NextReceipts \/ NextDisputes \/ UNCHANGED vars => now' = now
  <2>1. CASE NextFunds
    BY <2>1
    DEF NextFunds, setParams, setProbeMaxFee, setOracle, deposit, claim, withdraw, requestWithdrawal, cancelWithdrawal,
        setKeyBudget, revokeKey, registerKey, authorizeProviderSigner, authorizeRelaySigner,
        revokeProviderSigner, revokeRelaySigner, commitProbes, OnlyGrants, OnlySigners,
        reserveForOracle, releaseOracleReserve, releaseHoldback, OnlyLedger
  <2>2. CASE NextReceipts
    BY <2>2
    DEF NextReceipts, settle, settleOracle, release, markReleased, releaseBatch, payReleasedItem, finishBatch, voidProbe
  <2>3. CASE NextDisputes
    BY <2>3
    DEF NextDisputes, openDispute, confirmDispute, dismissDispute, claimDisputeBond, resolveTimedOutDispute,
        openCapabilityCase, voteCapabilityCase, resolveTimedOutCapabilityCase, OnlyCases, finalizeJury
  <2>4. QED
    BY <2>1, <2>2, <2>3 DEF vars
<1>5. QED
  BY <1>2, <1>3, <1>4 DEF Next

LEMMA RingMatured == RingInv => ReusedSlotMatured
<1> SUFFICES ASSUME RingInv, NEW p \in Providers,
                    ledger.buckets[p][Today % HOLDBACK_BUCKETS].amount > 0,
                    ledger.buckets[p][Today % HOLDBACK_BUCKETS].day # Today
             PROVE  Today % HOLDBACK_BUCKETS \in matureSlots(ledger, p)
  BY DEF ReusedSlotMatured
<1> DEFINE slot == Today % HOLDBACK_BUCKETS
           day  == ledger.buckets[p][slot].day
           late == settings.holdbackPeriod
<1>1. now \in Nat /\ Today \in Nat /\ slot \in Slots /\ HOLDBACK_BUCKETS \in Nat \ {0} /\ DAY \in Nat \ {0}
  <2>1. now \in Nat /\ HOLDBACK_BUCKETS \in Nat \ {0} /\ DAY \in Nat \ {0}
    BY BaseAssumption DEF RingInv, TypeOK
  <2>2. Today \in Nat
    BY <2>1 DEF Today
  <2>3. QED
    BY <2>1, <2>2, TodaySlot
<1>2. day \in Nat /\ late \in Nat /\ late < HOLDBACK_BUCKETS * DAY
  <2>1. day \in Nat
    BY <1>1 DEF RingInv, TypeOK, Ledger
  <2>2. late \in Nat /\ late < HOLDBACK_BUCKETS * DAY
    BY DEF RingInv, TypeOK, Params, ValidParams
  <2>3. QED
    BY <2>1, <2>2
<1>3. day % HOLDBACK_BUCKETS = slot /\ day <= Today /\ day # Today
  BY <1>1 DEF RingInv, Ringed
<1>4. Today * DAY <= now
  BY <1>1 DEF Today
<1> HIDE DEF day, late
<1>4a. day < Today
  BY <1>1, <1>2, <1>3
<1>5. day + HOLDBACK_BUCKETS <= Today
  BY <1>1, <1>2, <1>3, <1>4a, SameSlot
<1>6. (day + HOLDBACK_BUCKETS) * DAY <= Today * DAY
  <2>1. ASSUME NEW x \in Nat, NEW y \in Nat, NEW n \in Nat, x <= y PROVE x * n <= y * n
    BY <2>1
  <2>2. QED
    BY <1>1, <1>2, <1>5, <2>1
<1>7. (day + HOLDBACK_BUCKETS) * DAY = day * DAY + HOLDBACK_BUCKETS * DAY
  BY <1>1, <1>2
<1>8. day * DAY \in Nat /\ HOLDBACK_BUCKETS * DAY \in Nat /\ Today * DAY \in Nat
  BY <1>1, <1>2
<1>9. day * DAY + late <= now
  BY <1>1, <1>2, <1>4, <1>6, <1>7, <1>8
<1>10. QED
  BY <1>1, <1>9 DEF matureSlots, day, late

\* "A reused slot is at least HOLDBACK_BUCKETS days old, beyond the maximum holdback period, so its balance has
\* matured" (MycoSettlementBaseV11.sol, _addHoldback): for every ring size, period and length of day.
THEOREM ReusedSlots == Spec => []ReusedSlotMatured
<1>1. Init => RingInv
  BY RingInit
<1>2. RingInv /\ TypeOK' /\ [Next]_vars => RingInv'
  BY RingStays
<1>3. RingInv => ReusedSlotMatured
  BY RingMatured
<1>4. QED
  BY <1>1, <1>2, <1>3, TypeCorrect, PTL DEF Spec

-----------------------------------------------------------------------------
(* Verdicts and their votes *)

Votes(k, v) == {j \in Jurors : disputeVotes[k][j] = v}
Voted(k) == Votes(k, 1) \cup Votes(k, 2)
Verdicts == {"Confirmed", "Dismissed"}

\* A verdict has its votes, no vote is there without a verdict, and none came from outside the drawn jury.
Backed(k) ==
  /\ assignments[k].status # "Ready" => assignments[k].jurors = {}
  /\ Voted(k) \subseteq assignments[k].jurors \ {settlements[k].providerSigner, settlements[k].relaySigner}
  /\ settlements[k].status = "Confirmed" => Cardinality(Votes(k, 1)) >= THRESHOLD /\ Votes(k, 2) = {}
  /\ settlements[k].status = "Dismissed" => Cardinality(Votes(k, 2)) >= THRESHOLD /\ Votes(k, 1) = {}
  /\ settlements[k].status \notin Verdicts => Voted(k) = {}

VerdictInv == TypeOK /\ \A k \in SettlementKeys : Backed(k)

LEMMA VotesKept ==
  ASSUME NEW k \in SettlementKeys, Backed(k), disputeVotes'[k] = disputeVotes[k], assignments'[k] = assignments[k],
         settlements'[k] = settlements[k]
  PROVE  Backed(k)'
<1>1. Votes(k, 1)' = Votes(k, 1) /\ Votes(k, 2)' = Votes(k, 2) /\ Voted(k)' = Voted(k)
  BY DEF Votes, Voted
<1>2. QED
  BY <1>1 DEF Backed

LEMMA NoVotes ==
  ASSUME NEW k \in SettlementKeys, Backed(k), disputeVotes'[k] = disputeVotes[k],
         assignments'[k].status # "Ready" => assignments'[k].jurors = {},
         settlements[k].status \notin Verdicts, settlements'[k].status \notin Verdicts
  PROVE  Backed(k)'
<1>1. Voted(k) = {} /\ Votes(k, 1)' = Votes(k, 1) /\ Votes(k, 2)' = Votes(k, 2)
  BY DEF Votes, Backed
<1>2. Voted(k)' = {}
  BY <1>1 DEF Voted
<1>3. QED
  BY <1>2 DEF Backed, Verdicts

\* A receipt's key is a pair and a case's four: neither's jury is the other's.
LEMMA KeyOrCase == ASSUME NEW k \in SettlementKeys, NEW c \in CaseIds PROVE k # c
<1>1. Len(k) = 2 /\ Len(c) = 4
  BY DEF SettlementKeys, CaseIds
<1>2. QED
  BY <1>1

\* A verdict's votes are its judges': each is a juror drawn for the case, and no party to it.
LEMMA VerdictCounted ==
  ASSUME TypeOK, NEW k \in SettlementKeys, Backed(k), NEW judges \in SUBSET Jurors, NEW confirmed \in BOOLEAN,
         votable(k, judges, confirmed), UNCHANGED assignments,
         settlements' = [settlements EXCEPT ![k].status = IF confirmed THEN "Confirmed" ELSE "Dismissed"]
  PROVE  Backed(k)'
<1> DEFINE verdict == IF confirmed THEN 1 ELSE 2
           other   == IF confirmed THEN 2 ELSE 1
           v       == [j \in Jurors |-> IF j \in judges THEN verdict ELSE disputeVotes[k][j]]
           signers == {settlements[k].providerSigner, settlements[k].relaySigner}
<1>1. settlements[k].status = "Disputed" /\ countVotes(k, judges, confirmed) /\ judges \cap signers = {}
  BY DEF votable, independent
<1>2. disputeVotes'[k] = v /\ judges \subseteq assignments[k].jurors /\ Cardinality(judges) = THRESHOLD
  BY <1>1 DEF countVotes, TypeOK, AllCases
<1>3. Voted(k) = {}
  BY <1>1 DEF Backed, Verdicts
<1>4. \A j \in Jurors : disputeVotes[k][j] \notin {1, 2}
  BY <1>3 DEF Voted, Votes
<1>5. Votes(k, verdict)' = judges /\ Votes(k, other)' = {}
  <2>1. \A j \in Jurors : disputeVotes'[k][j] = verdict <=> j \in judges
    BY <1>2, <1>4
  <2>2. \A j \in Jurors : disputeVotes'[k][j] # other
    BY <1>2, <1>4
  <2>3. QED
    BY <2>1, <2>2 DEF Votes
<1>6. /\ settlements'[k].status = IF confirmed THEN "Confirmed" ELSE "Dismissed"
      /\ settlements'[k].providerSigner = settlements[k].providerSigner
      /\ settlements'[k].relaySigner = settlements[k].relaySigner
  BY DEF TypeOK, Settlement
<1>7. THRESHOLD \in Nat
  BY BaseAssumption
<1>8. CASE confirmed
  BY <1>1, <1>2, <1>5, <1>6, <1>7, <1>8 DEF Backed, Voted, Verdicts
<1>9. CASE ~confirmed
  BY <1>1, <1>2, <1>5, <1>6, <1>7, <1>9 DEF Backed, Voted, Verdicts
<1>10. QED
  BY <1>8, <1>9

LEMMA VerdictInit == Init => VerdictInv
<1> SUFFICES ASSUME Init, NEW k \in SettlementKeys PROVE Backed(k)
  BY TypeInit DEF VerdictInv
<1>1. k \in AllCases
  BY DEF AllCases
<1>2. /\ assignments[k].jurors = {} /\ settlements[k].status = "None"
      /\ \A j \in Jurors : disputeVotes[k][j] = 0
  BY <1>1 DEF Init, NoJury, NoSettlement
<1>3. Voted(k) = {}
  BY <1>2 DEF Voted, Votes
<1>4. QED
  BY <1>2, <1>3 DEF Backed, Verdicts

LEMMA VerdictStays == ASSUME VerdictInv, [Next]_vars, NEW x \in SettlementKeys PROVE Backed(x)'
<1>1. /\ settlements \in [SettlementKeys -> Settlement] /\ Backed(x) /\ x \in AllCases
      /\ assignments \in [AllCases -> Assignment] /\ disputeVotes \in [AllCases -> [Jurors -> 0 .. 2]]
      /\ CaseIds \subseteq AllCases /\ SettlementKeys \subseteq AllCases
  BY DEF VerdictInv, TypeOK, AllCases
<1>2. ASSUME UNCHANGED <<settlements, assignments, disputeVotes>> PROVE Backed(x)'
  BY <1>1, <1>2, VotesKept
\* Only the status of one receipt changes, and not to or from a verdict.
<1>3. ASSUME UNCHANGED <<assignments, disputeVotes>>, NEW k \in SettlementKeys, NEW r,
             settlements' = [settlements EXCEPT ![k] = r],
             settlements[k].status \notin Verdicts, r.status \notin Verdicts
      PROVE  Backed(x)'
  <2>1. CASE x = k
    BY <1>1, <1>3, <2>1, NoVotes DEF Backed
  <2>2. CASE x # k
    BY <1>1, <1>3, <2>2, VotesKept
  <2>3. QED
    BY <2>1, <2>2
<1>4. ASSUME UNCHANGED <<assignments, disputeVotes>>, NEW k \in SettlementKeys, NEW status \in Statuses \ Verdicts,
             settlements' = [settlements EXCEPT ![k].status = status], settlements[k].status \notin Verdicts
      PROVE  Backed(x)'
  <2> DEFINE r == [settlements[k] EXCEPT !.status = status]
  <2>1. settlements' = [settlements EXCEPT ![k] = r] /\ r.status = status
    BY <1>1, <1>4 DEF Settlement
  <2> HIDE DEF r
  <2>2. QED
    BY <1>3, <1>4, <2>1
<1>5. CASE NextFunds \/ Tick \/ UNCHANGED vars
  BY <1>2, <1>5
  DEF NextFunds, Tick, vars, setParams, setProbeMaxFee, setOracle, requestWithdrawal, cancelWithdrawal, caseVars,
      setKeyBudget, revokeKey, registerKey, authorizeProviderSigner, authorizeRelaySigner,
      revokeProviderSigner, revokeRelaySigner, commitProbes, OnlyGrants, OnlySigners, deposit, withdraw, claim,
      reserveForOracle, releaseOracleReserve, releaseHoldback, OnlyLedger
<1>6. CASE NextReceipts
  <2>1. ASSUME NEW l, NEW o, NEW key \in Keys \cup Oracles, NEW a \in Authorizations, escrow(l, o, key, a),
               UNCHANGED <<assignments, disputeVotes>>
        PROVE  Backed(x)'
    <3>1. <<key, a.id>> \in SettlementKeys
      BY FeeNat DEF VerdictInv, TypeOK, SettlementKeys
    <3> DEFINE r == [owner |-> o, provider |-> providerSignerOwner[a.providerSigner],
                     relay |-> relaySignerOwner[a.relaySigner], providerSigner |-> a.providerSigner,
                     relaySigner |-> a.relaySigner, fee |-> actualFee(a), issuedAt |-> a.issuedAt,
                     releaseAt |-> now + settings.disputeWindow, status |-> "Pending"]
    <3>2. settlements' = [settlements EXCEPT ![<<key, a.id>>] = r] /\ r.status = "Pending"
      BY <2>1 DEF escrow
    <3>3. settlements[<<key, a.id>>].status = "None"
      BY <2>1 DEF escrow
    <3> HIDE DEF r
    <3>4. QED
      BY <1>3, <2>1, <3>1, <3>2, <3>3 DEF Verdicts
  <2>2. ASSUME NEW key \in Keys, NEW a \in Authorizations, settle(key, a) PROVE Backed(x)'
    BY <2>1, <2>2 DEF settle, caseVars
  <2>3. ASSUME NEW o \in Consumers, NEW d, NEW a \in Authorizations, settleOracle(o, d, a) PROVE Backed(x)'
    <3>1. oracle \in Oracles
      BY <2>3 DEF settleOracle, VerdictInv, TypeOK
    <3>2. QED
      BY <2>1, <2>3, <3>1 DEF settleOracle, caseVars
  <2>4. ASSUME NEW k \in SettlementKeys, release(k) \/ markReleased(k) PROVE Backed(x)'
    <3>1. settlements[k].status = "Pending"
      BY <2>4 DEF release, Due, markReleased, VerdictInv, TypeOK, BatchKnown
    <3>2. settlements' = [settlements EXCEPT ![k].status = "Released"] /\ UNCHANGED <<assignments, disputeVotes>>
      BY <2>4 DEF release, markReleased, caseVars
    <3>3. QED
      BY <1>4, <3>1, <3>2 DEF Verdicts, Statuses
  <2>5. ASSUME NEW k \in SettlementKeys, NEW c, voidProbe(k, c) PROVE Backed(x)'
    BY <1>4, <2>5 DEF voidProbe, Verdicts, Statuses, caseVars
  <2>6. QED
    BY <1>2, <1>6, <2>2, <2>3, <2>4, <2>5 DEF NextReceipts, releaseBatch, payReleasedItem, finishBatch, caseVars
<1>7. CASE NextDisputes
  <2>1. ASSUME NEW k \in SettlementKeys, NEW sender, openDispute(k, sender) PROVE Backed(x)'
    <3>1. PICK requested \in RequestedJury : assignments' = [assignments EXCEPT ![k] = requested]
      BY <2>1 DEF openDispute
    <3>2. requested.jurors = {}
      BY <3>1 DEF RequestedJury, NoJury
    <3>3. /\ settlements' = [settlements EXCEPT ![k].status = "Disputed"] /\ UNCHANGED disputeVotes
          /\ settlements[k].status = "Pending"
      BY <2>1 DEF openDispute
    <3>4. CASE x = k
      <4>1. assignments'[x].jurors = {} /\ settlements'[x].status = "Disputed"
        BY <1>1, <3>1, <3>2, <3>3, <3>4 DEF Settlement
      <4>2. QED
        BY <1>1, <3>3, <3>4, <4>1, NoVotes DEF Verdicts
    <3>5. CASE x # k
      BY <1>1, <3>1, <3>3, <3>5, VotesKept
    <3>6. QED
      BY <3>4, <3>5
  <2>2. ASSUME NEW k \in SettlementKeys, NEW judges \in Quorums, NEW confirmed \in BOOLEAN,
               votable(k, judges, confirmed), UNCHANGED assignments,
               settlements' = [settlements EXCEPT ![k].status = IF confirmed THEN "Confirmed" ELSE "Dismissed"]
        PROVE  Backed(x)'
    <3>1. CASE x = k
      BY <1>1, <2>2, <3>1, VerdictCounted DEF Quorums, VerdictInv
    <3>2. CASE x # k
      <4>1. disputeVotes'[x] = disputeVotes[x] /\ settlements'[x] = settlements[x]
        BY <1>1, <2>2, <3>2 DEF votable, countVotes
      <4>2. QED
        BY <1>1, <2>2, <4>1, VotesKept
    <3>3. QED
      BY <3>1, <3>2
  <2>3. ASSUME NEW k \in SettlementKeys, NEW judges \in Quorums, confirmDispute(k, judges) PROVE Backed(x)'
    <3>1. settlements' = [settlements EXCEPT ![k].status = IF TRUE THEN "Confirmed" ELSE "Dismissed"]
      BY <2>3 DEF confirmDispute
    <3>2. QED
      BY <2>2, <2>3, <3>1 DEF confirmDispute
  <2>4. ASSUME NEW k \in SettlementKeys, NEW judges \in Quorums, dismissDispute(k, judges) PROVE Backed(x)'
    <3>1. settlements' = [settlements EXCEPT ![k].status = IF FALSE THEN "Confirmed" ELSE "Dismissed"]
      BY <2>4 DEF dismissDispute
    <3>2. QED
      BY <2>2, <2>4, <3>1 DEF dismissDispute
  <2>5. ASSUME NEW k \in SettlementKeys, resolveTimedOutDispute(k) PROVE Backed(x)'
    <3>1. PICK status \in {"JuryUnavailable", "TimedOut"} : settlements' = [settlements EXCEPT ![k].status = status]
      BY <2>5 DEF resolveTimedOutDispute
    <3>2. settlements[k].status = "Disputed" /\ UNCHANGED <<assignments, disputeVotes>>
      BY <2>5 DEF resolveTimedOutDispute, caseVars
    <3>3. QED
      BY <1>4, <3>1, <3>2 DEF Verdicts, Statuses
  <2>6. ASSUME NEW c \in CaseIds, NEW keys, openCapabilityCase(c, keys) PROVE Backed(x)'
    <3>1. assignments'[x] = assignments[x] /\ UNCHANGED <<settlements, disputeVotes>>
      BY <1>1, <2>6, KeyOrCase DEF openCapabilityCase
    <3>2. QED
      BY <1>1, <3>1, VotesKept
  <2>7. ASSUME NEW c \in CaseIds, NEW judges, NEW confirmed, voteCapabilityCase(c, judges, confirmed) PROVE Backed(x)'
    <3>1. disputeVotes'[x] = disputeVotes[x] /\ UNCHANGED <<settlements, assignments>>
      BY <1>1, <2>7, KeyOrCase DEF voteCapabilityCase, countVotes, OnlyCases
    <3>2. QED
      BY <1>1, <3>1, VotesKept
  <2>8. ASSUME NEW c \in SettlementKeys \cup DOMAIN capabilityCases, NEW jurors \in Juries, finalizeJury(c, jurors)
        PROVE  Backed(x)'
    <3>1. /\ UNCHANGED <<settlements, disputeVotes>> /\ assignments[c].status = "Pending"
          /\ assignments' = [assignments EXCEPT ![c] = [@ EXCEPT !.status = "Ready", !.jurors = jurors]]
      BY <2>8 DEF finalizeJury
    <3>2. CASE x # c
      BY <1>1, <3>1, <3>2, VotesKept
    <3>3. CASE x = c
      <4>1. Voted(x) = {}
        BY <1>1, <3>1, <3>3 DEF Backed
      <4>2. assignments'[x].status = "Ready"
        BY <1>1, <3>1, <3>3 DEF Assignment
      <4>3. Votes(x, 1)' = Votes(x, 1) /\ Votes(x, 2)' = Votes(x, 2) /\ Voted(x)' = {}
        BY <3>1, <4>1 DEF Votes, Voted
      <4>4. QED
        BY <1>1, <3>1, <4>1, <4>2, <4>3 DEF Backed
    <3>4. QED
      BY <3>2, <3>3
  <2>9. QED
    BY <1>2, <1>7, <2>1, <2>3, <2>4, <2>5, <2>6, <2>7, <2>8
    DEF NextDisputes, claimDisputeBond, resolveTimedOutCapabilityCase, OnlyCases
<1>8. QED
  BY <1>5, <1>6, <1>7 DEF Next

\* A decided dispute was decided by THRESHOLD jurors drawn for it, none of them a signing party, all for one verdict:
\* for every jury size and whatever else is voted on meanwhile.
THEOREM VerdictsBacked == Spec => []VerdictBacked
<1>1. Init => VerdictInv
  BY VerdictInit
<1>2. VerdictInv /\ TypeOK' /\ [Next]_vars => VerdictInv'
  <2> SUFFICES ASSUME VerdictInv, TypeOK', [Next]_vars PROVE VerdictInv'
    OBVIOUS
  <2>1. \A x \in SettlementKeys : Backed(x)'
    BY VerdictStays
  <2>2. QED
    BY <2>1 DEF VerdictInv
<1>3. VerdictInv => VerdictBacked
  BY DEF VerdictInv, Backed, Voted, Votes, Verdicts, VerdictBacked
<1>4. QED
  BY <1>1, <1>2, <1>3, TypeCorrect, PTL DEF Spec

-----------------------------------------------------------------------------
(* Books of money *)

\* A ledger in the middle of a call: its amounts are integers, not yet known to be naturals.
Shaped(l) ==
  /\ DOMAIN l = Fields
  /\ l.available \in [Consumers -> Int] /\ l.reserved \in [Consumers -> Int] /\ l.claimable \in [Accounts -> Int]
  /\ l.exposure \in [Providers -> Int] /\ l.holdback \in [Providers -> Int]
  /\ l.buckets \in [Providers -> [Slots -> [day: Nat, amount: Int]]]
  /\ l.totalAvailable \in Int /\ l.totalClaimable \in Int /\ l.totalPendingFees \in Int
  /\ l.totalHoldback \in Int /\ l.totalReporterBonds \in Int

\* What has been earned and not yet claimed.
Earned(l) == l.totalClaimable + l.totalHoldback

\* Nothing but the earnings and the Provider's record has changed: no deposit, no fee and no bond.
OnlyEarnings(l, m) ==
  /\ m.available = l.available /\ m.reserved = l.reserved /\ m.totalAvailable = l.totalAvailable
  /\ m.exposure = l.exposure /\ m.totalPendingFees = l.totalPendingFees
  /\ m.totalReporterBonds = l.totalReporterBonds

LEMMA FiniteParties == IsFiniteSet(Consumers) /\ IsFiniteSet(Providers) /\ IsFiniteSet(Relays) /\ IsFiniteSet(Slots)
<1>1. IsFiniteSet(Consumers) /\ IsFiniteSet(Providers) /\ IsFiniteSet(Relays)
  BY BaseAssumption, FS_Subset
<1>2. HOLDBACK_BUCKETS - 1 \in Int /\ 0 \in Int
  BY BaseAssumption
<1>3. QED
  BY <1>1, <1>2, FS_Interval DEF Slots

LEMMA LedgerOpen == ASSUME NEW l \in Ledger PROVE Shaped(l)
BY DEF Ledger, Shaped, Fields

LEMMA SlotsSame ==
  ASSUME NEW l, NEW m, NEW p, m.buckets[p] = l.buckets[p], NEW S
  PROVE  SlotSum(m, p, S) = SlotSum(l, p, S)
BY DEF SlotSum

\* Fields the tally reads.
LEMMA TallyKept ==
  ASSUME NEW l, NEW m, Tallied(l), m.available = l.available, m.reserved = l.reserved, m.claimable = l.claimable,
         m.holdback = l.holdback, m.buckets = l.buckets, m.totalAvailable = l.totalAvailable,
         m.totalClaimable = l.totalClaimable, m.totalHoldback = l.totalHoldback
  PROVE  Tallied(m)
<1>1. \A p \in Providers : SlotSum(m, p, Slots) = SlotSum(l, p, Slots)
  BY SlotsSame
<1>2. QED
  BY <1>1 DEF Tallied

-----------------------------------------------------------------------------
(* What each operator on ledgers does to the books *)

\* A credit is earned.
LEMMA CreditTallied ==
  ASSUME NEW l, Shaped(l), Tallied(l), NEW a \in Accounts, NEW n \in Int
  PROVE  /\ Shaped(credit(l, a, n)) /\ Tallied(credit(l, a, n))
         /\ credit(l, a, n).buckets = l.buckets
         /\ OnlyEarnings(l, credit(l, a, n)) /\ Earned(credit(l, a, n)) = Earned(l) + n
<1> DEFINE m == credit(l, a, n)
<1>1. Shaped(m)
  BY DEF credit, Shaped, Fields
<1>2. /\ m.available = l.available /\ m.reserved = l.reserved /\ m.holdback = l.holdback /\ m.buckets = l.buckets
      /\ m.totalAvailable = l.totalAvailable /\ m.totalHoldback = l.totalHoldback /\ m.exposure = l.exposure
      /\ m.totalPendingFees = l.totalPendingFees /\ m.totalReporterBonds = l.totalReporterBonds
      /\ m.totalClaimable = l.totalClaimable + n /\ m.claimable = [l.claimable EXCEPT ![a] = @ + n]
  BY DEF credit, Shaped, Fields
<1> HIDE DEF m
<1>3. SumFunction(m.claimable) = m.totalClaimable
  <2>1. l.claimable \in [Accounts -> Int] /\ l.claimable[a] + n \in Int /\ l.totalClaimable \in Int
    BY DEF Shaped
  <2>2. SumFunction(m.claimable) = SumFunction(l.claimable) - l.claimable[a] + (l.claimable[a] + n)
    BY <1>2, <2>1, BaseAssumption, SumExcept
  <2>3. QED
    BY <1>2, <2>1, <2>2 DEF Tallied
<1>4. ASSUME NEW p \in Providers PROVE SlotSum(m, p, Slots) = SlotSum(l, p, Slots)
  <2>1. m.buckets[p] = l.buckets[p]
    BY <1>2
  <2>2. QED
    BY <2>1, SlotsSame
<1>5. Tallied(m)
  BY <1>2, <1>3, <1>4 DEF Tallied
<1>6. OnlyEarnings(l, m) /\ Earned(m) = Earned(l) + n
  BY <1>2 DEF OnlyEarnings, Earned, Shaped
<1>7. QED
  BY <1>1, <1>2, <1>5, <1>6 DEF m

\* What a slot of the ring holds is added to, or taken from, what its Provider's ring holds.
LEMMA SlotWritten ==
  ASSUME NEW l, Shaped(l), NEW m, NEW p \in Providers, NEW i \in Slots, NEW item \in [day: Nat, amount: Int],
         m.buckets[p] = [l.buckets[p] EXCEPT ![i] = item]
  PROVE  SlotSum(m, p, Slots) = SlotSum(l, p, Slots) - l.buckets[p][i].amount + item.amount
<1> DEFINE f == [j \in Slots |-> l.buckets[p][j].amount]
           g == [j \in Slots |-> m.buckets[p][j].amount]
<1>1. l.buckets[p] \in [Slots -> [day: Nat, amount: Int]]
  BY DEF Shaped
<1>2. m.buckets[p][i] = item /\ \A j \in Slots \ {i} : m.buckets[p][j] = l.buckets[p][j]
  BY <1>1
<1>3. /\ \A j \in Slots : f[j] \in Int /\ g[j] \in Int
      /\ \A j \in Slots \ {i} : g[j] = f[j]
      /\ f[i] = l.buckets[p][i].amount /\ g[i] = item.amount
  BY <1>1, <1>2
<1>4. SlotSum(m, p, Slots) = SumFunctionOnSet(g, Slots) /\ SlotSum(l, p, Slots) = SumFunctionOnSet(f, Slots)
  BY DEF SlotSum
<1> HIDE DEF f, g
<1>5. SumFunctionOnSet(g, Slots) = SumFunctionOnSet(f, Slots) - f[i] + g[i]
  BY <1>3, FiniteParties, SumChange
<1>6. QED
  BY <1>3, <1>4, <1>5

\* Held-back money is earned money, whether or not the slot of the ring is reused.
LEMMA AddHoldbackTallied ==
  ASSUME NEW l, Shaped(l), Tallied(l), NEW p \in Providers, NEW n \in Int, now \in Nat
  PROVE  LET m == addHoldback(l, p, n) IN
         Shaped(m) /\ Tallied(m) /\ OnlyEarnings(l, m) /\ Earned(m) = Earned(l) + n
<1> DEFINE slot == Today % HOLDBACK_BUCKETS
           old  == l.buckets[p][slot]
           kept == IF old.day = Today THEN old.amount ELSE 0
           out  == IF old.day = Today THEN 0 ELSE old.amount
           item == [day |-> Today, amount |-> kept + n]
           m    == addHoldback(l, p, n)
<1>1. slot \in Slots /\ Today \in Nat
  BY TodaySlot, BaseAssumption DEF Today
<1>2. old \in [day: Nat, amount: Int] /\ p \in Accounts
  BY <1>1, BaseAssumption DEF Shaped
<1>3. kept \in Int /\ out \in Int /\ kept + out = old.amount /\ item \in [day: Nat, amount: Int]
  BY <1>1, <1>2
<1> HIDE DEF slot, kept, out, item
<1>4. /\ m.available = l.available /\ m.reserved = l.reserved
      /\ m.totalAvailable = l.totalAvailable /\ m.exposure = l.exposure
      /\ m.totalPendingFees = l.totalPendingFees /\ m.totalReporterBonds = l.totalReporterBonds
      /\ m.totalClaimable = l.totalClaimable + out /\ m.claimable = [l.claimable EXCEPT ![p] = @ + out]
      /\ m.holdback = [l.holdback EXCEPT ![p] = @ - out + n]
      /\ m.totalHoldback = l.totalHoldback - out + n
      /\ m.buckets = [l.buckets EXCEPT ![p] = [@ EXCEPT ![slot] = item]]
      /\ Shaped(m)
  <2>1. CASE old.day = Today
    <3>1. out = 0 /\ kept = old.amount
      BY <2>1 DEF out, kept
    <3>2. /\ [l.claimable EXCEPT ![p] = @ + 0] = l.claimable
          /\ [l.holdback EXCEPT ![p] = @ - 0 + n] = [l.holdback EXCEPT ![p] = @ + n]
      <4>1. l.claimable[p] + 0 = l.claimable[p] /\ l.holdback[p] - 0 + n = l.holdback[p] + n
        BY <1>2 DEF Shaped
      <4>2. [l.claimable EXCEPT ![p] = l.claimable[p]] = l.claimable
        BY DEF Shaped
      <4>3. QED
        BY <4>1, <4>2, Zenon
    <3>5. l.totalClaimable + 0 = l.totalClaimable /\ l.totalHoldback - 0 + n = l.totalHoldback + n
      BY DEF Shaped
    <3>3. m = [l EXCEPT !.buckets[p][slot] = item, !.holdback[p] = @ + n, !.totalHoldback = @ + n]
      BY <2>1 DEF addHoldback, slot, kept, item
    <3> HIDE DEF m
    <3>4. QED
      BY <1>1, <1>3, <3>1, <3>2, <3>3, <3>5 DEF Shaped, Fields
  <2>2. CASE old.day # Today
    <3>1. m = [credit([l EXCEPT !.holdback[p] = @ - out, !.totalHoldback = @ - out], p, out) EXCEPT
                 !.buckets[p][slot] = item, !.holdback[p] = @ + n, !.totalHoldback = @ + n]
      BY <2>2 DEF addHoldback, payHoldback, slot, kept, item, out
    <3> HIDE DEF m
    <3>2. QED
      BY <1>1, <1>2, <1>3, <3>1 DEF credit, Shaped, Fields
  <2>3. QED
    BY <2>1, <2>2
<1> HIDE DEF m
<1>5. l.claimable \in [Accounts -> Int] /\ l.holdback \in [Providers -> Int]
  BY DEF Shaped
<1>6. SumFunction(m.claimable) = m.totalClaimable
  <2>1. SumFunction(m.claimable) = SumFunction(l.claimable) - l.claimable[p] + (l.claimable[p] + out)
    BY <1>2, <1>3, <1>4, <1>5, BaseAssumption, SumExcept
  <2>2. l.totalClaimable \in Int /\ l.claimable[p] \in Int
    BY <1>2 DEF Shaped
  <2>3. QED
    BY <1>3, <1>4, <2>1, <2>2 DEF Tallied
<1>7. SumFunction(m.holdback) = m.totalHoldback
  <2>1. SumFunction(m.holdback) = SumFunction(l.holdback) - l.holdback[p] + (l.holdback[p] - out + n)
    BY <1>3, <1>4, <1>5, FiniteParties, SumExcept
  <2>2. l.totalHoldback \in Int /\ l.holdback[p] \in Int
    BY DEF Shaped
  <2>3. QED
    BY <1>3, <1>4, <2>1, <2>2 DEF Tallied
<1>8. ASSUME NEW q \in Providers PROVE m.holdback[q] = SlotSum(m, q, Slots)
  <2>1. l.holdback[q] = SlotSum(l, q, Slots) /\ l.holdback[q] \in Int
    BY <1>5 DEF Tallied
  <2>2. CASE q = p
    <3>1. m.buckets[p] = [l.buckets[p] EXCEPT ![slot] = item]
      BY <1>4 DEF Shaped
    <3>2. SlotSum(m, p, Slots) = SlotSum(l, p, Slots) - old.amount + item.amount
      BY <1>1, <1>3, <3>1, SlotWritten
    <3>3. m.holdback[p] = l.holdback[p] - out + n
      BY <1>4, <1>5
    <3>4. item.amount = kept + n /\ old.amount \in Int
      BY <1>2 DEF item
    <3> HIDE DEF old
    <3>5. QED
      BY <1>3, <2>1, <2>2, <3>2, <3>3, <3>4
  <2>3. CASE q # p
    <3>1. m.buckets[q] = l.buckets[q] /\ m.holdback[q] = l.holdback[q]
      BY <1>4, <1>5, <2>3 DEF Shaped
    <3>2. QED
      BY <2>1, <3>1, SlotsSame
  <2>4. QED
    BY <2>2, <2>3
<1>9. Tallied(m) /\ OnlyEarnings(l, m)
  BY <1>4, <1>6, <1>7, <1>8 DEF Tallied, OnlyEarnings
<1>10. Earned(m) = Earned(l) + n
  BY <1>3, <1>4 DEF Earned, Shaped
<1>11. QED
  BY <1>4, <1>9, <1>10 DEF m

\* What every slot of a ring loses, the ring loses.
LEMMA RingLoses ==
  ASSUME NEW l, Shaped(l), NEW m, NEW p \in Providers, NEW part \in [Slots -> Int],
         \A i \in Slots : m.buckets[p][i].amount = l.buckets[p][i].amount - part[i]
  PROVE  SlotSum(m, p, Slots) = SlotSum(l, p, Slots) - SumFunctionOnSet(part, Slots)
<1> DEFINE f == [j \in Slots |-> l.buckets[p][j].amount]
           h == [j \in Slots |-> m.buckets[p][j].amount]
<1>1. l.buckets[p] \in [Slots -> [day: Nat, amount: Int]]
  BY DEF Shaped
<1>3. \A j \in Slots : f[j] \in Int /\ part[j] \in Int /\ h[j] = f[j] - part[j]
  BY <1>1
<1>4. SlotSum(m, p, Slots) = SumFunctionOnSet(h, Slots) /\ SlotSum(l, p, Slots) = SumFunctionOnSet(f, Slots)
  BY DEF SlotSum
<1> HIDE DEF f, h
<1>5. SumFunctionOnSet(h, Slots) = SumFunctionOnSet(f, Slots) - SumFunctionOnSet(part, Slots)
  BY <1>3, FiniteParties, SumMinus
<1>6. QED
  BY <1>4, <1>5

\* A Provider's ring and its holdback lose the same: the books still tally.
LEMMA RingTallied ==
  ASSUME NEW l, Shaped(l), Tallied(l), NEW m, Shaped(m), NEW p \in Providers, NEW part \in [Slots -> Int],
         NEW taken \in Int, taken = SumFunctionOnSet(part, Slots),
         NEW ring, m.buckets = [l.buckets EXCEPT ![p] = ring],
         \A i \in Slots : ring[i].amount = l.buckets[p][i].amount - part[i],
         m.holdback = [l.holdback EXCEPT ![p] = @ - taken], m.totalHoldback = l.totalHoldback - taken,
         m.available = l.available, m.reserved = l.reserved, m.totalAvailable = l.totalAvailable,
         SumFunction(m.claimable) = m.totalClaimable
  PROVE  Tallied(m)
<1>1. l.holdback \in [Providers -> Int]
  BY DEF Shaped
<1>2. SumFunction(m.holdback) = m.totalHoldback
  <2>1. SumFunction(m.holdback) = SumFunction(l.holdback) - l.holdback[p] + (l.holdback[p] - taken)
    BY <1>1, FiniteParties, SumExcept
  <2>2. l.totalHoldback \in Int /\ l.holdback[p] \in Int /\ SumFunction(l.holdback) = l.totalHoldback
    BY DEF Shaped, Tallied
  <2>3. QED
    BY <2>1, <2>2
<1>3. ASSUME NEW q \in Providers PROVE m.holdback[q] = SlotSum(m, q, Slots)
  <2>1. l.holdback[q] = SlotSum(l, q, Slots) /\ l.holdback[q] \in Int
    BY <1>1 DEF Tallied
  <2>2. CASE q = p
    <3>1. m.buckets[p] = ring
      BY DEF Shaped
    <3>5. \A i \in Slots : m.buckets[p][i].amount = l.buckets[p][i].amount - part[i]
      BY <3>1
    <3>6. Shaped(l) /\ p \in Providers /\ part \in [Slots -> Int] /\ taken = SumFunctionOnSet(part, Slots)
      OBVIOUS
    <3>2. SlotSum(m, p, Slots) = SlotSum(l, p, Slots) - taken
      BY ONLY <3>5, <3>6, RingLoses
    <3>3. m.holdback[p] = l.holdback[p] - taken
      BY <1>1
    <3>4. QED
      BY <2>1, <2>2, <3>2, <3>3
  <2>3. CASE q # p
    <3>1. m.buckets[q] = l.buckets[q] /\ m.holdback[q] = l.holdback[q]
      BY <1>1, <2>3 DEF Shaped
    <3>2. SlotSum(m, q, Slots) = SlotSum(l, q, Slots)
      BY ONLY <3>1, SlotsSame
    <3>3. QED
      BY ONLY <2>1, <3>1, <3>2
  <2>4. QED
    BY <2>2, <2>3
<1>4. QED
  BY <1>2, <1>3 DEF Tallied

\* Releasing the matured slots moves what they hold from the holdback to what its Provider can claim.
LEMMA MatureTallied ==
  ASSUME NEW l, Shaped(l), Tallied(l), NEW p \in Providers
  PROVE  LET m == matureHoldback(l, p) IN
         Shaped(m) /\ Tallied(m) /\ OnlyEarnings(l, m) /\ Earned(m) = Earned(l)
<1> DEFINE ripe == matureSlots(l, p)
           f    == [i \in Slots |-> l.buckets[p][i].amount]
           part == [i \in Slots |-> IF i \in ripe THEN f[i] ELSE 0]
           x    == SlotSum(l, p, ripe)
           ring == [i \in Slots |-> IF i \in ripe THEN [l.buckets[p][i] EXCEPT !.amount = 0] ELSE l.buckets[p][i]]
           m    == matureHoldback(l, p)
<1>1. ripe \in SUBSET Slots /\ l.buckets[p] \in [Slots -> [day: Nat, amount: Int]] /\ p \in Accounts
  BY BaseAssumption DEF matureSlots, Shaped
<1>2. \A i \in Slots : f[i] \in Int
  BY <1>1
<1>3. part \in [Slots -> Int]
  BY <1>2
<1>4. x = SumFunctionOnSet(part, Slots) /\ x \in Int
  <2>1. x = SumFunctionOnSet(f, ripe)
    BY DEF SlotSum
  <2>2. \A i \in ripe : f[i] \in Int
    BY <1>1, <1>2
  <2> HIDE DEF f, ripe
  <2>3. SumFunctionOnSet(f, ripe) = SumFunctionOnSet(part, Slots)
    BY <1>1, <2>2, FiniteParties, SumOnSubset
  <2>4. SumFunctionOnSet(part, Slots) \in Int
    BY <1>3, FiniteParties, SumInt
  <2>5. QED
    BY <2>1, <2>3, <2>4
<1>5. \A i \in Slots : ring[i].amount = l.buckets[p][i].amount - part[i]
  BY <1>1
<1>6. m = credit([l EXCEPT !.buckets[p] = ring, !.holdback[p] = @ - x, !.totalHoldback = @ - x], p, x)
  BY DEF matureHoldback, payHoldback, Shaped, Fields
<1>7. ring \in [Slots -> [day: Nat, amount: Int]]
  BY <1>1
<1> HIDE DEF m, ring, part, x, ripe, f
<1>8. /\ Shaped(m)
      /\ m.available = l.available /\ m.reserved = l.reserved
      /\ m.totalAvailable = l.totalAvailable /\ m.exposure = l.exposure
      /\ m.totalPendingFees = l.totalPendingFees /\ m.totalReporterBonds = l.totalReporterBonds
      /\ m.totalClaimable = l.totalClaimable + x /\ m.claimable = [l.claimable EXCEPT ![p] = @ + x]
      /\ m.holdback = [l.holdback EXCEPT ![p] = @ - x] /\ m.totalHoldback = l.totalHoldback - x
      /\ m.buckets = [l.buckets EXCEPT ![p] = ring]
  BY <1>1, <1>4, <1>6, <1>7 DEF credit, Shaped, Fields
<1>9. SumFunction(m.claimable) = m.totalClaimable
  <2>1. l.claimable \in [Accounts -> Int] /\ l.claimable[p] \in Int /\ l.totalClaimable \in Int
    BY <1>1 DEF Shaped
  <2>2. SumFunction(m.claimable) = SumFunction(l.claimable) - l.claimable[p] + (l.claimable[p] + x)
    BY <1>1, <1>4, <1>8, <2>1, BaseAssumption, SumExcept
  <2>3. QED
    BY <1>4, <1>8, <2>1, <2>2 DEF Tallied
<1>11. Tallied(m)
  BY <1>3, <1>4, <1>5, <1>8, <1>9, RingTallied
<1>12. OnlyEarnings(l, m) /\ Earned(m) = Earned(l)
  BY <1>4, <1>8 DEF OnlyEarnings, Earned, Shaped
<1>13. QED
  BY <1>8, <1>11, <1>12 DEF m

\* What a penalty takes, slot by slot, adds up to the penalty or to all there is.
LEMMA TakenAdds ==
  ASSUME NEW f \in [Slots -> Nat], NEW amount \in Nat, NEW part \in [Slots -> Nat],
         \A i \in Slots : part[i] = Smaller(f[i], amount - Smaller(amount, SumFunctionOnSet(f, 0 .. i - 1)))
  PROVE  SumFunctionOnSet(part, Slots) = Smaller(amount, SumFunctionOnSet(f, Slots))
<1> DEFINE Good == {T \in SUBSET Slots : \A n \in 0 .. HOLDBACK_BUCKETS : T = 0 .. n - 1 =>
                      SumFunctionOnSet(part, T) = Smaller(amount, SumFunctionOnSet(f, T))}
<1>1. ASSUME NEW T \in SUBSET Slots, \A U \in SUBSET T : U # T => U \in Good
      PROVE  T \in Good
  <2> SUFFICES ASSUME NEW n \in 0 .. HOLDBACK_BUCKETS, T = 0 .. n - 1
               PROVE  SumFunctionOnSet(part, T) = Smaller(amount, SumFunctionOnSet(f, T))
    OBVIOUS
  <2>1. CASE n = 0
    <3>1. T = {}
      BY <2>1
    <3>2. SumFunctionOnSet(part, T) = 0 /\ SumFunctionOnSet(f, T) = 0
      BY <3>1, SumEmpty
    <3>3. Smaller(amount, 0) = 0
      BY DEF Smaller
    <3>4. QED
      BY <3>2, <3>3
  <2>2. CASE n # 0
    <3> DEFINE i == n - 1
               U == 0 .. i - 1
    <3>1. n \in Nat /\ i \in Nat /\ i \in Slots /\ i \in 0 .. HOLDBACK_BUCKETS /\ T = 0 .. i
      BY <2>2, BaseAssumption DEF Slots
    <3>2. U \subseteq T /\ i \notin U /\ T = U \cup {i}
      <4>1. ASSUME NEW j \in Nat PROVE 0 .. j = (0 .. j - 1) \cup {j} /\ j \notin 0 .. j - 1
        OBVIOUS
      <4>2. QED
        BY <3>1, <4>1
    <3>3. U \in SUBSET T /\ U # T
      BY <3>2
    <3>10. U \in Good
      BY <1>1, <3>3
    <3>4. SumFunctionOnSet(part, U) = Smaller(amount, SumFunctionOnSet(f, U))
      BY <3>1, <3>10
    <3>5. IsFiniteSet(U) /\ U \subseteq Slots
      BY <3>2, FiniteParties, FS_Subset
    <3> HIDE DEF i, U
    <3>6. /\ SumFunctionOnSet(part, T) = SumFunctionOnSet(part, U) + part[i]
          /\ SumFunctionOnSet(f, T) = SumFunctionOnSet(f, U) + f[i]
      <4>1. \A y \in U \cup {i} : part[y] \in Int /\ f[y] \in Int
        BY <3>1, <3>5
      <4>2. QED
        BY <3>2, <3>5, <4>1, SumAdd
    <3>7. part[i] = Smaller(f[i], amount - Smaller(amount, SumFunctionOnSet(f, U))) /\ f[i] \in Nat
      BY <3>1 DEF i, U
    <3>8. SumFunctionOnSet(f, U) \in Nat
      BY <3>5, SumNat
    <3>9. ASSUME NEW s \in Nat, NEW x \in Nat
          PROVE  Smaller(amount, s) + Smaller(x, amount - Smaller(amount, s)) = Smaller(amount, s + x)
      BY DEF Smaller
    <3>11. QED
      BY <3>4, <3>6, <3>7, <3>8, <3>9
  <2>3. QED
    BY <2>1, <2>2
<1>2. Slots \in Good
  <2> HIDE DEF Good
  <2>1. \A T \in SUBSET Slots : T \in Good
    BY <1>1, FiniteParties, SubsetInduction
  <2>2. QED
    BY <2>1
<1>3. HOLDBACK_BUCKETS \in 0 .. HOLDBACK_BUCKETS /\ Slots = 0 .. HOLDBACK_BUCKETS - 1
  BY BaseAssumption DEF Slots
<1>4. QED
  BY <1>2, <1>3

\* A penalty is taken out of the holdback, and out of nothing else.
LEMMA TakeHoldbackTallied ==
  ASSUME NEW l, Shaped(l), Tallied(l), NEW p \in Providers, NEW amount \in Nat,
         l.buckets \in [Providers -> [Slots -> [day: Nat, amount: Nat]]]
  PROVE  LET m == takeHoldback(l, p, amount) IN
         /\ holdbackTaken(l, p, amount) \in Nat
         /\ Shaped(m) /\ Tallied(m) /\ OnlyEarnings(l, m)
         /\ Earned(m) = Earned(l) - holdbackTaken(l, p, amount)
<1> DEFINE f     == [i \in Slots |-> l.buckets[p][i].amount]
           part  == [i \in Slots |-> Smaller(f[i], amount - Smaller(amount, SumFunctionOnSet(f, 0 .. i - 1)))]
           taken == holdbackTaken(l, p, amount)
           ring  == [i \in Slots |-> [l.buckets[p][i] EXCEPT !.amount = l.buckets[p][i].amount - part[i]]]
           m     == takeHoldback(l, p, amount)
<1>1. f \in [Slots -> Nat] /\ l.buckets[p] \in [Slots -> [day: Nat, amount: Nat]]
  OBVIOUS
<1>2. part \in [Slots -> Nat]
  <2> SUFFICES ASSUME NEW i \in Slots PROVE part[i] \in Nat
    OBVIOUS
  <2>1. (0 .. i - 1) \subseteq Slots
    BY BaseAssumption DEF Slots
  <2>2. IsFiniteSet(0 .. i - 1)
    BY <2>1, FiniteParties, FS_Subset
  <2>3. \A j \in 0 .. i - 1 : f[j] \in Nat
    BY <1>1, <2>1
  <2>4. f[i] \in Nat
    BY <1>1
  <2>5. part[i] = Smaller(f[i], amount - Smaller(amount, SumFunctionOnSet(f, 0 .. i - 1)))
    OBVIOUS
  <2> HIDE DEF f, part
  <2>6. SumFunctionOnSet(f, 0 .. i - 1) \in Nat
    BY <2>2, <2>3, SumNat
  <2>7. QED
    BY <2>4, <2>5, <2>6 DEF Smaller
<1>3. taken = SumFunctionOnSet(part, Slots) /\ taken \in Nat
  <2>1. taken = Smaller(amount, SumFunctionOnSet(f, Slots))
    BY DEF holdbackTaken, SlotSum
  <2>2. \A i \in Slots : part[i] = Smaller(f[i], amount - Smaller(amount, SumFunctionOnSet(f, 0 .. i - 1)))
    OBVIOUS
  <2> HIDE DEF f, part, taken
  <2>3. SumFunctionOnSet(part, Slots) = Smaller(amount, SumFunctionOnSet(f, Slots))
    BY <1>1, <1>2, <2>2, TakenAdds
  <2>4. SumFunctionOnSet(f, Slots) \in Nat
    BY <1>1, FiniteParties, SumNat
  <2>5. QED
    BY <2>1, <2>3, <2>4 DEF Smaller
<1>4. \A i \in Slots : ring[i].amount = l.buckets[p][i].amount - part[i]
  BY <1>1
<1>5. ring \in [Slots -> [day: Nat, amount: Int]]
  <2> HIDE DEF part, f
  <2>1. QED
    BY <1>1, <1>2
<1>6. m = [l EXCEPT !.buckets[p] = ring, !.holdback[p] = @ - taken, !.totalHoldback = @ - taken]
  BY DEF takeHoldback, SlotSum
<1> HIDE DEF f, part, taken, ring, m
<1>7. /\ Shaped(m)
      /\ m.available = l.available /\ m.reserved = l.reserved /\ m.claimable = l.claimable
      /\ m.totalAvailable = l.totalAvailable /\ m.exposure = l.exposure
      /\ m.totalPendingFees = l.totalPendingFees /\ m.totalReporterBonds = l.totalReporterBonds
      /\ m.totalClaimable = l.totalClaimable
      /\ m.holdback = [l.holdback EXCEPT ![p] = @ - taken] /\ m.totalHoldback = l.totalHoldback - taken
      /\ m.buckets = [l.buckets EXCEPT ![p] = ring]
  BY <1>3, <1>5, <1>6 DEF Shaped, Fields
<1>8. SumFunction(m.claimable) = m.totalClaimable
  BY <1>7 DEF Tallied
<1>9. part \in [Slots -> Int] /\ taken \in Int /\ Shaped(l) /\ Tallied(l) /\ p \in Providers
  BY <1>2, <1>3
<1>10. Tallied(m)
  BY ONLY <1>3, <1>4, <1>7, <1>8, <1>9, RingTallied
<1>11. OnlyEarnings(l, m) /\ Earned(m) = Earned(l) - taken
  BY <1>3, <1>7 DEF OnlyEarnings, Earned, Shaped
<1>12. QED
  BY <1>3, <1>7, <1>10, <1>11 DEF m, taken

-----------------------------------------------------------------------------
(* Paying out, refunding and forfeiting *)

\* What each Consumer has deposited and not spent.
balanceOf(l) == [o \in Consumers |-> l.available[o] + l.reserved[o]]

\* Deposits and bonds are as they were.
SameDeposits(l, m) ==
  /\ m.available = l.available /\ m.reserved = l.reserved /\ m.totalAvailable = l.totalAvailable
  /\ m.totalReporterBonds = l.totalReporterBonds

\* One total of a release: its fee leaves the Provider's exposure and is earned, but for the treasury's cut.
LEMMA PayItemTallied ==
  ASSUME settings \in Params, now \in Nat, NEW l, Shaped(l), Tallied(l), NEW p \in Providers, NEW r \in Relays,
         NEW fee \in Nat, providerGross(fee) >= 0
  PROVE  LET m == payItem(l, p, r, fee) IN
         /\ Shaped(m) /\ Tallied(m) /\ SameDeposits(l, m)
         /\ m.exposure = [l.exposure EXCEPT ![p] = @ - fee] /\ m.totalPendingFees = l.totalPendingFees
         /\ Earned(m) = Earned(l) + (fee - treasuryCut(fee))
<1> DEFINE gross == providerGross(fee)
           held  == Portion(gross, settings.holdbackBps)
           base  == [l EXCEPT !.exposure[p] = @ - fee, !.clean[p] = @ + fee]
           one   == credit(base, r, relayShare(fee))
           paid  == credit(one, p, gross - held)
           m     == payItem(l, p, r, fee)
<1>1. relayShare(fee) \in Nat /\ treasuryCut(fee) \in Nat /\ gross \in Nat
  BY SharesNat
<1>2. held \in Nat
  <2>1. settings.holdbackBps \in Nat
    BY DEF Params
  <2> HIDE DEF gross
  <2>2. QED
    BY <1>1, <2>1, PortionNat
<1>3. p \in Accounts /\ r \in Accounts
  BY BaseAssumption
<1>4. gross = fee - relayShare(fee) - treasuryCut(fee)
  BY DEF providerGross
<1>5. m = IF held > 0 THEN addHoldback(paid, p, held) ELSE paid
  BY DEF payItem
<1> HIDE DEF gross, held, m
<1>6. /\ Shaped(base) /\ SameDeposits(l, base) /\ base.totalPendingFees = l.totalPendingFees
      /\ base.exposure = [l.exposure EXCEPT ![p] = @ - fee] /\ Earned(base) = Earned(l)
      /\ base.available = l.available /\ base.reserved = l.reserved /\ base.claimable = l.claimable
      /\ base.holdback = l.holdback /\ base.buckets = l.buckets /\ base.totalAvailable = l.totalAvailable
      /\ base.totalClaimable = l.totalClaimable /\ base.totalHoldback = l.totalHoldback
  BY DEF Shaped, Fields, SameDeposits, Earned
<1>7. Shaped(l) /\ Tallied(l)
  OBVIOUS
<1> HIDE DEF base
<1>8. Tallied(base)
  BY ONLY <1>6, <1>7, TallyKept
<1> HIDE DEF one
<1>9. Shaped(one) /\ Tallied(one) /\ OnlyEarnings(base, one) /\ Earned(one) = Earned(base) + relayShare(fee)
  BY <1>1, <1>3, <1>6, <1>8, CreditTallied DEF one
<1> HIDE DEF paid
<1>10. Shaped(paid) /\ Tallied(paid) /\ OnlyEarnings(one, paid) /\ Earned(paid) = Earned(one) + (gross - held)
  <2>1. gross - held \in Int
    BY <1>1, <1>2
  <2>2. QED
    BY <1>3, <1>9, <2>1, CreditTallied DEF paid
<1>11. Shaped(m) /\ Tallied(m) /\ OnlyEarnings(paid, m) /\ Earned(m) = Earned(paid) + held
  <2>1. CASE held > 0
    BY <1>2, <1>5, <1>10, <2>1, AddHoldbackTallied
  <2>2. CASE ~(held > 0)
    <3>1. held = 0 /\ m = paid /\ Earned(paid) \in Int
      BY <1>2, <1>5, <1>10, <2>2 DEF Shaped, Earned
    <3>2. QED
      BY <1>10, <3>1 DEF OnlyEarnings
  <2>3. QED
    BY <2>1, <2>2
<1>12. Earned(l) \in Int /\ Earned(base) \in Int
  BY <1>6 DEF Shaped, Earned
<1>13. Earned(m) = Earned(l) + (fee - treasuryCut(fee))
  BY <1>1, <1>2, <1>4, <1>6, <1>9, <1>10, <1>11, <1>12
<1>14. SameDeposits(l, m) /\ m.exposure = base.exposure /\ m.totalPendingFees = base.totalPendingFees
  BY <1>6, <1>9, <1>10, <1>11 DEF OnlyEarnings, SameDeposits
<1>15. QED
  BY <1>6, <1>11, <1>13, <1>14 DEF m

\* The end of a release: its fees leave the escrow, and the treasury's cut is earned.
LEMMA PayTotalsTallied ==
  ASSUME settings \in Params, NEW l, Shaped(l), Tallied(l), NEW total \in Nat, NEW treasury \in Nat
  PROVE  LET m == payTotals(l, total, treasury) IN
         /\ Shaped(m) /\ Tallied(m) /\ SameDeposits(l, m)
         /\ m.exposure = l.exposure /\ m.totalPendingFees = l.totalPendingFees - total
         /\ Earned(m) = Earned(l) + treasury
<1> DEFINE base == [l EXCEPT !.totalPendingFees = @ - total]
           m == payTotals(l, total, treasury)
<1>1. /\ Shaped(base) /\ SameDeposits(l, base) /\ base.totalPendingFees = l.totalPendingFees - total
      /\ base.exposure = l.exposure /\ Earned(base) = Earned(l)
      /\ base.available = l.available /\ base.reserved = l.reserved /\ base.claimable = l.claimable
      /\ base.holdback = l.holdback /\ base.buckets = l.buckets /\ base.totalAvailable = l.totalAvailable
      /\ base.totalClaimable = l.totalClaimable /\ base.totalHoldback = l.totalHoldback
  BY DEF Shaped, Fields, SameDeposits, Earned
<1>2. settings.penaltyRecipient \in Accounts /\ Shaped(l) /\ Tallied(l)
  BY DEF Params
<1> HIDE DEF base
<1>3. Tallied(base)
  BY ONLY <1>1, <1>2, TallyKept
<1>4. m = credit(base, settings.penaltyRecipient, treasury)
  BY DEF payTotals, base
<1> HIDE DEF m
<1>5. Shaped(m) /\ Tallied(m) /\ OnlyEarnings(base, m) /\ Earned(m) = Earned(base) + treasury
  BY <1>1, <1>2, <1>3, <1>4, CreditTallied
<1>6. QED
  BY <1>1, <1>5 DEF OnlyEarnings, SameDeposits, m

\* A single release: the whole fee leaves the escrow and is earned.
LEMMA PayReleaseTallied ==
  ASSUME settings \in Params, now \in Nat, NEW l, Shaped(l), Tallied(l), NEW r,
         r.provider \in Providers, r.relay \in Relays, r.fee \in Nat, providerGross(r.fee) >= 0
  PROVE  LET m == payRelease(l, r) IN
         /\ Shaped(m) /\ Tallied(m) /\ SameDeposits(l, m)
         /\ m.exposure = [l.exposure EXCEPT ![r.provider] = @ - r.fee]
         /\ m.totalPendingFees = l.totalPendingFees - r.fee
         /\ Earned(m) = Earned(l) + r.fee
<1> DEFINE item == payItem(l, r.provider, r.relay, r.fee)
           m == payRelease(l, r)
<1>1. treasuryCut(r.fee) \in Nat
  BY SharesNat
<1>2. m = payTotals(item, r.fee, treasuryCut(r.fee))
  BY DEF payRelease
<1> HIDE DEF m, item
<1>3. /\ Shaped(item) /\ Tallied(item) /\ SameDeposits(l, item)
      /\ item.exposure = [l.exposure EXCEPT ![r.provider] = @ - r.fee]
      /\ item.totalPendingFees = l.totalPendingFees
      /\ Earned(item) = Earned(l) + (r.fee - treasuryCut(r.fee))
  BY PayItemTallied DEF item
<1>4. /\ Shaped(m) /\ Tallied(m) /\ SameDeposits(item, m)
      /\ m.exposure = item.exposure /\ m.totalPendingFees = item.totalPendingFees - r.fee
      /\ Earned(m) = Earned(item) + treasuryCut(r.fee)
  <2>1. settings \in Params /\ r.fee \in Nat
    OBVIOUS
  <2>2. QED
    BY ONLY <1>1, <1>2, <1>3, <2>1, PayTotalsTallied
<1>5. Earned(l) \in Int /\ Earned(item) \in Int
  BY <1>3 DEF Shaped, Earned
<1>6. QED
  BY <1>1, <1>3, <1>4, <1>5 DEF SameDeposits, m

\* A refund gives the fee back to its owner, and nothing is earned.
LEMMA RefundTallied ==
  ASSUME NEW l, Shaped(l), Tallied(l), NEW r, r.provider \in Providers, r.owner \in Consumers, r.fee \in Nat
  PROVE  LET m == refund(l, r) IN
         /\ Shaped(m) /\ Tallied(m)
         /\ m.available = [l.available EXCEPT ![r.owner] = @ + r.fee] /\ m.reserved = l.reserved
         /\ m.totalReporterBonds = l.totalReporterBonds
         /\ m.exposure = [l.exposure EXCEPT ![r.provider] = @ - r.fee]
         /\ m.totalPendingFees = l.totalPendingFees - r.fee
         /\ m.buckets = l.buckets /\ Earned(m) = Earned(l)
<1> DEFINE m == refund(l, r)
<1>1. /\ Shaped(m)
      /\ m.available = [l.available EXCEPT ![r.owner] = @ + r.fee] /\ m.reserved = l.reserved
      /\ m.totalAvailable = l.totalAvailable + r.fee
      /\ m.totalReporterBonds = l.totalReporterBonds
      /\ m.exposure = [l.exposure EXCEPT ![r.provider] = @ - r.fee]
      /\ m.totalPendingFees = l.totalPendingFees - r.fee
      /\ m.claimable = l.claimable /\ m.holdback = l.holdback /\ m.buckets = l.buckets
      /\ m.totalClaimable = l.totalClaimable /\ m.totalHoldback = l.totalHoldback
  BY DEF refund, Shaped, Fields
<1> HIDE DEF m
<1>2. SumFunction(m.available) + SumFunction(m.reserved) = m.totalAvailable
  <2>1. /\ l.available \in [Consumers -> Int] /\ l.available[r.owner] \in Int
        /\ SumFunction(l.available) + SumFunction(l.reserved) = l.totalAvailable
    BY DEF Shaped, Tallied
  <2>2. SumFunction(m.available) = SumFunction(l.available) - l.available[r.owner] + (l.available[r.owner] + r.fee)
    BY <1>1, <2>1, FiniteParties, SumExcept
  <2>3. SumFunction(l.available) \in Int /\ SumFunction(l.reserved) \in Int
    BY FiniteParties, SumWholeInt DEF Shaped
  <2>4. QED
    BY <1>1, <2>1, <2>2, <2>3
<1>3. ASSUME NEW q \in Providers PROVE SlotSum(m, q, Slots) = SlotSum(l, q, Slots)
  <2>1. m.buckets[q] = l.buckets[q]
    BY <1>1
  <2>2. QED
    BY ONLY <2>1, SlotsSame
<1>4. Tallied(m)
  BY <1>1, <1>2, <1>3 DEF Tallied
<1>5. QED
  BY <1>1, <1>4 DEF Earned, m

\* A forfeited holdback is earned by the reporter and the treasury.
LEMMA PayPenaltyTallied ==
  ASSUME settings \in Params, NEW l, Shaped(l), Tallied(l), NEW p \in Providers, NEW taken \in Nat,
         NEW bounty \in Nat, NEW reporter \in Accounts
  PROVE  LET m == payPenalty(l, p, taken, bounty, reporter) IN
         Shaped(m) /\ Tallied(m) /\ OnlyEarnings(l, m) /\ Earned(m) = Earned(l) + taken
<1> DEFINE base == [l EXCEPT !.clean[p] = 0]
           one == credit(base, reporter, bounty)
           m == payPenalty(l, p, taken, bounty, reporter)
<1>1. /\ Shaped(base) /\ OnlyEarnings(l, base) /\ Earned(base) = Earned(l)
      /\ base.available = l.available /\ base.reserved = l.reserved /\ base.claimable = l.claimable
      /\ base.holdback = l.holdback /\ base.buckets = l.buckets /\ base.totalAvailable = l.totalAvailable
      /\ base.totalClaimable = l.totalClaimable /\ base.totalHoldback = l.totalHoldback
  BY DEF Shaped, Fields, OnlyEarnings, Earned
<1>2. settings.penaltyRecipient \in Accounts /\ Shaped(l) /\ Tallied(l)
  BY DEF Params
<1>3. m = credit(one, settings.penaltyRecipient, taken - bounty)
  BY DEF payPenalty
<1> HIDE DEF base, one, m
<1>4. Tallied(base)
  BY ONLY <1>1, <1>2, TallyKept
<1>5. Shaped(one) /\ Tallied(one) /\ OnlyEarnings(base, one) /\ Earned(one) = Earned(base) + bounty
  BY <1>1, <1>4, CreditTallied DEF one
<1>6. Shaped(m) /\ Tallied(m) /\ OnlyEarnings(one, m) /\ Earned(m) = Earned(one) + (taken - bounty)
  BY <1>2, <1>3, <1>5, CreditTallied
<1>7. Earned(l) \in Int
  BY DEF Shaped, Earned
<1>8. QED
  BY <1>1, <1>5, <1>6, <1>7 DEF OnlyEarnings, m

\* A Consumer's deposits move, free or reserved.
LEMMA DepositsMove ==
  ASSUME NEW l, Shaped(l), Tallied(l), NEW m, Shaped(m), NEW o \in Consumers, NEW free \in Int, NEW kept \in Int,
         m.available = [l.available EXCEPT ![o] = @ + free], m.reserved = [l.reserved EXCEPT ![o] = @ + kept],
         m.totalAvailable = l.totalAvailable + free + kept,
         m.claimable = l.claimable, m.holdback = l.holdback, m.buckets = l.buckets,
         m.totalClaimable = l.totalClaimable, m.totalHoldback = l.totalHoldback
  PROVE  /\ Tallied(m) /\ Earned(m) = Earned(l)
         /\ balanceOf(m) = [balanceOf(l) EXCEPT ![o] = @ + free + kept]
<1>1. /\ l.available \in [Consumers -> Int] /\ l.available[o] \in Int
      /\ l.reserved \in [Consumers -> Int] /\ l.reserved[o] \in Int
      /\ l.totalAvailable \in Int /\ SumFunction(l.available) + SumFunction(l.reserved) = l.totalAvailable
  BY DEF Shaped, Tallied
<1>2. SumFunction(m.available) + SumFunction(m.reserved) = m.totalAvailable
  <2>1. SumFunction([l.available EXCEPT ![o] = @ + free]) = SumFunction(l.available) - l.available[o] + (l.available[o] + free)
    BY <1>1, FiniteParties, SumExcept
  <2>2. SumFunction([l.reserved EXCEPT ![o] = @ + kept]) = SumFunction(l.reserved) - l.reserved[o] + (l.reserved[o] + kept)
    BY <1>1, FiniteParties, SumExcept
  <2>3. SumFunction(l.available) \in Int /\ SumFunction(l.reserved) \in Int
    BY <1>1, FiniteParties, SumWholeInt
  <2>4. QED
    BY <1>1, <2>1, <2>2, <2>3
<1>3. ASSUME NEW q \in Providers PROVE SlotSum(m, q, Slots) = SlotSum(l, q, Slots)
  <2>1. m.buckets[q] = l.buckets[q]
    OBVIOUS
  <2>2. QED
    BY ONLY <2>1, SlotsSame
<1>4. Tallied(m)
  BY <1>2, <1>3 DEF Tallied
<1>5. balanceOf(m) = [balanceOf(l) EXCEPT ![o] = @ + free + kept]
  <2>1. m.available[o] = l.available[o] + free /\ m.reserved[o] = l.reserved[o] + kept
    BY <1>1
  <2>2. m.available[o] + m.reserved[o] = l.available[o] + l.reserved[o] + free + kept
    BY <1>1, <2>1
  <2>3. \A c \in Consumers \ {o} : m.available[c] = l.available[c] /\ m.reserved[c] = l.reserved[c]
    BY <1>1
  <2>4. QED
    BY <2>2, <2>3 DEF balanceOf
<1>6. QED
  BY <1>4, <1>5 DEF Earned

\* A bond is posted or freed: the books still tally.
LEMMA BondMoved ==
  ASSUME NEW l, Shaped(l), Tallied(l), NEW m, DOMAIN m = Fields,
         \A f \in Fields \ {"token", "wallet", "totalReporterBonds"} : m[f] = l[f], m.totalReporterBonds \in Int
  PROVE  /\ Shaped(m) /\ Tallied(m) /\ Earned(m) = Earned(l) /\ balanceOf(m) = balanceOf(l)
         /\ m.exposure = l.exposure /\ m.totalPendingFees = l.totalPendingFees /\ m.buckets = l.buckets
<1>1. /\ m.exposure = l.exposure /\ m.totalPendingFees = l.totalPendingFees
      /\ m.available = l.available /\ m.reserved = l.reserved /\ m.claimable = l.claimable
      /\ m.holdback = l.holdback /\ m.buckets = l.buckets /\ m.totalAvailable = l.totalAvailable
      /\ m.totalClaimable = l.totalClaimable /\ m.totalHoldback = l.totalHoldback
  BY DEF Fields
<1>2. Shaped(m) /\ Tallied(l)
  BY <1>1 DEF Shaped
<1>3. Tallied(m)
  BY ONLY <1>1, <1>2, TallyKept
<1>4. QED
  BY <1>1, <1>2, <1>3 DEF Earned, balanceOf

-----------------------------------------------------------------------------
(* What the steps of the settlement do to its books *)

\* What a ledger owes and holds: deposits, exposure, escrow, bonds and earnings.
Owes(l, balance, exposure, pending, bonds, earned) ==
  /\ balanceOf(l) = balance /\ l.exposure = exposure /\ l.totalPendingFees = pending
  /\ l.totalReporterBonds = bonds /\ Earned(l) = earned

OwesSame == Owes(ledger', balanceOf(ledger), ledger.exposure, ledger.totalPendingFees, ledger.totalReporterBonds,
                 Earned(ledger))

OnlyFunds == UNCHANGED <<settlements, batch, disputes, capabilityCases>>

\* No money moves, or only from the holdback to what its Provider can claim.
Rested == OwesSame /\ OnlyFunds

\* A Consumer deposits, withdraws, or has money reserved.
Banked == \E o \in Consumers, n \in Nat :
  /\ Owes(ledger', [balanceOf(ledger) EXCEPT ![o] = n], ledger.exposure, ledger.totalPendingFees,
          ledger.totalReporterBonds, Earned(ledger))
  /\ OnlyFunds

\* Somebody claims what it earned.
Claimed == \E n \in Nat \ {0} :
  /\ Owes(ledger', balanceOf(ledger), ledger.exposure, ledger.totalPendingFees, ledger.totalReporterBonds,
          Earned(ledger) - n)
  /\ OnlyFunds

\* A receipt settles.
HeldStep(k, r) ==
  /\ NotEntered /\ settlements[k].status = "None"
  /\ r \in Settlement /\ r.status = "Pending" /\ r.owner \in Consumers /\ r.provider \in Providers
  /\ r.fee > 0 /\ r.fee <= balanceOf(ledger)[r.owner]
  /\ settlements' = [settlements EXCEPT ![k] = r]
  /\ Owes(ledger', [balanceOf(ledger) EXCEPT ![r.owner] = @ - r.fee],
          [ledger.exposure EXCEPT ![r.provider] = @ + r.fee], ledger.totalPendingFees + r.fee,
          ledger.totalReporterBonds, Earned(ledger))
  /\ UNCHANGED <<batch, disputes, capabilityCases>>

\* A receipt's fee is paid out; with a dismissal the bond is, too.
PaidStep(k, status, bond) ==
  LET r == settlements[k] IN
  /\ NotEntered
  /\ \/ r.status = "Pending" /\ status = "Released" /\ bond = 0
     \/ r.status = "Disputed" /\ status = "TimedOut" /\ bond = 0
     \/ r.status = "Disputed" /\ status = "Dismissed" /\ bond = disputes[k].totalBond
  /\ settlements' = [settlements EXCEPT ![k].status = status]
  /\ Owes(ledger', balanceOf(ledger), [ledger.exposure EXCEPT ![r.provider] = @ - r.fee],
          ledger.totalPendingFees - r.fee, ledger.totalReporterBonds - bond, Earned(ledger) + r.fee + bond)
  /\ UNCHANGED <<batch, disputes, capabilityCases>>

\* A receipt's fee is refunded.
RefundedStep(k, status) ==
  LET r == settlements[k] IN
  /\ NotEntered
  /\ \/ r.status = "Pending" /\ status = "Voided"
     \/ r.status = "Disputed" /\ status \in {"Confirmed", "JuryUnavailable"}
  /\ settlements' = [settlements EXCEPT ![k].status = status]
  /\ Owes(ledger', [balanceOf(ledger) EXCEPT ![r.owner] = @ + r.fee],
          [ledger.exposure EXCEPT ![r.provider] = @ - r.fee], ledger.totalPendingFees - r.fee,
          ledger.totalReporterBonds, Earned(ledger))
  /\ \A x \in SettlementKeys :
       /\ disputes'[x].reporter = disputes[x].reporter /\ disputes'[x].totalBond = disputes[x].totalBond
       /\ disputes'[x].bondClaimed = disputes[x].bondClaimed
  /\ UNCHANGED <<batch, capabilityCases>>

\* releaseBatch begins, marks a receipt, pays one of its totals, and ends.
BatchBegun ==
  NotEntered /\ batch' = [Idle EXCEPT !.running = TRUE, !.keys = batch'.keys] /\ UNCHANGED <<ledger, settlements>>

BatchPaid(t) ==
  LET fee == batch.items[t]
      cut == treasuryCut(fee) IN
  /\ cut \in Nat
  /\ Owes(ledger', balanceOf(ledger), [ledger.exposure EXCEPT ![t[1]] = @ - fee], ledger.totalPendingFees,
          ledger.totalReporterBonds, Earned(ledger) + (fee - cut))
  /\ batch' = [batch EXCEPT !.items[t] = 0, !.total = @ + fee, !.treasury = @ + cut]
  /\ UNCHANGED settlements

BatchDone ==
  /\ batch.items = NoTotals /\ batch' = Idle
  /\ Owes(ledger', balanceOf(ledger), ledger.exposure, ledger.totalPendingFees - batch.total,
          ledger.totalReporterBonds, Earned(ledger) + batch.treasury)
  /\ UNCHANGED settlements

BatchStep ==
  /\ UNCHANGED <<disputes, capabilityCases>>
  /\ \/ BatchBegun
     \/ \E k \in SettlementKeys : markReleased(k)
     \/ \E t \in Totals : BatchPaid(t)
     \/ BatchDone

\* A bond is posted, with a dispute or with a capability case.
DisputedStep(k) ==
  LET bond == disputes'[k].totalBond IN
  /\ NotEntered /\ settlements[k].status = "Pending"
  /\ settlements' = [settlements EXCEPT ![k].status = "Disputed"]
  /\ bond \in Nat /\ disputes'[k].reporter # NoOne /\ ~disputes'[k].bondClaimed
  /\ \A x \in SettlementKeys \ {k} : disputes'[x] = disputes[x]
  /\ Owes(ledger', balanceOf(ledger), ledger.exposure, ledger.totalPendingFees, ledger.totalReporterBonds + bond,
          Earned(ledger))
  /\ UNCHANGED <<batch, capabilityCases>>

CaseStep(c) ==
  LET bond == capabilityCases'[c].bond IN
  /\ NotEntered /\ c \notin DOMAIN capabilityCases /\ bond \in Nat /\ capabilityCases'[c].status = "Open"
  /\ DOMAIN capabilityCases' = DOMAIN capabilityCases \cup {c}
  /\ \A e \in DOMAIN capabilityCases : capabilityCases'[e] = capabilityCases[e]
  /\ Owes(ledger', balanceOf(ledger), ledger.exposure, ledger.totalPendingFees, ledger.totalReporterBonds + bond,
          Earned(ledger))
  /\ UNCHANGED <<settlements, batch, disputes>>

\* A bond goes back, or to the treasury.
ReturnedStep(k) ==
  LET bond == disputes[k].totalBond IN
  /\ NotEntered /\ BondHeld(k) /\ settlements[k].status # "Disputed"
  /\ disputes' = [disputes EXCEPT ![k].bondClaimed = TRUE]
  /\ Owes(ledger', balanceOf(ledger), ledger.exposure, ledger.totalPendingFees, ledger.totalReporterBonds - bond,
          Earned(ledger) + bond)
  /\ UNCHANGED <<settlements, batch, capabilityCases>>

ClosedStep(c) ==
  LET bond == capabilityCases[c].bond IN
  /\ NotEntered /\ c \in DOMAIN capabilityCases /\ capabilityCases[c].status = "Open"
  /\ DOMAIN capabilityCases' = DOMAIN capabilityCases
  /\ capabilityCases'[c].status # "Open"
  /\ \A e \in DOMAIN capabilityCases \ {c} : capabilityCases'[e] = capabilityCases[e]
  /\ Owes(ledger', balanceOf(ledger), ledger.exposure, ledger.totalPendingFees, ledger.totalReporterBonds - bond,
          Earned(ledger) + bond)
  /\ UNCHANGED <<settlements, batch, disputes>>

-----------------------------------------------------------------------------
\* Between calls a ledger is in order.
LEMMA LedgerKept ==
  ASSUME UNCHANGED <<ledger, settlements, batch, disputes, capabilityCases>>, Tallied(ledger)
  PROVE  Tallied(ledger') /\ Rested
BY DEF Rested, OwesSame, Owes, OnlyFunds

LEMMA FundsSteps ==
  ASSUME TypeOK, Tallied(ledger), NextFunds
  PROVE  Tallied(ledger') /\ (Rested \/ Banked \/ Claimed)
<1>0. ledger \in Ledger /\ Shaped(ledger)
  BY LedgerOpen DEF TypeOK
<1>1. ASSUME NEW o \in Consumers, NEW free \in Int, NEW kept \in Int, ledger' \in Ledger, OnlyFunds,
             ledger'.available = [ledger.available EXCEPT ![o] = @ + free],
             ledger'.reserved = [ledger.reserved EXCEPT ![o] = @ + kept],
             ledger'.totalAvailable = ledger.totalAvailable + free + kept,
             \A f \in Fields \ {"token", "wallet", "available", "reserved", "totalAvailable"} : ledger'[f] = ledger[f]
      PROVE  Tallied(ledger') /\ Banked
  <2>1. /\ ledger'.claimable = ledger.claimable /\ ledger'.holdback = ledger.holdback
        /\ ledger'.buckets = ledger.buckets /\ ledger'.totalClaimable = ledger.totalClaimable
        /\ ledger'.totalHoldback = ledger.totalHoldback /\ ledger'.exposure = ledger.exposure
        /\ ledger'.totalPendingFees = ledger.totalPendingFees
        /\ ledger'.totalReporterBonds = ledger.totalReporterBonds
    BY <1>1 DEF Fields
  <2>2. Shaped(ledger') /\ Tallied(ledger) /\ balanceOf(ledger')[o] \in Nat
    BY <1>1, LedgerOpen DEF Ledger, balanceOf
  <2>3. /\ Tallied(ledger') /\ Earned(ledger') = Earned(ledger)
        /\ balanceOf(ledger') = [balanceOf(ledger) EXCEPT ![o] = @ + free + kept]
    BY ONLY <1>0, <1>1, <2>1, <2>2, DepositsMove
  <2>4. balanceOf(ledger') = [balanceOf(ledger) EXCEPT ![o] = balanceOf(ledger')[o]]
    BY <2>3 DEF balanceOf
  <2>5. QED
    BY <1>1, <2>1, <2>2, <2>3, <2>4 DEF Banked, Owes
<1>2. ASSUME NEW o \in Consumers, NEW n \in DepositAmounts, deposit(o, n)
      PROVE  Tallied(ledger') /\ Banked
  <2>1. n \in Int /\ 0 \in Int /\ OnlyFunds /\ ledger' \in Ledger
        /\ ledger' = [takeExact(ledger, o, n) EXCEPT !.available[o] = @ + n, !.totalAvailable = @ + n]
    BY <1>2, InputAssumption DEF deposit, OnlyLedger, OnlyFunds, Commit, caseVars
  <2>2. ledger.reserved[o] + 0 = ledger.reserved[o] /\ ledger.totalAvailable + n + 0 = ledger.totalAvailable + n
    BY <1>0, <2>1 DEF Shaped
  <2>3. /\ ledger'.available = [ledger.available EXCEPT ![o] = @ + n]
        /\ ledger'.reserved = ledger.reserved
        /\ ledger'.totalAvailable = ledger.totalAvailable + n
        /\ \A f \in Fields \ {"token", "wallet", "available", "reserved", "totalAvailable"} : ledger'[f] = ledger[f]
    BY <1>0, <2>1 DEF takeExact, Shaped, Fields
  <2>4. [ledger.reserved EXCEPT ![o] = @ + 0] = ledger.reserved
    BY <1>0, <2>2 DEF Shaped
  <2>5. QED
    BY ONLY <1>1, <2>1, <2>2, <2>3, <2>4
<1>3. ASSUME NEW o \in Consumers, withdraw(o)
      PROVE  Tallied(ledger') /\ Banked
  <2> DEFINE n == withdrawals[o].amount
  <2>1. n \in Nat /\ OnlyFunds /\ ledger' \in Ledger
        /\ ledger' = sendExact([ledger EXCEPT !.available[o] = @ - n, !.totalAvailable = @ - n], o, n)
    BY <1>3 DEF withdraw, OnlyFunds, Commit, caseVars, TypeOK
  <2> HIDE DEF n
  <2>2. /\ ledger.reserved[o] + 0 = ledger.reserved[o] /\ ledger.available[o] + -n = ledger.available[o] - n
        /\ ledger.totalAvailable + -n + 0 = ledger.totalAvailable - n /\ 0 \in Int /\ -n \in Int
    BY <1>0, <2>1 DEF Shaped
  <2>3. /\ ledger'.available = [ledger.available EXCEPT ![o] = ledger.available[o] - n]
        /\ ledger'.reserved = ledger.reserved
        /\ ledger'.totalAvailable = ledger.totalAvailable - n
        /\ \A f \in Fields \ {"token", "wallet", "available", "reserved", "totalAvailable"} : ledger'[f] = ledger[f]
    BY <1>0, <2>1 DEF sendExact, Shaped, Fields
  <2>4. /\ [ledger.reserved EXCEPT ![o] = @ + 0] = ledger.reserved
        /\ [ledger.available EXCEPT ![o] = @ + -n] = [ledger.available EXCEPT ![o] = ledger.available[o] - n]
    BY <1>0, <2>2 DEF Shaped
  <2>5. QED
    BY ONLY <1>1, <2>1, <2>2, <2>3, <2>4
<1>4. ASSUME NEW o \in Consumers, NEW n \in OracleAmounts, reserveForOracle(o, n)
      PROVE  Tallied(ledger') /\ Banked
  <2>1. n \in Nat /\ OnlyFunds /\ ledger' \in Ledger
        /\ ledger' = [ledger EXCEPT !.available[o] = @ - n, !.reserved[o] = @ + n]
    BY <1>4, InputAssumption DEF reserveForOracle, OnlyLedger, OnlyFunds, Commit, caseVars
  <2>2. /\ ledger.available[o] + -n = ledger.available[o] - n
        /\ ledger.totalAvailable + -n + n = ledger.totalAvailable /\ n \in Int /\ -n \in Int
    BY <1>0, <2>1 DEF Shaped
  <2>3. /\ ledger'.available = [ledger.available EXCEPT ![o] = ledger.available[o] - n]
        /\ ledger'.reserved = [ledger.reserved EXCEPT ![o] = @ + n]
        /\ ledger'.totalAvailable = ledger.totalAvailable
        /\ \A f \in Fields \ {"token", "wallet", "available", "reserved", "totalAvailable"} : ledger'[f] = ledger[f]
    BY <1>0, <2>1 DEF Shaped, Fields
  <2>4. [ledger.available EXCEPT ![o] = @ + -n] = [ledger.available EXCEPT ![o] = ledger.available[o] - n]
    BY <2>2
  <2>5. QED
    BY ONLY <1>1, <2>1, <2>2, <2>3, <2>4
<1>5. ASSUME NEW o \in Consumers, NEW n \in OracleAmounts, releaseOracleReserve(o, n)
      PROVE  Tallied(ledger') /\ Banked
  <2>1. n \in Nat /\ OnlyFunds /\ ledger' \in Ledger
        /\ ledger' = [ledger EXCEPT !.reserved[o] = @ - n, !.available[o] = @ + n]
    BY <1>5, InputAssumption DEF releaseOracleReserve, OnlyLedger, OnlyFunds, Commit, caseVars
  <2>2. /\ ledger.reserved[o] + -n = ledger.reserved[o] - n
        /\ ledger.totalAvailable + n + -n = ledger.totalAvailable /\ n \in Int /\ -n \in Int
    BY <1>0, <2>1 DEF Shaped
  <2>3. /\ ledger'.available = [ledger.available EXCEPT ![o] = @ + n]
        /\ ledger'.reserved = [ledger.reserved EXCEPT ![o] = ledger.reserved[o] - n]
        /\ ledger'.totalAvailable = ledger.totalAvailable
        /\ \A f \in Fields \ {"token", "wallet", "available", "reserved", "totalAvailable"} : ledger'[f] = ledger[f]
    BY <1>0, <2>1 DEF Shaped, Fields
  <2>4. [ledger.reserved EXCEPT ![o] = @ + -n] = [ledger.reserved EXCEPT ![o] = ledger.reserved[o] - n]
    BY <2>2
  <2>5. QED
    BY ONLY <1>1, <2>1, <2>2, <2>3, <2>4
<1>6. ASSUME NEW a \in Claimants, claim(a)
      PROVE  Tallied(ledger') /\ Claimed
  <2> DEFINE n == ledger.claimable[a]
  <2>1. n \in Nat \ {0} /\ OnlyFunds /\ ledger' \in Ledger /\ a \in Accounts
        /\ ledger' = sendExact([ledger EXCEPT !.claimable[a] = 0, !.totalClaimable = @ - n], a, n)
    BY <1>0, <1>6, InputAssumption DEF claim, OnlyLedger, OnlyFunds, Commit, caseVars, Ledger
  <2> HIDE DEF n
  <2>2. /\ ledger'.claimable = [ledger.claimable EXCEPT ![a] = 0]
        /\ ledger'.totalClaimable = ledger.totalClaimable - n
        /\ \A f \in Fields \ {"token", "wallet", "claimable", "totalClaimable"} : ledger'[f] = ledger[f]
    BY <1>0, <2>1 DEF sendExact, Shaped, Fields
  <2>3. /\ ledger'.available = ledger.available /\ ledger'.reserved = ledger.reserved
        /\ ledger'.totalAvailable = ledger.totalAvailable /\ ledger'.exposure = ledger.exposure
        /\ ledger'.totalPendingFees = ledger.totalPendingFees /\ ledger'.holdback = ledger.holdback
        /\ ledger'.totalHoldback = ledger.totalHoldback /\ ledger'.buckets = ledger.buckets
        /\ ledger'.totalReporterBonds = ledger.totalReporterBonds
    BY <2>2 DEF Fields
  <2>4. ledger.claimable \in [Accounts -> Int] /\ ledger.totalClaimable \in Int /\ ledger.totalHoldback \in Int
    BY <1>0 DEF Shaped
  <2>5. SumFunction(ledger'.claimable) = ledger'.totalClaimable
    <3>1. SumFunction([ledger.claimable EXCEPT ![a] = 0]) = SumFunction(ledger.claimable) - ledger.claimable[a] + 0
      <4>1. IsFiniteSet(Accounts) /\ a \in Accounts /\ 0 \in Int
        BY <2>1, BaseAssumption
      <4>2. QED
        BY ONLY <2>4, <4>1, SumExcept
    <3>2. QED
      BY <2>1, <2>2, <2>4, <3>1 DEF Tallied, n
  <2>6. ASSUME NEW q \in Providers PROVE SlotSum(ledger', q, Slots) = SlotSum(ledger, q, Slots)
    <3>1. ledger'.buckets[q] = ledger.buckets[q]
      BY <2>3
    <3>2. QED
      BY ONLY <3>1, SlotsSame
  <2>7. Tallied(ledger')
    BY <2>3, <2>5, <2>6 DEF Tallied
  <2>8. Earned(ledger') = Earned(ledger) - n /\ balanceOf(ledger') = balanceOf(ledger)
    BY <2>1, <2>2, <2>3, <2>4 DEF Earned, balanceOf
  <2>9. QED
    BY <2>1, <2>3, <2>7, <2>8 DEF Claimed, Owes
<1>7. ASSUME NEW p \in Providers, releaseHoldback(p)
      PROVE  Tallied(ledger') /\ Rested
  <2>1. ledger' = matureHoldback(ledger, p) /\ OnlyFunds
    BY <1>7 DEF releaseHoldback, OnlyLedger, OnlyFunds, Commit, caseVars
  <2>2. Tallied(ledger') /\ OnlyEarnings(ledger, ledger') /\ Earned(ledger') = Earned(ledger)
    BY <1>0, <2>1, MatureTallied
  <2>3. QED
    BY <2>1, <2>2 DEF Rested, OwesSame, Owes, OnlyEarnings, balanceOf
<1>8. CASE UNCHANGED <<ledger, settlements, batch, disputes, capabilityCases>>
  BY <1>8, LedgerKept
<1>9. QED
  BY <1>2, <1>3, <1>4, <1>5, <1>6, <1>7, <1>8
  DEF NextFunds, setParams, setProbeMaxFee, setOracle, requestWithdrawal, cancelWithdrawal, setKeyBudget, revokeKey,
      registerKey, authorizeProviderSigner, authorizeRelaySigner, revokeProviderSigner, revokeRelaySigner,
      commitProbes, OnlyGrants, OnlySigners, caseVars

\* From a ledger the payer's fee has been taken from, a receipt settles.
LEMMA EscrowStep ==
  ASSUME TypeOK, NotEntered, NEW l, Shaped(l), Tallied(l), NEW owner \in Consumers, NEW key \in Keys \cup Oracles,
         NEW a \in Authorizations, escrow(l, owner, key, a), UNCHANGED <<batch, disputes, capabilityCases>>,
         Owes(l, [balanceOf(ledger) EXCEPT ![owner] = @ - actualFee(a)], ledger.exposure, ledger.totalPendingFees,
              ledger.totalReporterBonds, Earned(ledger)),
         actualFee(a) <= balanceOf(ledger)[owner]
  PROVE  Tallied(ledger') /\ \E k \in SettlementKeys, r \in Settlement : HeldStep(k, r)
<1> DEFINE k == <<key, a.id>>
           fee == actualFee(a)
           r == [owner |-> owner, provider |-> providerSignerOwner[a.providerSigner],
                 relay |-> relaySignerOwner[a.relaySigner], providerSigner |-> a.providerSigner,
                 relaySigner |-> a.relaySigner, fee |-> fee, issuedAt |-> a.issuedAt,
                 releaseAt |-> now + settings.disputeWindow, status |-> "Pending"]
           m == [l EXCEPT !.totalPendingFees = @ + fee, !.exposure[r.provider] = @ + fee]
<1>1. now \in Nat /\ settings.disputeWindow \in Nat
  BY BaseAssumption DEF TypeOK, Params
<1>2. fee \in Nat /\ k \in SettlementKeys /\ a.providerSigner \in Signers /\ a.relaySigner \in Signers /\ a.issuedAt \in Nat
  BY <1>1, FeeNat DEF SettlementKeys
<1>3. r.provider \in Providers /\ r \in Settlement
  <2> HIDE DEF fee
  <2>1. r.provider \in Providers /\ r.relay \in Relays
    BY <1>2 DEF escrow, TypeOK
  <2>2. QED
    BY <1>1, <1>2, <2>1 DEF Settlement, Statuses
<1>4. settlements[k].status = "None" /\ settlements' = [settlements EXCEPT ![k] = r] /\ ledger' = m /\ fee > 0
  BY DEF escrow, Commit
<1>5. r.owner = owner /\ r.fee = fee /\ r.status = "Pending"
  OBVIOUS
<1>6. Shaped(l) /\ Tallied(l) /\ fee \in Int
  BY <1>2
<1> HIDE DEF k, fee, r
<1>7. /\ Tallied(m) /\ Earned(m) = Earned(l) /\ balanceOf(m) = balanceOf(l)
      /\ m.exposure = [l.exposure EXCEPT ![r.provider] = @ + fee] /\ m.totalPendingFees = l.totalPendingFees + fee
      /\ m.totalReporterBonds = l.totalReporterBonds
  <2>1. /\ m.exposure = [l.exposure EXCEPT ![r.provider] = @ + fee] /\ m.totalPendingFees = l.totalPendingFees + fee
        /\ m.totalReporterBonds = l.totalReporterBonds
        /\ m.available = l.available /\ m.reserved = l.reserved /\ m.claimable = l.claimable
        /\ m.holdback = l.holdback /\ m.buckets = l.buckets /\ m.totalAvailable = l.totalAvailable
        /\ m.totalClaimable = l.totalClaimable /\ m.totalHoldback = l.totalHoldback
    BY <1>6 DEF Shaped, Fields
  <2> HIDE DEF m
  <2>2. Tallied(m)
    BY ONLY <1>6, <2>1, TallyKept
  <2>3. QED
    BY <2>1, <2>2 DEF Earned, balanceOf
<1> HIDE DEF m
<1>8. Owes(ledger', [balanceOf(ledger) EXCEPT ![r.owner] = @ - r.fee],
           [ledger.exposure EXCEPT ![r.provider] = @ + r.fee], ledger.totalPendingFees + r.fee,
           ledger.totalReporterBonds, Earned(ledger))
  BY <1>4, <1>5, <1>7 DEF Owes, fee
<1>9. r.fee <= balanceOf(ledger)[r.owner]
  BY <1>5 DEF fee
<1>10. HeldStep(k, r)
  BY <1>3, <1>4, <1>5, <1>8, <1>9 DEF HeldStep
<1>11. QED
  BY <1>2, <1>3, <1>4, <1>7, <1>10

\* A settled record names its parties.
LEMMA RecordKnown ==
  ASSUME TypeOK, NEW k \in SettlementKeys, settlements[k].status # "None"
  PROVE  /\ settlements[k].provider \in Providers /\ settlements[k].owner \in Consumers
         /\ settlements[k].relay \in Relays /\ settlements[k].fee \in Nat
         /\ settings \in Params /\ now \in Nat /\ Shaped(ledger)
BY LedgerOpen, BaseAssumption DEF TypeOK, PartiesKnown, Settlement

LEMMA PaidRelease ==
  ASSUME TypeOK, Tallied(ledger), NEW k \in SettlementKeys, settlements[k].status # "None",
         providerGross(settlements[k].fee) >= 0
  PROVE  LET r == settlements[k]
             m == payRelease(ledger, r) IN
         /\ Shaped(m) /\ Tallied(m)
         /\ Owes(m, balanceOf(ledger), [ledger.exposure EXCEPT ![r.provider] = @ - r.fee],
                 ledger.totalPendingFees - r.fee, ledger.totalReporterBonds, Earned(ledger) + r.fee)
BY RecordKnown, PayReleaseTallied DEF SameDeposits, Owes, balanceOf

LEMMA RefundedFee ==
  ASSUME TypeOK, Tallied(ledger), NEW k \in SettlementKeys, settlements[k].status # "None"
  PROVE  LET r == settlements[k]
             m == refund(ledger, r) IN
         /\ Shaped(m) /\ Tallied(m) /\ m.buckets = ledger.buckets
         /\ Owes(m, [balanceOf(ledger) EXCEPT ![r.owner] = @ + r.fee],
                 [ledger.exposure EXCEPT ![r.provider] = @ - r.fee],
                 ledger.totalPendingFees - r.fee, ledger.totalReporterBonds, Earned(ledger))
<1> DEFINE r == settlements[k]
           m == refund(ledger, r)
<1>1. /\ r.provider \in Providers /\ r.owner \in Consumers /\ r.fee \in Nat /\ Shaped(ledger) /\ Tallied(ledger)
  BY RecordKnown
<1> HIDE DEF r, m
<1>2. /\ Shaped(m) /\ Tallied(m)
      /\ m.available = [ledger.available EXCEPT ![r.owner] = @ + r.fee] /\ m.reserved = ledger.reserved
      /\ m.totalReporterBonds = ledger.totalReporterBonds
      /\ m.exposure = [ledger.exposure EXCEPT ![r.provider] = @ - r.fee]
      /\ m.totalPendingFees = ledger.totalPendingFees - r.fee
      /\ m.buckets = ledger.buckets /\ Earned(m) = Earned(ledger)
  BY <1>1, RefundTallied DEF m
<1>3. balanceOf(m) = [balanceOf(ledger) EXCEPT ![r.owner] = @ + r.fee]
  <2>1. /\ ledger.available \in [Consumers -> Int] /\ ledger.reserved \in [Consumers -> Int]
    BY <1>1 DEF Shaped
  <2>2. /\ m.available[r.owner] + m.reserved[r.owner] = ledger.available[r.owner] + ledger.reserved[r.owner] + r.fee
        /\ \A c \in Consumers \ {r.owner} : m.available[c] = ledger.available[c] /\ m.reserved[c] = ledger.reserved[c]
    BY <1>1, <1>2, <2>1
  <2>3. QED
    BY <1>1, <2>2 DEF balanceOf
<1>4. QED
  BY <1>2, <1>3 DEF Owes, r, m

\* The steps that settle, release, refund and batch receipts.
ReceiptStep ==
  \E k \in SettlementKeys :
    \/ \E r \in Settlement : HeldStep(k, r)
    \/ \E status \in Statuses, bond \in Nat : PaidStep(k, status, bond)
    \/ \E status \in Statuses : RefundedStep(k, status)

LEMMA ReceiptsSteps ==
  ASSUME TypeOK, Tallied(ledger), NextReceipts
  PROVE  Tallied(ledger') /\ (ReceiptStep \/ BatchStep)
<1>0. ledger \in Ledger /\ Shaped(ledger) /\ settings \in Params /\ now \in Nat /\ batch \in Batch
  BY LedgerOpen, BaseAssumption DEF TypeOK
<1>1. ASSUME NEW key \in Keys, NEW a \in Authorizations, settle(key, a)
      PROVE  Tallied(ledger') /\ ReceiptStep
  <2> DEFINE o == keyGrants[key].owner
             fee == actualFee(a)
             l == [ledger EXCEPT !.available[o] = @ - fee, !.totalAvailable = @ - fee]
  <2>1. /\ NotEntered /\ escrow(l, o, key, a) /\ UNCHANGED <<batch, disputes, capabilityCases>>
        /\ ledger.available[o] >= fee
    BY <1>1 DEF settle, caseVars
  <2>2. o \in Consumers /\ fee \in Nat
    BY <1>0, <1>1, FeeNat DEF settle, TypeOK, KeyGrant
  <2> HIDE DEF o, fee
  <2>3. /\ l.available = [ledger.available EXCEPT ![o] = ledger.available[o] - fee]
        /\ l.reserved = ledger.reserved /\ l.totalAvailable = ledger.totalAvailable - fee /\ Shaped(l)
        /\ l.claimable = ledger.claimable /\ l.holdback = ledger.holdback /\ l.buckets = ledger.buckets
        /\ l.totalClaimable = ledger.totalClaimable /\ l.totalHoldback = ledger.totalHoldback
        /\ l.exposure = ledger.exposure /\ l.totalPendingFees = ledger.totalPendingFees
        /\ l.totalReporterBonds = ledger.totalReporterBonds
    BY <1>0, <2>2 DEF Shaped, Fields
  <2> HIDE DEF l
  <2>4. /\ ledger.reserved[o] + 0 = ledger.reserved[o] /\ ledger.available[o] + -fee = ledger.available[o] - fee
        /\ ledger.totalAvailable + -fee + 0 = ledger.totalAvailable - fee /\ 0 \in Int /\ -fee \in Int
    BY <1>0, <2>2 DEF Shaped
  <2>5. /\ [ledger.reserved EXCEPT ![o] = @ + 0] = ledger.reserved
        /\ [ledger.available EXCEPT ![o] = @ + -fee] = [ledger.available EXCEPT ![o] = ledger.available[o] - fee]
    BY <1>0, <2>4 DEF Shaped
  <2>6. Tallied(ledger) /\ o \in Consumers
    BY <2>2
  <2>7. Tallied(l) /\ Earned(l) = Earned(ledger) /\ balanceOf(l) = [balanceOf(ledger) EXCEPT ![o] = @ + -fee + 0]
    BY ONLY <1>0, <2>3, <2>4, <2>5, <2>6, DepositsMove
  <2>8. /\ balanceOf(ledger)[o] = ledger.available[o] + ledger.reserved[o]
        /\ ledger.available[o] \in Nat /\ ledger.reserved[o] \in Nat
    BY <1>0, <2>2 DEF balanceOf, Ledger
  <2>9. balanceOf(ledger)[o] + -fee + 0 = balanceOf(ledger)[o] - fee /\ fee <= balanceOf(ledger)[o]
    BY <2>1, <2>2, <2>8
  <2>10. Owes(l, [balanceOf(ledger) EXCEPT ![o] = @ - fee], ledger.exposure, ledger.totalPendingFees,
              ledger.totalReporterBonds, Earned(ledger))
    BY <2>3, <2>7, <2>9 DEF Owes
  <2>11. Tallied(ledger') /\ \E k \in SettlementKeys, r \in Settlement : HeldStep(k, r)
    <3>1. key \in Keys \cup Oracles
      OBVIOUS
    <3>2. QED
      BY <2>1, <2>2, <2>3, <2>7, <2>9, <2>10, <3>1, EscrowStep DEF fee
  <2>12. QED
    BY <2>11 DEF ReceiptStep
<1>2. ASSUME NEW o \in Consumers, NEW disputer \in OracleDisputers, NEW a \in Authorizations,
             settleOracle(o, disputer, a)
      PROVE  Tallied(ledger') /\ ReceiptStep
  <2> DEFINE fee == actualFee(a)
             l == [ledger EXCEPT !.reserved[o] = @ - fee, !.totalAvailable = @ - fee]
  <2>1. /\ NotEntered /\ escrow(l, o, oracle, a) /\ UNCHANGED <<batch, disputes, capabilityCases>>
        /\ ledger.reserved[o] >= fee
    BY <1>2 DEF settleOracle, caseVars
  <2>2. oracle \in Oracles /\ fee \in Nat
    BY <1>0, <1>2, FeeNat DEF settleOracle, TypeOK
  <2> HIDE DEF fee
  <2>3. /\ l.reserved = [ledger.reserved EXCEPT ![o] = ledger.reserved[o] - fee]
        /\ l.available = ledger.available /\ l.totalAvailable = ledger.totalAvailable - fee /\ Shaped(l)
        /\ l.claimable = ledger.claimable /\ l.holdback = ledger.holdback /\ l.buckets = ledger.buckets
        /\ l.totalClaimable = ledger.totalClaimable /\ l.totalHoldback = ledger.totalHoldback
        /\ l.exposure = ledger.exposure /\ l.totalPendingFees = ledger.totalPendingFees
        /\ l.totalReporterBonds = ledger.totalReporterBonds
    BY <1>0, <2>2 DEF Shaped, Fields
  <2> HIDE DEF l
  <2>4. /\ ledger.available[o] + 0 = ledger.available[o] /\ ledger.reserved[o] + -fee = ledger.reserved[o] - fee
        /\ ledger.totalAvailable + 0 + -fee = ledger.totalAvailable - fee /\ 0 \in Int /\ -fee \in Int
    BY <1>0, <2>2 DEF Shaped
  <2>5. /\ [ledger.available EXCEPT ![o] = @ + 0] = ledger.available
        /\ [ledger.reserved EXCEPT ![o] = @ + -fee] = [ledger.reserved EXCEPT ![o] = ledger.reserved[o] - fee]
    BY <1>0, <2>4 DEF Shaped
  <2>6. Tallied(ledger) /\ o \in Consumers
    OBVIOUS
  <2>7. Tallied(l) /\ Earned(l) = Earned(ledger) /\ balanceOf(l) = [balanceOf(ledger) EXCEPT ![o] = @ + 0 + -fee]
    BY ONLY <1>0, <2>3, <2>4, <2>5, <2>6, DepositsMove
  <2>8. /\ balanceOf(ledger)[o] = ledger.available[o] + ledger.reserved[o]
        /\ ledger.available[o] \in Nat /\ ledger.reserved[o] \in Nat
    BY <1>0 DEF balanceOf, Ledger
  <2>9. balanceOf(ledger)[o] + 0 + -fee = balanceOf(ledger)[o] - fee /\ fee <= balanceOf(ledger)[o]
    BY <2>1, <2>2, <2>8
  <2>10. Owes(l, [balanceOf(ledger) EXCEPT ![o] = @ - fee], ledger.exposure, ledger.totalPendingFees,
              ledger.totalReporterBonds, Earned(ledger))
    BY <2>3, <2>7, <2>9 DEF Owes
  <2>11. Tallied(ledger') /\ \E k \in SettlementKeys, r \in Settlement : HeldStep(k, r)
    <3>1. oracle \in Keys \cup Oracles
      BY <2>2
    <3>2. QED
      BY <2>1, <2>2, <2>3, <2>7, <2>9, <2>10, <3>1, EscrowStep DEF fee
  <2>12. QED
    BY <2>11 DEF ReceiptStep
<1>3. ASSUME NEW k \in SettlementKeys, release(k)
      PROVE  Tallied(ledger') /\ ReceiptStep
  <2> DEFINE r == settlements[k]
  <2>1. /\ NotEntered /\ r.status = "Pending" /\ ledger' = payRelease(ledger, r) /\ providerGross(r.fee) >= 0
        /\ settlements' = [settlements EXCEPT ![k].status = "Released"]
        /\ UNCHANGED <<batch, disputes, capabilityCases>>
    BY <1>3 DEF release, Due, Commit, caseVars
  <2>2. /\ Tallied(ledger') /\ ledger.totalReporterBonds - 0 = ledger.totalReporterBonds
        /\ Earned(ledger) + r.fee + 0 = Earned(ledger) + r.fee
        /\ Owes(ledger', balanceOf(ledger), [ledger.exposure EXCEPT ![r.provider] = @ - r.fee],
                ledger.totalPendingFees - r.fee, ledger.totalReporterBonds, Earned(ledger) + r.fee)
    <3>1. r.fee \in Nat /\ ledger.totalReporterBonds \in Int /\ Earned(ledger) \in Int
      BY <1>0, <2>1, RecordKnown DEF Shaped, Earned
    <3>2. QED
      BY <2>1, <3>1, PaidRelease
  <2> HIDE DEF r
  <2>3. PaidStep(k, "Released", 0)
    BY <2>1, <2>2 DEF PaidStep, r
  <2>4. QED
    BY <2>2, <2>3 DEF ReceiptStep, Statuses
<1>4. ASSUME NEW k \in SettlementKeys, markReleased(k)
      PROVE  Tallied(ledger') /\ BatchStep
  <2>1. UNCHANGED <<ledger, disputes, capabilityCases>>
    BY <1>4 DEF markReleased, caseVars
  <2>2. QED
    BY <1>4, <2>1 DEF BatchStep
<1>5. ASSUME NEW keys \in SUBSET SettlementKeys, releaseBatch(keys)
      PROVE  Tallied(ledger') /\ BatchStep
  <2>1. batch' = [Idle EXCEPT !.running = TRUE, !.keys = keys] /\ batch'.keys = keys
    BY <1>5 DEF releaseBatch, Idle
  <2>2. BatchBegun /\ UNCHANGED <<disputes, capabilityCases>>
    BY <1>5, <2>1 DEF BatchBegun, releaseBatch, caseVars
  <2>3. Tallied(ledger')
    BY <2>2 DEF BatchBegun
  <2>4. QED
    BY <2>2, <2>3 DEF BatchStep
<1>6. ASSUME NEW tt \in Totals, payReleasedItem(tt)
      PROVE  Tallied(ledger') /\ BatchStep
  <2> DEFINE fee == batch.items[tt]
             cut == treasuryCut(fee)
  <2>1. /\ ledger' = payItem(ledger, tt[1], tt[3], fee) /\ providerGross(fee) >= 0
        /\ batch' = [batch EXCEPT !.items[tt] = 0, !.total = @ + fee, !.treasury = @ + cut]
        /\ UNCHANGED <<settlements, disputes, capabilityCases>>
    BY <1>6 DEF payReleasedItem, Commit, caseVars
  <2>2. fee \in Nat /\ tt[1] \in Providers /\ tt[3] \in Relays
    BY <1>0, BatchType DEF Totals
  <2>3. cut \in Nat
    BY <1>0, <2>2, SharesNat
  <2> HIDE DEF fee
  <2>4. /\ Tallied(ledger') /\ SameDeposits(ledger, ledger')
        /\ ledger'.exposure = [ledger.exposure EXCEPT ![tt[1]] = @ - fee]
        /\ ledger'.totalPendingFees = ledger.totalPendingFees
        /\ Earned(ledger') = Earned(ledger) + (fee - treasuryCut(fee))
    BY <1>0, <2>1, <2>2, PayItemTallied
  <2>5. Owes(ledger', balanceOf(ledger), [ledger.exposure EXCEPT ![tt[1]] = @ - fee], ledger.totalPendingFees,
             ledger.totalReporterBonds, Earned(ledger) + (fee - cut))
    BY <2>4 DEF Owes, SameDeposits, balanceOf
  <2>6. BatchPaid(tt)
    BY <2>1, <2>3, <2>5 DEF BatchPaid, fee
  <2>7. QED
    BY <2>1, <2>4, <2>6 DEF BatchStep
<1>7. ASSUME finishBatch
      PROVE  Tallied(ledger') /\ BatchStep
  <2>1. /\ ledger' = payTotals(ledger, batch.total, batch.treasury) /\ batch.items = NoTotals /\ batch' = Idle
        /\ UNCHANGED <<settlements, disputes, capabilityCases>> /\ batch.total \in Nat /\ batch.treasury \in Nat
    BY <1>0, <1>7, BatchType DEF finishBatch, Commit, caseVars
  <2>2. /\ Tallied(ledger') /\ SameDeposits(ledger, ledger')
        /\ ledger'.exposure = ledger.exposure
        /\ ledger'.totalPendingFees = ledger.totalPendingFees - batch.total
        /\ Earned(ledger') = Earned(ledger) + batch.treasury
    BY <1>0, <2>1, PayTotalsTallied
  <2>3. Owes(ledger', balanceOf(ledger), ledger.exposure, ledger.totalPendingFees - batch.total,
             ledger.totalReporterBonds, Earned(ledger) + batch.treasury)
    BY <2>2 DEF Owes, SameDeposits, balanceOf
  <2>4. BatchDone
    BY <2>1, <2>3 DEF BatchDone
  <2>5. QED
    BY <2>1, <2>2, <2>4 DEF BatchStep
<1>8. ASSUME NEW c \in Commitments, NEW k \in SettlementKeys, voidProbe(k, c)
      PROVE  Tallied(ledger') /\ ReceiptStep
  <2>1. /\ NotEntered /\ settlements[k].status = "Pending" /\ ledger' = refund(ledger, settlements[k])
        /\ settlements' = [settlements EXCEPT ![k].status = "Voided"]
        /\ UNCHANGED <<batch, disputes, capabilityCases>>
    BY <1>8 DEF voidProbe, Commit, caseVars
  <2>2. RefundedStep(k, "Voided") /\ Tallied(ledger')
    BY <2>1, RefundedFee DEF RefundedStep
  <2>3. QED
    BY <2>2 DEF ReceiptStep, Statuses
<1>9. QED
  BY <1>1, <1>2, <1>3, <1>4, <1>5, <1>6, <1>7, <1>8 DEF NextReceipts

\* An open dispute's bond is held for somebody.
ReporterKnown ==
  \A k \in SettlementKeys : settlements[k].status = "Disputed" => disputes[k].reporter # NoOne /\ ~disputes[k].bondClaimed

\* A capability case has had its jury requested.
CasesRequested == \A c \in DOMAIN capabilityCases : assignments[c].status # "None"

\* The steps of disputes and capability cases.
DisputeStep ==
  \/ \E k \in SettlementKeys : DisputedStep(k) \/ ReturnedStep(k)
  \/ \E c \in CaseIds : CaseStep(c) \/ ClosedStep(c)

\* A bond is posted.
LEMMA BondPosted ==
  ASSUME TypeOK, Tallied(ledger), NEW sender, NEW bond \in Nat,
         ledger' = [takeExact(ledger, sender, bond) EXCEPT !.totalReporterBonds = @ + bond]
  PROVE  /\ Tallied(ledger')
         /\ Owes(ledger', balanceOf(ledger), ledger.exposure, ledger.totalPendingFees,
                 ledger.totalReporterBonds + bond, Earned(ledger))
<1>1. Shaped(ledger) /\ Tallied(ledger)
  BY LedgerOpen DEF TypeOK
<1>2. /\ DOMAIN ledger' = Fields /\ ledger'.totalReporterBonds = ledger.totalReporterBonds + bond
      /\ \A f \in Fields \ {"token", "wallet", "totalReporterBonds"} : ledger'[f] = ledger[f]
  BY <1>1 DEF takeExact, Shaped, Fields
<1>3. ledger'.totalReporterBonds \in Int
  BY <1>1, <1>2 DEF Shaped
<1>4. /\ Tallied(ledger') /\ Earned(ledger') = Earned(ledger) /\ balanceOf(ledger') = balanceOf(ledger)
      /\ ledger'.exposure = ledger.exposure /\ ledger'.totalPendingFees = ledger.totalPendingFees
  BY ONLY <1>1, <1>2, <1>3, BondMoved
<1>5. QED
  BY <1>2, <1>4 DEF Owes

\* A bond is freed and credited.
LEMMA BondFreed ==
  ASSUME NEW l, Shaped(l), Tallied(l), NEW bond \in Nat, NEW account \in Accounts, NEW freed,
         freed = [l EXCEPT !.totalReporterBonds = @ - bond]
  PROVE  LET m == credit(freed, account, bond) IN
         /\ Shaped(freed) /\ freed.buckets = l.buckets
         /\ Shaped(m) /\ Tallied(m) /\ m.buckets = l.buckets
         /\ Owes(m, balanceOf(l), l.exposure, l.totalPendingFees, l.totalReporterBonds - bond, Earned(l) + bond)
<1> DEFINE m == credit(freed, account, bond)
<1>1. Shaped(l) /\ Tallied(l) /\ account \in Accounts /\ bond \in Int
  OBVIOUS
<1>2. /\ DOMAIN freed = Fields /\ freed.totalReporterBonds = l.totalReporterBonds - bond
      /\ \A f \in Fields \ {"token", "wallet", "totalReporterBonds"} : freed[f] = l[f]
  BY DEF Shaped, Fields
<1>3. freed.totalReporterBonds \in Int
  BY <1>2 DEF Shaped
<1>4. /\ Shaped(freed) /\ Tallied(freed) /\ Earned(freed) = Earned(l) /\ balanceOf(freed) = balanceOf(l)
      /\ freed.exposure = l.exposure /\ freed.totalPendingFees = l.totalPendingFees /\ freed.buckets = l.buckets
  BY ONLY <1>1, <1>2, <1>3, BondMoved
<1>5. /\ Shaped(m) /\ Tallied(m) /\ m.buckets = freed.buckets /\ OnlyEarnings(freed, m) /\ Earned(m) = Earned(freed) + bond
  BY ONLY <1>1, <1>4, CreditTallied
<1>6. QED
  BY <1>2, <1>4, <1>5 DEF OnlyEarnings, Owes, balanceOf

\* A penalty moves money among the earnings only.
LEMMA PenaltyMoves ==
  ASSUME settings \in Params, NEW l, Shaped(l), Tallied(l), NEW p \in Providers, NEW amount \in Nat,
         l.buckets \in [Providers -> [Slots -> [day: Nat, amount: Nat]]], NEW reporter \in Accounts,
         NEW taken, taken = holdbackTaken(l, p, amount), NEW bounty \in Nat
  PROVE  LET m == payPenalty(takeHoldback(l, p, amount), p, taken, bounty, reporter) IN
         Tallied(m) /\ OnlyEarnings(l, m) /\ Earned(m) = Earned(l)
<1> DEFINE one == takeHoldback(l, p, amount)
           m == payPenalty(one, p, taken, bounty, reporter)
<1>1. /\ taken \in Nat /\ Shaped(one) /\ Tallied(one) /\ OnlyEarnings(l, one) /\ Earned(one) = Earned(l) - taken
  BY TakeHoldbackTallied
<1>2. settings \in Params /\ p \in Providers /\ bounty \in Nat /\ reporter \in Accounts
  OBVIOUS
<1> HIDE DEF one
<1>3. Tallied(m) /\ OnlyEarnings(one, m) /\ Earned(m) = Earned(one) + taken
  BY ONLY <1>1, <1>2, PayPenaltyTallied
<1>4. Earned(l) \in Int
  BY DEF Shaped, Earned
<1> HIDE DEF m
<1>5. QED
  BY <1>1, <1>3, <1>4 DEF OnlyEarnings, m, one

LEMMA DisputesSteps ==
  ASSUME TypeOK, Tallied(ledger), ReporterKnown, CasesRequested, NextDisputes
  PROVE  Tallied(ledger') /\ (Rested \/ ReceiptStep \/ DisputeStep)
<1>0. /\ ledger \in Ledger /\ Shaped(ledger) /\ settings \in Params /\ now \in Nat /\ settings.reporterBond \in Nat
      /\ settings.penaltyRecipient \in Accounts /\ NoOne \notin Accounts
      /\ ledger.buckets \in [Providers -> [Slots -> [day: Nat, amount: Nat]]]
  <2>1. settings \in Params /\ ledger \in Ledger /\ now \in Nat
    BY BaseAssumption DEF TypeOK
  <2>2. settings.reporterBond \in Nat /\ settings.penaltyRecipient \in Accounts
    BY <2>1 DEF Params
  <2>3. QED
    BY <2>1, <2>2, LedgerOpen, BaseAssumption DEF Ledger
<1>1. ASSUME NEW k \in SettlementKeys, NEW sender \in Disputers, openDispute(k, sender)
      PROVE  Tallied(ledger') /\ DisputeStep
  <2> DEFINE bond == settings.reporterBond
  <2>1. /\ NotEntered /\ settlements[k].status = "Pending"
        /\ settlements' = [settlements EXCEPT ![k].status = "Disputed"]
        /\ disputes' = [disputes EXCEPT ![k] =
             [NoDispute EXCEPT !.reporter = sender, !.totalBond = bond,
                               !.resolveAt = settlements[k].releaseAt + settings.arbitrationTimeout]]
        /\ ledger' = [takeExact(ledger, sender, bond) EXCEPT !.totalReporterBonds = @ + bond]
        /\ UNCHANGED <<batch, capabilityCases>>
    BY <1>1 DEF openDispute, Commit
  <2>2. /\ disputes'[k].totalBond = bond /\ disputes'[k].reporter = sender /\ disputes'[k].bondClaimed = FALSE
        /\ \A x \in SettlementKeys \ {k} : disputes'[x] = disputes[x]
    BY <2>1 DEF NoDispute, TypeOK
  <2>3. sender # NoOne
    BY <1>0, DisputeAssumption
  <2>4. Tallied(ledger') /\ Owes(ledger', balanceOf(ledger), ledger.exposure, ledger.totalPendingFees,
                                 ledger.totalReporterBonds + bond, Earned(ledger))
    BY <1>0, <2>1, BondPosted
  <2>5. DisputedStep(k)
    BY <1>0, <2>1, <2>2, <2>3, <2>4 DEF DisputedStep
  <2>6. QED
    BY <2>4, <2>5 DEF DisputeStep
<1>2. ASSUME NEW k \in SettlementKeys, NEW judges \in Quorums, confirmDispute(k, judges)
      PROVE  Tallied(ledger') /\ ReceiptStep
  <2> DEFINE r == settlements[k]
             m == refund(ledger, r)
             taken == holdbackTaken(m, r.provider, penaltyOf(r))
             bounty == Portion(taken, settings.reporterBountyBps)
  <2>1. /\ NotEntered /\ r.status = "Disputed" /\ taken \in Nat
        /\ settlements' = [settlements EXCEPT ![k].status = "Confirmed"]
        /\ disputes' = [disputes EXCEPT ![k].penalty = taken, ![k].bounty = bounty]
        /\ ledger' = payPenalty(takeHoldback(m, r.provider, penaltyOf(r)), r.provider, taken, bounty,
                                disputes[k].reporter)
        /\ UNCHANGED <<batch, capabilityCases>>
    BY <1>2 DEF confirmDispute, votable, Commit
  <2>2. disputes[k].reporter \in Accounts
    BY <2>1 DEF ReporterKnown, TypeOK, Dispute
  <2>3. r.provider \in Providers /\ r.fee \in Nat /\ r.owner \in Consumers
    BY <2>1, RecordKnown
  <2>4. penaltyOf(r) \in Nat
    <3>1. settings.slashBps \in Nat /\ settings.slashCap \in Nat
      BY <1>0 DEF Params
    <3>2. Portion(r.fee, settings.slashBps) \in Nat
      BY <2>3, <3>1, PortionNat
    <3>3. QED
      BY <3>1, <3>2 DEF penaltyOf, Smaller
  <2>5. bounty \in Nat
    BY <1>0, <2>1, BountyNat
  <2>6. /\ Shaped(m) /\ Tallied(m) /\ m.buckets = ledger.buckets
        /\ Owes(m, [balanceOf(ledger) EXCEPT ![r.owner] = @ + r.fee],
                [ledger.exposure EXCEPT ![r.provider] = @ - r.fee],
                ledger.totalPendingFees - r.fee, ledger.totalReporterBonds, Earned(ledger))
    BY <2>1, RefundedFee
  <2> HIDE DEF m, bounty, r
  <2>7. Tallied(ledger') /\ OnlyEarnings(m, ledger') /\ Earned(ledger') = Earned(m)
    BY ONLY <1>0, <2>1, <2>2, <2>3, <2>4, <2>5, <2>6, PenaltyMoves
  <2>8. Owes(ledger', [balanceOf(ledger) EXCEPT ![r.owner] = @ + r.fee],
                [ledger.exposure EXCEPT ![r.provider] = @ - r.fee],
                ledger.totalPendingFees - r.fee, ledger.totalReporterBonds, Earned(ledger))
    BY <2>6, <2>7 DEF Owes, OnlyEarnings, balanceOf
  <2>9. \A x \in SettlementKeys :
       /\ disputes'[x].reporter = disputes[x].reporter /\ disputes'[x].totalBond = disputes[x].totalBond
       /\ disputes'[x].bondClaimed = disputes[x].bondClaimed
    BY <2>1 DEF TypeOK, Dispute
  <2>10. RefundedStep(k, "Confirmed")
    BY <2>1, <2>8, <2>9 DEF RefundedStep, r
  <2>11. QED
    BY <2>7, <2>10 DEF ReceiptStep, Statuses
<1>3. ASSUME NEW k \in SettlementKeys, NEW judges \in Quorums, dismissDispute(k, judges)
      PROVE  Tallied(ledger') /\ ReceiptStep
  <2> DEFINE r == settlements[k]
             bond == disputes[k].totalBond
             released == payRelease(ledger, r)
             freed == [released EXCEPT !.totalReporterBonds = @ - bond]
  <2>1. /\ NotEntered /\ r.status = "Disputed" /\ providerGross(r.fee) >= 0
        /\ settlements' = [settlements EXCEPT ![k].status = "Dismissed"]
        /\ ledger' = credit(freed, settings.penaltyRecipient, bond)
        /\ UNCHANGED <<batch, disputes, capabilityCases>>
    BY <1>3 DEF dismissDispute, votable, Commit
  <2>2. bond \in Nat
    BY DEF TypeOK, Dispute
  <2>3. /\ Shaped(released) /\ Tallied(released)
        /\ Owes(released, balanceOf(ledger), [ledger.exposure EXCEPT ![r.provider] = @ - r.fee],
                ledger.totalPendingFees - r.fee, ledger.totalReporterBonds, Earned(ledger) + r.fee)
    BY <2>1, PaidRelease
  <2> HIDE DEF released, bond, r
  <2>4. /\ Tallied(ledger')
        /\ Owes(ledger', balanceOf(released), released.exposure, released.totalPendingFees,
                released.totalReporterBonds - bond, Earned(released) + bond)
    BY <1>0, <2>1, <2>2, <2>3, BondFreed
  <2>5. Owes(ledger', balanceOf(ledger), [ledger.exposure EXCEPT ![r.provider] = @ - r.fee],
             ledger.totalPendingFees - r.fee, ledger.totalReporterBonds - bond, Earned(ledger) + r.fee + bond)
    BY <2>3, <2>4 DEF Owes
  <2>6. PaidStep(k, "Dismissed", bond)
    BY <2>1, <2>5 DEF PaidStep, r, bond
  <2>7. QED
    BY <2>2, <2>4, <2>6 DEF ReceiptStep, Statuses
<1>4. ASSUME NEW k \in SettlementKeys, claimDisputeBond(k)
      PROVE  Tallied(ledger') /\ DisputeStep
  <2> DEFINE bond == disputes[k].totalBond
             freed == [ledger EXCEPT !.totalReporterBonds = @ - bond]
  <2>1. /\ NotEntered /\ BondHeld(k) /\ settlements[k].status # "Disputed"
        /\ disputes' = [disputes EXCEPT ![k].bondClaimed = TRUE]
        /\ ledger' = credit(freed, disputes[k].reporter, bond)
        /\ UNCHANGED <<settlements, batch, capabilityCases>>
    BY <1>4 DEF claimDisputeBond, Commit, BondHeld
  <2>2. bond \in Nat /\ disputes[k].reporter \in Accounts
    BY <2>1 DEF TypeOK, Dispute, BondHeld
  <2> HIDE DEF bond
  <2>3. /\ Tallied(ledger')
        /\ Owes(ledger', balanceOf(ledger), ledger.exposure, ledger.totalPendingFees,
                ledger.totalReporterBonds - bond, Earned(ledger) + bond)
    BY <1>0, <2>1, <2>2, BondFreed
  <2>4. ReturnedStep(k)
    BY <2>1, <2>3 DEF ReturnedStep, bond
  <2>5. QED
    BY <2>3, <2>4 DEF DisputeStep
<1>5. ASSUME NEW k \in SettlementKeys, resolveTimedOutDispute(k)
      PROVE  Tallied(ledger') /\ ReceiptStep
  <2> DEFINE r == settlements[k]
  <2>1. /\ NotEntered /\ r.status = "Disputed" /\ UNCHANGED <<batch, disputes, capabilityCases>>
        /\ \/ /\ settlements' = [settlements EXCEPT ![k].status = "JuryUnavailable"]
              /\ ledger' = refund(ledger, r)
           \/ /\ settlements' = [settlements EXCEPT ![k].status = "TimedOut"]
              /\ providerGross(r.fee) >= 0 /\ ledger' = payRelease(ledger, r)
    BY <1>5 DEF resolveTimedOutDispute, Commit, caseVars
  <2>2. CASE ledger' = refund(ledger, r) /\ settlements' = [settlements EXCEPT ![k].status = "JuryUnavailable"]
    <3>1. RefundedStep(k, "JuryUnavailable") /\ Tallied(ledger')
      BY <2>1, <2>2, RefundedFee DEF RefundedStep
    <3>2. QED
      BY <3>1 DEF ReceiptStep, Statuses
  <2>3. CASE /\ settlements' = [settlements EXCEPT ![k].status = "TimedOut"]
             /\ providerGross(r.fee) >= 0 /\ ledger' = payRelease(ledger, r)
    <3>1. r.fee \in Nat /\ ledger.totalReporterBonds \in Int /\ Earned(ledger) \in Int
      BY <1>0, <2>1, RecordKnown DEF Shaped, Earned
    <3>2. /\ Tallied(ledger')
          /\ Owes(ledger', balanceOf(ledger), [ledger.exposure EXCEPT ![r.provider] = @ - r.fee],
                  ledger.totalPendingFees - r.fee, ledger.totalReporterBonds, Earned(ledger) + r.fee)
      BY <2>1, <2>3, PaidRelease
    <3> HIDE DEF r
    <3>3. /\ ledger.totalReporterBonds - 0 = ledger.totalReporterBonds
          /\ Earned(ledger) + r.fee + 0 = Earned(ledger) + r.fee
      BY <3>1
    <3>4. Owes(ledger', balanceOf(ledger), [ledger.exposure EXCEPT ![r.provider] = @ - r.fee],
               ledger.totalPendingFees - r.fee, ledger.totalReporterBonds - 0, Earned(ledger) + r.fee + 0)
      BY <3>2, <3>3 DEF Owes
    <3>5. PaidStep(k, "TimedOut", 0)
      BY <2>1, <2>3, <3>4 DEF PaidStep, r
    <3>6. QED
      BY <3>2, <3>5 DEF ReceiptStep, Statuses
  <2>4. QED
    BY <2>1, <2>2, <2>3
<1>6. ASSUME NEW c \in CaseIds, NEW keys \in SUBSET SettlementKeys, openCapabilityCase(c, keys)
      PROVE  Tallied(ledger') /\ DisputeStep
  <2> DEFINE bond == settings.reporterBond
  <2>1. PICK first \in keys :
       capabilityCases' = [x \in DOMAIN capabilityCases \cup {c} |->
         IF x = c THEN [status |-> "Open", providerSigner |-> settlements[first].providerSigner, keys |-> keys,
                        resolveAt |-> now + settings.arbitrationTimeout, bond |-> bond, penalty |-> 0, bounty |-> 0]
                  ELSE capabilityCases[x]]
    BY <1>6 DEF openCapabilityCase
  <2>2. /\ NotEntered /\ assignments[c].status = "None"
        /\ ledger' = [takeExact(ledger, c[1], bond) EXCEPT !.totalReporterBonds = @ + bond]
        /\ UNCHANGED <<settlements, batch, disputes>>
    BY <1>6 DEF openCapabilityCase, Commit
  <2>3. c \notin DOMAIN capabilityCases
    BY <2>2 DEF CasesRequested
  <2>4. /\ DOMAIN capabilityCases' = DOMAIN capabilityCases \cup {c}
        /\ capabilityCases'[c].bond = bond /\ capabilityCases'[c].status = "Open"
        /\ \A e \in DOMAIN capabilityCases : capabilityCases'[e] = capabilityCases[e]
    BY <2>1, <2>3
  <2>5. Tallied(ledger') /\ Owes(ledger', balanceOf(ledger), ledger.exposure, ledger.totalPendingFees,
                                 ledger.totalReporterBonds + bond, Earned(ledger))
    BY <1>0, <2>2, BondPosted
  <2>6. CaseStep(c)
    BY <1>0, <2>2, <2>3, <2>4, <2>5 DEF CaseStep
  <2>7. QED
    BY <2>5, <2>6 DEF DisputeStep
<1>7. ASSUME NEW c \in CaseIds, NEW judges \in Quorums, NEW confirmed \in BOOLEAN,
             voteCapabilityCase(c, judges, confirmed)
      PROVE  Tallied(ledger') /\ DisputeStep
  <2> DEFINE item == capabilityCases[c]
             freed == [ledger EXCEPT !.totalReporterBonds = @ - item.bond]
             taken == holdbackTaken(freed, c[2], settings.slashCap)
             bounty == Portion(taken, settings.reporterBountyBps)
             back == credit(freed, c[1], item.bond)
  <2>1. /\ NotEntered /\ c \in DOMAIN capabilityCases /\ item.status = "Open"
        /\ UNCHANGED <<settlements, batch, disputes>>
        /\ capabilityCases = [x \in DOMAIN capabilityCases |-> capabilityCases[x]]
    BY <1>7 DEF voteCapabilityCase, OnlyCases, Opened, TypeOK
  <2>2. item \in CapabilityCase /\ c[1] \in Accounts /\ c[2] \in Providers
    BY <2>1, BaseAssumption DEF TypeOK, CaseIds
  <2>3. item.bond \in Nat
    BY <2>2 DEF CapabilityCase
  <2>4. /\ Shaped(back) /\ Tallied(back) /\ back.buckets = ledger.buckets /\ freed.buckets = ledger.buckets
        /\ Owes(back, balanceOf(ledger), ledger.exposure, ledger.totalPendingFees,
                ledger.totalReporterBonds - item.bond, Earned(ledger) + item.bond)
    BY <1>0, <2>2, <2>3, BondFreed
  <2>5. ASSUME NEW new, new \in {"Confirmed", "Dismissed"}, NEW rec,
               capabilityCases' = [capabilityCases EXCEPT ![c] = rec], rec.status = new,
               Owes(ledger', balanceOf(ledger), ledger.exposure, ledger.totalPendingFees,
                    ledger.totalReporterBonds - item.bond, Earned(ledger) + item.bond)
        PROVE  ClosedStep(c)
    <3>1. /\ DOMAIN capabilityCases' = DOMAIN capabilityCases /\ capabilityCases'[c].status = new
          /\ \A e \in DOMAIN capabilityCases \ {c} : capabilityCases'[e] = capabilityCases[e]
      BY <2>1, <2>5
    <3>2. QED
      BY <2>1, <2>5, <3>1 DEF ClosedStep
  <2>6. CASE confirmed
    <3>1. /\ taken \in Nat
          /\ capabilityCases' = [capabilityCases EXCEPT ![c] =
               [item EXCEPT !.status = "Confirmed", !.penalty = taken, !.bounty = bounty]]
          /\ ledger' = payPenalty(takeHoldback(back, c[2], settings.slashCap), c[2], taken, bounty, c[1])
      BY <1>7, <2>6 DEF voteCapabilityCase, Commit
    <3>2. bounty \in Nat /\ settings.slashCap \in Nat
      <4>1. settings.slashCap \in Nat
        BY <1>0 DEF Params
      <4>2. QED
        BY <1>0, <3>1, <4>1, BountyNat
    <3>3. taken = holdbackTaken(back, c[2], settings.slashCap)
      BY <2>4 DEF holdbackTaken, SlotSum
    <3>4. [item EXCEPT !.status = "Confirmed", !.penalty = taken, !.bounty = bounty].status = "Confirmed"
      BY <2>2 DEF CapabilityCase
    <3> HIDE DEF taken, bounty, back, item
    <3>5. Tallied(ledger') /\ OnlyEarnings(back, ledger') /\ Earned(ledger') = Earned(back)
      BY ONLY <1>0, <2>2, <2>4, <3>1, <3>2, <3>3, PenaltyMoves
    <3>6. Owes(ledger', balanceOf(ledger), ledger.exposure, ledger.totalPendingFees,
               ledger.totalReporterBonds - item.bond, Earned(ledger) + item.bond)
      BY <2>4, <3>5 DEF Owes, OnlyEarnings, balanceOf
    <3>7. ClosedStep(c)
      BY <2>5, <3>1, <3>4, <3>6
    <3>8. QED
      BY <3>5, <3>7 DEF DisputeStep
  <2>7. CASE ~confirmed
    <3>1. /\ capabilityCases' = [capabilityCases EXCEPT ![c] = [item EXCEPT !.status = "Dismissed"]]
          /\ ledger' = credit(freed, settings.penaltyRecipient, item.bond)
      BY <1>7, <2>7 DEF voteCapabilityCase, Commit
    <3>2. /\ Tallied(ledger')
          /\ Owes(ledger', balanceOf(ledger), ledger.exposure, ledger.totalPendingFees,
                  ledger.totalReporterBonds - item.bond, Earned(ledger) + item.bond)
      BY <1>0, <2>3, <3>1, BondFreed
    <3>3. [item EXCEPT !.status = "Dismissed"].status = "Dismissed"
      BY <2>2 DEF CapabilityCase
    <3>4. ClosedStep(c)
      BY <2>5, <3>1, <3>2, <3>3
    <3>5. QED
      BY <3>2, <3>4 DEF DisputeStep
  <2>8. QED
    BY <2>6, <2>7
<1>8. ASSUME NEW c \in CaseIds, resolveTimedOutCapabilityCase(c)
      PROVE  Tallied(ledger') /\ DisputeStep
  <2> DEFINE item == capabilityCases[c]
             freed == [ledger EXCEPT !.totalReporterBonds = @ - item.bond]
  <2>1. /\ NotEntered /\ c \in DOMAIN capabilityCases /\ item.status = "Open"
        /\ UNCHANGED <<settlements, batch, disputes>>
        /\ capabilityCases' = [capabilityCases EXCEPT ![c] = [item EXCEPT !.status = "TimedOut"]]
        /\ ledger' = credit(freed, c[1], item.bond)
        /\ capabilityCases = [x \in DOMAIN capabilityCases |-> capabilityCases[x]]
    BY <1>8 DEF resolveTimedOutCapabilityCase, OnlyCases, Opened, Commit, TypeOK
  <2>2. item \in CapabilityCase /\ c[1] \in Accounts
    BY <2>1, BaseAssumption DEF TypeOK, CaseIds
  <2>3. item.bond \in Nat /\ [item EXCEPT !.status = "TimedOut"].status = "TimedOut"
    BY <2>2 DEF CapabilityCase
  <2>4. /\ Tallied(ledger')
        /\ Owes(ledger', balanceOf(ledger), ledger.exposure, ledger.totalPendingFees,
                ledger.totalReporterBonds - item.bond, Earned(ledger) + item.bond)
    BY <1>0, <2>1, <2>2, <2>3, BondFreed
  <2>5. /\ DOMAIN capabilityCases' = DOMAIN capabilityCases /\ capabilityCases'[c].status = "TimedOut"
        /\ \A e \in DOMAIN capabilityCases \ {c} : capabilityCases'[e] = capabilityCases[e]
    BY <2>1, <2>3
  <2>6. ClosedStep(c)
    BY <2>1, <2>4, <2>5 DEF ClosedStep
  <2>7. QED
    BY <2>4, <2>6 DEF DisputeStep
<1>9. ASSUME NEW c \in SettlementKeys \cup DOMAIN capabilityCases, NEW jurors \in Juries, finalizeJury(c, jurors)
      PROVE  Tallied(ledger') /\ Rested
  BY <1>9, LedgerKept DEF finalizeJury
<1>10. QED
  BY <1>1, <1>2, <1>3, <1>4, <1>5, <1>6, <1>7, <1>8, <1>9 DEF NextDisputes
=============================================================================
