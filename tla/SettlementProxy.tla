-------------------------- MODULE SettlementProxy ---------------------------
(***************************************************************************)
(* The settlement behind its proxy: both implementations on one storage,   *)
(* with the clock of the chain.                                            *)
(***************************************************************************)
EXTENDS Settlement, SettlementDisputes

\* A settled receipt names its payer, its Provider and its Relay.
PartiesKnown ==
  \A k \in SettlementKeys : settlements[k].status # "None" =>
    settlements[k].owner \in Consumers /\ settlements[k].provider \in Providers /\ settlements[k].relay \in Relays

\* A batch exists only while releaseBatch runs, and lists receipts it has still to mark.
BatchKnown ==
  /\ NotEntered => batch = Idle
  /\ \A k \in batch.keys : settlements[k].status = "Pending"

TypeOK ==
  /\ now \in 0 .. MaxTime
  /\ settings \in Params
  /\ ledger \in Ledger
  /\ batch \in Batch
  /\ keyGrants \in [Keys -> KeyGrant]
  /\ keyBudgets \in [Keys -> [limit: Nat, spent: Nat]]
  /\ withdrawals \in [Consumers -> [amount: Nat, availableAt: Nat]]
  /\ providerSignerOwner \in [Signers -> Providers \cup {NoOne}]
  /\ relaySignerOwner \in [Signers -> Relays \cup {NoOne}]
  /\ settlements \in [SettlementKeys -> Settlement]
  /\ PartiesKnown /\ BatchKnown
  /\ disputes \in [SettlementKeys -> Dispute]
  /\ disputeVotes \in [AllCases -> [Jurors -> 0 .. 2]]
  /\ probeCommitments \in [Commitments -> Nat]
  /\ providerProbeVoids \in [Providers \X Days -> Nat]
  /\ hunterProbeVoids \in [Hunters \X Providers \X Days -> Nat]
  /\ probeVoids \in [SettlementKeys -> ProbeVoid]
  /\ probeMaxFee \in Nat
  /\ DOMAIN capabilityCases \subseteq CaseIds
  /\ \A c \in DOMAIN capabilityCases : capabilityCases[c] \in CapabilityCase
  /\ capabilityCases = [c \in DOMAIN capabilityCases |-> capabilityCases[c]]
  /\ oracle \in Oracles \cup {NoOne}
  /\ oracleDisputer \in [SettlementKeys -> Accounts \cup {NoOne}]
  /\ assignments \in [AllCases -> Assignment]

Init ==
  /\ now = 1
  /\ settings \in {p \in ParamChoices : ValidParams(p)}
  /\ ledger = [token |-> 0, wallet |-> Wealth,
               available |-> [o \in Consumers |-> 0], reserved |-> [o \in Consumers |-> 0],
               claimable |-> [a \in Accounts |-> 0],
               exposure |-> [p \in Providers |-> 0], clean |-> [p \in Providers |-> 0],
               buckets |-> [p \in Providers |-> [i \in Slots |-> [day |-> 0, amount |-> 0]]],
               holdback |-> [p \in Providers |-> 0],
               totalAvailable |-> 0, totalClaimable |-> 0, totalPendingFees |-> 0, totalHoldback |-> 0,
               totalReporterBonds |-> 0]
  /\ batch = Idle
  /\ keyGrants = [k \in Keys |-> [owner |-> NoOne, maxPerRequest |-> 0, validUntil |-> 0, active |-> FALSE]]
  /\ keyBudgets = [k \in Keys |-> [limit |-> 0, spent |-> 0]]
  /\ withdrawals = [o \in Consumers |-> [amount |-> 0, availableAt |-> 0]]
  /\ providerSignerOwner = [s \in Signers |-> NoOne]
  /\ relaySignerOwner = [s \in Signers |-> NoOne]
  /\ settlements = [k \in SettlementKeys |-> NoSettlement]
  /\ disputes = [k \in SettlementKeys |-> NoDispute]
  /\ disputeVotes = [c \in AllCases |-> [j \in Jurors |-> 0]]
  /\ probeCommitments = [c \in Commitments |-> 0]
  /\ providerProbeVoids = [x \in Providers \X Days |-> 0]
  /\ hunterProbeVoids = [x \in Hunters \X Providers \X Days |-> 0]
  /\ probeVoids = [k \in SettlementKeys |-> NoProbeVoid]
  /\ probeMaxFee = 0
  /\ capabilityCases = [c \in {} |-> NoJury]
  /\ oracle = NoOne
  /\ oracleDisputer = [k \in SettlementKeys |-> NoOne]
  /\ assignments = [c \in AllCases |-> NoJury]

\* External: the chain's clock moves between transactions.
Tick ==
  /\ NotEntered
  /\ now < MaxTime
  /\ now' = now + 1
  /\ UNCHANGED <<settings, ledger, batch, grantVars, signerVars, settlements, probeVars, caseVars, oracleVars>>

Next == NextFunds \/ NextReceipts \/ NextDisputes \/ Tick

Spec == Init /\ [][Next]_vars

-----------------------------------------------------------------------------
(* What the contract holds is what it owes *)

Liabilities(l) ==
  l.totalAvailable + l.totalClaimable + l.totalPendingFees + l.totalHoldback + l.totalReporterBonds

\* The token balance is exactly the sum of the five totals; inside releaseBatch the fees
\* already shared out are still counted as pending, the treasury's share apart.
Solvent == Liabilities(ledger) = ledger.token + batch.total - batch.treasury

\* The totals are what the accounts say: no account can claim or withdraw another's money.
Tallied(l) ==
  /\ SumFunction(l.available) + SumFunction(l.reserved) = l.totalAvailable
  /\ SumFunction(l.claimable) = l.totalClaimable
  /\ SumFunction(l.holdback) = l.totalHoldback
  /\ \A p \in Providers : l.holdback[p] = SlotSum(l, p, Slots)

AccountsMatchTotals == Tallied(ledger)

OpenFees(S) == Fees({k \in S : settlements[k].status \in OpenStatuses})

\* Between calls, the escrow and every Provider's exposure are the fees of its open receipts.
EscrowMatchesRecords ==
  NotEntered =>
    /\ ledger.totalPendingFees = OpenFees(SettlementKeys)
    /\ \A p \in Providers : ledger.exposure[p] = OpenFees({k \in SettlementKeys : settlements[k].provider = p})

\* A dispute's bond is held until it is claimed, or forfeited by a dismissal.
BondHeld(k) == settlements[k].status \in {"Disputed", "Confirmed", "TimedOut", "JuryUnavailable"}
               /\ disputes[k].reporter # NoOne /\ ~disputes[k].bondClaimed

\* Every bond still to be returned, and no other money, is in totalReporterBonds.
BondsMatchCases ==
  ledger.totalReporterBonds =
    SumFunctionOnSet([k \in SettlementKeys |-> disputes[k].totalBond], {k \in SettlementKeys : BondHeld(k)})
    + SumFunctionOnSet([c \in DOMAIN capabilityCases |-> capabilityCases[c].bond],
                       {c \in DOMAIN capabilityCases : capabilityCases[c].status = "Open"})

\* "A reused slot is at least HOLDBACK_BUCKETS days old, beyond the maximum holdback period, so its
\* balance has matured": what addHoldback would pay out today could be released anyway.
ReusedSlotMatured ==
  \A p \in Providers :
    LET slot == Today % HOLDBACK_BUCKETS
        old == ledger.buckets[p][slot]
    IN  old.amount > 0 /\ old.day # Today => slot \in matureSlots(ledger, p)

\* The verdict of a decided dispute is that of THRESHOLD jurors of its drawn jury, none of them a signing party.
VerdictBacked ==
  \A k \in SettlementKeys :
    LET r == settlements[k]
        voters(v) == {j \in Jurors : disputeVotes[k][j] = v}
    IN
    /\ r.status = "Confirmed" => Cardinality(voters(1)) >= THRESHOLD /\ voters(2) = {}
    /\ r.status = "Dismissed" => Cardinality(voters(2)) >= THRESHOLD /\ voters(1) = {}
    /\ voters(1) \cup voters(2) \subseteq assignments[k].jurors \ {r.providerSigner, r.relaySigner}
    /\ r.status \in {"JuryUnavailable", "TimedOut"} => voters(1) \cup voters(2) = {}

\* A case lists all voids of its hunter on its Provider in its days, for ever: a hunter can neither leave
\* out the probes it lost nor use one twice.
CasesComplete ==
  \A c \in DOMAIN capabilityCases :
    /\ capabilityCases[c].keys = {k \in SettlementKeys :
         /\ probeVoids[k].hunter = c[1] /\ settlements[k].provider = c[2]
         /\ c[3] <= probeVoids[k].day /\ probeVoids[k].day <= c[4]}
    /\ \A e \in DOMAIN capabilityCases \ {c} : capabilityCases[c].keys \cap capabilityCases[e].keys = {}

-----------------------------------------------------------------------------
(* What a step may never do *)

\* A receipt settles once and ends once: its parties and fee never change, and a final status stays, so a
\* fee is paid out or refunded, never both, and a replayed receipt or vote changes nothing.
Final(status) == status \in PaidStatuses \cup RefundedStatuses

SettlesOnce ==
  \A k \in SettlementKeys :
    LET r == settlements[k]
        next == settlements'[k]
    IN  r.status # "None" =>
          /\ next = [r EXCEPT !.status = next.status] /\ next.status # "None"
          /\ Final(r.status) => next.status = r.status
          /\ r.status = "Disputed" => next.status \notin {"Pending", "Released", "Voided"}

SettledOnce == [][SettlesOnce]_vars

-----------------------------------------------------------------------------
(* The settlement implements Escrow *)

Stage(status) ==
  CASE status = "None" -> "absent" [] status = "Pending" -> "held" [] status = "Disputed" -> "contested"
    [] status \in PaidStatuses -> "paid" [] status \in RefundedStatuses -> "refunded"

\* Inside releaseBatch a fee counts as earned from the moment its receipt is marked.
Money == INSTANCE Escrow WITH
  Receipts <- SettlementKeys,
  balance  <- [o \in Consumers |-> ledger.available[o] + ledger.reserved[o]],
  receipts <- [k \in SettlementKeys |-> [owner |-> settlements[k].owner, fee |-> settlements[k].fee,
                                         stage |-> Stage(settlements[k].status)]],
  earnings <- ledger.totalClaimable + ledger.totalHoldback + SumFunction(batch.items) + batch.treasury,
  bonds    <- ledger.totalReporterBonds

\* Whatever happens to it, a fee goes from its owner's balance to the earnings or back, in full and once.
EscrowImplemented == Money!Spec

\* No accounting underflow can lock a fee in escrow: while the shares fit in a fee, the release and the refund
\* of every open receipt go through.
FeesPayable ==
  NotEntered /\ settings.relayBps + TREASURY_BPS <= BPS =>
    \A k \in SettlementKeys : settlements[k].status \in OpenStatuses =>
      payRelease(ledger, settlements[k]) \in Ledger /\ refund(ledger, settlements[k]) \in Ledger

-----------------------------------------------------------------------------
(* Liveness *)

\* External: time passes, a transaction that began ends, and the keeper (keeper.py) releases what is due and
\* closes disputes whose time is over.
Fairness ==
  /\ WF_vars(Tick)
  /\ WF_vars(\/ \E k \in SettlementKeys : markReleased(k)
             \/ \E t \in Totals : payReleasedItem(t)
             \/ finishBatch)
  /\ \A k \in SettlementKeys : WF_vars(release(k)) /\ WF_vars(resolveTimedOutDispute(k))

FairSpec == Spec /\ Fairness

\* The last moment a receipt's fee can still be undecided.
LastDeadline(k) == settlements[k].releaseAt + settings.arbitrationTimeout

\* No fee stays in escrow for ever: whoever disputes, whatever the jury does, it is released or refunded.
FeesEnd ==
  \A k \in SettlementKeys :
    settlements[k].status \in OpenStatuses /\ LastDeadline(k) <= MaxTime ~> Final(settlements[k].status)
=============================================================================
