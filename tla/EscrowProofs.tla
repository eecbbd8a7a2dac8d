---------------------------- MODULE EscrowProofs ----------------------------
(***************************************************************************)
(* The settlement's records of money against its receipts, disputes, cases *)
(* and budgets, for every number of accounts, requests and amounts: what   *)
(* is pending is held by open receipts, every bond by an open case, a fee  *)
(* can always be paid out, a case lists its probes, and a budget is spent  *)
(* by the fees that were not refunded.                                     *)
(***************************************************************************)
EXTENDS SettlementProofs

\* What a receipt holds in escrow, if its Provider is one of P.
HeldBy(r, P) == IF r.status \in OpenStatuses /\ r.provider \in P THEN r.fee ELSE 0

\* What all receipts of the Providers P hold; what a batch has marked of theirs and not yet paid.
EscrowOf(P) == SumFunctionOnSet([k \in SettlementKeys |-> HeldBy(settlements[k], P)], SettlementKeys)
MarkedOf(P) == SumFunctionOnSet([t \in Totals |-> IF t[1] \in P THEN batch.items[t] ELSE 0], Totals)

\* A pending fee is an open receipt's, or was marked by the batch that runs, and is shared out or not.
EscrowHeld ==
  /\ ledger.totalPendingFees = EscrowOf(Providers) + MarkedOf(Providers) + batch.total
  /\ \A p \in Providers : ledger.exposure[p] = EscrowOf({p}) + MarkedOf({p})

\* The bonds of disputes and of cases that are still to be returned.
DisputeBond(k) == IF BondHeld(k) THEN disputes[k].totalBond ELSE 0
CaseBond(c) ==
  IF c \in DOMAIN capabilityCases /\ capabilityCases[c].status = "Open" THEN capabilityCases[c].bond ELSE 0
DisputeBonds == SumFunctionOnSet([k \in SettlementKeys |-> DisputeBond(k)], SettlementKeys)
CaseBonds == SumFunctionOnSet([c \in CaseIds |-> CaseBond(c)], CaseIds)
BondsHeld == ledger.totalReporterBonds = DisputeBonds + CaseBonds

\* The books: what is said of accounts, escrow and bonds, and what the calls that close a case rely on.
MoneyInv ==
  TypeOK /\ Tallied(ledger) /\ EscrowHeld /\ BondsHeld /\ ReporterKnown /\ CasesRequested

-----------------------------------------------------------------------------
(* Sums over receipts, over a batch and over cases *)

LEMMA FiniteRange ==
  ASSUME NEW S, IsFiniteSet(S), NEW f, NEW T, \A t \in T : \E x \in S : t = f[x]
  PROVE  IsFiniteSet(T)
<1> DEFINE U == {f[x] : x \in S}
           g == [x \in S |-> f[x]]
<1>1. g \in [S -> U]
  OBVIOUS
<1>2. \A u \in U : \E x \in S : g[x] = u
  OBVIOUS
<1>3. T \subseteq U
  OBVIOUS
<1> HIDE DEF g, U
<1>4. g \in Surjection(S, U)
  BY <1>1, <1>2 DEF Surjection
<1>5. IsFiniteSet(U)
  BY <1>4, FS_Surjection
<1>6. QED
  BY <1>3, <1>5, FS_Subset

LEMMA FiniteKeys == IsFiniteSet(SettlementKeys) /\ IsFiniteSet(Totals) /\ IsFiniteSet(CaseIds)
<1>1. IsFiniteSet(SettlementKeys)
  BY BaseAssumption, FS_Product DEF SettlementKeys
<1>2. IsFiniteSet(Totals)
  <2> DEFINE pairs == (Providers \X Consumers) \X Relays
             flat == [x \in pairs |-> <<x[1][1], x[1][2], x[2]>>]
  <2>1. IsFiniteSet(pairs)
    BY FiniteParties, FS_Product
  <2>2. ASSUME NEW t \in Totals PROVE \E x \in pairs : t = flat[x]
    <3>1. t[1] \in Providers /\ t[2] \in Consumers /\ t[3] \in Relays /\ t = <<t[1], t[2], t[3]>>
      BY DEF Totals
    <3>2. <<<<t[1], t[2]>>, t[3]>> \in pairs /\ flat[<<<<t[1], t[2]>>, t[3]>>] = t
      BY <3>1
    <3>3. QED
      BY <3>2
  <2> HIDE DEF flat, pairs
  <2>3. QED
    BY <2>1, <2>2, FiniteRange
<1>3. IsFiniteSet(Days)
  <2> DEFINE quotient == [t \in 0 .. MaxTime |-> t \div DAY]
  <2>1. MaxTime \in Int /\ 0 \in Int
    BY BaseAssumption
  <2>2. IsFiniteSet(0 .. MaxTime)
    BY <2>1, FS_Interval
  <2>3. \A d \in Days : \E t \in 0 .. MaxTime : d = quotient[t]
    BY DEF Days
  <2> HIDE DEF quotient
  <2>4. QED
    BY <2>2, <2>3, FiniteRange
<1>4. IsFiniteSet(CaseIds)
  <2> DEFINE pairs == (Hunters \X Providers) \X (Days \X Days)
             flat == [x \in pairs |-> <<x[1][1], x[1][2], x[2][1], x[2][2]>>]
  <2>1. IsFiniteSet(Hunters)
    BY BaseAssumption, FS_Subset
  <2>2. IsFiniteSet(Hunters \X Providers) /\ IsFiniteSet(Days \X Days)
    BY <1>3, <2>1, FiniteParties, FS_Product
  <2>3. IsFiniteSet(pairs)
    BY <2>2, FS_Product
  <2>4. ASSUME NEW c \in CaseIds PROVE \E x \in pairs : c = flat[x]
    <3>1. /\ c[1] \in Hunters /\ c[2] \in Providers /\ c[3] \in Days /\ c[4] \in Days
          /\ c = <<c[1], c[2], c[3], c[4]>>
      BY DEF CaseIds
    <3>2. /\ <<<<c[1], c[2]>>, <<c[3], c[4]>>>> \in pairs
          /\ flat[<<<<c[1], c[2]>>, <<c[3], c[4]>>>>] = c
      BY <3>1
    <3>3. QED
      BY <3>2
  <2> HIDE DEF flat, pairs
  <2>5. QED
    BY <2>3, <2>4, FiniteRange
<1>5. QED
  BY <1>1, <1>2, <1>4

LEMMA HeldNat == ASSUME NEW r \in Settlement, NEW P PROVE HeldBy(r, P) \in Nat
BY DEF HeldBy, Settlement

LEMMA EscrowInt ==
  ASSUME TypeOK, NEW P
  PROVE  /\ EscrowOf(P) \in Nat /\ MarkedOf(P) \in Nat
         /\ \A k \in SettlementKeys : HeldBy(settlements[k], P) <= EscrowOf(P)
         /\ \A t \in Totals : t[1] \in P => batch.items[t] <= MarkedOf(P)
<1> DEFINE f == [k \in SettlementKeys |-> HeldBy(settlements[k], P)]
           g == [t \in Totals |-> IF t[1] \in P THEN batch.items[t] ELSE 0]
<1>1. \A k \in SettlementKeys : f[k] \in Nat
  BY HeldNat DEF TypeOK
<1>2. \A t \in Totals : g[t] \in Nat
  BY DEF TypeOK, Batch
<1>3. EscrowOf(P) = SumFunctionOnSet(f, SettlementKeys) /\ MarkedOf(P) = SumFunctionOnSet(g, Totals)
  BY DEF EscrowOf, MarkedOf
<1>4. /\ \A k \in SettlementKeys : f[k] = HeldBy(settlements[k], P)
      /\ \A t \in Totals : t[1] \in P => g[t] = batch.items[t]
  OBVIOUS
<1> HIDE DEF f, g
<1>5. SumFunctionOnSet(f, SettlementKeys) \in Nat /\ SumFunctionOnSet(g, Totals) \in Nat
  BY <1>1, <1>2, FiniteKeys, SumNat
<1>6. \A k \in SettlementKeys : f[k] <= SumFunctionOnSet(f, SettlementKeys)
  BY <1>1, FiniteKeys, SumBounds
<1>7. \A t \in Totals : g[t] <= SumFunctionOnSet(g, Totals)
  BY <1>2, FiniteKeys, SumBounds
<1>8. QED
  BY <1>3, <1>4, <1>5, <1>6, <1>7

\* A receipt's record changes.
LEMMA EscrowMoves ==
  ASSUME TypeOK, NEW k \in SettlementKeys, NEW r \in Settlement, settlements' = [settlements EXCEPT ![k] = r], NEW P
  PROVE  EscrowOf(P)' = EscrowOf(P) - HeldBy(settlements[k], P) + HeldBy(r, P)
<1> DEFINE f == [x \in SettlementKeys |-> HeldBy(settlements[x], P)]
           g == [x \in SettlementKeys |-> HeldBy(settlements'[x], P)]
<1>1. settlements \in [SettlementKeys -> Settlement]
  BY DEF TypeOK
<1>2. settlements' \in [SettlementKeys -> Settlement]
  BY <1>1
<1>3. /\ \A x \in SettlementKeys : f[x] \in Int /\ g[x] \in Int
      /\ \A x \in SettlementKeys \ {k} : g[x] = f[x]
      /\ f[k] = HeldBy(settlements[k], P) /\ g[k] = HeldBy(r, P)
  BY <1>1, <1>2, HeldNat
<1>4. EscrowOf(P)' = SumFunctionOnSet(g, SettlementKeys) /\ EscrowOf(P) = SumFunctionOnSet(f, SettlementKeys)
  BY DEF EscrowOf
<1> HIDE DEF f, g
<1>5. SumFunctionOnSet(g, SettlementKeys) = SumFunctionOnSet(f, SettlementKeys) - f[k] + g[k]
  BY <1>3, FiniteKeys, SumChange
<1>6. QED
  BY <1>3, <1>4, <1>5

\* One total of a batch changes.
LEMMA MarkedMoves ==
  ASSUME TypeOK, NEW t \in Totals, NEW n \in Nat, batch'.items = [batch.items EXCEPT ![t] = n], NEW P
  PROVE  MarkedOf(P)' = IF t[1] \in P THEN MarkedOf(P) - batch.items[t] + n ELSE MarkedOf(P)
<1> DEFINE f == [x \in Totals |-> IF x[1] \in P THEN batch.items[x] ELSE 0]
           g == [x \in Totals |-> IF x[1] \in P THEN batch'.items[x] ELSE 0]
<1>1. batch.items \in [Totals -> Nat]
  BY DEF TypeOK, Batch
<1>2. /\ \A x \in Totals : f[x] \in Int /\ g[x] \in Int
      /\ \A x \in Totals \ {t} : g[x] = f[x]
      /\ t[1] \in P => f[t] = batch.items[t] /\ g[t] = n
      /\ t[1] \notin P => f[t] = 0 /\ g[t] = 0
  BY <1>1
<1>3. MarkedOf(P)' = SumFunctionOnSet(g, Totals) /\ MarkedOf(P) = SumFunctionOnSet(f, Totals)
  BY DEF MarkedOf
<1> HIDE DEF f, g
<1>4. SumFunctionOnSet(g, Totals) = SumFunctionOnSet(f, Totals) - f[t] + g[t]
  BY <1>2, FiniteKeys, SumChange
<1>5. MarkedOf(P) \in Int
  BY EscrowInt
<1>6. QED
  BY <1>2, <1>3, <1>4, <1>5

LEMMA NothingMarked ==
  ASSUME batch.items = NoTotals, NEW P PROVE MarkedOf(P) = 0
<1> DEFINE g == [t \in Totals |-> IF t[1] \in P THEN batch.items[t] ELSE 0]
<1>1. \A t \in Totals : g[t] = 0
  BY DEF NoTotals
<1>2. MarkedOf(P) = SumFunctionOnSet(g, Totals)
  BY DEF MarkedOf
<1> HIDE DEF g
<1>3. QED
  BY <1>1, <1>2, FiniteKeys, SumZero

LEMMA EscrowSame == ASSUME UNCHANGED settlements, NEW P PROVE EscrowOf(P)' = EscrowOf(P)
BY DEF EscrowOf, HeldBy

LEMMA MarkedSame == ASSUME batch'.items = batch.items, NEW P PROVE MarkedOf(P)' = MarkedOf(P)
BY DEF MarkedOf

\* A bond changes hands: one dispute's, or one case's.
LEMMA DisputeBondMoves ==
  ASSUME TypeOK, TypeOK', NEW k \in SettlementKeys, \A x \in SettlementKeys \ {k} : DisputeBond(x)' = DisputeBond(x)
  PROVE  DisputeBonds' = DisputeBonds - DisputeBond(k) + DisputeBond(k)'
<1> DEFINE f == [x \in SettlementKeys |-> DisputeBond(x)]
           g == [x \in SettlementKeys |-> DisputeBond(x)']
<1>1. \A x \in SettlementKeys : DisputeBond(x) \in Int /\ DisputeBond(x)' \in Int
  BY DEF DisputeBond, TypeOK, Dispute
<1>2. DisputeBonds = SumFunctionOnSet(f, SettlementKeys) /\ DisputeBonds' = SumFunctionOnSet(g, SettlementKeys)
  BY DEF DisputeBonds
<1>3. /\ \A x \in SettlementKeys : f[x] \in Int /\ g[x] \in Int
      /\ \A x \in SettlementKeys \ {k} : g[x] = f[x]
      /\ f[k] = DisputeBond(k) /\ g[k] = DisputeBond(k)'
  BY <1>1
<1> HIDE DEF f, g
<1>4. SumFunctionOnSet(g, SettlementKeys) = SumFunctionOnSet(f, SettlementKeys) - f[k] + g[k]
  BY <1>3, FiniteKeys, SumChange
<1>5. QED
  BY <1>2, <1>3, <1>4

LEMMA CaseBondMoves ==
  ASSUME TypeOK, TypeOK', NEW c \in CaseIds, \A e \in CaseIds \ {c} : CaseBond(e)' = CaseBond(e)
  PROVE  CaseBonds' = CaseBonds - CaseBond(c) + CaseBond(c)'
<1> DEFINE f == [e \in CaseIds |-> CaseBond(e)]
           g == [e \in CaseIds |-> CaseBond(e)']
<1>1. \A e \in CaseIds : CaseBond(e) \in Int /\ CaseBond(e)' \in Int
  BY DEF CaseBond, TypeOK, CapabilityCase
<1>2. CaseBonds = SumFunctionOnSet(f, CaseIds) /\ CaseBonds' = SumFunctionOnSet(g, CaseIds)
  BY DEF CaseBonds
<1>3. /\ \A e \in CaseIds : f[e] \in Int /\ g[e] \in Int
      /\ \A e \in CaseIds \ {c} : g[e] = f[e]
      /\ f[c] = CaseBond(c) /\ g[c] = CaseBond(c)'
  BY <1>1
<1> HIDE DEF f, g
<1>4. SumFunctionOnSet(g, CaseIds) = SumFunctionOnSet(f, CaseIds) - f[c] + g[c]
  BY <1>3, FiniteKeys, SumChange
<1>5. QED
  BY <1>2, <1>3, <1>4

LEMMA BondsInt == ASSUME TypeOK PROVE DisputeBonds \in Nat /\ CaseBonds \in Nat
<1>1. \A x \in SettlementKeys : DisputeBond(x) \in Nat
  BY DEF DisputeBond, TypeOK, Dispute
<1>2. \A e \in CaseIds : CaseBond(e) \in Nat
  BY DEF CaseBond, TypeOK, CapabilityCase
<1>3. QED
  BY <1>1, <1>2, FiniteKeys, SumNat DEF DisputeBonds, CaseBonds

LEMMA DisputeBondsSame ==
  ASSUME \A x \in SettlementKeys : DisputeBond(x)' = DisputeBond(x) PROVE DisputeBonds' = DisputeBonds
BY DEF DisputeBonds

LEMMA CaseBondsSame == ASSUME UNCHANGED capabilityCases PROVE CaseBonds' = CaseBonds
BY DEF CaseBonds, CaseBond

-----------------------------------------------------------------------------
(* The escrow is what the records and the batch say, after every step *)

LEMMA EscrowRested ==
  ASSUME EscrowHeld, ledger'.exposure = ledger.exposure, ledger'.totalPendingFees = ledger.totalPendingFees,
         UNCHANGED <<settlements, batch>>
  PROVE  EscrowHeld'
<1>1. \A P : EscrowOf(P)' = EscrowOf(P) /\ MarkedOf(P)' = MarkedOf(P)
  BY EscrowSame, MarkedSame
<1>2. QED
  BY <1>1 DEF EscrowHeld

\* A record changes, and with it by n what its Provider has in escrow.
FeeMoved(k, r, p, n) ==
  /\ settlements' = [settlements EXCEPT ![k] = r] /\ UNCHANGED batch
  /\ \A P : HeldBy(r, P) = HeldBy(settlements[k], P) + (IF p \in P THEN n ELSE 0)
  /\ ledger'.totalPendingFees = ledger.totalPendingFees + n
  /\ \A q \in Providers : ledger'.exposure[q] = ledger.exposure[q] + (IF q = p THEN n ELSE 0)

LEMMA EscrowRecord ==
  ASSUME TypeOK, EscrowHeld, NEW k \in SettlementKeys, NEW r \in Settlement, NEW p \in Providers, NEW n \in Int,
         FeeMoved(k, r, p, n)
  PROVE  EscrowHeld'
<1>1. ASSUME NEW P PROVE EscrowOf(P)' = EscrowOf(P) + (IF p \in P THEN n ELSE 0) /\ MarkedOf(P)' = MarkedOf(P)
  <2>1. EscrowOf(P) \in Int /\ HeldBy(settlements[k], P) \in Int
    BY EscrowInt, HeldNat DEF TypeOK
  <2>2. EscrowOf(P)' = EscrowOf(P) - HeldBy(settlements[k], P) + HeldBy(r, P)
    BY EscrowMoves DEF FeeMoved
  <2>3. HeldBy(r, P) = HeldBy(settlements[k], P) + (IF p \in P THEN n ELSE 0)
    BY DEF FeeMoved
  <2>4. MarkedOf(P)' = MarkedOf(P)
    BY MarkedSame DEF FeeMoved
  <2>5. QED
    BY <2>1, <2>2, <2>3, <2>4
<1>2. \A P : EscrowOf(P) \in Int /\ MarkedOf(P) \in Int
  BY EscrowInt
<1>3. batch.total \in Int /\ batch'.total = batch.total
  BY DEF TypeOK, Batch, FeeMoved
<1>4. ledger'.totalPendingFees = EscrowOf(Providers)' + MarkedOf(Providers)' + batch'.total
  BY <1>1, <1>2, <1>3 DEF EscrowHeld, FeeMoved
<1>5. ASSUME NEW q \in Providers PROVE ledger'.exposure[q] = EscrowOf({q})' + MarkedOf({q})'
  <2>1. EscrowOf({q})' = EscrowOf({q}) + (IF q = p THEN n ELSE 0) /\ MarkedOf({q})' = MarkedOf({q})
    BY <1>1
  <2>2. EscrowOf({q}) \in Int /\ MarkedOf({q}) \in Int /\ ledger.exposure[q] = EscrowOf({q}) + MarkedOf({q})
    BY <1>2 DEF EscrowHeld
  <2>3. ledger'.exposure[q] = ledger.exposure[q] + (IF q = p THEN n ELSE 0)
    BY DEF FeeMoved
  <2>4. QED
    BY <2>1, <2>2, <2>3
<1>6. QED
  BY <1>4, <1>5 DEF EscrowHeld

LEMMA EscrowOnHeld ==
  ASSUME TypeOK, EscrowHeld, NEW k \in SettlementKeys, NEW r \in Settlement, HeldStep(k, r)
  PROVE  EscrowHeld'
<1>1. ledger.exposure \in [Providers -> Int] /\ ledger.totalPendingFees \in Int /\ r.fee \in Int
  BY DEF TypeOK, Ledger, Settlement
<1>2. /\ settlements' = [settlements EXCEPT ![k] = r] /\ UNCHANGED batch /\ r.provider \in Providers
      /\ settlements[k].status = "None" /\ r.status = "Pending"
      /\ ledger'.exposure = [ledger.exposure EXCEPT ![r.provider] = @ + r.fee]
      /\ ledger'.totalPendingFees = ledger.totalPendingFees + r.fee
  BY DEF HeldStep, Owes
<1>3. ASSUME NEW P PROVE HeldBy(r, P) = HeldBy(settlements[k], P) + (IF r.provider \in P THEN r.fee ELSE 0)
  BY <1>1, <1>2 DEF HeldBy, OpenStatuses
<1>4. \A q \in Providers : ledger'.exposure[q] = ledger.exposure[q] + (IF q = r.provider THEN r.fee ELSE 0)
  BY <1>1, <1>2
<1>5. FeeMoved(k, r, r.provider, r.fee)
  BY <1>2, <1>3, <1>4 DEF FeeMoved
<1>6. QED
  BY <1>1, <1>2, <1>5, EscrowRecord

\* A receipt's fee leaves the escrow.
LEMMA EscrowFreed ==
  ASSUME TypeOK, EscrowHeld, NEW k \in SettlementKeys, NEW status \in Statuses \ OpenStatuses,
         settlements[k].status \in OpenStatuses, settlements' = [settlements EXCEPT ![k].status = status],
         ledger'.exposure = [ledger.exposure EXCEPT ![settlements[k].provider] = @ - settlements[k].fee],
         ledger'.totalPendingFees = ledger.totalPendingFees - settlements[k].fee, UNCHANGED batch
  PROVE  EscrowHeld'
<1> DEFINE r == settlements[k]
           s == [r EXCEPT !.status = status]
           n == 0 - r.fee
<1>1. /\ ledger.exposure \in [Providers -> Int] /\ ledger.totalPendingFees \in Int /\ r.fee \in Int
      /\ r \in Settlement /\ s \in Settlement /\ s.status = status /\ s.provider = r.provider
      /\ r.provider \in Providers /\ settlements \in [SettlementKeys -> Settlement]
  BY RecordKnown, NewStatus DEF TypeOK, Ledger, Settlement, OpenStatuses
<1>2. settlements' = [settlements EXCEPT ![k] = s]
  BY <1>1
<1>3. ASSUME NEW P PROVE HeldBy(s, P) = HeldBy(r, P) + (IF r.provider \in P THEN n ELSE 0)
  BY <1>1 DEF HeldBy
<1>4. \A q \in Providers : ledger'.exposure[q] = ledger.exposure[q] + (IF q = r.provider THEN n ELSE 0)
  BY <1>1
<1>5. ledger'.totalPendingFees = ledger.totalPendingFees + n /\ n \in Int
  BY <1>1
<1> HIDE DEF s, n
<1>6. FeeMoved(k, s, r.provider, n)
  BY <1>2, <1>3, <1>4, <1>5 DEF FeeMoved
<1>7. QED
  BY <1>1, <1>5, <1>6, EscrowRecord

\* A receipt is disputed: its fee stays where it is.
LEMMA EscrowDisputed ==
  ASSUME TypeOK, EscrowHeld, NEW k \in SettlementKeys, settlements[k].status = "Pending",
         settlements' = [settlements EXCEPT ![k].status = "Disputed"],
         ledger'.exposure = ledger.exposure, ledger'.totalPendingFees = ledger.totalPendingFees, UNCHANGED batch
  PROVE  EscrowHeld'
<1> DEFINE r == settlements[k]
           s == [r EXCEPT !.status = "Disputed"]
<1>1. /\ ledger.exposure \in [Providers -> Int] /\ ledger.totalPendingFees \in Int /\ r.fee \in Int
      /\ r \in Settlement /\ s \in Settlement /\ s.status = "Disputed" /\ s.provider = r.provider /\ s.fee = r.fee
      /\ r.provider \in Providers /\ settlements \in [SettlementKeys -> Settlement]
  <2>1. r \in Settlement /\ "Disputed" \in Statuses /\ settlements \in [SettlementKeys -> Settlement]
    BY DEF TypeOK, Statuses
  <2>2. s \in Settlement /\ s.status = "Disputed" /\ s.provider = r.provider /\ s.fee = r.fee /\ r.fee \in Int
    BY <2>1 DEF Settlement
  <2>3. QED
    BY <2>1, <2>2, RecordKnown DEF TypeOK, Ledger
<1>2. settlements' = [settlements EXCEPT ![k] = s]
  BY <1>1
<1>3. ASSUME NEW P PROVE HeldBy(s, P) = HeldBy(r, P) + (IF r.provider \in P THEN 0 ELSE 0)
  BY <1>1 DEF HeldBy, OpenStatuses
<1>4. \A q \in Providers : ledger'.exposure[q] = ledger.exposure[q] + (IF q = r.provider THEN 0 ELSE 0)
  BY <1>1
<1>5. ledger'.totalPendingFees = ledger.totalPendingFees + 0
  BY <1>1
<1> HIDE DEF s, r
<1>6. FeeMoved(k, s, r.provider, 0)
  BY <1>2, <1>3, <1>4, <1>5 DEF FeeMoved, r
<1>7. QED
  BY <1>1, <1>6, EscrowRecord

\* releaseBatch moves fees from the records to its totals, and from those out of the escrow.
LEMMA EscrowBatch == ASSUME TypeOK, EscrowHeld, BatchStep PROVE EscrowHeld'
<1>0. /\ batch \in Batch /\ batch.items \in [Totals -> Nat] /\ batch.total \in Nat
      /\ ledger.exposure \in [Providers -> Int] /\ ledger.totalPendingFees \in Int
      /\ settlements \in [SettlementKeys -> Settlement]
      /\ \A P : EscrowOf(P) \in Int /\ MarkedOf(P) \in Int
  BY EscrowInt DEF TypeOK, Batch, Ledger
<1>1. ASSUME BatchBegun PROVE EscrowHeld'
  <2>1. /\ batch = Idle /\ batch'.items = batch.items /\ batch'.total = batch.total
        /\ UNCHANGED <<ledger, settlements>>
    BY <1>1 DEF BatchBegun, Idle, TypeOK, BatchKnown
  <2>2. \A P : EscrowOf(P)' = EscrowOf(P) /\ MarkedOf(P)' = MarkedOf(P)
    BY <2>1, EscrowSame, MarkedSame
  <2>3. QED
    BY <2>1, <2>2 DEF EscrowHeld
<1>2. ASSUME NEW k \in SettlementKeys, markReleased(k) PROVE EscrowHeld'
  <2> DEFINE r == settlements[k]
             s == [r EXCEPT !.status = "Released"]
             t == <<r.provider, r.owner, r.relay>>
  <2>1. r.status = "Pending" /\ k \in batch.keys
    BY <1>2 DEF markReleased, TypeOK, BatchKnown
  <2>2. /\ r \in Settlement /\ r.fee \in Nat /\ t \in Totals /\ t[1] = r.provider /\ r.provider \in Providers
        /\ s \in Settlement /\ s.status = "Released"
    BY <1>0, <2>1, RecordKnown, NewStatus DEF Totals, Statuses
  <2>3. /\ settlements' = [settlements EXCEPT ![k] = s]
        /\ batch' = [batch EXCEPT !.keys = @ \ {k}, !.items[t] = @ + r.fee]
        /\ UNCHANGED ledger
    BY <1>0, <1>2 DEF markReleased
  <2> HIDE DEF s, t
  <2>4. batch'.items = [batch.items EXCEPT ![t] = batch.items[t] + r.fee] /\ batch'.total = batch.total
    BY <1>0, <2>3 DEF Batch
  <2>5. batch.items[t] \in Nat /\ batch.items[t] + r.fee \in Nat
    BY <1>0, <2>2
  <2>6. ASSUME NEW P PROVE EscrowOf(P)' + MarkedOf(P)' = EscrowOf(P) + MarkedOf(P)
    <3>1. EscrowOf(P)' = EscrowOf(P) - HeldBy(r, P) + HeldBy(s, P)
      BY <2>2, <2>3, EscrowMoves
    <3>2. MarkedOf(P)' = IF t[1] \in P THEN MarkedOf(P) - batch.items[t] + (batch.items[t] + r.fee) ELSE MarkedOf(P)
      BY <2>2, <2>4, <2>5, MarkedMoves
    <3>3. HeldBy(r, P) = (IF t[1] \in P THEN r.fee ELSE 0) /\ HeldBy(s, P) = 0
      BY <2>1, <2>2 DEF HeldBy, OpenStatuses
    <3>4. EscrowOf(P) \in Int /\ MarkedOf(P) \in Int
      BY <1>0
    <3> HIDE DEF r
    <3>5. QED
      BY <2>2, <2>5, <3>1, <3>2, <3>3, <3>4
  <2>7. ledger'.totalPendingFees = EscrowOf(Providers)' + MarkedOf(Providers)' + batch'.total
    BY <2>3, <2>4, <2>6 DEF EscrowHeld
  <2>8. \A p \in Providers : ledger'.exposure[p] = EscrowOf({p})' + MarkedOf({p})'
    BY <2>3, <2>6 DEF EscrowHeld
  <2>9. QED
    BY <2>7, <2>8 DEF EscrowHeld
<1>3. ASSUME NEW t \in Totals, BatchPaid(t) PROVE EscrowHeld'
  <2> DEFINE fee == batch.items[t]
  <2>1. /\ batch'.items = [batch.items EXCEPT ![t] = 0] /\ batch'.total = batch.total + fee
        /\ ledger'.exposure = [ledger.exposure EXCEPT ![t[1]] = @ - fee]
        /\ ledger'.totalPendingFees = ledger.totalPendingFees /\ UNCHANGED settlements
    BY <1>0, <1>3 DEF BatchPaid, Owes, Batch
  <2>2. fee \in Nat /\ t[1] \in Providers
    BY <1>0 DEF Totals
  <2> HIDE DEF fee
  <2>3. ASSUME NEW P
        PROVE  /\ EscrowOf(P)' = EscrowOf(P)
               /\ MarkedOf(P)' = IF t[1] \in P THEN MarkedOf(P) - fee ELSE MarkedOf(P)
    <3>1. EscrowOf(P)' = EscrowOf(P)
      BY <2>1, EscrowSame
    <3>2. MarkedOf(P)' = IF t[1] \in P THEN MarkedOf(P) - fee + 0 ELSE MarkedOf(P)
      BY <2>1, MarkedMoves DEF fee
    <3>3. QED
      BY <1>0, <2>2, <3>1, <3>2
  <2>4. ledger'.totalPendingFees = EscrowOf(Providers)' + MarkedOf(Providers)' + batch'.total
    <3>1. /\ EscrowOf(Providers) \in Int /\ MarkedOf(Providers) \in Int
          /\ ledger.totalPendingFees = EscrowOf(Providers) + MarkedOf(Providers) + batch.total
      BY <1>0 DEF EscrowHeld
    <3>2. MarkedOf(Providers)' = MarkedOf(Providers) - fee /\ EscrowOf(Providers)' = EscrowOf(Providers)
      BY <2>2, <2>3
    <3>3. QED
      BY <1>0, <2>1, <2>2, <3>1, <3>2
  <2>5. ASSUME NEW p \in Providers PROVE ledger'.exposure[p] = EscrowOf({p})' + MarkedOf({p})'
    <3>1. /\ EscrowOf({p}) \in Int /\ MarkedOf({p}) \in Int
          /\ ledger.exposure[p] = EscrowOf({p}) + MarkedOf({p})
      BY <1>0 DEF EscrowHeld
    <3>2. EscrowOf({p})' = EscrowOf({p}) /\ MarkedOf({p})' = IF t[1] = p THEN MarkedOf({p}) - fee ELSE MarkedOf({p})
      BY <2>3
    <3>3. ledger'.exposure[p] = IF t[1] = p THEN ledger.exposure[p] - fee ELSE ledger.exposure[p]
      BY <1>0, <2>1, <2>2
    <3>4. QED
      BY <2>2, <3>1, <3>2, <3>3
  <2>6. QED
    BY <2>4, <2>5 DEF EscrowHeld
<1>4. ASSUME BatchDone PROVE EscrowHeld'
  <2>1. /\ batch.items = NoTotals /\ batch'.items = NoTotals /\ batch'.total = 0
        /\ ledger'.exposure = ledger.exposure /\ ledger'.totalPendingFees = ledger.totalPendingFees - batch.total
        /\ UNCHANGED settlements
    BY <1>4 DEF BatchDone, Owes, Idle
  <2>2. ASSUME NEW P PROVE EscrowOf(P)' = EscrowOf(P) /\ MarkedOf(P)' = MarkedOf(P)
    BY <2>1, EscrowSame, MarkedSame
  <2>3. ledger'.totalPendingFees = EscrowOf(Providers)' + MarkedOf(Providers)' + batch'.total
    <3>1. /\ EscrowOf(Providers) \in Int /\ MarkedOf(Providers) \in Int
          /\ ledger.totalPendingFees = EscrowOf(Providers) + MarkedOf(Providers) + batch.total
      BY <1>0 DEF EscrowHeld
    <3>2. QED
      BY <1>0, <2>1, <2>2, <3>1
  <2>4. \A p \in Providers : ledger'.exposure[p] = EscrowOf({p})' + MarkedOf({p})'
    BY <2>1, <2>2 DEF EscrowHeld
  <2>5. QED
    BY <2>3, <2>4 DEF EscrowHeld
<1>5. QED
  BY <1>1, <1>2, <1>3, <1>4 DEF BatchStep

-----------------------------------------------------------------------------
(* So are the bonds *)

\* The bond of one dispute changes by n, and with it the total.
LEMMA BondsDispute ==
  ASSUME TypeOK, TypeOK', BondsHeld, NEW k \in SettlementKeys, NEW n \in Int,
         \A x \in SettlementKeys \ {k} : DisputeBond(x)' = DisputeBond(x),
         DisputeBond(k)' = DisputeBond(k) + n, UNCHANGED capabilityCases,
         ledger'.totalReporterBonds = ledger.totalReporterBonds + n
  PROVE  BondsHeld'
<1>1. DisputeBonds \in Int /\ CaseBonds \in Int /\ ledger.totalReporterBonds = DisputeBonds + CaseBonds
  BY BondsInt DEF BondsHeld
<1>2. DisputeBond(k) \in Int
  BY DEF DisputeBond, TypeOK, Dispute
<1>3. DisputeBonds' = DisputeBonds - DisputeBond(k) + DisputeBond(k)'
  BY DisputeBondMoves
<1>4. CaseBonds' = CaseBonds
  BY CaseBondsSame
<1>5. QED
  BY <1>1, <1>2, <1>3, <1>4 DEF BondsHeld

\* A receipt that was open is released, or comes into being: no bond of its own is concerned.
LEMMA BondsPending ==
  ASSUME TypeOK, TypeOK', BondsHeld, NEW k \in SettlementKeys, NEW r \in Settlement,
         settlements' = [settlements EXCEPT ![k] = r], settlements[k].status \in {"None", "Pending"},
         r.status \in {"Pending", "Released", "Voided"}, UNCHANGED capabilityCases,
         \A x \in SettlementKeys :
           /\ disputes'[x].reporter = disputes[x].reporter /\ disputes'[x].totalBond = disputes[x].totalBond
           /\ disputes'[x].bondClaimed = disputes[x].bondClaimed,
         ledger'.totalReporterBonds = ledger.totalReporterBonds
  PROVE  BondsHeld'
<1>1. settlements'[k] = r /\ \A x \in SettlementKeys \ {k} : settlements'[x] = settlements[x]
  BY DEF TypeOK
<1>2. DisputeBond(k)' = DisputeBond(k) + 0
  BY <1>1 DEF DisputeBond, BondHeld
<1>3. \A x \in SettlementKeys \ {k} : DisputeBond(x)' = DisputeBond(x)
  BY <1>1 DEF DisputeBond, BondHeld
<1>4. ledger'.totalReporterBonds = ledger.totalReporterBonds + 0
  BY DEF TypeOK, Ledger
<1>5. QED
  BY <1>2, <1>3, <1>4, BondsDispute

LEMMA BondsReceipt == ASSUME TypeOK, TypeOK', BondsHeld, ReporterKnown, ReceiptStep PROVE BondsHeld'
<1>0. settlements \in [SettlementKeys -> Settlement] /\ ledger.totalReporterBonds \in Int
  BY DEF TypeOK, Ledger
<1>1. ASSUME NEW k \in SettlementKeys, NEW r \in Settlement, HeldStep(k, r) PROVE BondsHeld'
  BY <1>1, BondsPending DEF HeldStep, Owes
<1>2. ASSUME NEW k \in SettlementKeys, NEW status \in Statuses, NEW bond \in Nat, PaidStep(k, status, bond)
      PROVE  BondsHeld'
  <2>1. settlements'[k].status = status /\ \A x \in SettlementKeys \ {k} : settlements'[x] = settlements[x]
    BY <1>0, <1>2 DEF PaidStep, Settlement
  <2>2. /\ UNCHANGED <<disputes, capabilityCases>>
        /\ ledger'.totalReporterBonds = ledger.totalReporterBonds - bond
        /\ \/ settlements[k].status = "Pending" /\ status = "Released" /\ bond = 0
           \/ settlements[k].status = "Disputed" /\ status = "TimedOut" /\ bond = 0
           \/ settlements[k].status = "Disputed" /\ status = "Dismissed" /\ bond = disputes[k].totalBond
    BY <1>2 DEF PaidStep, Owes
  <2>3. \A x \in SettlementKeys \ {k} : DisputeBond(x)' = DisputeBond(x)
    BY <2>1, <2>2 DEF DisputeBond, BondHeld
  <2>4. DisputeBond(k)' = DisputeBond(k) + (0 - bond)
    <3>1. disputes[k].totalBond \in Nat
      BY DEF TypeOK, Dispute
    <3>2. settlements[k].status = "Disputed" => disputes[k].reporter # NoOne /\ ~disputes[k].bondClaimed
      BY DEF ReporterKnown
    <3>3. disputes'[k] = disputes[k]
      BY <2>2
    <3>4. CASE settlements[k].status = "Pending" /\ status = "Released" /\ bond = 0
      BY <2>1, <3>4 DEF DisputeBond, BondHeld
    <3>5. CASE settlements[k].status = "Disputed" /\ status = "TimedOut" /\ bond = 0
      <4>1. BondHeld(k) /\ BondHeld(k)'
        BY <2>1, <3>2, <3>3, <3>5 DEF BondHeld
      <4>2. QED
        BY <3>1, <3>3, <3>5, <4>1 DEF DisputeBond
    <3>6. CASE settlements[k].status = "Disputed" /\ status = "Dismissed" /\ bond = disputes[k].totalBond
      <4>1. BondHeld(k) /\ ~BondHeld(k)'
        BY <2>1, <3>2, <3>6 DEF BondHeld
      <4>2. QED
        BY <3>1, <3>6, <4>1 DEF DisputeBond
    <3>7. QED
      BY <2>2, <3>4, <3>5, <3>6
  <2>5. ledger'.totalReporterBonds = ledger.totalReporterBonds + (0 - bond) /\ 0 - bond \in Int
    BY <1>0, <2>2
  <2>6. QED
    BY <2>2, <2>3, <2>4, <2>5, BondsDispute
<1>3. ASSUME NEW k \in SettlementKeys, NEW status \in Statuses, RefundedStep(k, status) PROVE BondsHeld'
  <2>1. settlements'[k].status = status /\ \A x \in SettlementKeys \ {k} : settlements'[x] = settlements[x]
    BY <1>0, <1>3 DEF RefundedStep, Settlement
  <2>2. /\ UNCHANGED capabilityCases
        /\ \A x \in SettlementKeys :
           /\ disputes'[x].reporter = disputes[x].reporter /\ disputes'[x].totalBond = disputes[x].totalBond
           /\ disputes'[x].bondClaimed = disputes[x].bondClaimed
        /\ ledger'.totalReporterBonds = ledger.totalReporterBonds
        /\ \/ settlements[k].status = "Pending" /\ status = "Voided"
           \/ settlements[k].status = "Disputed" /\ status \in {"Confirmed", "JuryUnavailable"}
    BY <1>3 DEF RefundedStep, Owes
  <2>3. \A x \in SettlementKeys \ {k} : DisputeBond(x)' = DisputeBond(x)
    BY <2>1, <2>2 DEF DisputeBond, BondHeld
  <2>4. DisputeBond(k)' = DisputeBond(k)
    <3>1. settlements[k].status = "Disputed" => disputes[k].reporter # NoOne /\ ~disputes[k].bondClaimed
      BY DEF ReporterKnown
    <3>2. BondHeld(k)' <=> BondHeld(k)
      BY <2>1, <2>2, <3>1 DEF BondHeld
    <3>3. QED
      BY <2>2, <3>2 DEF DisputeBond
  <2>5. DisputeBonds' = DisputeBonds /\ CaseBonds' = CaseBonds
    BY <2>2, <2>3, <2>4, DisputeBondsSame, CaseBondsSame
  <2>6. QED
    BY <2>2, <2>5 DEF BondsHeld
<1>4. QED
  BY <1>1, <1>2, <1>3 DEF ReceiptStep

LEMMA BondsSame ==
  ASSUME BondsHeld, UNCHANGED <<settlements, disputes, capabilityCases>>,
         ledger'.totalReporterBonds = ledger.totalReporterBonds
  PROVE  BondsHeld'
<1>1. \A x \in SettlementKeys : DisputeBond(x)' = DisputeBond(x)
  BY DEF DisputeBond, BondHeld
<1>2. DisputeBonds' = DisputeBonds /\ CaseBonds' = CaseBonds
  BY <1>1, DisputeBondsSame, CaseBondsSame
<1>3. QED
  BY <1>2 DEF BondsHeld

LEMMA BondsBatch == ASSUME TypeOK, TypeOK', BondsHeld, BatchStep PROVE BondsHeld'
<1>1. ASSUME NEW k \in SettlementKeys, markReleased(k) PROVE BondsHeld'
  <2> DEFINE s == [settlements[k] EXCEPT !.status = "Released"]
  <2>1. settlements[k].status = "Pending" /\ UNCHANGED <<ledger, disputes, capabilityCases>>
    BY <1>1 DEF markReleased, TypeOK, BatchKnown, caseVars
  <2>2. settlements[k] \in Settlement /\ settlements \in [SettlementKeys -> Settlement] /\ "Released" \in Statuses
    BY DEF TypeOK, Statuses
  <2>3. s \in Settlement /\ s.status = "Released"
    BY <2>2, NewStatus
  <2>4. settlements' = [settlements EXCEPT ![k] = s]
    BY <1>1, <2>2 DEF markReleased
  <2> HIDE DEF s
  <2>5. QED
    BY <2>1, <2>3, <2>4, BondsPending
<1>2. ASSUME UNCHANGED settlements, ledger'.totalReporterBonds = ledger.totalReporterBonds PROVE BondsHeld'
  BY <1>2, BondsSame DEF BatchStep
<1>3. QED
  BY <1>1, <1>2 DEF BatchStep, BatchBegun, BatchPaid, BatchDone, Owes

LEMMA BondsCases == ASSUME TypeOK, TypeOK', BondsHeld, DisputeStep PROVE BondsHeld'
<1>0. settlements \in [SettlementKeys -> Settlement] /\ ledger.totalReporterBonds \in Int
  BY DEF TypeOK, Ledger
<1>1. ASSUME NEW k \in SettlementKeys, DisputedStep(k) PROVE BondsHeld'
  <2> DEFINE bond == disputes'[k].totalBond
  <2>1. /\ settlements[k].status = "Pending" /\ settlements'[k].status = "Disputed"
        /\ \A x \in SettlementKeys \ {k} : settlements'[x] = settlements[x] /\ disputes'[x] = disputes[x]
        /\ bond \in Nat /\ disputes'[k].reporter # NoOne /\ ~disputes'[k].bondClaimed
        /\ ledger'.totalReporterBonds = ledger.totalReporterBonds + bond /\ UNCHANGED capabilityCases
    BY <1>0, <1>1 DEF DisputedStep, Owes, Settlement
  <2>2. DisputeBond(k)' = DisputeBond(k) + bond
    BY <2>1 DEF DisputeBond, BondHeld
  <2>3. \A x \in SettlementKeys \ {k} : DisputeBond(x)' = DisputeBond(x)
    BY <2>1 DEF DisputeBond, BondHeld
  <2> HIDE DEF bond
  <2>4. QED
    BY <2>1, <2>2, <2>3, BondsDispute
<1>2. ASSUME NEW k \in SettlementKeys, ReturnedStep(k) PROVE BondsHeld'
  <2> DEFINE bond == disputes[k].totalBond
  <2>1. /\ BondHeld(k) /\ disputes'[k].bondClaimed
        /\ \A x \in SettlementKeys \ {k} : disputes'[x] = disputes[x]
        /\ ledger'.totalReporterBonds = ledger.totalReporterBonds - bond
        /\ UNCHANGED <<settlements, capabilityCases>> /\ bond \in Nat
    BY <1>2 DEF ReturnedStep, Owes, TypeOK, Dispute
  <2>2. DisputeBond(k) = bond /\ DisputeBond(k)' = 0
    BY <2>1 DEF DisputeBond, BondHeld
  <2>3. \A x \in SettlementKeys \ {k} : DisputeBond(x)' = DisputeBond(x)
    BY <2>1 DEF DisputeBond, BondHeld
  <2> HIDE DEF bond
  <2>4. /\ DisputeBond(k)' = DisputeBond(k) + (0 - bond) /\ 0 - bond \in Int
        /\ ledger'.totalReporterBonds = ledger.totalReporterBonds + (0 - bond)
    BY <1>0, <2>1, <2>2
  <2>5. QED
    BY <2>1, <2>3, <2>4, BondsDispute
<1>3. ASSUME NEW c \in CaseIds, NEW n \in Int, \A e \in CaseIds \ {c} : CaseBond(e)' = CaseBond(e),
             CaseBond(c)' = CaseBond(c) + n, ledger'.totalReporterBonds = ledger.totalReporterBonds + n,
             UNCHANGED <<settlements, disputes>>
      PROVE  BondsHeld'
  <2>1. \A x \in SettlementKeys : DisputeBond(x)' = DisputeBond(x)
    BY <1>3 DEF DisputeBond, BondHeld
  <2>2. DisputeBonds' = DisputeBonds /\ CaseBonds' = CaseBonds - CaseBond(c) + CaseBond(c)'
    BY <1>3, <2>1, DisputeBondsSame, CaseBondMoves
  <2>3. DisputeBonds \in Int /\ CaseBonds \in Int /\ CaseBond(c) \in Int
    BY BondsInt DEF CaseBond, TypeOK, CapabilityCase
  <2>4. QED
    BY <1>3, <2>2, <2>3 DEF BondsHeld
<1>4. ASSUME NEW c \in CaseIds, CaseStep(c) PROVE BondsHeld'
  <2> DEFINE bond == capabilityCases'[c].bond
  <2>1. /\ c \notin DOMAIN capabilityCases /\ bond \in Nat /\ capabilityCases'[c].status = "Open"
        /\ DOMAIN capabilityCases' = DOMAIN capabilityCases \cup {c}
        /\ \A e \in DOMAIN capabilityCases : capabilityCases'[e] = capabilityCases[e]
        /\ ledger'.totalReporterBonds = ledger.totalReporterBonds + bond /\ UNCHANGED <<settlements, disputes>>
    BY <1>4 DEF CaseStep, Owes
  <2>2. CaseBond(c)' = CaseBond(c) + bond
    BY <2>1 DEF CaseBond
  <2>3. \A e \in CaseIds \ {c} : CaseBond(e)' = CaseBond(e)
    BY <2>1 DEF CaseBond
  <2> HIDE DEF bond
  <2>4. QED
    BY <1>3, <2>1, <2>2, <2>3
<1>5. ASSUME NEW c \in CaseIds, ClosedStep(c) PROVE BondsHeld'
  <2> DEFINE bond == capabilityCases[c].bond
  <2>1. /\ c \in DOMAIN capabilityCases /\ capabilityCases[c].status = "Open" /\ capabilityCases'[c].status # "Open"
        /\ DOMAIN capabilityCases' = DOMAIN capabilityCases /\ bond \in Nat
        /\ \A e \in DOMAIN capabilityCases \ {c} : capabilityCases'[e] = capabilityCases[e]
        /\ ledger'.totalReporterBonds = ledger.totalReporterBonds - bond /\ UNCHANGED <<settlements, disputes>>
    BY <1>5 DEF ClosedStep, Owes, TypeOK, CapabilityCase
  <2>2. CaseBond(c) = bond /\ CaseBond(c)' = 0
    BY <2>1 DEF CaseBond
  <2>3. \A e \in CaseIds \ {c} : CaseBond(e)' = CaseBond(e)
    BY <2>1 DEF CaseBond
  <2> HIDE DEF bond
  <2>4. /\ CaseBond(c)' = CaseBond(c) + (0 - bond) /\ 0 - bond \in Int
        /\ ledger'.totalReporterBonds = ledger.totalReporterBonds + (0 - bond)
    BY <1>0, <2>1, <2>2
  <2>5. QED
    BY <1>3, <2>1, <2>3, <2>4
<1>6. QED
  BY <1>1, <1>2, <1>4, <1>5 DEF DisputeStep

-----------------------------------------------------------------------------
(* The books are in order for ever *)

\* Every step is of one of the kinds the proofs tell apart.
MoneyStep == Rested \/ Banked \/ Claimed \/ ReceiptStep \/ BatchStep \/ DisputeStep

LEMMA Stepped ==
  ASSUME TypeOK, Tallied(ledger), ReporterKnown, CasesRequested, [Next]_vars
  PROVE  Tallied(ledger') /\ MoneyStep
<1>1. CASE Tick \/ UNCHANGED vars
  <2>1. UNCHANGED <<ledger, settlements, batch, disputes, capabilityCases>>
    BY <1>1 DEF Tick, vars, caseVars
  <2>2. QED
    BY <2>1, LedgerKept DEF MoneyStep
<1>2. QED
  BY <1>1, FundsSteps, ReceiptsSteps, DisputesSteps DEF Next, MoneyStep

LEMMA EscrowKept == ASSUME TypeOK, EscrowHeld, MoneyStep PROVE EscrowHeld'
<1>1. ASSUME Rested \/ Banked \/ Claimed PROVE EscrowHeld'
  <2>1. /\ ledger'.exposure = ledger.exposure /\ ledger'.totalPendingFees = ledger.totalPendingFees
        /\ UNCHANGED <<settlements, batch>>
    BY <1>1 DEF Rested, Banked, Claimed, OwesSame, Owes, OnlyFunds
  <2>2. QED
    BY <2>1, EscrowRested
<1>2. ASSUME NEW k \in SettlementKeys, NEW status \in Statuses, NEW bond \in Nat, PaidStep(k, status, bond)
      PROVE  EscrowHeld'
  <2>1. /\ settlements[k].status \in OpenStatuses /\ status \in Statuses \ OpenStatuses
        /\ settlements' = [settlements EXCEPT ![k].status = status] /\ UNCHANGED batch
        /\ ledger'.exposure = [ledger.exposure EXCEPT ![settlements[k].provider] = @ - settlements[k].fee]
        /\ ledger'.totalPendingFees = ledger.totalPendingFees - settlements[k].fee
    BY <1>2 DEF PaidStep, Owes, OpenStatuses
  <2>2. QED
    BY <2>1, EscrowFreed
<1>3. ASSUME NEW k \in SettlementKeys, NEW status \in Statuses, RefundedStep(k, status)
      PROVE  EscrowHeld'
  <2>1. /\ settlements[k].status \in OpenStatuses /\ status \in Statuses \ OpenStatuses
        /\ settlements' = [settlements EXCEPT ![k].status = status] /\ UNCHANGED batch
        /\ ledger'.exposure = [ledger.exposure EXCEPT ![settlements[k].provider] = @ - settlements[k].fee]
        /\ ledger'.totalPendingFees = ledger.totalPendingFees - settlements[k].fee
    BY <1>3 DEF RefundedStep, Owes, OpenStatuses
  <2>2. QED
    BY <2>1, EscrowFreed
<1>4. ASSUME ReceiptStep PROVE EscrowHeld'
  BY <1>2, <1>3, <1>4, EscrowOnHeld DEF ReceiptStep
<1>5. ASSUME NEW k \in SettlementKeys, DisputedStep(k) PROVE EscrowHeld'
  BY <1>5, EscrowDisputed DEF DisputedStep, Owes
<1>6. ASSUME NEW k \in SettlementKeys, ReturnedStep(k) PROVE EscrowHeld'
  BY <1>6, EscrowRested DEF ReturnedStep, Owes
<1>7. ASSUME NEW c \in CaseIds, CaseStep(c) \/ ClosedStep(c) PROVE EscrowHeld'
  <2>1. /\ ledger'.exposure = ledger.exposure /\ ledger'.totalPendingFees = ledger.totalPendingFees
        /\ UNCHANGED <<settlements, batch>>
    BY <1>7 DEF CaseStep, ClosedStep, Owes
  <2>2. QED
    BY <2>1, EscrowRested
<1>8. QED
  BY <1>1, <1>4, <1>5, <1>6, <1>7, EscrowBatch DEF MoneyStep, DisputeStep

LEMMA BondsKept == ASSUME TypeOK, TypeOK', BondsHeld, ReporterKnown, MoneyStep PROVE BondsHeld'
<1>1. ASSUME Rested \/ Banked \/ Claimed PROVE BondsHeld'
  <2>1. UNCHANGED <<settlements, disputes, capabilityCases>> /\ ledger'.totalReporterBonds = ledger.totalReporterBonds
    BY <1>1 DEF Rested, Banked, Claimed, OwesSame, Owes, OnlyFunds
  <2>2. QED
    BY <2>1, BondsSame
<1>2. QED
  BY <1>1, BondsReceipt, BondsBatch, BondsCases DEF MoneyStep

\* A dispute that is open was just opened, or was open before with the same reporter.
LEMMA ReporterKept == ASSUME TypeOK, ReporterKnown, MoneyStep PROVE ReporterKnown'
<1>0. settlements \in [SettlementKeys -> Settlement]
  BY DEF TypeOK
<1>1. ASSUME NEW x \in SettlementKeys, settlements'[x].status = "Disputed"
      PROVE  disputes'[x].reporter # NoOne /\ ~disputes'[x].bondClaimed
  <2>1. SUFFICES ASSUME settlements[x].status = "Disputed" => disputes[x].reporter # NoOne /\ ~disputes[x].bondClaimed
                 PROVE  disputes'[x].reporter # NoOne /\ ~disputes'[x].bondClaimed
    BY DEF ReporterKnown
  <2>2. CASE Rested \/ Banked \/ Claimed
    BY <1>1, <2>1, <2>2 DEF Rested, Banked, Claimed, OnlyFunds
  <2>3. ASSUME NEW k \in SettlementKeys, NEW r \in Settlement, HeldStep(k, r)
        PROVE  disputes'[x].reporter # NoOne /\ ~disputes'[x].bondClaimed
    BY <1>0, <1>1, <2>1, <2>3 DEF HeldStep
  <2>4. ASSUME NEW k \in SettlementKeys, NEW status \in Statuses, NEW bond \in Nat, PaidStep(k, status, bond)
        PROVE  disputes'[x].reporter # NoOne /\ ~disputes'[x].bondClaimed
    BY <1>0, <1>1, <2>1, <2>4 DEF PaidStep, Settlement
  <2>5. ASSUME NEW k \in SettlementKeys, NEW status \in Statuses, RefundedStep(k, status)
        PROVE  disputes'[x].reporter # NoOne /\ ~disputes'[x].bondClaimed
    BY <1>0, <1>1, <2>1, <2>5 DEF RefundedStep, Settlement
  <2>6. CASE BatchStep
    <3>1. UNCHANGED disputes /\ (settlements'[x] = settlements[x] \/ settlements'[x].status = "Released")
      BY <1>0, <2>6 DEF BatchStep, BatchBegun, markReleased, BatchPaid, BatchDone, Settlement
    <3>2. QED
      BY <1>1, <2>1, <3>1
  <2>7. ASSUME NEW k \in SettlementKeys, DisputedStep(k)
        PROVE  disputes'[x].reporter # NoOne /\ ~disputes'[x].bondClaimed
    BY <1>0, <1>1, <2>1, <2>7 DEF DisputedStep
  <2>8. ASSUME NEW k \in SettlementKeys, ReturnedStep(k)
        PROVE  disputes'[x].reporter # NoOne /\ ~disputes'[x].bondClaimed
    BY <1>1, <2>1, <2>8 DEF ReturnedStep, TypeOK
  <2>9. ASSUME NEW c \in CaseIds, CaseStep(c) \/ ClosedStep(c)
        PROVE  disputes'[x].reporter # NoOne /\ ~disputes'[x].bondClaimed
    BY <1>1, <2>1, <2>9 DEF CaseStep, ClosedStep
  <2>10. QED
    BY <2>2, <2>3, <2>4, <2>5, <2>6, <2>7, <2>8, <2>9 DEF MoneyStep, ReceiptStep, DisputeStep
<1>2. QED
  BY <1>1 DEF ReporterKnown

\* No jury is forgotten.
LEMMA RequestedKept == ASSUME TypeOK, CasesRequested, [Next]_vars PROVE CasesRequested'
<1>1. assignments \in [AllCases -> Assignment] /\ SettlementKeys \subseteq AllCases /\ CaseIds \subseteq AllCases
      /\ DOMAIN capabilityCases \subseteq CaseIds
  BY DEF TypeOK, AllCases
<1>2. ASSUME UNCHANGED <<capabilityCases, assignments>> PROVE CasesRequested'
  BY <1>2 DEF CasesRequested
<1>3. ASSUME NEW c \in AllCases, NEW requested, requested.status # "None",
             assignments' = [assignments EXCEPT ![c] = requested],
             DOMAIN capabilityCases' \subseteq DOMAIN capabilityCases \cup {c}
      PROVE  CasesRequested'
  BY <1>1, <1>3 DEF CasesRequested
<1>4. ASSUME UNCHANGED assignments, DOMAIN capabilityCases' = DOMAIN capabilityCases PROVE CasesRequested'
  BY <1>4 DEF CasesRequested
<1>5. \A requested \in RequestedJury : requested.status # "None"
  BY DEF RequestedJury, NoJury
<1>6. ASSUME NEW k \in SettlementKeys, NEW sender \in Disputers, openDispute(k, sender) PROVE CasesRequested'
  <2>1. /\ \E requested \in RequestedJury : assignments' = [assignments EXCEPT ![k] = requested]
        /\ UNCHANGED capabilityCases
    BY <1>6 DEF openDispute
  <2>2. QED
    BY <1>1, <1>3, <1>5, <2>1
<1>7. ASSUME NEW c \in CaseIds, NEW keys \in SUBSET SettlementKeys, openCapabilityCase(c, keys) PROVE CasesRequested'
  <2>1. /\ \E requested \in RequestedJury : assignments' = [assignments EXCEPT ![c] = requested]
        /\ DOMAIN capabilityCases' = DOMAIN capabilityCases \cup {c}
    BY <1>7 DEF openCapabilityCase
  <2>2. QED
    BY <1>1, <1>3, <1>5, <2>1
<1>8. ASSUME NEW c \in CaseIds, NEW judges \in Quorums, NEW confirmed \in BOOLEAN,
             voteCapabilityCase(c, judges, confirmed)
      PROVE  CasesRequested'
  BY <1>4, <1>8 DEF voteCapabilityCase, OnlyCases
<1>9. ASSUME NEW c \in SettlementKeys \cup DOMAIN capabilityCases, NEW jurors \in Juries, finalizeJury(c, jurors)
      PROVE  CasesRequested'
  <2> DEFINE drawn == [assignments[c] EXCEPT !.status = "Ready", !.jurors = jurors]
  <2>1. assignments' = [assignments EXCEPT ![c] = drawn] /\ UNCHANGED capabilityCases
    BY <1>1, <1>9 DEF finalizeJury
  <2>2. c \in AllCases /\ drawn.status # "None"
    BY <1>1 DEF Assignment
  <2> HIDE DEF drawn
  <2>3. QED
    BY <1>3, <2>1, <2>2
<1>10. ASSUME Tick \/ UNCHANGED vars PROVE CasesRequested'
  BY <1>2, <1>10 DEF Tick, vars, caseVars
<1>11. ASSUME NextFunds PROVE CasesRequested'
  <2>1. UNCHANGED <<capabilityCases, assignments>>
    BY <1>11
    DEF NextFunds, setParams, setProbeMaxFee, setOracle, requestWithdrawal, cancelWithdrawal,
        setKeyBudget, revokeKey, registerKey, authorizeProviderSigner, authorizeRelaySigner,
        revokeProviderSigner, revokeRelaySigner, commitProbes, OnlyGrants, OnlySigners, deposit, withdraw, claim,
        reserveForOracle, releaseOracleReserve, releaseHoldback, OnlyLedger, caseVars
  <2>2. QED
    BY <1>2, <2>1
<1>12. ASSUME NextReceipts PROVE CasesRequested'
  <2>1. UNCHANGED <<capabilityCases, assignments>>
    BY <1>12
    DEF NextReceipts, settle, settleOracle, release, markReleased, releaseBatch, payReleasedItem, finishBatch,
        voidProbe, caseVars
  <2>2. QED
    BY <1>2, <2>1
<1>13. ASSUME NextDisputes PROVE CasesRequested'
  <2>1. ASSUME NEW k \in SettlementKeys, NEW judges \in Quorums,
               confirmDispute(k, judges) \/ dismissDispute(k, judges)
        PROVE  CasesRequested'
    BY <1>2, <2>1 DEF confirmDispute, dismissDispute
  <2>2. ASSUME NEW k \in SettlementKeys, claimDisputeBond(k) \/ resolveTimedOutDispute(k)
        PROVE  CasesRequested'
    BY <1>2, <2>2 DEF claimDisputeBond, resolveTimedOutDispute, caseVars
  <2>3. ASSUME NEW c \in CaseIds, resolveTimedOutCapabilityCase(c) PROVE CasesRequested'
    BY <1>4, <2>3 DEF resolveTimedOutCapabilityCase, OnlyCases
  <2>4. QED
    BY <1>6, <1>7, <1>8, <1>9, <1>13, <2>1, <2>2, <2>3 DEF NextDisputes
<1>14. QED
  BY <1>10, <1>11, <1>12, <1>13 DEF Next

LEMMA MoneyInit == Init => MoneyInv
<1> SUFFICES ASSUME Init PROVE MoneyInv
  OBVIOUS
<1>1. /\ ledger.available = [o \in Consumers |-> 0] /\ ledger.reserved = [o \in Consumers |-> 0]
      /\ ledger.claimable = [a \in Accounts |-> 0] /\ ledger.exposure = [p \in Providers |-> 0]
      /\ ledger.holdback = [p \in Providers |-> 0]
      /\ ledger.buckets = [p \in Providers |-> [i \in Slots |-> [day |-> 0, amount |-> 0]]]
      /\ ledger.totalAvailable = 0 /\ ledger.totalClaimable = 0 /\ ledger.totalPendingFees = 0
      /\ ledger.totalHoldback = 0 /\ ledger.totalReporterBonds = 0
      /\ batch.items = NoTotals /\ batch.total = 0
      /\ \A k \in SettlementKeys : settlements[k].status = "None"
      /\ DOMAIN capabilityCases = {}
  BY DEF Init, Idle, NoSettlement
<1>2. ASSUME NEW S, IsFiniteSet(S) PROVE SumFunction([x \in S |-> 0]) = 0
  <2> DEFINE f == [x \in S |-> 0]
  <2>1. f \in [S -> Int] /\ \A x \in S : f[x] = 0
    OBVIOUS
  <2> HIDE DEF f
  <2>2. QED
    BY <1>2, <2>1, SumWhole, SumZero
<1>3. ASSUME NEW p \in Providers PROVE SlotSum(ledger, p, Slots) = 0
  <2> DEFINE f == [i \in Slots |-> ledger.buckets[p][i].amount]
  <2>1. \A i \in Slots : f[i] = 0
    BY <1>1
  <2>2. SlotSum(ledger, p, Slots) = SumFunctionOnSet(f, Slots)
    BY DEF SlotSum
  <2> HIDE DEF f
  <2>3. QED
    BY <2>1, <2>2, FiniteParties, SumZero
<1>4. Tallied(ledger)
  <2>1. SumFunction(ledger.available) = 0 /\ SumFunction(ledger.reserved) = 0
    BY <1>1, <1>2, FiniteParties
  <2>2. SumFunction(ledger.claimable) = 0 /\ SumFunction(ledger.holdback) = 0
    BY <1>1, <1>2, FiniteParties, BaseAssumption
  <2>3. \A p \in Providers : ledger.holdback[p] = SlotSum(ledger, p, Slots)
    BY <1>1, <1>3
  <2>4. QED
    BY <1>1, <2>1, <2>2, <2>3 DEF Tallied
<1>5. ASSUME NEW P PROVE EscrowOf(P) = 0 /\ MarkedOf(P) = 0
  <2> DEFINE f == [k \in SettlementKeys |-> HeldBy(settlements[k], P)]
  <2>1. \A k \in SettlementKeys : f[k] = 0
    BY <1>1 DEF HeldBy, OpenStatuses
  <2>2. EscrowOf(P) = SumFunctionOnSet(f, SettlementKeys)
    BY DEF EscrowOf
  <2> HIDE DEF f
  <2>3. QED
    BY <1>1, <2>1, <2>2, FiniteKeys, SumZero, NothingMarked
<1>6. EscrowHeld
  BY <1>1, <1>5 DEF EscrowHeld
<1>7. BondsHeld
  <2> DEFINE f == [k \in SettlementKeys |-> DisputeBond(k)]
             g == [c \in CaseIds |-> CaseBond(c)]
  <2>1. /\ \A k \in SettlementKeys : f[k] = 0
        /\ \A c \in CaseIds : g[c] = 0
    BY <1>1 DEF DisputeBond, BondHeld, CaseBond
  <2>2. DisputeBonds = SumFunctionOnSet(f, SettlementKeys) /\ CaseBonds = SumFunctionOnSet(g, CaseIds)
    BY DEF DisputeBonds, CaseBonds
  <2> HIDE DEF f, g
  <2>3. DisputeBonds = 0 /\ CaseBonds = 0
    BY <2>1, <2>2, FiniteKeys, SumZero
  <2>4. QED
    BY <1>1, <2>3 DEF BondsHeld
<1>8. ReporterKnown /\ CasesRequested
  BY <1>1 DEF ReporterKnown, CasesRequested
<1>9. QED
  BY <1>4, <1>6, <1>7, <1>8, TypeInit DEF MoneyInv

LEMMA MoneyStays == ASSUME MoneyInv, TypeOK', [Next]_vars PROVE MoneyInv'
<1>1. Tallied(ledger') /\ MoneyStep
  BY Stepped DEF MoneyInv
<1>2. Tallied(ledger)'
  BY <1>1 DEF Tallied, SlotSum
<1>3. EscrowHeld' /\ BondsHeld' /\ ReporterKnown' /\ CasesRequested'
  BY <1>1, EscrowKept, BondsKept, ReporterKept, RequestedKept DEF MoneyInv
<1>4. QED
  BY <1>2, <1>3 DEF MoneyInv

\* The books are in order in every state, in the middle of a batch too.
THEOREM BooksInOrder == Spec => []MoneyInv
<1>1. Init => MoneyInv
  BY MoneyInit
<1>2. MoneyInv /\ TypeOK' /\ [Next]_vars => MoneyInv'
  BY MoneyStays
<1>3. Spec => []TypeOK
  BY TypeCorrect
<1>4. QED
  BY <1>1, <1>2, <1>3, PTL DEF Spec

\* No account's balance is out of step with the totals the contract's solvency is judged by
\* (MycoSettlementBaseV11.sol): what accounts may claim or withdraw, and every ring of held-back money, add up.
THEOREM AccountsAgree == Spec => []AccountsMatchTotals
<1>1. MoneyInv => AccountsMatchTotals
  BY DEF MoneyInv, AccountsMatchTotals
<1>2. QED
  BY <1>1, BooksInOrder, PTL

\* The open fees of a set of records, as a sum over all records.
LEMMA OpenFeesOf ==
  ASSUME TypeOK, NEW P, NEW S \in SUBSET SettlementKeys,
         \A k \in SettlementKeys : settlements[k].status \in OpenStatuses => (k \in S <=> settlements[k].provider \in P)
  PROVE  OpenFees(S) = EscrowOf(P)
<1> DEFINE f == [k \in SettlementKeys |-> settlements[k].fee]
           T == {k \in S : settlements[k].status \in OpenStatuses}
           cut == [k \in SettlementKeys |-> IF k \in T THEN f[k] ELSE 0]
           held == [k \in SettlementKeys |-> HeldBy(settlements[k], P)]
<1>1. OpenFees(S) = SumFunctionOnSet(f, T) /\ EscrowOf(P) = SumFunctionOnSet(held, SettlementKeys)
  BY DEF OpenFees, Fees, EscrowOf
<1>2. T \in SUBSET SettlementKeys /\ \A k \in T : f[k] \in Int
  BY DEF TypeOK, Settlement
<1>3. \A k \in SettlementKeys : cut[k] = held[k]
  BY DEF HeldBy
<1> HIDE DEF f, T, held
<1>4. SumFunctionOnSet(f, T) = SumFunctionOnSet(cut, SettlementKeys)
  BY <1>2, FiniteKeys, SumOnSubset
<1> HIDE DEF cut
<1>5. SumFunctionOnSet(cut, SettlementKeys) = SumFunctionOnSet(held, SettlementKeys)
  BY <1>3, FiniteKeys, SumSame
<1>6. QED
  BY <1>1, <1>4, <1>5

\* The escrow holds the fees of the open receipts and nothing else, for all Providers together and for each of
\* them: no fee is lost from it and none stays behind.  What a running batch has marked and not yet paid is the
\* difference inside a call, so the invariant follows the batch's totals and the theorem speaks of the time between.
THEOREM EscrowAgrees == Spec => []EscrowMatchesRecords
<1>1. ASSUME MoneyInv, NotEntered
      PROVE  /\ ledger.totalPendingFees = OpenFees(SettlementKeys)
             /\ \A p \in Providers : ledger.exposure[p] = OpenFees({k \in SettlementKeys : settlements[k].provider = p})
  <2>1. TypeOK /\ EscrowHeld /\ batch.items = NoTotals /\ batch.total = 0
    BY <1>1 DEF MoneyInv, TypeOK, BatchKnown, Idle
  <2>2. \A P : MarkedOf(P) = 0 /\ EscrowOf(P) \in Int
    BY <2>1, NothingMarked, EscrowInt
  <2>3. ledger.totalPendingFees = EscrowOf(Providers) /\ \A p \in Providers : ledger.exposure[p] = EscrowOf({p})
    BY <2>1, <2>2 DEF EscrowHeld
  <2>4. OpenFees(SettlementKeys) = EscrowOf(Providers)
    <3>1. \A k \in SettlementKeys : settlements[k].status \in OpenStatuses => settlements[k].provider \in Providers
      BY <2>1, RecordKnown DEF OpenStatuses
    <3>2. QED
      BY <2>1, <3>1, OpenFeesOf
  <2>5. ASSUME NEW p \in Providers
        PROVE  OpenFees({k \in SettlementKeys : settlements[k].provider = p}) = EscrowOf({p})
    BY <2>1, OpenFeesOf
  <2>6. QED
    BY <2>3, <2>4, <2>5
<1>2. MoneyInv => EscrowMatchesRecords
  BY <1>1 DEF EscrowMatchesRecords
<1>3. QED
  BY <1>2, BooksInOrder, PTL

\* The bonds the contract holds are those of undecided disputes and cases and of decided ones not yet claimed:
\* none is returned twice, kept after a forfeit, or paid out of another's.
THEOREM BondsAgree == Spec => []BondsMatchCases
<1>1. ASSUME MoneyInv PROVE BondsMatchCases
  <2> DEFINE f == [k \in SettlementKeys |-> disputes[k].totalBond]
             S == {k \in SettlementKeys : BondHeld(k)}
             g == [c \in DOMAIN capabilityCases |-> capabilityCases[c].bond]
             T == {c \in DOMAIN capabilityCases : capabilityCases[c].status = "Open"}
             fs == [k \in SettlementKeys |-> IF k \in S THEN f[k] ELSE 0]
             gs == [c \in CaseIds |-> IF c \in T THEN g[c] ELSE 0]
             fb == [k \in SettlementKeys |-> DisputeBond(k)]
             gb == [c \in CaseIds |-> CaseBond(c)]
  <2>1. TypeOK /\ BondsHeld
    BY <1>1 DEF MoneyInv
  <2>2. /\ S \in SUBSET SettlementKeys /\ \A k \in S : f[k] \in Int
        /\ T \in SUBSET CaseIds /\ \A c \in T : g[c] \in Int
    BY <2>1 DEF TypeOK, Dispute, CapabilityCase
  <2>3. /\ \A k \in SettlementKeys : fs[k] = fb[k]
        /\ \A c \in CaseIds : gs[c] = gb[c]
    BY DEF DisputeBond, CaseBond
  <2>4. DisputeBonds = SumFunctionOnSet(fb, SettlementKeys) /\ CaseBonds = SumFunctionOnSet(gb, CaseIds)
    BY DEF DisputeBonds, CaseBonds
  <2>5. BondsMatchCases <=> ledger.totalReporterBonds = SumFunctionOnSet(f, S) + SumFunctionOnSet(g, T)
    BY DEF BondsMatchCases
  <2> HIDE DEF f, S, g, T, fb, gb
  <2>6. SumFunctionOnSet(f, S) = SumFunctionOnSet(fs, SettlementKeys)
    BY <2>2, FiniteKeys, SumOnSubset
  <2>7. SumFunctionOnSet(g, T) = SumFunctionOnSet(gs, CaseIds)
    BY <2>2, FiniteKeys, SumOnSubset
  <2> HIDE DEF fs, gs
  <2>8. /\ SumFunctionOnSet(fs, SettlementKeys) = SumFunctionOnSet(fb, SettlementKeys)
        /\ SumFunctionOnSet(gs, CaseIds) = SumFunctionOnSet(gb, CaseIds)
    BY <2>3, FiniteKeys, SumSame
  <2>9. QED
    BY <2>1, <2>4, <2>5, <2>6, <2>7, <2>8 DEF BondsHeld
<1>2. QED
  BY <1>1, BooksInOrder, PTL

-----------------------------------------------------------------------------
(* The settlement implements Escrow *)

\* What the abstract specification sees of the contract.
Balance == balanceOf(ledger)
Record(r) == [owner |-> r.owner, fee |-> r.fee, stage |-> Stage(r.status)]
Records == [k \in SettlementKeys |-> Record(settlements[k])]
Earnings == ledger.totalClaimable + ledger.totalHoldback + SumFunction(batch.items) + batch.treasury
Bonds == ledger.totalReporterBonds

MoneySame == UNCHANGED <<Balance, Records, Earnings, Bonds>>

LEMMA Stages ==
  /\ Stage("None") = "absent" /\ Stage("Pending") = "held" /\ Stage("Disputed") = "contested"
  /\ \A status \in PaidStatuses : Stage(status) = "paid"
  /\ \A status \in RefundedStatuses : Stage(status) = "refunded"
<1>1. Stage("None") = "absent"
  BY DEF Stage, PaidStatuses, RefundedStatuses
<1>2. Stage("Pending") = "held"
  BY DEF Stage, PaidStatuses, RefundedStatuses
<1>3. Stage("Disputed") = "contested"
  BY DEF Stage, PaidStatuses, RefundedStatuses
<1>4. ASSUME NEW status \in PaidStatuses PROVE Stage(status) = "paid"
  BY <1>4 DEF Stage, PaidStatuses, RefundedStatuses
<1>5. ASSUME NEW status \in RefundedStatuses PROVE Stage(status) = "refunded"
  BY <1>5 DEF Stage, PaidStatuses, RefundedStatuses
<1>6. QED
  BY <1>1, <1>2, <1>3, <1>4, <1>5

\* The steps of the abstract specification, in the contract's terms.
LEMMA AbstractStutter == ASSUME MoneySame PROVE UNCHANGED Money!vars
BY DEF MoneySame, Balance, balanceOf, Records, Record, Earnings, Bonds, Money!vars

LEMMA AbstractBank ==
  ASSUME NEW o \in Consumers, NEW n \in Nat, Balance' = [Balance EXCEPT ![o] = n],
         UNCHANGED <<Records, Earnings, Bonds>>
  PROVE  Money!Next
<1>1. Balance'[o] = n
  BY DEF Balance, balanceOf
<1>2. Balance'[o] \in Nat /\ Balance' = [Balance EXCEPT ![o] = Balance'[o]]
  BY <1>1
<1>3. Money!Bank(o)
  BY <1>2 DEF Balance, balanceOf, Records, Record, Earnings, Bonds, Money!Bank
<1>4. QED
  BY <1>3 DEF Money!Next

LEMMA AbstractHold ==
  ASSUME NEW k \in SettlementKeys, NEW o \in Consumers, NEW fee, Records'[k].fee = fee, Records[k].stage = "absent",
         fee > 0, fee <= Balance[o], Records' = [Records EXCEPT ![k] = [owner |-> o, fee |-> fee, stage |-> "held"]],
         Balance' = [Balance EXCEPT ![o] = @ - fee], UNCHANGED <<Earnings, Bonds>>
  PROVE  Money!Next
<1>1. Money!Hold(k, o)
  BY DEF Balance, balanceOf, Records, Record, Earnings, Bonds, Money!Hold
<1>2. QED
  BY <1>1 DEF Money!Next

LEMMA AbstractPost ==
  ASSUME Bonds' >= Bonds, UNCHANGED <<Balance, Earnings>>,
         \/ UNCHANGED Records
         \/ \E k \in SettlementKeys : Records[k].stage = "held" /\ Records' = [Records EXCEPT ![k].stage = "contested"]
  PROVE  Money!Next
<1>1. Money!Post
  BY DEF Balance, balanceOf, Records, Record, Earnings, Bonds, Money!Post
<1>2. QED
  BY <1>1 DEF Money!Next

LEMMA AbstractPay ==
  ASSUME NEW k \in SettlementKeys, Records[k].stage \in {"held", "contested"},
         Records' = [Records EXCEPT ![k].stage = "paid"],
         Bonds' <= Bonds, Records[k].stage = "held" => Bonds' = Bonds,
         Earnings' + Bonds' = Earnings + Bonds + Records[k].fee, UNCHANGED Balance
  PROVE  Money!Next
<1>1. Money!Pay(k)
  BY DEF Balance, balanceOf, Records, Record, Earnings, Bonds, Money!Pay
<1>2. QED
  BY <1>1 DEF Money!Next

LEMMA AbstractRefund ==
  ASSUME NEW k \in SettlementKeys, Records[k].stage \in {"held", "contested"},
         Records' = [Records EXCEPT ![k].stage = "refunded"],
         Balance' = [Balance EXCEPT ![Records[k].owner] = @ + Records[k].fee], UNCHANGED <<Earnings, Bonds>>
  PROVE  Money!Next
<1>1. Money!Refund(k)
  BY DEF Balance, balanceOf, Records, Record, Earnings, Bonds, Money!Refund
<1>2. QED
  BY <1>1 DEF Money!Next

LEMMA AbstractReturn ==
  ASSUME Bonds' < Bonds, Earnings' + Bonds' = Earnings + Bonds, UNCHANGED <<Balance, Records>>
  PROVE  Money!Next
<1>1. Money!Return
  BY DEF Balance, balanceOf, Records, Record, Earnings, Bonds, Money!Return
<1>2. QED
  BY <1>1 DEF Money!Next

LEMMA AbstractClaim ==
  ASSUME Earnings' < Earnings, UNCHANGED <<Balance, Records, Bonds>>
  PROVE  Money!Next
<1>1. Money!Claim
  BY DEF Balance, balanceOf, Records, Record, Earnings, Bonds, Money!Claim
<1>2. QED
  BY <1>1 DEF Money!Next

\* What the books say is what the abstract specification sees.
LEMMA Seen ==
  ASSUME TypeOK, NEW balance, NEW exposure, NEW pending, NEW bonds, NEW earned,
         Owes(ledger', balance, exposure, pending, bonds, earned)
  PROVE  /\ Balance' = balance /\ Bonds' = bonds
         /\ Earnings' = earned + SumFunction(batch'.items) + batch'.treasury
         /\ Earnings = Earned(ledger) + SumFunction(batch.items) + batch.treasury
         /\ Earned(ledger) \in Nat /\ SumFunction(batch.items) \in Nat /\ batch.treasury \in Nat
         /\ Bonds \in Nat /\ Balance \in [Consumers -> Nat]
<1>1. Balance' = balance /\ Bonds' = bonds
  BY DEF Owes, Balance, Bonds, balanceOf
<1>2. /\ Earnings' = earned + SumFunction(batch'.items) + batch'.treasury
      /\ Earnings = Earned(ledger) + SumFunction(batch.items) + batch.treasury
  BY DEF Owes, Earned, Earnings
<1>3. Earned(ledger) \in Nat /\ Bonds \in Nat /\ Balance \in [Consumers -> Nat]
  BY DEF TypeOK, Ledger, Earned, Bonds, Balance, balanceOf
<1>4. batch.items \in [Totals -> Nat] /\ batch.treasury \in Nat
  BY DEF TypeOK, Batch
<1>5. SumFunction(batch.items) \in Nat
  <2>1. \A t \in Totals : batch.items[t] \in Nat
    BY <1>4
  <2>2. SumFunction(batch.items) = SumFunctionOnSet(batch.items, Totals)
    BY <1>4, SumWhole
  <2>3. QED
    BY <2>1, <2>2, FiniteKeys, SumNat
<1>6. QED
  BY <1>1, <1>2, <1>3, <1>4, <1>5

\* Between calls nothing is in a batch.
LEMMA Empty == ASSUME batch.items = NoTotals PROVE SumFunction(batch.items) = 0
<1>1. batch.items \in [Totals -> Nat] /\ \A t \in Totals : batch.items[t] = 0
  BY DEF NoTotals
<1>2. QED
  BY <1>1, SumWhole, FiniteKeys, SumZero

\* A receipt enters a stage.
LEMMA RecordMoves ==
  ASSUME TypeOK, NEW k \in SettlementKeys, NEW status \in Statuses,
         settlements' = [settlements EXCEPT ![k].status = status]
  PROVE  /\ Records' = [Records EXCEPT ![k].stage = Stage(status)]
         /\ Records[k].stage = Stage(settlements[k].status)
         /\ Records[k].fee = settlements[k].fee /\ Records[k].owner = settlements[k].owner
<1>1. settlements \in [SettlementKeys -> Settlement]
  BY DEF TypeOK
<1>2. /\ settlements'[k].status = status /\ settlements'[k].owner = settlements[k].owner
      /\ settlements'[k].fee = settlements[k].fee
      /\ \A x \in SettlementKeys \ {k} : settlements'[x] = settlements[x]
  BY <1>1 DEF Settlement
<1>3. /\ Record(settlements'[k]) = [Record(settlements[k]) EXCEPT !.stage = Stage(status)]
      /\ \A x \in SettlementKeys \ {k} : Record(settlements'[x]) = Record(settlements[x])
  BY <1>2 DEF Record
<1>4. /\ Records = [x \in SettlementKeys |-> Record(settlements[x])]
      /\ Records' = [x \in SettlementKeys |-> Record(settlements'[x])]
  BY DEF Records, Record
<1>5. Records' = [Records EXCEPT ![k].stage = Stage(status)]
  BY <1>3, <1>4
<1>6. Records[k] = Record(settlements[k])
  BY <1>4
<1>7. QED
  BY <1>5, <1>6 DEF Record

LEMMA RecordsSame == ASSUME UNCHANGED settlements PROVE UNCHANGED Records
BY DEF Records, Record

\* Each kind of step is a step of the abstract specification, or none at all.
LEMMA FundsImplement ==
  ASSUME TypeOK, Rested \/ Banked \/ Claimed PROVE Money!Next \/ UNCHANGED Money!vars
<1>0. UNCHANGED <<settlements, batch>> /\ UNCHANGED Records
  BY RecordsSame DEF Rested, Banked, Claimed, OnlyFunds
<1>1. CASE Rested
  <2>1. Balance' = Balance /\ Bonds' = Bonds /\ Earnings' = Earnings
    BY <1>0, <1>1, Seen DEF Rested, OwesSame, Balance, Bonds
  <2>2. QED
    BY <1>0, <2>1, AbstractStutter DEF MoneySame
<1>2. CASE Banked
  <2>1. PICK o \in Consumers, n \in Nat :
          Owes(ledger', [balanceOf(ledger) EXCEPT ![o] = n], ledger.exposure, ledger.totalPendingFees,
               ledger.totalReporterBonds, Earned(ledger))
    BY <1>2 DEF Banked
  <2>2. Balance' = [Balance EXCEPT ![o] = n] /\ Bonds' = Bonds /\ Earnings' = Earnings
    BY <1>0, <2>1, Seen DEF Balance, Bonds
  <2>3. QED
    BY <1>0, <2>2, AbstractBank
<1>3. CASE Claimed
  <2>1. PICK n \in Nat \ {0} :
          Owes(ledger', balanceOf(ledger), ledger.exposure, ledger.totalPendingFees, ledger.totalReporterBonds,
               Earned(ledger) - n)
    BY <1>3 DEF Claimed
  <2>2. /\ Balance' = Balance /\ Bonds' = Bonds
        /\ Earnings' = Earned(ledger) - n + SumFunction(batch.items) + batch.treasury
        /\ Earnings = Earned(ledger) + SumFunction(batch.items) + batch.treasury
        /\ Earned(ledger) \in Nat /\ SumFunction(batch.items) \in Nat /\ batch.treasury \in Nat
    BY <1>0, <2>1, Seen DEF Balance, Bonds
  <2>3. Earnings' < Earnings
    BY <2>2
  <2>4. QED
    BY <1>0, <2>2, <2>3, AbstractClaim
<1>4. QED
  BY <1>1, <1>2, <1>3

LEMMA ReceiptsImplement == ASSUME TypeOK, ReceiptStep PROVE Money!Next
<1>0. settlements \in [SettlementKeys -> Settlement]
  BY DEF TypeOK
<1>1. ASSUME NEW k \in SettlementKeys, NEW r \in Settlement, HeldStep(k, r) PROVE Money!Next
  <2>1. /\ settlements[k].status = "None" /\ r.status = "Pending" /\ r.owner \in Consumers
        /\ r.fee > 0 /\ r.fee <= Balance[r.owner]
        /\ settlements' = [settlements EXCEPT ![k] = r] /\ UNCHANGED batch
        /\ Owes(ledger', [balanceOf(ledger) EXCEPT ![r.owner] = @ - r.fee],
                [ledger.exposure EXCEPT ![r.provider] = @ + r.fee], ledger.totalPendingFees + r.fee,
                ledger.totalReporterBonds, Earned(ledger))
    BY <1>1 DEF HeldStep, Balance
  <2>2. Balance' = [Balance EXCEPT ![r.owner] = @ - r.fee] /\ Bonds' = Bonds /\ Earnings' = Earnings
    BY <2>1, Seen DEF Balance, Bonds
  <2>3. Record(r) = [owner |-> r.owner, fee |-> r.fee, stage |-> "held"]
    BY <2>1, Stages DEF Record
  <2>4. /\ Records = [x \in SettlementKeys |-> Record(settlements[x])]
        /\ Records' = [x \in SettlementKeys |-> Record(settlements'[x])]
    BY DEF Records, Record
  <2>5. settlements'[k] = r /\ \A x \in SettlementKeys \ {k} : settlements'[x] = settlements[x]
    BY <1>0, <2>1
  <2>6. Records' = [Records EXCEPT ![k] = Record(r)]
    BY <2>4, <2>5
  <2>7. Records[k] = Record(settlements[k]) /\ Records'[k] = Record(r)
    BY <2>4, <2>5
  <2>8. Records[k].stage = "absent" /\ Records'[k].fee = r.fee
    BY <2>1, <2>7, Stages DEF Record
  <2>9. QED
    BY <2>1, <2>2, <2>3, <2>6, <2>8, AbstractHold
<1>2. ASSUME NEW k \in SettlementKeys, NEW status \in Statuses, NEW bond \in Nat, PaidStep(k, status, bond)
      PROVE  Money!Next
  <2> DEFINE fee == settlements[k].fee
  <2>1. /\ settlements' = [settlements EXCEPT ![k].status = status] /\ UNCHANGED batch
        /\ status \in PaidStatuses /\ settlements[k].status \in OpenStatuses
        /\ settlements[k].status = "Pending" => bond = 0
        /\ Owes(ledger', balanceOf(ledger), [ledger.exposure EXCEPT ![settlements[k].provider] = @ - fee],
                ledger.totalPendingFees - fee, ledger.totalReporterBonds - bond, Earned(ledger) + fee + bond)
    BY <1>2 DEF PaidStep, PaidStatuses, OpenStatuses
  <2>2. fee \in Nat
    BY <1>0 DEF Settlement
  <2>3. /\ Balance' = Balance /\ Bonds' = Bonds - bond
        /\ Earnings' = Earned(ledger) + fee + bond + SumFunction(batch.items) + batch.treasury
        /\ Earnings = Earned(ledger) + SumFunction(batch.items) + batch.treasury
        /\ Earned(ledger) \in Nat /\ SumFunction(batch.items) \in Nat /\ batch.treasury \in Nat /\ Bonds \in Nat
    BY <2>1, Seen DEF Balance, Bonds
  <2>4. /\ Records' = [Records EXCEPT ![k].stage = "paid"]
        /\ Records[k].stage = Stage(settlements[k].status) /\ Records[k].fee = fee
    BY <2>1, RecordMoves, Stages
  <2>5. Records[k].stage \in {"held", "contested"} /\ (Records[k].stage = "held" => bond = 0)
    BY <2>1, <2>4, Stages DEF OpenStatuses
  <2> HIDE DEF fee
  <2>6. /\ Bonds' <= Bonds /\ (Records[k].stage = "held" => Bonds' = Bonds)
        /\ Earnings' + Bonds' = Earnings + Bonds + fee
    BY <2>2, <2>3, <2>5
  <2>7. QED
    BY <2>3, <2>4, <2>5, <2>6, AbstractPay
<1>3. ASSUME NEW k \in SettlementKeys, NEW status \in Statuses, RefundedStep(k, status) PROVE Money!Next
  <2> DEFINE r == settlements[k]
  <2>1. /\ settlements' = [settlements EXCEPT ![k].status = status] /\ UNCHANGED batch
        /\ status \in RefundedStatuses /\ settlements[k].status \in OpenStatuses
        /\ Owes(ledger', [balanceOf(ledger) EXCEPT ![r.owner] = @ + r.fee],
                [ledger.exposure EXCEPT ![r.provider] = @ - r.fee],
                ledger.totalPendingFees - r.fee, ledger.totalReporterBonds, Earned(ledger))
    BY <1>3 DEF RefundedStep, RefundedStatuses, OpenStatuses
  <2>2. /\ Balance' = [Balance EXCEPT ![r.owner] = @ + r.fee] /\ Bonds' = Bonds /\ Earnings' = Earnings
    BY <2>1, Seen DEF Balance, Bonds
  <2>3. /\ Records' = [Records EXCEPT ![k].stage = "refunded"]
        /\ Records[k].stage = Stage(settlements[k].status) /\ Records[k].fee = r.fee /\ Records[k].owner = r.owner
    BY <2>1, RecordMoves, Stages
  <2>4. Records[k].stage \in {"held", "contested"}
    BY <2>1, <2>3, Stages DEF OpenStatuses
  <2> HIDE DEF r
  <2>5. QED
    BY <2>2, <2>3, <2>4, AbstractRefund
<1>4. QED
  BY <1>1, <1>2, <1>3 DEF ReceiptStep

\* Marking a receipt pays its fee; what follows only shares it out.
LEMMA BatchImplements == ASSUME TypeOK, BatchStep PROVE Money!Next \/ UNCHANGED Money!vars
<1>0. /\ settlements \in [SettlementKeys -> Settlement] /\ batch \in Batch /\ batch.items \in [Totals -> Nat]
      /\ batch.treasury \in Nat /\ SumFunction(batch.items) \in Int /\ Earned(ledger) \in Int
      /\ ledger.totalClaimable + ledger.totalHoldback = Earned(ledger)
  BY FiniteKeys, SumWholeInt DEF TypeOK, Batch, Ledger, Earned
<1>1. CASE BatchBegun
  <2>1. batch = Idle /\ batch'.items = batch.items /\ batch'.treasury = batch.treasury
        /\ UNCHANGED <<ledger, settlements>>
    BY <1>1 DEF BatchBegun, Idle, TypeOK, BatchKnown
  <2>2. MoneySame
    BY <2>1, RecordsSame DEF MoneySame, Balance, balanceOf, Bonds, Earnings
  <2>3. QED
    BY <2>2, AbstractStutter
<1>2. ASSUME NEW k \in SettlementKeys, markReleased(k) PROVE Money!Next
  <2> DEFINE r == settlements[k]
             t == <<r.provider, r.owner, r.relay>>
  <2>1. r.status = "Pending"
    BY <1>2 DEF markReleased, TypeOK, BatchKnown
  <2>2. r.fee \in Nat /\ t \in Totals
    BY <2>1, RecordKnown DEF Totals
  <2>3. /\ settlements' = [settlements EXCEPT ![k].status = "Released"]
        /\ batch' = [batch EXCEPT !.keys = @ \ {k}, !.items[t] = @ + r.fee]
        /\ UNCHANGED ledger
    BY <1>2 DEF markReleased
  <2> HIDE DEF t
  <2>4. batch'.items = [batch.items EXCEPT ![t] = batch.items[t] + r.fee] /\ batch'.treasury = batch.treasury
    BY <1>0, <2>3 DEF Batch
  <2>5. batch.items[t] \in Int /\ batch.items[t] + r.fee \in Int /\ batch.items \in [Totals -> Int]
    BY <1>0, <2>2
  <2>6. SumFunction([batch.items EXCEPT ![t] = batch.items[t] + r.fee]) =
          SumFunction(batch.items) - batch.items[t] + (batch.items[t] + r.fee)
    BY <2>2, <2>5, FiniteKeys, SumExcept
  <2>7. Bonds' = Bonds /\ Balance' = Balance /\ Bonds \in Int
    BY <2>3 DEF Bonds, Balance, balanceOf, TypeOK, Ledger
  <2>8. /\ Earnings' = Earned(ledger) + SumFunction(batch'.items) + batch'.treasury
        /\ Earnings = Earned(ledger) + SumFunction(batch.items) + batch.treasury
    BY <2>3 DEF Earnings, Earned
  <2>9. /\ Records' = [Records EXCEPT ![k].stage = Stage("Released")]
        /\ Records[k].stage = Stage(r.status) /\ Records[k].fee = r.fee
    BY <2>3, RecordMoves DEF Statuses
  <2>10. Stage("Released") = "paid" /\ Stage(r.status) = "held"
    BY <2>1, Stages DEF PaidStatuses
  <2> HIDE DEF r
  <2>11. Earnings' + Bonds' = Earnings + Bonds + r.fee /\ Bonds' <= Bonds
    BY <1>0, <2>2, <2>4, <2>5, <2>6, <2>7, <2>8
  <2>12. QED
    BY <2>7, <2>9, <2>10, <2>11, AbstractPay
<1>3. ASSUME NEW t \in Totals, BatchPaid(t) PROVE UNCHANGED Money!vars
  <2> DEFINE fee == batch.items[t]
             cut == treasuryCut(fee)
  <2>1. /\ Owes(ledger', balanceOf(ledger), [ledger.exposure EXCEPT ![t[1]] = @ - fee], ledger.totalPendingFees,
                ledger.totalReporterBonds, Earned(ledger) + (fee - cut))
        /\ batch'.items = [batch.items EXCEPT ![t] = 0] /\ batch'.treasury = batch.treasury + cut
        /\ cut \in Nat /\ UNCHANGED settlements
    BY <1>0, <1>3 DEF BatchPaid, Batch
  <2>2. fee \in Int /\ batch.items \in [Totals -> Int]
    BY <1>0
  <2>3. SumFunction([batch.items EXCEPT ![t] = 0]) = SumFunction(batch.items) - fee + 0
    BY <2>2, FiniteKeys, SumExcept
  <2> HIDE DEF fee, cut
  <2>4. /\ Balance' = Balance /\ Bonds' = Bonds
        /\ Earnings' = Earned(ledger) + (fee - cut) + SumFunction(batch'.items) + batch'.treasury
        /\ Earnings = Earned(ledger) + SumFunction(batch.items) + batch.treasury
    BY <2>1, Seen DEF Balance, Bonds
  <2>5. Earnings' = Earnings
    BY <1>0, <2>1, <2>2, <2>3, <2>4
  <2>6. QED
    BY <2>1, <2>4, <2>5, RecordsSame, AbstractStutter DEF MoneySame
<1>4. ASSUME BatchDone PROVE UNCHANGED Money!vars
  <2>1. /\ batch.items = NoTotals /\ batch'.items = NoTotals /\ batch'.treasury = 0
        /\ Owes(ledger', balanceOf(ledger), ledger.exposure, ledger.totalPendingFees - batch.total,
                ledger.totalReporterBonds, Earned(ledger) + batch.treasury)
        /\ UNCHANGED settlements
    BY <1>4 DEF BatchDone, Idle
  <2>2. /\ Balance' = Balance /\ Bonds' = Bonds
        /\ Earnings' = Earned(ledger) + batch.treasury + SumFunction(batch'.items) + batch'.treasury
        /\ Earnings = Earned(ledger) + SumFunction(batch.items) + batch.treasury
    BY <2>1, Seen DEF Balance, Bonds
  <2>3. SumFunction(batch.items) = 0 /\ SumFunction(batch'.items) = 0
    BY <2>1, Empty
  <2>4. Earnings' = Earnings
    BY <1>0, <2>1, <2>2, <2>3
  <2>5. QED
    BY <2>1, <2>2, <2>4, RecordsSame, AbstractStutter DEF MoneySame
<1>5. QED
  BY <1>1, <1>2, <1>3, <1>4 DEF BatchStep

LEMMA DisputesImplement == ASSUME TypeOK, DisputeStep PROVE Money!Next \/ UNCHANGED Money!vars
<1>1. ASSUME NEW k \in SettlementKeys, DisputedStep(k) PROVE Money!Next
  <2> DEFINE bond == disputes'[k].totalBond
  <2>1. /\ settlements[k].status = "Pending" /\ settlements' = [settlements EXCEPT ![k].status = "Disputed"]
        /\ bond \in Nat /\ UNCHANGED batch
        /\ Owes(ledger', balanceOf(ledger), ledger.exposure, ledger.totalPendingFees,
                ledger.totalReporterBonds + bond, Earned(ledger))
    BY <1>1 DEF DisputedStep
  <2> HIDE DEF bond
  <2>2. Balance' = Balance /\ Bonds' = Bonds + bond /\ Earnings' = Earnings /\ Bonds \in Nat
    BY <2>1, Seen DEF Balance, Bonds
  <2>3. /\ Records' = [Records EXCEPT ![k].stage = Stage("Disputed")]
        /\ Records[k].stage = Stage(settlements[k].status)
    BY <2>1, RecordMoves DEF Statuses
  <2>4. Records[k].stage = "held" /\ Records' = [Records EXCEPT ![k].stage = "contested"]
    BY <2>1, <2>3, Stages
  <2>5. Bonds' >= Bonds
    BY <2>1, <2>2
  <2>6. QED
    BY <2>2, <2>4, <2>5, AbstractPost
<1>2. ASSUME NEW c \in CaseIds, CaseStep(c) PROVE Money!Next
  <2> DEFINE bond == capabilityCases'[c].bond
  <2>1. /\ UNCHANGED <<settlements, batch>> /\ bond \in Nat
        /\ Owes(ledger', balanceOf(ledger), ledger.exposure, ledger.totalPendingFees,
                ledger.totalReporterBonds + bond, Earned(ledger))
    BY <1>2 DEF CaseStep
  <2> HIDE DEF bond
  <2>2. Balance' = Balance /\ Bonds' = Bonds + bond /\ Earnings' = Earnings /\ Bonds \in Nat
    BY <2>1, Seen DEF Balance, Bonds
  <2>3. Bonds' >= Bonds /\ UNCHANGED Records
    BY <2>1, <2>2, RecordsSame
  <2>4. QED
    BY <2>2, <2>3, AbstractPost
<1>3. ASSUME NEW bond \in Nat, UNCHANGED <<settlements, batch>>,
             Owes(ledger', balanceOf(ledger), ledger.exposure, ledger.totalPendingFees,
                  ledger.totalReporterBonds - bond, Earned(ledger) + bond)
      PROVE  Money!Next \/ UNCHANGED Money!vars
  <2>1. /\ Balance' = Balance /\ Bonds' = Bonds - bond /\ Bonds \in Nat
        /\ Earnings' = Earned(ledger) + bond + SumFunction(batch.items) + batch.treasury
        /\ Earnings = Earned(ledger) + SumFunction(batch.items) + batch.treasury
        /\ Earned(ledger) \in Nat /\ SumFunction(batch.items) \in Nat /\ batch.treasury \in Nat
    BY <1>3, Seen DEF Balance, Bonds
  <2>2. Earnings' = Earnings + bond /\ Earnings \in Int
    BY <2>1
  <2>3. UNCHANGED Records
    BY <1>3, RecordsSame
  <2>4. CASE bond = 0
    <3>1. Bonds' = Bonds /\ Earnings' = Earnings
      BY <2>1, <2>2, <2>4
    <3>2. QED
      BY <2>1, <2>3, <3>1, AbstractStutter DEF MoneySame
  <2>5. CASE bond # 0
    <3>1. Bonds' < Bonds /\ Earnings' + Bonds' = Earnings + Bonds
      BY <2>1, <2>2, <2>5
    <3>2. QED
      BY <2>1, <2>3, <3>1, AbstractReturn
  <2>6. QED
    BY <2>4, <2>5
<1>4. ASSUME NEW k \in SettlementKeys, ReturnedStep(k) PROVE Money!Next \/ UNCHANGED Money!vars
  <2>1. disputes[k].totalBond \in Nat
    BY DEF TypeOK, Dispute
  <2>2. QED
    BY <1>3, <1>4, <2>1 DEF ReturnedStep
<1>5. ASSUME NEW c \in CaseIds, ClosedStep(c) PROVE Money!Next \/ UNCHANGED Money!vars
  <2>1. capabilityCases[c].bond \in Nat
    BY <1>5 DEF ClosedStep, TypeOK, CapabilityCase
  <2>2. QED
    BY <1>3, <1>5, <2>1 DEF ClosedStep
<1>6. QED
  BY <1>1, <1>2, <1>4, <1>5 DEF DisputeStep

LEMMA MoneyStarts == Init => Money!Init
<1> SUFFICES ASSUME Init PROVE Money!Init
  OBVIOUS
<1>1. /\ ledger.available = [o \in Consumers |-> 0] /\ ledger.reserved = [o \in Consumers |-> 0]
      /\ ledger.totalClaimable = 0 /\ ledger.totalHoldback = 0 /\ ledger.totalReporterBonds = 0
      /\ batch.items = NoTotals /\ batch.treasury = 0
      /\ settlements = [k \in SettlementKeys |-> NoSettlement]
  BY DEF Init, Idle
<1>2. Balance = [o \in Consumers |-> 0]
  BY <1>1 DEF Balance, balanceOf
<1>3. Record(NoSettlement) = [owner |-> NoOne, fee |-> 0, stage |-> "absent"]
  BY Stages DEF Record, NoSettlement
<1>4. Records = [k \in SettlementKeys |-> [owner |-> NoOne, fee |-> 0, stage |-> "absent"]]
  BY <1>1, <1>3 DEF Records
<1>5. SumFunction(batch.items) = 0
  BY <1>1, Empty
<1>6. Earnings = 0 /\ Bonds = 0
  BY <1>1, <1>5 DEF Earnings, Bonds
<1>7. QED
  BY <1>2, <1>4, <1>6 DEF Money!Init, Balance, balanceOf, Records, Record, Earnings, Bonds

\* The settlement, with its batches, holdbacks, shares, disputes and cases, is for its users the simple escrow of
\* module Escrow: each step of the contract is one step of it, or does not concern money at all.  Marking a
\* receipt inside releaseBatch is the step that pays it.
THEOREM MoneyIsEscrowed == Spec => EscrowImplemented
<1>1. Init => Money!Init
  BY MoneyStarts
<1>2. MoneyInv /\ [Next]_vars => [Money!Next]_(Money!vars)
  <2> SUFFICES ASSUME MoneyInv, [Next]_vars PROVE Money!Next \/ UNCHANGED Money!vars
    OBVIOUS
  <2>1. TypeOK /\ MoneyStep
    BY Stepped DEF MoneyInv
  <2>2. QED
    BY <2>1, FundsImplement, ReceiptsImplement, BatchImplements, DisputesImplement DEF MoneyStep
<1>3. QED
  BY <1>1, <1>2, BooksInOrder, PTL DEF Spec, EscrowImplemented, Money!Spec

-----------------------------------------------------------------------------
(* No underflow locks a fee in escrow *)

\* Two portions of an amount are within it when their rates together are at most one.
LEMMA PortionsFit ==
  ASSUME NEW amount \in Nat, NEW a \in Nat, NEW b \in Nat, a + b <= BPS
  PROVE  Portion(amount, a) + Portion(amount, b) <= amount
<1> DEFINE q == amount \div BPS
           r == amount % BPS
           u == (r * a) \div BPS
           v == (r * b) \div BPS
<1>1. q \in Nat /\ r \in Nat /\ amount = q * BPS + r
  BY DEF BPS
<1>2. Portion(amount, a) = q * a + u /\ Portion(amount, b) = q * b + v
  BY DEF Portion
<1> HIDE DEF q, r
<1>3. r * a \in Nat /\ r * b \in Nat /\ q * a \in Nat /\ q * b \in Nat
  BY <1>1
<1>4. u \in Nat /\ v \in Nat /\ u * BPS <= r * a /\ v * BPS <= r * b
  <2>1. ASSUME NEW x \in Nat PROVE x \div BPS \in Nat /\ (x \div BPS) * BPS <= x
    BY DEF BPS
  <2>2. QED
    BY <1>3, <2>1
<1> HIDE DEF u, v
<1>5. r * a + r * b <= r * BPS /\ q * a + q * b <= q * BPS
  <2>1. ASSUME NEW n \in Nat PROVE n * a + n * b <= n * BPS
    <3>1. n * a + n * b = n * (a + b) /\ BPS \in Nat
      BY DEF BPS
    <3>2. ASSUME NEW x \in Nat, NEW y \in Nat, x <= y PROVE n * x <= n * y
      BY <3>2
    <3>3. QED
      BY <3>1, <3>2
  <2>2. QED
    BY <1>1, <2>1
<1>6. (u + v) * BPS <= r * BPS
  BY <1>1, <1>3, <1>4, <1>5 DEF BPS
<1>7. u + v <= r
  BY <1>1, <1>4, <1>6 DEF BPS
<1>8. q * BPS \in Nat
  BY <1>1 DEF BPS
<1>9. QED
  BY <1>1, <1>2, <1>3, <1>4, <1>5, <1>7, <1>8

LEMMA PortionFits ==
  ASSUME NEW amount \in Nat, NEW a \in Nat, a <= BPS
  PROVE  Portion(amount, a) <= amount
<1>1. Portion(amount, 0) = 0
  BY DEF Portion, BPS
<1>2. Portion(amount, a) + Portion(amount, 0) <= amount /\ Portion(amount, a) \in Nat
  BY PortionsFit, PortionNat DEF BPS
<1>3. QED
  BY <1>1, <1>2

\* A ledger with other amounts is a ledger.
LEMMA ClaimableSet ==
  ASSUME NEW l \in Ledger, NEW c \in [Accounts -> Nat], NEW n \in Nat
  PROVE  [l EXCEPT !.claimable = c, !.totalClaimable = n] \in Ledger
BY ONLY l \in Ledger, c \in [Accounts -> Nat], n \in Nat DEF Ledger

LEMMA HoldbackSet ==
  ASSUME NEW l \in Ledger, NEW h \in [Providers -> Nat], NEW n \in Nat
  PROVE  [l EXCEPT !.holdback = h, !.totalHoldback = n] \in Ledger
BY ONLY l \in Ledger, h \in [Providers -> Nat], n \in Nat DEF Ledger

LEMMA RingSet ==
  ASSUME NEW l \in Ledger, NEW b \in Rings, NEW h \in [Providers -> Nat], NEW n \in Nat
  PROVE  [l EXCEPT !.buckets = b, !.holdback = h, !.totalHoldback = n] \in Ledger
BY ONLY l \in Ledger, b \in Rings, h \in [Providers -> Nat], n \in Nat DEF Ledger, Rings

LEMMA ExposureSet ==
  ASSUME NEW l \in Ledger, NEW e \in [Providers -> Nat], NEW h \in [Providers -> Nat]
  PROVE  [l EXCEPT !.exposure = e, !.clean = h] \in Ledger
BY ONLY l \in Ledger, e \in [Providers -> Nat], h \in [Providers -> Nat] DEF Ledger

LEMMA PendingSet == ASSUME NEW l \in Ledger, NEW n \in Nat PROVE [l EXCEPT !.totalPendingFees = n] \in Ledger
BY ONLY l \in Ledger, n \in Nat DEF Ledger

LEMMA RefundSet ==
  ASSUME NEW l \in Ledger, NEW m \in Nat, NEW e \in [Providers -> Nat], NEW a \in [Consumers -> Nat], NEW n \in Nat
  PROVE  [l EXCEPT !.totalPendingFees = m, !.exposure = e, !.available = a, !.totalAvailable = n] \in Ledger
BY ONLY l \in Ledger, m \in Nat, e \in [Providers -> Nat], a \in [Consumers -> Nat], n \in Nat DEF Ledger

LEMMA CreditLedger ==
  ASSUME NEW l \in Ledger, NEW account \in Accounts, NEW n \in Nat
  PROVE  credit(l, account, n) \in Ledger
<1> DEFINE f == [l.claimable EXCEPT ![account] = @ + n]
           m == l.totalClaimable + n
<1>1. f \in [Accounts -> Nat] /\ m \in Nat
  BY DEF Ledger
<1>2. credit(l, account, n) = [l EXCEPT !.claimable = f, !.totalClaimable = m]
  BY DEF credit, Ledger
<1> HIDE DEF f, m
<1>3. QED
  BY <1>1, <1>2, ClaimableSet

LEMMA PayHoldbackLedger ==
  ASSUME NEW l \in Ledger, NEW p \in Providers, NEW n \in Nat, n <= l.holdback[p], n <= l.totalHoldback
  PROVE  payHoldback(l, p, n) \in Ledger
<1> DEFINE b == [l EXCEPT !.holdback[p] = @ - n, !.totalHoldback = @ - n]
<1>1. p \in Accounts
  BY BaseAssumption
<1>2. b \in Ledger
  <2> DEFINE f == [l.holdback EXCEPT ![p] = @ - n]
             m == l.totalHoldback - n
  <2>1. f \in [Providers -> Nat] /\ m \in Nat
    BY DEF Ledger
  <2>2. b = [l EXCEPT !.holdback = f, !.totalHoldback = m]
    BY DEF Ledger
  <2> HIDE DEF f, m, b
  <2>3. QED
    BY <2>1, <2>2, HoldbackSet
<1>3. payHoldback(l, p, n) = credit(b, p, n)
  BY DEF payHoldback
<1> HIDE DEF b
<1>4. QED
  BY <1>1, <1>2, <1>3, CreditLedger

\* What is in one slot is within the Provider's holdback, and that within the total.
LEMMA SlotCovered ==
  ASSUME NEW l \in Ledger, Tallied(l), NEW p \in Providers, NEW i \in Slots
  PROVE  l.buckets[p][i].amount <= l.holdback[p] /\ l.holdback[p] <= l.totalHoldback
<1> DEFINE f == [j \in Slots |-> l.buckets[p][j].amount]
<1>1. IsFiniteSet(Slots)
  <2>1. 0 \in Int /\ HOLDBACK_BUCKETS - 1 \in Int
    BY BaseAssumption
  <2>2. QED
    BY <2>1, FS_Interval DEF Slots
<1>2. \A j \in Slots : f[j] \in Nat
  BY DEF Ledger
<1>3. f[i] = l.buckets[p][i].amount /\ SlotSum(l, p, Slots) = SumFunctionOnSet(f, Slots)
  BY DEF SlotSum
<1> HIDE DEF f
<1>4. f[i] <= SumFunctionOnSet(f, Slots)
  BY <1>1, <1>2, SumBounds
<1>5. l.holdback \in [Providers -> Nat] /\ IsFiniteSet(Providers)
  BY FiniteParties DEF Ledger
<1>6. SumFunction(l.holdback) = SumFunctionOnSet(l.holdback, Providers)
  BY <1>5, SumWhole
<1>7. l.holdback[p] <= SumFunctionOnSet(l.holdback, Providers)
  BY <1>5, SumBounds
<1>8. QED
  BY <1>3, <1>4, <1>6, <1>7 DEF Tallied

LEMMA AddHoldbackLedger ==
  ASSUME now \in Nat, NEW l \in Ledger, NEW p \in Providers, NEW n \in Nat,
         \A i \in Slots : l.buckets[p][i].amount <= l.holdback[p], l.holdback[p] <= l.totalHoldback
  PROVE  addHoldback(l, p, n) \in Ledger
<1> DEFINE slot == Today % HOLDBACK_BUCKETS
           old  == l.buckets[p][slot]
           kept == IF old.day = Today THEN old.amount ELSE 0
           paid == IF old.day = Today THEN l ELSE payHoldback(l, p, old.amount)
           item == [day |-> Today, amount |-> kept + n]
<1>1. slot \in Slots
  BY TodaySlot
<1>2. Today \in Nat
  BY BaseAssumption DEF Today
<1>3. old \in [day: Nat, amount: Nat] /\ old.amount <= l.holdback[p] /\ old.amount <= l.totalHoldback
  <2>1. old \in [day: Nat, amount: Nat] /\ l.holdback[p] \in Nat /\ l.totalHoldback \in Nat
    BY <1>1 DEF Ledger
  <2>2. old.amount <= l.holdback[p]
    BY <1>1
  <2>3. QED
    BY <2>1, <2>2
<1>4. item \in [day: Nat, amount: Nat]
  BY <1>2, <1>3
<1>5. addHoldback(l, p, n) = [paid EXCEPT !.buckets[p][slot] = item, !.holdback[p] = @ + n, !.totalHoldback = @ + n]
  BY DEF addHoldback
<1>6. paid \in Ledger
  <2> HIDE DEF slot
  <2>1. QED
    BY <1>3, PayHoldbackLedger
<1> HIDE DEF slot, paid, item
<1> DEFINE b == [paid.buckets EXCEPT ![p][slot] = item]
           f == [paid.holdback EXCEPT ![p] = @ + n]
           m == paid.totalHoldback + n
<1>7. b \in Rings /\ f \in [Providers -> Nat] /\ m \in Nat
  BY <1>1, <1>4, <1>6 DEF Ledger, Rings
<1>8. addHoldback(l, p, n) = [paid EXCEPT !.buckets = b, !.holdback = f, !.totalHoldback = m]
  BY <1>5, <1>6 DEF Ledger
<1> HIDE DEF b, f, m
<1>9. [paid EXCEPT !.buckets = b, !.holdback = f, !.totalHoldback = m] \in Ledger
  BY ONLY <1>6, <1>7, RingSet
<1>10. QED
  BY ONLY <1>8, <1>9

LEMMA PayItemLedger ==
  ASSUME TypeOK, ValidParams(settings), settings.relayBps + TREASURY_BPS <= BPS, NEW l \in Ledger, Tallied(l),
         NEW p \in Providers, NEW r \in Relays, NEW fee \in Nat, fee <= l.exposure[p]
  PROVE  payItem(l, p, r, fee) \in Ledger /\ payItem(l, p, r, fee).totalPendingFees = l.totalPendingFees
<1> DEFINE gross == providerGross(fee)
           held  == Portion(gross, settings.holdbackBps)
           base  == [l EXCEPT !.exposure[p] = @ - fee, !.clean[p] = @ + fee]
           first == credit(base, r, relayShare(fee))
           paid  == credit(first, p, gross - held)
<1>1. now \in Nat /\ settings \in Params /\ settings.relayBps \in Nat /\ settings.holdbackBps \in Nat
      /\ settings.holdbackBps <= BPS /\ r \in Accounts /\ p \in Accounts
  BY BaseAssumption DEF TypeOK, Params, ValidParams
<1>2. relayShare(fee) \in Nat /\ treasuryCut(fee) \in Nat /\ relayShare(fee) + treasuryCut(fee) <= fee
  <2>1. TREASURY_BPS \in Nat
    BY DEF TREASURY_BPS
  <2>2. Portion(fee, settings.relayBps) \in Nat /\ Portion(fee, TREASURY_BPS) \in Nat
    BY ONLY <1>1, <2>1, fee \in Nat, PortionNat
  <2>3. Portion(fee, settings.relayBps) + Portion(fee, TREASURY_BPS) <= fee
    BY ONLY <1>1, <2>1, fee \in Nat, settings.relayBps + TREASURY_BPS <= BPS, PortionsFit
  <2>4. QED
    BY ONLY <2>2, <2>3 DEF relayShare, treasuryCut
<1>3. gross \in Nat
  BY <1>2 DEF providerGross
<1> HIDE DEF gross
<1>4. held \in Nat /\ held <= gross
  BY <1>1, <1>3, PortionFits, PortionNat
<1> HIDE DEF held
<1>5. base \in Ledger
  <2> DEFINE e == [l.exposure EXCEPT ![p] = @ - fee]
             h == [l.clean EXCEPT ![p] = @ + fee]
  <2>1. e \in [Providers -> Nat] /\ h \in [Providers -> Nat]
    BY DEF Ledger
  <2>2. base = [l EXCEPT !.exposure = e, !.clean = h]
    BY DEF Ledger
  <2> HIDE DEF e, h, base
  <2>3. QED
    BY <2>1, <2>2, ExposureSet
<1>6. base.buckets = l.buckets /\ base.holdback = l.holdback /\ base.totalHoldback = l.totalHoldback
      /\ base.totalPendingFees = l.totalPendingFees
  BY DEF Ledger
<1> HIDE DEF base
<1>7. first \in Ledger
  BY <1>1, <1>2, <1>5, CreditLedger
<1>8. first.buckets = l.buckets /\ first.holdback = l.holdback /\ first.totalHoldback = l.totalHoldback
      /\ first.totalPendingFees = l.totalPendingFees
  BY <1>5, <1>6 DEF credit, Ledger
<1> HIDE DEF first
<1>9. paid \in Ledger
  BY <1>1, <1>3, <1>4, <1>7, CreditLedger
<1>10. paid.buckets = l.buckets /\ paid.holdback = l.holdback /\ paid.totalHoldback = l.totalHoldback
       /\ paid.totalPendingFees = l.totalPendingFees
  BY <1>7, <1>8 DEF credit, Ledger
<1>11. payItem(l, p, r, fee) = IF held > 0 THEN addHoldback(paid, p, held) ELSE paid
  BY DEF payItem, held, gross, paid, first, base
<1> HIDE DEF paid
<1>12. (\A i \in Slots : paid.buckets[p][i].amount <= paid.holdback[p]) /\ paid.holdback[p] <= paid.totalHoldback
  <2>1. 0 \in Slots
    BY BaseAssumption DEF Slots
  <2>2. QED
    BY <1>10, <2>1, SlotCovered
<1>13. addHoldback(paid, p, held) \in Ledger
  BY <1>1, <1>4, <1>9, <1>12, AddHoldbackLedger
<1>14. addHoldback(paid, p, held).totalPendingFees = paid.totalPendingFees
  BY <1>9 DEF addHoldback, payHoldback, credit, Ledger
<1>15. QED
  BY <1>9, <1>10, <1>11, <1>13, <1>14

\* A receipt's fee is within its Provider's exposure and the pending total.
LEMMA FeeCovered ==
  ASSUME MoneyInv, NEW k \in SettlementKeys, settlements[k].status \in OpenStatuses
  PROVE  /\ settlements[k] \in Settlement /\ settlements[k].fee \in Nat
         /\ settlements[k].provider \in Providers /\ settlements[k].owner \in Consumers /\ settlements[k].relay \in Relays
         /\ settlements[k].fee <= ledger.exposure[settlements[k].provider]
         /\ settlements[k].fee <= ledger.totalPendingFees
<1> DEFINE r == settlements[k]
<1>1. r \in Settlement /\ r.fee \in Nat
  BY DEF MoneyInv, TypeOK, Settlement
<1>2. r.provider \in Providers /\ r.owner \in Consumers /\ r.relay \in Relays
  BY DEF MoneyInv, TypeOK, PartiesKnown, OpenStatuses
<1>3. HeldBy(r, Providers) = r.fee /\ HeldBy(r, {r.provider}) = r.fee
  BY <1>2 DEF HeldBy
<1>4. TypeOK
  BY DEF MoneyInv
<1>5. r.fee <= EscrowOf(Providers) /\ EscrowOf(Providers) \in Nat /\ MarkedOf(Providers) \in Nat /\ batch.total \in Nat
  BY <1>3, <1>4, EscrowInt DEF TypeOK, Batch
<1>6. r.fee <= EscrowOf({r.provider}) /\ EscrowOf({r.provider}) \in Nat /\ MarkedOf({r.provider}) \in Nat
  BY <1>3, <1>4, EscrowInt
<1>7. /\ ledger.totalPendingFees = EscrowOf(Providers) + MarkedOf(Providers) + batch.total
      /\ ledger.exposure[r.provider] = EscrowOf({r.provider}) + MarkedOf({r.provider})
  BY <1>2 DEF MoneyInv, EscrowHeld
<1> HIDE DEF r
<1>8. r.fee <= ledger.exposure[r.provider] /\ r.fee <= ledger.totalPendingFees
  BY <1>1, <1>5, <1>6, <1>7
<1>9. QED
  BY <1>1, <1>2, <1>8 DEF r

LEMMA FeesGoThrough == MoneyInv /\ ValidParams(settings) => FeesPayable
<1> SUFFICES ASSUME MoneyInv, ValidParams(settings), settings.relayBps + TREASURY_BPS <= BPS,
                    NEW k \in SettlementKeys, settlements[k].status \in OpenStatuses
             PROVE  payRelease(ledger, settlements[k]) \in Ledger /\ refund(ledger, settlements[k]) \in Ledger
  BY DEF FeesPayable
<1> DEFINE r == settlements[k]
<1>1. /\ r.fee \in Nat /\ r.provider \in Providers /\ r.owner \in Consumers /\ r.relay \in Relays
      /\ r.fee <= ledger.exposure[r.provider] /\ r.fee <= ledger.totalPendingFees
  BY FeeCovered
<1>2. ledger \in Ledger /\ TypeOK /\ Tallied(ledger)
  BY DEF MoneyInv, TypeOK
<1>3. payRelease(ledger, r) = payTotals(payItem(ledger, r.provider, r.relay, r.fee), r.fee, treasuryCut(r.fee))
  BY DEF payRelease
<1>4. refund(ledger, r) = [ledger EXCEPT !.totalPendingFees = @ - r.fee, !.exposure[r.provider] = @ - r.fee,
                              !.available[r.owner] = @ + r.fee, !.totalAvailable = @ + r.fee]
  BY DEF refund
<1> HIDE DEF r
<1>5. refund(ledger, r) \in Ledger
  <2> DEFINE e == [ledger.exposure EXCEPT ![r.provider] = @ - r.fee]
             a == [ledger.available EXCEPT ![r.owner] = @ + r.fee]
             m == ledger.totalPendingFees - r.fee
             n == ledger.totalAvailable + r.fee
  <2>1. e \in [Providers -> Nat] /\ a \in [Consumers -> Nat] /\ m \in Nat /\ n \in Nat
    BY <1>1, <1>2 DEF Ledger
  <2>2. refund(ledger, r) = [ledger EXCEPT !.totalPendingFees = m, !.exposure = e, !.available = a, !.totalAvailable = n]
    BY <1>2, <1>4 DEF Ledger
  <2> HIDE DEF a, e, m, n
  <2>3. [ledger EXCEPT !.totalPendingFees = m, !.exposure = e, !.available = a, !.totalAvailable = n] \in Ledger
    BY ONLY <1>2, <2>1, RefundSet
  <2>4. QED
    BY ONLY <2>2, <2>3
<1> DEFINE item == payItem(ledger, r.provider, r.relay, r.fee)
           done == [item EXCEPT !.totalPendingFees = @ - r.fee]
<1>6. item \in Ledger /\ item.totalPendingFees = ledger.totalPendingFees
  BY <1>1, <1>2, PayItemLedger
<1> HIDE DEF item
<1>7. done \in Ledger
  <2> DEFINE m == item.totalPendingFees - r.fee
  <2>1. m \in Nat
    BY <1>1, <1>2, <1>6 DEF Ledger
  <2>2. done = [item EXCEPT !.totalPendingFees = m]
    OBVIOUS
  <2> HIDE DEF m, done
  <2>3. QED
    BY <1>6, <2>1, <2>2, PendingSet
<1>8. treasuryCut(r.fee) \in Nat /\ settings.penaltyRecipient \in Accounts
  BY <1>1, <1>2, PortionNat DEF treasuryCut, TREASURY_BPS, TypeOK, Params
<1>9. payRelease(ledger, r) = credit(done, settings.penaltyRecipient, treasuryCut(r.fee))
  BY <1>3 DEF payTotals, item
<1> HIDE DEF done
<1>10. payRelease(ledger, r) \in Ledger
  BY <1>7, <1>8, <1>9, CreditLedger
<1>11. QED
  BY <1>5, <1>10 DEF r

\* While the Relay's and the treasury's shares fit in a fee, no accounting underflow can keep an open receipt from
\* being released or refunded (_release, _refund): whatever the amounts, the ring and the parameters.
THEOREM FeesNeverStuck == Spec => []FeesPayable
<1>1. MoneyInv /\ ValidParams(settings) => FeesPayable
  BY FeesGoThrough
<1>2. QED
  BY <1>1, BooksInOrder, ParamsValid, PTL

-----------------------------------------------------------------------------
(* Capability cases and the probes they list *)

VoidsOf(h, p, d) ==
  {k \in SettlementKeys : probeVoids[k].hunter = h /\ settlements[k].provider = p /\ probeVoids[k].day = d}
CaseVoids(c) ==
  {k \in SettlementKeys : /\ probeVoids[k].hunter = c[1] /\ settlements[k].provider = c[2]
                          /\ c[3] <= probeVoids[k].day /\ probeVoids[k].day <= c[4]}

\* A void is of a receipt that ended so, on a day that has come.
VoidsKnown ==
  \A k \in SettlementKeys : probeVoids[k].hunter # NoOne =>
    settlements[k].status = "Voided" /\ probeVoids[k].day \in Days /\ probeVoids[k].day <= Today

\* The counter a case is measured by counts the voids it stands for.
VoidsCounted ==
  \A h \in Hunters, p \in Providers, d \in Days : hunterProbeVoids[<<h, p, d>>] = Cardinality(VoidsOf(h, p, d))

\* A case's days are over, it lists every void of them, and each of those is marked as used.
CasesClosed ==
  \A c \in DOMAIN capabilityCases :
    c[4] < Today /\ capabilityCases[c].keys = CaseVoids(c) /\ \A k \in capabilityCases[c].keys : probeVoids[k].inCase

CasesApart ==
  \A c \in DOMAIN capabilityCases : \A e \in DOMAIN capabilityCases \ {c} :
    capabilityCases[c].keys \cap capabilityCases[e].keys = {}

CaseInv == TypeOK /\ CasesRequested /\ VoidsKnown /\ VoidsCounted /\ CasesClosed /\ CasesApart

LEMMA FiniteDays == IsFiniteSet(Days)
<1> DEFINE S == 0 .. MaxTime
           f == [t \in S |-> t \div DAY]
<1>1. IsFiniteSet(S)
  BY BaseAssumption, FS_Interval
<1>2. \A d \in Days : \E t \in S : d = f[t]
  BY DEF Days
<1> HIDE DEF f, S
<1>3. QED
  BY <1>1, <1>2, FiniteRange

\* Voids of different days are different receipts: the counts of days add up to the count of all.
LEMMA DaysAddUp ==
  ASSUME VoidsCounted, NEW h \in Hunters, NEW p \in Providers, NEW D \in SUBSET Days
  PROVE  SumFunctionOnSet([d \in Days |-> hunterProbeVoids[<<h, p, d>>]], D)
         = Cardinality({k \in SettlementKeys :
                          probeVoids[k].hunter = h /\ settlements[k].provider = p /\ probeVoids[k].day \in D})
<1> DEFINE f    == [d \in Days |-> hunterProbeVoids[<<h, p, d>>]]
           V(T) == {k \in SettlementKeys :
                      probeVoids[k].hunter = h /\ settlements[k].provider = p /\ probeVoids[k].day \in T}
           Good == {T \in SUBSET Days : SumFunctionOnSet(f, T) = Cardinality(V(T))}
<1>1. \A T : V(T) \subseteq SettlementKeys /\ IsFiniteSet(V(T)) /\ Cardinality(V(T)) \in Nat
  <2>1. \A T : V(T) \subseteq SettlementKeys
    OBVIOUS
  <2>2. IsFiniteSet(SettlementKeys)
    BY FiniteKeys
  <2> HIDE DEF V
  <2>3. QED
    BY <2>1, <2>2, FS_Subset, FS_CardinalityType
<1>2. \A d \in Days : f[d] = Cardinality(V({d}))
  <2>1. \A d \in Days : V({d}) = VoidsOf(h, p, d)
    BY DEF VoidsOf
  <2>2. \A d \in Days : f[d] = Cardinality(VoidsOf(h, p, d))
    BY DEF VoidsCounted
  <2> HIDE DEF V, f
  <2>3. QED
    BY <2>1, <2>2
<1>3. V({}) = {}
  OBVIOUS
<1>4. \A T, d : d \in T => V(T) = V({d}) \cup V(T \ {d}) /\ V({d}) \cap V(T \ {d}) = {}
  OBVIOUS
<1> HIDE DEF f, V
<1>5. \A d \in Days : f[d] \in Int
  <2>1. \A d \in Days : Cardinality(V({d})) \in Nat
    BY <1>1
  <2>2. ASSUME NEW d \in Days PROVE f[d] \in Nat
    BY ONLY <1>2, <2>1, d \in Days
  <2>3. QED
    BY <2>2
<1>6. ASSUME NEW T \in SUBSET Days, \A U \in SUBSET T : U # T => U \in Good
      PROVE  T \in Good
  <2>1. IsFiniteSet(T)
    BY FiniteDays, FS_Subset
  <2>2. CASE T = {}
    BY <1>3, <2>2, SumEmpty, FS_EmptySet
  <2>3. CASE T # {}
    <3>1. PICK d : d \in T
      BY <2>3
    <3>2. SumFunctionOnSet(f, T) = f[d] + SumFunctionOnSet(f, T \ {d})
      BY <1>5, <2>1, <3>1, SumTakeOut
    <3>3. SumFunctionOnSet(f, T \ {d}) = Cardinality(V(T \ {d}))
      BY <1>6, <3>1
    <3>4. V(T) = V({d}) \cup V(T \ {d}) /\ V({d}) \cap V(T \ {d}) = {}
      BY <1>4, <3>1
    <3>5. Cardinality(V(T)) = Cardinality(V({d})) + Cardinality(V(T \ {d}))
      <4>1. IsFiniteSet(V({d})) /\ IsFiniteSet(V(T \ {d})) /\ Cardinality({}) = 0
        BY <1>1, FS_EmptySet
      <4>2. Cardinality(V({d}) \cup V(T \ {d})) =
              Cardinality(V({d})) + Cardinality(V(T \ {d})) - Cardinality(V({d}) \cap V(T \ {d}))
        BY <4>1, FS_Union
      <4>3. Cardinality(V({d})) \in Nat /\ Cardinality(V(T \ {d})) \in Nat
        BY <1>1
      <4>4. Cardinality(V(T)) = Cardinality(V({d})) + Cardinality(V(T \ {d})) - 0
        BY <3>4, <4>1, <4>2
      <4>5. QED
        BY ONLY <4>3, <4>4
    <3>6. QED
      BY <1>2, <3>1, <3>2, <3>3, <3>5
  <2>4. QED
    BY <2>2, <2>3
<1>7. \A T \in SUBSET Days : T \in Good
  <2> HIDE DEF Good
  <2>1. QED
    BY <1>6, FiniteDays, SubsetInduction
<1>8. QED
  BY <1>7 DEF V, f

\* As many of a case's voids as there are is all of them.
LEMMA AllListed ==
  ASSUME TypeOK, VoidsKnown, VoidsCounted, NEW c \in CaseIds, NEW keys \in SUBSET CaseVoids(c),
         Cardinality(keys) = rangeVoids(c)
  PROVE  keys = CaseVoids(c)
<1> DEFINE D == {d \in Days : c[3] <= d /\ d <= c[4]}
           V == {k \in SettlementKeys :
                   probeVoids[k].hunter = c[1] /\ settlements[k].provider = c[2] /\ probeVoids[k].day \in D}
<1>1. c[1] \in Hunters /\ c[2] \in Providers /\ NoOne \notin Hunters
  BY BaseAssumption DEF CaseIds
<1>2. rangeVoids(c) = Cardinality(V)
  BY <1>1, DaysAddUp DEF rangeVoids
<1>3. V = CaseVoids(c)
  BY <1>1 DEF CaseVoids, VoidsKnown
<1> HIDE DEF V
<1>4. IsFiniteSet(CaseVoids(c))
  BY FiniteKeys, FS_Subset DEF CaseVoids
<1>5. QED
  BY <1>2, <1>3, <1>4, FS_Subset

LEMMA RecordStep == ASSUME TypeOK, [Next]_vars PROVE SettlesOnce
<1>1. CASE NextFunds \/ Tick \/ UNCHANGED vars
  <2>1. UNCHANGED settlements
    BY <1>1
    DEF NextFunds, Tick, vars, setParams, setProbeMaxFee, setOracle, requestWithdrawal, cancelWithdrawal,
        setKeyBudget, revokeKey, registerKey, authorizeProviderSigner, authorizeRelaySigner,
        revokeProviderSigner, revokeRelaySigner, commitProbes, OnlyGrants, OnlySigners, deposit, withdraw, claim,
        reserveForOracle, releaseOracleReserve, releaseHoldback, OnlyLedger
  <2>2. QED
    BY <2>1, RecordsKept
<1>2. QED
  BY <1>1, ReceiptsSettleOnce, DisputesSettleOnce DEF Next

LEMMA ClockStep == ASSUME [Next]_vars PROVE now' = now \/ now' = now + 1
<1>1. CASE NextFunds
  BY <1>1
  DEF NextFunds, setParams, setProbeMaxFee, setOracle, deposit, claim, withdraw, requestWithdrawal, cancelWithdrawal,
      setKeyBudget, revokeKey, registerKey, authorizeProviderSigner, authorizeRelaySigner,
      revokeProviderSigner, revokeRelaySigner, commitProbes, OnlyGrants, OnlySigners,
      reserveForOracle, releaseOracleReserve, releaseHoldback, OnlyLedger
<1>2. CASE NextReceipts
  BY <1>2
  DEF NextReceipts, settle, settleOracle, release, markReleased, releaseBatch, payReleasedItem, finishBatch, voidProbe
<1>3. CASE NextDisputes
  BY <1>3
  DEF NextDisputes, openDispute, confirmDispute, dismissDispute, claimDisputeBond, resolveTimedOutDispute,
      openCapabilityCase, voteCapabilityCase, resolveTimedOutCapabilityCase, OnlyCases, finalizeJury
<1>4. QED
  BY <1>1, <1>2, <1>3 DEF Next, Tick, vars

\* A step that voids nothing and opens no case.
LEMMA CasesRest ==
  ASSUME CaseInv, TypeOK', CasesRequested', UNCHANGED <<probeVoids, hunterProbeVoids>>,
         DOMAIN capabilityCases' = DOMAIN capabilityCases,
         \A c \in DOMAIN capabilityCases : capabilityCases'[c].keys = capabilityCases[c].keys,
         \A k \in SettlementKeys : settlements[k].status = "Voided" => settlements'[k] = settlements[k],
         Today \in Nat, Today' \in Nat, Today <= Today'
  PROVE  CaseInv'
<1>1. NoOne \notin Hunters /\ DOMAIN capabilityCases \subseteq CaseIds /\ \A c \in CaseIds : c[1] \in Hunters /\ c[4] \in Nat
  <2>1. \A d \in Days : d \in Nat
    BY BaseAssumption DEF Days
  <2>2. QED
    BY <2>1, BaseAssumption DEF CaseInv, TypeOK, CaseIds
<1>2. \A k \in SettlementKeys : probeVoids[k].hunter # NoOne => settlements'[k] = settlements[k]
  BY DEF CaseInv, VoidsKnown
<1>3. VoidsKnown'
  <2>1. ASSUME NEW k \in SettlementKeys, probeVoids[k].hunter # NoOne
        PROVE  settlements'[k].status = "Voided" /\ probeVoids[k].day \in Days /\ probeVoids[k].day <= Today'
    <3>1. settlements[k].status = "Voided" /\ probeVoids[k].day \in Days /\ probeVoids[k].day <= Today
      BY <2>1 DEF CaseInv, VoidsKnown
    <3>2. probeVoids[k].day \in Nat
      BY DEF CaseInv, TypeOK, ProbeVoid
    <3>3. QED
      BY <1>2, <2>1, <3>1, <3>2
  <2>2. QED
    BY <2>1 DEF VoidsKnown
<1>4. VoidsCounted'
  <2>1. ASSUME NEW h \in Hunters, NEW p, NEW d PROVE VoidsOf(h, p, d)' = VoidsOf(h, p, d)
    BY <1>1, <1>2 DEF VoidsOf
  <2>2. QED
    BY <2>1 DEF CaseInv, VoidsCounted
<1>5. CasesClosed'
  <2>1. ASSUME NEW c \in DOMAIN capabilityCases
        PROVE  /\ c[4] < Today' /\ capabilityCases'[c].keys = CaseVoids(c)'
               /\ \A k \in capabilityCases'[c].keys : probeVoids'[k].inCase
    <3>1. c[1] \in Hunters /\ c[4] \in Nat
      BY <1>1
    <3>2. CaseVoids(c)' = CaseVoids(c)
      BY <1>1, <1>2, <3>1 DEF CaseVoids
    <3>3. QED
      BY <3>1, <3>2 DEF CaseInv, CasesClosed
  <2>2. QED
    BY <2>1 DEF CasesClosed
<1>6. CasesApart'
  BY DEF CaseInv, CasesApart
<1>7. QED
  BY <1>3, <1>4, <1>5, <1>6 DEF CaseInv

\* A void of today is in no case, and is counted once.
LEMMA VoidCounted ==
  ASSUME CaseInv, TypeOK', CasesRequested', NEW k \in SettlementKeys, NEW e \in Commitments, voidProbe(k, e)
  PROVE  CaseInv'
<1> DEFINE h == e.hunter
           p == settlements[k].provider
           v == [hunter |-> h, day |-> Today, inCase |-> FALSE]
<1>1. h \in Hunters /\ p \in Providers /\ Today \in Days /\ Today \in Nat /\ NoOne \notin Hunters
  <2>1. h \in Hunters /\ NoOne \notin Hunters
    BY BaseAssumption, InputAssumption
  <2>2. p \in Providers
    BY DEF voidProbe, CaseInv, TypeOK, PartiesKnown
  <2>3. Today \in Days /\ Today \in Nat
    BY TodayDay DEF CaseInv, TypeOK
  <2>4. QED
    BY <2>1, <2>2, <2>3
<1>2. /\ probeVoids' = [probeVoids EXCEPT ![k] = v] /\ settlements' = [settlements EXCEPT ![k].status = "Voided"]
      /\ hunterProbeVoids' = [hunterProbeVoids EXCEPT ![<<h, p, Today>>] = @ + 1]
      /\ UNCHANGED <<now, capabilityCases>> /\ settlements[k].status = "Pending"
  BY DEF voidProbe, caseVars
<1>3. probeVoids[k].hunter = NoOne
  BY <1>2 DEF CaseInv, VoidsKnown
<1>4. probeVoids \in [SettlementKeys -> ProbeVoid] /\ settlements \in [SettlementKeys -> Settlement]
  BY DEF CaseInv, TypeOK
<1>5. /\ probeVoids'[k].hunter = h /\ probeVoids'[k].day = Today
      /\ settlements'[k].provider = p /\ settlements'[k].status = "Voided"
      /\ \A x \in SettlementKeys \ {k} : probeVoids'[x] = probeVoids[x] /\ settlements'[x] = settlements[x]
  BY <1>2, <1>4 DEF Settlement
<1>6. Today' = Today
  BY <1>2 DEF Today
<1> HIDE DEF h, p, v
<1>7. VoidsKnown'
  <2>1. ASSUME NEW x \in SettlementKeys, probeVoids'[x].hunter # NoOne
        PROVE  settlements'[x].status = "Voided" /\ probeVoids'[x].day \in Days /\ probeVoids'[x].day <= Today
    <3>1. CASE x = k
      BY <1>1, <1>5, <3>1
    <3>2. CASE x # k
      BY <1>5, <2>1, <3>2 DEF CaseInv, VoidsKnown
    <3>3. QED
      BY <3>1, <3>2
  <2>2. QED
    BY <1>6, <2>1 DEF VoidsKnown
<1>8. VoidsCounted'
  <2>1. ASSUME NEW g \in Hunters, NEW q \in Providers, NEW d \in Days
        PROVE  hunterProbeVoids'[<<g, q, d>>] = Cardinality(VoidsOf(g, q, d)')
    <3>1. hunterProbeVoids[<<g, q, d>>] = Cardinality(VoidsOf(g, q, d)) /\ k \notin VoidsOf(g, q, d)
      BY <1>1, <1>3, <2>1 DEF CaseInv, VoidsCounted, VoidsOf
    <3>2. hunterProbeVoids \in [Hunters \X Providers \X Days -> Nat]
      BY DEF CaseInv, TypeOK
    <3>3. IsFiniteSet(VoidsOf(g, q, d))
      BY FiniteKeys, FS_Subset DEF VoidsOf
    <3>4. CASE g = h /\ q = p /\ d = Today
      <4>1. VoidsOf(g, q, d)' = VoidsOf(g, q, d) \cup {k}
        BY <1>5, <3>4 DEF VoidsOf
      <4>2. hunterProbeVoids'[<<g, q, d>>] = hunterProbeVoids[<<g, q, d>>] + 1
        BY <1>1, <1>2, <3>2, <3>4
      <4>3. Cardinality(VoidsOf(g, q, d) \cup {k}) = Cardinality(VoidsOf(g, q, d)) + 1
        BY <3>1, <3>3, FS_AddElement
      <4>4. QED
        BY <3>1, <4>1, <4>2, <4>3
    <3>5. CASE ~(g = h /\ q = p /\ d = Today)
      <4>1. VoidsOf(g, q, d)' = VoidsOf(g, q, d)
        <5>1. ASSUME NEW x \in SettlementKeys PROVE x \in VoidsOf(g, q, d)' <=> x \in VoidsOf(g, q, d)
          BY <1>5, <3>1, <3>5, <5>1 DEF VoidsOf
        <5>2. QED
          BY <5>1 DEF VoidsOf
      <4>2. hunterProbeVoids'[<<g, q, d>>] = hunterProbeVoids[<<g, q, d>>]
        BY <1>1, <1>2, <3>2, <3>5
      <4>3. QED
        BY <3>1, <4>1, <4>2
    <3>6. QED
      BY <3>4, <3>5
  <2>2. QED
    BY <2>1 DEF VoidsCounted
<1>9. CasesClosed'
  <2>1. ASSUME NEW c \in DOMAIN capabilityCases
        PROVE  /\ c[4] < Today /\ capabilityCases[c].keys = CaseVoids(c)'
               /\ \A x \in capabilityCases[c].keys : probeVoids'[x].inCase
    <3>1. c[4] < Today /\ capabilityCases[c].keys = CaseVoids(c) /\ c[1] \in Hunters /\ c[4] \in Nat
      <4>1. c \in CaseIds
        BY DEF CaseInv, TypeOK
      <4>2. \A d \in Days : d \in Nat
        BY BaseAssumption DEF Days
      <4>3. QED
        BY <4>1, <4>2 DEF CaseInv, CasesClosed, CaseIds
    <3>2. k \notin CaseVoids(c) /\ k \notin CaseVoids(c)'
      <4>1. ~(Today <= c[4])
        BY <1>1, <3>1
      <4>2. QED
        BY <1>1, <1>3, <1>5, <3>1, <4>1 DEF CaseVoids
    <3>3. CaseVoids(c)' = CaseVoids(c)
      <4>1. ASSUME NEW x \in SettlementKeys PROVE x \in CaseVoids(c)' <=> x \in CaseVoids(c)
        BY <1>5, <3>2, <4>1 DEF CaseVoids
      <4>2. QED
        BY <4>1 DEF CaseVoids
    <3>4. \A x \in capabilityCases[c].keys : probeVoids'[x].inCase
      BY <1>5, <3>1, <3>2 DEF CaseInv, CasesClosed, CaseVoids
    <3>5. QED
      BY <3>1, <3>3, <3>4
  <2>2. QED
    BY <1>2, <1>6, <2>1 DEF CasesClosed
<1>10. CasesApart'
  BY <1>2 DEF CaseInv, CasesApart
<1>11. QED
  BY <1>7, <1>8, <1>9, <1>10 DEF CaseInv

\* A new case takes all voids of its days, and none of another case.
LEMMA CaseOpened ==
  ASSUME CaseInv, TypeOK', CasesRequested', NEW c \in CaseIds, NEW keys \in SUBSET {k \in SettlementKeys : inRange(k, c)},
         openCapabilityCase(c, keys)
  PROVE  CaseInv'
<1>1. probeVoids \in [SettlementKeys -> ProbeVoid]
  BY DEF CaseInv, TypeOK
<1>2. /\ probeVoids' = [k \in SettlementKeys |-> IF k \in keys THEN [probeVoids[k] EXCEPT !.inCase = TRUE]
                                                              ELSE probeVoids[k]]
      /\ UNCHANGED <<now, settlements, hunterProbeVoids>> /\ c[4] < Today /\ Cardinality(keys) = rangeVoids(c)
      /\ assignments[c].status = "None"
  BY DEF openCapabilityCase, closedRange
<1>3. /\ \A k \in SettlementKeys : probeVoids'[k].hunter = probeVoids[k].hunter /\ probeVoids'[k].day = probeVoids[k].day
      /\ \A k \in SettlementKeys : probeVoids[k].inCase => probeVoids'[k].inCase
      /\ \A k \in keys : probeVoids'[k].inCase
  BY <1>1, <1>2 DEF ProbeVoid
<1>4. /\ DOMAIN capabilityCases' = DOMAIN capabilityCases \cup {c}
      /\ \A x \in DOMAIN capabilityCases' \ {c} : capabilityCases'[x] = capabilityCases[x]
      /\ capabilityCases'[c].keys = keys
  BY DEF openCapabilityCase
<1>5. c \notin DOMAIN capabilityCases
  BY <1>2 DEF CaseInv, CasesRequested
<1>6. \A x : CaseVoids(x)' = CaseVoids(x)
  BY <1>2, <1>3 DEF CaseVoids
<1>7. \A h, p, d : VoidsOf(h, p, d)' = VoidsOf(h, p, d)
  BY <1>2, <1>3 DEF VoidsOf
<1>8. Today' = Today
  BY <1>2 DEF Today
<1>9. keys = CaseVoids(c)
  <2>1. keys \subseteq CaseVoids(c)
    BY DEF inRange, CaseVoids
  <2>2. QED
    BY <1>2, <2>1, AllListed DEF CaseInv
<1>10. \A k \in keys : ~probeVoids[k].inCase
  BY DEF inRange
<1>11. VoidsKnown'
  BY <1>2, <1>3, <1>8 DEF CaseInv, VoidsKnown
<1>12. VoidsCounted'
  BY <1>2, <1>7 DEF CaseInv, VoidsCounted
<1>13. CasesClosed'
  <2>1. ASSUME NEW x \in DOMAIN capabilityCases'
        PROVE  /\ x[4] < Today /\ capabilityCases'[x].keys = CaseVoids(x)
               /\ \A k \in capabilityCases'[x].keys : probeVoids'[k].inCase
    <3>1. CASE x = c
      BY <1>2, <1>3, <1>4, <1>9, <3>1
    <3>2. CASE x # c
      <4>1. x \in DOMAIN capabilityCases /\ capabilityCases'[x] = capabilityCases[x]
        BY <1>4, <3>2
      <4>2. x[4] < Today /\ capabilityCases[x].keys = CaseVoids(x) /\ \A k \in capabilityCases[x].keys : probeVoids[k].inCase
        BY <4>1 DEF CaseInv, CasesClosed
      <4>3. CaseVoids(x) \subseteq SettlementKeys
        BY DEF CaseVoids
      <4>4. QED
        BY <1>3, <4>1, <4>2, <4>3
    <3>3. QED
      BY <3>1, <3>2
  <2>2. QED
    BY <1>6, <1>8, <2>1 DEF CasesClosed
<1>14. CasesApart'
  <2>1. ASSUME NEW x \in DOMAIN capabilityCases PROVE capabilityCases[x].keys \cap keys = {}
    BY <1>10 DEF CaseInv, CasesClosed
  <2>2. ASSUME NEW x \in DOMAIN capabilityCases', NEW y \in DOMAIN capabilityCases' \ {x}
        PROVE  capabilityCases'[x].keys \cap capabilityCases'[y].keys = {}
    <3>1. CASE x = c
      <4>1. y \in DOMAIN capabilityCases /\ capabilityCases'[y] = capabilityCases[y]
        BY <1>4, <3>1
      <4>2. QED
        BY <1>4, <2>1, <3>1, <4>1
    <3>2. CASE y = c
      <4>1. x \in DOMAIN capabilityCases /\ capabilityCases'[x] = capabilityCases[x]
        BY <1>4, <3>2
      <4>2. QED
        BY <1>4, <2>1, <3>2, <4>1
    <3>3. CASE x # c /\ y # c
      <4>1. /\ x \in DOMAIN capabilityCases /\ y \in DOMAIN capabilityCases \ {x}
            /\ capabilityCases'[x] = capabilityCases[x] /\ capabilityCases'[y] = capabilityCases[y]
        BY <1>4, <3>3
      <4>2. QED
        BY <4>1 DEF CaseInv, CasesApart
    <3>4. QED
      BY <3>1, <3>2, <3>3
  <2>3. QED
    BY <2>2 DEF CasesApart
<1>15. QED
  BY <1>11, <1>12, <1>13, <1>14 DEF CaseInv

LEMMA CaseInit == Init => CaseInv
<1> SUFFICES ASSUME Init PROVE CaseInv
  OBVIOUS
<1>1. TypeOK
  BY TypeInit
<1>2. DOMAIN capabilityCases = {}
  BY DEF Init
<1>3. \A k \in SettlementKeys : probeVoids[k].hunter = NoOne
  BY DEF Init, NoProbeVoid
<1>4. VoidsCounted
  <2>1. ASSUME NEW h \in Hunters, NEW p \in Providers, NEW d \in Days
        PROVE  hunterProbeVoids[<<h, p, d>>] = Cardinality(VoidsOf(h, p, d))
    <3>1. VoidsOf(h, p, d) = {}
      BY <1>3, BaseAssumption DEF VoidsOf
    <3>2. hunterProbeVoids[<<h, p, d>>] = 0
      BY DEF Init
    <3>3. QED
      BY <3>1, <3>2, FS_EmptySet
  <2>2. QED
    BY <2>1 DEF VoidsCounted
<1>5. QED
  BY <1>1, <1>2, <1>3, <1>4 DEF CaseInv, CasesRequested, VoidsKnown, CasesClosed, CasesApart

LEMMA CaseStays == CaseInv /\ TypeOK' /\ [Next]_vars => CaseInv'
<1> SUFFICES ASSUME CaseInv, TypeOK', [Next]_vars PROVE CaseInv'
  OBVIOUS
<1>1. CasesRequested'
  BY RequestedKept DEF CaseInv
<1>2. \A k \in SettlementKeys : settlements[k].status = "Voided" => settlements'[k] = settlements[k]
  <2>1. SettlesOnce
    BY RecordStep DEF CaseInv
  <2>2. ASSUME NEW k \in SettlementKeys, settlements[k].status = "Voided" PROVE settlements'[k] = settlements[k]
    <3>1. settlements'[k] = [settlements[k] EXCEPT !.status = "Voided"]
      BY <2>1, <2>2 DEF SettlesOnce, Final, RefundedStatuses
    <3>2. settlements[k] \in Settlement
      BY DEF CaseInv, TypeOK
    <3>3. settlements[k] = [settlements[k] EXCEPT !.status = "Voided"]
      BY <2>2, <3>2, SameRecord
    <3>4. QED
      BY <3>1, <3>3
  <2>3. QED
    BY <2>2
<1>3. Today \in Nat /\ Today' \in Nat /\ Today <= Today'
  <2>1. now \in Nat /\ (now' = now \/ now' = now + 1)
    BY ClockStep DEF CaseInv, TypeOK
  <2>2. now \div DAY \in Nat /\ now \div DAY <= (now + 1) \div DAY /\ (now + 1) \div DAY \in Nat
    BY <2>1, BaseAssumption
  <2>3. QED
    BY <2>1, <2>2 DEF Today
<1> DEFINE SameCases == /\ DOMAIN capabilityCases' = DOMAIN capabilityCases
                        /\ \A c \in DOMAIN capabilityCases : capabilityCases'[c].keys = capabilityCases[c].keys
<1>4. ASSUME UNCHANGED <<probeVoids, hunterProbeVoids>>, SameCases PROVE CaseInv'
  BY <1>1, <1>2, <1>3, <1>4, CasesRest
<1>5. UNCHANGED capabilityCases => SameCases
  OBVIOUS
<1> HIDE DEF SameCases
<1>6. CASE NextFunds \/ Tick \/ UNCHANGED vars
  <2>1. UNCHANGED <<probeVoids, hunterProbeVoids, capabilityCases>>
    BY <1>6
    DEF NextFunds, Tick, vars, setParams, setProbeMaxFee, setOracle, requestWithdrawal, cancelWithdrawal, caseVars,
        probeVars, setKeyBudget, revokeKey, registerKey, authorizeProviderSigner, authorizeRelaySigner,
        revokeProviderSigner, revokeRelaySigner, commitProbes, OnlyGrants, OnlySigners, deposit, withdraw, claim,
        reserveForOracle, releaseOracleReserve, releaseHoldback, OnlyLedger
  <2>2. QED
    BY <1>4, <1>5, <2>1
<1>7. CASE NextReceipts
  <2>1. ASSUME NEW k \in SettlementKeys, NEW e \in Commitments, voidProbe(k, e) PROVE CaseInv'
    BY <1>1, <2>1, VoidCounted
  <2>2. ASSUME ~(\E k \in SettlementKeys, e \in Commitments : voidProbe(k, e))
        PROVE  UNCHANGED <<probeVoids, hunterProbeVoids, capabilityCases>>
    BY <1>7, <2>2
    DEF NextReceipts, settle, settleOracle, release, markReleased, releaseBatch, payReleasedItem, finishBatch,
        caseVars, probeVars
  <2>3. QED
    BY <1>4, <1>5, <2>1, <2>2
<1>8. CASE NextDisputes
  <2>1. ASSUME NEW c \in CaseIds, NEW keys \in SUBSET {k \in SettlementKeys : inRange(k, c)},
               openCapabilityCase(c, keys)
        PROVE  CaseInv'
    BY <1>1, <2>1, CaseOpened
  <2>2. ASSUME NEW c \in CaseIds, NEW judges, NEW confirmed, voteCapabilityCase(c, judges, confirmed) PROVE CaseInv'
    <3>1. c \in DOMAIN capabilityCases /\ capabilityCases[c] \in CapabilityCase
      BY <2>2 DEF voteCapabilityCase, Opened, CaseInv, TypeOK
    <3> DEFINE taken  == holdbackTaken([ledger EXCEPT !.totalReporterBonds = @ - capabilityCases[c].bond], c[2],
                                       settings.slashCap)
               bounty == Portion(taken, settings.reporterBountyBps)
    <3>2. \/ capabilityCases' = [capabilityCases EXCEPT ![c] =
                                   [@ EXCEPT !.status = "Confirmed", !.penalty = taken, !.bounty = bounty]]
          \/ capabilityCases' = [capabilityCases EXCEPT ![c].status = "Dismissed"]
      BY <2>2 DEF voteCapabilityCase
    <3> HIDE DEF taken, bounty
    <3>2a. SameCases
      <4>1. CASE capabilityCases' = [capabilityCases EXCEPT ![c].status = "Dismissed"]
        BY <3>1, <4>1 DEF SameCases, CapabilityCase
      <4>2. CASE capabilityCases' = [capabilityCases EXCEPT ![c] =
                                       [@ EXCEPT !.status = "Confirmed", !.penalty = taken, !.bounty = bounty]]
        <5> DEFINE item == [capabilityCases[c] EXCEPT !.status = "Confirmed", !.penalty = taken, !.bounty = bounty]
        <5>1. item.keys = capabilityCases[c].keys
          BY <3>1 DEF CapabilityCase
        <5>2. capabilityCases' = [capabilityCases EXCEPT ![c] = item]
          BY <4>2
        <5> HIDE DEF item
        <5>3. QED
          BY <3>1, <5>1, <5>2 DEF SameCases
      <4>3. QED
        BY <3>2, <4>1, <4>2
    <3>3. QED
      BY <1>4, <2>2, <3>2a DEF voteCapabilityCase, OnlyCases, probeVars
  <2>3. ASSUME NEW c \in CaseIds, resolveTimedOutCapabilityCase(c) PROVE CaseInv'
    <3>1. c \in DOMAIN capabilityCases /\ capabilityCases[c] \in CapabilityCase
          /\ capabilityCases' = [capabilityCases EXCEPT ![c].status = "TimedOut"]
      BY <2>3 DEF resolveTimedOutCapabilityCase, Opened, CaseInv, TypeOK
    <3>2. SameCases
      BY <3>1 DEF SameCases, CapabilityCase
    <3>3. QED
      BY <1>4, <2>3, <3>2 DEF resolveTimedOutCapabilityCase, OnlyCases, probeVars
  <2>4. ASSUME UNCHANGED <<probeVars, capabilityCases>> PROVE CaseInv'
    BY <1>4, <1>5, <2>4 DEF probeVars
  <2>5. QED
    BY <1>8, <2>1, <2>2, <2>3, <2>4
    DEF NextDisputes, openDispute, confirmDispute, dismissDispute, claimDisputeBond, resolveTimedOutDispute,
        finalizeJury, caseVars
<1>9. QED
  BY <1>6, <1>7, <1>8 DEF Next

\* A capability case lists every void of its hunter on its Provider in its days and keeps that list for ever, and no
\* probe is in two cases: counting the hunter's voids per day (hunterProbeVoids) is enough to tell that none is left
\* out, since a day that is over gains no more.
THEOREM CasesWhole == Spec => []CasesComplete
<1>1. Init => CaseInv
  BY CaseInit
<1>2. CaseInv /\ TypeOK' /\ [Next]_vars => CaseInv'
  BY CaseStays
<1>3. CaseInv => CasesComplete
  BY DEF CaseInv, CasesClosed, CasesApart, CaseVoids, CasesComplete
<1>4. QED
  BY <1>1, <1>2, <1>3, TypeCorrect, PTL DEF Spec

-----------------------------------------------------------------------------
(* Budgets: what a key has spent *)

\* What receipt k with record r costs key, if it is the key's and was not refunded.
Owing(k, r, key) == IF k[1] = key /\ r.status \notin RefundedStatuses \cup {"None"} THEN r.fee ELSE 0
Owed(key) == SumFunctionOnSet([k \in SettlementKeys |-> Owing(k, settlements[k], key)], SettlementKeys)

BudgetExact == \A key \in Keys : Of(key) \subseteq charged => keyBudgets[key].spent = Owed(key)
ChargedKnown == \A k \in charged : k \in SettlementKeys /\ settlements[k].status # "None"
HistoryInv == TypeOK /\ BudgetExact /\ ChargedKnown

\* The receipts a step charges to a budget.
Charges == {k \in SettlementKeys : /\ settlements[k].status = "None" /\ settlements'[k].status # "None"
                                   /\ k[1] \in Keys /\ keyBudgets[k[1]].limit # 0}

LEMMA OwingNat == ASSUME NEW k, NEW r \in Settlement, NEW key PROVE Owing(k, r, key) \in Nat
BY DEF Owing, Settlement

LEMMA OwedMoves ==
  ASSUME TypeOK, NEW k \in SettlementKeys, NEW r \in Settlement, settlements' = [settlements EXCEPT ![k] = r], NEW key
  PROVE  /\ Owed(key)' = Owed(key) - Owing(k, settlements[k], key) + Owing(k, r, key)
         /\ Owed(key) \in Nat /\ Owing(k, settlements[k], key) <= Owed(key)
<1> DEFINE f == [x \in SettlementKeys |-> Owing(x, settlements[x], key)]
           g == [x \in SettlementKeys |-> Owing(x, settlements'[x], key)]
<1>1. settlements \in [SettlementKeys -> Settlement]
  BY DEF TypeOK
<1>2. settlements' \in [SettlementKeys -> Settlement]
  BY <1>1
<1>3. /\ \A x \in SettlementKeys : f[x] \in Nat /\ g[x] \in Nat
      /\ \A x \in SettlementKeys \ {k} : g[x] = f[x]
      /\ f[k] = Owing(k, settlements[k], key) /\ g[k] = Owing(k, r, key)
  BY <1>1, <1>2, OwingNat
<1>4. Owed(key)' = SumFunctionOnSet(g, SettlementKeys) /\ Owed(key) = SumFunctionOnSet(f, SettlementKeys)
  BY DEF Owed
<1> HIDE DEF f, g
<1>5. \A x \in SettlementKeys : f[x] \in Int /\ g[x] \in Int
  BY <1>3
<1>6. SumFunctionOnSet(g, SettlementKeys) = SumFunctionOnSet(f, SettlementKeys) - f[k] + g[k]
  BY <1>3, <1>5, FiniteKeys, SumChange
<1>7. SumFunctionOnSet(f, SettlementKeys) \in Nat /\ f[k] <= SumFunctionOnSet(f, SettlementKeys)
  BY <1>3, FiniteKeys, SumNat, SumBounds
<1>8. QED
  BY <1>3, <1>4, <1>6, <1>7

\* A step that settles no receipt charges none.
LEMMA NoneCharged ==
  ASSUME ChargedKnown, charged' = charged \cup Charges,
         \A k \in SettlementKeys : settlements'[k].status = "None" <=> settlements[k].status = "None"
  PROVE  charged' = charged /\ ChargedKnown' /\ \A key : Of(key)' = Of(key)
<1>1. Charges = {}
  BY DEF Charges
<1>2. charged' = charged
  BY <1>1
<1>3. QED
  BY <1>2 DEF ChargedKnown, Of

\* Nothing is spent, and no receipt's cost changes.
LEMMA BudgetRests ==
  ASSUME HistoryInv, charged' = charged \cup Charges,
         \A key \in Keys : keyBudgets'[key].spent = keyBudgets[key].spent,
         \A k \in SettlementKeys : /\ settlements'[k].status = "None" <=> settlements[k].status = "None"
                                   /\ settlements'[k].fee = settlements[k].fee
                                   /\ settlements'[k].status \in RefundedStatuses <=> settlements[k].status \in RefundedStatuses
  PROVE  BudgetExact' /\ ChargedKnown'
<1>1. charged' = charged /\ ChargedKnown' /\ \A key : Of(key)' = Of(key)
  BY NoneCharged DEF HistoryInv
<1>2. ASSUME NEW key PROVE Owed(key)' = Owed(key)
  <2>1. \A k \in SettlementKeys : Owing(k, settlements'[k], key) = Owing(k, settlements[k], key)
    BY DEF Owing
  <2>2. QED
    BY <2>1 DEF Owed
<1>3. QED
  BY <1>1, <1>2 DEF HistoryInv, BudgetExact

\* A refund gives the fee back to the budget it was charged to.
LEMMA BudgetRefunded ==
  ASSUME HistoryInv, charged' = charged \cup Charges, NEW k \in SettlementKeys, NEW status \in RefundedStatuses,
         settlements[k].status \in OpenStatuses, settlements' = [settlements EXCEPT ![k].status = status],
         keyBudgets' = refundBudget(k[1], settlements[k])
  PROVE  BudgetExact' /\ ChargedKnown'
<1> DEFINE old == settlements[k]
           r   == [old EXCEPT !.status = status]
<1>1. settlements \in [SettlementKeys -> Settlement] /\ old \in Settlement /\ status \in Statuses
  BY DEF HistoryInv, TypeOK, RefundedStatuses, Statuses
<1>2. r \in Settlement /\ r.status = status /\ r.fee = old.fee /\ old.fee \in Nat
  BY <1>1 DEF Settlement
<1>3. settlements' = [settlements EXCEPT ![k] = r]
  BY <1>1
<1>4. old.status # "None" /\ old.status \notin RefundedStatuses /\ status # "None"
  BY DEF OpenStatuses, RefundedStatuses
<1> HIDE DEF r
<1>5. charged' = charged /\ ChargedKnown' /\ \A key : Of(key)' = Of(key)
  <2>1. \A x \in SettlementKeys : settlements'[x].status = "None" <=> settlements[x].status = "None"
    BY <1>1, <1>2, <1>3, <1>4
  <2>2. QED
    BY <2>1, NoneCharged DEF HistoryInv
<1>6. ASSUME NEW key \in Keys, Of(key) \subseteq charged PROVE keyBudgets'[key].spent = Owed(key)'
  <2>1. keyBudgets[key].spent = Owed(key) /\ keyBudgets \in [Keys -> [limit: Nat, spent: Nat]]
    BY <1>6 DEF HistoryInv, BudgetExact, TypeOK
  <2>2. /\ Owed(key)' = Owed(key) - Owing(k, old, key) + Owing(k, r, key)
        /\ Owed(key) \in Nat /\ Owing(k, old, key) <= Owed(key)
    BY <1>2, <1>3, OwedMoves DEF HistoryInv
  <2>3. Owing(k, r, key) = 0
    BY <1>2 DEF Owing
  <2>4. CASE k[1] = key
    <3>1. Owing(k, old, key) = old.fee
      BY <1>4, <2>4 DEF Owing
    <3>2. keyBudgets' = [keyBudgets EXCEPT ![key].spent = @ - old.fee]
      BY <1>2, <2>1, <2>2, <2>4, <3>1 DEF refundBudget
    <3>3. keyBudgets'[key].spent = keyBudgets[key].spent - old.fee
      BY <2>1, <3>2
    <3> HIDE DEF old
    <3>4. QED
      BY <1>2, <2>1, <2>2, <2>3, <3>1, <3>3
  <2>5. CASE k[1] # key
    <3>1. Owing(k, old, key) = 0
      BY <2>5 DEF Owing
    <3>2. keyBudgets'[key].spent = keyBudgets[key].spent
      BY <2>1, <2>5 DEF refundBudget
    <3> HIDE DEF old
    <3>3. QED
      BY <2>1, <2>2, <2>3, <3>1, <3>2
  <2>6. QED
    BY <2>4, <2>5
<1>7. QED
  BY <1>5, <1>6 DEF BudgetExact

\* A receipt that settles is charged to its key's budget, if the key has one.
LEMMA BudgetCharged ==
  ASSUME HistoryInv, charged' = charged \cup Charges, NEW k \in SettlementKeys, NEW r \in Settlement,
         settlements[k].status = "None", settlements' = [settlements EXCEPT ![k] = r], r.status = "Pending",
         \A key \in Keys : keyBudgets'[key].spent =
           IF key = k[1] /\ keyBudgets[key].limit # 0 THEN keyBudgets[key].spent + r.fee ELSE keyBudgets[key].spent
  PROVE  BudgetExact' /\ ChargedKnown'
<1>1. settlements \in [SettlementKeys -> Settlement] /\ keyBudgets \in [Keys -> [limit: Nat, spent: Nat]]
  BY DEF HistoryInv, TypeOK
<1>2. settlements'[k] = r /\ \A x \in SettlementKeys \ {k} : settlements'[x] = settlements[x]
  BY <1>1
<1>3. Charges = IF k[1] \in Keys /\ keyBudgets[k[1]].limit # 0 THEN {k} ELSE {}
  BY <1>2 DEF Charges
<1>4. k \notin charged
  BY DEF HistoryInv, ChargedKnown
<1>5. ChargedKnown'
  BY <1>2, <1>3 DEF HistoryInv, ChargedKnown
<1>6. ASSUME NEW key \in Keys, Of(key)' \subseteq charged' PROVE keyBudgets'[key].spent = Owed(key)'
  <2>1. /\ Owed(key)' = Owed(key) - Owing(k, settlements[k], key) + Owing(k, r, key) /\ Owed(key) \in Nat
    BY OwedMoves DEF HistoryInv
  <2>2. Owing(k, settlements[k], key) = 0 /\ r.fee \in Nat
    BY DEF Owing, Settlement
  <2>3. Of(key) \subseteq Of(key)' /\ k \notin Of(key)
    BY <1>2 DEF Of
  <2>4. Of(key) \subseteq charged
    BY <1>3, <1>6, <2>3
  <2>5. keyBudgets[key].spent = Owed(key)
    BY <2>4 DEF HistoryInv, BudgetExact
  <2>6. CASE k[1] = key
    <3>1. k \in Of(key)'
      BY <1>2, <2>6 DEF Of
    <3>2. keyBudgets[key].limit # 0
      BY <1>3, <1>4, <1>6, <2>6, <3>1
    <3>3. Owing(k, r, key) = r.fee
      BY <2>6 DEF Owing, RefundedStatuses
    <3>4. keyBudgets'[key].spent = keyBudgets[key].spent + r.fee
      BY <2>6, <3>2
    <3>5. QED
      BY <2>1, <2>2, <2>5, <3>3, <3>4
  <2>7. CASE k[1] # key
    <3>1. Owing(k, r, key) = 0 /\ keyBudgets'[key].spent = keyBudgets[key].spent
      BY <2>7 DEF Owing
    <3>2. QED
      BY <2>1, <2>2, <2>5, <3>1
  <2>8. QED
    BY <2>6, <2>7
<1>7. QED
  BY <1>5, <1>6 DEF BudgetExact

LEMMA HistoryStays ==
  ASSUME HistoryInv, TypeOK', Next, charged' = charged \cup Charges
  PROVE  BudgetExact' /\ ChargedKnown'
<1> USE DEF HistoryInv
<1>1. settlements \in [SettlementKeys -> Settlement] /\ keyBudgets \in [Keys -> [limit: Nat, spent: Nat]]
  BY DEF TypeOK
<1>2. ASSUME UNCHANGED settlements, \A key \in Keys : keyBudgets'[key].spent = keyBudgets[key].spent
      PROVE  BudgetExact' /\ ChargedKnown'
  BY <1>2, BudgetRests
<1>3. ASSUME NEW k \in SettlementKeys, NEW status \in Statuses \ (RefundedStatuses \cup {"None"}),
             settlements' = [settlements EXCEPT ![k].status = status], settlements[k].status \in OpenStatuses,
             UNCHANGED keyBudgets
      PROVE  BudgetExact' /\ ChargedKnown'
  <2>1. settlements'[k].status = status /\ settlements'[k].fee = settlements[k].fee
    BY <1>1, <1>3 DEF Settlement
  <2>2. \A x \in SettlementKeys \ {k} : settlements'[x] = settlements[x]
    BY <1>1, <1>3
  <2>3. settlements[k].status \notin RefundedStatuses \cup {"None"}
    BY <1>3 DEF OpenStatuses, RefundedStatuses
  <2>4. \A x \in SettlementKeys :
          /\ settlements'[x].status = "None" <=> settlements[x].status = "None"
          /\ settlements'[x].fee = settlements[x].fee
          /\ settlements'[x].status \in RefundedStatuses <=> settlements[x].status \in RefundedStatuses
    BY <1>3, <2>1, <2>2, <2>3
  <2>5. QED
    BY <1>3, <2>4, BudgetRests
<1>4. ASSUME NEW l, NEW o \in Consumers, NEW key \in Keys \cup Oracles, NEW a \in Authorizations, escrow(l, o, key, a),
             \A x \in Keys : keyBudgets'[x].spent =
               IF x = key /\ keyBudgets[x].limit # 0 THEN keyBudgets[x].spent + actualFee(a) ELSE keyBudgets[x].spent
      PROVE  BudgetExact' /\ ChargedKnown'
  <2> DEFINE k == <<key, a.id>>
             r == [owner |-> o, provider |-> providerSignerOwner[a.providerSigner],
                   relay |-> relaySignerOwner[a.relaySigner], providerSigner |-> a.providerSigner,
                   relaySigner |-> a.relaySigner, fee |-> actualFee(a), issuedAt |-> a.issuedAt,
                   releaseAt |-> now + settings.disputeWindow, status |-> "Pending"]
  <2>1. settlements' = [settlements EXCEPT ![k] = r] /\ settlements[k].status = "None"
    BY <1>4 DEF escrow
  <2>2. k \in SettlementKeys /\ k[1] = key
    BY <1>4, FeeNat, BaseAssumption DEF TypeOK, SettlementKeys
  <2>3. r.status = "Pending" /\ r.fee = actualFee(a)
    OBVIOUS
  <2> HIDE DEF k, r
  <2>4. r \in Settlement
    BY <1>1, <2>1, <2>2 DEF TypeOK
  <2>5. QED
    BY <1>4, <2>1, <2>2, <2>3, <2>4, BudgetCharged
<1>5. CASE NextFunds \/ Tick
  <2>1. ASSUME NEW o, NEW key \in Keys, NEW limit, setKeyBudget(o, key, limit) PROVE BudgetExact' /\ ChargedKnown'
    <3>1. UNCHANGED settlements /\ keyBudgets' = [keyBudgets EXCEPT ![key].limit = limit]
      BY <2>1 DEF setKeyBudget, OnlyGrants
    <3>2. \A x \in Keys : keyBudgets'[x].spent = keyBudgets[x].spent
      BY <1>1, <3>1
    <3>3. QED
      BY <1>2, <3>1, <3>2
  <2>2. ASSUME ~(\E o \in Consumers, key \in Keys, limit \in BudgetLimits : setKeyBudget(o, key, limit))
        PROVE  UNCHANGED <<settlements, keyBudgets>>
    BY <1>5, <2>2
    DEF NextFunds, Tick, setParams, setProbeMaxFee, setOracle, requestWithdrawal, cancelWithdrawal, grantVars,
        revokeKey, registerKey, authorizeProviderSigner, authorizeRelaySigner,
        revokeProviderSigner, revokeRelaySigner, commitProbes, OnlyGrants, OnlySigners, deposit, withdraw, claim,
        reserveForOracle, releaseOracleReserve, releaseHoldback, OnlyLedger
  <2>3. QED
    BY <1>2, <2>1, <2>2
<1>6. CASE NextReceipts
  <2>1. ASSUME NEW key \in Keys, NEW a \in Authorizations, settle(key, a) PROVE BudgetExact' /\ ChargedKnown'
    <3> DEFINE owner == keyGrants[key].owner
               fee == actualFee(a)
    <3>1. owner \in Consumers
      BY <2>1 DEF settle, TypeOK, KeyGrant
    <3>2. escrow([ledger EXCEPT !.available[owner] = @ - fee, !.totalAvailable = @ - fee], owner, key, a)
      BY <2>1 DEF settle
    <3>3. keyBudgets' = IF keyBudgets[key].limit # 0 THEN [keyBudgets EXCEPT ![key].spent = @ + fee] ELSE keyBudgets
      BY <2>1 DEF settle
    <3> HIDE DEF fee, owner
    <3>4. \A x \in Keys : keyBudgets'[x].spent =
            IF x = key /\ keyBudgets[x].limit # 0 THEN keyBudgets[x].spent + fee ELSE keyBudgets[x].spent
      BY <1>1, <3>3
    <3>5. QED
      BY <1>4, <3>1, <3>2, <3>4 DEF fee
  <2>2. ASSUME NEW o \in Consumers, NEW d, NEW a \in Authorizations, settleOracle(o, d, a)
        PROVE  BudgetExact' /\ ChargedKnown'
    <3> DEFINE fee == actualFee(a)
    <3>1. oracle \in Oracles /\ oracle \notin Keys
      BY <2>2, HistoryAssumption DEF settleOracle, TypeOK
    <3>2. escrow([ledger EXCEPT !.reserved[o] = @ - fee, !.totalAvailable = @ - fee], o, oracle, a) /\ UNCHANGED keyBudgets
      BY <2>2 DEF settleOracle, grantVars
    <3> HIDE DEF fee
    <3>3. QED
      BY <1>4, <3>1, <3>2
  <2>3. ASSUME NEW k \in SettlementKeys, release(k) \/ markReleased(k) PROVE BudgetExact' /\ ChargedKnown'
    <3>1. settlements[k].status = "Pending"
      BY <2>3 DEF release, Due, markReleased, TypeOK, BatchKnown
    <3>2. settlements' = [settlements EXCEPT ![k].status = "Released"] /\ UNCHANGED keyBudgets
      BY <2>3 DEF release, markReleased, grantVars
    <3>3. QED
      BY <1>3, <3>1, <3>2 DEF OpenStatuses, RefundedStatuses, Statuses
  <2>4. ASSUME NEW k \in SettlementKeys, NEW c, voidProbe(k, c) PROVE BudgetExact' /\ ChargedKnown'
    <3>1. /\ settlements[k].status = "Pending" /\ settlements' = [settlements EXCEPT ![k].status = "Voided"]
          /\ keyBudgets' = refundBudget(k[1], settlements[k])
      BY <2>4 DEF voidProbe
    <3>2. QED
      BY <3>1, BudgetRefunded DEF OpenStatuses, RefundedStatuses
  <2>5. ASSUME UNCHANGED <<settlements, keyBudgets>> PROVE BudgetExact' /\ ChargedKnown'
    BY <1>2, <2>5
  <2>6. QED
    BY <1>6, <2>1, <2>2, <2>3, <2>4, <2>5 DEF NextReceipts, releaseBatch, payReleasedItem, finishBatch, grantVars
<1>7. CASE NextDisputes
  <2>1. ASSUME NEW k \in SettlementKeys, NEW sender, openDispute(k, sender) PROVE BudgetExact' /\ ChargedKnown'
    BY <1>3, <2>1 DEF openDispute, grantVars, OpenStatuses, RefundedStatuses, Statuses
  <2>2. ASSUME NEW k \in SettlementKeys, NEW judges, confirmDispute(k, judges) PROVE BudgetExact' /\ ChargedKnown'
    <3>1. /\ settlements[k].status = "Disputed" /\ settlements' = [settlements EXCEPT ![k].status = "Confirmed"]
          /\ keyBudgets' = refundBudget(k[1], settlements[k])
      BY <2>2 DEF confirmDispute, votable
    <3>2. QED
      BY <3>1, BudgetRefunded DEF OpenStatuses, RefundedStatuses
  <2>3. ASSUME NEW k \in SettlementKeys, NEW judges, dismissDispute(k, judges) PROVE BudgetExact' /\ ChargedKnown'
    BY <1>3, <2>3 DEF dismissDispute, votable, grantVars, OpenStatuses, RefundedStatuses, Statuses
  <2>4. ASSUME NEW k \in SettlementKeys, resolveTimedOutDispute(k) PROVE BudgetExact' /\ ChargedKnown'
    <3>1. CASE /\ settlements' = [settlements EXCEPT ![k].status = "JuryUnavailable"]
               /\ keyBudgets' = refundBudget(k[1], settlements[k])
      BY <2>4, <3>1, BudgetRefunded DEF resolveTimedOutDispute, OpenStatuses, RefundedStatuses
    <3>2. CASE settlements' = [settlements EXCEPT ![k].status = "TimedOut"] /\ UNCHANGED keyBudgets
      BY <1>3, <2>4, <3>2 DEF resolveTimedOutDispute, OpenStatuses, RefundedStatuses, Statuses
    <3>3. QED
      BY <2>4, <3>1, <3>2 DEF resolveTimedOutDispute
  <2>5. ASSUME UNCHANGED <<settlements, grantVars>> PROVE BudgetExact' /\ ChargedKnown'
    BY <1>2, <2>5 DEF grantVars
  <2>6. QED
    BY <1>7, <2>1, <2>2, <2>3, <2>4, <2>5
    DEF NextDisputes, claimDisputeBond, openCapabilityCase, voteCapabilityCase, resolveTimedOutCapabilityCase,
        OnlyCases, finalizeJury
<1>8. QED
  BY <1>5, <1>6, <1>7 DEF Next

LEMMA OwedIsUnrefunded == ASSUME TypeOK, NEW key PROVE Unrefunded(Of(key)) = Owed(key)
<1> DEFINE f == [k \in SettlementKeys |-> settlements[k].fee]
           T == {k \in Of(key) : settlements[k].status \notin RefundedStatuses}
           cut == [k \in SettlementKeys |-> IF k \in T THEN f[k] ELSE 0]
           owing == [k \in SettlementKeys |-> Owing(k, settlements[k], key)]
<1>1. Unrefunded(Of(key)) = SumFunctionOnSet(f, T) /\ Owed(key) = SumFunctionOnSet(owing, SettlementKeys)
  BY DEF Unrefunded, Fees, Owed
<1>2. T \in SUBSET SettlementKeys /\ \A k \in T : f[k] \in Int
  BY DEF TypeOK, Settlement, Of
<1>3. \A k \in SettlementKeys : cut[k] = owing[k]
  BY DEF Owing, Of
<1> HIDE DEF f, T, owing
<1>4. SumFunctionOnSet(f, T) = SumFunctionOnSet(cut, SettlementKeys)
  BY <1>2, FiniteKeys, SumOnSubset
<1> HIDE DEF cut
<1>5. SumFunctionOnSet(cut, SettlementKeys) = SumFunctionOnSet(owing, SettlementKeys)
  BY <1>3, FiniteKeys, SumSame
<1>6. QED
  BY <1>1, <1>4, <1>5

LEMMA HistoryInit == HInit => HistoryInv
<1> SUFFICES ASSUME HInit PROVE HistoryInv
  OBVIOUS
<1>1. TypeOK /\ charged = {}
  BY TypeInit DEF HInit
<1>2. ASSUME NEW key \in Keys PROVE keyBudgets[key].spent = Owed(key)
  <2> DEFINE f == [k \in SettlementKeys |-> Owing(k, settlements[k], key)]
  <2>1. \A k \in SettlementKeys : f[k] = 0
    BY DEF HInit, Init, NoSettlement, Owing
  <2>2. Owed(key) = SumFunctionOnSet(f, SettlementKeys)
    BY DEF Owed
  <2> HIDE DEF f
  <2>3. Owed(key) = 0
    BY <2>1, <2>2, FiniteKeys, SumZero
  <2>4. keyBudgets[key].spent = 0
    BY DEF HInit, Init
  <2>5. QED
    BY <2>3, <2>4
<1>3. QED
  BY <1>1, <1>2 DEF HistoryInv, BudgetExact, ChargedKnown

\* What a budgeted key has spent is the sum of its receipts that were not refunded, if it had a budget when each of
\* them settled: no refund is forgotten or given twice, whatever order receipts settle, end and limits change in.
THEOREM BudgetsTrackFees == HSpec => []BudgetTracksFees
<1>1. HInit => HistoryInv
  BY HistoryInit
<1>2. HistoryInv /\ TypeOK' /\ [HNext]_<<vars, history>> => HistoryInv'
  <2> SUFFICES ASSUME HistoryInv, TypeOK', [HNext]_<<vars, history>> PROVE HistoryInv'
    OBVIOUS
  <2>1. CASE HNext
    <3>1. Next /\ charged' = charged \cup Charges
      BY <2>1 DEF HNext, Charges
    <3>2. QED
      BY <3>1, HistoryStays DEF HistoryInv
  <2>2. CASE UNCHANGED <<vars, history>>
    <3>1. UNCHANGED <<settlements, keyBudgets, charged>>
      BY <2>2 DEF vars, grantVars, history
    <3>2. BudgetExact' /\ ChargedKnown'
      BY <3>1 DEF HistoryInv, BudgetExact, ChargedKnown, Of, Owed, Owing
    <3>3. QED
      BY <3>2 DEF HistoryInv
  <2>3. QED
    BY <2>1, <2>2
<1>3. HistoryInv => BudgetTracksFees
  BY OwedIsUnrefunded DEF HistoryInv, BudgetExact, BudgetTracksFees
<1>4. HInit => Init
  BY DEF HInit
<1>5. [HNext]_<<vars, history>> => [Next]_vars
  BY DEF HNext, vars, history
<1>6. HSpec => Spec
  BY <1>4, <1>5, PTL DEF HSpec, Spec
<1>7. QED
  BY <1>1, <1>2, <1>3, <1>6, TypeCorrect, PTL DEF HSpec

=============================================================================
