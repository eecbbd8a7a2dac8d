---------------------------- MODULE HunterProofs ----------------------------
(***************************************************************************)
(* Proofs about ProbeRunner, for any number of Providers, probes, batches, *)
(* other hunters and restarts: a batch whose owner was shown is not used,  *)
(* what is to be voided fits in a day's allowance, and who looks bad is    *)
(* suspended.                                                              *)
(***************************************************************************)
EXTENDS ProbeRunner, FiniteSetTheorems, SequenceTheorems, WellFoundedInduction, TLAPS

Shown == {"voided", "disputed"}
Grades == {"none", "pass", "wrong", "unrelated"}
Probe ==
  [batch : Nat, provider : Providers, grade : Grades,
   state : {"sent", "lost", "answered", "missed", "disputed", "paid", "voided"}, void_day : Nat, in_case : BOOLEAN,
   chain : {"none", "queued", "pending", "released"} \cup Shown, chain_day : Nat, chain_case : BOOLEAN]
Batch == [state : {"open", "flushed"}, unused : Int]
Pcs == {"idle", "sent", "flush", "flushed", "cases"}
Flushing == pc \in {"flush", "flushed"}

Typed ==
  /\ day \in Nat /\ others \in [Providers -> Nat] /\ pc \in Pcs
  /\ batches \in Seq(Batch) /\ probes \in Seq(Probe)

\* One probe is under way, while the loop waits for it: the last, of a batch whose owner nobody has seen.
Sending ==
  /\ pc = "sent" => Len(probes) # 0 /\ probes[Len(probes)].state = "sent"
  /\ \A k \in Ids : probes[k].state = "sent" =>
       pc = "sent" /\ k = Len(probes) /\ batches[probes[k].batch].state = "open"

\* The loop leaves nothing over.  What it flushes was answered, with a key of a batch that is flushed.
Flushed(k) == k \in Ids /\ probes[k].state = "answered" /\ batches[probes[k].batch].state = "flushed"
Working ==
  /\ pc \in {"idle", "sent"} => work = {}
  /\ Flushing => \A k \in work : Flushed(k)

\* What was shown is of batches that were flushed; and a void is of a day that has come.
ShownFlushed ==
  \A k \in Ids :
    /\ probes[k].batch \in DOMAIN batches
    /\ probes[k].chain \in Shown => batches[probes[k].batch].state = "flushed"
    /\ probes[k].chain = "voided" => probes[k].chain_day <= day

\* Probes that wait to be voided, or were today; while one is sent, there is room for it.
Counted(k) == probes[k].state = "answered" \/ (probes[k].chain = "voided" /\ probes[k].chain_day = day)
Count(p) == {k \in Ids : probes[k].provider = p /\ Counted(k)}
Sent(p) == pc = "sent" /\ probes[Len(probes)].provider = p
Allowance ==
  \A p \in Providers :
    /\ Cardinality(Count(p)) <= voids_per_day
    /\ Sent(p) => Cardinality(Count(p)) < voids_per_day

HunterInv == Typed /\ Sending /\ Working /\ ShownFlushed /\ Allowance

-----------------------------------------------------------------------------
(* Numbers and rows *)

\* A set of numbers has a least one.
LEMMA MinIn == ASSUME NEW S \in SUBSET Nat, S # {} PROVE Min(S) \in S
<1> DEFINE R == OpToRel(<, Nat)
<1>1. IsWellFoundedOn(R, Nat)
  BY NatLessThanWellFounded
<1>2. \A x, y \in Nat : <<x, y>> \in R <=> x < y
  BY DEF OpToRel
<1> HIDE DEF R
<1>3. PICK x \in S : \A y \in S : ~(<<y, x>> \in R)
  BY <1>1, WFMin
<1>4. ASSUME NEW y \in S PROVE x <= y
  <2>1. x \in Nat /\ y \in Nat
    OBVIOUS
  <2>2. ~(y < x)
    BY <1>2, <1>3, <2>1
  <2> QED
    BY <2>1, <2>2
<1> QED
  BY <1>4 DEF Min

LEMMA SameLength ==
  ASSUME NEW S, NEW s \in Seq(S), NEW f, DOMAIN f = DOMAIN s, f = [k \in DOMAIN s |-> f[k]], \A k \in DOMAIN s : f[k] \in S
  PROVE  f \in Seq(S) /\ Len(f) = Len(s)
<1>1. DOMAIN s = 1 .. Len(s) /\ Len(s) \in Nat
  OBVIOUS
<1>2. f \in [1 .. Len(s) -> S]
  BY <1>1
<1>3. f \in Seq(S)
  BY <1>1, <1>2, SeqDef
<1> QED
  BY <1>1, <1>3

LEMMA Finite == ASSUME Typed, NEW S \in SUBSET Ids PROVE IsFiniteSet(S) /\ Cardinality(S) \in Nat
<1>1. Ids = 1 .. Len(probes) /\ Len(probes) \in Int /\ 1 \in Int
  BY DEF Typed, Ids
<1>2. IsFiniteSet(Ids)
  BY <1>1, FS_Interval
<1> QED
  BY <1>2, FS_Subset, FS_CardinalityType

LEMMA Smaller == ASSUME Typed, NEW T \in SUBSET Ids, NEW S \in SUBSET T PROVE Cardinality(S) <= Cardinality(T)
<1>1. IsFiniteSet(T)
  BY Finite
<1> QED
  BY <1>1, FS_Subset

LEMMA OneMore ==
  ASSUME Typed, NEW T \in SUBSET Ids, NEW k \in Ids, NEW S \in SUBSET (T \cup {k})
  PROVE  Cardinality(S) <= Cardinality(T) + 1
<1>1. T \cup {k} \in SUBSET Ids
  OBVIOUS
<1>2. Cardinality(S) <= Cardinality(T \cup {k})
  BY <1>1, Smaller
<1>3. IsFiniteSet(T) /\ Cardinality(T) \in Nat /\ Cardinality(S) \in Nat /\ Cardinality(T \cup {k}) \in Nat
  BY <1>1, Finite
<1>4. Cardinality(T \cup {k}) \in {Cardinality(T), Cardinality(T) + 1}
  BY <1>3, FS_AddElement
<1> QED
  BY <1>2, <1>3, <1>4

LEMMA GradeTyped == \A task, answer : grade_task(task, answer) \in Grades \ {"none"}
BY DEF grade_task, grade_capability, grade_probe, Grades

-----------------------------------------------------------------------------
(* Rows change *)

\* What is counted of a Provider grows by no more than the probe that was sent.
LEMMA AllowanceKeeps ==
  ASSUME HunterInv, Ids \subseteq Ids',
         \A k \in Ids' : Counted(k)' => k \in Ids /\ (Counted(k) \/ (k = Len(probes) /\ pc = "sent" /\ pc' # "sent")),
         \A k \in Ids : probes'[k].provider = probes[k].provider,
         \A p \in Providers : Sent(p)' => Sent(p) \/ Cardinality(Count(p)) < voids_per_day
  PROVE  Allowance'
<1>1. Typed
  BY DEF HunterInv
<1>2. SUFFICES ASSUME NEW p \in Providers
               PROVE  /\ Cardinality(Count(p)') <= voids_per_day
                      /\ Sent(p)' => Cardinality(Count(p)') < voids_per_day
  BY DEF Allowance
<1>3. Count(p) \in SUBSET Ids /\ Cardinality(Count(p)) \in Nat /\ Cardinality(Count(p)) <= voids_per_day
      /\ voids_per_day \in Nat /\ (Sent(p) => Cardinality(Count(p)) < voids_per_day)
  BY <1>1, Finite, HunterAssumption DEF Count, HunterInv, Allowance
<1>4. CASE Count(p)' \subseteq Count(p)
  <2>1. PICK S : S = Count(p)'
    OBVIOUS
  <2>2. S \in SUBSET Ids /\ S \in SUBSET Count(p)
    BY <1>3, <1>4, <2>1
  <2>3. Cardinality(S) <= Cardinality(Count(p)) /\ Cardinality(S) \in Nat
    BY <1>1, <1>3, <2>2, Smaller, Finite
  <2>4. Sent(p)' => Cardinality(Count(p)) < voids_per_day
    BY <1>3
  <2>5. Cardinality(S) <= voids_per_day /\ (Sent(p)' => Cardinality(S) < voids_per_day)
    BY <1>3, <2>3, <2>4
  <2> QED
    BY <2>1, <2>5
<1>5. CASE ~(Count(p)' \subseteq Count(p))
  <2>1. PICK k \in Count(p)' : k \notin Count(p)
    BY <1>5
  <2>2. k \in Ids' /\ probes'[k].provider = p /\ Counted(k)'
    BY <2>1 DEF Count
  <2>3. k \in Ids /\ probes[k].provider = p /\ ~Counted(k)
    BY <2>1, <2>2 DEF Count
  <2>4. k = Len(probes) /\ pc = "sent" /\ pc' # "sent"
    BY <2>2, <2>3
  <2>5. Sent(p) /\ ~Sent(p)'
    BY <2>3, <2>4 DEF Sent
  <2>6. PICK S : S = Count(p)'
    OBVIOUS
  <2>7. S \in SUBSET (Count(p) \cup {k})
    BY <2>4, <2>6 DEF Count
  <2>8. Cardinality(S) <= Cardinality(Count(p)) + 1
    BY <1>1, <1>3, <2>3, <2>7, OneMore
  <2>9. S \in SUBSET Ids
    BY <1>3, <2>3, <2>7
  <2>10. Cardinality(S) \in Nat
    BY <1>1, <2>9, Finite
  <2>11. Cardinality(S) <= voids_per_day
    BY <1>3, <2>5, <2>8, <2>10
  <2> QED
    BY <2>5, <2>6, <2>11
<1> QED
  BY <1>4, <1>5

\* The loop's place, its work, and the rows change, and no batch: no row is sent again, or shown but in a flushed batch.
LEMMA RowsChange ==
  ASSUME HunterInv, UNCHANGED <<day, batches>>, others' \in [Providers -> Nat], pc' \in Pcs,
         probes' \in Seq(Probe), Len(probes') = Len(probes),
         pc' = "sent" => pc = "sent" /\ (Len(probes) # 0 => probes'[Len(probes)].state = "sent"),
         \A k \in Ids :
           /\ probes'[k].batch = probes[k].batch /\ probes'[k].provider = probes[k].provider
           /\ probes'[k].state = "sent" => probes[k].state = "sent" /\ pc' = "sent"
           /\ probes'[k].chain \in Shown => probes[k].chain \in Shown \/ Flushed(k)
           /\ probes'[k].chain = "voided" =>
                (probes[k].chain = "voided" /\ probes'[k].chain_day = probes[k].chain_day) \/ probes'[k].chain_day = day
           /\ Counted(k)' => Counted(k) \/ (k = Len(probes) /\ pc = "sent" /\ pc' # "sent"),
         pc' \in {"idle", "sent"} => work' = {},
         Flushing' => \A k \in work' : Flushed(k) /\ probes'[k].state = "answered"
  PROVE  HunterInv'
<1>1. Ids' = Ids /\ Ids = 1 .. Len(probes) /\ Len(probes) \in Nat
  BY DEF Ids, HunterInv, Typed
<1>2. Typed'
  BY DEF HunterInv, Typed
<1>3. Sending'
  BY <1>1 DEF HunterInv, Sending
<1>4. Working'
  <2>1. \A k \in Ids : Flushed(k) /\ probes'[k].state = "answered" => Flushed(k)'
    BY <1>1 DEF Flushed
  <2> QED
    BY <2>1 DEF Working, Flushed
<1>5. ShownFlushed'
  BY <1>1 DEF HunterInv, ShownFlushed, Flushed, Typed
<1>6. Allowance'
  <2>1. \A p \in Providers : Sent(p)' => Sent(p) \/ Cardinality(Count(p)) < voids_per_day
    BY <1>1 DEF Sent, HunterInv, Sending
  <2>2. \A k \in Ids' : Counted(k)' => k \in Ids /\ (Counted(k) \/ (k = Len(probes) /\ pc = "sent" /\ pc' # "sent"))
    BY <1>1
  <2> QED
    BY <1>1, <2>1, <2>2, AllowanceKeeps
<1> QED
  BY <1>2, <1>3, <1>4, <1>5, <1>6 DEF HunterInv

\* One row changes.
LEMMA RowSet ==
  ASSUME Typed, NEW k \in Ids, NEW r \in Probe, probes' = [probes EXCEPT ![k] = r]
  PROVE  /\ probes' \in Seq(Probe) /\ Len(probes') = Len(probes)
         /\ \A j \in Ids : probes'[j] = IF j = k THEN r ELSE probes[j]
BY DEF Typed, Ids

\* One row changes, and the loop does not go back to what was sent.
LEMMA RowStep ==
  ASSUME HunterInv, UNCHANGED <<day, batches, others>>, pc' \in Pcs,
         \E k \in Ids, r \in Probe :
           /\ probes' = [probes EXCEPT ![k] = r]
           /\ r.batch = probes[k].batch /\ r.provider = probes[k].provider
           /\ r.state = "sent" => probes[k].state = "sent" /\ pc' = "sent"
           /\ pc' = "sent" => pc = "sent" /\ r.state = probes[k].state
           /\ pc = "sent" /\ pc' # "sent" => k = Len(probes)
           /\ r.chain \in Shown => probes[k].chain \in Shown \/ Flushed(k)
           /\ r.chain = "voided" => (probes[k].chain = "voided" /\ r.chain_day = probes[k].chain_day) \/ r.chain_day = day
           /\ r.state = "answered" \/ (r.chain = "voided" /\ r.chain_day = day) =>
                Counted(k) \/ (k = Len(probes) /\ pc = "sent" /\ pc' # "sent")
           /\ pc' \in {"idle", "sent"} => work' = {}
           /\ Flushing' => work' \subseteq work /\ (work' # {} => Flushing) /\ (k \in work' => r.state = "answered")
  PROVE  HunterInv'
<1>1. PICK k \in Ids, r \in Probe :
           /\ probes' = [probes EXCEPT ![k] = r]
           /\ r.batch = probes[k].batch /\ r.provider = probes[k].provider
           /\ r.state = "sent" => probes[k].state = "sent" /\ pc' = "sent"
           /\ pc' = "sent" => pc = "sent" /\ r.state = probes[k].state
           /\ pc = "sent" /\ pc' # "sent" => k = Len(probes)
           /\ r.chain \in Shown => probes[k].chain \in Shown \/ Flushed(k)
           /\ r.chain = "voided" => (probes[k].chain = "voided" /\ r.chain_day = probes[k].chain_day) \/ r.chain_day = day
           /\ r.state = "answered" \/ (r.chain = "voided" /\ r.chain_day = day) =>
                Counted(k) \/ (k = Len(probes) /\ pc = "sent" /\ pc' # "sent")
           /\ pc' \in {"idle", "sent"} => work' = {}
           /\ Flushing' => work' \subseteq work /\ (work' # {} => Flushing) /\ (k \in work' => r.state = "answered")
  OBVIOUS
<1>2. Typed
  BY DEF HunterInv
<1>3. /\ probes' \in Seq(Probe) /\ Len(probes') = Len(probes)
      /\ \A j \in Ids : probes'[j] = IF j = k THEN r ELSE probes[j]
  BY <1>1, <1>2, RowSet
<1>4. \A j \in Ids : j # k => (Counted(j)' <=> Counted(j))
  BY <1>3 DEF Counted
<1>5. Counted(k)' <=> r.state = "answered" \/ (r.chain = "voided" /\ r.chain_day = day)
  BY <1>3 DEF Counted
<1>6. others' \in [Providers -> Nat]
  BY <1>2 DEF Typed
<1>7. pc' = "sent" => pc = "sent" /\ (Len(probes) # 0 => probes'[Len(probes)].state = "sent")
  <2>1. Len(probes) # 0 => Len(probes) \in Ids
    BY <1>2 DEF Typed, Ids
  <2>2. pc = "sent" => Len(probes) # 0 /\ probes[Len(probes)].state = "sent"
    BY DEF HunterInv, Sending
  <2>3. pc' = "sent" => pc = "sent" /\ r.state = probes[k].state
    BY <1>1
  <2>4. Len(probes) # 0 => probes'[Len(probes)] = IF Len(probes) = k THEN r ELSE probes[Len(probes)]
    BY <1>3, <2>1
  <2> QED
    BY <2>2, <2>3, <2>4
<1>8. \A j \in Ids :
           /\ probes'[j].batch = probes[j].batch /\ probes'[j].provider = probes[j].provider
           /\ probes'[j].state = "sent" => probes[j].state = "sent" /\ pc' = "sent"
           /\ probes'[j].chain \in Shown => probes[j].chain \in Shown \/ Flushed(j)
           /\ probes'[j].chain = "voided" =>
                (probes[j].chain = "voided" /\ probes'[j].chain_day = probes[j].chain_day) \/ probes'[j].chain_day = day
           /\ Counted(j)' => Counted(j) \/ (j = Len(probes) /\ pc = "sent" /\ pc' # "sent")
  <2> SUFFICES ASSUME NEW j \in Ids
               PROVE  /\ probes'[j].batch = probes[j].batch /\ probes'[j].provider = probes[j].provider
                      /\ probes'[j].state = "sent" => probes[j].state = "sent" /\ pc' = "sent"
                      /\ probes'[j].chain \in Shown => probes[j].chain \in Shown \/ Flushed(j)
                      /\ probes'[j].chain = "voided" =>
                           \/ probes[j].chain = "voided" /\ probes'[j].chain_day = probes[j].chain_day
                           \/ probes'[j].chain_day = day
                      /\ Counted(j)' => Counted(j) \/ (j = Len(probes) /\ pc = "sent" /\ pc' # "sent")
    OBVIOUS
  <2>1. CASE j = k
    BY <1>1, <1>3, <1>5, <2>1
  <2>2. CASE j # k
    <3>1. probes'[j] = probes[j] /\ (Counted(j)' <=> Counted(j))
      BY <1>3, <1>4, <2>2
    <3>2. probes[j].state = "sent" => pc = "sent" /\ j = Len(probes)
      BY DEF HunterInv, Sending
    <3>3. probes[j].state = "sent" => pc' = "sent"
      BY <1>1, <2>2, <3>2
    <3> QED
      BY <3>1, <3>2, <3>3
  <2> QED
    BY <2>1, <2>2
<1>9. pc' \in {"idle", "sent"} => work' = {}
  BY <1>1
<1>10. Flushing' => \A j \in work' : Flushed(j) /\ probes'[j].state = "answered"
  <2> SUFFICES ASSUME Flushing', NEW j \in work' PROVE Flushed(j) /\ probes'[j].state = "answered"
    OBVIOUS
  <2>1. j \in work /\ Flushing /\ (j = k => r.state = "answered")
    BY <1>1
  <2>2. Flushed(j)
    BY <2>1 DEF HunterInv, Working
  <2> QED
    BY <1>3, <2>1, <2>2 DEF Flushed
<1> QED
  BY <1>3, <1>6, <1>7, <1>8, <1>9, <1>10, RowsChange

\* No row changes.
LEMMA NoRowChanges ==
  ASSUME HunterInv, UNCHANGED <<day, batches, probes>>, others' \in [Providers -> Nat], pc' \in Pcs,
         pc' = "sent" <=> pc = "sent",
         pc' \in {"idle", "sent"} => work' = {},
         Flushing' => work' \subseteq work /\ (work' # {} => Flushing)
  PROVE  HunterInv'
<1>1. probes' \in Seq(Probe) /\ Len(probes') = Len(probes) /\ \A k \in Ids : probes'[k] = probes[k]
  BY DEF HunterInv, Typed
<1>2. \A k \in Ids : (Counted(k)' <=> Counted(k)) /\ (probes[k].state = "sent" => pc = "sent")
  BY DEF Counted, HunterInv, Sending
<1>3. pc' = "sent" => pc = "sent" /\ (Len(probes) # 0 => probes'[Len(probes)].state = "sent")
  BY DEF HunterInv, Sending
<1>4. Flushing' => \A k \in work' : Flushed(k) /\ probes'[k].state = "answered"
  BY DEF HunterInv, Working, Flushed
<1> QED
  BY <1>1, <1>2, <1>3, <1>4, RowsChange

LEMMA LoopKeeps ==
  ASSUME HunterInv, start_flush \/ end_flush \/ end_cases \/ (\E p \in Providers : another_hunter(p)) PROVE HunterInv'
<1>1. HunterInv /\ Typed /\ others \in [Providers -> Nat] /\ (pc \in {"idle", "sent"} => work = {}) /\ pc \in Pcs
  BY DEF HunterInv, Typed, Working
<1>2. CASE start_flush
  BY <1>1, <1>2, NoRowChanges DEF start_flush, chainVars, hunterVars, Pcs, Flushing
<1>3. CASE end_flush
  BY <1>1, <1>3, NoRowChanges DEF end_flush, chainVars, hunterVars, Pcs, Flushing
<1>4. CASE end_cases
  BY <1>1, <1>4, NoRowChanges DEF end_cases, chainVars, hunterVars, Pcs, Flushing
<1>5. ASSUME NEW p \in Providers, another_hunter(p) PROVE HunterInv'
  <2>1. others' \in [Providers -> Nat]
    BY <1>1, <1>5 DEF another_hunter
  <2>2. UNCHANGED <<day, batches, probes, pc, work>>
    BY <1>5 DEF another_hunter, hunterVars
  <2> QED
    BY <1>1, <2>1, <2>2, NoRowChanges DEF Flushing
<1> QED
  BY <1>2, <1>3, <1>4, <1>5

\* The answer that is waited for comes, or not; who sent it waits for it no longer.
LEMMA AnswerKeeps ==
  ASSUME HunterInv, pc = "sent", UNCHANGED <<day, batches, others, work>>, pc' \in {"idle", "flush"},
         NEW state \in {"lost", "answered"}, NEW grade \in Grades, NEW chain \in {"none", "queued"},
         \/ probes' = [probes EXCEPT ![Len(probes)].state = state, ![Len(probes)].chain = chain]
         \/ probes' = [probes EXCEPT ![Len(probes)].state = state, ![Len(probes)].grade = grade, ![Len(probes)].chain = chain]
  PROVE  HunterInv'
<1>1. PICK k \in Ids : k = Len(probes)
  BY DEF HunterInv, Sending, Typed, Ids
<1>2. PICK old \in Probe : old = probes[k]
  BY DEF HunterInv, Typed, Ids
<1>3. PICK r \in Probe :
        /\ probes' = [probes EXCEPT ![k] = r]
        /\ r.batch = old.batch /\ r.provider = old.provider /\ r.state = state /\ r.chain = chain
  <2>1. CASE probes' = [probes EXCEPT ![Len(probes)].state = state, ![Len(probes)].chain = chain]
    <3> DEFINE r == [old EXCEPT !.state = state, !.chain = chain]
    <3>1. r \in Probe /\ r.batch = old.batch /\ r.provider = old.provider /\ r.state = state /\ r.chain = chain
      BY DEF Probe
    <3>2. probes' = [probes EXCEPT ![k] = r]
      BY <1>1, <1>2, <2>1
    <3> QED
      BY <3>1, <3>2
  <2>2. CASE probes' = [probes EXCEPT ![Len(probes)].state = state, ![Len(probes)].grade = grade, ![Len(probes)].chain = chain]
    <3> DEFINE r == [old EXCEPT !.state = state, !.grade = grade, !.chain = chain]
    <3>1. r \in Probe /\ r.batch = old.batch /\ r.provider = old.provider /\ r.state = state /\ r.chain = chain
      BY DEF Probe
    <3>2. probes' = [probes EXCEPT ![k] = r]
      BY <1>1, <1>2, <2>2
    <3> QED
      BY <3>1, <3>2
  <2> QED
    BY <2>1, <2>2
<1>4. work = {} /\ pc' \in Pcs
  BY DEF HunterInv, Working, Pcs
<1>5. chain \notin Shown /\ state # "sent"
  BY DEF Shown
<1>6. /\ r.state # "sent" /\ pc' # "sent"
      /\ r.chain \notin Shown /\ r.chain # "voided"
  BY <1>3, <1>5 DEF Shown
<1> QED
  BY <1>1, <1>2, <1>3, <1>4, <1>6, RowStep

LEMMA UnreachableKeeps == ASSUME HunterInv, unreachable PROVE HunterInv'
<1>1. pc = "sent" /\ pc' = "idle" /\ UNCHANGED <<day, batches, others, work>>
  BY DEF unreachable, chainVars, hunterVars
<1>2. PICK chain \in {"none", "queued"} :
        probes' = [probes EXCEPT ![Len(probes)].state = "lost", ![Len(probes)].chain = chain]
  BY DEF unreachable
<1>3. "none" \in Grades
  BY DEF Grades
<1> QED
  BY <1>1, <1>2, <1>3, AnswerKeeps

LEMMA AnsweredKeeps == ASSUME HunterInv, Answered PROVE HunterInv'
<1>1. PICK e \in Exchanges : answered(e.task, e.answer, e.readable)
  BY DEF Answered
<1>2. pc = "sent" /\ pc' = "flush" /\ UNCHANGED <<day, batches, others, work>>
  BY <1>1 DEF answered, chainVars
<1>3. PICK grade \in Grades, state \in {"lost", "answered"} :
        probes' = [probes EXCEPT ![Len(probes)].state = state, ![Len(probes)].grade = grade, ![Len(probes)].chain = "queued"]
  <2>1. \A task, answer : grade_task(task, answer) \in Grades
    BY GradeTyped
  <2>2. PICK graded \in Grades : graded = grade_task(e.task, e.answer)
    BY <2>1
  <2>4. PICK grade \in Grades : grade = IF e.readable THEN grade_task(e.task, e.answer)
                                        ELSE IF e.task.kind \in CapabilityKinds THEN "wrong" ELSE "unrelated"
    BY <2>2 DEF Grades
  <2>5. PICK state \in {"lost", "answered"} : state = IF e.readable THEN "answered" ELSE "lost"
    OBVIOUS
  <2>6. probes' = [probes EXCEPT ![Len(probes)].state = state, ![Len(probes)].grade = grade, ![Len(probes)].chain = "queued"]
    BY <1>1, <2>4, <2>5 DEF answered
  <2> QED
    BY <2>6
<1> QED
  BY <1>2, <1>3, AnswerKeeps

\* A receipt is settled, or its escrow released.
LEMMA ChainKeeps == ASSUME HunterInv, NEW k \in Ids, settles(k) \/ releases(k) PROVE HunterInv'
<1>1. PICK old \in Probe : old = probes[k]
  BY DEF HunterInv, Typed, Ids
<1>2. PICK chain \in {"pending", "released"} : probes' = [probes EXCEPT ![k].chain = chain]
  BY DEF settles, releases
<1> DEFINE r == [old EXCEPT !.chain = chain]
<1>3. /\ r \in Probe /\ r.batch = old.batch /\ r.provider = old.provider /\ r.state = old.state /\ r.chain = chain
      /\ r.chain \notin Shown /\ r.chain # "voided"
  BY DEF Probe, Shown
<1>4. probes' = [probes EXCEPT ![k] = r]
  BY <1>1, <1>2
<1> HIDE DEF r
<1>5. UNCHANGED <<day, batches, others, pc, work>>
  BY DEF settles, releases, chainVars, hunterVars
<1>6. /\ old.state = "sent" => pc = "sent"
      /\ pc \in Pcs /\ (pc \in {"idle", "sent"} => work = {})
      /\ Flushing /\ k \in work => old.state = "answered"
      /\ old.state = "answered" => Counted(k)
  BY <1>1 DEF HunterInv, Typed, Sending, Working, Flushed, Counted
<1>7. Flushing' <=> Flushing
  BY <1>5 DEF Flushing
<1> QED
  BY <1>1, <1>3, <1>4, <1>5, <1>6, <1>7, RowStep

-----------------------------------------------------------------------------
(* Flushing *)

\* What is finished was answered with a key of a flushed batch: it may be shown, and counts already.
LEMMA FinishKeeps == ASSUME HunterInv, NEW k \in Ids, finish(k) PROVE HunterInv'
<1>1. PICK old \in Probe : old = probes[k]
  BY DEF HunterInv, Typed, Ids
<1>2. Flushing /\ k \in work /\ Flushed(k) /\ old.state = "answered" /\ Counted(k)
  BY <1>1 DEF finish, Flushing, HunterInv, Working, Flushed, Counted
<1>3. UNCHANGED <<day, batches, others>> /\ others \in [Providers -> Nat] /\ pc \in Pcs /\ day \in Nat /\ pc # "sent"
  BY <1>2 DEF finish, chainVars, hunterVars, HunterInv, Typed, Flushing
<1> DEFINE disputed == [old EXCEPT !.chain = "disputed"]
           voided == [old EXCEPT !.chain = "voided", !.chain_day = day]
           Rows == {old, [old EXCEPT !.state = "missed"], [disputed EXCEPT !.state = "disputed"], disputed,
                    [old EXCEPT !.state = "paid"], [voided EXCEPT !.state = "voided", !.void_day = day],
                    [voided EXCEPT !.state = "paid"], voided}
           Fits(r) == /\ r \in Probe /\ r.batch = old.batch /\ r.provider = old.provider /\ r.state # "sent"
                      /\ r.chain = "voided" => (old.chain = "voided" /\ r.chain_day = old.chain_day) \/ r.chain_day = day
<1>4. \A r \in Rows : Fits(r)
  <2>1. disputed \in Probe /\ disputed.batch = old.batch /\ disputed.provider = old.provider
        /\ disputed.state = old.state /\ disputed.chain = "disputed"
    BY DEF Probe, Shown
  <2>2. voided \in Probe /\ voided.batch = old.batch /\ voided.provider = old.provider
        /\ voided.state = old.state /\ voided.chain = "voided" /\ voided.chain_day = day
    BY <1>3 DEF Probe, Shown
  <2> HIDE DEF disputed, voided
  <2>3. Fits(old) /\ Fits(disputed) /\ Fits(voided)
    BY <1>2, <2>1, <2>2
  <2>4. Fits([old EXCEPT !.state = "missed"]) /\ Fits([old EXCEPT !.state = "paid"])
    BY DEF Probe
  <2>5. Fits([disputed EXCEPT !.state = "disputed"])
    BY <2>1 DEF Probe
  <2>6. Fits([voided EXCEPT !.state = "paid"])
    BY <2>2 DEF Probe
  <2>7. Fits([voided EXCEPT !.state = "voided", !.void_day = day])
    BY <1>3, <2>2 DEF Probe
  <2> QED
    BY <2>3, <2>4, <2>5, <2>6, <2>7
<1>5. \/ work' = work \ {k} /\ UNCHANGED <<probes, pc>>
      \/ \E r \in Rows : /\ probes' = [probes EXCEPT ![k] = r]
                         /\ \/ work' = work \ {k} /\ pc' = "flushed"
                            \/ work' = {} /\ pc' = "idle"
  BY <1>1 DEF finish
<1> HIDE DEF Rows
<1>6. CASE work' = work \ {k} /\ UNCHANGED <<probes, pc>>
  <2>1. (pc' = "sent" <=> pc = "sent") /\ (pc' \in {"idle", "sent"} => work' = {})
        /\ (Flushing' => work' \subseteq work /\ (work' # {} => Flushing))
    BY <1>2, <1>6 DEF Flushing
  <2> QED
    BY <1>3, <1>6, <2>1, NoRowChanges
<1>7. ASSUME NEW r \in Rows, probes' = [probes EXCEPT ![k] = r],
             (work' = work \ {k} /\ pc' = "flushed") \/ (work' = {} /\ pc' = "idle")
      PROVE  HunterInv'
  <2>1. Fits(r)
    BY <1>4
  <2>2. /\ pc' \in Pcs /\ pc' # "sent" /\ (pc' \in {"idle", "sent"} => work' = {})
        /\ Flushing' => work' \subseteq work /\ (work' # {} => Flushing) /\ (k \in work' => r.state = "answered")
    BY <1>2, <1>7 DEF Flushing, Pcs
  <2> QED
    BY <1>1, <1>2, <1>3, <1>7, <2>1, <2>2, RowStep
<1> QED
  BY <1>5, <1>6, <1>7

\* The other keys of a batch are retired before its owner is shown; no probe of it is under way.
LEMMA FlushKeeps == ASSUME HunterInv, NEW b \in DOMAIN batches, flush(b) PROVE HunterInv'
<1>1. PICK old \in Batch : old = batches[b]
  BY DEF HunterInv, Typed
<1> DEFINE closed == [old EXCEPT !.state = "flushed"]
<1>2. closed \in Batch /\ closed.state = "flushed" /\ batches' = [batches EXCEPT ![b] = closed]
  BY <1>1 DEF Batch, flush
<1> HIDE DEF closed
<1>3. /\ batches' \in Seq(Batch) /\ DOMAIN batches' = DOMAIN batches
      /\ \A c \in DOMAIN batches : batches'[c] = IF c = b THEN closed ELSE batches[c]
  BY <1>2 DEF HunterInv, Typed
<1>4. UNCHANGED <<day, others, probes, pc>> /\ Flushing /\ pc # "sent" /\ pc \notin {"idle", "sent"}
      /\ work' = {k \in Ids : probes[k].state = "answered" /\ probes[k].batch = b}
  BY DEF flush, chainVars, Flushing, Having
<1>5. Typed'
  BY <1>3, <1>4 DEF HunterInv, Typed
<1>6. Sending' /\ ShownFlushed'
  BY <1>2, <1>3, <1>4 DEF HunterInv, Sending, ShownFlushed, Ids
<1>7. Working'
  BY <1>2, <1>3, <1>4 DEF Working, Flushed, Ids, Flushing
<1>8. Allowance'
  <2>1. \A p \in Providers : Count(p)' = Count(p) /\ (Sent(p)' <=> Sent(p))
    BY <1>4 DEF Count, Counted, Ids, Sent
  <2> QED
    BY <2>1 DEF HunterInv, Allowance
<1> QED
  BY <1>5, <1>6, <1>7, <1>8 DEF HunterInv

-----------------------------------------------------------------------------
(* Rows of a whole case; a restart; a day *)

LEMMA RowsMapped ==
  ASSUME Typed, DOMAIN probes' = Ids, probes' = [k \in Ids |-> probes'[k]], \A k \in Ids : probes'[k] \in Probe
  PROVE  probes' \in Seq(Probe) /\ Len(probes') = Len(probes)
BY SameLength DEF Typed, Ids

LEMMA AccuseKeeps == ASSUME HunterInv, NEW p \in Providers, accuse(p) PROVE HunterInv'
<1>1. UNCHANGED <<day, batches, others, pc>> /\ pc = "cases" /\ others \in [Providers -> Nat] /\ pc \in Pcs /\ Typed
  BY DEF accuse, chainVars, hunterVars, HunterInv, Typed
<1>2. CASE UNCHANGED probes
  BY <1>1, <1>2, NoRowChanges DEF Flushing
<1>3. ASSUME NEW known \in BOOLEAN, NEW keys,
             probes' = [k \in Ids |-> IF k \in keys THEN [probes[k] EXCEPT !.chain_case = TRUE, !.in_case = known] ELSE probes[k]]
      PROVE  HunterInv'
  <2>1. ASSUME NEW k \in Ids
        PROVE  /\ probes'[k] \in Probe
               /\ probes'[k].batch = probes[k].batch /\ probes'[k].provider = probes[k].provider
               /\ probes'[k].state = probes[k].state /\ probes'[k].chain = probes[k].chain
               /\ probes'[k].chain_day = probes[k].chain_day
    <3>1. PICK old \in Probe : old = probes[k]
      BY <1>1 DEF Typed, Ids
    <3>2. probes'[k] = IF k \in keys THEN [old EXCEPT !.chain_case = TRUE, !.in_case = known] ELSE old
      BY <1>3, <3>1
    <3> QED
      BY <3>1, <3>2 DEF Probe
  <2>2. DOMAIN probes' = Ids /\ probes' = [k \in Ids |-> probes'[k]]
    BY <1>3
  <2>3. probes' \in Seq(Probe) /\ Len(probes') = Len(probes)
    BY <1>1, <2>1, <2>2, RowsMapped
  <2>4. \A k \in Ids : (Counted(k)' <=> Counted(k)) /\ probes[k].state # "sent"
    BY <1>1, <2>1 DEF Counted, HunterInv, Sending
  <2>5. ~Flushing'
    BY <1>1 DEF Flushing
  <2> QED
    BY <1>1, <2>1, <2>3, <2>4, <2>5, RowsChange
<1> QED
  BY <1>2, <1>3 DEF accuse, open_case

LEMMA RestartKeeps == ASSUME HunterInv, restart PROVE HunterInv'
<1>1. UNCHANGED <<day, batches, others>> /\ pc' = "idle" /\ work' = {} /\ others \in [Providers -> Nat] /\ Typed
  BY DEF restart, chainVars, HunterInv, Typed
<1>2. PICK status \in {"none", "queued"} :
        probes' = [k \in Ids |-> IF probes[k].state = "sent" THEN [probes[k] EXCEPT !.state = "lost", !.chain = status]
                                 ELSE probes[k]]
  BY DEF restart
<1>3. ASSUME NEW k \in Ids
      PROVE  /\ probes'[k] \in Probe
             /\ probes'[k].batch = probes[k].batch /\ probes'[k].provider = probes[k].provider
             /\ probes'[k].state # "sent"
             /\ \/ probes'[k] = probes[k]
                \/ probes'[k].state = "lost" /\ probes'[k].chain \in {"none", "queued"}
  <2>1. PICK old \in Probe : old = probes[k]
    BY <1>1 DEF Typed, Ids
  <2>2. probes'[k] = IF old.state = "sent" THEN [old EXCEPT !.state = "lost", !.chain = status] ELSE old
    BY <1>2, <2>1
  <2> QED
    BY <2>1, <2>2 DEF Probe
<1>4. DOMAIN probes' = Ids /\ probes' = [k \in Ids |-> probes'[k]]
  BY <1>2
<1>5. probes' \in Seq(Probe) /\ Len(probes') = Len(probes)
  BY <1>1, <1>3, <1>4, RowsMapped
<1>6. \A k \in Ids : /\ Counted(k)' => Counted(k)
                     /\ probes'[k].chain \in Shown => probes'[k] = probes[k]
                     /\ probes'[k].chain = "voided" => probes'[k] = probes[k]
  BY <1>1, <1>3 DEF Counted, Shown
<1>7. ~Flushing' /\ pc' \in Pcs /\ pc' # "sent"
  BY <1>1 DEF Flushing, Pcs
<1> QED
  BY <1>1, <1>3, <1>5, <1>6, <1>7, RowsChange

LEMMA TomorrowKeeps == ASSUME HunterInv, tomorrow PROVE HunterInv'
<1>1. UNCHANGED <<batches, probes, pc, work>> /\ day' = day + 1 /\ others' = [p \in Providers |-> 0] /\ day \in Nat
  BY DEF tomorrow, hunterVars, HunterInv, Typed
<1>2. Typed'
  BY <1>1 DEF HunterInv, Typed
<1>3. Sending' /\ Working'
  BY <1>1 DEF HunterInv, Sending, Working, Ids, Flushed, Flushing
<1>0. \A k \in Ids : probes[k].chain = "voided" => probes[k].chain_day \in Nat /\ probes[k].chain_day <= day
  <2>1. \A k \in Ids : probes[k] \in Probe
    BY DEF HunterInv, Typed, Ids
  <2>2. \A k \in Ids : probes[k].chain_day \in Nat
    BY <2>1 DEF Probe
  <2> QED
    BY <2>2 DEF HunterInv, ShownFlushed
<1>4. ShownFlushed'
  <2>1. \A k \in Ids : probes[k].chain = "voided" => probes[k].chain_day <= day + 1
    BY <1>0, <1>1
  <2> QED
    BY <1>1, <2>1 DEF HunterInv, ShownFlushed, Ids
<1>5. \A k \in Ids : Counted(k)' => Counted(k)
  <2>1. \A k \in Ids : probes[k].chain = "voided" => probes[k].chain_day # day + 1
    BY <1>0, <1>1
  <2> QED
    BY <1>1, <2>1 DEF Counted, Ids
<1>6. Ids' = Ids /\ (\A k \in Ids : probes'[k] = probes[k]) /\ \A p \in Providers : Sent(p)' => Sent(p)
  BY <1>1 DEF Ids, Sent
<1>7. Allowance'
  BY <1>5, <1>6, AllowanceKeeps
<1> QED
  BY <1>2, <1>3, <1>4, <1>7 DEF HunterInv

-----------------------------------------------------------------------------
(* Probing *)

\* A new probe is sent with a key of an open batch, when there is room for it.
LEMMA TakeKeyKeeps ==
  ASSUME HunterInv, pc = "idle", NEW p \in Providers, NEW known \in Seq(Batch), NEW b \in DOMAIN known,
         DOMAIN batches \subseteq DOMAIN known, \A c \in DOMAIN batches : known[c] = batches[c], known[b].state = "open",
         Cardinality(Count(p)) < voids_per_day,
         take_key(p, b, known)
  PROVE  HunterInv'
<1>1. UNCHANGED <<day, others, work>> /\ pc' = "sent" /\ work = {}
  BY DEF take_key, chainVars, HunterInv, Working
<1>2. PICK old \in Batch : old = known[b]
  OBVIOUS
<1> DEFINE used == [old EXCEPT !.unused = @ - 1]
<1>3. used \in Batch /\ used.state = "open" /\ batches' = [known EXCEPT ![b] = used]
  BY <1>2 DEF Batch, take_key
<1> HIDE DEF used
<1>4. /\ batches' \in Seq(Batch) /\ DOMAIN batches' = DOMAIN known
      /\ \A c \in DOMAIN known : batches'[c].state = known[c].state
  BY <1>2, <1>3
<1>5. PICK new \in Probe : /\ probes' = Append(probes, new) /\ new.batch = b /\ new.provider = p /\ new.state = "sent"
                           /\ new.chain = "none"
  <2> DEFINE new == [batch |-> b, provider |-> p, grade |-> "none", state |-> "sent", void_day |-> 0,
                     in_case |-> FALSE, chain |-> "none", chain_day |-> 0, chain_case |-> FALSE]
  <2>1. b \in Nat
    OBVIOUS
  <2>2. new \in Probe
    BY <2>1 DEF Probe, Grades
  <2> QED
    BY <2>2 DEF take_key
<1>6. PICK n \in Nat : n = Len(probes) + 1
  BY DEF HunterInv, Typed
<1>7. /\ probes' \in Seq(Probe) /\ Len(probes') = n /\ Ids' = Ids \cup {n} /\ n \notin Ids /\ n # 0
      /\ probes'[n] = new /\ \A k \in Ids : probes'[k] = probes[k]
  BY <1>5, <1>6 DEF HunterInv, Typed, Ids
<1>8. Typed'
  BY <1>1, <1>4, <1>7 DEF HunterInv, Typed, Pcs
<1>9. \A k \in Ids : probes[k].state # "sent" /\ probes[k].batch \in DOMAIN batches
  BY DEF HunterInv, Sending, ShownFlushed
<1>10. Sending'
  BY <1>1, <1>4, <1>5, <1>7, <1>9 DEF Sending
<1>11. Working'
  BY <1>1 DEF Working, Flushing
<1>12. ShownFlushed'
  <2> SUFFICES ASSUME NEW k \in Ids'
               PROVE  /\ probes'[k].batch \in DOMAIN batches'
                      /\ probes'[k].chain \in Shown => batches'[probes'[k].batch].state = "flushed"
                      /\ probes'[k].chain = "voided" => probes'[k].chain_day <= day'
    BY DEF ShownFlushed
  <2>1. CASE k = n
    BY <1>4, <1>5, <1>7, <2>1 DEF Shown
  <2>2. CASE k \in Ids
    BY <1>1, <1>4, <1>7, <1>9, <2>2 DEF HunterInv, ShownFlushed
  <2> QED
    BY <1>7, <2>1, <2>2
<1>13. Allowance'
  <2>1. \A k \in Ids' : Counted(k)' => k \in Ids /\ Counted(k)
    BY <1>1, <1>5, <1>7 DEF Counted
  <2>2. \A q \in Providers : Sent(q)' => q = p
    BY <1>5, <1>7 DEF Sent
  <2> QED
    BY <1>7, <2>1, <2>2, AllowanceKeeps
<1> QED
  BY <1>8, <1>10, <1>11, <1>12, <1>13 DEF HunterInv

LEMMA ProbeKeeps == ASSUME HunterInv, NEW p \in Providers, probe(p) PROVE HunterInv'
<1>1. /\ pc = "idle" /\ Typed /\ others[p] \in Nat
      /\ others[p] + Cardinality(VoidedOn(p, day)) + Cardinality(answeredOn(p)) < voids_per_day
  BY DEF probe, Probing, HunterInv, Typed
<1>2. Cardinality(Count(p)) < voids_per_day
  <2>1. PICK S \in SUBSET Ids, T \in SUBSET Ids : S = VoidedOn(p, day) /\ T = answeredOn(p)
    BY DEF VoidedOn, answeredOn, Having
  <2>2. Count(p) = S \cup T
    BY <2>1 DEF Count, Counted, VoidedOn, answeredOn, Having
  <2>3. IsFiniteSet(S) /\ Cardinality(S) \in Nat /\ IsFiniteSet(T) /\ Cardinality(T) \in Nat
    BY <1>1, Finite
  <2>4. S \cap T \in SUBSET Ids
    OBVIOUS
  <2>5. Cardinality(S \cap T) \in Nat
    BY <1>1, <2>4, Finite
  <2>6. Cardinality(S \cup T) = Cardinality(S) + Cardinality(T) - Cardinality(S \cap T)
    BY <2>3, FS_Union
  <2>7. others[p] + Cardinality(S) + Cardinality(T) < voids_per_day
    BY <1>1, <2>1
  <2>8. Cardinality(S \cup T) < voids_per_day
    BY <1>1, <2>3, <2>5, <2>6, <2>7, HunterAssumption
  <2> QED
    BY <2>2, <2>8
<1>3. CASE unused_keys = {}
  <2>1. PICK new \in Batch : new = [state |-> "open", unused |-> keys_per_batch]
    <3>1. keys_per_batch \in Int
      BY HunterAssumption
    <3>2. [state |-> "open", unused |-> keys_per_batch] \in Batch
      BY ONLY <3>1 DEF Batch
    <3> QED
      BY <3>2
  <2>2. PICK known \in Seq(Batch) : known = Append(batches, new)
    <3>1. batches \in Seq(Batch)
      BY DEF HunterInv, Typed
    <3>2. Append(batches, new) \in Seq(Batch)
      BY <2>1, <3>1, AppendProperties
    <3> QED
      BY <3>2
  <2>3. PICK b \in Nat : b = Len(batches) + 1
    BY DEF HunterInv, Typed
  <2>4. /\ b \in DOMAIN known /\ known[b] = new /\ DOMAIN batches \subseteq DOMAIN known
        /\ \A c \in DOMAIN batches : known[c] = batches[c]
    BY <2>2, <2>3 DEF HunterInv, Typed
  <2>5. known[b].state = "open"
    BY <2>1, <2>4
  <2>6. take_key(p, b, known)
    BY <1>3, <2>1, <2>2, <2>3 DEF probe, commit_keys
  <2> QED
    BY <1>1, <1>2, <2>4, <2>5, <2>6, TakeKeyKeeps
<1>4. CASE unused_keys # {}
  <2>1. unused_keys \subseteq DOMAIN batches /\ DOMAIN batches \subseteq Nat
    BY DEF unused_keys, HunterInv, Typed
  <2>2. Min(unused_keys) \in unused_keys
    BY <1>4, <2>1, MinIn
  <2>3. PICK b \in DOMAIN batches : b = Min(unused_keys) /\ batches[b].state = "open"
    BY <2>1, <2>2 DEF unused_keys
  <2>4. PICK known \in Seq(Batch) : known = batches
    BY DEF HunterInv, Typed
  <2>5. take_key(p, b, known)
    BY <1>4, <2>3, <2>4 DEF probe
  <2> QED
    BY <1>1, <1>2, <2>3, <2>4, <2>5, TakeKeyKeeps
<1> QED
  BY <1>3, <1>4

-----------------------------------------------------------------------------
LEMMA HunterInvInit == Init => HunterInv
<1> SUFFICES ASSUME Init PROVE HunterInv
  OBVIOUS
<1>1. Ids = {} /\ work = {} /\ pc = "idle" /\ Typed
  BY DEF Init, Ids, Typed, Pcs
<1>2. Sending /\ Working /\ ShownFlushed
  BY <1>1 DEF Sending, Working, ShownFlushed, Flushing
<1>3. Allowance
  <2>1. \A p \in Providers : Cardinality(Count(p)) = 0 /\ ~Sent(p)
    BY <1>1, FS_EmptySet DEF Count, Sent
  <2>2. voids_per_day \in Nat
    BY HunterAssumption
  <2> QED
    BY <2>1, <2>2 DEF Allowance
<1> QED
  BY <1>1, <1>2, <1>3 DEF HunterInv

LEMMA HunterInvNext == HunterInv /\ [Next]_vars => HunterInv'
<1> SUFFICES ASSUME HunterInv, [Next]_vars PROVE HunterInv'
  OBVIOUS
<1>1. CASE Loop
  BY <1>1, ProbeKeeps, AccuseKeeps, FinishKeeps, FlushKeeps, UnreachableKeeps, AnsweredKeeps, LoopKeeps DEF Loop
<1>2. CASE restart
  BY <1>2, RestartKeeps
<1>3. CASE tomorrow
  BY <1>3, TomorrowKeeps
<1>4. ASSUME NEW k \in Ids, settles(k) \/ releases(k) PROVE HunterInv'
  BY <1>4, ChainKeeps
<1>5. ASSUME NEW p \in Providers, another_hunter(p) PROVE HunterInv'
  BY <1>5, LoopKeeps
<1>6. CASE UNCHANGED vars
  <2>1. /\ UNCHANGED <<day, batches, probes, others, pc, work>> /\ others \in [Providers -> Nat] /\ pc \in Pcs
        /\ (pc \in {"idle", "sent"} => work = {})
    BY <1>6 DEF vars, chainVars, hunterVars, HunterInv, Typed, Working
  <2> QED
    BY <2>1, NoRowChanges DEF Flushing
<1> QED
  BY <1>1, <1>2, <1>3, <1>4, <1>5, <1>6 DEF Next

LEMMA HunterInvAlways == Spec => []HunterInv
BY HunterInvInit, HunterInvNext, PTL DEF Spec

\* No key is used of a batch whose owner a void or a dispute has shown: a batch is closed first, and only when no
\* probe of it is under way (probes.py:11-13).
THEOREM KeysStayHidden == Spec => []KeysRetired
<1>1. HunterInv => KeysRetired
  <2> SUFFICES ASSUME HunterInv, NEW k \in Ids, probes[k].state = "sent", NEW j \in Ids, probes[j].batch = probes[k].batch
               PROVE  probes[j].chain \notin Shown
    BY DEF KeysRetired, Having, Shown
  <2> QED
    BY DEF HunterInv, Sending, ShownFlushed
<1> QED
  BY <1>1, HunterInvAlways, PTL

\* What waits to be voided and what was voided today fit in a Provider's free probes of one day, though the loop
\* counts before it sends, and days, restarts and other hunters come between.
THEOREM AllowanceHeld == Spec => []AllowanceKept
<1>1. HunterInv => AllowanceKept
  <2> SUFFICES ASSUME HunterInv, NEW p \in Providers
               PROVE  Cardinality({k \in Having("answered") : probes[k].provider = p} \cup VoidedOn(p, day)) <= voids_per_day
    BY DEF AllowanceKept
  <2>1. {k \in Having("answered") : probes[k].provider = p} \cup VoidedOn(p, day) = Count(p)
    BY DEF Count, Counted, VoidedOn, Having
  <2> QED
    BY <2>1 DEF HunterInv, Allowance
<1> QED
  BY <1>1, HunterInvAlways, PTL

-----------------------------------------------------------------------------
(* Suspension *)

SuspendedInv == DOMAIN basic = Providers /\ DOMAIN capability = Providers /\ Suspects \subseteq suspended

LEMMA SuspendedInit == Init => SuspendedInv
<1> SUFFICES ASSUME Init PROVE SuspendedInv
  OBVIOUS
<1>1. \A p \in Providers : basic[p] = <<>> /\ capability[p] = <<>>
  BY DEF Init
<1>2. \A p \in Providers : ~failing(basic[p]) /\ ~downgraded(capability[p])
  BY <1>1 DEF failing, downgraded, flagged
<1> QED
  BY <1>2 DEF SuspendedInv, Suspects, Init

LEMMA SuspendedNext == SuspendedInv /\ [Next]_vars => SuspendedInv'
<1> SUFFICES ASSUME SuspendedInv, [Next]_vars PROVE SuspendedInv'
  OBVIOUS
<1>1. CASE UNCHANGED <<basic, capability, suspended>>
  BY <1>1 DEF SuspendedInv, Suspects
<1>2. CASE restart
  BY <1>2 DEF restart, SuspendedInv, Suspects
<1>3. ASSUME NEW e \in Exchanges, answered(e.task, e.answer, e.readable) PROVE SuspendedInv'
  <2>1. PICK p : p = probes[Len(probes)].provider
    OBVIOUS
  <2>2. /\ DOMAIN basic' = Providers /\ \A q \in Providers \ {p} : basic'[q] = basic[q]
        /\ DOMAIN capability' = Providers /\ \A q \in Providers \ {p} : capability'[q] = capability[q]
        /\ suspended \subseteq suspended' /\ p \notin suspended
    BY <1>3, <2>1 DEF answered, SuspendedInv
  <2>3. p \in Providers => (failing(basic'[p]) \/ downgraded(capability'[p]) => p \in suspended')
    <3>1. p \in Providers => ~failing(basic[p]) /\ ~downgraded(capability[p])
      BY <2>2 DEF SuspendedInv, Suspects
    <3>2. CASE e.task.kind \in CapabilityKinds
      BY <1>3, <2>1, <3>1, <3>2 DEF answered
    <3>3. CASE e.task.kind \notin CapabilityKinds
      BY <1>3, <2>1, <3>1, <3>3 DEF answered
    <3> QED
      BY <3>2, <3>3
  <2>4. Suspects' \subseteq suspended'
    <3> SUFFICES ASSUME NEW q \in Providers, failing(basic'[q]) \/ downgraded(capability'[q]) PROVE q \in suspended'
      BY DEF Suspects
    <3>1. CASE q = p
      BY <2>3, <3>1
    <3>2. CASE q # p
      BY <2>2, <3>2 DEF SuspendedInv, Suspects
    <3> QED
      BY <3>1, <3>2
  <2> QED
    BY <2>2, <2>4 DEF SuspendedInv
<1>4. UNCHANGED <<basic, capability, suspended>> \/ restart \/ Answered
  BY DEF Next, Loop, probe, take_key, accuse, finish, flush, unreachable, start_flush, end_flush, end_cases, tomorrow,
         settles, releases, another_hunter, hunterVars, vars
<1> QED
  BY <1>1, <1>2, <1>3, <1>4 DEF Answered

\* A Provider whose record is too bad is not routed to, whichever of its two records it is and after restarts too.
THEOREM BadStaySuspended == Spec => []BadSuspended
<1>1. SuspendedInv => BadSuspended
  BY DEF SuspendedInv, BadSuspended
<1> QED
  BY <1>1, SuspendedInit, SuspendedNext, PTL DEF Spec
=============================================================================
