---------------------------- MODULE ProbeRunner ----------------------------
(***************************************************************************)
(* A Relay's hunter (mycomesh/relay/probes.py): it probes Providers with   *)
(* keys it committed in batches, voids a spent batch on the chain, and     *)
(* accuses a Provider of a downgrade with every probe it voided on it.     *)
(*                                                                         *)
(* One thread does all of it (probe_loop); what interleaves with it is the *)
(* chain, other hunters, and the end of its own process.  The tables are   *)
(* on disk.  The chain's half of a probe is in the same record, after the  *)
(* hunter's; its rules are those of voidProbe and openCapabilityCase.      *)
(***************************************************************************)
EXTENDS Capability

CONSTANTS
  Providers,
  keys_per_batch,
  voids_per_day,
  MIN_CASE_PROBES, MAX_CASE_PROBES, MAX_CASE_DAYS,
  quality_window, capability_window, capability_minimum,
  max_failure_rate, capability_floor,   \* per hundred
  Faults,      \* "crash": the process ends; "rpc": a call to the chain gets no answer
  Exchanges,   \* what may be asked and answered: the task, the answer, and whether it can be opened
  OtherVoids,  \* bound: voids of other hunters, per Provider and day
  MaxProbes, MaxDay, MaxCrashes   \* bounds

ASSUME HunterAssumption ==
  /\ keys_per_batch \in Nat \ {0} /\ voids_per_day \in Nat
  /\ {MIN_CASE_PROBES, MAX_CASE_PROBES, MAX_CASE_DAYS, capability_minimum} \subseteq Nat \ {0}

VARIABLES
  day,       \* the chain's
  others,    \* per Provider, other hunters' voids today
  batches,   \* hunt_batches, with the number of keys not used
  probes,    \* hunt_probes (and those it has no row for: sent, lost), in the order they were sent
  basic, capability,   \* probe_grades and capability_grades: per Provider, the last window of grades
  suspended, \* core.suspended
  pc,        \* where the loop is
  work,      \* the probes this flush has still to finish
  cases,     \* capability cases on the chain
  refusals,  \* case transactions that broke the contract's rules: history
  crashes

hunterVars == <<batches, basic, capability, suspended>>
chainVars == <<day, others>>
vars == <<chainVars, hunterVars, probes, pc, work, cases, refusals, crashes>>

Ids == DOMAIN probes
Having(state) == {k \in Ids : probes[k].state = state}
\* hunterProbeVoids and providerProbeVoids of the contract.
VoidedOn(p, d) == {k \in Ids : probes[k].provider = p /\ probes[k].chain = "voided" /\ probes[k].chain_day = d}
Allowed(p) == others[p] + Cardinality(VoidedOn(p, day)) < voids_per_day

-----------------------------------------------------------------------------
(* Quality *)

LastOf(grades, n) == IF Len(grades) > n THEN SubSeq(grades, Len(grades) - n + 1, Len(grades)) ELSE grades
Passes(grades) == Len(SelectSeq(grades, LAMBDA g : g = "pass"))

failing(grades) ==
  LET graded == Len(grades)
  IN graded >= 4 /\ (graded - Passes(grades)) * 100 >= max_failure_rate * graded
downgraded(grades) == flagged(Passes(grades), Len(grades), capability_floor, capability_minimum)

\* What a restart suspends.
Suspects == {p \in Providers : failing(basic[p]) \/ downgraded(capability[p])}

-----------------------------------------------------------------------------
(* Probing *)

\* The batches with keys to use.
unused_keys == {b \in DOMAIN batches : batches[b].state = "open" /\ batches[b].unused > 0}

\* commit_keys: what it pays for and commits is on the chain before anything is recorded.
commit_keys == Append(batches, [state |-> "open", unused |-> keys_per_batch])

\* A new probe with a key of batch b, which is used up before the request is sent.
take_key(p, b, known) ==
  /\ batches' = [known EXCEPT ![b].unused = @ - 1]
  /\ probes' = Append(probes, [batch |-> b, provider |-> p, grade |-> "none", state |-> "sent", void_day |-> 0,
                               in_case |-> FALSE, chain |-> "none", chain_day |-> 0, chain_case |-> FALSE])
  /\ pc' = "sent"
  /\ UNCHANGED <<chainVars, basic, capability, suspended, work, cases, refusals, crashes>>

answeredOn(p) == {k \in Having("answered") : probes[k].provider = p}
Probing(p) == pc = "idle" /\ Len(probes) < MaxProbes

\* Mutant: probes answered and not yet voided are not counted.
probe_uncounted(p) ==
  /\ Probing(p) /\ Allowed(p)
  /\ IF unused_keys = {} THEN take_key(p, Len(batches) + 1, commit_keys) ELSE take_key(p, Min(unused_keys), batches)

\* Mutant: the keys of a batch whose owner was revealed are used up.
probe_revealed(p) ==
  LET left == {b \in DOMAIN batches : batches[b].unused > 0} IN
  /\ Probing(p) /\ others[p] + Cardinality(VoidedOn(p, day)) + Cardinality(answeredOn(p)) < voids_per_day
  /\ IF left = {} THEN take_key(p, Len(batches) + 1, commit_keys) ELSE take_key(p, Min(left), batches)

\* A Provider whose voids of today, with those to come, leave room for one more.
probe(p) ==
  /\ Probing(p) /\ others[p] + Cardinality(VoidedOn(p, day)) + Cardinality(answeredOn(p)) < voids_per_day
  /\ IF unused_keys = {} THEN take_key(p, Len(batches) + 1, commit_keys) ELSE take_key(p, Min(unused_keys), batches)

\* No answer.  A suspended Provider's request is refused; what happened to another's is not known, and the Relay may
\* hold its receipt.
unreachable ==
  /\ pc = "sent" /\ pc' = "idle"
  /\ \E status \in (IF Last(probes).provider \in suspended THEN {"none"} ELSE {"none", "queued"}) :
       probes' = [probes EXCEPT ![Len(probes)].state = "lost", ![Len(probes)].chain = status]
  /\ UNCHANGED <<chainVars, hunterVars, work, cases, refusals, crashes>>

\* The answer is graded (one that cannot be opened as a failure, and its row is not written), the grade counted, and
\* the Provider suspended if it made no attempt, or its record has become too bad.
answered(task, answer, readable) ==
  LET k == Len(probes)
      p == probes[k].provider
      capable == task.kind \in CapabilityKinds
      grade == IF readable THEN grade_task(task, answer) ELSE IF capable THEN "wrong" ELSE "unrelated"
  IN /\ pc = "sent" /\ pc' = "flush" /\ p \notin suspended
     /\ IF capable THEN capability' = [capability EXCEPT ![p] = LastOf(Append(@, grade), capability_window)] /\ UNCHANGED basic
        ELSE basic' = [basic EXCEPT ![p] = LastOf(Append(@, grade), quality_window)] /\ UNCHANGED capability
     /\ probes' = [probes EXCEPT ![k].state = IF readable THEN "answered" ELSE "lost",
                                 ![k].grade = grade, ![k].chain = "queued"]
     /\ suspended' = IF grade = "unrelated" \/ failing(basic'[p]) \/ (capable /\ downgraded(capability'[p]))
                     THEN suspended \cup {p} ELSE suspended
     /\ UNCHANGED <<chainVars, batches, work, cases, refusals, crashes>>

-----------------------------------------------------------------------------
(* Voiding *)

\* A batch that is spent, or old, or was begun before: its other keys are retired before its owner is revealed.
flush(b) ==
  LET ripe == {k \in Having("answered") : probes[k].batch = b} IN
  /\ pc \in {"flush", "flushed"} /\ work = {} /\ ripe # {}
  /\ batches' = [batches EXCEPT ![b].state = "flushed"]
  /\ work' = ripe
  /\ UNCHANGED <<chainVars, basic, capability, suspended, probes, pc, cases, refusals, crashes>>

\* The loop flushes after every probe, and between them.
start_flush == pc = "idle" /\ pc' = "flush" /\ UNCHANGED <<chainVars, hunterVars, probes, work, cases, refusals, crashes>>

Rpc == "rpc" \in Faults

\* What _finish does with one probe.  Not settled yet: it waits for a later flush.  Settled and no longer pending:
\* missed.  No attempt at all: disputed.  Else voided; a void that is refused is taken for one too many today, and the
\* probe is paid.  A call that fails elsewhere ends the flush, the row as it was.
finish(k) ==
  LET row == probes[k]
      Becomes(r) == probes' = [probes EXCEPT ![k] = r]
      Waiting == work' = work \ {k} /\ UNCHANGED <<probes, pc>>
      Done(r) == Becomes(r) /\ work' = work \ {k} /\ pc' = "flushed"
      Aborted(r) == Rpc /\ Becomes(r) /\ work' = {} /\ pc' = "idle"
      disputed == [row EXCEPT !.chain = "disputed"]
      voided == [row EXCEPT !.chain = "voided", !.chain_day = day]
  IN /\ pc \in {"flush", "flushed"} /\ k \in work
     /\ CASE row.chain \in {"none", "queued"} -> Waiting
          [] row.chain \notin {"none", "queued", "pending"} -> Done([row EXCEPT !.state = "missed"])
          [] row.chain = "pending" /\ row.grade = "unrelated" ->
               Done([disputed EXCEPT !.state = "disputed"]) \/ Aborted(row) \/ Aborted(disputed)
          [] row.chain = "pending" /\ row.grade # "unrelated" /\ ~Allowed(row.provider) -> Done([row EXCEPT !.state = "paid"])
          [] row.chain = "pending" /\ row.grade # "unrelated" /\ Allowed(row.provider) ->
               \/ Done([voided EXCEPT !.state = "voided", !.void_day = day])
               \/ Rpc /\ (Done([voided EXCEPT !.state = "paid"]) \/ Done([row EXCEPT !.state = "paid"]))
               \/ Aborted(voided) \/ Aborted(row)
     /\ UNCHANGED <<chainVars, hunterVars, cases, refusals, crashes>>

-----------------------------------------------------------------------------
(* Capability cases *)

\* When something was done, the Providers that look downgraded are accused, one after the other.
end_flush ==
  /\ pc \in {"flush", "flushed"} /\ work = {}
  /\ IF pc = "flush" THEN pc' = "idle" /\ UNCHANGED work
     ELSE pc' = "cases" /\ work' = {p \in Providers : downgraded(capability[p])}
  /\ UNCHANGED <<chainVars, hunterVars, probes, cases, refusals, crashes>>

\* The hunter's voided probes of closed days that are in no case yet.
Voided(p) == {k \in Having("voided") : probes[k].provider = p /\ ~probes[k].in_case /\ probes[k].void_day < day}

\* The most recent days, whole days only, as long as there is room.
chosen(p) ==
  LET rows(d) == {k \in Voided(p) : probes[k].void_day = d}
      latest == SetToSortSeq({probes[k].void_day : k \in Voided(p)}, LAMBDA d, e : d > e)
      take(acc, d) ==
        IF acc.end \/ Cardinality(acc.keys \cup rows(d)) > MAX_CASE_PROBES
                   \/ (acc.days # {} /\ Min(acc.days) - d >= MAX_CASE_DAYS)
        THEN [acc EXCEPT !.end = TRUE]
        ELSE [acc EXCEPT !.keys = @ \cup rows(d), !.days = @ \cup {d}, !.other = @ \/ VoidedOn(p, d) # rows(d)]
  IN FoldLeft(take, [keys |-> {}, days |-> {}, end |-> FALSE, other |-> FALSE], latest)

\* CaseNotReady: other voids on a day, or too few.
ready(p) == ~chosen(p).other /\ Cardinality(chosen(p).keys) >= MIN_CASE_PROBES

\* MycoSettlementDisputesV11.openCapabilityCase.
openCapabilityCase(p, from, to, keys) ==
  /\ to < day /\ to - from < MAX_CASE_DAYS
  /\ Cardinality(keys) \in MIN_CASE_PROBES .. MAX_CASE_PROBES
  /\ Cardinality(keys) = Cardinality(UNION {VoidedOn(p, d) : d \in from .. to})
  /\ \A k \in keys : ~probes[k].chain_case /\ probes[k].chain_day \in from .. to

\* The rows are marked after the transaction, which an answer that is lost keeps from happening.
open_case(p) ==
  LET keys == chosen(p).keys
      from == Min(chosen(p).days)
      to == Max(chosen(p).days)
      Filed(known) == probes' = [k \in Ids |-> IF k \in keys THEN [probes[k] EXCEPT !.chain_case = TRUE, !.in_case = known]
                                               ELSE probes[k]]
  IN IF ~ready(p) THEN UNCHANGED <<cases, refusals, probes>>
     ELSE IF openCapabilityCase(p, from, to, keys)
     THEN /\ cases' = Append(cases, [provider |-> p, from |-> from, to |-> to, keys |-> keys])
          /\ Filed(TRUE) \/ (Rpc /\ Filed(FALSE))
          /\ UNCHANGED refusals
     ELSE /\ refusals' = refusals \cup {<<p, from, to>>}
          /\ UNCHANGED <<cases, probes>>

accuse(p) ==
  /\ pc = "cases" /\ p \in work /\ work' = work \ {p}
  /\ open_case(p)
  /\ UNCHANGED <<chainVars, hunterVars, pc, crashes>>

end_cases ==
  /\ pc = "cases" /\ work = {} /\ pc' = "idle"
  /\ UNCHANGED <<chainVars, hunterVars, probes, work, cases, refusals, crashes>>

-----------------------------------------------------------------------------
(* Around it *)

\* A Relay settles a receipt; an escrow whose window ends is released.
settles(k) ==
  /\ probes[k].chain = "queued"
  /\ probes' = [probes EXCEPT ![k].chain = "pending"]
  /\ UNCHANGED <<chainVars, hunterVars, pc, work, cases, refusals, crashes>>
releases(k) ==
  /\ probes[k].chain = "pending"
  /\ probes' = [probes EXCEPT ![k].chain = "released"]
  /\ UNCHANGED <<chainVars, hunterVars, pc, work, cases, refusals, crashes>>

another_hunter(p) ==
  /\ others[p] < OtherVoids /\ Allowed(p)
  /\ others' = [others EXCEPT ![p] = @ + 1]
  /\ UNCHANGED <<day, hunterVars, probes, pc, work, cases, refusals, crashes>>

tomorrow ==
  /\ day < MaxDay /\ day' = day + 1
  /\ others' = [p \in Providers |-> 0]
  /\ UNCHANGED <<hunterVars, probes, pc, work, cases, refusals, crashes>>

\* Mutant: a restart suspends nobody.
restart_clean ==
  /\ "crash" \in Faults /\ crashes < MaxCrashes /\ crashes' = crashes + 1
  /\ pc' = "idle" /\ work' = {} /\ suspended' = {}
  /\ probes' = [k \in Ids |-> IF probes[k].state = "sent" THEN [probes[k] EXCEPT !.state = "lost"] ELSE probes[k]]
  /\ UNCHANGED <<chainVars, batches, basic, capability, cases, refusals>>

\* The process ends and starts again: an answer under way is lost, its key used up.
restart ==
  /\ "crash" \in Faults /\ crashes < MaxCrashes /\ crashes' = crashes + 1
  /\ pc' = "idle" /\ work' = {} /\ suspended' = Suspects
  /\ \E status \in {"none", "queued"} :
       probes' = [k \in Ids |-> IF probes[k].state = "sent" THEN [probes[k] EXCEPT !.state = "lost", !.chain = status]
                                ELSE probes[k]]
  /\ UNCHANGED <<chainVars, batches, basic, capability, cases, refusals>>

Answered == \E e \in Exchanges : answered(e.task, e.answer, e.readable)

Loop ==
  \/ \E p \in Providers : probe(p) \/ accuse(p)
  \/ \E k \in Ids : finish(k)
  \/ \E b \in DOMAIN batches : flush(b)
  \/ unreachable \/ Answered \/ start_flush \/ end_flush \/ end_cases

Next ==
  \/ Loop \/ restart \/ tomorrow
  \/ \E k \in Ids : settles(k) \/ releases(k)
  \/ \E p \in Providers : another_hunter(p)

Init ==
  /\ day = 1 /\ others = [p \in Providers |-> 0]
  /\ batches = <<>> /\ probes = <<>> /\ suspended = {}
  /\ basic = [p \in Providers |-> <<>>] /\ capability = [p \in Providers |-> <<>>]
  /\ pc = "idle" /\ work = {} /\ cases = <<>> /\ refusals = {} /\ crashes = 0

Spec == Init /\ [][Next]_vars

-----------------------------------------------------------------------------
\* Once a void or a dispute has shown who owns a batch, no key of it is used for a new probe
\* (probes.py:11-13: the owner stays unknown until no key of it is left to recognise).
KeysRetired ==
  \A k \in Having("sent"), j \in Ids : probes[j].batch = probes[k].batch => probes[j].chain \notin {"voided", "disputed"}

\* What waits to be voided and what was voided today fit in the Provider's free probes of one day, restarts and
\* other hunters or not.
AllowanceKept ==
  \A p \in Providers :
    Cardinality({k \in Having("answered") : probes[k].provider = p} \cup VoidedOn(p, day)) <= voids_per_day

\* A Provider whose record is too bad is not routed to, after a restart either.
BadSuspended == pc \notin {"sent"} => Suspects \subseteq suspended

\* The chain refuses no case the hunter sends: it is of whole, closed days, all of their probes, in the limits of
\* openCapabilityCase.
CaseAccepted == refusals = {}
=============================================================================
