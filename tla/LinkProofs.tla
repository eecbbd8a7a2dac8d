----------------------------- MODULE LinkProofs -----------------------------
(***************************************************************************)
(* Proofs about ProviderLink, for any number of calls, authorizations,     *)
(* slots, faults, restarts and sessions: one execution per authorization,  *)
(* one answer, no slot lost, no dead session registered, no frame whose    *)
(* key is gone.                                                            *)
(***************************************************************************)
EXTENDS ProviderLink, FiniteSetTheorems, SequenceTheorems, WellFoundedInduction, TLAPS

JobPcs == {"none", "queued", "verified", "admitted", "running", "served", "refused", "failed", "over"}
Jobs == [pc : JobPcs, at : Nat, seq : Nat]
Results == {Nobody} \cup [authorization : Authorizations, receipt : Calls, length : Nat, sealed_at : Nat]
Rows == [state : {"none", "running", "completed"}, result : Results]
Messages ==
  [type : {"chunk"}, delta : [seq : Nat, sealed_at : Nat]]
    \cup [type : {"result"}, executed : {"yes", "no", "unknown"}, answer : Results]

\* What the proof needs to know of the types.
Typed ==
  /\ now \in Nat
  /\ jobs \in [Calls -> Jobs]
  /\ journal \in [Authorizations -> Rows]
  /\ runs \in [Authorizations -> Nat]
  /\ wire \in [Calls -> Seq(Messages)]

\* The journal says at least as much as happened, and one thread at most is past it.
Journalled ==
  /\ \A a \in Authorizations : runs[a] = 0 \/ (runs[a] = 1 /\ journal[a].state # "none")
  /\ \A c \in Calls : JobIs(c, "running") => journal[Auth(c)].state = "running"
  /\ \A c, d \in Calls : JobIs(c, "running") /\ JobIs(d, "running") /\ Auth(c) = Auth(d) => c = d
  /\ \A c \in Calls : JobIs(c, "served") => journal[Auth(c)].state = "completed"

\* An answer on its way is the journal's, and the journal's will not change any more.
Answered(m, row) == m.type = "result" /\ m.executed = "yes" => row.state = "completed" /\ m.answer = row.result
AnswersKept == \A c \in Calls : \A i \in DOMAIN wire[c] : Answered(wire[c][i], journal[Auth(c)])

LinkInv == Typed /\ Journalled /\ AnswersKept

-----------------------------------------------------------------------------
LEMMA AuthTyped == \A c \in Calls : Auth(c) \in Authorizations
  BY ConsumerAssumption DEF Auth

LEMMA LinkInvInit == Init => LinkInv
<1> SUFFICES ASSUME Init PROVE LinkInv
  OBVIOUS
<1> USE DEF Init, ConsumerInit, WorkerInit
<1>1. Typed
  BY DEF Typed, Jobs, JobPcs, NoJob, Rows, NoRow, Results
<1>2. Journalled
  BY DEF Journalled, JobIs, NoJob
<1>3. AnswersKept
  BY DEF AnswersKept
<1> QED
  BY <1>1, <1>2, <1>3 DEF LinkInv

\* A step that leaves the jobs, the journal and the wire alone.
LEMMA Elsewhere ==
  ASSUME LinkInv, now' \in Nat, UNCHANGED <<jobs, journal, runs, wire>>
  PROVE  LinkInv'
<1>1. Typed'
  BY DEF LinkInv, Typed
<1>2. Journalled'
  BY DEF LinkInv, Journalled, JobIs, Auth
<1>3. AnswersKept'
  BY DEF LinkInv, AnswersKept, Answered, Auth
<1> QED
  BY <1>1, <1>2, <1>3 DEF LinkInv

\* A step that only loses messages, or reads the first of a sequence.
LEMMA Reads ==
  ASSUME LinkInv, now' = now, UNCHANGED <<jobs, journal, runs>>,
         wire' \in [Calls -> Seq(Messages)],
         \A c \in Calls : wire'[c] = wire[c] \/ wire'[c] = <<>> \/ (wire[c] # <<>> /\ wire'[c] = Tail(wire[c]))
  PROVE  LinkInv'
<1>1. Typed'
  BY DEF LinkInv, Typed
<1>2. Journalled'
  BY DEF LinkInv, Journalled, JobIs, Auth
<1>3. AnswersKept'
  <2> SUFFICES ASSUME NEW c \in Calls, NEW i \in DOMAIN wire'[c]
               PROVE  Answered(wire'[c][i], journal[Auth(c)])
    BY DEF AnswersKept, Answered, Auth
  <2>1. wire[c] \in Seq(Messages)
    BY DEF LinkInv, Typed
  <2>2. \E j \in DOMAIN wire[c] : wire'[c][i] = wire[c][j]
    <3>1. CASE wire'[c] = wire[c]
      BY <3>1
    <3>2. CASE wire'[c] = <<>>
      BY <3>2
    <3>3. CASE wire[c] # <<>> /\ wire'[c] = Tail(wire[c])
      <4>1. i \in 1 .. Len(wire[c]) - 1 /\ wire'[c][i] = wire[c][i + 1]
        BY <3>3, <2>1
      <4> QED
        BY <4>1, <2>1
    <3> QED
      BY <3>1, <3>2, <3>3
  <2> QED
    BY <2>2 DEF LinkInv, AnswersKept
<1> QED
  BY <1>1, <1>2, <1>3 DEF LinkInv

\* A step that moves jobs where the journal is not asked: no job starts running, one served was completed.
LEMMA Moves ==
  ASSUME LinkInv, now' = now, UNCHANGED <<journal, runs, wire>>, jobs' \in [Calls -> Jobs],
         \A c \in Calls : jobs'[c].pc = "running" => jobs[c].pc = "running",
         \A c \in Calls : jobs'[c].pc = "served" => journal[Auth(c)].state = "completed"
  PROVE  LinkInv'
<1>1. Typed'
  BY DEF LinkInv, Typed
<1>2. Journalled'
  BY DEF LinkInv, Journalled, JobIs, Auth
<1>3. AnswersKept'
  BY DEF LinkInv, AnswersKept, Answered, Auth
<1> QED
  BY <1>1, <1>2, <1>3 DEF LinkInv

-----------------------------------------------------------------------------
(* The Provider's jobs *)

LEMMA HandleJobKeeps == ASSUME LinkInv, NEW c \in Calls, handle_job(c), now' = now, UNCHANGED wire PROVE LinkInv'
<1> DEFINE pc == IF ~verify_authorization(Payload(c).authorization, now) THEN "refused"
                 ELSE CASE journal[Auth(c)].state = "completed" -> "served"
                        [] journal[Auth(c)].state = "running"   -> "refused"
                        [] journal[Auth(c)].state = "none"      -> "verified"
<1>1. journal[Auth(c)].state \in {"none", "running", "completed"}
  BY AuthTyped DEF LinkInv, Typed, Rows
<1>2. pc \in {"refused", "verified", "served"} /\ (pc = "served" => journal[Auth(c)].state = "completed")
  BY <1>1
<1>3. jobs' = [jobs EXCEPT ![c].at = now, ![c].pc = pc] /\ UNCHANGED workerStore
  BY DEF handle_job
<1> HIDE DEF pc
<1>4. jobs' \in [Calls -> Jobs]
  BY <1>2, <1>3 DEF LinkInv, Typed, Jobs, JobPcs
<1>5. \A d \in Calls : jobs'[d].pc = IF d = c THEN pc ELSE jobs[d].pc
  BY <1>3 DEF LinkInv, Typed, Jobs
<1>6. \A d \in Calls : jobs'[d].pc = "running" => jobs[d].pc = "running"
  BY <1>2, <1>5
<1>7. \A d \in Calls : jobs'[d].pc = "served" => journal[Auth(d)].state = "completed"
  BY <1>2, <1>5 DEF LinkInv, Journalled, JobIs
<1>8. UNCHANGED <<journal, runs>>
  BY <1>3 DEF workerStore
<1> QED
  BY <1>4, <1>6, <1>7, <1>8, Moves

\* A job's program counter is set to one that is neither running nor served.
LEMMA MovesOff ==
  ASSUME LinkInv, now' = now, UNCHANGED <<journal, runs, wire>>, NEW c \in Calls, NEW pc \in JobPcs \ {"running", "served"},
         JobGoto(c, pc) \/ JobStarts(c, pc)
  PROVE  LinkInv'
<1>0. jobs \in [Calls -> Jobs] /\ pc \in JobPcs
  BY DEF LinkInv, Typed
<1>1. jobs' \in [Calls -> Jobs] /\ \A d \in Calls : jobs'[d].pc = IF d = c THEN pc ELSE jobs[d].pc
  <2>1. CASE JobGoto(c, pc)
    BY <1>0, <2>1 DEF Jobs, JobGoto
  <2>2. CASE JobStarts(c, pc)
    <3> DEFINE job == [NoJob EXCEPT !.pc = pc]
    <3>1. job \in Jobs /\ job.pc = pc
      BY <1>0 DEF NoJob, Jobs
    <3>2. jobs' = [jobs EXCEPT ![c] = job]
      BY <2>2 DEF JobStarts
    <3> HIDE DEF job
    <3> QED
      BY <1>0, <3>1, <3>2
  <2> QED
    BY <2>1, <2>2
<1>2. \A d \in Calls : jobs'[d].pc = IF d = c THEN pc ELSE jobs[d].pc
  BY <1>1
<1>3. \A d \in Calls : jobs'[d].pc = "running" => jobs[d].pc = "running"
  BY <1>2
<1>4. \A d \in Calls : jobs'[d].pc = "served" => journal[Auth(d)].state = "completed"
  BY <1>2 DEF LinkInv, Journalled, JobIs
<1> QED
  BY <1>1, <1>3, <1>4, Moves

LEMMA AdmitKeeps == ASSUME LinkInv, NEW c \in Calls, admit(c), now' = now, UNCHANGED wire PROVE LinkInv'
<1>1. \E pc \in {"admitted", "refused"} : JobStarts(c, pc)
  BY DEF admit
<1>2. UNCHANGED <<journal, runs>>
  BY DEF admit
<1>3. {"admitted", "refused"} \subseteq JobPcs \ {"running", "served"}
  BY DEF JobPcs
<1> QED
  BY <1>1, <1>2, <1>3, MovesOff

\* The only step that calls the backend: the row is not there, so it was not called before.
LEMMA BeginKeeps == ASSUME LinkInv, NEW c \in Calls, begin(c), now' = now, UNCHANGED wire PROVE LinkInv'
<1> DEFINE a == Auth(c)
<1>1. CASE journal[a].state # "none"
  <2>1. JobGoto(c, "refused") /\ UNCHANGED <<journal, runs>>
    BY <1>1 DEF begin, refuse
  <2>2. "refused" \in JobPcs \ {"running", "served"}
    BY DEF JobPcs
  <2> QED
    BY <2>1, <2>2, MovesOff
<1>2. CASE journal[a].state = "none"
  <2>0. a \in Authorizations
    BY AuthTyped
  <2>1. /\ journal' = [journal EXCEPT ![a].state = "running"]
        /\ runs' = [runs EXCEPT ![a] = @ + 1]
        /\ jobs' = [jobs EXCEPT ![c].pc = "running"]
    BY <1>2 DEF begin, JobGoto
  <2>2. \A d \in Calls : jobs'[d].pc = IF d = c THEN "running" ELSE jobs[d].pc
    BY <2>1 DEF LinkInv, Typed, Jobs
  <2>3. \A b \in Authorizations : journal'[b].state = IF b = a THEN "running" ELSE journal[b].state
    BY <2>0, <2>1 DEF LinkInv, Typed, Rows
  <2>4. \A b \in Authorizations : runs'[b] = IF b = a THEN runs[b] + 1 ELSE runs[b]
    BY <2>0, <2>1 DEF LinkInv, Typed
  <2>5. \A d \in Calls : Auth(d) = a => ~JobIs(d, "running") /\ ~JobIs(d, "served")
    BY <1>2 DEF LinkInv, Journalled
  <2>6. Typed'
    <3>1. jobs' \in [Calls -> Jobs]
      BY <2>1 DEF LinkInv, Typed, Jobs, JobPcs
    <3>2. journal' \in [Authorizations -> Rows]
      BY <2>0, <2>1 DEF LinkInv, Typed, Rows
    <3>3. runs' \in [Authorizations -> Nat]
      BY <2>0, <2>1 DEF LinkInv, Typed
    <3> QED
      BY <3>1, <3>2, <3>3 DEF LinkInv, Typed
  <2>7. Journalled'
    <3>1. \A b \in Authorizations : runs'[b] = 0 \/ (runs'[b] = 1 /\ journal'[b].state # "none")
      BY <1>2, <2>3, <2>4 DEF LinkInv, Journalled
    <3>2. \A d \in Calls : jobs'[d].pc = "running" => journal'[Auth(d)].state = "running"
      BY <2>2, <2>3, AuthTyped DEF LinkInv, Journalled, JobIs
    <3>3. \A d, e \in Calls : jobs'[d].pc = "running" /\ jobs'[e].pc = "running" /\ Auth(d) = Auth(e) => d = e
      BY <2>2, <2>5 DEF LinkInv, Journalled, JobIs
    <3>4. \A d \in Calls : jobs'[d].pc = "served" => journal'[Auth(d)].state = "completed"
      BY <2>2, <2>3, <2>5, AuthTyped DEF LinkInv, Journalled, JobIs
    <3> QED
      BY <3>1, <3>2, <3>3, <3>4 DEF Journalled, JobIs, Auth
  <2>8. AnswersKept'
    <3> SUFFICES ASSUME NEW d \in Calls, NEW i \in DOMAIN wire[d] PROVE Answered(wire[d][i], journal'[Auth(d)])
      BY DEF AnswersKept, Answered, Auth
    <3>1. Answered(wire[d][i], journal[Auth(d)])
      BY DEF LinkInv, AnswersKept
    <3>2. Auth(d) # a => journal'[Auth(d)] = journal[Auth(d)]
      BY <2>1, <2>0, AuthTyped DEF LinkInv, Typed
    <3> QED
      BY <1>2, <3>1, <3>2 DEF Answered
  <2> QED
    BY <2>6, <2>7, <2>8 DEF LinkInv
<1> QED
  BY <1>1, <1>2

\* The only step that writes an answer: the journal had none, so nobody has seen another.
LEMMA CompleteKeeps == ASSUME LinkInv, NEW c \in Calls, complete(c), now' = now, UNCHANGED wire PROVE LinkInv'
<1> DEFINE a == Auth(c)
           row == [state |-> "completed", result |-> answer(c)]
<1>0. a \in Authorizations
  BY AuthTyped
<1>1. journal' = [journal EXCEPT ![a] = row] /\ jobs' = [jobs EXCEPT ![c].pc = "served"] /\ runs' = runs
  BY DEF complete, JobGoto
<1>2. JobIs(c, "running") /\ journal[a].state = "running"
  BY DEF complete, LinkInv, Journalled
<1>3. row \in Rows /\ row.state = "completed"
  BY <1>0 DEF Rows, Results, answer, LinkInv, Typed, Jobs
<1> HIDE DEF row
<1>4. \A d \in Calls : jobs'[d].pc = IF d = c THEN "served" ELSE jobs[d].pc
  BY <1>1 DEF LinkInv, Typed, Jobs
<1>5. \A b \in Authorizations : journal'[b] = IF b = a THEN row ELSE journal[b]
  BY <1>0, <1>1 DEF LinkInv, Typed
<1>6. Typed'
  BY <1>0, <1>1, <1>3 DEF LinkInv, Typed, Jobs, JobPcs
<1>7. Journalled'
  <2>1. \A b \in Authorizations : runs'[b] = 0 \/ (runs'[b] = 1 /\ journal'[b].state # "none")
    BY <1>1, <1>3, <1>5 DEF LinkInv, Journalled
  <2>2. \A d \in Calls : jobs'[d].pc = "running" => journal'[Auth(d)].state = "running"
    BY <1>2, <1>4, <1>5, AuthTyped DEF LinkInv, Journalled, JobIs
  <2>3. \A d, e \in Calls : jobs'[d].pc = "running" /\ jobs'[e].pc = "running" /\ Auth(d) = Auth(e) => d = e
    BY <1>4 DEF LinkInv, Journalled, JobIs
  <2>4. \A d \in Calls : jobs'[d].pc = "served" => journal'[Auth(d)].state = "completed"
    BY <1>3, <1>4, <1>5, AuthTyped DEF LinkInv, Journalled, JobIs
  <2> QED
    BY <2>1, <2>2, <2>3, <2>4 DEF Journalled, JobIs, Auth
<1>8. AnswersKept'
  <2> SUFFICES ASSUME NEW d \in Calls, NEW i \in DOMAIN wire[d] PROVE Answered(wire[d][i], journal'[Auth(d)])
    BY DEF AnswersKept, Answered, Auth
  <2>1. Answered(wire[d][i], journal[Auth(d)])
    BY DEF LinkInv, AnswersKept
  <2> QED
    BY <1>2, <1>5, <2>1, AuthTyped DEF Answered
<1> QED
  BY <1>6, <1>7, <1>8 DEF LinkInv

LEMMA FailKeeps == ASSUME LinkInv, NEW c \in Calls, fail(c), now' = now, UNCHANGED wire PROVE LinkInv'
<1>1. "failed" \in JobPcs \ {"running", "served"}
  BY DEF JobPcs
<1> QED
  BY <1>1, MovesOff DEF fail

LEMMA ExecuteKeeps == ASSUME LinkInv, NEW c \in Calls, Execute(c) PROVE LinkInv'
<1>1. now' = now /\ UNCHANGED wire /\ Work(c)
  BY DEF Execute, linkVars
<1> QED
  BY <1>1, HandleJobKeeps, AdmitKeeps, BeginKeeps, CompleteKeeps, FailKeeps DEF Work

-----------------------------------------------------------------------------
(* Calls *)

LEMMA RequestKeeps == ASSUME LinkInv, NEW c \in Calls, request(c) PROVE LinkInv'
<1>1. now' = now /\ UNCHANGED <<journal, runs, wire>>
  BY DEF request, workerStore
<1>2. jobs' = jobs \/ \E pc \in {"queued", "over"} : JobStarts(c, pc)
  BY DEF request
<1>3. {"queued", "over"} \subseteq JobPcs \ {"running", "served"}
  BY DEF JobPcs
<1>4. CASE jobs' = jobs
  BY <1>1, <1>4, Elsewhere DEF LinkInv, Typed
<1> QED
  BY <1>1, <1>2, <1>3, <1>4, MovesOff

\* A message joins the wire of c: if it is an answer, it is the journal's.
LEMMA Sends ==
  ASSUME LinkInv, now' = now, UNCHANGED <<journal, runs>>, NEW c \in Calls,
         NEW m \in Messages, Send(c, m), Answered(m, journal[Auth(c)]),
         jobs' \in [Calls -> Jobs],
         \A d \in Calls : jobs'[d].pc = "running" => jobs[d].pc = "running",
         \A d \in Calls : jobs'[d].pc = "served" => jobs[d].pc = "served"
  PROVE  LinkInv'
<1>0. wire \in [Calls -> Seq(Messages)] /\ (wire' = wire \/ wire' = [wire EXCEPT ![c] = Append(@, m)])
  BY DEF Send, LinkInv, Typed
<1>a. \A d \in Calls : wire'[d] = wire[d] \/ (d = c /\ wire'[d] = Append(wire[d], m))
  BY <1>0
<1>1. Typed'
  <2>1. wire[c] \in Seq(Messages) /\ Append(wire[c], m) \in Seq(Messages)
    BY <1>0
  <2>2. wire' \in [Calls -> Seq(Messages)]
    BY <1>0, <2>1
  <2> QED
    BY <2>2 DEF LinkInv, Typed
<1>2. Journalled'
  BY DEF LinkInv, Journalled, JobIs, Auth
<1>3. AnswersKept'
  <2> SUFFICES ASSUME NEW d \in Calls, NEW i \in DOMAIN wire'[d] PROVE Answered(wire'[d][i], journal[Auth(d)])
    BY DEF AnswersKept, Answered, Auth
  <2>1. CASE wire'[d] = wire[d]
    BY <2>1 DEF LinkInv, AnswersKept
  <2>2. CASE wire'[d] # wire[d]
    <3>1. d = c /\ wire'[c] = Append(wire[c], m) /\ wire[c] \in Seq(Messages)
      BY <1>0, <1>a, <2>2
    <3>2. wire'[c][i] = m \/ (i \in DOMAIN wire[c] /\ wire'[c][i] = wire[c][i])
      BY <3>1
    <3> QED
      BY <3>1, <3>2 DEF LinkInv, AnswersKept
  <2> QED
    BY <2>1, <2>2
<1> QED
  BY <1>1, <1>2, <1>3 DEF LinkInv

LEMMA SendDeltaKeeps == ASSUME LinkInv, NEW c \in Calls, send_delta(c) PROVE LinkInv'
<1> DEFINE m == [type |-> "chunk", delta |-> [seq |-> jobs[c].seq, sealed_at |-> now]]
<1>1. now' = now /\ UNCHANGED <<journal, runs>> /\ Send(c, m) /\ jobs' = [jobs EXCEPT ![c].seq = @ + 1]
  BY DEF send_delta, flush, workerStore
<1>2. m \in Messages /\ Answered(m, journal[Auth(c)])
  BY DEF Messages, Answered, LinkInv, Typed, Jobs
<1>3. jobs' \in [Calls -> Jobs] /\ \A d \in Calls : jobs'[d].pc = jobs[d].pc
  <2>1. jobs' = [jobs EXCEPT ![c].seq = @ + 1] /\ jobs \in [Calls -> Jobs]
    BY <1>1 DEF LinkInv, Typed
  <2> QED
    BY ONLY <2>1 DEF Jobs
<1> HIDE DEF m
<1> QED
  BY <1>1, <1>2, <1>3, Sends

LEMMA ReplyKeeps == ASSUME LinkInv, NEW c \in Calls, reply(c) PROVE LinkInv'
<1>1. now' = now /\ UNCHANGED <<journal, runs>> /\ Send(c, Reply(c)) /\ JobStarts(c, "over")
  BY DEF reply, workerStore
<1>2. Reply(c) \in Messages /\ Answered(Reply(c), journal[Auth(c)])
  <2>1. CASE JobIs(c, "served")
    <3>1. journal[Auth(c)].state = "completed" /\ journal[Auth(c)].result \in Results
      BY <2>1, AuthTyped DEF LinkInv, Journalled, Typed, Rows
    <3>2. Reply(c) = [type |-> "result", executed |-> "yes", answer |-> journal[Auth(c)].result]
      BY <2>1 DEF Reply, JobIs
    <3> QED
      BY <3>1, <3>2 DEF Messages, Answered
  <2>2. CASE JobIs(c, "refused")
    BY <2>2 DEF Reply, JobIs, Messages, Answered, Results
  <2>3. CASE JobIs(c, "failed")
    BY <2>3 DEF Reply, JobIs, Messages, Answered, Results
  <2> QED
    BY <2>1, <2>2, <2>3 DEF reply, JobIs
<1>3. jobs' \in [Calls -> Jobs] /\ \A d \in Calls : jobs'[d].pc = IF d = c THEN "over" ELSE jobs[d].pc
  <2> DEFINE job == [NoJob EXCEPT !.pc = "over"]
  <2>1. job \in Jobs /\ job.pc = "over"
    BY DEF NoJob, Jobs, JobPcs
  <2>2. jobs' = [jobs EXCEPT ![c] = job]
    BY <1>1 DEF JobStarts
  <2> HIDE DEF job
  <2> QED
    BY <2>1, <2>2 DEF LinkInv, Typed
<1> QED
  BY <1>1, <1>2, <1>3, Sends

\* resolve and chunk take the first message off.
LEMMA TakesFirst ==
  ASSUME LinkInv, now' = now, UNCHANGED <<jobs, journal, runs>>, NEW c \in Calls, wire[c] # <<>>,
         wire' = [wire EXCEPT ![c] = Tail(@)]
  PROVE  LinkInv'
<1>1. wire \in [Calls -> Seq(Messages)]
  BY DEF LinkInv, Typed
<1>2. wire' \in [Calls -> Seq(Messages)]
  BY <1>1
<1>3. \A d \in Calls : wire'[d] = wire[d] \/ wire'[d] = <<>> \/ (wire[d] # <<>> /\ wire'[d] = Tail(wire[d]))
  BY <1>1
<1> QED
  BY <1>2, <1>3, Reads

LEMMA CallKeeps == ASSUME LinkInv, NEW c \in Calls, Call(c) PROVE LinkInv'
<1>1. CASE prepare(c)
  BY <1>1, Elsewhere DEF prepare, workerVars, LinkInv, Typed
<1>2. CASE request(c)
  BY <1>2, RequestKeeps
<1>3. CASE Execute(c)
  BY <1>3, ExecuteKeeps
<1>4. CASE send_delta(c)
  BY <1>4, SendDeltaKeeps
<1>5. CASE reply(c)
  BY <1>5, ReplyKeeps
<1>6. CASE resolve(c)
  BY <1>6, TakesFirst DEF resolve, workerVars
<1>7. CASE chunk(c)
  BY <1>7, TakesFirst DEF chunk, workerVars
<1>8. CASE time_out(c)
  BY <1>8, Elsewhere DEF time_out, workerVars, LinkInv, Typed
<1> QED
  BY <1>1, <1>2, <1>3, <1>4, <1>5, <1>6, <1>7, <1>8 DEF Call

-----------------------------------------------------------------------------
(* Sessions, restarts, time *)

LEMMA SessionKeeps == ASSUME LinkInv, NEW s \in DOMAIN sessions, Session(s) PROVE LinkInv'
<1>1. CASE relay_closes(s)
  <2>1. now' = now /\ UNCHANGED <<jobs, journal, runs>>
        /\ wire' = [c \in Calls |-> IF calls[c].session = s THEN <<>> ELSE wire[c]]
    BY <1>1 DEF relay_closes, workerVars
  <2>2. wire' \in [Calls -> Seq(Messages)] /\ \A c \in Calls : wire'[c] = wire[c] \/ wire'[c] = <<>>
    BY <2>1 DEF LinkInv, Typed
  <2> QED
    BY <2>1, <2>2, Reads
<1>2. CASE ~relay_closes(s)
  <2>1. now' = now /\ UNCHANGED <<jobs, journal, runs, wire>>
    BY <1>2 DEF Session, receive_registration, register_provider, serve, announce, provider_closes, workerVars
  <2> QED
    BY <2>1, Elsewhere DEF LinkInv, Typed
<1> QED
  BY <1>1, <1>2

LEMMA RestartKeeps == ASSUME LinkInv, Restart PROVE LinkInv'
<1>1. /\ now' = now /\ UNCHANGED <<journal, runs, wire>>
      /\ jobs' = [c \in Calls |-> IF JobIs(c, "none") THEN NoJob ELSE [NoJob EXCEPT !.pc = "over"]]
  BY DEF Restart, restart
<1>2. jobs' \in [Calls -> Jobs] /\ \A c \in Calls : jobs'[c].pc \in {"none", "over"}
  BY <1>1 DEF NoJob, Jobs, JobPcs
<1> QED
  BY <1>1, <1>2, Moves

LEMMA LinkInvNext == LinkInv /\ [Next]_vars => LinkInv'
<1> SUFFICES ASSUME LinkInv, [Next]_vars PROVE LinkInv'
  OBVIOUS
<1>1. CASE connect
  BY <1>1, Elsewhere DEF connect, LinkInv, Typed
<1>2. CASE Restart
  BY <1>2, RestartKeeps
<1>3. CASE Tick
  <2>1. now' \in Nat /\ UNCHANGED <<jobs, journal, runs, wire>>
    BY <1>3 DEF Tick, workerVars, linkVars, LinkInv, Typed
  <2> QED
    BY <2>1, Elsewhere
<1>4. CASE \E s \in DOMAIN sessions : Session(s)
  BY <1>4, SessionKeeps
<1>5. CASE \E c \in Calls : Call(c)
  BY <1>5, CallKeeps
<1>6. CASE \E a \in Authorizations : Seal(a)
  BY <1>6, Elsewhere DEF Seal, workerVars, linkVars, LinkInv, Typed
<1>8. CASE Sweep
  BY <1>8, Elsewhere DEF Sweep, sweep, linkVars, LinkInv, Typed
<1>7. CASE UNCHANGED vars
  BY <1>7, Elsewhere DEF vars, workerVars, linkVars, LinkInv, Typed
<1> QED
  BY <1>1, <1>2, <1>3, <1>4, <1>5, <1>6, <1>7, <1>8 DEF Next

THEOREM LinkInvariant == Spec => []LinkInv
  BY LinkInvInit, LinkInvNext, PTL DEF Spec

\* The backend is called at most once for an authorization, whatever the Relay resends, the network loses and the
\* Provider restarts (worker.py:190-225).
THEOREM NeverTwice == Spec => []ExecutedOnce
<1>1. LinkInv => ExecutedOnce
  BY DEF LinkInv, Typed, Journalled, ExecutedOnce
<1> QED
  BY <1>1, LinkInvariant, PTL

\* All answers the Provider gives for an authorization are the one in its journal (worker.py:194, 250).
THEOREM OneReceipt == Spec => []OneAnswer
<1>1. LinkInv => OneAnswer
  BY DEF LinkInv, AnswersKept, Answered, OneAnswer, Answers
<1> QED
  BY <1>1, LinkInvariant, PTL

-----------------------------------------------------------------------------
(* Slots.  A job takes one and gives it back; a call has no job before its *)
(* request, so that none is lost when its thread is made.                  *)

Holders == {c \in Calls : jobs[c].pc \in Holding}

ClientStates == {"idle", "waiting", "moved", "answered", "failed"}
CallsTyped ==
  /\ clients \in [Calls -> [state : ClientStates, shown : Nat]]
  /\ calls \in [Calls -> [pc : {"none", "prepared", "waiting", "ended"}, session : Nat]]

\* A call goes through the Relay once, and has its job from then on.
CallsOnce ==
  \A c \in Calls : /\ ClientIs(c, "idle") => CallIs(c, "none")
                   /\ calls[c].pc \in {"none", "prepared"} => JobIs(c, "none")

SlotInv == CallsTyped /\ CallsOnce /\ slots \in Nat /\ SlotsExact

LEMMA HoldersFinite == IsFiniteSet(Holders) /\ Cardinality(Holders) \in Nat
<1>1. Holders \in SUBSET Calls
  BY DEF Holders
<1> QED
  BY <1>1, WorkerAssumption, FS_Subset, FS_CardinalityType

\* Nobody takes a slot or gives one back.
LEMMA HoldersSame ==
  ASSUME SlotsExact, slots' = slots, \A c \in Calls : jobs'[c].pc \in Holding <=> jobs[c].pc \in Holding
  PROVE  SlotsExact'
<1>1. Holders' = Holders
  BY DEF Holders, Holding
<1> QED
  BY <1>1 DEF SlotsExact, Holders

LEMMA HolderJoins ==
  ASSUME SlotsExact, slots \in Nat, slots' = slots - 1, NEW c \in Calls, jobs[c].pc \notin Holding, jobs'[c].pc \in Holding,
         \A d \in Calls \ {c} : jobs'[d].pc = jobs[d].pc
  PROVE  SlotsExact'
<1>1. Holders' = Holders \cup {c} /\ c \notin Holders
  BY DEF Holders, Holding
<1>2. Cardinality(Holders') = Cardinality(Holders) + 1
  BY <1>1, HoldersFinite, FS_AddElement
<1>3. slots + Cardinality(Holders) = Capacity
  BY DEF SlotsExact, Holders
<1>4. slots' + Cardinality(Holders') = Capacity
  BY <1>2, <1>3, HoldersFinite
<1> QED
  BY <1>4 DEF SlotsExact, Holders

LEMMA HolderLeaves ==
  ASSUME SlotsExact, slots \in Nat, slots' = slots + 1, NEW c \in Calls, jobs[c].pc \in Holding, jobs'[c].pc \notin Holding,
         \A d \in Calls \ {c} : jobs'[d].pc = jobs[d].pc
  PROVE  SlotsExact'
<1>1. Holders' = Holders \ {c} /\ c \in Holders
  BY DEF Holders, Holding
<1>2. Cardinality(Holders') = Cardinality(Holders) - 1
  BY <1>1, HoldersFinite, FS_RemoveElement
<1>3. slots + Cardinality(Holders) = Capacity
  BY DEF SlotsExact, Holders
<1>4. slots' + Cardinality(Holders') = Capacity
  BY <1>2, <1>3, HoldersFinite
<1> QED
  BY <1>4 DEF SlotsExact, Holders

\* How the two ways to move a job change the program counters.
LEMMA PcGoto ==
  ASSUME jobs \in [Calls -> Jobs], NEW c \in Calls, NEW pc, JobGoto(c, pc) \/ JobStarts(c, pc)
  PROVE  \A d \in Calls : jobs'[d].pc = IF d = c THEN pc ELSE jobs[d].pc
<1>1. CASE JobGoto(c, pc)
  BY <1>1 DEF Jobs, JobGoto
<1>2. CASE JobStarts(c, pc)
  <2> DEFINE job == [NoJob EXCEPT !.pc = pc]
  <2>1. job.pc = pc
    BY DEF NoJob
  <2>2. jobs' = [jobs EXCEPT ![c] = job]
    BY <1>2 DEF JobStarts
  <2> HIDE DEF job
  <2> QED
    BY <2>1, <2>2
<1> QED
  BY <1>1, <1>2

LEMMA SlotInvInit == Init => SlotInv
<1> SUFFICES ASSUME Init PROVE SlotInv
  OBVIOUS
<1> USE DEF Init, ConsumerInit, WorkerInit
<1>1. CallsTyped
  BY DEF CallsTyped, ClientStates, NoCall
<1>2. CallsOnce
  BY DEF CallsOnce, ClientIs, CallIs, JobIs, NoJob, NoCall
<1>3. slots \in Nat /\ SlotsExact
  <2>1. Holders = {}
    BY DEF Holders, Holding, NoJob
  <2>2. Cardinality(Holders) = 0
    BY <2>1, FS_EmptySet
  <2> QED
    BY <2>2, WorkerAssumption DEF SlotsExact, Holders
<1> QED
  BY <1>1, <1>2, <1>3 DEF SlotInv

-----------------------------------------------------------------------------
\* What the Consumer has read: a stream that was not opened stays so.
LEMMA StreamTyped ==
  ASSUME NEW client \in [state : ClientStates, shown : Nat], NEW c, NEW line, line.type \in {"delta", "result", "error"}
  PROVE  stream(client, c, line) \in [state : ClientStates, shown : Nat] /\ (stream(client, c, line).state = "idle" => client.state = "idle")
<1>1. CASE client.state # "waiting"
  BY <1>1 DEF stream
<1>2. CASE client.state = "waiting" /\ line.type = "delta"
  BY <1>2 DEF stream, open_delta, ClientStates
<1>3. CASE client.state = "waiting" /\ line.type = "result"
  BY <1>3 DEF stream, open_response, ClientStates
<1>4. CASE client.state = "waiting" /\ line.type = "error"
  BY <1>4 DEF stream, ClientStates
<1> QED
  BY <1>1, <1>2, <1>3, <1>4

\* The calls' threads and the Consumers move on, the jobs do not; nobody waits for a request a second time.
LEMMA CallsMove ==
  ASSUME SlotInv, UNCHANGED <<slots, jobs>>, CallsTyped',
         \A c \in Calls : clients'[c].state = "idle" => clients[c].state = "idle" /\ calls'[c] = calls[c],
         \A c \in Calls : calls'[c].pc \in {"none", "prepared"} => calls[c].pc \in {"none", "prepared"}
  PROVE  SlotInv'
<1>1. CallsOnce'
  BY DEF SlotInv, CallsOnce, ClientIs, CallIs, JobIs
<1>2. SlotsExact'
  BY DEF SlotInv, SlotsExact
<1> QED
  BY <1>1, <1>2 DEF SlotInv

\* One call's thread ends or goes on, and its Consumer reads a line.
LEMMA CallEnds ==
  ASSUME SlotInv, UNCHANGED <<slots, jobs>>, NEW c \in Calls,
         CallIs(c, "waiting"), calls' = calls \/ calls' = [calls EXCEPT ![c].pc = "ended"],
         \E line : line.type \in {"delta", "result", "error"} /\ read_stream(c, line)
  PROVE  SlotInv'
<1>0. PICK line : line.type \in {"delta", "result", "error"} /\ read_stream(c, line)
  OBVIOUS
<1>1. CallsTyped /\ clients[c] \in [state : ClientStates, shown : Nat]
  BY DEF SlotInv, CallsTyped
<1>2. clients' = [clients EXCEPT ![c] = stream(clients[c], c, line)]
  BY <1>0 DEF read_stream
<1>a. stream(clients[c], c, line) \in [state : ClientStates, shown : Nat] /\ (stream(clients[c], c, line).state = "idle" => clients[c].state = "idle")
  BY <1>0, <1>1, StreamTyped
<1>3. CallsTyped'
  <2>1. clients' \in [Calls -> [state : ClientStates, shown : Nat]]
    BY <1>1, <1>2, <1>a DEF CallsTyped
  <2>2. calls' \in [Calls -> [pc : {"none", "prepared", "waiting", "ended"}, session : Nat]]
    BY <1>1 DEF CallsTyped
  <2> QED
    BY <2>1, <2>2 DEF CallsTyped
<1>4. clients[c].state # "idle"
  BY DEF SlotInv, CallsOnce, ClientIs, CallIs
<1>5. \A d \in Calls : clients'[d].state = "idle" => d # c /\ clients[d].state = "idle"
  BY <1>1, <1>2, <1>4, <1>a DEF CallsTyped
<1>6. \A d \in Calls : d # c => calls'[d] = calls[d]
  BY <1>1 DEF CallsTyped
<1>7. \A d \in Calls : calls'[d].pc \in {"none", "prepared"} => calls[d].pc \in {"none", "prepared"}
  BY <1>1 DEF CallsTyped
<1> QED
  BY <1>3, <1>5, <1>6, <1>7, CallsMove

\* A job moves, and its slot with it; the calls stand still.
LEMMA JobMoves ==
  ASSUME LinkInv, SlotInv, UNCHANGED <<calls, clients>>, NEW c \in Calls, NEW pc \in JobPcs,
         \A d \in Calls : jobs'[d].pc = IF d = c THEN pc ELSE jobs[d].pc,
         ~JobIs(c, "none"),
         \/ slots' = slots /\ (pc \in Holding <=> jobs[c].pc \in Holding)
         \/ slots > 0 /\ slots' = slots - 1 /\ pc \in Holding /\ jobs[c].pc \notin Holding
         \/ slots' = slots + 1 /\ pc \notin Holding /\ jobs[c].pc \in Holding
  PROVE  SlotInv'
<1>1. CallsTyped'
  BY DEF SlotInv, CallsTyped
<1>2. CallsOnce'
  BY DEF SlotInv, CallsOnce, ClientIs, CallIs, JobIs
<1>3. slots' \in Nat
  BY DEF SlotInv
<1>4. SlotsExact'
  BY HoldersSame, HolderJoins, HolderLeaves DEF SlotInv
<1> QED
  BY <1>1, <1>2, <1>3, <1>4 DEF SlotInv

LEMMA WorkSlots == ASSUME LinkInv, SlotInv, NEW c \in Calls, Work(c), UNCHANGED <<calls, clients>> PROVE SlotInv'
<1>0. jobs \in [Calls -> Jobs] /\ slots \in Nat
  BY DEF LinkInv, Typed, SlotInv
<1>1. CASE handle_job(c)
  <2> DEFINE pc == IF ~verify_authorization(Payload(c).authorization, now) THEN "refused"
                   ELSE CASE journal[Auth(c)].state = "completed" -> "served"
                          [] journal[Auth(c)].state = "running"   -> "refused"
                          [] journal[Auth(c)].state = "none"      -> "verified"
  <2>1. journal[Auth(c)].state \in {"none", "running", "completed"}
    BY AuthTyped DEF LinkInv, Typed, Rows
  <2>2. pc \in {"refused", "verified", "served"}
    BY <2>1
  <2>3. jobs' = [jobs EXCEPT ![c].at = now, ![c].pc = pc] /\ slots' = slots /\ jobs[c].pc = "queued"
    BY <1>1 DEF handle_job, workerStore, JobIs
  <2> HIDE DEF pc
  <2>4. \A d \in Calls : jobs'[d].pc = IF d = c THEN pc ELSE jobs[d].pc
    BY <1>0, <2>3 DEF Jobs
  <2>5. pc \in JobPcs /\ pc \notin Holding /\ jobs[c].pc \notin Holding /\ ~JobIs(c, "none")
    BY <2>2, <2>3 DEF JobPcs, Holding, JobIs
  <2> QED
    BY <2>3, <2>4, <2>5, JobMoves
<1>2. CASE admit(c)
  <2>1. PICK pc \in {"admitted", "refused"} : JobStarts(c, pc) /\ IF pc = "admitted" THEN slots > 0 /\ slots' = slots - 1 ELSE slots' = slots
    BY <1>2 DEF admit
  <2>2. \A d \in Calls : jobs'[d].pc = IF d = c THEN pc ELSE jobs[d].pc
    BY <1>0, <2>1, PcGoto
  <2>3. jobs[c].pc = "verified" /\ ~JobIs(c, "none") /\ pc \in JobPcs
    BY <1>2, <2>1 DEF admit, JobIs, JobPcs
  <2>4. jobs[c].pc \notin Holding /\ (pc \in Holding <=> pc = "admitted")
    BY <2>1, <2>3 DEF Holding
  <2> QED
    BY <2>1, <2>2, <2>3, <2>4, JobMoves
<1>3. CASE begin(c)
  <2>1. PICK pc \in {"refused", "running"} : JobGoto(c, pc) /\ slots' = IF pc = "refused" THEN slots + 1 ELSE slots
    BY <1>3 DEF begin, refuse
  <2>2. \A d \in Calls : jobs'[d].pc = IF d = c THEN pc ELSE jobs[d].pc
    BY <1>0, <2>1, PcGoto
  <2>3. jobs[c].pc = "admitted" /\ ~JobIs(c, "none") /\ pc \in JobPcs
    BY <1>3, <2>1 DEF begin, JobIs, JobPcs
  <2>4. jobs[c].pc \in Holding /\ (pc \in Holding <=> pc = "running")
    BY <2>1, <2>3 DEF Holding
  <2> QED
    BY <2>1, <2>2, <2>3, <2>4, JobMoves
<1>4. CASE complete(c) \/ fail(c)
  <2>1. PICK pc \in {"served", "failed"} : JobGoto(c, pc) /\ slots' = slots + 1 /\ JobIs(c, "running")
    BY <1>4 DEF complete, fail
  <2>2. \A d \in Calls : jobs'[d].pc = IF d = c THEN pc ELSE jobs[d].pc
    BY <1>0, <2>1, PcGoto
  <2>3. jobs[c].pc \in Holding /\ ~JobIs(c, "none") /\ pc \in JobPcs /\ pc \notin Holding
    BY <2>1 DEF JobIs, JobPcs, Holding
  <2> QED
    BY <2>1, <2>2, <2>3, JobMoves
<1> QED
  BY <1>1, <1>2, <1>3, <1>4 DEF Work

LEMMA PrepareSlots == ASSUME SlotInv, NEW c \in Calls, prepare(c), registered \in Nat PROVE SlotInv'
<1>1. CallsTyped /\ clients[c].state = "idle" /\ calls[c].pc = "none"
  BY DEF SlotInv, CallsOnce, prepare, ClientIs, CallIs
<1>2. UNCHANGED <<slots, jobs>>
  BY DEF prepare, workerVars
<1>3. PICK pc \in {"prepared", "ended"}, session \in Nat, state \in {"waiting", "moved"} :
        /\ calls' = [calls EXCEPT ![c].pc = pc, ![c].session = session] \/ calls' = [calls EXCEPT ![c].pc = pc]
        /\ clients' = [clients EXCEPT ![c].state = state]
  BY DEF prepare
<1>4. CallsTyped'
  BY <1>1, <1>3 DEF CallsTyped, ClientStates
<1>5. \A d \in Calls : /\ clients'[d].state = "idle" => d # c /\ clients[d].state = "idle"
                       /\ d # c => calls'[d] = calls[d]
  BY <1>1, <1>3 DEF CallsTyped
<1> QED
  BY <1>1, <1>2, <1>4, <1>5, CallsMove

LEMMA RequestSlots == ASSUME LinkInv, SlotInv, NEW c \in Calls, request(c) PROVE SlotInv'
<1>1. CallsTyped /\ CallIs(c, "prepared") /\ JobIs(c, "none") /\ ~ClientIs(c, "idle") /\ slots' = slots
  BY DEF SlotInv, CallsOnce, CallIs, ClientIs, request, workerStore
<1>2. CASE sessions[calls[c].session].relay = "closed"
  <2>1. calls' = [calls EXCEPT ![c].pc = "ended"] /\ clients' = [clients EXCEPT ![c] = stream(clients[c], c, NotDispatched)]
        /\ jobs' = jobs
    BY <1>2 DEF request, read_stream
  <2>2. NotDispatched.type = "error" /\ clients[c] \in [state : ClientStates, shown : Nat]
    BY <1>1 DEF NotDispatched, CallsTyped
  <2>3. CallsTyped'
    BY <1>1, <2>1, <2>2, StreamTyped DEF CallsTyped
  <2>4. \A d \in Calls : clients'[d].state = "idle" => d # c /\ clients[d].state = "idle"
    BY <1>1, <2>1, <2>2, StreamTyped DEF CallsTyped, ClientIs
  <2>5. \A d \in Calls : /\ d # c => calls'[d] = calls[d]
                         /\ calls'[d].pc \in {"none", "prepared"} => calls[d].pc \in {"none", "prepared"}
    BY <1>1, <2>1 DEF CallsTyped
  <2> QED
    BY <1>1, <2>1, <2>3, <2>4, <2>5, CallsMove
<1>3. CASE sessions[calls[c].session].relay # "closed"
  <2>1. calls' = [calls EXCEPT ![c].pc = "waiting"] /\ clients' = clients
    BY <1>3 DEF request
  <2>2. PICK pc \in {"queued", "over"} : JobStarts(c, pc)
    BY <1>3 DEF request
  <2>3. \A d \in Calls : jobs'[d].pc = IF d = c THEN pc ELSE jobs[d].pc
    BY <2>2, PcGoto DEF LinkInv, Typed
  <2>4. CallsTyped'
    BY <1>1, <2>1 DEF CallsTyped
  <2>5. \A d \in Calls : calls'[d].pc = IF d = c THEN "waiting" ELSE calls[d].pc
    BY <1>1, <2>1 DEF CallsTyped
  <2>6. CallsOnce'
    BY <1>1, <2>1, <2>3, <2>5 DEF SlotInv, CallsOnce, ClientIs, CallIs, JobIs
  <2>7. \A d \in Calls : jobs'[d].pc \in Holding <=> jobs[d].pc \in Holding
    BY <1>1, <2>2, <2>3 DEF Holding, JobIs
  <2>8. SlotsExact'
    BY <1>1, <2>7, HoldersSame DEF SlotInv
  <2> QED
    BY <1>1, <2>4, <2>6, <2>8 DEF SlotInv
<1> QED
  BY <1>2, <1>3

\* A job that stays where it is, but for the number of its next piece.
LEMMA SendDeltaSlots == ASSUME LinkInv, SlotInv, NEW c \in Calls, send_delta(c) PROVE SlotInv'
<1>1. /\ jobs' = [jobs EXCEPT ![c].seq = @ + 1] /\ UNCHANGED <<slots, calls, clients>>
      /\ JobIs(c, "running")
  BY DEF send_delta, flush, workerStore, consumerVars
<1>2. jobs \in [Calls -> Jobs] /\ jobs[c].pc \in JobPcs
  BY DEF LinkInv, Typed, Jobs
<1>3. \A d \in Calls : jobs'[d].pc = IF d = c THEN jobs[c].pc ELSE jobs[d].pc
  BY ONLY <1>1, <1>2 DEF Jobs
<1>4. ~JobIs(c, "none")
  BY <1>1 DEF JobIs
<1> QED
  BY <1>1, <1>2, <1>3, <1>4, JobMoves

LEMMA ReplySlots == ASSUME LinkInv, SlotInv, NEW c \in Calls, reply(c) PROVE SlotInv'
<1>1. JobStarts(c, "over") /\ UNCHANGED <<slots, calls, clients>> /\ jobs[c].pc \in {"served", "refused", "failed"}
  BY DEF reply, workerStore, consumerVars
<1>2. \A d \in Calls : jobs'[d].pc = IF d = c THEN "over" ELSE jobs[d].pc
  BY <1>1, PcGoto DEF LinkInv, Typed
<1>3. "over" \in JobPcs /\ "over" \notin Holding /\ jobs[c].pc \notin Holding /\ ~JobIs(c, "none")
  BY <1>1 DEF JobPcs, Holding, JobIs
<1> QED
  BY <1>1, <1>2, <1>3, JobMoves

\* Nothing that the slots depend on.
LEMMA SlotsElsewhere == ASSUME SlotInv, UNCHANGED <<slots, jobs, calls, clients>> PROVE SlotInv'
  BY DEF SlotInv, CallsTyped, CallsOnce, SlotsExact, ClientIs, CallIs, JobIs

LEMMA CallSlots == ASSUME LinkInv, SlotInv, NEW c \in Calls, Call(c), registered \in Nat PROVE SlotInv'
<1>1. CASE prepare(c)
  BY <1>1, PrepareSlots
<1>2. CASE request(c)
  BY <1>2, RequestSlots
<1>3. CASE Execute(c)
  BY <1>3, WorkSlots DEF Execute, linkVars, consumerVars
<1>4. CASE send_delta(c)
  BY <1>4, SendDeltaSlots
<1>5. CASE reply(c)
  BY <1>5, ReplySlots
<1>6. CASE resolve(c)
  <2> DEFINE line == IF Head(wire[c]).executed = "yes" THEN [type |-> "result", answer |-> Head(wire[c]).answer] ELSE NotDispatched
  <2>1. UNCHANGED <<slots, jobs>>
    BY <1>6 DEF resolve, workerVars
  <2>2. CASE CallIs(c, "waiting")
    <3>1. calls' = [calls EXCEPT ![c].pc = "ended"] /\ read_stream(c, line)
      BY <1>6, <2>2 DEF resolve
    <3>2. line.type \in {"delta", "result", "error"}
      BY DEF NotDispatched
    <3>3. \E read : read.type \in {"delta", "result", "error"} /\ read_stream(c, read)
      <4> HIDE DEF line
      <4> WITNESS line
      <4> QED
        BY <3>1, <3>2
    <3> QED
      BY <2>1, <2>2, <3>1, <3>3, CallEnds
  <2>3. CASE ~CallIs(c, "waiting")
    BY <1>6, <2>1, <2>3, SlotsElsewhere DEF resolve
  <2> QED
    BY <2>2, <2>3
<1>7. CASE chunk(c)
  <2> DEFINE line == [type |-> "delta", delta |-> Head(wire[c]).delta]
  <2>1. UNCHANGED <<slots, jobs, calls>>
    BY <1>7 DEF chunk, workerVars
  <2>2. CASE CallIs(c, "waiting")
    <3>1. read_stream(c, line) /\ line.type = "delta"
      BY <1>7, <2>2 DEF chunk
    <3>2. \E read : read.type \in {"delta", "result", "error"} /\ read_stream(c, read)
      <4> HIDE DEF line
      <4> WITNESS line
      <4> QED
        BY <3>1
    <3> QED
      BY <2>1, <2>2, <3>2, CallEnds
  <2>3. CASE ~CallIs(c, "waiting")
    BY <1>7, <2>1, <2>3, SlotsElsewhere DEF chunk
  <2> QED
    BY <2>2, <2>3
<1>8. CASE time_out(c)
  <2>1. NotDispatched.type \in {"delta", "result", "error"} /\ read_stream(c, NotDispatched)
    BY <1>8 DEF NotDispatched, time_out
  <2>2. \E read : read.type \in {"delta", "result", "error"} /\ read_stream(c, read)
    <3> WITNESS NotDispatched
    <3> QED
      BY <2>1
  <2> QED
    BY <1>8, <2>2, CallEnds DEF time_out, workerVars
<1> QED
  BY <1>1, <1>2, <1>3, <1>4, <1>5, <1>6, <1>7, <1>8 DEF Call

LEMMA RelayClosesSlots == ASSUME SlotInv, NEW s \in DOMAIN sessions, relay_closes(s) PROVE SlotInv'
<1>1. /\ UNCHANGED <<slots, jobs>>
      /\ calls' = [c \in Calls |-> IF Pending(c, s) THEN [calls[c] EXCEPT !.pc = "ended"] ELSE calls[c]]
      /\ clients' = [c \in Calls |-> IF Pending(c, s) THEN stream(clients[c], c, NotDispatched) ELSE clients[c]]
  BY DEF relay_closes, workerVars
<1>2. NotDispatched.type = "error" /\ CallsTyped
  BY DEF NotDispatched, SlotInv
<1>3. \A c \in Calls : stream(clients[c], c, NotDispatched) \in [state : ClientStates, shown : Nat]
                       /\ (stream(clients[c], c, NotDispatched).state = "idle" => clients[c].state = "idle")
  BY <1>2, StreamTyped DEF CallsTyped
<1>4. CallsTyped'
  BY <1>1, <1>2, <1>3 DEF CallsTyped
<1>5. \A c \in Calls : Pending(c, s) => clients[c].state # "idle"
  BY DEF Pending, SlotInv, CallsOnce, ClientIs, CallIs
<1>6. \A c \in Calls : clients'[c].state = "idle" => clients[c].state = "idle" /\ calls'[c] = calls[c]
  BY <1>1, <1>3, <1>5
<1>7. \A c \in Calls : calls'[c].pc \in {"none", "prepared"} => calls[c].pc \in {"none", "prepared"}
  BY <1>1, <1>2 DEF CallsTyped
<1> QED
  BY <1>1, <1>4, <1>6, <1>7, CallsMove

\* All jobs end with the process, and their slots are made anew.
LEMMA RestartSlots == ASSUME SlotInv, Restart PROVE SlotInv'
<1>0. UNCHANGED <<calls, clients>>
  BY DEF Restart, consumerVars
<1>1. /\ slots' = Capacity
      /\ jobs' = [c \in Calls |-> IF JobIs(c, "none") THEN NoJob ELSE [NoJob EXCEPT !.pc = "over"]]
  BY DEF Restart, restart
<1>2. \A c \in Calls : jobs'[c].pc \in {"none", "over"} /\ (JobIs(c, "none") => jobs'[c].pc = "none")
  BY <1>1 DEF NoJob
<1>3. CallsTyped' /\ CallsOnce'
  BY <1>0, <1>2 DEF SlotInv, CallsTyped, CallsOnce, ClientIs, CallIs, JobIs
<1>4. Holders' = {}
  BY <1>2 DEF Holders, Holding
<1>5. Cardinality(Holders') = 0
  BY <1>4, FS_EmptySet
<1>6. slots' \in Nat /\ SlotsExact'
  BY <1>1, <1>5, WorkerAssumption DEF SlotsExact, Holders
<1> QED
  BY <1>3, <1>6 DEF SlotInv

LEMMA SlotInvNext == LinkInv /\ SlotInv /\ registered \in Nat /\ [Next]_vars => SlotInv'
<1> SUFFICES ASSUME LinkInv, SlotInv, registered \in Nat, [Next]_vars PROVE SlotInv'
  OBVIOUS
<1>1. CASE \E c \in Calls : Call(c)
  BY <1>1, CallSlots
<1>2. CASE Restart
  BY <1>2, RestartSlots
<1>3. CASE \E s \in DOMAIN sessions : Session(s)
  <2> PICK s \in DOMAIN sessions : Session(s)
    BY <1>3
  <2>1. CASE relay_closes(s)
    BY <2>1, RelayClosesSlots
  <2>2. CASE ~relay_closes(s)
    <3>1. UNCHANGED <<slots, jobs, calls, clients>>
      BY <2>2 DEF Session, receive_registration, register_provider, serve, announce, provider_closes, workerVars, consumerVars
    <3> QED
      BY <3>1, SlotsElsewhere
  <2> QED
    BY <2>1, <2>2
<1>4. CASE \E a \in Authorizations : Seal(a)
  BY <1>4, SlotsElsewhere DEF Seal, prepare_request, workerVars, linkVars
<1>5. CASE connect \/ Sweep \/ Tick \/ UNCHANGED vars
  <2>1. UNCHANGED <<slots, jobs, calls, clients>>
    BY <1>5 DEF connect, Sweep, sweep, Tick, vars, workerVars, linkVars, consumerVars
  <2> QED
    BY <2>1, SlotsElsewhere
<1> QED
  BY <1>1, <1>2, <1>3, <1>4, <1>5 DEF Next

-----------------------------------------------------------------------------
(* Keys and sessions.  A key is made with the count of restarts and the    *)
(* time in its id; rotation drops none that is live, and what a session    *)
(* publishes, or is about to, is such a key.                               *)

ProviderKey(life, t) == generate_transport_key("provider", <<life, t>>, TRANSPORT_KEY_LIFETIME, t)
Keys == {ProviderKey(life, t) : life \in Nat, t \in Nat}
Registrations == [transport_key : Keys, signature : {sign_document("provider", "link", "relay", t) : t \in Nat}]
Sessions ==
  [provider : {"registering", "up", "closed"}, relay : {"open", "registering", "serving", "failed", "closed"},
   sent : {Nobody} \cup Registrations, published : {Nobody} \cup Keys, announced : {Nobody} \cup (Nat \X Nat)]

KeysTyped == now \in Nat /\ restarts \in Nat /\ keys \subseteq {ProviderKey(restarts, t) : t \in 0 .. now}

\* A key of this process is at hand until it expires.
Known(key) ==
  /\ key.key_id[1] <= restarts
  /\ key.key_id[1] = restarts /\ key.expires_at > now => key \in keys

SessionKnown(session) ==
  /\ session.sent # Nobody => Known(session.sent.transport_key)
  /\ session.relay = "registering" => session.sent # Nobody
PublishedKnown ==
  registered # 0 => sessions[registered].published \in Keys /\ Known(sessions[registered].published)

SessionInv ==
  /\ sessions \in Seq(Sessions) /\ registered \in 0 .. Len(sessions)
  /\ \A s \in DOMAIN sessions : SessionKnown(sessions[s])
  /\ RegisteredOpen /\ PublishedKnown

\* A frame's key is of this process or of one before it.
FrameInv ==
  /\ payloads = [a \in Authorizations |-> payloads[a]]
  /\ \A a \in Authorizations : payloads[a] # Nobody =>
       /\ payloads[a].sealed_request.expires_at \in Int
       /\ payloads[a].sealed_request.recipient_key_id[1] \in 0 .. restarts
  /\ FramesOpen

KeyInv == KeysTyped /\ SessionInv /\ FrameInv

LEMMA LeastNat == ASSUME NEW T \in SUBSET Nat, T # {} PROVE \E x \in T : \A y \in T : x <= y
<1> DEFINE R == OpToRel(<, Nat)
<1>1. IsWellFoundedOn(R, Nat)
  BY NatLessThanWellFounded
<1>2. \A x, y \in Nat : <<x, y>> \in R <=> x < y
  BY DEF OpToRel
<1> HIDE DEF R
<1>3. PICK x \in T : \A y \in T : ~(<<y, x>> \in R)
  BY <1>1, WFMin
<1>4. ASSUME NEW y \in T PROVE x <= y
  <2>1. x \in Nat /\ y \in Nat
    OBVIOUS
  <2>2. ~(y < x)
    BY <1>2, <1>3, <2>1
  <2> QED
    BY <2>1, <2>2
<1> QED
  BY <1>4

LEMMA KeyFields ==
  ASSUME NEW life \in Nat, NEW t \in Nat
  PROVE  /\ ProviderKey(life, t).key_id = <<life, t>> /\ ProviderKey(life, t).not_before = t
         /\ ProviderKey(life, t).expires_at = t + TRANSPORT_KEY_LIFETIME /\ ProviderKey(life, t) \in Keys
  BY DEF ProviderKey, generate_transport_key, Keys

\* Of keys made at different times one is the newest.
LEMMA NewestIn ==
  ASSUME NEW life \in Nat, NEW t \in Nat, NEW S \in SUBSET {ProviderKey(life, u) : u \in 0 .. t}, S # {}
  PROVE  Newest(S) \in S
<1> DEFINE T == {t - key.not_before : key \in S}
<1>1. \A key \in S : key.not_before \in 0 .. t
  BY KeyFields
<1>2. T \in SUBSET Nat /\ T # {}
  BY <1>1
<1>3. PICK x \in T : \A y \in T : x <= y
  BY <1>2, LeastNat
<1>4. PICK key \in S : x = t - key.not_before
  OBVIOUS
<1>5. \A other \in S : other.not_before <= key.not_before
  BY <1>1, <1>3, <1>4
<1> QED
  BY <1>4, <1>5 DEF Newest

\* Rotation drops only what has expired, and returns a key it keeps.
LEMMA Rotates ==
  ASSUME KeysTyped, current_transport_key, now' = now, restarts' = restarts
  PROVE  /\ KeysTyped' /\ \A key \in keys : key.expires_at > now => key \in keys'
         /\ CurrentKey \in keys' /\ CurrentKey \in Keys /\ CurrentKey.key_id = <<restarts, CurrentKey.key_id[2]>>
         /\ CurrentKey.key_id \in Nat \X Nat
<1>1. now \in Nat /\ restarts \in Nat /\ keys' = Rotated
  BY DEF KeysTyped, current_transport_key
<1>2. NewKey \in {ProviderKey(restarts, t) : t \in 0 .. now}
  BY <1>1 DEF NewKey, ProviderKey
<1>3. Rotated \in SUBSET {ProviderKey(restarts, t) : t \in 0 .. now} /\ Rotated # {}
  BY <1>2 DEF Rotated, LiveKeys, RotationDue, KeysTyped
<1>4. CurrentKey \in Rotated
  BY <1>1, <1>3, NewestIn DEF CurrentKey
<1>5. KeysTyped'
  BY <1>1, <1>3 DEF KeysTyped
<1>6. \A key \in keys : key.expires_at > now => key \in keys'
  BY <1>1 DEF Rotated, LiveKeys
<1>7. PICK t \in 0 .. now : CurrentKey = ProviderKey(restarts, t)
  BY <1>3, <1>4
<1>8. t \in Nat /\ CurrentKey \in Keys /\ CurrentKey.key_id = <<restarts, t>>
  BY <1>1, <1>7, KeyFields
<1> QED
  BY <1>1, <1>4, <1>5, <1>6, <1>8

\* What rotation, time and restarts leave true of the keys.
LEMMA KnownKept ==
  ASSUME KeysTyped, now' \in Nat, now' >= now,
         \/ restarts' = restarts /\ \A key \in keys : key.expires_at > now => key \in keys'
         \/ restarts' = restarts + 1
  PROVE  \A key \in Keys : Known(key) => Known(key)'
<1> SUFFICES ASSUME NEW key \in Keys, Known(key) PROVE Known(key)'
  OBVIOUS
<1>1. PICK life \in Nat, t \in Nat : key = ProviderKey(life, t)
  BY DEF Keys
<1>2. key.key_id[1] = life /\ key.expires_at \in Nat
  <2>1. key.key_id = <<life, t>> /\ key.expires_at = t + TRANSPORT_KEY_LIFETIME
    BY <1>1, KeyFields
  <2>2. TRANSPORT_KEY_LIFETIME \in Nat
    BY WorkerAssumption
  <2> QED
    BY <2>1, <2>2
<1>3. now \in Nat /\ restarts \in Nat
  BY DEF KeysTyped
<1> QED
  BY <1>2, <1>3 DEF Known

LEMMA FramesKept ==
  ASSUME KeysTyped, FrameInv, payloads' = payloads, now' \in Nat, now' >= now,
         \/ restarts' = restarts /\ \A key \in keys : key.expires_at > now => key \in keys'
         \/ restarts' = restarts + 1
  PROVE  FrameInv'
<1>1. now \in Nat /\ restarts \in Nat
  BY DEF KeysTyped
<1>2. FramesOpen'
  <2> SUFFICES ASSUME NEW a \in Authorizations, payloads[a] # Nobody,
                      payloads[a].sealed_request.expires_at > now',
                      payloads[a].sealed_request.recipient_key_id[1] = restarts'
               PROVE  \E key \in keys' : /\ key.key_id = payloads[a].sealed_request.recipient_key_id
                                         /\ key.expires_at >= payloads[a].sealed_request.expires_at
    BY DEF FramesOpen, key_for
  <2> DEFINE frame == payloads[a].sealed_request
  <2>1. frame.expires_at \in Int /\ frame.recipient_key_id[1] \in 0 .. restarts
    BY DEF FrameInv
  <2>2. restarts' = restarts /\ frame.expires_at > now
    BY <1>1, <2>1
  <2>3. PICK key \in keys : key.key_id = frame.recipient_key_id /\ key.expires_at >= frame.expires_at
    BY <2>2 DEF FrameInv, FramesOpen, key_for
  <2>4. key.expires_at \in Int
    BY <1>1, KeyFields, WorkerAssumption DEF KeysTyped
  <2>5. key \in keys'
    BY <1>1, <2>1, <2>2, <2>3, <2>4
  <2> QED
    BY <2>3, <2>5
<1>3. \A a \in Authorizations : payloads'[a] # Nobody =>
       /\ payloads'[a].sealed_request.expires_at \in Int
       /\ payloads'[a].sealed_request.recipient_key_id[1] \in 0 .. restarts'
  <2> SUFFICES ASSUME NEW a \in Authorizations, payloads[a] # Nobody
               PROVE  /\ payloads[a].sealed_request.expires_at \in Int
                      /\ payloads[a].sealed_request.recipient_key_id[1] \in 0 .. restarts'
    OBVIOUS
  <2>1. /\ payloads[a].sealed_request.expires_at \in Int
        /\ payloads[a].sealed_request.recipient_key_id[1] \in 0 .. restarts
    BY DEF FrameInv
  <2> QED
    BY <1>1, <2>1
<1> QED
  BY <1>2, <1>3 DEF FrameInv

-----------------------------------------------------------------------------
LEMMA KeyInvInit == Init => KeyInv
<1> SUFFICES ASSUME Init PROVE KeyInv
  OBVIOUS
<1> USE DEF Init, ConsumerInit, WorkerInit
<1>1. KeysTyped
  BY DEF KeysTyped
<1>2. SessionInv
  BY DEF SessionInv, RegisteredOpen, PublishedKnown
<1>3. FrameInv
  BY DEF FrameInv, FramesOpen
<1> QED
  BY <1>1, <1>2, <1>3 DEF KeyInv

\* One session changes, and neither dies nor takes its key back while it is registered.
LEMMA OneSession ==
  ASSUME SessionInv, NEW s \in DOMAIN sessions, NEW session \in Sessions, sessions' = [sessions EXCEPT ![s] = session],
         \A key \in Keys : Known(key) => Known(key)',
         SessionKnown(session)',
         registered' = registered,
         registered = s => session.relay # "closed" /\ session.published = sessions[s].published
  PROVE  SessionInv'
<1>1. sessions \in Seq(Sessions) /\ registered \in 0 .. Len(sessions)
  BY DEF SessionInv
<1>2. sessions' \in Seq(Sessions) /\ DOMAIN sessions' = DOMAIN sessions /\ Len(sessions') = Len(sessions)
  BY <1>1
<1>3. \A t \in DOMAIN sessions : sessions'[t] = IF t = s THEN session ELSE sessions[t]
  BY <1>1
<1>4. ASSUME NEW t \in DOMAIN sessions PROVE SessionKnown(sessions[t])'
  <2>1. CASE t = s
    BY <1>3, <2>1 DEF SessionKnown, Known
  <2>2. CASE t # s
    <3>1. PICK other \in Sessions : other = sessions[t]
      BY <1>1
    <3>2. SessionKnown(other)
      BY <3>1 DEF SessionInv
    <3>3. other.sent # Nobody => other.sent.transport_key \in Keys
      BY DEF Sessions, Registrations
    <3>4. SessionKnown(other)'
      BY <3>2, <3>3 DEF SessionKnown
    <3> QED
      BY <1>3, <2>2, <3>1, <3>4 DEF SessionKnown, Known
  <2> QED
    BY <2>1, <2>2
<1>5. RegisteredOpen'
  BY <1>1, <1>3 DEF SessionInv, RegisteredOpen
<1>6. PublishedKnown'
  <2> SUFFICES ASSUME registered # 0 PROVE (sessions[registered].published \in Keys /\ Known(sessions[registered].published))'
    BY DEF PublishedKnown
  <2>1. PICK key : key = sessions[registered].published
    OBVIOUS
  <2>2. key \in Keys /\ Known(key)
    BY <2>1 DEF SessionInv, PublishedKnown
  <2>3. sessions'[registered].published = key
    BY <1>1, <1>3, <2>1
  <2>4. Known(key)'
    BY <2>2
  <2> QED
    BY <2>2, <2>3, <2>4 DEF Known
<1> QED
  BY <1>1, <1>2, <1>4, <1>5, <1>6 DEF SessionInv

\* What the Relay has of the sessions stays as it is.
LEMMA SessionsSame ==
  ASSUME SessionInv, \A key \in Keys : Known(key) => Known(key)', registered' = registered,
         sessions' \in Seq(Sessions), DOMAIN sessions' = DOMAIN sessions,
         \A s \in DOMAIN sessions : /\ sessions'[s].relay = sessions[s].relay /\ sessions'[s].sent = sessions[s].sent
                                   /\ sessions'[s].published = sessions[s].published
  PROVE  SessionInv'
<1>1. sessions \in Seq(Sessions) /\ registered \in 0 .. Len(sessions) /\ Len(sessions') = Len(sessions)
  BY DEF SessionInv
<1>2. ASSUME NEW s \in DOMAIN sessions PROVE SessionKnown(sessions[s])'
  <2>1. PICK session \in Sessions : session = sessions[s]
    BY <1>1
  <2>2. SessionKnown(session)
    BY <2>1 DEF SessionInv
  <2>3. session.sent # Nobody => session.sent.transport_key \in Keys
    BY DEF Sessions, Registrations
  <2>4. SessionKnown(session)'
    BY <2>2, <2>3 DEF SessionKnown
  <2> QED
    BY <2>1, <2>4 DEF SessionKnown, Known
<1>3. RegisteredOpen'
  BY <1>1 DEF SessionInv, RegisteredOpen
<1>4. PublishedKnown'
  <2> SUFFICES ASSUME registered # 0 PROVE (sessions[registered].published \in Keys /\ Known(sessions[registered].published))'
    BY DEF PublishedKnown
  <2>1. PICK key : key = sessions[registered].published
    OBVIOUS
  <2>2. key \in Keys /\ Known(key)
    BY <2>1 DEF SessionInv, PublishedKnown
  <2>3. sessions'[registered].published = key
    BY <1>1, <2>1
  <2>4. Known(key)'
    BY <2>2
  <2> QED
    BY <2>2, <2>3, <2>4 DEF Known
<1> QED
  BY <1>1, <1>2, <1>3, <1>4 DEF SessionInv

\* A registration with the key that is current now.
LEMMA RegistrationKnown ==
  ASSUME KeysTyped, current_transport_key, now' = now, restarts' = restarts
  PROVE  registration \in Registrations /\ \A sent : sent = registration => Known(sent.transport_key)'
<1>1. CurrentKey \in keys' /\ CurrentKey \in Keys /\ CurrentKey.key_id = <<restarts, CurrentKey.key_id[2]>>
  BY Rotates
<1>2. registration.transport_key = CurrentKey /\ registration \in Registrations
  BY <1>1 DEF registration, Registrations, KeysTyped
<1>3. PICK key : key = CurrentKey
  OBVIOUS
<1>4. key.key_id[1] = restarts /\ restarts \in Nat
  BY <1>1, <1>3 DEF KeysTyped
<1>5. Known(key)'
  BY <1>1, <1>3, <1>4 DEF Known
<1>6. ASSUME NEW sent, sent = registration PROVE Known(sent.transport_key)'
  <2>1. sent.transport_key = key
    BY <1>2, <1>3, <1>6
  <2> QED
    BY <1>5, <2>1
<1> QED
  BY <1>2, <1>6

\* Keys that are left alone, or rotated, are known as before.
LEMMA KnownStays ==
  ASSUME KeysTyped, now' = now, restarts' = restarts, keys' = keys \/ current_transport_key
  PROVE  (\A key \in Keys : Known(key) => Known(key)') /\ KeysTyped' /\ \A key \in keys : key.expires_at > now => key \in keys'
<1>1. KeysTyped' /\ \A key \in keys : key.expires_at > now => key \in keys'
  BY Rotates DEF KeysTyped
<1>2. now' \in Nat /\ now' >= now
  BY DEF KeysTyped
<1> QED
  BY <1>1, <1>2, KnownKept

LEMMA ConnectSessions == ASSUME KeyInv, connect PROVE SessionInv'
<1> DEFINE session == [provider |-> "registering", relay |-> "open", sent |-> registration, published |-> Nobody, announced |-> Nobody]
<1>1. /\ KeysTyped /\ SessionInv /\ current_transport_key /\ now' = now /\ restarts' = restarts /\ registered' = registered
      /\ sessions' = Append(sessions, session)
  BY DEF KeyInv, connect
<1>2. registration \in Registrations /\ \A sent : sent = registration => Known(sent.transport_key)'
  BY <1>1, RegistrationKnown
<1>3. PICK made : made = session
  OBVIOUS
<1>4. made \in Sessions /\ made.relay = "open" /\ made.sent = registration
  BY <1>2, <1>3 DEF Sessions
<1>5. SessionKnown(made)'
  BY <1>2, <1>4 DEF SessionKnown
<1> HIDE DEF session
<1>6. sessions \in Seq(Sessions) /\ registered \in 0 .. Len(sessions) /\ sessions' = Append(sessions, made)
  BY <1>1, <1>3 DEF SessionInv
<1>7. /\ sessions' \in Seq(Sessions) /\ Len(sessions') = Len(sessions) + 1 /\ DOMAIN sessions \subseteq DOMAIN sessions'
      /\ \A s \in DOMAIN sessions' : sessions'[s] = IF s \in DOMAIN sessions THEN sessions[s] ELSE made
  BY <1>4, <1>6
<1>8. \A key \in Keys : Known(key) => Known(key)'
  BY <1>1, KnownStays
<1>9. ASSUME NEW s \in DOMAIN sessions' PROVE SessionKnown(sessions[s])'
  <2>1. CASE s \notin DOMAIN sessions
    BY <1>5, <1>7, <2>1 DEF SessionKnown, Known
  <2>2. CASE s \in DOMAIN sessions
    <3>1. PICK other \in Sessions : other = sessions[s]
      BY <1>6, <2>2
    <3>2. SessionKnown(other)
      BY <1>1, <2>2, <3>1 DEF SessionInv
    <3>3. other.sent # Nobody => other.sent.transport_key \in Keys
      BY DEF Sessions, Registrations
    <3>4. SessionKnown(other)'
      BY <1>8, <3>2, <3>3 DEF SessionKnown
    <3> QED
      BY <1>7, <2>2, <3>1, <3>4 DEF SessionKnown, Known
  <2> QED
    BY <2>1, <2>2
<1>a. RegisteredOpen'
  BY <1>1, <1>6, <1>7 DEF SessionInv, RegisteredOpen
<1>b. PublishedKnown'
  <2> SUFFICES ASSUME registered' # 0 PROVE (sessions[registered].published \in Keys /\ Known(sessions[registered].published))'
    BY DEF PublishedKnown
  <2>1. PICK key : key = sessions[registered].published
    OBVIOUS
  <2>2. key \in Keys /\ Known(key)
    BY <1>1, <2>1 DEF SessionInv, PublishedKnown
  <2>3. (sessions[registered].published)' = key
    BY <1>1, <1>6, <1>7, <2>1
  <2>4. Known(key)'
    BY <1>8, <2>2
  <2> QED
    BY <2>2, <2>3, <2>4 DEF Known
<1> QED
  BY <1>1, <1>6, <1>7, <1>9, <1>a, <1>b DEF SessionInv

\* receive_registration, serve, announce, provider_closes: the session registered stays so.
LEMMA SessionMoves ==
  ASSUME KeyInv, NEW s \in DOMAIN sessions,
         receive_registration(s) \/ serve(s) \/ announce(s) \/ provider_closes(s)
  PROVE  SessionInv'
<1>1. /\ KeysTyped /\ SessionInv /\ now' = now /\ restarts' = restarts /\ registered' = registered
      /\ keys' = keys \/ current_transport_key
  BY DEF KeyInv, receive_registration, serve, announce, provider_closes, workerVars
<1>2. \A key \in Keys : Known(key) => Known(key)'
  BY <1>1, KnownStays
<1>3. sessions \in Seq(Sessions) /\ sessions[s] \in Sessions /\ SessionKnown(sessions[s])
  BY <1>1 DEF SessionInv
<1>4. PICK old \in Sessions : old = sessions[s]
  BY <1>3
<1>5. SessionKnown(old) /\ (old.sent # Nobody => Known(old.sent.transport_key)')
  BY <1>2, <1>3, <1>4 DEF SessionKnown, Sessions, Registrations
<1>6. CASE receive_registration(s)
  <2>1. old.sent # Nobody /\ old.relay # "closed"
    BY <1>4, <1>6 DEF receive_registration, RelayReads
  <2>2. PICK relay \in {"registering", "failed"} : sessions' = [sessions EXCEPT ![s].relay = relay]
    BY <1>6 DEF receive_registration
  <2>3. PICK session : session = [old EXCEPT !.relay = relay]
    OBVIOUS
  <2>4. /\ session \in Sessions /\ session.sent = old.sent /\ session.published = old.published /\ session.relay # "closed"
    BY <2>3 DEF Sessions
  <2>5. sessions' = [sessions EXCEPT ![s] = session]
    BY <1>4, <2>2, <2>3
  <2>6. SessionKnown(session)'
    BY <1>5, <2>1, <2>4 DEF SessionKnown
  <2> QED
    BY <1>1, <1>2, <1>4, <2>4, <2>5, <2>6, OneSession
<1>7. CASE serve(s)
  <2>1. PICK announced \in Nat \X Nat : sessions' = [sessions EXCEPT ![s].provider = "up", ![s].announced = announced]
    BY <1>1, <1>7, Rotates DEF serve
  <2>2. PICK session : session = [old EXCEPT !.provider = "up", !.announced = announced]
    OBVIOUS
  <2>3. session \in Sessions /\ session.sent = old.sent /\ session.published = old.published /\ session.relay = old.relay
    BY <2>2 DEF Sessions
  <2>4. sessions' = [sessions EXCEPT ![s] = session]
    BY <1>4, <2>1, <2>2
  <2>5. SessionKnown(session)'
    BY <1>5, <2>3 DEF SessionKnown
  <2>6. registered = s => session.relay # "closed"
    BY <1>1, <1>4, <2>3 DEF SessionInv, RegisteredOpen
  <2> QED
    BY <1>1, <1>2, <1>4, <2>3, <2>4, <2>5, <2>6, OneSession
<1>8. CASE announce(s)
  <2>1. current_transport_key /\ sessions' = [sessions EXCEPT ![s].sent = registration, ![s].announced = CurrentKey.key_id]
        /\ old.relay # "closed" /\ old.sent = Nobody
    BY <1>4, <1>8 DEF announce, Connected
  <2>2. PICK sent : sent = registration
    OBVIOUS
  <2>3. sent \in Registrations /\ Known(sent.transport_key)'
    BY <1>1, <2>1, <2>2, RegistrationKnown
  <2>4. PICK announced \in Nat \X Nat : announced = CurrentKey.key_id
    BY <1>1, <2>1, Rotates
  <2>5. PICK session : session = [old EXCEPT !.sent = sent, !.announced = announced]
    OBVIOUS
  <2>6. session \in Sessions /\ session.sent = sent /\ session.published = old.published /\ session.relay = old.relay
    BY <2>3, <2>5 DEF Sessions
  <2>7. sessions' = [sessions EXCEPT ![s] = session]
    BY <1>4, <2>1, <2>2, <2>4, <2>5
  <2>8. SessionKnown(session)'
    <3>1. session.relay # "registering"
      BY <1>5, <2>1, <2>6 DEF SessionKnown
    <3> QED
      BY <2>3, <2>6, <3>1 DEF SessionKnown
  <2> QED
    BY <1>1, <1>2, <1>4, <2>1, <2>6, <2>7, <2>8, OneSession
<1>9. CASE provider_closes(s)
  <2>1. sessions' = [sessions EXCEPT ![s].provider = "closed", ![s].announced = Nobody]
    BY <1>9 DEF provider_closes
  <2>2. PICK session : session = [old EXCEPT !.provider = "closed", !.announced = Nobody]
    OBVIOUS
  <2>3. session \in Sessions /\ session.sent = old.sent /\ session.published = old.published /\ session.relay = old.relay
    BY <2>2 DEF Sessions
  <2>4. sessions' = [sessions EXCEPT ![s] = session]
    BY <1>4, <2>1, <2>2
  <2>5. SessionKnown(session)'
    BY <1>5, <2>3 DEF SessionKnown
  <2>6. registered = s => session.relay # "closed"
    BY <1>1, <1>4, <2>3 DEF SessionInv, RegisteredOpen
  <2> QED
    BY <1>1, <1>2, <1>4, <2>3, <2>4, <2>5, <2>6, OneSession
<1> QED
  BY <1>6, <1>7, <1>8, <1>9

\* Calls go to another session: one that is open, with the key that was sent.
LEMMA RegisterSessions == ASSUME KeyInv, NEW s \in DOMAIN sessions, register_provider(s) PROVE SessionInv'
<1>1. /\ SessionInv /\ now' = now /\ UNCHANGED <<keys, restarts>> /\ registered' = s /\ sessions[s].relay = "registering"
      /\ sessions' = [sessions EXCEPT ![s].relay = "serving", ![s].published = sessions[s].sent.transport_key, ![s].sent = Nobody]
  BY DEF KeyInv, register_provider, workerVars
<1>2. sessions \in Seq(Sessions) /\ registered \in 0 .. Len(sessions)
  BY <1>1 DEF SessionInv
<1>3. PICK old \in Sessions : old = sessions[s]
  BY <1>2
<1>4. old.sent \in Registrations /\ Known(old.sent.transport_key)
  BY <1>1, <1>3 DEF SessionInv, SessionKnown, Sessions
<1>5. PICK key \in Keys : key = old.sent.transport_key
  BY <1>4 DEF Registrations
<1>6. PICK session : session = [old EXCEPT !.relay = "serving", !.published = key, !.sent = Nobody]
  OBVIOUS
<1>7. session \in Sessions /\ session.sent = Nobody /\ session.published = key /\ session.relay = "serving"
  BY <1>6 DEF Sessions
<1>8. sessions' = [sessions EXCEPT ![s] = session]
  BY <1>1, <1>3, <1>5, <1>6
<1>9. /\ sessions' \in Seq(Sessions) /\ Len(sessions') = Len(sessions) /\ DOMAIN sessions' = DOMAIN sessions
      /\ \A t \in DOMAIN sessions : sessions'[t] = IF t = s THEN session ELSE sessions[t]
  BY <1>2, <1>7, <1>8
<1>a. \A t \in DOMAIN sessions : SessionKnown(sessions[t])'
  BY <1>1, <1>7, <1>9 DEF SessionInv, SessionKnown, Known
<1>b. RegisteredOpen'
  BY <1>1, <1>7, <1>9 DEF RegisteredOpen
<1>c. PublishedKnown'
  <2>1. (sessions[registered].published)' = key
    BY <1>1, <1>7, <1>9
  <2>2. Known(key)'
    BY <1>1, <1>4, <1>5 DEF Known
  <2> QED
    BY <2>1, <2>2 DEF PublishedKnown, Known
<1> QED
  BY <1>1, <1>2, <1>9, <1>a, <1>b, <1>c DEF SessionInv

\* The session that dies takes its registration along, and no other's.
LEMMA RelayClosesSessions == ASSUME KeyInv, NEW s \in DOMAIN sessions, relay_closes(s) PROVE SessionInv'
<1>1. /\ SessionInv /\ now' = now /\ UNCHANGED <<keys, restarts>> /\ registered' = IF registered = s THEN 0 ELSE registered
      /\ sessions' = [sessions EXCEPT ![s].relay = "closed", ![s].sent = Nobody, ![s].published = Nobody]
  BY DEF KeyInv, relay_closes, unregistered, workerVars
<1>2. sessions \in Seq(Sessions) /\ registered \in 0 .. Len(sessions)
  BY <1>1 DEF SessionInv
<1>0. PICK old \in Sessions : old = sessions[s]
  BY <1>2
<1>3. PICK session : session = [old EXCEPT !.relay = "closed", !.sent = Nobody, !.published = Nobody]
  OBVIOUS
<1>4. session \in Sessions /\ session.sent = Nobody /\ session.relay = "closed"
  BY <1>3 DEF Sessions
<1>5. sessions' = [sessions EXCEPT ![s] = session]
  BY <1>0, <1>1, <1>3
<1>6. /\ sessions' \in Seq(Sessions) /\ Len(sessions') = Len(sessions) /\ DOMAIN sessions' = DOMAIN sessions
      /\ \A t \in DOMAIN sessions : sessions'[t] = IF t = s THEN session ELSE sessions[t]
  BY <1>2, <1>4, <1>5
<1>7. \A t \in DOMAIN sessions : SessionKnown(sessions[t])'
  BY <1>1, <1>4, <1>6 DEF SessionInv, SessionKnown, Known
<1>8. RegisteredOpen'
  BY <1>1, <1>2, <1>6 DEF SessionInv, RegisteredOpen
<1>9. PublishedKnown'
  <2> SUFFICES ASSUME registered' # 0 PROVE (sessions[registered].published \in Keys /\ Known(sessions[registered].published))'
    BY DEF PublishedKnown
  <2>1. registered' = registered /\ sessions'[registered] = sessions[registered]
    BY <1>1, <1>2, <1>6
  <2> QED
    BY <1>1, <2>1 DEF SessionInv, PublishedKnown, Known
<1> QED
  BY <1>1, <1>2, <1>6, <1>7, <1>8, <1>9 DEF SessionInv

LEMMA SessionInvNext == KeyInv /\ [Next]_vars => SessionInv'
<1> SUFFICES ASSUME KeyInv, [Next]_vars PROVE SessionInv'
  OBVIOUS
<1>0. KeysTyped /\ SessionInv /\ now \in Nat /\ restarts \in Nat /\ sessions \in Seq(Sessions)
  BY DEF KeyInv, KeysTyped, SessionInv
<1>1. CASE connect
  BY <1>1, ConnectSessions
<1>2. CASE \E s \in DOMAIN sessions : Session(s)
  BY <1>2, SessionMoves, RegisterSessions, RelayClosesSessions DEF Session
<1>3. CASE Restart
  <2>0. now' = now /\ restarts' = restarts + 1 /\ registered' = registered
    BY <1>3 DEF Restart, restart
  <2>1. sessions' = [s \in DOMAIN sessions |-> [sessions[s] EXCEPT !.provider = "closed", !.announced = Nobody]]
    BY <1>3 DEF Restart
  <2>a. now' \in Nat /\ now' >= now
    BY <1>0, <2>0
  <2>2. \A key \in Keys : Known(key) => Known(key)'
    BY <1>0, <2>0, <2>a, KnownKept
  <2>3. ASSUME NEW s \in DOMAIN sessions
        PROVE  /\ sessions'[s] \in Sessions /\ sessions'[s].relay = sessions[s].relay
               /\ sessions'[s].sent = sessions[s].sent /\ sessions'[s].published = sessions[s].published
    <3>1. PICK old \in Sessions : old = sessions[s]
      BY <1>0
    <3>2. sessions'[s] = [old EXCEPT !.provider = "closed", !.announced = Nobody]
      BY <2>1, <3>1
    <3> QED
      BY <3>1, <3>2 DEF Sessions
  <2>4. DOMAIN sessions' = DOMAIN sessions /\ sessions' \in Seq(Sessions)
    <3>1. DOMAIN sessions = 1 .. Len(sessions) /\ Len(sessions) \in Nat
      BY <1>0
    <3>2. sessions' \in [1 .. Len(sessions) -> Sessions]
      BY <2>1, <2>3, <3>1
    <3> QED
      BY <3>1, <3>2, SeqDef
  <2> QED
    BY <1>0, <2>0, <2>2, <2>3, <2>4, SessionsSame
<1>4. CASE Tick
  <2>1. now' \in Nat /\ now' >= now /\ UNCHANGED <<keys, restarts, registered, sessions>>
    BY <1>0, <1>4 DEF Tick, workerVars, linkVars
  <2>2. \A key \in Keys : Known(key) => Known(key)'
    BY <1>0, <2>1, KnownKept
  <2> QED
    BY <1>0, <2>1, <2>2, SessionsSame
<1>5. CASE Sweep \/ (\E c \in Calls : Call(c)) \/ (\E a \in Authorizations : Seal(a)) \/ UNCHANGED vars
  <2>1. UNCHANGED <<now, keys, restarts, registered, sessions>>
    <3>1. CASE \E c \in Calls : Call(c)
      BY <3>1 DEF Call, prepare, request, Execute, Work, handle_job, admit, begin, complete, fail, send_delta, flush, reply,
                  resolve, chunk, time_out, workerStore, workerVars, linkVars
    <3>2. CASE Sweep \/ (\E a \in Authorizations : Seal(a)) \/ UNCHANGED vars
      BY <3>2 DEF Sweep, sweep, Seal, vars, workerVars, linkVars
    <3> QED
      BY <1>5, <3>1, <3>2
  <2>2. \A key \in Keys : Known(key) => Known(key)'
    BY <2>1 DEF Known
  <2> QED
    BY <1>0, <2>1, <2>2, SessionsSame
<1> QED
  BY <1>1, <1>2, <1>3, <1>4, <1>5 DEF Next

-----------------------------------------------------------------------------
\* A new frame: the key it is sealed to lasts as long, and is at hand if it is this process's.
LEMMA SealFrames == ASSUME KeyInv, NEW a \in Authorizations, Seal(a) PROVE FrameInv'
<1> DEFINE key == sessions[registered].published
           key_of_reply == generate_transport_key("consumer", <<"reply", a>>, ReplyKeyLifetime, ConsumerNow)
           payload == [authorization |-> [id |-> a, issued_at |-> ConsumerNow, execute_by |-> ConsumerNow + ExecutionTime],
                       sealed_request |-> seal_frame(a, "consumer", key, "request", FrameTtl, ConsumerNow),
                       reply_transport_key |-> key_of_reply]
<1>1. /\ UNCHANGED <<now, keys, restarts>> /\ payloads' = [payloads EXCEPT ![a] = payload]
      /\ registered # 0 /\ sealable(key, "provider", FrameTtl, ConsumerNow)
  BY DEF Seal, prepare_request, workerVars
<1>2. KeysTyped /\ FrameInv /\ key \in Keys /\ Known(key)
  BY <1>1 DEF KeyInv, SessionInv, PublishedKnown
<1>3. payload.sealed_request.expires_at = ConsumerNow + FrameTtl /\ payload.sealed_request.recipient_key_id = key.key_id
  BY DEF seal_frame
<1>4. PICK made : made = payload
  OBVIOUS
<1>5. PICK life \in Nat, t \in Nat : key = ProviderKey(life, t)
  BY <1>2 DEF Keys
<1>6. key.key_id = <<life, t>> /\ key.expires_at = t + TRANSPORT_KEY_LIFETIME
  BY <1>5, KeyFields
<1>7. now \in Nat /\ restarts \in Nat /\ ConsumerNow + FrameTtl \in Int /\ key.expires_at \in Int
  <2>1. ClockAhead \in Int /\ FrameTtl \in Int /\ TRANSPORT_KEY_LIFETIME \in Int
    BY ConsumerAssumption, WorkerAssumption
  <2> QED
    BY <1>2, <1>6, <2>1 DEF KeysTyped, ConsumerNow
<1>8. ConsumerNow + FrameTtl <= key.expires_at
  BY <1>1 DEF sealable
<1>9. life <= restarts /\ (life = restarts /\ key.expires_at > now => key \in keys)
  BY <1>2, <1>6 DEF Known
<1> HIDE DEF payload
<1>a. /\ made.sealed_request.expires_at \in Int /\ made.sealed_request.recipient_key_id = <<life, t>>
      /\ made.sealed_request.expires_at <= key.expires_at
  BY <1>3, <1>4, <1>6, <1>7, <1>8
<1>b. payloads' = [b \in Authorizations |-> IF b = a THEN made ELSE payloads[b]]
  BY <1>1, <1>2, <1>4 DEF FrameInv
<1>c. \A b \in Authorizations : payloads'[b] # Nobody =>
       /\ payloads'[b].sealed_request.expires_at \in Int
       /\ payloads'[b].sealed_request.recipient_key_id[1] \in 0 .. restarts
  BY <1>2, <1>7, <1>9, <1>a, <1>b DEF FrameInv
<1>d. FramesOpen'
  <2> SUFFICES ASSUME NEW b \in Authorizations, payloads'[b] # Nobody,
                      payloads'[b].sealed_request.expires_at > now,
                      payloads'[b].sealed_request.recipient_key_id[1] = restarts
               PROVE  \E k \in keys : /\ k.key_id = payloads'[b].sealed_request.recipient_key_id
                                       /\ k.expires_at >= payloads'[b].sealed_request.expires_at
    BY <1>1 DEF FramesOpen, key_for
  <2>1. CASE b = a
    <3>1. life = restarts /\ key.expires_at > now
      BY <1>7, <1>a, <1>b, <2>1
    <3> QED
      BY <1>6, <1>7, <1>9, <1>a, <1>b, <2>1, <3>1
  <2>2. CASE b # a
    BY <1>2, <1>b, <2>2 DEF FrameInv, FramesOpen, key_for
  <2> QED
    BY <2>1, <2>2
<1> QED
  BY <1>1, <1>b, <1>c, <1>d DEF FrameInv

LEMMA KeyInvNext == KeyInv /\ [Next]_vars => KeyInv'
<1> SUFFICES ASSUME KeyInv, [Next]_vars PROVE KeyInv'
  OBVIOUS
<1>0. KeysTyped /\ FrameInv /\ now \in Nat /\ restarts \in Nat
  BY DEF KeyInv, KeysTyped
<1>1. SessionInv'
  BY SessionInvNext
<1>2. CASE \E a \in Authorizations : Seal(a)
  <2>1. FrameInv'
    BY <1>2, SealFrames
  <2>2. KeysTyped'
    BY <1>0, <1>2 DEF Seal, workerVars, KeysTyped
  <2> QED
    BY <1>1, <2>1, <2>2 DEF KeyInv
<1>3. CASE Restart
  <2>1. now' = now /\ restarts' = restarts + 1 /\ keys' = {} /\ payloads' = payloads
    BY <1>3 DEF Restart, restart, consumerVars
  <2>2. FrameInv'
    BY <1>0, <2>1, FramesKept
  <2>3. KeysTyped'
    BY <1>0, <2>1 DEF KeysTyped
  <2> QED
    BY <1>1, <2>2, <2>3 DEF KeyInv
<1>4. CASE Tick
  <2>1. now' = now + 1 /\ UNCHANGED <<restarts, keys, payloads>>
    BY <1>4 DEF Tick, workerVars, consumerVars
  <2>2. FrameInv'
    BY <1>0, <2>1, FramesKept
  <2>3. KeysTyped'
    BY <1>0, <2>1 DEF KeysTyped
  <2> QED
    BY <1>1, <2>2, <2>3 DEF KeyInv
<1>5. CASE connect \/ Sweep \/ (\E s \in DOMAIN sessions : Session(s)) \/ (\E c \in Calls : Call(c)) \/ UNCHANGED vars
  <2>1. UNCHANGED <<now, restarts, payloads>> /\ (keys' = keys \/ current_transport_key)
    <3>1. CASE \E c \in Calls : Call(c)
      BY <3>1 DEF Call, prepare, request, Execute, Work, handle_job, admit, begin, complete, fail, send_delta, flush, reply,
                  resolve, chunk, time_out, workerStore, workerVars, linkVars, consumerVars
    <3>2. CASE \E s \in DOMAIN sessions : Session(s)
      BY <3>2 DEF Session, receive_registration, register_provider, serve, announce, provider_closes, relay_closes,
                  workerVars, consumerVars
    <3>3. CASE connect \/ Sweep \/ UNCHANGED vars
      BY <3>3 DEF connect, Sweep, sweep, vars, workerVars, linkVars, consumerVars
    <3> QED
      BY <1>5, <3>1, <3>2, <3>3
  <2>2. KeysTyped' /\ \A key \in keys : key.expires_at > now => key \in keys'
    BY <1>0, <2>1, KnownStays
  <2>3. FrameInv'
    BY <1>0, <2>1, <2>2, FramesKept
  <2> QED
    BY <1>1, <2>2, <2>3 DEF KeyInv
<1> QED
  BY <1>2, <1>3, <1>4, <1>5 DEF Next

-----------------------------------------------------------------------------
THEOREM KeysInvariant == Spec => []KeyInv
  BY KeyInvInit, KeyInvNext, PTL DEF Spec

\* A reconnect never leaves the Provider registered with a dead session, however the end of the old link and the
\* registration of the new one interleave (relay/server.py:223-275, relay/core.py:113-121).
THEOREM NoDeadSession == Spec => []RegisteredOpen
<1>1. KeyInv => RegisteredOpen
  BY DEF KeyInv, SessionInv
<1> QED
  BY <1>1, KeysInvariant, PTL

\* A Consumer never holds a good frame whose key the process that published it has dropped
\* (worker.py:39-40, 127-151; secure_transport.py's seal_frame).
THEOREM FramesStayOpen == Spec => []FramesOpen
<1>1. KeyInv => FramesOpen
  BY DEF KeyInv, FrameInv
<1> QED
  BY <1>1, KeysInvariant, PTL

\* No slot is lost and none is given twice, however a job ends (worker.py:164-276).
THEOREM SlotsKept == Spec => []SlotsExact
<1>1. KeyInv => registered \in Nat
  BY DEF KeyInv, SessionInv
<1>2. SlotInv => SlotsExact
  BY DEF SlotInv
<1> QED
  BY <1>1, <1>2, SlotInvInit, SlotInvNext, LinkInvariant, KeysInvariant, PTL DEF Spec
=============================================================================
