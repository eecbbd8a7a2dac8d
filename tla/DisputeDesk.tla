---------------------------- MODULE DisputeDesk ----------------------------
(***************************************************************************)
(* Relay dispute desks (mycomesh/relay/disputes.py): each holds evidence,  *)
(* has juries drawn, gathers the jurors' permits and submits a quorum, or  *)
(* the timeout.  Rows are on disk; the answers gathered are in memory.     *)
(*                                                                         *)
(* One thread advances a desk's cases.  Between what it reads of the chain *)
(* and what it sends there, the chain moves on.                            *)
(***************************************************************************)
EXTENDS Juror

CONSTANTS Desks

VARIABLES
  rows,      \* per desk, the row's state, or "absent"
  answers,   \* _answers: per desk, the jurors' answers in the order they came
  doing,     \* per desk, what it is about to do
  asking,    \* per desk, the jurors it has still to ask this cycle
  since      \* per desk, when it began to ask them

deskVars == <<rows, answers, doing, asking, since>>

\* Whether a read says that the case is open.
OpenIn(case) == case.status \in {"disputed", "open"}

Goes(d, next) == doing' = [doing EXCEPT ![d] = next]
Done(d) == Goes(d, "nothing") /\ UNCHANGED <<rows, answers, asking, since>>
Closed(d, state) == rows' = [rows EXCEPT ![d] = state] /\ answers' = [answers EXCEPT ![d] = <<>>]

-----------------------------------------------------------------------------
\* submit_evidence, submit_capability_evidence: the chain must hold an open case that commits to it.  A dispute's is
\* verified too, a capability case's by its jurors only.
submit_evidence(d, evidence) ==
  /\ (\E case \in Views : OpenIn(case)) /\ evidence = committed /\ (kind = "dispute" => verified(evidence))
  /\ rows[d] = "absent" /\ rows' = [rows EXCEPT ![d] = "open"]
  /\ UNCHANGED <<chainVars, jurorVars, answers, doing, asking, since>>

Answered(d) == {answers[d][i].juror : i \in DOMAIN answers[d]}

\* _advance, _advance_capability: what the chain says decides what is done next.  A dispute's status, date and jury are
\* three calls, a capability case's status and date are one.
advance(d) ==
  /\ rows[d] = "open" /\ doing[d] = "nothing"
  /\ \E case, timeout, jury \in Views :
       /\ kind = "capability" => timeout = case
       /\ \/ ~OpenIn(case) /\ Closed(d, case.status) /\ UNCHANGED <<doing, asking, since>>
          \/ /\ OpenIn(case) /\ now >= timeout.resolve_at
             /\ Goes(d, "time out") /\ UNCHANGED <<rows, answers, asking, since>>
          \/ /\ OpenIn(case) /\ now < timeout.resolve_at /\ jury.assignment = "pending" /\ now >= jury.round_at
             /\ Goes(d, "draw") /\ UNCHANGED <<rows, answers, asking, since>>
          \/ /\ OpenIn(case) /\ now < timeout.resolve_at /\ jury.assignment = "ready" /\ Goes(d, "gather")
             /\ since' = [since EXCEPT ![d] = now] /\ asking' = [asking EXCEPT ![d] = Jurors \ Answered(d)]
             /\ UNCHANGED <<rows, answers>>
  /\ UNCHANGED <<chainVars, jurorVars>>

\* Mutant: closed though the transaction failed.
time_out_closed(d) ==
  /\ doing[d] = "time out" /\ Goes(d, "nothing") /\ UNCHANGED <<jurorVars, asking, since>>
  /\ (Mined(TimedOut) \/ Failed(CanTimeOut, TimedOut)) /\ Closed(d, "timed_out")

\* A capability case is closed when the transaction was mined; for a dispute the chain is asked again.
time_out(d) ==
  /\ doing[d] = "time out" /\ UNCHANGED <<jurorVars, asking, since>>
  /\ \/ kind = "dispute" /\ Mined(TimedOut) /\ Goes(d, "close") /\ UNCHANGED <<rows, answers>>
     \/ kind = "capability" /\ Mined(TimedOut) /\ Goes(d, "nothing") /\ Closed(d, "timed_out")
     \/ Failed(CanTimeOut, TimedOut) /\ Goes(d, "nothing") /\ UNCHANGED <<rows, answers>>

\* The row takes the status read then, whatever it is; if it cannot be read, the row stays as it is.
close(d) ==
  /\ doing[d] = "close" /\ Goes(d, "nothing") /\ UNCHANGED <<chainVars, jurorVars, asking, since>>
  /\ \/ \E case \in Views : Closed(d, case.status)
     \/ UNCHANGED <<rows, answers>>

\* The beacon may not be available yet.
draw(d) ==
  /\ doing[d] = "draw" /\ Done(d) /\ UNCHANGED jurorVars
  /\ (Mined(Drawn) \/ Failed(CanDraw, Drawn))

-----------------------------------------------------------------------------
(* Gathering *)

Heard(d, j, vote) == answers' = [answers EXCEPT ![d] = Append(@, [answer |-> vote.answer, confirmed |-> vote.confirmed, deadline |-> vote.deadline, juror |-> j])]

\* A juror that is not reachable, rejects the job or is not done yet is asked again in the next cycle.  An abstention
\* is final, and so is a permit.
ask(d, j) ==
  /\ doing[d] = "gather" /\ j \in asking[d] /\ asking' = [asking EXCEPT ![d] = @ \ {j}]
  /\ \/ UNCHANGED <<answers, jurorVars>>
     \/ kind = "dispute" /\ (\E vote \in jury_answers(committed, since[d]) : Heard(d, j, vote)) /\ UNCHANGED jurorVars
     \/ kind = "capability" /\ known[j].answer \in {"permit", "abstain"} /\ Heard(d, j, known[j]) /\ UNCHANGED jurorVars
     \/ kind = "capability" /\ known[j].answer = "none" /\ starts_judging(j, committed) /\ UNCHANGED answers
  /\ UNCHANGED <<chainVars, rows, doing, since>>

\* Which answers are permits with one verdict.
Saying(d, confirmed) ==
  {i \in DOMAIN answers[d] : answers[d][i].answer = "permit" /\ answers[d][i].confirmed = confirmed}
Enough(d, confirmed) == Cardinality(Saying(d, confirmed)) >= threshold
Quorum(d, confirmed) ==
  LET Before(i) == {k \in Saying(d, confirmed) : k < i}
  IN {answers[d][i] : i \in {k \in Saying(d, confirmed) : Cardinality(Before(k)) < threshold}}

\* The first threshold permits of a verdict that has as many are submitted.
vote(d) ==
  /\ doing[d] = "gather" /\ asking[d] = {} /\ Goes(d, "nothing") /\ UNCHANGED <<jurorVars, asking>>
  /\ since' = [since EXCEPT ![d] = 0]
  /\ \/ ~Enough(d, TRUE) /\ ~Enough(d, FALSE) /\ UNCHANGED <<chainVars, rows, answers>>
     \/ \E confirmed \in BOOLEAN :
          /\ Enough(d, confirmed)
          /\ LET permits == Quorum(d, confirmed)
             IN \/ Mined(Voted(permits)) /\ Closed(d, Verdict(confirmed))
                \/ Failed(CanVote(permits), Voted(permits)) /\ UNCHANGED <<rows, answers>>

restart_desk(d) ==
  /\ Restarted
  /\ answers' = [answers EXCEPT ![d] = <<>>] /\ Goes(d, "nothing") /\ asking' = [asking EXCEPT ![d] = {}]
  /\ since' = [since EXCEPT ![d] = 0]
  /\ UNCHANGED <<jurorVars, rows>>

cycle(d) == advance(d) \/ time_out(d) \/ close(d) \/ draw(d) \/ vote(d) \/ (\E j \in Jurors : ask(d, j))

DeskInit ==
  /\ rows = [d \in Desks |-> "absent"] /\ answers = [d \in Desks |-> <<>>] /\ doing = [d \in Desks |-> "nothing"]
  /\ asking = [d \in Desks |-> {}] /\ since = [d \in Desks |-> 0]
=============================================================================
