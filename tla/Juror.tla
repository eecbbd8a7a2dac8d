------------------------------- MODULE Juror -------------------------------
(***************************************************************************)
(* A Provider drawn as a juror (handle_jury, handle_capability_jury and    *)
(* _judge_capability of mycomesh/provider/worker.py, verify_evidence of    *)
(* mycomesh/jury.py and verify_case_evidence of mycomesh/hunting.py).      *)
(*                                                                         *)
(* A dispute is judged while the desk waits, anew each time it asks.  A    *)
(* capability case is judged by a thread of its own; until that ends, and  *)
(* after, the juror answers from memory.                                   *)
(***************************************************************************)
EXTENDS CaseChain

CONSTANTS
  PermitLife,     \* of a vote on a dispute
  CasePermitLife  \* on a capability case

VARIABLES
  known,   \* _capability_votes: per juror, what it answers for the case
  judging  \* per juror, the threads that judge it

jurorVars == <<known, judging>>

abstain == [answer |-> "abstain", confirmed |-> FALSE, deadline |-> 0]
pending == [answer |-> "pending", confirmed |-> FALSE, deadline |-> 0]
nothing == [answer |-> "none", confirmed |-> FALSE, deadline |-> 0]
permit(confirmed, deadline) == [answer |-> "permit", confirmed |-> confirmed, deadline |-> deadline]

\* verify_evidence, verify_case_evidence: the plaintexts are those the receipts sign.  The hash is the committed one.
verified(evidence) == evidence = committed /\ evidence = "signed"
drawn == assignment = "ready"

\* handle_jury, asked since then: what it may answer.  A verdict that cannot be read or is not sure is an abstention.
jury_answers(evidence, since) ==
  IF drawn /\ verified(evidence)
  THEN {abstain} \cup {permit(confirmed, at + PermitLife) : confirmed \in BOOLEAN, at \in since .. now}
  ELSE {}

\* handle_capability_jury, for a juror that has no answer in memory.  Two calls may both find none.
starts_judging(j, evidence) ==
  /\ (\E case \in Views : case.status = "open") /\ drawn /\ verified(evidence)
  /\ known' = [known EXCEPT ![j] = pending]
  /\ judging' = [judging EXCEPT ![j] = @ + 1]

\* _judge_capability: the control group answered, and decides; or something failed.
judged(j) ==
  /\ judging[j] > 0 /\ judging' = [judging EXCEPT ![j] = @ - 1]
  /\ \E vote \in {abstain} \cup {permit(confirmed, now + CasePermitLife) : confirmed \in BOOLEAN} :
       known' = [known EXCEPT ![j] = vote]
  /\ UNCHANGED chainVars

restart_juror(j) ==
  /\ Restarted
  /\ known' = [known EXCEPT ![j] = nothing] /\ judging' = [judging EXCEPT ![j] = 0]

JurorInit == known = [j \in Jurors |-> nothing] /\ judging = [j \in Jurors |-> 0]
=============================================================================
