------------------------------- MODULE Court -------------------------------
(***************************************************************************)
(* One case, the desks and jurors that may decide it, and the keeper that  *)
(* ends it if they do not.                                                 *)
(***************************************************************************)
EXTENDS DisputeDesk, Keeper

vars == <<chainVars, jurorVars, deskVars, keeperVars>>

Others == (escrow \/ open_dispute \/ open_case \/ relay_releases \/ void \/ catch_up \/ tick)
          /\ UNCHANGED <<jurorVars, deskVars, keeperVars>>
JurorStep == (\E j \in Jurors : judged(j) \/ restart_juror(j)) /\ UNCHANGED <<deskVars, keeperVars>>
DeskStep(d) == cycle(d) /\ UNCHANGED keeperVars
Evidence(d) == (\E e \in {"signed", "other"} : submit_evidence(d, e)) /\ UNCHANGED keeperVars
DeskRestarts(d) == restart_desk(d) /\ UNCHANGED keeperVars
KeeperStep == run /\ UNCHANGED <<jurorVars, deskVars>>
KeeperRestarts == restart_keeper /\ UNCHANGED <<jurorVars, deskVars>>

Next ==
  \/ Others \/ JurorStep \/ KeeperStep \/ KeeperRestarts
  \/ \E d \in Desks : DeskStep(d) \/ Evidence(d) \/ DeskRestarts(d)

Init == ChainInit /\ JurorInit /\ DeskInit /\ KeeperInit

Spec == Init /\ [][Next]_vars

\* Time passes, nodes catch up, the keeper's loop goes on, and a desk's goes on
\* with a capability case.  Of a dispute's desks, its payer and its jurors
\* nothing is assumed.
Fairness ==
  /\ WF_vars(tick /\ UNCHANGED <<jurorVars, deskVars, keeperVars>>)
  /\ WF_vars(catch_up /\ UNCHANGED <<jurorVars, deskVars, keeperVars>>)
  /\ WF_vars(KeeperStep)
  /\ \A d \in Desks : WF_vars(kind = "capability" /\ DeskStep(d))

FairSpec == Spec /\ Fairness

-----------------------------------------------------------------------------
\* A row a desk has closed says how the chain ended the case, whoever ended it and whatever answers were lost.  Only
\* where nodes lag may a desk let go of a case that has not ended, and it then notes no outcome (disputes.py:222-232).
ClosedTrue ==
  \A d \in Desks :
    rows[d] \notin {"absent", "open"} => (Ended /\ rows[d] = status) \/ (lag /\ rows[d] \in Undecided)

\* While the chain needs a call of a block the keeper has passed, the keeper has it noted: nothing it read, did or
\* failed to do loses one (keeper.py:62-122).
DutyKept ==
  \A duty \in Duties :
    (Needed(duty) /\ \E i \in 1 .. cursor : duty \in log[i]) => duties[duty] # never

\* A receipt is released or disputed, and a dispute ends, with no Relay, payer or juror doing anything (keeper.py:1-9),
\* whatever lags; a capability case ends while a desk holds it, and then no juror is needed (disputes.py:175-179).  Only
\* where nodes lag may every desk let go of it.
Held == \E d \in Desks : rows[d] = "open"
CaseEnds ==
  (status \in {"pending", "disputed"} \/ (status = "open" /\ Held)) ~> (Ended \/ (kind = "capability" /\ lag /\ ~Held))

\* "the timeout returns the hunter's bond" (disputes.py:187) of a case whose evidence a desk has taken, when no jury
\* could be formed.
BondReturned == (status = "open" /\ assignment = "failed" /\ Held) ~> Ended

\* "finalizeJury once a case's drand round is published" (keeper.py:7): of a capability case too.
CaseDrawn == (assignment = "pending") ~> (assignment # "pending" \/ Ended)
=============================================================================
