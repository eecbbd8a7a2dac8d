----------------------------- MODULE Capability -----------------------------
(***************************************************************************)
(* Grading, and the rule by which a hunter holds a Provider for downgraded *)
(* (mycomesh/capability.py and mycomesh/relay/probes.py).                  *)
(*                                                                         *)
(* An answer is a record: the values it states, line by line, and those in *)
(* its last box, if it has one.  Probabilities are compared in integers:   *)
(* a rate is per hundred, and both sides are multiplied out.               *)
(***************************************************************************)
EXTENDS Integers, Sequences, FiniteSets, SequencesExt

CONSTANTS Nothing  \* an answer without a box

-----------------------------------------------------------------------------
(* Grades *)

\* The values that decide: those of the last box, else of the last line that states any.
stated(answer) ==
  IF answer.boxed # Nothing THEN answer.boxed
  ELSE LET said == SelectSeq(answer.lines, LAMBDA line : line # <<>>)
       IN IF said = <<>> THEN <<>> ELSE Last(said)

\* CapabilityTask.grade: more than three values list candidates (or more than one weekday, or choice), and are
\* no answer.  Never unrelated.
grade_capability(task, answer) ==
  LET most == IF task.kind \in {"calendar", "choice"} THEN 1 ELSE 3
  IN IF Len(stated(answer)) <= most /\ task.reference \in ToSet(stated(answer)) THEN "pass" ELSE "wrong"

\* ProbeTask.grade: the reference anywhere among the values passes; no value at all is no attempt.
grade_probe(task, answer) ==
  LET values == ToSet(FlattenSeq(answer.lines))
      right  == IF task.kind = "weekday" THEN values = {task.reference} ELSE task.reference \in values
  IN IF values = {} THEN "unrelated" ELSE IF right THEN "pass" ELSE "wrong"

CapabilityKinds == {"trace", "calendar", "choice"}
grade_task(task, answer) ==
  IF task.kind \in CapabilityKinds THEN grade_capability(task, answer) ELSE grade_probe(task, answer)

-----------------------------------------------------------------------------
(* The hunter's rule *)

\* z * z for z = 2.326, per hundred.
ZZ == 541

\* wilson_upper(passes, total) < floor, with floor per hundred: floor * (total + zz) - passes - zz / 2 is positive
\* and its square above zz * (passes * (total - passes) / total + zz / 4).
below(passes, total, floor) ==
  LET margin == (floor * (total * 100 + ZZ)) \div 100 - passes * 100 - ZZ \div 2
  IN /\ margin > 0
     /\ margin * margin > ZZ * ((passes * (total - passes) * 100) \div total + ZZ \div 4)

\* flagged: never on fewer than minimum grades.
flagged(passes, total, floor, minimum) == total > 0 /\ total >= minimum /\ below(passes, total, floor)

=============================================================================
