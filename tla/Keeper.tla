------------------------------- MODULE Keeper -------------------------------
(***************************************************************************)
(* The keeper (mycomesh/keeper.py): it follows the chain's logs, notes     *)
(* what will be due, and makes the calls anyone may make that nobody else  *)
(* has made a grace period later.  Cursor and duties are on disk.          *)
(***************************************************************************)
EXTENDS CaseChain

CONSTANTS grace

ASSUME KeeperAssumption == grace \in Nat

Duties == {"release", "dispute", "jury"}

VARIABLES
  cursor,    \* blocks scanned
  duties,    \* when each duty noted is due; one that is not noted, never
  due,       \* what is left to do of this cycle
  sending    \* the duty whose transaction is under way

keeperVars == <<cursor, duties, due, sending>>
never == -1
Idle == due = {} /\ sending = {}

DueAt(duty) == CASE duty = "release" -> release_at + grace
                 [] duty = "dispute" -> resolve_at + grace
                 [] duty = "jury" -> round_at + grace \div 12

noted(events) == duties' = [duty \in Duties |-> IF duty \in events THEN DueAt(duty) ELSE duties[duty]]

\* Mutant: the cursor moves on before the block's duties are on disk.
scan_cursor_first ==
  /\ Idle /\ cursor < Len(log) /\ UNCHANGED <<due, sending>>
  /\ cursor' = cursor + 1
  /\ \/ noted(log[cursor + 1]) /\ UNCHANGED chainVars
     \/ \E events \in SUBSET log[cursor + 1] : noted(events) /\ Restarted

\* A block's duties, and then the cursor; or some of them, and the process ends.
scan ==
  /\ Idle /\ cursor < Len(log) /\ UNCHANGED <<due, sending>>
  /\ \/ noted(log[cursor + 1]) /\ cursor' = cursor + 1 /\ UNCHANGED chainVars
     \/ \E events \in SUBSET log[cursor + 1] :
          noted(events) /\ Restarted /\ UNCHANGED cursor

\* act: every duty that is due, of the blocks scanned so far.
act ==
  /\ Idle
  /\ due' = {duty \in Duties : duties[duty] # never /\ duties[duty] <= now} /\ due' # {}
  /\ UNCHANGED <<cursor, duties, sending, chainVars>>

\* What settlementInfo says of the case; it knows no capability case.
settlement_status(case) == IF kind = "dispute" THEN case.status ELSE "none"
NeededIn(duty, case, jury) ==
  CASE duty = "release" -> settlement_status(case) = "pending"
    [] duty = "dispute" -> settlement_status(case) = "disputed"
    [] duty = "jury" -> settlement_status(case) = "disputed" /\ jury.assignment = "pending"
Needed(duty) == NeededIn(duty, View, View)

Dropped(duty) == duties' = [duties EXCEPT ![duty] = never]

\* _release, _perform: a duty nobody needs any more, by what the nodes asked say, is dropped.
consider(duty) ==
  /\ duty \in due /\ sending = {} /\ due' = due \ {duty}
  /\ \E case, jury \in Views :
       \/ NeededIn(duty, case, jury) /\ sending' = {duty} /\ UNCHANGED duties
       \/ ~NeededIn(duty, case, jury) /\ Dropped(duty) /\ UNCHANGED sending
  /\ UNCHANGED <<cursor, chainVars>>

Can(duty) == CASE duty = "release" -> CanRelease [] duty = "dispute" -> CanTimeOut [] duty = "jury" -> CanDraw
Called(duty) == CASE duty = "release" -> Released [] duty = "dispute" -> TimedOut [] duty = "jury" -> Drawn

\* Mutant: a call that fails is not made again.
perform_once(duty) ==
  /\ duty \in sending /\ sending' = {} /\ UNCHANGED <<cursor, due>>
  /\ (Mined(Called(duty)) \/ Failed(Can(duty), Called(duty))) /\ Dropped(duty)

\* A call that fails is made again in a later cycle, if it is still needed then.
perform(duty) ==
  /\ duty \in sending /\ sending' = {} /\ UNCHANGED <<cursor, due>>
  /\ \/ Mined(Called(duty)) /\ Dropped(duty)
     \/ Failed(Can(duty), Called(duty)) /\ UNCHANGED duties

restart_keeper ==
  /\ ~Idle /\ Restarted
  /\ due' = {} /\ sending' = {}
  /\ UNCHANGED <<cursor, duties>>

run == scan \/ act \/ \E duty \in Duties : consider(duty) \/ perform(duty)

KeeperInit == cursor = 0 /\ duties = [duty \in Duties |-> never] /\ due = {} /\ sending = {}
=============================================================================
