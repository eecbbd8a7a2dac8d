----------------------------- MODULE CourtProofs -----------------------------
(***************************************************************************)
(* Proofs about Court, for any jurors, quorum, desks, dates, restarts and  *)
(* lost calls, whether nodes lag or not: what a desk has closed is closed,  *)
(* and the keeper loses no duty.                                           *)
(***************************************************************************)
EXTENDS Court, SequenceTheorems, TLAPS

Early == {"none", "pending"}

Typed ==
  /\ now \in Nat /\ {release_at, resolve_at, round_at} \subseteq Nat
  /\ log \in Seq(SUBSET Duties) /\ cursor \in Nat /\ cursor <= Len(log)
  /\ duties \in [Duties -> Int] /\ DOMAIN rows = Desks /\ DOMAIN doing = Desks

\* What a node that lags says was true since the last tick: what has ended has ended, and what it has not seen yet is
\* not due yet.
PastTrue ==
  /\ ~lag => past = {}
  /\ \A case \in past :
       /\ case.status \notin Undecided => case.status = status
       /\ case.status \notin Early => status \notin Early
       /\ status = "pending" => case.status = "pending" \/ release_at > now
       /\ status = "disputed" => case.status = "disputed" \/ (resolve_at > now /\ round_at > now)
       /\ status = "disputed" /\ assignment = "pending" => case.assignment = "pending" \/ round_at > now

\* What a desk may close its row with.
Closable(row) == (Ended /\ row = status) \/ (lag /\ row \in Undecided)

\* A desk has a row of a case that was opened; it reads how the case ended when it has ended.
RowsFollow ==
  \A d \in Desks :
    /\ rows[d] # "absent" => status \notin Early
    /\ rows[d] \notin {"absent", "open"} => Closable(rows[d])
    /\ doing[d] = "close" => Ended

\* What an event of the log says has happened, still holds.
Happened(duty) == IF duty = "release" THEN status # "none" ELSE status \notin Early
Logged == \A i \in DOMAIN log : \A duty \in log[i] : Happened(duty)

\* What the keeper has noted is due when the chain says, and it does what is due by now.
Timed ==
  /\ \A duty \in Duties : duties[duty] # never => Happened(duty) /\ duties[duty] = DueAt(duty)
  /\ due \subseteq Duties /\ \A duty \in due : Happened(duty) /\ DueAt(duty) <= now

CourtInv == Typed /\ PastTrue /\ RowsFollow /\ Logged /\ Timed /\ DutyKept

-----------------------------------------------------------------------------
(* How a case moves *)

\* No step takes a case back, or changes how it ended.
Onward ==
  /\ Ended => status' = status
  /\ status \notin Early => status' \notin Early
  /\ status # "none" => status' # "none"
  /\ lag' = lag

\* Most steps leave clock, dates and log alone, and need no call that was not needed before.
Calm ==
  /\ Onward /\ UNCHANGED <<kind, now, dates, log>> /\ past' \subseteq Views /\ (~lag => past' = {} \/ past' = past)
  /\ status' \in {"none", "pending", "disputed"} => status' = status
  /\ status' = "disputed" /\ assignment' = "pending" => assignment = "pending"

LEMMA CalmEffect ==
  ASSUME \/ Released \/ TimedOut \/ Drawn \/ (\E permits : Voted(permits)) \/ void \/ NotSent
  PROVE  Calm
<1>1. UNCHANGED <<kind, lag, now, dates, log>> /\ (MovesOn \/ past' = past)
  BY DEF Released, TimedOut, Drawn, Voted, void, NotSent, Becomes, setting, dates
<1>2. Onward
  <2>1. status' = status \/ (status = "pending" /\ status' \in {"released", "voided"})
        \/ (status \in {"disputed", "open"} /\ status' \in {"jury_unavailable", "timed_out", "confirmed", "dismissed"})
    BY DEF Released, TimedOut, Drawn, Voted, void, NotSent, Becomes, Open, CanRelease, CanTimeOut, CanVote, Verdict
  <2> QED
    BY <1>1, <2>1 DEF Onward, Ended, Undecided, Early
<1>3. \/ UNCHANGED <<status, assignment>>
      \/ status' \notin {"none", "pending", "disputed"}
      \/ status' = status /\ assignment' = "ready"
  BY DEF Released, TimedOut, Drawn, Voted, void, NotSent, Becomes, Verdict
<1>4. past' \subseteq Views /\ (~lag => past' = {} \/ past' = past)
  BY <1>1 DEF MovesOn, Views
<1> QED
  BY <1>1, <1>2, <1>3, <1>4 DEF Calm

\* Neither does one that leaves the case alone.
LEMMA CalmStill ==
  ASSUME UNCHANGED <<kind, lag, status, assignment, now, dates, log>>, past' = past \/ past' = {} PROVE Calm
BY DEF Calm, Onward, Ended, Early, Views

LEMMA CalmRestart == Restarted => Calm
BY CalmStill DEF Restarted

LEMMA CalmStutter == UNCHANGED chainVars => Calm
BY CalmStill DEF chainVars, dates

LEMMA CalmNeeds == ASSUME Calm, NEW duty \in Duties, Needed(duty)' PROVE Needed(duty)
BY DEF Calm, Needed, NeededIn, settlement_status, View, Duties

\* What a duty was noted for, stays as it was.
LEMMA CalmTimes ==
  ASSUME Calm, NEW duty \in Duties PROVE DueAt(duty)' = DueAt(duty) /\ (Happened(duty) => Happened(duty)')
BY DEF Calm, Onward, dates, DueAt, Duties, Happened

-----------------------------------------------------------------------------
(* What the programs may rely on *)

LEMMA PastStays == ASSUME PastTrue, Calm PROVE PastTrue'
<1>1. UNCHANGED <<kind, lag, now, release_at, resolve_at, round_at>>
  BY DEF Calm, Onward, dates
<1>2. ~lag' => past' = {}
  BY <1>1 DEF PastTrue, Calm
<1>3. ASSUME NEW case \in past'
      PROVE  /\ case.status \notin Undecided => case.status = status'
             /\ case.status \notin Early => status' \notin Early
             /\ status' = "pending" => case.status = "pending" \/ release_at > now
             /\ status' = "disputed" => case.status = "disputed" \/ (resolve_at > now /\ round_at > now)
             /\ status' = "disputed" /\ assignment' = "pending" => case.assignment = "pending" \/ round_at > now
  <2>1. CASE case \in past
    BY <2>1 DEF PastTrue, Calm, Onward, Ended
  <2>2. CASE case = View
    <3>1. case.status = status /\ case.assignment = assignment
      BY <2>2 DEF View
    <3> QED
      BY <3>1 DEF Calm, Onward, Ended
  <2> QED
    BY <2>1, <2>2 DEF Calm, Views
<1> QED
  BY <1>1, <1>2, <1>3 DEF PastTrue

\* Rows that stay follow the case.
LEMMA ClosableStays == ASSUME Onward, NEW row, Closable(row) PROVE Closable(row)'
BY DEF Closable, Onward, Ended

LEMMA RowsStay == ASSUME RowsFollow, Onward, UNCHANGED <<rows, doing>> PROVE RowsFollow'
<1>1. \A d \in Desks : Closable(rows[d]) => Closable(rows[d])'
  BY ClosableStays DEF Closable
<1> QED
  BY <1>1 DEF RowsFollow, Onward, Ended

\* So does a desk's row that changes, if it is opened or closed as it may be.
DeskMoves(d, row, next) ==
  /\ DOMAIN rows' = Desks /\ rows'[d] = row /\ \A e \in Desks \ {d} : rows'[e] = rows[e]
  /\ DOMAIN doing' = Desks /\ doing'[d] = next /\ \A e \in Desks \ {d} : doing'[e] = doing[e]
  /\ row = rows[d] \/ (status' \notin Early /\ (row = "open" \/ Closable(row)'))
  /\ next = "close" => Ended' \/ next = doing[d]

LEMMA RowChanges ==
  ASSUME RowsFollow, Onward, NEW d \in Desks, NEW row, NEW next, DeskMoves(d, row, next)
  PROVE  RowsFollow' /\ DOMAIN rows' = Desks /\ DOMAIN doing' = Desks
<1>1. /\ DOMAIN rows' = Desks /\ rows'[d] = row /\ \A e \in Desks \ {d} : rows'[e] = rows[e]
      /\ DOMAIN doing' = Desks /\ doing'[d] = next /\ \A e \in Desks \ {d} : doing'[e] = doing[e]
  BY DEF DeskMoves
<1>2. ASSUME NEW e \in Desks
      PROVE  /\ rows'[e] # "absent" => status' \notin Early
             /\ rows'[e] \notin {"absent", "open"} => Closable(rows[e])'
             /\ doing'[e] = "close" => Ended'
  <2>1. doing'[e] = "close" => Ended'
    BY <1>1 DEF DeskMoves, RowsFollow, Onward, Ended
  <2>2. CASE rows'[e] = rows[e]
    BY <2>1, <2>2 DEF RowsFollow, Onward, Closable, Ended
  <2>3. CASE rows'[e] # rows[e]
    <3>1. rows'[e] = row /\ status' \notin Early /\ (row = "open" \/ Closable(row)')
      BY <1>1, <2>3 DEF DeskMoves
    <3> QED
      BY <2>1, <3>1 DEF Closable
  <2> QED
    BY <2>2, <2>3
<1> QED
  BY <1>1, <1>2 DEF RowsFollow

LEMMA LogStays == ASSUME Typed, Logged, Onward, log' = log PROVE Logged'
BY DEF Typed, Logged, Onward, Happened, Duties

\* A call that is noted, or not needed any more, is not lost.
LEMMA DutiesStay ==
  ASSUME Calm, DutyKept, cursor' = cursor,
         \A duty \in Duties : duties[duty] # never => duties'[duty] # never \/ ~Needed(duty)'
  PROVE  DutyKept'
BY CalmNeeds DEF DutyKept, Calm, never

LEMMA TimesStay == ASSUME Timed, Calm, UNCHANGED <<duties, due>> PROVE Timed'
<1>1. now' = now
  BY DEF Calm
<1> QED
  BY <1>1, CalmTimes DEF Timed, never

\* The rest stays true when a desk or a juror moves while the chain is calm.
LEMMA CalmRest ==
  ASSUME CourtInv, Calm, UNCHANGED keeperVars, DOMAIN rows' = Desks, DOMAIN doing' = Desks, RowsFollow' PROVE CourtInv'
<1>1. UNCHANGED <<now, dates, log, cursor, duties, due>>
  BY DEF Calm, keeperVars
<1>2. Typed'
  BY <1>1 DEF CourtInv, Typed, dates
<1>3. Logged' /\ PastTrue'
  BY <1>1, PastStays, LogStays DEF CourtInv, Calm
<1>4. DutyKept' /\ Timed'
  BY <1>1, DutiesStay, TimesStay DEF CourtInv
<1> QED
  BY <1>2, <1>3, <1>4 DEF CourtInv

LEMMA CalmKeeps ==
  ASSUME CourtInv, Calm, UNCHANGED <<keeperVars, rows, doing>> PROVE CourtInv'
<1>1. RowsFollow' /\ DOMAIN rows' = Desks /\ DOMAIN doing' = Desks
  BY RowsStay DEF CourtInv, Calm, Typed
<1> QED
  BY <1>1, CalmRest

-----------------------------------------------------------------------------
(* The chain's own steps *)

\* A block is added, of events that are true now.
LEMMA BlockAdded ==
  ASSUME CourtInv, Onward, NEW events \in SUBSET Duties, log' = Append(log, events),
         \A duty \in events : Happened(duty)'
  PROVE  /\ log' \in Seq(SUBSET Duties) /\ cursor <= Len(log') /\ Logged'
         /\ \A i \in 1 .. cursor : i \in DOMAIN log /\ log'[i] = log[i]
<1>1. /\ log' \in Seq(SUBSET Duties) /\ Len(log') = Len(log) + 1 /\ log'[Len(log) + 1] = events
      /\ \A i \in DOMAIN log : log'[i] = log[i] /\ log[i] \subseteq Duties
      /\ DOMAIN log = 1 .. Len(log) /\ DOMAIN log' = 1 .. Len(log) + 1 /\ Len(log) \in Nat
  BY DEF CourtInv, Typed
<1>2. cursor \in Nat /\ cursor <= Len(log)
  BY DEF CourtInv, Typed
<1>3. Logged'
  <2> SUFFICES ASSUME NEW i \in DOMAIN log', NEW duty \in log'[i] PROVE Happened(duty)'
    BY DEF Logged
  <2>1. CASE i \in DOMAIN log
    BY <1>1, <2>1 DEF CourtInv, Logged, Onward, Happened
  <2>2. CASE i \notin DOMAIN log
    <3>1. i = Len(log) + 1
      BY <1>1, <2>2
    <3> QED
      BY <1>1, <3>1
  <2> QED
    BY <2>1, <2>2
<1> QED
  BY <1>1, <1>2, <1>3

\* The transactions that open a case add a block; what the keeper has noted keeps its date.
LEMMA OpeningKeeps ==
  ASSUME CourtInv, Onward, UNCHANGED <<kind, now, deskVars, keeperVars>>, PastTrue',
         {release_at', resolve_at', round_at'} \subseteq Nat,
         NEW events \in SUBSET Duties, log' = Append(log, events), \A duty \in events : Happened(duty)' /\ ~Happened(duty),
         \A duty \in Duties : Needed(duty)' => ~Happened(duty),
         \A duty \in Duties : Happened(duty) => DueAt(duty)' = DueAt(duty)
  PROVE  CourtInv'
<1>1. UNCHANGED <<rows, doing, cursor, duties, due>>
  BY DEF deskVars, keeperVars
<1>2. /\ log' \in Seq(SUBSET Duties) /\ cursor <= Len(log') /\ Logged'
      /\ \A i \in 1 .. cursor : i \in DOMAIN log /\ log'[i] = log[i]
  BY BlockAdded
<1>3. Typed'
  BY <1>1, <1>2 DEF CourtInv, Typed
<1>4. RowsFollow'
  BY <1>1, RowsStay DEF CourtInv
<1>5. DutyKept'
  <2> SUFFICES ASSUME NEW duty \in Duties, Needed(duty)', NEW i \in 1 .. cursor, duty \in log[i] PROVE FALSE
    BY <1>1, <1>2 DEF DutyKept
  <2>1. Happened(duty)
    BY <1>2 DEF CourtInv, Logged
  <2> QED
    BY <2>1
<1>6. Timed'
  <2>1. \A duty \in Duties : Happened(duty) => Happened(duty)'
    BY DEF Happened, Onward
  <2> QED
    BY <1>1, <2>1 DEF CourtInv, Timed
<1> QED
  BY <1>2, <1>3, <1>4, <1>5, <1>6 DEF CourtInv

LEMMA EscrowKeeps == ASSUME CourtInv, escrow, UNCHANGED <<deskVars, keeperVars>> PROVE CourtInv'
<1>1. /\ kind = "dispute" /\ status = "none" /\ status' = "pending" /\ release_at' = now + ReleaseIn
      /\ log' = Append(log, {"release"}) /\ UNCHANGED <<kind, lag, now, assignment, resolve_at, round_at>> /\ MovesOn
  BY DEF escrow, setting
<1>2. Onward
  BY <1>1 DEF Onward, Ended, Undecided, Early
<1>3. PICK events \in SUBSET Duties : events = {"release"}
  BY DEF Duties
<1>4. PastTrue'
  <2>1. now \in Nat /\ ReleaseIn \in Nat /\ ReleaseIn > 0
    BY CaseAssumption DEF CourtInv, Typed
  <2>2. \A case \in Views : case.status \in Early
    BY <1>1 DEF CourtInv, PastTrue, Undecided, Early, Views, View
  <2> QED
    BY <1>1, <2>1, <2>2 DEF PastTrue, MovesOn, Undecided, Early
<1>5. \A duty \in events : Happened(duty)' /\ ~Happened(duty)
  BY <1>1, <1>3 DEF Happened
<1>6. \A duty \in Duties : Needed(duty)' => ~Happened(duty)
  BY <1>1 DEF Needed, NeededIn, settlement_status, View, Duties, Happened
<1>7. \A duty \in Duties : ~Happened(duty)
  BY <1>1 DEF Duties, Happened, Early
<1>8. {release_at', resolve_at', round_at'} \subseteq Nat
  BY <1>1, CaseAssumption, SMTT(30) DEF CourtInv, Typed
<1> QED
  BY <1>1, <1>2, <1>3, <1>4, <1>5, <1>6, <1>7, <1>8, OpeningKeeps

LEMMA OpenDisputeKeeps == ASSUME CourtInv, open_dispute, UNCHANGED <<deskVars, keeperVars>> PROVE CourtInv'
<1>1. /\ status = "pending" /\ status' = "disputed" /\ resolve_at' = release_at + arbitrationTimeout /\ now < release_at
      /\ round_at' = now + RoundIn /\ UNCHANGED <<kind, lag, now, release_at>> /\ MovesOn
  BY DEF open_dispute, requests_jury, setting
<1>2. Onward
  BY <1>1 DEF Onward, Ended, Undecided, Early
<1>3. PICK events \in SUBSET Duties : events \subseteq {"dispute", "jury"} /\ log' = Append(log, events)
  BY DEF open_dispute, requests_jury, Duties
<1>4. now \in Nat /\ release_at \in Nat /\ RoundIn \in Nat /\ RoundIn > 0 /\ arbitrationTimeout \in Nat
  BY CaseAssumption DEF CourtInv, Typed
<1>5. PastTrue'
  <2>1. \A case \in Views : case.status \in Early
    BY <1>1 DEF CourtInv, PastTrue, Undecided, Early, Views, View
  <2>2. resolve_at' > now /\ round_at' > now
    BY <1>1, <1>4
  <2> QED
    BY <1>1, <2>1, <2>2 DEF PastTrue, MovesOn, Undecided, Early
<1>6. \A duty \in events : Happened(duty)' /\ ~Happened(duty)
  BY <1>1, <1>3 DEF Happened, Early
<1>7. \A duty \in Duties : Needed(duty)' => ~Happened(duty)
  BY <1>1 DEF Needed, NeededIn, settlement_status, View, Duties, Happened, Early
<1>8. \A duty \in Duties : Happened(duty) => DueAt(duty)' = DueAt(duty)
  BY <1>1 DEF Happened, Early, DueAt, Duties
<1>9. {release_at', resolve_at', round_at'} \subseteq Nat
  BY <1>1, <1>4
<1> QED
  BY <1>1, <1>2, <1>3, <1>5, <1>6, <1>7, <1>8, <1>9, OpeningKeeps

LEMMA OpenCaseKeeps == ASSUME CourtInv, open_case, UNCHANGED <<deskVars, keeperVars>> PROVE CourtInv'
<1>1. /\ kind = "capability" /\ status = "none" /\ status' = "open" /\ resolve_at' = now + arbitrationTimeout
      /\ round_at' = now + RoundIn /\ UNCHANGED <<kind, lag, now, release_at>> /\ MovesOn
  BY DEF open_case, requests_jury, setting
<1>2. Onward
  BY <1>1 DEF Onward, Ended, Undecided, Early
<1>3. PICK events \in SUBSET Duties : events \subseteq {"jury"} /\ log' = Append(log, events)
  BY DEF open_case, requests_jury, Duties
<1>4. PastTrue'
  <2>1. \A case \in Views : case.status \in Early
    BY <1>1 DEF CourtInv, PastTrue, Undecided, Early, Views, View
  <2> QED
    BY <1>1, <2>1 DEF PastTrue, MovesOn, Undecided, Early
<1>5. \A duty \in events : Happened(duty)' /\ ~Happened(duty)
  BY <1>1, <1>3 DEF Happened, Early
<1>6. \A duty \in Duties : ~Needed(duty)'
  BY <1>1 DEF Needed, NeededIn, settlement_status, Duties
<1>7. \A duty \in Duties : ~Happened(duty)
  BY <1>1 DEF Duties, Happened, Early
<1>8. {release_at', resolve_at', round_at'} \subseteq Nat
  BY <1>1, CaseAssumption, SMTT(30) DEF CourtInv, Typed
<1> QED
  BY <1>1, <1>2, <1>3, <1>4, <1>5, <1>6, <1>7, <1>8, OpeningKeeps

LEMMA TickKeeps == ASSUME CourtInv, tick, UNCHANGED <<deskVars, keeperVars>> PROVE CourtInv'
<1>1. /\ now' = now + 1 /\ past' = {} /\ UNCHANGED <<kind, lag, status, assignment, dates, log>>
      /\ UNCHANGED <<rows, doing, cursor, duties, due>>
  BY DEF tick, deskVars, keeperVars
<1>2. Typed'
  BY <1>1 DEF CourtInv, Typed, dates
<1>3. PastTrue' /\ Logged'
  BY <1>1 DEF CourtInv, PastTrue, Logged, Happened
<1>4. RowsFollow'
  BY <1>1, RowsStay, SMTT(30) DEF CourtInv, Onward
<1>5. DutyKept'
  BY <1>1 DEF CourtInv, DutyKept, Needed, NeededIn, settlement_status, View
<1>6. Timed'
  <2>1. \A duty \in Duties : DueAt(duty)' = DueAt(duty) /\ DueAt(duty) \in Nat /\ (Happened(duty)' <=> Happened(duty))
    BY <1>1, KeeperAssumption DEF DueAt, Duties, dates, Happened, CourtInv, Typed
  <2>2. now \in Nat
    BY DEF CourtInv, Typed
  <2> QED
    BY <1>1, <2>1, <2>2 DEF CourtInv, Timed
<1> QED
  BY <1>2, <1>3, <1>4, <1>5, <1>6 DEF CourtInv

LEMMA OthersKeep == ASSUME CourtInv, Others PROVE CourtInv'
<1>1. UNCHANGED <<deskVars, keeperVars>> /\ UNCHANGED <<keeperVars, rows, doing>>
  BY DEF Others, deskVars
<1>2. CASE relay_releases \/ void \/ catch_up
  <2>1. CASE catch_up
    BY <2>1, CalmStill, <1>1, CalmKeeps DEF catch_up, setting
  <2> QED
    BY <1>1, <1>2, <2>1, CalmEffect, CalmKeeps DEF relay_releases
<1> QED
  BY <1>1, <1>2, TickKeeps, EscrowKeeps, OpenDisputeKeeps, OpenCaseKeeps DEF Others

-----------------------------------------------------------------------------
(* Jurors and desks *)

LEMMA JurorKeeps == ASSUME CourtInv, JurorStep PROVE CourtInv'
<1>1. Calm
  BY CalmStutter, CalmRestart DEF JurorStep, judged, restart_juror
<1>2. UNCHANGED <<keeperVars, rows, doing>>
  BY DEF JurorStep, deskVars
<1> QED
  BY <1>1, <1>2, CalmKeeps

\* A desk moves while the chain is calm.
LEMMA MoveKeeps ==
  ASSUME CourtInv, Calm, UNCHANGED keeperVars, NEW d \in Desks, NEW row, NEW next, DeskMoves(d, row, next)
  PROVE  CourtInv'
<1>1. RowsFollow' /\ DOMAIN rows' = Desks /\ DOMAIN doing' = Desks
  BY RowChanges DEF CourtInv, Calm
<1> QED
  BY <1>1, CalmRest

\* It goes on, and its row stays.
LEMMA GoesKeeps ==
  ASSUME CourtInv, Calm, UNCHANGED keeperVars, NEW d \in Desks, NEW next, Goes(d, next), rows' = rows,
         next = "close" => Ended'
  PROVE  CourtInv'
<1>1. PICK row : row = rows[d]
  OBVIOUS
<1>2. DeskMoves(d, row, next)
  BY <1>1 DEF DeskMoves, Goes, CourtInv, Typed
<1> QED
  BY <1>2, MoveKeeps

\* It closes its row as it may, and is done.
LEMMA CloseKeeps ==
  ASSUME CourtInv, Calm, UNCHANGED keeperVars, NEW d \in Desks, NEW state, Closed(d, state),
         Goes(d, "nothing") \/ (doing' = doing /\ doing[d] # "close"), status' \notin Early, Closable(state)'
  PROVE  CourtInv'
<1>1. PICK next : next = doing'[d]
  OBVIOUS
<1>2. DeskMoves(d, state, next)
  BY <1>1 DEF DeskMoves, Goes, Closed, CourtInv, Typed
<1> QED
  BY <1>2, MoveKeeps

LEMMA EvidenceKeeps == ASSUME CourtInv, NEW d \in Desks, Evidence(d) PROVE CourtInv'
<1>1. /\ (\E case \in Views : OpenIn(case)) /\ rows' = [rows EXCEPT ![d] = "open"]
      /\ UNCHANGED chainVars /\ UNCHANGED keeperVars /\ doing' = doing
  BY DEF Evidence, submit_evidence
<1>2. Calm
  BY <1>1, CalmStutter
<1>3. status' \notin Early
  BY <1>1 DEF OpenIn, Views, View, CourtInv, PastTrue, chainVars, Early
<1>4. PICK next : next = doing[d]
  OBVIOUS
<1>5. DeskMoves(d, "open", next)
  BY <1>1, <1>3, <1>4 DEF DeskMoves, CourtInv, Typed
<1> QED
  BY <1>1, <1>2, <1>5, MoveKeeps

\* What a desk reads of an opened case, and closes its row with.
LEMMA ReadClosable ==
  ASSUME CourtInv, NEW d \in Desks, rows[d] # "absent" \/ doing[d] = "close", NEW case \in Views,
         ~OpenIn(case) \/ doing[d] = "close"
  PROVE  status \notin Early /\ Closable(case.status)
<1>1. status \notin Early
  BY DEF CourtInv, RowsFollow, Ended, Undecided, Early
<1>2. CASE case = View
  BY <1>1, <1>2 DEF OpenIn, View, Closable, Ended, Undecided, Early, CourtInv, RowsFollow
<1>3. CASE case \in past
  BY <1>1, <1>3 DEF CourtInv, PastTrue, Closable, Ended
<1> QED
  BY <1>1, <1>2, <1>3 DEF Views

LEMMA AdvanceKeeps == ASSUME CourtInv, NEW d \in Desks, advance(d), UNCHANGED keeperVars PROVE CourtInv'
<1>1. Calm /\ UNCHANGED <<status, lag>> /\ rows[d] = "open" /\ doing[d] = "nothing"
  BY CalmStutter DEF advance, chainVars
<1>2. CASE \E next \in {"time out", "draw", "gather"} : Goes(d, next) /\ rows' = rows
  <2>1. PICK next \in {"time out", "draw", "gather"} : Goes(d, next) /\ rows' = rows
    BY <1>2
  <2> QED
    BY <1>1, <2>1, GoesKeeps
<1>3. CASE \E case \in Views : ~OpenIn(case) /\ Closed(d, case.status) /\ doing' = doing
  <2>1. PICK case \in Views : ~OpenIn(case) /\ Closed(d, case.status) /\ doing' = doing
    BY <1>3
  <2>2. PICK state : state = case.status
    OBVIOUS
  <2>3. status \notin Early /\ Closable(state)
    BY <1>1, <2>1, <2>2, ReadClosable
  <2>4. status' \notin Early /\ Closable(state)'
    BY <1>1, <2>3, ClosableStays DEF Calm
  <2> QED
    BY <1>1, <2>1, <2>2, <2>4, CloseKeeps
<1> QED
  BY <1>2, <1>3 DEF advance

LEMMA TimeOutKeeps == ASSUME CourtInv, NEW d \in Desks, time_out(d), UNCHANGED keeperVars PROVE CourtInv'
<1>1. CASE Mined(TimedOut)
  <2>1. Calm
    BY <1>1, CalmEffect DEF Mined
  <2>2. status' \in {"jury_unavailable", "timed_out"} /\ (kind = "capability" => status' = "timed_out")
    BY <1>1 DEF Mined, TimedOut, Becomes
  <2>3. Ended' /\ status' \notin Early /\ (kind = "capability" => Closable("timed_out")')
    BY <2>2 DEF Ended, Undecided, Early, Closable
  <2>4. \/ Goes(d, "close") /\ rows' = rows
        \/ kind = "capability" /\ Goes(d, "nothing") /\ Closed(d, "timed_out")
        \/ Goes(d, "nothing") /\ rows' = rows
    BY DEF time_out
  <2> QED
    BY <2>1, <2>3, <2>4, GoesKeeps, CloseKeeps
<1>2. CASE Failed(CanTimeOut, TimedOut) /\ Goes(d, "nothing") /\ rows' = rows
  <2>1. Calm
    BY <1>2, CalmEffect DEF Failed
  <2> QED
    BY <1>2, <2>1, GoesKeeps
<1> QED
  BY <1>1, <1>2 DEF time_out

LEMMA CloseStepKeeps == ASSUME CourtInv, NEW d \in Desks, close(d), UNCHANGED keeperVars PROVE CourtInv'
<1>1. Calm /\ UNCHANGED <<status, lag>> /\ doing[d] = "close" /\ Goes(d, "nothing")
  BY CalmStutter DEF close, chainVars
<1>2. CASE rows' = rows
  BY <1>1, <1>2, GoesKeeps
<1>3. CASE \E case \in Views : Closed(d, case.status)
  <2>1. PICK case \in Views : Closed(d, case.status)
    BY <1>3
  <2>2. PICK state : state = case.status
    OBVIOUS
  <2>3. status \notin Early /\ Closable(state)
    BY <1>1, <2>1, <2>2, ReadClosable
  <2>4. status' \notin Early /\ Closable(state)'
    BY <1>1, <2>3, ClosableStays DEF Calm
  <2> QED
    BY <1>1, <2>1, <2>2, <2>4, CloseKeeps
<1> QED
  BY <1>2, <1>3 DEF close

LEMMA DrawKeeps == ASSUME CourtInv, NEW d \in Desks, draw(d), UNCHANGED keeperVars PROVE CourtInv'
<1>1. Calm /\ rows' = rows /\ Goes(d, "nothing")
  BY CalmEffect DEF draw, Done, Mined, Failed
<1> QED
  BY <1>1, GoesKeeps

LEMMA AskKeeps == ASSUME CourtInv, NEW d \in Desks, NEW j \in Jurors, ask(d, j), UNCHANGED keeperVars PROVE CourtInv'
<1>1. Calm /\ UNCHANGED <<rows, doing>>
  BY CalmStutter DEF ask
<1> QED
  BY <1>1, CalmKeeps

LEMMA VoteKeeps == ASSUME CourtInv, NEW d \in Desks, vote(d), UNCHANGED keeperVars PROVE CourtInv'
<1>1. Goes(d, "nothing")
  BY DEF vote
<1>2. CASE UNCHANGED <<chainVars, rows, answers>>
  BY <1>1, <1>2, CalmStutter, GoesKeeps
<1>3. ASSUME NEW confirmed \in BOOLEAN,
             LET permits == Quorum(d, confirmed)
             IN \/ Mined(Voted(permits)) /\ Closed(d, Verdict(confirmed))
                \/ Failed(CanVote(permits), Voted(permits)) /\ UNCHANGED <<rows, answers>>
      PROVE  CourtInv'
  <2> DEFINE permits == Quorum(d, confirmed)
  <2>1. \A p \in permits : p.confirmed = confirmed
    BY DEF Quorum, Saying
  <2> HIDE DEF permits
  <2>2. CASE Mined(Voted(permits)) /\ Closed(d, Verdict(confirmed))
    <3>1. Calm
      BY <2>2, CalmEffect DEF Mined
    <3>2. status' = Verdict(confirmed)
      BY <2>1, <2>2 DEF Mined, Voted, Becomes
    <3>3. PICK state : state = Verdict(confirmed)
      OBVIOUS
    <3>4. status' \notin Early /\ Closable(state)'
      BY <3>2, <3>3 DEF Verdict, Ended, Undecided, Early, Closable
    <3> QED
      BY <1>1, <2>2, <3>1, <3>3, <3>4, CloseKeeps
  <2>3. CASE Failed(CanVote(permits), Voted(permits)) /\ UNCHANGED <<rows, answers>>
    <3>1. Calm
      BY <2>3, CalmEffect DEF Failed
    <3> QED
      BY <1>1, <2>3, <3>1, GoesKeeps
  <2> QED
    BY <1>3, <2>2, <2>3 DEF permits
<1> QED
  BY <1>2, <1>3 DEF vote

LEMMA DeskKeeps == ASSUME CourtInv, NEW d \in Desks, DeskStep(d) \/ Evidence(d) \/ DeskRestarts(d) PROVE CourtInv'
<1>1. CASE DeskRestarts(d)
  <2>1. Calm /\ rows' = rows /\ Goes(d, "nothing") /\ UNCHANGED keeperVars
    BY <1>1, CalmRestart DEF DeskRestarts, restart_desk
  <2> QED
    BY <2>1, GoesKeeps
<1>2. CASE DeskStep(d)
  BY <1>2, AdvanceKeeps, TimeOutKeeps, CloseStepKeeps, DrawKeeps, VoteKeeps, AskKeeps DEF DeskStep, cycle
<1> QED
  BY <1>1, <1>2, EvidenceKeeps

-----------------------------------------------------------------------------
(* The keeper *)

\* The keeper changes only what it has noted, while the chain is calm.
LEMMA KeeperKeeps ==
  ASSUME CourtInv, Calm, UNCHANGED <<rows, doing>>, cursor' \in Nat, cursor' <= Len(log), duties' \in [Duties -> Int],
         \A duty \in Duties :
           (Needed(duty)' /\ \E i \in 1 .. cursor' : duty \in log[i]) => duties'[duty] # never,
         Timed'
  PROVE  CourtInv'
<1>1. UNCHANGED <<now, dates, log>> /\ Onward
  BY DEF Calm
<1>2. Typed'
  BY <1>1 DEF CourtInv, Typed, dates
<1>3. RowsFollow' /\ Logged' /\ PastTrue'
  BY <1>1, RowsStay, LogStays, PastStays DEF CourtInv
<1>4. DutyKept'
  BY <1>1 DEF DutyKept
<1> QED
  BY <1>2, <1>3, <1>4 DEF CourtInv

\* It may also change nothing of that.
LEMMA KeeperRests ==
  ASSUME CourtInv, Calm, UNCHANGED <<rows, doing, cursor, duties>>, due' \subseteq due PROVE CourtInv'
<1>1. \A duty \in Duties :
        (Needed(duty)' /\ \E i \in 1 .. cursor' : duty \in log[i]) => duties'[duty] # never
  BY CalmNeeds DEF CourtInv, DutyKept
<1>2. Timed'
  BY CalmTimes DEF CourtInv, Timed, Calm
<1> QED
  BY <1>1, <1>2, KeeperKeeps DEF CourtInv, Typed

\* What is noted of a block is due some time.
LEMMA Noted ==
  ASSUME Typed, Timed, Calm, NEW events \in SUBSET Duties, noted(events), \A duty \in events : Happened(duty), due' = due
  PROVE  /\ duties' \in [Duties -> Int] /\ Timed'
         /\ \A duty \in Duties : duties[duty] # never \/ duty \in events => duties'[duty] # never
<1>1. \A duty \in Duties : DueAt(duty) \in Nat
  BY KeeperAssumption, SMTT(30) DEF DueAt, Duties, Typed
<1>2. /\ duties' \in [Duties -> Int]
      /\ \A duty \in Duties : duties[duty] # never \/ duty \in events => duties'[duty] # never
  BY <1>1, SMTT(30) DEF noted, Typed, never
<1>3. \A duty \in Duties : duties'[duty] # never => Happened(duty) /\ duties'[duty] = DueAt(duty)
  BY <1>1 DEF noted, Timed
<1>4. Timed'
  BY <1>3, CalmTimes DEF Timed, Calm, never
<1> QED
  BY <1>2, <1>4

LEMMA ScanKeeps == ASSUME CourtInv, scan, UNCHANGED <<jurorVars, deskVars>> PROVE CourtInv'
<1>1. /\ UNCHANGED <<rows, doing, due>> /\ cursor \in Nat /\ cursor < Len(log) /\ Len(log) \in Nat
      /\ log[cursor + 1] \subseteq Duties /\ \A duty \in log[cursor + 1] : Happened(duty)
  BY DEF scan, deskVars, CourtInv, Typed, Logged
<1>2. CASE noted(log[cursor + 1]) /\ cursor' = cursor + 1 /\ UNCHANGED chainVars
  <2>1. PICK events \in SUBSET Duties : events = log[cursor + 1]
    BY <1>1
  <2>2. Calm
    BY <1>2, CalmStutter
  <2>3. /\ duties' \in [Duties -> Int] /\ Timed'
        /\ \A duty \in Duties : duties[duty] # never \/ duty \in events => duties'[duty] # never
    BY <1>1, <1>2, <2>1, <2>2, Noted DEF CourtInv
  <2>4. ASSUME NEW duty \in Duties, Needed(duty)', NEW i \in 1 .. cursor', duty \in log[i] PROVE duties'[duty] # never
    <3>1. CASE i = cursor + 1
      BY <2>1, <2>3, <2>4, <3>1
    <3>2. CASE i # cursor + 1
      <4>1. i \in 1 .. cursor
        BY <1>1, <1>2, <3>2
      <4>2. Needed(duty)
        BY <2>2, <2>4, CalmNeeds
      <4> QED
        BY <2>3, <2>4, <4>1, <4>2 DEF CourtInv, DutyKept
    <3> QED
      BY <3>1, <3>2
  <2> QED
    BY <1>1, <1>2, <2>2, <2>3, <2>4, KeeperKeeps
<1>3. CASE \E events \in SUBSET log[cursor + 1] : noted(events) /\ Restarted /\ UNCHANGED cursor
  <2>1. PICK events \in SUBSET log[cursor + 1] : noted(events) /\ Restarted /\ UNCHANGED cursor
    BY <1>3
  <2>2. Calm
    BY <2>1, CalmRestart
  <2>3. /\ duties' \in [Duties -> Int] /\ Timed'
        /\ \A duty \in Duties : duties[duty] # never => duties'[duty] # never
    BY <1>1, <2>1, <2>2, Noted DEF CourtInv
  <2>4. \A duty \in Duties :
          (Needed(duty)' /\ \E i \in 1 .. cursor' : duty \in log[i]) => duties'[duty] # never
    BY <2>1, <2>2, <2>3, CalmNeeds DEF CourtInv, DutyKept
  <2> QED
    BY <1>1, <2>1, <2>2, <2>3, <2>4, KeeperKeeps
<1> QED
  BY <1>2, <1>3 DEF scan

LEMMA ActKeeps == ASSUME CourtInv, act, UNCHANGED <<jurorVars, deskVars>> PROVE CourtInv'
<1>1. Calm /\ UNCHANGED <<rows, doing, cursor, duties, now>>
  BY CalmStutter DEF act, deskVars, Calm
<1>2. due' \subseteq Duties /\ \A duty \in due' : Happened(duty) /\ DueAt(duty) <= now
  BY DEF act, CourtInv, Timed
<1>3. Timed'
  BY <1>1, <1>2, CalmTimes DEF CourtInv, Timed, never
<1> QED
  BY <1>1, <1>3, KeeperKeeps, CalmNeeds DEF CourtInv, Typed, DutyKept

\* A duty is dropped when nobody needs it.
LEMMA DropKeeps ==
  ASSUME CourtInv, Calm, UNCHANGED <<rows, doing, cursor>>, due' \subseteq due,
         NEW duty \in Duties, Dropped(duty), ~Needed(duty)'
  PROVE  CourtInv'
<1>1. /\ duties' \in [Duties -> Int] /\ duties'[duty] = never
      /\ \A other \in Duties : other # duty => duties'[other] = duties[other]
  BY DEF Dropped, CourtInv, Typed, never
<1>2. cursor' \in Nat /\ cursor' <= Len(log)
  BY DEF CourtInv, Typed
<1>3. \A other \in Duties :
        (Needed(other)' /\ \E i \in 1 .. cursor' : other \in log[i]) => duties'[other] # never
  BY <1>1, CalmNeeds DEF CourtInv, DutyKept
<1>4. Timed'
  BY <1>1, CalmTimes DEF CourtInv, Timed, Calm, never
<1> QED
  BY <1>1, <1>2, <1>3, <1>4, KeeperKeeps

\* A node that lags never hides that a due call is needed: what it has not seen yet is due later.
LEMMA NeedSeen ==
  ASSUME CourtInv, NEW duty \in due, NEW case \in Views, NEW jury \in Views, Needed(duty)
  PROVE  NeededIn(duty, case, jury)
<1>1. duty \in Duties /\ DueAt(duty) <= now
  BY DEF CourtInv, Timed
<1>2. now \in Nat /\ release_at \in Nat /\ resolve_at \in Nat /\ round_at \in Nat /\ grace \in Nat
  BY KeeperAssumption DEF CourtInv, Typed
<1>3. ASSUME NEW read \in Views
      PROVE  /\ status = "pending" => read.status = "pending" \/ release_at > now
             /\ status = "disputed" => read.status = "disputed" \/ (resolve_at > now /\ round_at > now)
             /\ status = "disputed" /\ assignment = "pending" => read.assignment = "pending" \/ round_at > now
  BY <1>3 DEF Views, View, CourtInv, PastTrue
<1>4. CASE duty = "release"
  <2>1. kind = "dispute" /\ status = "pending" /\ release_at + grace <= now
    BY <1>1, <1>4 DEF Needed, NeededIn, settlement_status, View, DueAt
  <2>2. case.status = "pending"
    BY <1>2, <1>3, <2>1
  <2> QED
    BY <1>4, <2>1, <2>2 DEF NeededIn, settlement_status
<1>5. CASE duty = "dispute"
  <2>1. kind = "dispute" /\ status = "disputed" /\ resolve_at + grace <= now
    BY <1>1, <1>5 DEF Needed, NeededIn, settlement_status, View, DueAt
  <2>2. case.status = "disputed"
    BY <1>2, <1>3, <2>1
  <2> QED
    BY <1>5, <2>1, <2>2 DEF NeededIn, settlement_status
<1>6. CASE duty = "jury"
  <2>1. kind = "dispute" /\ status = "disputed" /\ assignment = "pending" /\ round_at + grace \div 12 <= now
    BY <1>1, <1>6 DEF Needed, NeededIn, settlement_status, View, DueAt
  <2>2. grace \div 12 \in Nat
    BY <1>2
  <2>3. ~(round_at > now)
    BY <1>2, <2>1, <2>2
  <2>4. case.status = "disputed" /\ jury.assignment = "pending"
    BY <1>3, <2>1, <2>3
  <2> QED
    BY <1>6, <2>1, <2>4 DEF NeededIn, settlement_status
<1> QED
  BY <1>1, <1>4, <1>5, <1>6 DEF Duties

LEMMA ConsiderKeeps ==
  ASSUME CourtInv, NEW duty \in Duties, consider(duty), UNCHANGED <<jurorVars, deskVars>> PROVE CourtInv'
<1>1. Calm /\ UNCHANGED <<rows, doing, cursor>> /\ duty \in due /\ due' \subseteq due
  BY CalmStutter DEF consider, deskVars
<1>2. CASE duties' = duties
  BY <1>1, <1>2, KeeperRests
<1>3. CASE \E case, jury \in Views : ~NeededIn(duty, case, jury) /\ Dropped(duty)
  <2>1. Dropped(duty) /\ ~Needed(duty)
    BY <1>1, <1>3, NeedSeen
  <2>2. ~Needed(duty)'
    BY <1>1, <2>1, CalmNeeds
  <2> QED
    BY <1>1, <2>1, <2>2, DropKeeps
<1> QED
  BY <1>2, <1>3 DEF consider

LEMMA PerformKeeps ==
  ASSUME CourtInv, NEW duty \in Duties, perform(duty), UNCHANGED <<jurorVars, deskVars>> PROVE CourtInv'
<1>1. UNCHANGED <<rows, doing, cursor, due>>
  BY DEF perform, deskVars
<1>2. CASE Mined(Called(duty)) /\ Dropped(duty)
  <2>1. Calm
    BY <1>2, CalmEffect DEF Mined, Called, Duties
  <2>2. ~Needed(duty)'
    BY <1>2 DEF Mined, Called, Duties, Needed, NeededIn, settlement_status, View, Released, TimedOut, Drawn, Becomes
  <2> QED
    BY <1>1, <1>2, <2>1, <2>2, DropKeeps
<1>3. CASE Failed(Can(duty), Called(duty)) /\ UNCHANGED duties
  <2>1. Calm
    BY <1>3, CalmEffect DEF Failed, Called, Duties
  <2> QED
    BY <1>1, <1>3, <2>1, KeeperRests
<1> QED
  BY <1>2, <1>3 DEF perform

LEMMA KeeperStepKeeps == ASSUME CourtInv, KeeperStep \/ KeeperRestarts PROVE CourtInv'
<1>1. CASE KeeperRestarts
  <2>1. Calm /\ UNCHANGED <<rows, doing, cursor, duties>> /\ due' \subseteq due
    BY <1>1, CalmRestart DEF KeeperRestarts, restart_keeper, deskVars
  <2> QED
    BY <2>1, KeeperRests
<1> QED
  BY <1>1, ScanKeeps, ActKeeps, ConsiderKeeps, PerformKeeps DEF KeeperStep, run

-----------------------------------------------------------------------------
LEMMA CourtInvInit == Init => CourtInv
<1> SUFFICES ASSUME Init PROVE CourtInv
  OBVIOUS
<1>1. /\ now = 0 /\ release_at = 0 /\ resolve_at = 0 /\ round_at = 0 /\ past = {} /\ log = <<>> /\ cursor = 0
      /\ duties = [duty \in Duties |-> never] /\ due = {}
      /\ rows = [d \in Desks |-> "absent"] /\ doing = [d \in Desks |-> "nothing"]
  BY DEF Init, ChainInit, DeskInit, KeeperInit
<1>2. Typed
  BY <1>1 DEF Typed, never
<1>3. RowsFollow /\ Logged /\ PastTrue /\ Timed
  BY <1>1 DEF RowsFollow, Logged, PastTrue, Timed
<1>4. DutyKept
  BY <1>1 DEF DutyKept
<1> QED
  BY <1>2, <1>3, <1>4 DEF CourtInv

LEMMA CourtInvNext == CourtInv /\ [Next]_vars => CourtInv'
<1> SUFFICES ASSUME CourtInv, [Next]_vars PROVE CourtInv'
  OBVIOUS
<1>1. CASE UNCHANGED vars
  <2>1. Calm /\ UNCHANGED <<keeperVars, rows, doing>>
    BY <1>1, CalmStutter DEF vars, deskVars
  <2> QED
    BY <2>1, CalmKeeps
<1> QED
  BY <1>1, OthersKeep, JurorKeeps, KeeperStepKeeps, DeskKeeps DEF Next

LEMMA CourtInvAlways == Spec => []CourtInv
BY CourtInvInit, CourtInvNext, PTL DEF Spec

\* A row a desk has closed says how the chain ended the case, and only where nodes lag may the case not have ended
\* (disputes.py:222-232).
THEOREM RowsClosedTrue == Spec => []ClosedTrue
<1>1. CourtInv => ClosedTrue
  BY DEF CourtInv, RowsFollow, Closable, ClosedTrue
<1> QED
  BY <1>1, CourtInvAlways, PTL

\* While the chain needs a call of a block the keeper has passed, the keeper has it noted, whatever the
\* nodes it asks have not seen yet (keeper.py:60-148).
THEOREM NoDutyLost == Spec => []DutyKept
<1>1. CourtInv => DutyKept
  BY DEF CourtInv
<1> QED
  BY <1>1, CourtInvAlways, PTL
=============================================================================
