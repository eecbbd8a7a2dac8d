-------------------------- MODULE RelaySettlement --------------------------
(***************************************************************************)
(* The receipt queue by itself: dispatches end with receipts of any fee,   *)
(* two threads settle, one releases, the Relay crashes.                    *)
(***************************************************************************)
EXTENDS RelayQueue

\* A Provider's answer came back with a receipt (RelayCore._dispatch); the same one may come back again.
Arrive(r) ==
  /\ \E fee \in 1 .. MaxFee[r] : add(r, fee)
  /\ rows' # rows
  /\ UNCHANGED <<settleLock, workers, chainVars, crashes>>

QueueNext ==
  \/ \E r \in Receipts : Arrive(r)
  \/ \E w \in Settlers : Work(w)
  \/ Environment
  \/ StopWorkers

QueueSpec == QueueInit /\ [][QueueNext]_qvars

-----------------------------------------------------------------------------
TypeOK ==
  /\ rows \in [Receipts -> Row]
  /\ settleLock \in Settlers \cup {NoOne}
  /\ workers \in [Settlers -> [pc: WorkerPcs, todo: SUBSET Receipts, done: SUBSET Receipts, tx: TxStates]]
  /\ chain \in [status: [Receipts -> ChainStates], balance: [Owners -> Nat], active: SUBSET Keys,
               spent: [Keys -> Nat], exposure: [Providers -> Nat]]
  /\ mempool \in Seq([kind: {"settle", "release"}, items: SUBSET Receipts, by: Settlers \cup {NoOne}])
  /\ funded \in BOOLEAN /\ crashes \in 0 .. MaxCrashes

\* What the queue is for (core.py:362): a row never disappears and never goes back, whichever of two threads
\* writes it last and however often its receipt comes in again.
Advance ==
  \A r \in Receipts :
    \/ rows'[r].state = rows[r].state
    \/ <<rows[r].state, rows'[r].state>> \in
         {<<"none", "queued">>, <<"queued", "settled">>, <<"queued", "rejected">>, <<"settled", "released">>}

RowsAdvance == [][Advance]_qvars

-----------------------------------------------------------------------------
\* What a thread began it goes on with; the settlement loop comes to its queue in every cycle, before it
\* releases anything (server.py:169-188); transactions are mined in the end, and somebody funds the account.
Fairness ==
  /\ \A w \in Settlers : WF_qvars(Work(w))
  /\ SF_qvars(TakeBatch(Releaser))
  /\ WF_qvars(Mine) /\ WF_qvars(TopUp)

FairSpec == QueueSpec /\ Fairness

\* No receipt waits for ever: not behind a bad one at the head of the queue, nor after a crash, a lost
\* transaction or a time without gas.
QueueDrains == \A r \in Receipts : rows[r].state = "queued" ~> rows[r].state \in {"settled", "released", "rejected"}
=============================================================================
